SPECIFICATION Spec
CONSTANTS
    Discs <- ServiceDiscs
    NoDisc = NoDisc
    Blank = Blank
    SBSize = 2
    max_ra = 1
    MaxPending = 2
    MaxSectors = 2
INVARIANT
    IInv
PROPERTIES
    ImplementsService
    ServiceCallsReturn
