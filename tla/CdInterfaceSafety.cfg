SPECIFICATION Spec
CONSTANTS
    Discs <- SafetyDiscs
    NoDisc = NoDisc
    Blank = Blank
    SBSize = 3
    max_ra = 2
    MaxPending = 2
    MaxSectors = 1
INVARIANTS
    TypeOK
    NoUseAfterFree
    HowFarAheadInRange
    ReadAheadResident
    RequestInFlight
    BufferHoldsThisDisc
