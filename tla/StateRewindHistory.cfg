SPECIFICATION Spec
CONSTANTS
  SRW_NUM = 3
  Joys = {a, m}
  SplitJoys = {m}
  Commands = {reset}
  MovieSlots = {}
  Garbage = Garbage
  Zero = Zero
  MaxFrames = 3
  MaxRecords = 1
INVARIANTS
  TypeOK
  RingUnpacks
PROPERTY ImplementsHistory
