SPECIFICATION FairSpec
CONSTANTS
  Length = 4
  Modulus = 8
  MaxCount = 4
  Chunk = 3
  Speeds <- TwoSpeeds
INVARIANTS
  TypeOK
  NothingClipped
  BuffersOutliveCallbacks
PROPERTIES
  ImplementsPipe
  AddSamplesReturns
  ShutdownReturns
CHECK_DEADLOCK FALSE
