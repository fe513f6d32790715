SPECIFICATION Spec
CONSTANTS
  SRW_NUM = 2
  Joys = {a, m}
  SplitJoys = {m}
  Commands = {reset}
  MovieSlots = {0, 1}
  Garbage = Garbage
  Zero = Zero
  MaxFrames = 2
  MaxRecords = 3
INVARIANTS
  MovieReplays
PROPERTY FullRingMovieReplays
CONSTRAINT MovieIntact
