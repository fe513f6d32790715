SPECIFICATION Spec
CONSTANTS
  SRW_NUM = 3
  Joys = {a, m}
  SplitJoys = {m}
  Commands = {}
  MovieSlots = {0}
  Garbage = Garbage
  Zero = Zero
  MaxFrames = 2
  MaxRecords = 3

PROPERTY FinishedMovieReplays
CONSTRAINT MovieIntact
