SPECIFICATION FairSpec
CONSTANTS
  Systems <- BothSystems
  Commands <- GameCommands
  SectorSize = 2
  RawSize = 3
  FxFifoSize = 5
  LeadOut = 2
  AudioSectors <- AudioTrack
  ZeroCount = 3
  MaxEvents = 1
INVARIANTS
  TypeOK
  ReaderOwnsDrive
  Outcome
PROPERTIES
  CommandsIntact
  BusReleased
