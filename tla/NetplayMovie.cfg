SPECIFICATION Spec
CONSTANTS
  Clients = {c1, c2}
  Ports <- TwoPorts
  Device <- SameDevice
  PortLen <- PadSize
  Masks <- SecondPort
  Joys = {idle, press}
  Idle = idle
  Commands = {reset}
  Torn = Torn
  Recorders = {c2}
  NoState = NoState
  NoClient = NoClient
  MaxLag = 1
  MaxEvents = 3
INVARIANTS
  MovieFollows
CHECK_DEADLOCK FALSE
