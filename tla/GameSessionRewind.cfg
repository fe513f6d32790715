SPECIFICATION Spec
CONSTANTS
  Modules <- ThreeModules
  NoGame = NoGame
  MaxDiscs = 2
INVARIANTS
  RewindNeedsStates
CHECK_DEADLOCK FALSE
