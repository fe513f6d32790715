SPECIFICATION Spec
CONSTANTS
  Modules <- ThreeModules
  NoGame = NoGame
  MaxDiscs = 2
INVARIANTS
  NoDiscLeaked
CHECK_DEADLOCK FALSE
