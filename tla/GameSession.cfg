SPECIFICATION Spec
CONSTANTS
  Modules <- ThreeModules
  NoGame = NoGame
  MaxDiscs = 2
INVARIANTS
  TypeOK
  DiscOfThisGame
  RingOfThisGame
  SettingApplied
  RecordersKnown
  NetplayAgreed
CHECK_DEADLOCK FALSE
