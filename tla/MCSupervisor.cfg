SPECIFICATION Spec
CONSTANTS
  StallTimeout = 4
  InitGrace = 7
  Budget = 1
  MaxInit = 6
  HopGap = 1
  MaxHold = 2
  MaxQueue = 2
  MaxSwaps = 2
  MaxAge = 13
INVARIANTS
  HealthyNeverTornDown
  SilenceBounded
  MuteMeansMute
PROPERTIES
  DeadChildNoticed
