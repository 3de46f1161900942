SPECIFICATION Spec
CONSTANTS
  CounterSize = 10
  MaxTips = 2
  WrapDrop = 7
  NoCount = NoCount
  MaxFallen = 12
  MaxDisturbances = 4
INVARIANTS
  BaselineInv
  PhantomBound
PROPERTIES
  ExactBooking
  NeverStalls
CHECK_DEADLOCK FALSE
