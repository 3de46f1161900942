SPECIFICATION LinkSpec
CONSTANTS
  Tx = {1, 2}
  Period = 2
  MaxNow <- MCMaxNow
  MaxBoundaries = 3
  MaxRespawns = 1
  Window = 2
  Every = 3
  MaxPending = 2
  MaxInBlock = 2
  MaxFailures = 3
  MaxDropped = 1
INVARIANTS
  CountsWhatWasRead
  CountWithinSlots
  FailuresBooked
CHECK_DEADLOCK FALSE
