SPECIFICATION Spec
CONSTANTS
  Jobs = {"ours", "theirs"}
  Ours = {"ours"}
  TTL_S = 2
  MaxLeases = 2
  MaxKills = 1
  LEASE_YIELD_POST_INTERVAL_S = 3
  PostInterval = 1
  Stale = 1
  MaxBacklog = 1
  MaxTries = 2
  LoginWait = 1
  Threshold = 2
  INPUT_STALE_S = 1
  Kinds = {"influx", "site"}
  MaxNow <- MCMaxNow
  MaxFailures = 1
  MaxRestarts = 1
  MaxRotations = 1
  MaxFreezes = 1
INVARIANTS
  Announced
  GapBounded
  TidingsTrue
  NoBlindVerdict
PROPERTIES
  YieldsToTheLiving
CHECK_DEADLOCK FALSE
