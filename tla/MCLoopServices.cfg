SPECIFICATION Spec
CONSTANTS
  CACHE_TIMEOUT_SECONDS = 1
  WIND_BASELINE_TTL_SECONDS = 1
  MAX_WIND_DELTA = 1
  MAX_PLAUSIBLE_WIND_SPEED = 3
  WIND_WARMUP_PACKETS = 2
  FetchInterval = 0
  TtlDefault = 1
  CurrentInterval = 2
  Slow = {"outTemp", "outHumidity"}
  Stations <- MCStations
  AnswerMax = 1
  Threads = {1, 2}
  MaxNow = 3
  MaxPackets = 4
  MaxWriteFailures = 1
  MaxRestarts = 1
INVARIANTS
  ServedAge
  EpochReveals
  WindNeverFrozen
CHECK_DEADLOCK FALSE
