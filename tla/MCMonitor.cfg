SPECIFICATION WatchSpec
CONSTANTS
  Window = 2
  Sustain = 2
  Full = 1
  MinGood = 2
  Verify = 3
  Cooldown = 5
  MaxTries = 1
  Stale = 1
  MaxLag = 3
  MaxEpisodes = 2
  MaxRestarts = 1
  MaxFailures = 1
  Day = 6
  RF_REPORT_INTERVAL_HOURS = 4
  BATTERY_LOW_MIN_MINUTES = 2
  RowKinds <- MCRowKinds
  MaxClock = 10
  MaxMishaps = 1
INVARIANTS
  RemediesBounded
  EffectiveMeansHeard
  EpisodesKept
  ReportsTrue
PROPERTIES
  AlertMeansLoss
