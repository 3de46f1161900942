SPECIFICATION CampaignSpec
CONSTANTS
  Schedule <- MCSchedule
  BASELINE = "BASELINE"
  NONE = "NONE"
  ABORT_SAMPLES = 1
  Mishaps = {"fault", "reboot", "abort", "clear"}
  MaxMishaps = 1
INVARIANTS
  OneAtATime
  RecordIsTrue
  StopMeansBaseline
PROPERTIES
  HarvestTrue
  SelfTerminates
