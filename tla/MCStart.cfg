SPECIFICATION StartSpec
CONSTANTS
  Root = {"weewx.conf", "weewx.sdb"}
  Below = {"skin.conf"}
  Keys = {"latitude", "band"}
  Values = {"a", "b"}
  MaxStarts = 3
  MaxEdits = 2
INVARIANTS
  RunsAsAsked
PROPERTIES
  OwnFilesKept
CHECK_DEADLOCK FALSE
