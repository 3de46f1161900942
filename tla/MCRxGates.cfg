SPECIFICATION Spec
CONSTANTS
  Period = 8
  DupWindow = 3
  Tolerance = 1
  MaxMissed = 2
  MaxNoise = 3
INVARIANTS
  OneAcceptPerBurst
  RealNeverDropped
PROPERTIES
  AstrayEnds
