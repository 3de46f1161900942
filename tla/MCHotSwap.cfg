SPECIFICATION Spec
CONSTANTS
  gain = gain
  ex = ex
  low = low
  high = high
  None = None
  Zombie = Zombie
  Keys <- MCKeys
  Values <- MCValues
  ConfCmd <- MCConfCmd
  Ids = {c1, c2}
  MaxWrites = 3
  MaxFailures = 2
  MaxRestarts = 2
INVARIANTS
  OneReceiver
  FileHonoured
PROPERTIES
  ImplementsOneChild
