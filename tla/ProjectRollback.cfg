CONSTANTS
  Procs = {p1}
  Names = {alpha}
  Builtins = {}
  MaxOverlaps = 0
  MaxFaults = 1
  MaxCrashes = 0
  User = user
SPECIFICATION ProjectSpec
PROPERTY
  RollbackRestores
CHECK_DEADLOCK FALSE
