CONSTANTS
  Procs = {p1, p2}
  Names = {alpha}
  Builtins = {}
  MaxOverlaps = 1
  MaxFaults = 0
  MaxCrashes = 0
  User = user
SPECIFICATION ProjectSpec
INVARIANT
  CreatedKeepsDirectory
CHECK_DEADLOCK FALSE
