CONSTANTS
  Procs = {p1, p2}
  Names = {alpha, beta}
  Builtins = {}
  MaxOverlaps = 1
  MaxFaults = 0
  MaxCrashes = 0
  User = user
SPECIFICATION ProjectSpec
INVARIANT
  CreatedStaysRegistered
CHECK_DEADLOCK FALSE
