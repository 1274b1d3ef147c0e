CONSTANTS
  Procs = {p1, p2, p3}
  Names = {alpha, beta, candle_pulse}
  Builtins = {candle_pulse}
  MaxOverlaps = 2
  MaxFaults = 1
  MaxCrashes = 1
  User = user
SYMMETRY Interchangeable
SPECIFICATION ProjectSpec
INVARIANTS
  QuietProjectIsConsistent
  RegisteredFilesSurviveCrash
  OneWinnerPerName
PROPERTIES
  FailedCommandIsContained
  DoneCommandChangesItsName
CHECK_DEADLOCK FALSE
