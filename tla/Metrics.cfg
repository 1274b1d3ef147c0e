CONSTANTS
  Values <- MCValues
  MaxLength = 6
SPECIFICATION MCSpec
INVARIANTS
  DrawdownMatchesCurve
  RecoveryIsFirstReturn
  StreaksAreLongestRuns
CHECK_DEADLOCK FALSE
