CONSTANTS
  Headers <- MCHeaders
  Rows <- MCRows
  MaxRows = 4
SPECIFICATION DatasetSpec
INVARIANTS
  VerdictMatchesRows
  LoadedDataIsUsable
CHECK_DEADLOCK FALSE
