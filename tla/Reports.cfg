CONSTANTS
  Procs = {p1, p2, p3}
  Stamps = {stamp1}
  Earlier = earlier
  Suffixes = {0, 1, 2, 3}
  MaxFaults = 1
  MaxCrashes = 1
SPECIFICATION FairReports
INVARIANTS
  PublishedIsComplete
  FailsOnlyWhenRaced
PROPERTIES
  StoreImplemented
  EveryRunEnds
CHECK_DEADLOCK FALSE
