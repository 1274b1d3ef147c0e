CONSTANTS
  MaxSlippageBps = 10
  Procs = {p1, p2}
  NoCandles = noCandles
  Absent = absent
  Inaccessible = inaccessible
  DataFiles <- MCDataFiles
  CandlesIn <- MCCandlesIn
  Sources <- MCSources
  Behaviour <- MCBehaviour
  Failing <- MCFailing
  Helpers <- MCHelpers
  Versions <- MCVersions
  Workloads <- EditWorkloads
  MaxEdits = 2
  MaxFaults = 0
SPECIFICATION CommandSpec
INVARIANT
  IdentityCoversInputs
CHECK_DEADLOCK FALSE
