CONSTANTS
  MaxSlippageBps = 10
  Procs = {p1, p2}
  NoCandles = noCandles
  Absent = absent
  Inaccessible = inaccessible
  DataFiles <- MCDataFiles
  CandlesIn <- MCCandlesIn
  Sources <- MCSources
  Behaviour <- MCBehaviour
  Failing <- MCFailing
  Helpers <- MCHelpers
  Versions <- MCVersions
  Workloads <- MCWorkloads
  MaxEdits = 2
  MaxFaults = 1
SPECIFICATION CommandSpec
INVARIANTS
  ConfigurationIsEffective
  AcceptedSettingsAreAdmissible
  FingerprintIdentifiesRun
  CodeRunsOnlyOnValidInput
  ExitMatchesReport
SYMMETRY Interchangeable
CHECK_DEADLOCK FALSE
