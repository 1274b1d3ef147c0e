CONSTANTS
  RateScale = 10
  CommissionRate = 1
  SlippageRate = 2
  InitialCash = 20
  Intents <- MCIntents
  Answers <- MCAnswers
  Bars <- MCBars
  Times = {1, 2, 3, 4}
  MaxIntents = 4
  MaxRejections = 4
  MaxBars = 4
  MaxTradeIds = 4
  Policies <- MCPolicies
  InputSequences <- MCInputSequences
  InputLength = 4
SPECIFICATION FairSession
INVARIANTS
  LockedExactlyAfterDrawdown
  ExposureWithinPolicy
  AdmissionsFollowDecisions
  FillsOnTheNextCandle
  ContextIsOfThisBar
  FilledOrCancelled
  ReportAccepted
  DrawdownAgreesWithPoints
PROPERTIES
  NoEntryAfterLock
  Terminates
