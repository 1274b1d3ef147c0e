CONSTANTS
  RateScale = 10
  CommissionRate = 1
  SlippageRate = 2
  InitialCash = 20
  Intents <- MCIntents
  Bars <- MCBars
  Times = {1}
  MaxIntents = 3
  MaxRejections = 3
  MaxBars = 3
  MaxTradeIds = 2
SPECIFICATION Spec
INVARIANT
  GapThroughExits
CHECK_DEADLOCK FALSE
