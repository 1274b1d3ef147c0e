CONSTANTS
  RateScale = 10
  CommissionRate = 1
  SlippageRate = 2
  InitialCash = 20
  Intents <- MCIntents
  Bars <- MCBars
  Times = {1, 2}
  MaxIntents = 3
  MaxRejections = 1
  MaxBars = 3
  MaxTradeIds = 2
SPECIFICATION Spec
INVARIANTS
  TypeOK
  HoldingsAgree
  FillsPairIntoTrades
  OrdersUsedOnce
  PeakIsRunningMaximum
  
  LevelsNeverMissed
  PendingStillFits
  OnePointPerBar
  

  
CHECK_DEADLOCK FALSE
