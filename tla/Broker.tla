------------------------------- MODULE Broker -------------------------------
(***************************************************************************)
(* The simulated single-position broker of execution/broker.py with the    *)
(* ledger (execution/state.py), the cost functions (execution/costs.py)    *)
(* and the records they build.  One action per public operation: Submit,   *)
(* ProcessBar and Finalize, the exception paths included.                  *)
(*                                                                         *)
(* Money and rates.  A rate of r basis points is r / RateScale (the code's *)
(* RateScale is 10_000).  Prices and quantities are natural numbers and    *)
(* money is counted in units of 1 / (RateScale * RateScale), in which the  *)
(* code's products of price, quantity and the two rates are whole numbers: *)
(* the arithmetic is the code's without floating-point rounding.           *)
(*                                                                         *)
(* Python's None is the number 0 in an optional quantity, level or         *)
(* identifier, and a record of zeros in an optional record: the code       *)
(* requires every quantity and price to be positive, and identifiers start *)
(* at 1.                                                                   *)
(***************************************************************************)
EXTENDS Integers, Sequences

CONSTANTS
  RateScale,       \* the denominator of a rate, 10_000 in the code
  CommissionRate,  \* settings.commission_bps
  SlippageRate,    \* settings.slippage_bps
  InitialCash,     \* settings.initial_cash, in whole currency
  Intents,         \* the OrderIntent values a caller may submit
  Bars,            \* the candles a caller may feed, without their timestamp
  Times,           \* timestamps
  MaxIntents,      \* bound on the number of calls of submit
  MaxRejections,   \* bound on those of them that are rejected
  MaxBars,         \* bound on the number of bars processed
  MaxTradeIds      \* bound on identifiers taken by failing finalize calls

Actions == {"BUY", "SELL", "CLOSE"}
IntentType == [action : Actions, quantity : Nat, stop : Nat, profit : Nat]
CandleType == [open : Nat, high : Nat, low : Nat, close : Nat]

(* ExecutionSettings.__post_init__: slippage below 100% keeps sell prices  *)
(* positive.                                                               *)
ASSUME SettingsAssumption ==
  /\ RateScale \in Nat \ {0}
  /\ CommissionRate \in Nat
  /\ SlippageRate \in 0 .. RateScale - 1
  /\ InitialCash \in Nat \ {0}

(* OrderIntent.__post_init__: a CLOSE carries neither quantity nor levels. *)
ASSUME IntentsAssumption ==
  /\ Intents \subseteq IntentType
  /\ \A i \in Intents : i.action = "CLOSE" => i.quantity = 0 /\ i.stop = 0 /\ i.profit = 0

(* Bar.__post_init__: positive prices, high and low contain open and close. *)
ASSUME BarsAssumption ==
  /\ Bars \subseteq CandleType
  /\ \A b \in Bars : /\ b.low > 0
                     /\ b.low <= b.open /\ b.open <= b.high
                     /\ b.low <= b.close /\ b.close <= b.high

ASSUME BoundsAssumption ==
  /\ Times \subseteq Nat \ {0}
  /\ MaxIntents \in Nat
  /\ MaxRejections \in Nat
  /\ MaxBars \in Nat
  /\ MaxTradeIds \in Nat

VARIABLES
  orderSeq, positionSeq, tradeSeq,  \* IdentifierAllocator's three counters
  cash, peakEquity,                 \* _cash, _peak_equity
  account,                          \* _account, the latest AccountSnapshot
  equityPoints,                     \* _equity_points
  admissions,                       \* _admissions
  position,                         \* _ledger.position
  pending,                          \* _pending
  entryFill,                        \* _entry_fill
  fills, trades,                    \* _fills, _trades
  lastBar,                          \* _last_bar, whose time is _last_timestamp
  finalized, result,                \* _finalized, _result
  processed                         \* history: the bars accepted by process_bar

identifiers == <<orderSeq, positionSeq, tradeSeq>>
accounting == <<cash, peakEquity, account, equityPoints>>
holding == <<position, entryFill>>
executed == <<fills, trades>>
outcome == <<finalized, result>>
vars == <<identifiers, accounting, admissions, holding, pending, executed,
          lastBar, outcome, processed>>

-----------------------------------------------------------------------------
(* The None of each optional record.                                       *)

NoIntent == [action |-> "CLOSE", quantity |-> 0, stop |-> 0, profit |-> 0]
NoOrder == [order |-> 0, intent |-> NoIntent, decided |-> 0]
Flat == [quantity |-> 0, id |-> 0, entered |-> 0, price |-> 0, stop |-> 0, profit |-> 0]
NoFill == [order |-> 0, action |-> "CLOSE", quantity |-> 0, decided |-> 0, filled |-> 0,
           price |-> 0, slippage |-> 0, commission |-> 0, reason |-> "INTENT",
           position |-> 0, bar |-> 0]
NoBar == [index |-> 0, time |-> 0, open |-> 0, high |-> 0, low |-> 0, close |-> 0]
NoResult == [fills |-> <<>>, trades |-> <<>>, equity |-> <<>>, position |-> Flat,
             account |-> [cash |-> 0, unrealized |-> 0, equity |-> 0, peak |-> 0, quantity |-> 0],
             admissions |-> <<>>, cancelled |-> FALSE]
NoExit == [reason |-> "NONE", price |-> 0]

IsEntry(intent) == intent.action \in {"BUY", "SELL"}
SignKept(n) == n  \* slip: the signed quantity where its size is meant
Abs(n) == IF n < 0 THEN -n ELSE n
Larger(m, n) == IF m < n THEN n ELSE m
Largest(S) == CHOOSE m \in S : \A n \in S : n <= m
StartingCash == InitialCash * (RateScale * RateScale)

-----------------------------------------------------------------------------
(* Costs and profit: calculate_fill_costs, calculate_gross_pnl,            *)
(* calculate_net_pnl, calculate_unrealized_pnl, calculate_initial_risk.    *)
(* A signed quantity carries the side of the trade.                        *)

EffectivePrice(action, price) ==  \* in 1 / RateScale
  price * (IF action = "BUY" THEN RateScale + SlippageRate ELSE RateScale - SlippageRate)

SlippageCost(price, quantity) == price * quantity * SlippageRate * RateScale

Commission(action, price, quantity) == EffectivePrice(action, price) * quantity * CommissionRate

GrossPnl(quantity, entryPrice, exitPrice) ==
  (exitPrice - entryPrice) * quantity * (RateScale * RateScale)

GrossUnrealized(p, entry, close) ==  \* slip: without the entry's costs
  GrossPnl(p.quantity, p.price, close)

UnrealizedPnl(p, entry, close) ==
  GrossPnl(p.quantity, p.price, close) - entry.slippage - entry.commission

(* calculate_initial_risk raises when the stop is at the entry price, and  *)
(* with it every attempt to complete a trade of that position.             *)
RiskDefined(p) == p.stop = 0 \/ p.stop # p.price

Fill(order, action, quantity, decided, bar, price, reason, id) ==
  [order |-> order, action |-> action, quantity |-> quantity, decided |-> decided,
   filled |-> bar.time, price |-> price,
   slippage |-> SlippageCost(price, quantity),
   commission |-> Commission(action, price, quantity),
   reason |-> reason, position |-> id,
   bar |-> bar.index]  \* history: the bar of the fill

(* _complete_trade's Trade record for position p, opened by fill entry.    *)
CompletedTrade(p, entry, exit, reason) ==
  LET gross == GrossPnl(p.quantity, p.price, exit.price)
      commission == entry.commission + exit.commission
      slippage == entry.slippage + exit.slippage
  IN [trade |-> tradeSeq + 1, position |-> p.id, entryOrder |-> entry.order,
      exitOrder |-> exit.order, quantity |-> p.quantity, entered |-> p.entered,
      exited |-> exit.filled, entryPrice |-> p.price, exitPrice |-> exit.price,
      gross |-> gross, commission |-> commission, slippage |-> slippage,
      net |-> gross - commission - slippage, reason |-> reason]

-----------------------------------------------------------------------------
Init ==
  /\ orderSeq = 0 /\ positionSeq = 0 /\ tradeSeq = 0
  /\ cash = StartingCash
  /\ peakEquity = StartingCash
  /\ account = [cash |-> StartingCash, unrealized |-> 0, equity |-> StartingCash,
                peak |-> StartingCash, quantity |-> 0]
  /\ equityPoints = <<>>
  /\ admissions = <<>>
  /\ position = Flat
  /\ pending = NoOrder
  /\ entryFill = NoFill
  /\ fills = <<>>
  /\ trades = <<>>
  /\ lastBar = NoBar
  /\ finalized = FALSE /\ result = NoResult
  /\ processed = <<>>

-----------------------------------------------------------------------------
(* submit: the first check that fails names the reason.                    *)

ClosedWhileFlat(intent) ==  \* slip: a CLOSE is not compared with the position
  IF finalized THEN "SESSION_FINALIZED"
  ELSE IF pending # NoOrder THEN "PENDING_ORDER_EXISTS"
  ELSE IF IsEntry(intent) /\ position.quantity # 0 THEN "POSITION_ALREADY_OPEN"
  ELSE IF IsEntry(intent) /\ intent.quantity = 0 THEN "INVALID_ORDER_STATE"
  ELSE "ACCEPTED"

AdmissionReason(intent) ==
  IF finalized THEN "SESSION_FINALIZED"
  ELSE IF pending # NoOrder THEN "PENDING_ORDER_EXISTS"
  ELSE IF IsEntry(intent) /\ position.quantity # 0 THEN "POSITION_ALREADY_OPEN"
  ELSE IF IsEntry(intent) /\ intent.quantity = 0 THEN "INVALID_ORDER_STATE"
  ELSE IF ~IsEntry(intent) /\ position.quantity = 0 THEN "NO_POSITION_TO_CLOSE"
  ELSE "ACCEPTED"

Admission(intent, t, order, reason) ==
  [intent |-> intent, decided |-> t, order |-> order, reason |-> reason,
   seen |-> Len(processed)]  \* history: how many bars preceded the call

Submit(intent, t) ==
  /\ Len(admissions) < MaxIntents
  /\ \/ /\ AdmissionReason(intent) = "ACCEPTED"
        /\ orderSeq' = orderSeq + 1
        /\ pending' = [order |-> orderSeq + 1, intent |-> intent, decided |-> t]
        /\ admissions' = Append(admissions, Admission(intent, t, orderSeq + 1, "ACCEPTED"))
     \/ /\ AdmissionReason(intent) # "ACCEPTED"
        /\ Len(admissions) - orderSeq < MaxRejections
        /\ admissions' = Append(admissions, Admission(intent, t, 0, AdmissionReason(intent)))
        /\ UNCHANGED <<orderSeq, pending>>
  /\ UNCHANGED <<positionSeq, tradeSeq, accounting, holding, executed, lastBar, outcome, processed>>

-----------------------------------------------------------------------------
(* process_bar.                                                            *)

(* _record_equity: the account marked at the close of a bar, for position  *)
(* p opened by entry, after the cash has become money.                     *)
Mark(bar, p, entry, money, peakBefore) ==
  LET unrealized == IF p.quantity = 0 THEN 0 ELSE UnrealizedPnl(p, entry, bar.close)
      equity == money + unrealized
  IN [cash |-> money, unrealized |-> unrealized, equity |-> equity,
      peak |-> Larger(peakBefore, equity), quantity |-> p.quantity]

Point(bar, mark) ==
  [bar |-> bar.index,  \* history: the bar of the point
   time |-> bar.time, close |-> bar.close, cash |-> mark.cash,
   unrealized |-> mark.unrealized, equity |-> mark.equity, peak |-> mark.peak,
   quantity |-> mark.quantity]

RecordEquity(bar, p, entry, money, peakBefore, pointsBefore) ==
  LET mark == Mark(bar, p, entry, money, peakBefore)
  IN /\ account' = mark
     /\ peakEquity' = mark.peak
     /\ equityPoints' = Append(pointsBefore, Point(bar, mark))

EntryPending == pending # NoOrder /\ IsEntry(pending.intent)
ClosePending == pending # NoOrder /\ ~IsEntry(pending.intent)

(* _fill_pending, the entry: fills at the open, opens the ledger.          *)
EntryAtClose(bar) ==  \* slip: the close of the fill candle
  IF EntryPending
  THEN Fill(pending.order, pending.intent.action, pending.intent.quantity,
            pending.decided, bar, bar.close, "INTENT", positionSeq + 1)
  ELSE entryFill

EntryAtOpen(bar) ==
  IF EntryPending
  THEN Fill(pending.order, pending.intent.action, pending.intent.quantity,
            pending.decided, bar, bar.open, "INTENT", positionSeq + 1)
  ELSE entryFill

PositionAtOpen(bar) ==
  IF EntryPending
  THEN [quantity |-> IF pending.intent.action = "BUY" THEN pending.intent.quantity
                     ELSE -pending.intent.quantity,
        id |-> positionSeq + 1, entered |-> bar.time, price |-> bar.open,
        stop |-> pending.intent.stop, profit |-> pending.intent.profit]
  ELSE position

FillsAtOpen(bar) == IF EntryPending THEN Append(fills, EntryAtOpen(bar)) ELSE fills

(* _select_protective_exit: stop before target, the open before the level. *)
TargetFirst(p, bar) ==  \* slip: the target before the stop
  LET long == p.quantity > 0
  IN IF p.quantity = 0 THEN NoExit
     ELSE IF p.profit # 0 /\ (IF long THEN bar.high >= p.profit ELSE bar.low <= p.profit)
          THEN [reason |-> "TAKE_PROFIT", price |-> p.profit]
     ELSE IF p.stop # 0 /\ (IF long THEN bar.low <= p.stop ELSE bar.high >= p.stop)
          THEN [reason |-> "STOP_LOSS", price |-> p.stop]
     ELSE NoExit

ProtectiveExit(p, bar) ==
  LET long == p.quantity > 0
      Lost(price) == IF long THEN price <= p.stop ELSE price >= p.stop
      Won(price) == IF long THEN price >= p.profit ELSE price <= p.profit
      worst == IF long THEN bar.low ELSE bar.high
      best == IF long THEN bar.high ELSE bar.low
  IN IF p.quantity = 0 THEN NoExit
     ELSE IF p.stop # 0 /\ Lost(bar.open) THEN [reason |-> "STOP_LOSS", price |-> bar.open]
     ELSE IF p.stop # 0 /\ Lost(worst) THEN [reason |-> "STOP_LOSS", price |-> p.stop]
     ELSE IF p.profit # 0 /\ Won(bar.open) THEN [reason |-> "TAKE_PROFIT", price |-> bar.open]
     ELSE IF p.profit # 0 /\ Won(best) THEN [reason |-> "TAKE_PROFIT", price |-> p.profit]
     ELSE NoExit

(* The exit of this bar: the pending CLOSE at the open, or a protective    *)
(* exit of the position held after the open, its own entry bar included.   *)
ExitOf(bar) ==
  IF ClosePending THEN [reason |-> "STRATEGY_CLOSE", price |-> bar.open]
  ELSE ProtectiveExit(PositionAtOpen(bar), bar)

OppositeAction(p) == IF p.quantity > 0 THEN "SELL" ELSE "BUY"

ExitUnderEntryOrder(p, bar) ==  \* slip: no identifier is allocated for the exit
  Fill(IF ClosePending THEN pending.order ELSE orderSeq, OppositeAction(p), Abs(p.quantity),
       bar.time, bar, ExitOf(bar).price,
       IF ClosePending THEN "INTENT" ELSE ExitOf(bar).reason, p.id)

ExitFill(p, bar) ==
  IF ClosePending
  THEN Fill(pending.order, OppositeAction(p), Abs(p.quantity), pending.decided,
            bar, bar.open, "INTENT", p.id)
  ELSE Fill(orderSeq + 1, OppositeAction(p), Abs(p.quantity), bar.time,
            bar, ExitOf(bar).price, ExitOf(bar).reason, p.id)

(* _complete_trade followed by PositionLedger.close.                       *)
EntryKept(trade) ==  \* slip: _entry_fill survives the trade
  /\ tradeSeq' = tradeSeq + 1
  /\ trades' = Append(trades, trade)
  /\ cash' = cash + trade.net
  /\ position' = Flat
  /\ entryFill' = entryFill

IdentifierKept(trade) ==  \* slip: the trade identifier is read, not taken
  /\ tradeSeq' = tradeSeq
  /\ trades' = Append(trades, trade)
  /\ cash' = cash + trade.net
  /\ position' = Flat
  /\ entryFill' = NoFill

CompleteTrade(trade) ==
  /\ tradeSeq' = tradeSeq + 1
  /\ trades' = Append(trades, trade)
  /\ cash' = cash + trade.net
  /\ position' = Flat
  /\ entryFill' = NoFill

BarCompletes(bar) == ExitOf(bar) = NoExit \/ RiskDefined(PositionAtOpen(bar))

(* A bar on which nothing is closed.                                       *)
HoldBar(bar) ==
  /\ ExitOf(bar) = NoExit
  /\ position' = PositionAtOpen(bar)
  /\ entryFill' = EntryAtOpen(bar)
  /\ fills' = FillsAtOpen(bar)
  /\ RecordEquity(bar, PositionAtOpen(bar), EntryAtOpen(bar), cash, peakEquity, equityPoints)
  /\ UNCHANGED <<orderSeq, tradeSeq, cash, trades>>

(* A bar that closes the position.                                         *)
ExitBar(bar) ==
  LET p == PositionAtOpen(bar)
      exit == ExitFill(p, bar)
      trade == CompletedTrade(p, EntryAtOpen(bar), exit, ExitOf(bar).reason)
  IN /\ ExitOf(bar) # NoExit
     /\ BarCompletes(bar)
     /\ orderSeq' = IF ClosePending THEN orderSeq ELSE orderSeq + 1
     /\ CompleteTrade(trade)
     /\ fills' = Append(FillsAtOpen(bar), exit)
     /\ RecordEquity(bar, Flat, NoFill, cash + trade.net, peakEquity, equityPoints)

(* calculate_r_multiple raises out of process_bar: the order, the trade    *)
(* identifier and the bar are consumed, the position stays open and no     *)
(* equity point is recorded.                                               *)
RaiseInBar(bar) ==
  /\ ~BarCompletes(bar)
  /\ orderSeq' = IF ClosePending THEN orderSeq ELSE orderSeq + 1
  /\ tradeSeq' = tradeSeq + 1
  /\ position' = PositionAtOpen(bar)
  /\ entryFill' = EntryAtOpen(bar)
  /\ fills' = FillsAtOpen(bar)
  /\ UNCHANGED <<trades, accounting>>

(* The checks process_bar makes before it changes anything.                *)
DecisionUnchecked(bar) ==  \* slip: the pending decision may be later than the bar
  ~finalized /\ bar.time >= lastBar.time

BarAccepted(bar) ==
  /\ ~finalized
  /\ bar.time >= lastBar.time
  /\ pending.decided <= bar.time

Stamped(b, t) ==
  [index |-> Len(processed) + 1, time |-> t, open |-> b.open, high |-> b.high, low |-> b.low, close |-> b.close]

ProcessBar(b, t) ==
  LET bar == Stamped(b, t)
  IN /\ Len(processed) < MaxBars
     /\ BarAccepted(bar)
     /\ processed' = Append(processed, bar)
     /\ lastBar' = bar
     /\ pending' = NoOrder
     /\ positionSeq' = IF EntryPending THEN positionSeq + 1 ELSE positionSeq
     /\ HoldBar(bar) \/ ExitBar(bar) \/ RaiseInBar(bar)
     /\ UNCHANGED <<admissions, outcome>>

-----------------------------------------------------------------------------
(* finalize.  A second call returns the cached result and changes nothing. *)

ResultTooEarly(cancelled) ==  \* slip: the points before the liquidation
  [fills |-> fills', trades |-> trades', equity |-> equityPoints, position |-> position',
   account |-> account', admissions |-> admissions, cancelled |-> cancelled]

ResultAfterReset(cancelled) ==  \* slip: _pending is read after it was cleared
  [fills |-> fills', trades |-> trades', equity |-> equityPoints', position |-> position',
   account |-> account', admissions |-> admissions, cancelled |-> FALSE]

Result(cancelled) ==
  [fills |-> fills', trades |-> trades', equity |-> equityPoints', position |-> position',
   account |-> account', admissions |-> admissions, cancelled |-> cancelled]

FinalizeCompletes == position.quantity = 0 \/ RiskDefined(position)

FinalizeFlat ==
  /\ position.quantity = 0
  /\ UNCHANGED <<identifiers, accounting, holding, executed>>
  /\ finalized' = TRUE
  /\ result' = Result(pending # NoOrder)

(* The open position is liquidated at the last close, and the last equity  *)
(* point is replaced, its peak recomputed from the points before it.       *)
AllPoints == equityPoints  \* slip: the last point is kept
EarlierPoints == SubSeq(equityPoints, 1, Len(equityPoints) - 1)
PeakOfSession == peakEquity  \* slip: the discarded mark still counts
PeakBeforeLast ==
  Largest({StartingCash} \cup {EarlierPoints[i].peak : i \in 1 .. Len(EarlierPoints)})

FinalizeOpen ==
  LET exit == Fill(orderSeq + 1, OppositeAction(position), Abs(position.quantity),
                   lastBar.time, lastBar, lastBar.close, "END_OF_DATA", position.id)
      trade == CompletedTrade(position, entryFill, exit, "END_OF_DATA")
  IN /\ position.quantity # 0
     /\ FinalizeCompletes
     /\ Len(equityPoints) > 0
     /\ orderSeq' = orderSeq + 1
     /\ CompleteTrade(trade)
     /\ fills' = Append(fills, exit)
     /\ RecordEquity(lastBar, Flat, NoFill, cash + trade.net, PeakBeforeLast, EarlierPoints)
     /\ finalized' = TRUE
     /\ result' = Result(pending # NoOrder)
     /\ UNCHANGED positionSeq

(* calculate_r_multiple raises out of finalize.                            *)
RaiseInFinalize ==
  /\ tradeSeq < MaxTradeIds
  /\ ~FinalizeCompletes
  /\ orderSeq' = orderSeq + 1
  /\ tradeSeq' = tradeSeq + 1
  /\ UNCHANGED <<positionSeq, accounting, holding, executed, outcome>>

Finalize ==
  /\ ~finalized
  /\ lastBar # NoBar
  /\ pending' = NoOrder
  /\ processed' = processed
  /\ FinalizeFlat \/ FinalizeOpen \/ RaiseInFinalize
  /\ UNCHANGED <<admissions, lastBar>>

-----------------------------------------------------------------------------
Next ==
  \/ \E intent \in Intents, t \in Times : Submit(intent, t)
  \/ \E b \in Bars, t \in Times : ProcessBar(b, t)
  \/ Finalize

Spec == Init /\ [][Next]_vars
=============================================================================
