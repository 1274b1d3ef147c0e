---------------------------- MODULE BrokerSafety ----------------------------
(***************************************************************************)
(* What the broker promises: invariants over the fills, trades, equity     *)
(* points and admissions it has recorded, and what a step may never do.    *)
(* The references they compare with are written from the fills and the     *)
(* bars alone, never from the broker's own running totals.                 *)
(***************************************************************************)
EXTENDS Broker, Sums

IsOpen == position.quantity # 0

(* An open position that no exit can close: its stop is at its entry       *)
(* price, and calculate_initial_risk raises whenever a trade is built.     *)
Stuck == IsOpen /\ ~RiskDefined(position)

PositionType ==
  [quantity : Int, id : Nat, entered : Nat, price : Nat, stop : Nat, profit : Nat]
OrderType == [order : Nat, intent : IntentType, decided : Nat]
BarType == [index : Nat, time : Nat, open : Nat, high : Nat, low : Nat, close : Nat]
FillReasons == {"INTENT", "STOP_LOSS", "TAKE_PROFIT", "END_OF_DATA"}
FillType ==
  [order : Nat, action : Actions, quantity : Nat, decided : Nat, filled : Nat, price : Nat,
   slippage : Int, commission : Int, reason : FillReasons, position : Nat, bar : Nat]
TradeType ==
  [trade : Nat, position : Nat, entryOrder : Nat, exitOrder : Nat, quantity : Int,
   entered : Nat, exited : Nat, entryPrice : Nat, exitPrice : Nat, gross : Int,
   commission : Int, slippage : Int, net : Int,
   reason : {"STRATEGY_CLOSE", "STOP_LOSS", "TAKE_PROFIT", "END_OF_DATA"}]
AccountType == [cash : Int, unrealized : Int, equity : Int, peak : Int, quantity : Int]
PointType ==
  [bar : Nat, time : Nat, close : Nat, cash : Int, unrealized : Int, equity : Int, peak : Int,
   quantity : Int]
AdmissionType ==
  [intent : IntentType, decided : Nat, order : Nat, seen : Nat,
   reason : {"ACCEPTED", "SESSION_FINALIZED", "PENDING_ORDER_EXISTS",
             "POSITION_ALREADY_OPEN", "INVALID_ORDER_STATE", "NO_POSITION_TO_CLOSE"}]

(* Every variable of the broker has its type. *)
TypeOK ==
  /\ orderSeq \in Nat /\ positionSeq \in Nat /\ tradeSeq \in Nat
  /\ cash \in Int /\ peakEquity \in Int
  /\ account \in AccountType
  /\ equityPoints \in Seq(PointType)
  /\ admissions \in Seq(AdmissionType)
  /\ position \in PositionType
  /\ pending \in OrderType
  /\ entryFill \in FillType
  /\ fills \in Seq(FillType)
  /\ trades \in Seq(TradeType)
  /\ lastBar \in BarType
  /\ finalized \in BOOLEAN
  /\ processed \in Seq(BarType)

(* submit checks an intent against the position, process_bar uses it one   *)
(* bar later: whatever happened in between, a pending entry still finds    *)
(* the broker flat and a pending CLOSE still finds a position, so the two  *)
(* "guarded during submit" errors of _fill_pending cannot be raised.       *)
PendingStillFits ==
  /\ EntryPending => ~IsOpen /\ pending.intent.quantity # 0
  /\ ClosePending => IsOpen

(* The ledger and _entry_fill, kept apart by the broker, always describe   *)
(* the same position, also after an exception left process_bar half way.   *)
HoldingsAgree ==
  /\ ~IsOpen => position = Flat /\ entryFill = NoFill
  /\ IsOpen => /\ entryFill.order # 0
               /\ entryFill.position = position.id
               /\ entryFill.price = position.price
               /\ entryFill.filled = position.entered
               /\ entryFill.quantity = Abs(position.quantity)
               /\ entryFill.action = IF position.quantity > 0 THEN "BUY" ELSE "SELL"

(* The fills are the trades' entries and exits in turn, followed by the    *)
(* entry of the open position: no fill is lost, repeated or attached to    *)
(* the wrong trade, and positions and trades are numbered without a gap.   *)
FillsPairIntoTrades ==
  /\ Len(fills) = 2 * Len(trades) + (IF IsOpen THEN 1 ELSE 0)
  /\ IsOpen => fills[Len(fills)] = entryFill
  /\ \A i \in 1 .. Len(trades) :
       LET t == trades[i]
           in == fills[2 * i - 1]
           out == fills[2 * i]
       IN /\ t.trade = i /\ t.position = i
          /\ in.position = i /\ out.position = i
          /\ t.entryOrder = in.order /\ t.exitOrder = out.order
          /\ t.entryPrice = in.price /\ t.exitPrice = out.price
          /\ in.quantity = Abs(t.quantity) /\ out.quantity = Abs(t.quantity)
          /\ in.action = (IF t.quantity > 0 THEN "BUY" ELSE "SELL")
          /\ out.action = (IF t.quantity > 0 THEN "SELL" ELSE "BUY")
          /\ in.bar <= out.bar /\ t.entered <= t.exited
          /\ t.net = t.gross - in.slippage - in.commission - out.slippage - out.commission

(* An order identifier names one order: no two fills and no two accepted   *)
(* admissions share one, although three operations allocate them, and a    *)
(* fill that no intent asked for never uses the identifier of an intent.   *)
OrdersUsedOnce ==
  /\ \A i, j \in 1 .. Len(fills) : fills[i].order = fills[j].order => i = j
  /\ \A i, j \in 1 .. Len(admissions) :
       admissions[i].order = admissions[j].order /\ admissions[i].order # 0 => i = j
  /\ \A i \in 1 .. Len(fills), j \in 1 .. Len(admissions) :
       fills[i].order = admissions[j].order => fills[i].reason = "INTENT"

(* Every processed bar has one equity point, in order, and none is left    *)
(* out or doubled by the replacement of the last point in finalize.  (A    *)
(* bar whose processing raised has none, and the session is stuck.)        *)
OnePointPerBar ==
  /\ ~Stuck => Len(equityPoints) = Len(processed)
  /\ \A i, j \in 1 .. Len(equityPoints) : i < j => equityPoints[i].bar < equityPoints[j].bar
  /\ \A i \in 1 .. Len(equityPoints) :
       LET point == equityPoints[i]
       IN /\ point.bar \in 1 .. Len(processed)
          /\ point.time = processed[point.bar].time
          /\ point.close = processed[point.bar].close

(* The reported peak is exactly the largest equity so far, the initial     *)
(* cash included: the mark of the last bar that finalize discards leaves   *)
(* no trace in it.                                                         *)
PeakIsRunningMaximum ==
  /\ \A i \in 1 .. Len(equityPoints) :
       /\ equityPoints[i].peak >= StartingCash
       /\ \A j \in 1 .. i : equityPoints[i].peak >= equityPoints[j].equity
       /\ \/ equityPoints[i].peak = StartingCash
          \/ \E j \in 1 .. i : equityPoints[i].peak = equityPoints[j].equity
  /\ peakEquity = IF Len(equityPoints) = 0 THEN StartingCash
                  ELSE equityPoints[Len(equityPoints)].peak

-----------------------------------------------------------------------------
(* Mark-to-market from the fills alone: what each fill moved at its        *)
(* effective price, and what it left held.                                 *)

SignedQuantity(f) == IF f.action = "BUY" THEN f.quantity ELSE -f.quantity
CashFlow(f) == -SignedQuantity(f) * EffectivePrice(f.action, f.price) * RateScale - f.commission

SumOfFills(n, Value(_)) ==
  Total([i \in 1 .. Len(fills) |-> IF fills[i].bar <= n THEN Value(fills[i]) ELSE 0])

(* Every equity point is the initial cash, plus what the fills up to its   *)
(* bar paid and received at effective prices, plus the quantity they left  *)
(* at the bar's close.  The broker computes it otherwise: realised net     *)
(* P&L plus reference-price gains minus the entry's costs, which counts    *)
(* each of the four costs exactly once only if nothing goes wrong.         *)
EquityMatchesFills ==
  \A i \in 1 .. Len(equityPoints) :
    LET point == equityPoints[i]
        held == SumOfFills(point.bar, SignedQuantity)
    IN /\ point.quantity = held
       /\ point.equity = StartingCash + SumOfFills(point.bar, CashFlow)
                         + held * point.close * (RateScale * RateScale)

-----------------------------------------------------------------------------
(* Protective levels, from the intent behind a position and the bars.      *)

EntryIntent(order) ==
  LET k == CHOOSE k \in 1 .. Len(admissions) : admissions[k].order = order
  IN admissions[k].intent

StopTouched(intent, bar) ==
  intent.stop # 0 /\ IF intent.action = "BUY" THEN bar.low <= intent.stop ELSE bar.high >= intent.stop
TargetTouched(intent, bar) ==
  intent.profit # 0 /\ IF intent.action = "BUY" THEN bar.high >= intent.profit ELSE bar.low <= intent.profit
Untouched(intent, from, to) ==
  \A n \in from .. to : ~StopTouched(intent, processed[n]) /\ ~TargetTouched(intent, processed[n])

(* No protective level is ever missed: a position survives a bar, its own  *)
(* entry bar included, only if the bar touches neither level; a stop exit  *)
(* happens exactly at the first bar that touches the stop; and a target is *)
(* taken only on a bar that does not touch the stop.                       *)
LevelsNeverMissed ==
  /\ \A i \in 1 .. Len(trades) :
       LET intent == EntryIntent(trades[i].entryOrder)
           opened == fills[2 * i - 1].bar
           closed == fills[2 * i].bar
           last == processed[closed]
       IN /\ Untouched(intent, opened, closed - 1)
          /\ trades[i].reason = "STOP_LOSS" => StopTouched(intent, last)
          /\ trades[i].reason = "TAKE_PROFIT" => TargetTouched(intent, last) /\ ~StopTouched(intent, last)
          /\ trades[i].reason = "END_OF_DATA" => Untouched(intent, closed, closed)
  /\ IsOpen /\ ~Stuck => Untouched(EntryIntent(entryFill.order), entryFill.bar, Len(processed))

-----------------------------------------------------------------------------
(* After finalize the session is flat, nothing is pending, the account is  *)
(* all cash and agrees with the replaced last point, and the result holds  *)
(* every fill, trade and point of the session.                             *)
SettledWhenFinal ==
  finalized =>
    /\ ~IsOpen /\ pending = NoOrder
    /\ account.equity = cash /\ account.unrealized = 0
    /\ result.fills = fills /\ result.trades = trades /\ result.equity = equityPoints
    /\ result.account = account /\ result.position = Flat
    /\ Len(result.equity) = Len(processed)
    /\ result.equity[Len(result.equity)].equity = cash

-----------------------------------------------------------------------------
(* The broker implements the execution semantics of the user guide: its    *)
(* pending order is the decision that waits, the ledger what is held, and  *)
(* the fills the tape.                                                     *)

Waiting ==
  IF pending = NoOrder THEN {} ELSE {[intent |-> pending.intent, since |-> pending.decided]}
ViewOf(p) == [quantity |-> p.quantity, price |-> p.price, stop |-> p.stop, profit |-> p.profit]
Held == IF IsOpen THEN {ViewOf(position)} ELSE {}
Traded(f) == [action |-> f.action, quantity |-> f.quantity, price |-> f.price]
TapeOf(log) == [i \in 1 .. Len(log) |-> Traded(log[i])]
CandleOf(bar) == [open |-> bar.open, high |-> bar.high, low |-> bar.low, close |-> bar.close]
Last == IF lastBar = NoBar THEN {} ELSE {[time |-> lastBar.time, candle |-> CandleOf(lastBar)]}

Semantics == INSTANCE ExecutionSemantics
             WITH waiting <- Waiting, held <- Held, tape <- TapeOf(fills), last <- Last, over <- finalized

(* USER_GUIDE.md, "Execution semantics": every call of submit,             *)
(* process_bar and finalize, in any order and with any timestamps, is one  *)
(* of its steps or none.  An accepted intent is filled at the open of the  *)
(* next bar, none is filled before its decision, every fill has the price  *)
(* the levels and the gaps give it, and nothing else is ever filled.       *)
SemanticsImplemented == Semantics!SemanticsSpec

-----------------------------------------------------------------------------
(* USER_GUIDE.md:166-167: "Gap-through protective exits fill at the bar    *)
(* open."  No position is open after a bar that opened at or beyond its    *)
(* stop.                                                                   *)
GapThroughExits ==
  IsOpen /\ position.stop # 0 =>
    IF position.quantity > 0 THEN lastBar.open > position.stop ELSE lastBar.open < position.stop
=============================================================================
