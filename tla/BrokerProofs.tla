---------------------------- MODULE BrokerProofs ----------------------------
(***************************************************************************)
(* Theorems about the broker for every choice of rates, intents, candles   *)
(* and bounds: its types and the running peak; its position and the end of *)
(* its session; that it implements the execution semantics; what it        *)
(* records; and the equity, costs and P&L that its fills amount to.        *)
(***************************************************************************)
EXTENDS BrokerSafety, SeriesProofs

-----------------------------------------------------------------------------
(* The values the operations build have the types the invariant names.     *)

(* A fill of whole prices and quantities has whole costs. *)
LEMMA FillInType ==
  ASSUME NEW order \in Nat, NEW action \in Actions, NEW quantity \in Nat, NEW decided \in Nat,
         NEW bar \in BarType, NEW price \in Nat, NEW reason \in FillReasons, NEW id \in Nat
  PROVE  Fill(order, action, quantity, decided, bar, price, reason, id) \in FillType
<1>1. SlippageCost(price, quantity) \in Int
  BY SettingsAssumption DEF SlippageCost
<1>2. EffectivePrice(action, price) \in Int
  BY SettingsAssumption DEF EffectivePrice
<1>3. Commission(action, price, quantity) \in Int
  BY <1>2, SettingsAssumption DEF Commission
<1> QED
  BY <1>1, <1>3 DEF Fill, FillType, BarType

(* P&L of whole prices and quantities is whole. *)
LEMMA GrossInType ==
  ASSUME NEW quantity \in Int, NEW entryPrice \in Nat, NEW exitPrice \in Nat
  PROVE  GrossPnl(quantity, entryPrice, exitPrice) \in Int
BY SettingsAssumption DEF GrossPnl

(* A trade of a typed position and typed fills is a typed trade. *)
LEMMA TradeInType ==
  ASSUME NEW p \in PositionType, NEW entry \in FillType, NEW exit \in FillType,
         NEW reason \in {"STRATEGY_CLOSE", "STOP_LOSS", "TAKE_PROFIT", "END_OF_DATA"},
         tradeSeq \in Nat
  PROVE  CompletedTrade(p, entry, exit, reason) \in TradeType
<1>1. GrossPnl(p.quantity, p.price, exit.price) \in Int
  BY GrossInType DEF PositionType, FillType
<1> QED
  BY <1>1 DEF CompletedTrade, TradeType, PositionType, FillType

(* An account marked from typed holdings and money is typed. *)
LEMMA MarkInType ==
  ASSUME NEW bar \in BarType, NEW p \in PositionType, NEW entry \in FillType,
         NEW money \in Int, NEW peakBefore \in Int
  PROVE  /\ Mark(bar, p, entry, money, peakBefore) \in AccountType
         /\ Point(bar, Mark(bar, p, entry, money, peakBefore)) \in PointType
<1>1. GrossPnl(p.quantity, p.price, bar.close) \in Int
  BY GrossInType DEF PositionType, BarType
<1>2. UnrealizedPnl(p, entry, bar.close) \in Int
  BY <1>1 DEF UnrealizedPnl, FillType
<1>3. Mark(bar, p, entry, money, peakBefore) \in AccountType
  BY <1>2 DEF Mark, AccountType, Larger, PositionType
<1> QED
  BY <1>3 DEF Point, AccountType, PointType, BarType

(* The records that stand for None are typed, and there is cash to start. *)
LEMMA NonesInType ==
  /\ Flat \in PositionType /\ NoFill \in FillType /\ NoOrder \in OrderType /\ NoBar \in BarType
  /\ StartingCash \in Int /\ StartingCash > 0
<1>1. RateScale * RateScale \in Nat /\ RateScale * RateScale > 0
  BY SettingsAssumption
<1>2. StartingCash \in Int /\ StartingCash > 0
  BY <1>1, SettingsAssumption DEF StartingCash
<1> QED
  BY <1>2 DEF Flat, PositionType, NoFill, FillType, NoOrder, OrderType, NoIntent, IntentType,
     NoBar, BarType, Actions, FillReasons

-----------------------------------------------------------------------------
(* The peak.                                                               *)

(* The equity points without the last, and the largest of their peaks: it  *)
(* is the peak of the last of them, for running maxima do not decrease.    *)
LEMMA PeakBeforeLastIsPrevious ==
  ASSUME TypeOK, PeakIsRunningMaximum, Len(equityPoints) > 0
  PROVE  /\ EarlierPoints \in Seq(PointType)
         /\ Len(EarlierPoints) = Len(equityPoints) - 1
         /\ \A i \in 1 .. Len(EarlierPoints) : EarlierPoints[i] = equityPoints[i]
         /\ PeakBeforeLast = IF Len(equityPoints) = 1 THEN StartingCash
                             ELSE equityPoints[Len(equityPoints) - 1].peak
<1> DEFINE n == Len(equityPoints) - 1
           S == {StartingCash} \cup {EarlierPoints[i].peak : i \in 1 .. Len(EarlierPoints)}
           m == IF n = 0 THEN StartingCash ELSE equityPoints[n].peak
<1>1. equityPoints \in Seq(PointType) /\ n \in Nat /\ Len(equityPoints) = n + 1
  BY DEF TypeOK
<1>2. /\ EarlierPoints \in Seq(PointType) /\ Len(EarlierPoints) = n
      /\ \A i \in 1 .. n : EarlierPoints[i] = equityPoints[i]
  <2>1. \A i \in 1 .. n : equityPoints[i] \in PointType
    BY <1>1
  <2> HIDE DEF n
  <2>2. EarlierPoints = SubSeq(equityPoints, 1, n)
    BY DEF EarlierPoints, n
  <2> QED
    BY <1>1, <2>1, <2>2, SubSeqProperties
<1>3. \A i \in 1 .. Len(equityPoints) : equityPoints[i].peak \in Int /\ equityPoints[i].equity \in Int
  <2>1. \A i \in 1 .. Len(equityPoints) : equityPoints[i] \in PointType
    BY <1>1
  <2> QED
    BY <2>1 DEF PointType
<1>4. m \in S /\ m \in Int
  BY <1>1, <1>2, <1>3, NonesInType, SMTT(30)
<1>5. \A k \in S : k \in Int /\ k <= m
  <2>1. StartingCash <= m
    <3>1. CASE n = 0
      BY <3>1, NonesInType
    <3>2. CASE n # 0
      <4> HIDE DEF n
      <4>1. n \in 1 .. Len(equityPoints)
        BY <3>2, <1>1
      <4>2. equityPoints[n].peak >= StartingCash
        BY <4>1 DEF PeakIsRunningMaximum
      <4> QED
        BY <4>1, <4>2, <3>2, <1>3, NonesInType
    <3> QED
      BY <3>1, <3>2
  <2>2. ASSUME NEW i \in 1 .. n
        PROVE  equityPoints[i].peak \in Int /\ equityPoints[i].peak <= m
    <3>1. /\ n # 0 /\ n \in 1 .. Len(equityPoints) /\ i \in 1 .. Len(equityPoints)
          /\ m = equityPoints[n].peak
      BY <1>1
    <3>2. \A j \in 1 .. i : equityPoints[j].equity <= equityPoints[n].peak
      BY <3>1, <1>1, <1>3 DEF PeakIsRunningMaximum
    <3> QED
      BY <3>1, <3>2, <2>1, <1>3 DEF PeakIsRunningMaximum
  <2>3. ASSUME NEW k \in S
        PROVE  k = StartingCash \/ \E i \in 1 .. n : k = equityPoints[i].peak
    BY <1>2
  <2> HIDE DEF m, n
  <2>4. StartingCash \in Int
    BY NonesInType
  <2>5. SUFFICES ASSUME NEW k \in S
                 PROVE  k \in Int /\ k <= m
    OBVIOUS
  <2>6. CASE k = StartingCash
    BY <2>1, <2>4, <2>6
  <2>7. CASE \E i \in 1 .. n : k = equityPoints[i].peak
    BY <2>2, <2>7
  <2> QED
    BY <2>3, <2>6, <2>7
<1>6. ASSUME NEW k \in S, \A l \in S : l <= k
      PROVE  k = m
  <2> HIDE DEF S, m, n
  <2>1. m <= k
    BY <1>4, <1>6
  <2>2. k <= m /\ k \in Int /\ m \in Int
    BY <1>4, <1>5
  <2> QED
    BY <2>1, <2>2
<1>7. Largest(S) = m
  BY <1>4, <1>5, <1>6 DEF Largest
<1> QED
  BY <1>1, <1>2, <1>7 DEF PeakBeforeLast

(* Recording a point on top of running maxima gives running maxima: before *)
(* is the list recorded so far, with the peak of its last point.           *)
LEMMA RecordKeepsMaximum ==
  ASSUME NEW before \in Seq(PointType), NEW peakBefore \in Int,
         NEW bar \in BarType, NEW p \in PositionType, NEW entry \in FillType, NEW money \in Int,
         peakBefore = IF Len(before) = 0 THEN StartingCash ELSE before[Len(before)].peak,
         \A i \in 1 .. Len(before) :
           /\ before[i].peak >= StartingCash
           /\ \A j \in 1 .. i : before[i].peak >= before[j].equity
           /\ \/ before[i].peak = StartingCash
              \/ \E j \in 1 .. i : before[i].peak = before[j].equity,
         RecordEquity(bar, p, entry, money, peakBefore, before)
  PROVE  /\ PeakIsRunningMaximum'
         /\ equityPoints' \in Seq(PointType) /\ peakEquity' \in Int /\ account' \in AccountType
<1> DEFINE mark == Mark(bar, p, entry, money, peakBefore)
           point == Point(bar, mark)
           n == Len(before)
<1>1. mark \in AccountType /\ point \in PointType
  BY MarkInType
<1>2. /\ account' = mark /\ peakEquity' = mark.peak /\ equityPoints' = Append(before, point)
  BY DEF RecordEquity
<1>3. /\ point.peak = mark.peak /\ point.equity = mark.equity
      /\ mark.peak \in Int /\ mark.equity \in Int
  BY <1>1 DEF Point, AccountType
<1>4. mark.peak = Larger(peakBefore, mark.equity)
  BY DEF Mark
<1>5. /\ mark.peak >= peakBefore /\ mark.peak >= mark.equity
      /\ mark.peak = peakBefore \/ mark.peak = mark.equity
  BY <1>3, <1>4 DEF Larger
<1>6. /\ n \in Nat /\ Len(equityPoints') = n + 1 /\ equityPoints'[n + 1] = point
      /\ \A i \in 1 .. n : equityPoints'[i] = before[i]
      /\ \A i \in 1 .. n : before[i].peak \in Int /\ before[i].equity \in Int
  <2>1. \A i \in 1 .. n : before[i] \in PointType
    OBVIOUS
  <2>2. \A i \in 1 .. n : before[i].peak \in Int /\ before[i].equity \in Int
    BY <2>1 DEF PointType
  <2> HIDE DEF point, mark
  <2> QED
    BY <1>1, <1>2, <2>2, AppendProperties, SMTT(20)
<1>7. peakBefore >= StartingCash
  BY <1>6, NonesInType
<1>8. \A j \in 1 .. n : peakBefore >= before[j].equity
  BY <1>6
<1>9. peakBefore = StartingCash \/ \E j \in 1 .. n : peakBefore = before[j].equity
  BY <1>6
<1>10. ASSUME NEW i \in 1 .. n
       PROVE  /\ equityPoints'[i].peak >= StartingCash
              /\ \A j \in 1 .. i : equityPoints'[i].peak >= equityPoints'[j].equity
              /\ \/ equityPoints'[i].peak = StartingCash
                 \/ \E j \in 1 .. i : equityPoints'[i].peak = equityPoints'[j].equity
  <2>1. \A j \in 1 .. i : j \in 1 .. n /\ equityPoints'[j] = before[j]
    BY <1>6
  <2> QED
    BY <2>1, <1>6
<1>11. /\ equityPoints'[n + 1].peak >= StartingCash
       /\ \A j \in 1 .. n + 1 : equityPoints'[n + 1].peak >= equityPoints'[j].equity
       /\ \/ equityPoints'[n + 1].peak = StartingCash
          \/ \E j \in 1 .. n + 1 : equityPoints'[n + 1].peak = equityPoints'[j].equity
  <2>1. equityPoints'[n + 1].peak >= StartingCash
    BY <1>3, <1>5, <1>6, <1>7, NonesInType
  <2>2. ASSUME NEW j \in 1 .. n + 1
        PROVE  equityPoints'[n + 1].peak >= equityPoints'[j].equity
    <3>1. CASE j = n + 1
      BY <3>1, <1>3, <1>5, <1>6
    <3>2. CASE j \in 1 .. n
      BY <3>2, <1>3, <1>5, <1>6, <1>8
    <3> QED
      BY <3>1, <3>2, <1>6
  <2>3. \/ equityPoints'[n + 1].peak = StartingCash
        \/ \E j \in 1 .. n + 1 : equityPoints'[n + 1].peak = equityPoints'[j].equity
    <3>1. CASE mark.peak = mark.equity
      BY <3>1, <1>3, <1>6
    <3>2. CASE mark.peak = peakBefore
      BY <3>2, <1>3, <1>6, <1>9
    <3> QED
      BY <3>1, <3>2, <1>5
  <2> QED
    BY <2>1, <2>2, <2>3
<1>12. \A i \in 1 .. n + 1 : i \in 1 .. n \/ i = n + 1
  BY <1>6
<1> QED
  BY <1>1, <1>2, <1>3, <1>6, <1>10, <1>11, <1>12 DEF PeakIsRunningMaximum

-----------------------------------------------------------------------------
(* What process_bar builds from a typed state is typed.                    *)

(* What _fill_pending opens at a typed bar is typed, whether or not an     *)
(* entry is pending.                                                       *)
LEMMA OpenInType ==
  ASSUME TypeOK, NEW bar \in BarType
  PROVE  /\ PositionAtOpen(bar) \in PositionType
         /\ EntryAtOpen(bar) \in FillType
         /\ FillsAtOpen(bar) \in Seq(FillType)
<1>1. /\ position \in PositionType /\ entryFill \in FillType /\ fills \in Seq(FillType)
      /\ positionSeq + 1 \in Nat
      /\ pending.order \in Nat /\ pending.decided \in Nat
      /\ pending.intent.action \in Actions /\ pending.intent.quantity \in Nat
      /\ pending.intent.stop \in Nat /\ pending.intent.profit \in Nat
  BY DEF TypeOK, OrderType, IntentType
<1>2. bar.time \in Nat /\ bar.open \in Nat
  BY DEF BarType
<1>3. EntryAtOpen(bar) \in FillType
  BY <1>1, <1>2, FillInType DEF EntryAtOpen, FillReasons
<1>4. PositionAtOpen(bar) \in PositionType
  BY <1>1, <1>2 DEF PositionAtOpen, PositionType
<1>5. FillsAtOpen(bar) \in Seq(FillType)
  BY <1>1, <1>3 DEF FillsAtOpen
<1> QED
  BY <1>3, <1>4, <1>5

TradeReasons == {"STRATEGY_CLOSE", "STOP_LOSS", "TAKE_PROFIT", "END_OF_DATA"}

(* The fill and the reason of an exit are typed. *)
LEMMA ExitInType ==
  ASSUME TypeOK, NEW bar \in BarType, ExitOf(bar) # NoExit
  PROVE  /\ ExitFill(PositionAtOpen(bar), bar) \in FillType
         /\ ExitOf(bar).reason \in TradeReasons
<1> DEFINE p == PositionAtOpen(bar)
<1>1. p.quantity \in Int /\ p.stop \in Nat /\ p.profit \in Nat /\ p.id \in Nat
  BY OpenInType DEF PositionType
<1>2. bar.time \in Nat /\ bar.open \in Nat
  BY DEF BarType
<1>3. Abs(p.quantity) \in Nat /\ OppositeAction(p) \in Actions
  BY <1>1 DEF Abs, OppositeAction, Actions
<1>4. ProtectiveExit(p, bar) = NoExit \/
        /\ ProtectiveExit(p, bar).reason \in {"STOP_LOSS", "TAKE_PROFIT"}
        /\ ProtectiveExit(p, bar).price \in Nat
  <2> HIDE DEF p
  <2> QED
    BY <1>1, <1>2 DEF ProtectiveExit
<1>5. /\ pending.order \in Nat /\ pending.decided \in Nat /\ orderSeq + 1 \in Nat
  BY DEF TypeOK, OrderType
<1>6. CASE ClosePending
  <2>1. ExitOf(bar).reason = "STRATEGY_CLOSE"
    BY <1>6 DEF ExitOf
  <2>2. ExitFill(p, bar) = Fill(pending.order, OppositeAction(p), Abs(p.quantity), pending.decided,
                                bar, bar.open, "INTENT", p.id)
    BY <1>6 DEF ExitFill
  <2>3. ASSUME NEW a \in Actions, NEW q \in Nat, NEW i \in Nat
        PROVE  Fill(pending.order, a, q, pending.decided, bar, bar.open, "INTENT", i) \in FillType
    BY <1>2, <1>5, FillInType DEF FillReasons
  <2> HIDE DEF p
  <2>4. ExitFill(p, bar) \in FillType
    BY <1>1, <1>3, <2>2, <2>3
  <2> QED
    BY <2>1, <2>4 DEF TradeReasons, p
<1>7. CASE ~ClosePending
  <2>1. ExitOf(bar) = ProtectiveExit(p, bar)
    BY <1>7 DEF ExitOf
  <2>2. ExitOf(bar).reason \in {"STOP_LOSS", "TAKE_PROFIT"} /\ ExitOf(bar).price \in Nat
    BY <1>4, <2>1
  <2>3. ExitFill(p, bar) = Fill(orderSeq + 1, OppositeAction(p), Abs(p.quantity), bar.time,
                                bar, ExitOf(bar).price, ExitOf(bar).reason, p.id)
    BY <1>7 DEF ExitFill
  <2>4. ASSUME NEW a \in Actions, NEW q \in Nat, NEW i \in Nat
        PROVE  Fill(orderSeq + 1, a, q, bar.time, bar, ExitOf(bar).price, ExitOf(bar).reason, i)
                 \in FillType
    BY <1>2, <1>5, <2>2, FillInType DEF FillReasons
  <2> HIDE DEF p
  <2>5. ExitFill(p, bar) \in FillType
    BY <1>1, <1>3, <2>3, <2>4
  <2> QED
    BY <2>2, <2>5 DEF TradeReasons, p
<1> QED
  BY <1>6, <1>7

-----------------------------------------------------------------------------
(* Each operation preserves the types and the peak.                        *)

Inductive == TypeOK /\ PeakIsRunningMaximum

(* Inductive gives RecordKeepsMaximum its hypotheses on the points so far. *)
LEMMA PointsSoFar ==
  ASSUME Inductive
  PROVE  /\ equityPoints \in Seq(PointType) /\ peakEquity \in Int
         /\ peakEquity = IF Len(equityPoints) = 0 THEN StartingCash
                         ELSE equityPoints[Len(equityPoints)].peak
         /\ \A i \in 1 .. Len(equityPoints) :
              /\ equityPoints[i].peak >= StartingCash
              /\ \A j \in 1 .. i : equityPoints[i].peak >= equityPoints[j].equity
              /\ \/ equityPoints[i].peak = StartingCash
                 \/ \E j \in 1 .. i : equityPoints[i].peak = equityPoints[j].equity
BY DEF Inductive, TypeOK, PeakIsRunningMaximum

(* A step that leaves the accounting alone keeps the running maxima. *)
LEMMA AccountingUnchanged ==
  ASSUME Inductive, UNCHANGED accounting
  PROVE  /\ PeakIsRunningMaximum'
         /\ cash' \in Int /\ peakEquity' \in Int /\ account' \in AccountType
         /\ equityPoints' \in Seq(PointType)
BY DEF Inductive, TypeOK, PeakIsRunningMaximum, accounting

(* submit appends a typed admission and may set a typed pending order. *)
LEMMA SubmitStep ==
  ASSUME Inductive, NEW intent \in Intents, NEW t \in Times, Submit(intent, t)
  PROVE  Inductive'
<1>1. intent \in IntentType /\ t \in Nat
  BY IntentsAssumption, BoundsAssumption
<1>2. TypeOK
  BY DEF Inductive
<1>3. Len(processed) \in Nat /\ admissions \in Seq(AdmissionType) /\ orderSeq \in Nat
  BY <1>2 DEF TypeOK
<1>4. AdmissionReason(intent) \in {"ACCEPTED", "SESSION_FINALIZED", "PENDING_ORDER_EXISTS",
             "POSITION_ALREADY_OPEN", "INVALID_ORDER_STATE", "NO_POSITION_TO_CLOSE"}
  BY DEF AdmissionReason
<1>5. /\ Admission(intent, t, orderSeq + 1, "ACCEPTED") \in AdmissionType
      /\ Admission(intent, t, 0, AdmissionReason(intent)) \in AdmissionType
  BY <1>1, <1>3, <1>4 DEF Admission, AdmissionType
<1>6. admissions' \in Seq(AdmissionType)
  BY <1>3, <1>5, SMTT(30) DEF Submit
<1>7. orderSeq' \in Nat /\ pending' \in OrderType
  <2>1. pending \in OrderType
    BY <1>2 DEF TypeOK
  <2>2. [order |-> orderSeq + 1, intent |-> intent, decided |-> t] \in OrderType
    BY <1>1, <1>3 DEF OrderType
  <2> QED
    BY <1>3, <2>1, <2>2 DEF Submit
<1>8. UNCHANGED <<positionSeq, tradeSeq, accounting, holding, executed, lastBar, outcome, processed>>
  BY DEF Submit
<1>9. TypeOK'
  BY <1>2, <1>6, <1>7, <1>8 DEF TypeOK, accounting, holding, executed, outcome
<1> QED
  BY <1>8, <1>9, AccountingUnchanged DEF Inductive

(* What every outcome of process_bar does to the variables it shares. *)
LEMMA BarPrelude ==
  ASSUME Inductive, NEW b \in Bars, NEW t \in Times, ProcessBar(b, t)
  PROVE  /\ Stamped(b, t) \in BarType
         /\ processed' \in Seq(BarType) /\ lastBar' \in BarType /\ pending' \in OrderType
         /\ positionSeq' \in Nat /\ UNCHANGED <<admissions, outcome>>
<1>1. b \in CandleType /\ t \in Nat
  BY BarsAssumption, BoundsAssumption
<1>2. processed \in Seq(BarType) /\ positionSeq \in Nat
  BY DEF Inductive, TypeOK
<1>3. Stamped(b, t) \in BarType
  BY <1>1, <1>2 DEF Stamped, BarType, CandleType
<1>4. /\ processed' = Append(processed, Stamped(b, t)) /\ lastBar' = Stamped(b, t)
      /\ pending' = NoOrder
      /\ positionSeq' = IF EntryPending THEN positionSeq + 1 ELSE positionSeq
      /\ UNCHANGED <<admissions, outcome>>
  BY DEF ProcessBar
<1> HIDE DEF Stamped
<1>5. processed' \in Seq(BarType)
  BY <1>2, <1>3, <1>4
<1> QED
  BY <1>2, <1>3, <1>4, <1>5, NonesInType

(* process_bar: nothing closes, a position closes, or it raises. *)
LEMMA ProcessBarStep ==
  ASSUME Inductive, NEW b \in Bars, NEW t \in Times, ProcessBar(b, t)
  PROVE  Inductive'
<1> DEFINE bar == Stamped(b, t)
           p == PositionAtOpen(bar)
           entry == EntryAtOpen(bar)
<1>1. TypeOK
  BY DEF Inductive
<1>2. bar \in BarType
  BY BarPrelude
<1>3. /\ orderSeq \in Nat /\ tradeSeq \in Nat /\ cash \in Int
      /\ trades \in Seq(TradeType) /\ pending.order \in Nat
      /\ admissions \in Seq(AdmissionType) /\ finalized \in BOOLEAN
  BY <1>1 DEF TypeOK, OrderType
<1>4. p \in PositionType /\ entry \in FillType /\ FillsAtOpen(bar) \in Seq(FillType)
  BY <1>1, <1>2, OpenInType
<1>5. HoldBar(bar) \/ ExitBar(bar) \/ RaiseInBar(bar)
  BY DEF ProcessBar
<1> HIDE DEF bar
<1>6. SUFFICES /\ PeakIsRunningMaximum'
               /\ orderSeq' \in Nat /\ tradeSeq' \in Nat
               /\ cash' \in Int /\ peakEquity' \in Int /\ account' \in AccountType
               /\ equityPoints' \in Seq(PointType)
               /\ position' \in PositionType /\ entryFill' \in FillType
               /\ fills' \in Seq(FillType) /\ trades' \in Seq(TradeType)
  BY <1>3, BarPrelude DEF Inductive, TypeOK, outcome
<1>7. CASE HoldBar(bar)
  <2>1. /\ position' = p /\ entryFill' = entry /\ fills' = FillsAtOpen(bar)
        /\ RecordEquity(bar, p, entry, cash, peakEquity, equityPoints)
        /\ UNCHANGED <<orderSeq, tradeSeq, cash, trades>>
    BY <1>7 DEF HoldBar
  <2> HIDE DEF p, entry
  <2>2. /\ PeakIsRunningMaximum' /\ equityPoints' \in Seq(PointType)
        /\ peakEquity' \in Int /\ account' \in AccountType
    BY <1>2, <1>3, <1>4, <2>1, PointsSoFar, RecordKeepsMaximum
  <2> QED
    BY <1>3, <1>4, <2>1, <2>2
<1>8. CASE ExitBar(bar)
  <2> DEFINE exit == ExitFill(p, bar)
             trade == CompletedTrade(p, entry, exit, ExitOf(bar).reason)
  <2>1. /\ ExitOf(bar) # NoExit
        /\ orderSeq' = IF ClosePending THEN orderSeq ELSE orderSeq + 1
        /\ CompleteTrade(trade)
        /\ fills' = Append(FillsAtOpen(bar), exit)
        /\ RecordEquity(bar, Flat, NoFill, cash + trade.net, peakEquity, equityPoints)
    BY <1>8 DEF ExitBar
  <2>2. exit \in FillType /\ ExitOf(bar).reason \in TradeReasons
    BY <1>1, <1>2, <2>1, ExitInType
  <2> HIDE DEF p, entry, exit
  <2>3. trade \in TradeType
    BY <1>3, <1>4, <2>2, TradeInType DEF TradeReasons
  <2> HIDE DEF trade
  <2>4. trade.net \in Int
    BY <2>3 DEF TradeType
  <2>5. /\ tradeSeq' = tradeSeq + 1 /\ trades' = Append(trades, trade)
        /\ cash' = cash + trade.net /\ position' = Flat /\ entryFill' = NoFill
    BY <2>1 DEF CompleteTrade
  <2>6. /\ PeakIsRunningMaximum' /\ equityPoints' \in Seq(PointType)
        /\ peakEquity' \in Int /\ account' \in AccountType
    <3>1. cash + trade.net \in Int
      BY <1>3, <2>4
    <3> QED
      BY <1>2, <2>1, <3>1, PointsSoFar, NonesInType, RecordKeepsMaximum
  <2>7. fills' \in Seq(FillType) /\ trades' \in Seq(TradeType)
    BY <1>3, <1>4, <2>1, <2>2, <2>3, <2>5
  <2> QED
    BY <1>3, <2>1, <2>4, <2>5, <2>6, <2>7, NonesInType
<1>9. CASE RaiseInBar(bar)
  <2>1. /\ orderSeq' = IF ClosePending THEN orderSeq ELSE orderSeq + 1
        /\ tradeSeq' = tradeSeq + 1
        /\ position' = p /\ entryFill' = entry /\ fills' = FillsAtOpen(bar)
        /\ UNCHANGED <<trades, accounting>>
    BY <1>9 DEF RaiseInBar
  <2> HIDE DEF p, entry
  <2> QED
    BY <1>3, <1>4, <2>1, AccountingUnchanged
<1> QED
  BY <1>5, <1>7, <1>8, <1>9

(* finalize: flat, liquidating, or raising. *)
LEMMA FinalizeStep ==
  ASSUME Inductive, Finalize
  PROVE  Inductive'
<1>1. TypeOK
  BY DEF Inductive
<1>2. /\ orderSeq \in Nat /\ positionSeq \in Nat /\ tradeSeq \in Nat /\ cash \in Int
      /\ trades \in Seq(TradeType) /\ fills \in Seq(FillType)
      /\ position \in PositionType /\ entryFill \in FillType /\ lastBar \in BarType
      /\ admissions \in Seq(AdmissionType) /\ processed \in Seq(BarType)
      /\ finalized \in BOOLEAN
  BY <1>1 DEF TypeOK
<1>3. /\ pending' = NoOrder /\ processed' = processed /\ UNCHANGED <<admissions, lastBar>>
      /\ FinalizeFlat \/ FinalizeOpen \/ RaiseInFinalize
  BY DEF Finalize
<1>4. SUFFICES /\ PeakIsRunningMaximum'
               /\ orderSeq' \in Nat /\ positionSeq' \in Nat /\ tradeSeq' \in Nat
               /\ cash' \in Int /\ peakEquity' \in Int /\ account' \in AccountType
               /\ equityPoints' \in Seq(PointType)
               /\ position' \in PositionType /\ entryFill' \in FillType
               /\ fills' \in Seq(FillType) /\ trades' \in Seq(TradeType)
               /\ finalized' \in BOOLEAN
  BY <1>2, <1>3, NonesInType DEF Inductive, TypeOK
<1>5. CASE FinalizeFlat
  BY <1>2, <1>5, AccountingUnchanged DEF FinalizeFlat, identifiers, holding, executed
<1>6. CASE RaiseInFinalize
  BY <1>2, <1>6, AccountingUnchanged DEF RaiseInFinalize, holding, executed, outcome
<1>7. CASE FinalizeOpen
  <2> DEFINE exit == Fill(orderSeq + 1, OppositeAction(position), Abs(position.quantity),
                          lastBar.time, lastBar, lastBar.close, "END_OF_DATA", position.id)
             trade == CompletedTrade(position, entryFill, exit, "END_OF_DATA")
  <2>1. /\ Len(equityPoints) > 0
        /\ orderSeq' = orderSeq + 1
        /\ CompleteTrade(trade)
        /\ fills' = Append(fills, exit)
        /\ RecordEquity(lastBar, Flat, NoFill, cash + trade.net, PeakBeforeLast, EarlierPoints)
        /\ finalized' = TRUE
        /\ UNCHANGED positionSeq
    BY <1>7 DEF FinalizeOpen
  <2>2. exit \in FillType
    <3>1. ASSUME NEW a \in Actions, NEW q \in Nat, NEW i \in Nat
          PROVE  Fill(orderSeq + 1, a, q, lastBar.time, lastBar, lastBar.close, "END_OF_DATA", i)
                   \in FillType
      <4>1. lastBar.time \in Nat /\ lastBar.close \in Nat /\ orderSeq + 1 \in Nat
        BY <1>2 DEF BarType
      <4> QED
        BY <1>2, <4>1, FillInType DEF FillReasons
    <3>2. /\ OppositeAction(position) \in Actions /\ Abs(position.quantity) \in Nat
          /\ position.id \in Nat
      BY <1>2 DEF OppositeAction, Actions, Abs, PositionType
    <3> QED
      BY <3>1, <3>2
  <2> HIDE DEF exit
  <2>3. trade \in TradeType
    BY <1>2, <2>2, TradeInType
  <2> HIDE DEF trade
  <2>4. trade.net \in Int /\ cash + trade.net \in Int
    BY <1>2, <2>3, SMTT(20) DEF TradeType
  <2>5. /\ tradeSeq' = tradeSeq + 1 /\ trades' = Append(trades, trade)
        /\ cash' = cash + trade.net /\ position' = Flat /\ entryFill' = NoFill
    BY <2>1 DEF CompleteTrade
  <2>6. /\ PeakIsRunningMaximum' /\ equityPoints' \in Seq(PointType)
        /\ peakEquity' \in Int /\ account' \in AccountType
    <3> DEFINE n == Len(EarlierPoints)
    <3>1. /\ EarlierPoints \in Seq(PointType) /\ n = Len(equityPoints) - 1 /\ n \in Nat
          /\ \A i \in 1 .. n : EarlierPoints[i] = equityPoints[i]
          /\ PeakBeforeLast = IF Len(equityPoints) = 1 THEN StartingCash
                              ELSE equityPoints[Len(equityPoints) - 1].peak
      BY <2>1, PeakBeforeLastIsPrevious DEF Inductive
    <3>2. PeakBeforeLast = IF n = 0 THEN StartingCash ELSE EarlierPoints[n].peak
      BY <3>1
    <3>3. PeakBeforeLast \in Int
      <4>1. CASE n = 0
        BY <3>2, <4>1, NonesInType
      <4>2. CASE n # 0
        <5>1. EarlierPoints[n] \in PointType
          BY <3>1, <4>2
        <5> QED
          BY <3>2, <4>2, <5>1 DEF PointType
      <4> QED
        BY <4>1, <4>2
    <3>4. ASSUME NEW i \in 1 .. n
          PROVE  /\ EarlierPoints[i].peak >= StartingCash
                 /\ \A j \in 1 .. i : EarlierPoints[i].peak >= EarlierPoints[j].equity
                 /\ \/ EarlierPoints[i].peak = StartingCash
                    \/ \E j \in 1 .. i : EarlierPoints[i].peak = EarlierPoints[j].equity
      <4>1. i \in 1 .. Len(equityPoints) /\ \A j \in 1 .. i : j \in 1 .. n
        BY <3>1
      <4> QED
        BY <3>1, <4>1, PointsSoFar
    <3> QED
      BY <1>2, <2>1, <2>4, <3>1, <3>2, <3>3, <3>4, NonesInType, RecordKeepsMaximum
  <2>7. fills' \in Seq(FillType) /\ trades' \in Seq(TradeType)
    BY <1>2, <2>1, <2>2, <2>3, <2>5
  <2> QED
    BY <1>2, <2>1, <2>4, <2>5, <2>6, <2>7, NonesInType
<1> QED
  BY <1>3, <1>5, <1>6, <1>7

(* A step that changes nothing keeps everything. *)
LEMMA StutterStep ==
  ASSUME Inductive, UNCHANGED vars
  PROVE  Inductive'
BY DEF Inductive, TypeOK, PeakIsRunningMaximum, vars, identifiers, accounting, holding,
   executed, outcome

(* A new broker has the types, and a peak of its initial cash. *)
LEMMA InitInductive == Init => Inductive
<1> SUFFICES ASSUME Init PROVE Inductive
  OBVIOUS
<1>1. account \in AccountType
  BY NonesInType DEF Init, AccountType
<1>2. PeakIsRunningMaximum
  BY DEF Init, PeakIsRunningMaximum
<1>3. /\ <<>> \in Seq(PointType) /\ <<>> \in Seq(AdmissionType) /\ <<>> \in Seq(FillType)
      /\ <<>> \in Seq(TradeType) /\ <<>> \in Seq(BarType)
  OBVIOUS
<1>4. TypeOK
  BY <1>1, <1>3, NonesInType DEF Init, TypeOK
<1> QED
  BY <1>2, <1>4 DEF Inductive

(* Every value the broker keeps has its type, and the peak of every equity *)
(* point is exactly the largest equity up to it, for every choice of       *)
(* rates, candles, timestamps and intents.                                 *)
THEOREM AlwaysInductive == Spec => []Inductive
<1>1. Init => Inductive
  BY InitInductive
<1>2. Inductive /\ [Next]_vars => Inductive'
  BY SubmitStep, ProcessBarStep, FinalizeStep, StutterStep DEF Next
<1> QED
  BY <1>1, <1>2, PTL DEF Spec

(* Type correctness of the broker. *)
THEOREM TypeCorrect == Spec => []TypeOK
<1>1. Inductive => TypeOK
  BY DEF Inductive
<1> QED
  BY <1>1, AlwaysInductive, PTL

(* The reported peak is the running maximum of equity: in particular the   *)
(* recomputation in finalize forgets exactly the discarded last mark.      *)
THEOREM PeakCorrect == Spec => []PeakIsRunningMaximum
<1>1. Inductive => PeakIsRunningMaximum
  BY DEF Inductive
<1> QED
  BY <1>1, AlwaysInductive, PTL

-----------------------------------------------------------------------------
(***************************************************************************)
(* What submit checked still holds when the bar is processed, the ledger   *)
(* and the entry fill describe one position, and a finalized session is    *)
(* settled.                                                                *)
(***************************************************************************)

(* An order that is pending has an identifier. *)
PendingNumbered == pending # NoOrder => pending.order # 0

Holding == PendingStillFits /\ HoldingsAgree /\ PendingNumbered

-----------------------------------------------------------------------------
(* The holdings.                                                           *)

(* What _fill_pending leaves at the open agrees: a new position and its    *)
(* fill, or the position and the fill of before.                           *)
LEMMA HoldingsAtOpen ==
  ASSUME TypeOK, Holding, NEW bar \in BarType,
         position' = PositionAtOpen(bar), entryFill' = EntryAtOpen(bar)
  PROVE  HoldingsAgree'
<1>1. CASE EntryPending
  <2> DEFINE q == pending.intent.quantity
  <2>1. /\ q \in Nat /\ q # 0
        /\ pending.intent.action \in {"BUY", "SELL"}
        /\ pending.order # 0
    BY <1>1 DEF TypeOK, OrderType, IntentType, Holding, PendingStillFits, PendingNumbered,
       EntryPending, IsEntry
  <2>2. /\ position'.quantity = IF pending.intent.action = "BUY" THEN q ELSE -q
        /\ position'.id = positionSeq + 1
        /\ position'.entered = bar.time /\ position'.price = bar.open
    BY <1>1 DEF PositionAtOpen
  <2>3. /\ entryFill'.order = pending.order /\ entryFill'.position = positionSeq + 1
        /\ entryFill'.price = bar.open /\ entryFill'.filled = bar.time
        /\ entryFill'.quantity = q /\ entryFill'.action = pending.intent.action
    BY <1>1 DEF EntryAtOpen, Fill
  <2> HIDE DEF q
  <2>4. position'.quantity # 0 /\ Abs(position'.quantity) = q
    BY <2>1, <2>2 DEF Abs
  <2>5. pending.intent.action = IF position'.quantity > 0 THEN "BUY" ELSE "SELL"
    BY <2>1, <2>2
  <2> QED
    BY <2>1, <2>2, <2>3, <2>4, <2>5 DEF HoldingsAgree, IsOpen
<1>2. CASE ~EntryPending
  <2>1. position' = position /\ entryFill' = entryFill
    BY <1>2 DEF PositionAtOpen, EntryAtOpen
  <2> QED
    BY <2>1 DEF Holding, HoldingsAgree, IsOpen
<1> QED
  BY <1>1, <1>2

(* A completed trade leaves the broker flat and without an entry fill. *)
LEMMA HoldingsAfterTrade ==
  ASSUME position' = Flat, entryFill' = NoFill
  PROVE  HoldingsAgree'
BY DEF HoldingsAgree, IsOpen, Flat

(* Where nothing is pending, what is asked of a pending order holds. *)
LEMMA NothingPending ==
  ASSUME pending' = NoOrder
  PROVE  PendingStillFits' /\ PendingNumbered'
BY DEF PendingStillFits, PendingNumbered, EntryPending, ClosePending

(* submit accepts an entry only when flat and a CLOSE only when open. *)
LEMMA SubmitHolding ==
  ASSUME TypeOK, Holding, NEW intent \in Intents, NEW t \in Times, Submit(intent, t)
  PROVE  Holding'
<1>1. UNCHANGED <<position, entryFill>>
  BY DEF Submit, holding
<1>2. HoldingsAgree'
  BY <1>1 DEF Holding, HoldingsAgree, IsOpen
<1>3. CASE AdmissionReason(intent) = "ACCEPTED"
  <2>1. pending' = [order |-> orderSeq + 1, intent |-> intent, decided |-> t]
    BY <1>3 DEF Submit
  <2>2. /\ IsEntry(intent) => position.quantity = 0 /\ intent.quantity # 0
        /\ ~IsEntry(intent) => position.quantity # 0
    BY <1>3 DEF AdmissionReason
  <2>3. orderSeq + 1 # 0
    BY DEF TypeOK
  <2>4. pending'.intent = intent /\ pending'.order = orderSeq + 1
    BY <2>1
  <2>5. PendingStillFits'
    BY <1>1, <2>2, <2>4 DEF PendingStillFits, EntryPending, ClosePending, IsOpen
  <2>6. PendingNumbered'
    BY <2>3, <2>4 DEF PendingNumbered
  <2> QED
    BY <1>2, <2>5, <2>6 DEF Holding
<1>4. CASE AdmissionReason(intent) # "ACCEPTED"
  <2>1. pending' = pending
    BY <1>4 DEF Submit
  <2> QED
    BY <1>1, <1>2, <2>1 DEF Holding, PendingStillFits, PendingNumbered, EntryPending,
       ClosePending, IsOpen
<1> QED
  BY <1>3, <1>4

(* process_bar consumes the pending order, whatever it does to the position. *)
LEMMA ProcessBarHolding ==
  ASSUME Inductive, Holding, NEW b \in Bars, NEW t \in Times, ProcessBar(b, t)
  PROVE  Holding'
<1> DEFINE bar == Stamped(b, t)
<1>1. TypeOK /\ bar \in BarType
  BY BarPrelude DEF Inductive
<1>2. pending' = NoOrder /\ (HoldBar(bar) \/ ExitBar(bar) \/ RaiseInBar(bar))
  BY DEF ProcessBar
<1> HIDE DEF bar
<1>3. CASE HoldBar(bar)
  BY <1>1, <1>3, HoldingsAtOpen, <1>2, NothingPending DEF HoldBar, Holding
<1>4. CASE ExitBar(bar)
  BY <1>2, <1>4, HoldingsAfterTrade, NothingPending DEF ExitBar, CompleteTrade, Holding
<1>5. CASE RaiseInBar(bar)
  BY <1>1, <1>5, HoldingsAtOpen, <1>2, NothingPending DEF RaiseInBar, Holding
<1> QED
  BY <1>2, <1>3, <1>4, <1>5

(* finalize drops the pending order and keeps or liquidates the position. *)
LEMMA FinalizeHolding ==
  ASSUME Holding, Finalize
  PROVE  Holding'
<1>1. pending' = NoOrder /\ (FinalizeFlat \/ FinalizeOpen \/ RaiseInFinalize)
  BY DEF Finalize
<1>2. CASE UNCHANGED holding
  BY <1>1, <1>2, NothingPending DEF Holding, holding, HoldingsAgree, IsOpen
<1>3. CASE FinalizeOpen
  BY <1>1, <1>3, HoldingsAfterTrade, NothingPending DEF FinalizeOpen, CompleteTrade, Holding
<1> QED
  BY <1>1, <1>2, <1>3 DEF FinalizeFlat, RaiseInFinalize

(* A step that changes nothing keeps the holdings. *)
LEMMA StutterHolding ==
  ASSUME Holding, UNCHANGED vars
  PROVE  Holding'
BY DEF Holding, PendingStillFits, HoldingsAgree, PendingNumbered, EntryPending, ClosePending,
   IsOpen, vars, holding

(* Of the position and the pending order together: no intent that submit   *)
(* accepted meets a position it does not fit, and the ledger agrees with   *)
(* the entry fill, through every bar, exit, exception and the liquidation. *)
THEOREM AlwaysHolding == Spec => []Holding
<1>1. Init => Holding
  BY DEF Init, Holding, PendingStillFits, HoldingsAgree, PendingNumbered, EntryPending,
     ClosePending, IsOpen, Flat
<1>2. Inductive /\ Holding /\ [Next]_vars => Holding'
  BY SubmitHolding, ProcessBarHolding, FinalizeHolding, StutterHolding DEF Next, Inductive
<1> QED
  BY <1>1, <1>2, AlwaysInductive, PTL DEF Spec

(* The "guarded during submit" errors of _fill_pending cannot be raised. *)
THEOREM PendingAlwaysFits == Spec => []PendingStillFits
<1>1. Holding => PendingStillFits
  BY DEF Holding
<1> QED
  BY <1>1, AlwaysHolding, PTL

(* The ledger and _entry_fill always describe the same position. *)
THEOREM HoldingsAlwaysAgree == Spec => []HoldingsAgree
<1>1. Holding => HoldingsAgree
  BY DEF Holding
<1> QED
  BY <1>1, AlwaysHolding, PTL

-----------------------------------------------------------------------------
(* The end of the session.                                                 *)

(* A flat account is all cash, the last point is the account, and there is *)
(* a point for every bar unless the session is stuck.                      *)
Balanced ==
  /\ ~IsOpen => account.unrealized = 0 /\ account.equity = cash
  /\ Len(equityPoints) > 0 => equityPoints[Len(equityPoints)].equity = account.equity
  /\ ~Stuck => Len(equityPoints) = Len(processed)
  /\ lastBar # NoBar => Len(processed) > 0

Settlement == Balanced /\ SettledWhenFinal

(* _record_equity appends the account; a flat one is all cash. *)
LEMMA RecordBalances ==
  ASSUME NEW before \in Seq(PointType), NEW peakBefore \in Int,
         NEW bar \in BarType, NEW p \in PositionType, NEW entry \in FillType, NEW money \in Int,
         RecordEquity(bar, p, entry, money, peakBefore, before), cash' = money
  PROVE  /\ Len(equityPoints') = Len(before) + 1
         /\ equityPoints'[Len(equityPoints')].equity = account'.equity
         /\ p.quantity = 0 => account'.unrealized = 0 /\ account'.equity = cash'
<1> DEFINE mark == Mark(bar, p, entry, money, peakBefore)
           point == Point(bar, mark)
<1>1. mark \in AccountType /\ point \in PointType
  BY MarkInType
<1>2. account' = mark /\ equityPoints' = Append(before, point)
  BY DEF RecordEquity
<1>3. point.equity = mark.equity
  BY DEF Point
<1>4. p.quantity = 0 => mark.unrealized = 0 /\ mark.equity = money
  BY DEF Mark
<1> HIDE DEF point, mark
<1>5. Len(equityPoints') = Len(before) + 1 /\ equityPoints'[Len(equityPoints')] = point
  BY <1>1, <1>2, AppendProperties
<1> QED
  BY <1>2, <1>3, <1>4, <1>5

(* submit touches neither the accounting nor the position. *)
LEMMA SubmitSettlement ==
  ASSUME Settlement, NEW intent \in Intents, NEW t \in Times, Submit(intent, t), ~finalized
  PROVE  Settlement'
BY DEF Settlement, Balanced, SettledWhenFinal, Submit, accounting, holding, outcome, executed,
   IsOpen, Stuck, RiskDefined

(* After finalize submit rejects, so that nothing becomes pending again. *)
LEMMA SubmitAfterFinal ==
  ASSUME Settlement, NEW intent \in Intents, NEW t \in Times, Submit(intent, t), finalized
  PROVE  Settlement'
<1>1. AdmissionReason(intent) # "ACCEPTED"
  BY DEF AdmissionReason
<1>2. pending' = pending
  BY <1>1 DEF Submit
<1> QED
  BY <1>2 DEF Settlement, Balanced, SettledWhenFinal, Submit, accounting, holding, outcome,
     executed, IsOpen, Stuck, RiskDefined

(* The position after the open is the one before unless an entry filled,   *)
(* and an entry only fills when the broker was flat.                       *)
LEMMA OpenKeepsPosition ==
  ASSUME Holding, NEW bar
  PROVE  IsOpen => PositionAtOpen(bar) = position
BY DEF Holding, PendingStillFits, PositionAtOpen

(* Only an open position is exited. *)
LEMMA ExitsAreOpen ==
  ASSUME Holding, NEW bar, ExitOf(bar) # NoExit
  PROVE  PositionAtOpen(bar).quantity # 0
<1>1. CASE ClosePending
  BY <1>1, OpenKeepsPosition DEF Holding, PendingStillFits, IsOpen
<1>2. CASE ~ClosePending
  BY <1>2 DEF ExitOf, ProtectiveExit
<1> QED
  BY <1>1, <1>2

(* process_bar records one point, unless it raises; then the position is   *)
(* stuck, and it stays so.                                                 *)
LEMMA ProcessBarSettlement ==
  ASSUME Inductive, Holding, Settlement, NEW b \in Bars, NEW t \in Times, ProcessBar(b, t)
  PROVE  Settlement'
<1> DEFINE bar == Stamped(b, t)
           p == PositionAtOpen(bar)
           entry == EntryAtOpen(bar)
<1>1. /\ TypeOK /\ bar \in BarType /\ processed \in Seq(BarType)
      /\ cash \in Int /\ peakEquity \in Int /\ equityPoints \in Seq(PointType)
      /\ Len(equityPoints) \in Nat /\ Len(processed) \in Nat
  BY BarPrelude DEF Inductive, TypeOK
<1>2. /\ ~finalized /\ processed' = Append(processed, bar)
      /\ HoldBar(bar) \/ ExitBar(bar) \/ RaiseInBar(bar)
      /\ UNCHANGED outcome
  BY DEF ProcessBar, BarAccepted
<1>3. p \in PositionType /\ entry \in FillType
  BY <1>1, OpenInType
<1> HIDE DEF bar
<1>4. Len(processed') = Len(processed) + 1
  BY <1>1, <1>2
<1>5. SettledWhenFinal'
  BY <1>2 DEF SettledWhenFinal, outcome
<1>6. SUFFICES /\ ~IsOpen' => account'.unrealized = 0 /\ account'.equity = cash'
               /\ Len(equityPoints') > 0 =>
                    equityPoints'[Len(equityPoints')].equity = account'.equity
               /\ ~Stuck' => Len(equityPoints') = Len(processed')
  BY <1>1, <1>4, <1>5 DEF Settlement, Balanced
<1>7. ~Stuck => Len(equityPoints) = Len(processed)
  BY DEF Settlement, Balanced
<1>8. CASE HoldBar(bar)
  <2>1. /\ position' = p /\ UNCHANGED cash
        /\ RecordEquity(bar, p, entry, cash, peakEquity, equityPoints)
    BY <1>8 DEF HoldBar
  <2>2. Stuck => Stuck'
    BY <2>1, OpenKeepsPosition DEF Stuck, IsOpen, RiskDefined
  <2>3. IsOpen' <=> p.quantity # 0
    BY <2>1 DEF IsOpen
  <2> HIDE DEF p, entry
  <2> QED
    BY <1>1, <1>3, <1>4, <1>7, <2>1, <2>2, <2>3, RecordBalances
<1>9. CASE ExitBar(bar)
  <2> DEFINE trade == CompletedTrade(p, entry, ExitFill(p, bar), ExitOf(bar).reason)
  <2>1. /\ ExitOf(bar) # NoExit /\ BarCompletes(bar) /\ CompleteTrade(trade)
        /\ RecordEquity(bar, Flat, NoFill, cash + trade.net, peakEquity, equityPoints)
    BY <1>9 DEF ExitBar
  <2>2. trade.net \in Int
    <3>1. ExitFill(p, bar) \in FillType /\ ExitOf(bar).reason \in TradeReasons
      BY <1>1, <2>1, ExitInType
    <3>2. tradeSeq \in Nat
      BY <1>1 DEF TypeOK
    <3> HIDE DEF p, entry
    <3>3. trade \in TradeType
      BY <1>3, <3>1, <3>2, TradeInType DEF TradeReasons
    <3> HIDE DEF trade
    <3> QED
      BY <3>3 DEF TradeType
  <2>3. ~Stuck
    BY <2>1, OpenKeepsPosition DEF Stuck, BarCompletes
  <2> HIDE DEF trade
  <2>4. position' = Flat /\ cash' = cash + trade.net
    BY <2>1 DEF CompleteTrade
  <2>5. /\ Len(equityPoints') = Len(equityPoints) + 1
        /\ equityPoints'[Len(equityPoints')].equity = account'.equity
        /\ Flat.quantity = 0 => account'.unrealized = 0 /\ account'.equity = cash'
    BY <1>1, <2>1, <2>2, <2>4, NonesInType, RecordBalances
  <2>6. Flat.quantity = 0
    BY DEF Flat
  <2> QED
    BY <1>1, <1>4, <1>7, <2>3, <2>5, <2>6
<1>10. CASE RaiseInBar(bar)
  <2>1. position' = p /\ UNCHANGED accounting /\ ~BarCompletes(bar)
    BY <1>10 DEF RaiseInBar
  <2>2. IsOpen' /\ Stuck'
    BY <2>1, ExitsAreOpen DEF Stuck, IsOpen, BarCompletes, RiskDefined
  <2> QED
    BY <2>1, <2>2 DEF Settlement, Balanced, accounting
<1> QED
  BY <1>2, <1>8, <1>9, <1>10

(* finalize settles a session, or raises on a stuck position. *)
LEMMA FinalizeSettlement ==
  ASSUME Inductive, Holding, Settlement, Finalize
  PROVE  Settlement'
<1>1. /\ ~finalized /\ lastBar # NoBar /\ pending' = NoOrder
      /\ UNCHANGED <<processed, lastBar>>
      /\ FinalizeFlat \/ FinalizeOpen \/ RaiseInFinalize
  BY DEF Finalize
<1>2. /\ equityPoints \in Seq(PointType) /\ cash \in Int /\ tradeSeq \in Nat
      /\ orderSeq \in Nat /\ position \in PositionType /\ entryFill \in FillType
      /\ lastBar \in BarType /\ Len(equityPoints) \in Nat /\ Len(processed) \in Nat
  BY DEF Inductive, TypeOK
<1>3. /\ Len(processed) > 0
      /\ ~Stuck => Len(equityPoints) = Len(processed)
      /\ ~IsOpen => account.unrealized = 0 /\ account.equity = cash
      /\ Len(equityPoints) > 0 => equityPoints[Len(equityPoints)].equity = account.equity
  BY <1>1 DEF Settlement, Balanced
<1>4. CASE FinalizeFlat
  <2>1. /\ ~IsOpen /\ ~Stuck /\ UNCHANGED <<accounting, holding, executed>>
        /\ result' = Result(pending # NoOrder)
    BY <1>4 DEF FinalizeFlat, IsOpen, Stuck
  <2>2. position = Flat
    BY <2>1 DEF Holding, HoldingsAgree
  <2>3. ~IsOpen' /\ ~Stuck' /\ position' = Flat
    BY <2>1, <2>2 DEF IsOpen, Stuck, holding
  <2>4. UNCHANGED <<cash, account, equityPoints>>
    BY <2>1 DEF accounting
  <2>5. /\ result'.fills = fills' /\ result'.trades = trades' /\ result'.equity = equityPoints'
        /\ result'.account = account' /\ result'.position = position'
    BY <2>1 DEF Result
  <2> QED
    BY <1>1, <1>2, <1>3, <2>1, <2>3, <2>4, <2>5 DEF Settlement, Balanced, SettledWhenFinal
<1>5. CASE FinalizeOpen
  <2> DEFINE exit == Fill(orderSeq + 1, OppositeAction(position), Abs(position.quantity),
                          lastBar.time, lastBar, lastBar.close, "END_OF_DATA", position.id)
             trade == CompletedTrade(position, entryFill, exit, "END_OF_DATA")
  <2>1. /\ FinalizeCompletes /\ IsOpen /\ Len(equityPoints) > 0 /\ CompleteTrade(trade)
        /\ RecordEquity(lastBar, Flat, NoFill, cash + trade.net, PeakBeforeLast, EarlierPoints)
        /\ result' = Result(pending # NoOrder)
    BY <1>5 DEF FinalizeOpen, IsOpen
  <2>2. ~Stuck
    BY <2>1 DEF Stuck, FinalizeCompletes, IsOpen
  <2>3. trade.net \in Int
    <3>1. /\ Abs(position.quantity) \in Nat /\ OppositeAction(position) \in Actions
          /\ position.id \in Nat /\ lastBar.time \in Nat /\ lastBar.close \in Nat
          /\ orderSeq + 1 \in Nat
      BY <1>2, SMTT(30) DEF PositionType, BarType, Abs, OppositeAction, Actions
    <3>2. exit \in FillType
      BY <1>2, <3>1, FillInType DEF FillReasons
    <3> HIDE DEF exit
    <3>3. trade \in TradeType
      BY <1>2, <3>2, TradeInType
    <3> HIDE DEF trade
    <3> QED
      BY <3>3 DEF TradeType
  <2> HIDE DEF trade
  <2>4. position' = Flat /\ cash' = cash + trade.net
    BY <2>1 DEF CompleteTrade
  <2>5. EarlierPoints \in Seq(PointType) /\ Len(EarlierPoints) = Len(equityPoints) - 1
    BY <2>1, PeakBeforeLastIsPrevious DEF Inductive
  <2>6. PeakBeforeLast \in Int
    <3>1. PeakBeforeLast = IF Len(equityPoints) = 1 THEN StartingCash
                           ELSE equityPoints[Len(equityPoints) - 1].peak
      BY <2>1, PeakBeforeLastIsPrevious DEF Inductive
    <3>2. CASE Len(equityPoints) = 1
      BY <3>1, <3>2, NonesInType
    <3>3. CASE Len(equityPoints) # 1
      <4>1. Len(equityPoints) - 1 \in 1 .. Len(equityPoints)
        <5> DEFINE n == Len(equityPoints)
        <5>1. n \in Nat /\ n > 0 /\ n # 1
          BY <1>2, <2>1, <3>3
        <5> HIDE DEF n
        <5>2. n - 1 \in 1 .. n
          BY <5>1
        <5> QED
          BY <5>2 DEF n
      <4>2. ASSUME NEW i \in 1 .. Len(equityPoints)
            PROVE  equityPoints[i].peak \in Int
        <5>1. equityPoints[i] \in PointType
          BY <1>2
        <5> QED
          BY <5>1 DEF PointType
      <4> QED
        BY <3>1, <3>3, <4>1, <4>2
    <3> QED
      BY <3>2, <3>3
  <2>7. /\ Len(equityPoints') = Len(equityPoints)
        /\ equityPoints'[Len(equityPoints')].equity = account'.equity
        /\ account'.unrealized = 0 /\ account'.equity = cash'
    BY <1>2, <2>1, <2>3, <2>4, <2>5, <2>6, NonesInType, RecordBalances DEF Flat
  <2>8. ~IsOpen' /\ ~Stuck'
    BY <2>4 DEF IsOpen, Stuck, Flat
  <2>9. /\ result'.fills = fills' /\ result'.trades = trades' /\ result'.equity = equityPoints'
        /\ result'.account = account' /\ result'.position = position'
    BY <2>1 DEF Result
  <2> QED
    BY <1>1, <1>2, <1>3, <2>1, <2>2, <2>4, <2>7, <2>8, <2>9
       DEF Settlement, Balanced, SettledWhenFinal
<1>6. CASE RaiseInFinalize
  BY <1>1, <1>6 DEF RaiseInFinalize, accounting, holding, executed, outcome, Settlement,
     Balanced, SettledWhenFinal, IsOpen, Stuck, RiskDefined
<1> QED
  BY <1>1, <1>4, <1>5, <1>6

(* A step that changes nothing keeps the settlement. *)
LEMMA StutterSettlement ==
  ASSUME Settlement, UNCHANGED vars
  PROVE  Settlement'
BY DEF Settlement, Balanced, SettledWhenFinal, vars, identifiers, accounting, holding, executed,
   outcome, IsOpen, Stuck, RiskDefined

(* The accounting of a session, open and finalized.  That finalize cannot  *)
(* be undone rests on submit and process_bar refusing a finalized session. *)
THEOREM AlwaysSettlement == Spec => []Settlement
<1>1. Init => Settlement
  BY DEF Init, Settlement, Balanced, SettledWhenFinal
<1>2. Inductive /\ Holding /\ Settlement /\ [Next]_vars => Settlement'
  BY SubmitSettlement, SubmitAfterFinal, ProcessBarSettlement, FinalizeSettlement,
     StutterSettlement DEF Next
<1> QED
  BY <1>1, <1>2, AlwaysInductive, AlwaysHolding, PTL DEF Spec

(* A finalized session is flat, has nothing pending, its account is all    *)
(* cash and agrees with the replaced last point, there is one point for    *)
(* every bar, and the result holds all the broker recorded.                *)
THEOREM SettledCorrect == Spec => []SettledWhenFinal
<1>1. Settlement => SettledWhenFinal
  BY DEF Settlement
<1> QED
  BY <1>1, AlwaysSettlement, PTL

-----------------------------------------------------------------------------
(***************************************************************************)
(* The broker implements the execution semantics of the user guide: its    *)
(* initial state is one of theirs, and each of its steps is one of their   *)
(* steps or changes nothing they speak of. The mapping holds in the        *)
(* reachable states: the pending order fits the position.                  *)
(***************************************************************************)

(* What a bar that process_bar accepts is: a candle with its index. *)
LEMMA BarIsCandle ==
  ASSUME TypeOK, NEW b \in Bars, NEW t \in Times
  PROVE  LET bar == Stamped(b, t)
         IN /\ bar \in BarType
            /\ CandleOf(bar) = b /\ bar.time = t /\ bar # NoBar
            /\ bar.low <= bar.open /\ bar.open <= bar.high
            /\ bar.open = b.open /\ bar.high = b.high /\ bar.low = b.low /\ bar.close = b.close
<1>1. /\ b \in CandleType /\ t \in Nat /\ b.low <= b.open /\ b.open <= b.high
  BY BarsAssumption, BoundsAssumption
<1>2. Len(processed) \in Nat
  BY DEF TypeOK
<1>3. Stamped(b, t).index # 0
  BY <1>2 DEF Stamped
<1> QED
  BY <1>1, <1>2, <1>3 DEF Stamped, BarType, CandleType, CandleOf, NoBar

(* The tape grows by what a fill says. *)
LEMMA TapeGrows ==
  ASSUME NEW log \in Seq(FillType), NEW f \in FillType
  PROVE  /\ TapeOf(Append(log, f)) = Append(TapeOf(log), Traded(f))
         /\ Append(log, f) \in Seq(FillType)
<1>1. /\ Append(log, f) \in Seq(FillType)
      /\ Len(Append(log, f)) = Len(log) + 1
      /\ \A i \in 1 .. Len(log) : Append(log, f)[i] = log[i]
      /\ Append(log, f)[Len(log) + 1] = f
  BY AppendProperties
<1>2. Len(log) \in Nat
  OBVIOUS
<1> DEFINE range == {Traded(g) : g \in FillType}
<1>3. \A i \in 1 .. Len(log) : log[i] \in FillType
  OBVIOUS
<1>4. TapeOf(log) \in Seq(range) /\ Len(TapeOf(log)) = Len(log) /\ Traded(f) \in range
  BY <1>2, <1>3 DEF TapeOf
<1> HIDE DEF range
<1>5. /\ Append(TapeOf(log), Traded(f)) \in Seq(range)
      /\ Len(Append(TapeOf(log), Traded(f))) = Len(log) + 1
      /\ \A i \in 1 .. Len(log) : Append(TapeOf(log), Traded(f))[i] = TapeOf(log)[i]
      /\ Append(TapeOf(log), Traded(f))[Len(log) + 1] = Traded(f)
  BY <1>4, AppendProperties
<1>6. Append(TapeOf(log), Traded(f)) =
        [i \in 1 .. Len(log) + 1 |-> Append(TapeOf(log), Traded(f))[i]]
  <2> DEFINE longer == Append(TapeOf(log), Traded(f))
  <2> HIDE DEF longer
  <2>1. longer \in [1 .. Len(log) + 1 -> range]
    BY <1>5, LenProperties DEF longer
  <2> QED
    BY <2>1 DEF longer
<1>7. \A i \in 1 .. Len(log) + 1 :
        Append(TapeOf(log), Traded(f))[i] = Traded(Append(log, f)[i])
  BY <1>1, <1>2, <1>5 DEF TapeOf
<1> QED
  BY <1>1, <1>6, <1>7 DEF TapeOf

-----------------------------------------------------------------------------
(* The levels.                                                             *)

(* _select_protective_exit, written as a sequence of tests, takes a stop   *)
(* exactly when the candle touches it and a target exactly when it touches *)
(* only that, at the price the semantics give.                             *)
LEMMA ExitMeetsLevels ==
  ASSUME NEW p \in PositionType, p.quantity # 0, NEW bar \in BarType,
         bar.low <= bar.open, bar.open <= bar.high
  PROVE  LET v == ViewOf(p)
             exit == ProtectiveExit(p, bar)
         IN /\ Semantics!StopTouched(v, bar) =>
                 exit = [reason |-> "STOP_LOSS", price |-> Semantics!StopPrice(v, bar)]
            /\ ~Semantics!StopTouched(v, bar) /\ Semantics!TargetTouched(v, bar) =>
                 exit = [reason |-> "TAKE_PROFIT", price |-> Semantics!TargetPrice(v, bar)]
            /\ ~Semantics!StopTouched(v, bar) /\ ~Semantics!TargetTouched(v, bar) => exit = NoExit
<1>1. /\ p.quantity \in Int /\ p.stop \in Nat /\ p.profit \in Nat
      /\ bar.low \in Nat /\ bar.open \in Nat /\ bar.high \in Nat
  BY DEF PositionType, BarType
<1>2. /\ ViewOf(p).quantity = p.quantity /\ ViewOf(p).stop = p.stop
      /\ ViewOf(p).profit = p.profit
  BY DEF ViewOf
<1>3. CASE p.quantity > 0
  BY <1>1, <1>2, <1>3 DEF ProtectiveExit, Semantics!StopTouched, Semantics!TargetTouched,
     Semantics!StopPrice, Semantics!TargetPrice, Semantics!Lower, Semantics!Higher
<1>4. CASE ~(p.quantity > 0)
  BY <1>1, <1>2, <1>4 DEF ProtectiveExit, Semantics!StopTouched, Semantics!TargetTouched,
     Semantics!StopPrice, Semantics!TargetPrice, Semantics!Lower, Semantics!Higher
<1> QED
  BY <1>3, <1>4

(* The same of the candle that the bar was made from. *)
LEMMA LevelsOfCandle ==
  ASSUME NEW v, NEW bar
  PROVE  /\ Semantics!StopTouched(v, CandleOf(bar)) <=> Semantics!StopTouched(v, bar)
         /\ Semantics!TargetTouched(v, CandleOf(bar)) <=> Semantics!TargetTouched(v, bar)
         /\ Semantics!StopPrice(v, CandleOf(bar)) = Semantics!StopPrice(v, bar)
         /\ Semantics!TargetPrice(v, CandleOf(bar)) = Semantics!TargetPrice(v, bar)
BY DEF CandleOf, Semantics!StopTouched, Semantics!TargetTouched, Semantics!StopPrice,
   Semantics!TargetPrice

(* A position is unclosable when completing its trade raises. *)
LEMMA UnclosableRaises ==
  ASSUME NEW p
  PROVE  Semantics!Unclosable(ViewOf(p)) <=> ~RiskDefined(p)
BY DEF Semantics!Unclosable, ViewOf, RiskDefined

(* An exit sells what was bought or buys back what was sold. *)
LEMMA ExitIsOpposite ==
  ASSUME NEW p \in PositionType, p.quantity # 0, NEW price, NEW f,
         f.action = OppositeAction(p), f.quantity = Abs(p.quantity), f.price = price
  PROVE  Traded(f) = Semantics!Bought(-ViewOf(p).quantity, price)
<1>1. p.quantity \in Int /\ ViewOf(p).quantity = p.quantity
  BY DEF PositionType, ViewOf
<1> QED
  BY <1>1 DEF Traded, Semantics!Bought, Semantics!Side, Semantics!Size, OppositeAction, Abs

-----------------------------------------------------------------------------
(* The steps.                                                              *)

(* submit accepts what the semantics let the user decide, and otherwise    *)
(* changes nothing they speak of.                                          *)
LEMMA SubmitDecides ==
  ASSUME TypeOK, NEW intent \in Intents, NEW t \in Times, Submit(intent, t)
  PROVE  Semantics!Decide(intent, t) \/ UNCHANGED Semantics!semanticsVars
<1>1. /\ UNCHANGED <<position, fills, lastBar, finalized>>
      /\ UNCHANGED <<Held, TapeOf(fills), Last>>
  BY DEF Submit, holding, executed, outcome, Held, IsOpen, Last
<1>2. CASE AdmissionReason(intent) = "ACCEPTED"
  <2>1. pending' = [order |-> orderSeq + 1, intent |-> intent, decided |-> t]
    BY <1>2 DEF Submit
  <2>2. /\ ~finalized /\ pending = NoOrder
        /\ IsEntry(intent) => ~IsOpen /\ intent.quantity # 0
        /\ ~IsEntry(intent) => IsOpen
    BY <1>2 DEF AdmissionReason, IsOpen
  <2>3. intent.quantity \in Nat /\ intent.action \in Actions
    BY IntentsAssumption DEF IntentType
  <2>4. IsEntry(intent) <=> Semantics!Enters(intent)
    BY <2>3 DEF IsEntry, Actions, Semantics!Enters
  <2>5. pending' # NoOrder
    <3>1. orderSeq + 1 # 0
      BY DEF TypeOK
    <3> QED
      BY <2>1, <3>1 DEF NoOrder
  <2>6. Waiting = {} /\ Waiting' = {[intent |-> intent, since |-> t]}
    BY <2>1, <2>2, <2>5 DEF Waiting
  <2>7. IF Semantics!Enters(intent) THEN Held = {} /\ intent.quantity > 0 ELSE Held # {}
    BY <2>2, <2>3, <2>4 DEF Held
  <2> QED
    BY <1>1, <2>2, <2>6, <2>7 DEF Semantics!Decide
<1>3. CASE AdmissionReason(intent) # "ACCEPTED"
  BY <1>1, <1>3 DEF Submit, Waiting, Semantics!semanticsVars
<1> QED
  BY <1>2, <1>3

(* A bar that closes nothing keeps the position that was held or entered.  *)
LEMMA KeptInBar ==
  ASSUME NEW bar, PositionAtOpen(bar).quantity # 0, position' = PositionAtOpen(bar),
         fills' = FillsAtOpen(bar)
  PROVE  Semantics!Keep(ViewOf(PositionAtOpen(bar)), TapeOf(FillsAtOpen(bar)))
BY DEF Semantics!Keep, Held, IsOpen

(* A bar that closes the position leaves it at the price of the exit.      *)
LEMMA LeftInBar ==
  ASSUME TypeOK, NEW bar \in BarType, ExitBar(bar), PositionAtOpen(bar).quantity # 0
  PROVE  Semantics!Leave(ViewOf(PositionAtOpen(bar)), ExitOf(bar).price, TapeOf(FillsAtOpen(bar)))
<1> DEFINE p == PositionAtOpen(bar)
           exit == ExitFill(p, bar)
<1>1. p \in PositionType /\ exit \in FillType /\ FillsAtOpen(bar) \in Seq(FillType)
  BY OpenInType, ExitInType DEF ExitBar
<1>2. /\ exit.action = OppositeAction(p) /\ exit.quantity = Abs(p.quantity)
      /\ exit.price = ExitOf(bar).price
  BY DEF ExitFill, Fill, ExitOf
<1>3. position' = Flat /\ fills' = Append(FillsAtOpen(bar), exit) /\ RiskDefined(p)
  BY DEF ExitBar, CompleteTrade, BarCompletes
<1> HIDE DEF p, exit
<1>4. Traded(exit) = Semantics!Bought(-ViewOf(p).quantity, ExitOf(bar).price)
  BY <1>1, <1>2, ExitIsOpposite DEF p
<1>5. TapeOf(fills') = Append(TapeOf(FillsAtOpen(bar)), Traded(exit))
  BY <1>1, <1>3, TapeGrows
<1>6. Held' = {}
  BY <1>3 DEF Held, IsOpen, Flat
<1>7. ~Semantics!Unclosable(ViewOf(p))
  BY <1>3, UnclosableRaises
<1> QED
  BY <1>4, <1>5, <1>6, <1>7 DEF Semantics!Leave, p

(* A position that is held or entered and has no CLOSE pending meets the   *)
(* levels of the bar.                                                      *)
LEMMA BarMeetsLevels ==
  ASSUME TypeOK, NEW bar \in BarType, bar.low <= bar.open, bar.open <= bar.high,
         ~ClosePending, PositionAtOpen(bar).quantity # 0,
         HoldBar(bar) \/ ExitBar(bar) \/ RaiseInBar(bar)
  PROVE  Semantics!Meet(ViewOf(PositionAtOpen(bar)), CandleOf(bar), TapeOf(FillsAtOpen(bar)))
<1> DEFINE p == PositionAtOpen(bar)
           v == ViewOf(p)
           stop == Semantics!StopTouched(v, bar)
           target == Semantics!TargetTouched(v, bar)
<1>1. p \in PositionType
  BY OpenInType
<1>2. ExitOf(bar) = ProtectiveExit(p, bar)
  BY DEF ExitOf
<1>3. /\ stop => ExitOf(bar) = [reason |-> "STOP_LOSS", price |-> Semantics!StopPrice(v, bar)]
      /\ ~stop /\ target =>
           ExitOf(bar) = [reason |-> "TAKE_PROFIT", price |-> Semantics!TargetPrice(v, bar)]
      /\ ~stop /\ ~target => ExitOf(bar) = NoExit
  BY <1>1, <1>2, ExitMeetsLevels
<1>4. SUFFICES \/ stop /\ Semantics!Leave(v, Semantics!StopPrice(v, bar), TapeOf(FillsAtOpen(bar)))
               \/ /\ ~stop /\ target
                  /\ Semantics!Leave(v, Semantics!TargetPrice(v, bar), TapeOf(FillsAtOpen(bar)))
               \/ /\ stop \/ target => Semantics!Unclosable(v)
                  /\ Semantics!Keep(v, TapeOf(FillsAtOpen(bar)))
  BY LevelsOfCandle DEF Semantics!Meet
<1> HIDE DEF stop, target
<1>5. CASE HoldBar(bar)
  <2>1. ExitOf(bar) = NoExit /\ Semantics!Keep(v, TapeOf(FillsAtOpen(bar)))
    BY <1>5, KeptInBar DEF HoldBar
  <2>2. ~stop /\ ~target
    BY <1>3, <2>1 DEF NoExit
  <2> QED
    BY <2>1, <2>2
<1>6. CASE ExitBar(bar)
  <2>1. ExitOf(bar) # NoExit
    BY <1>6 DEF ExitBar
  <2>2. Semantics!Leave(v, ExitOf(bar).price, TapeOf(FillsAtOpen(bar)))
    BY <1>6, LeftInBar
  <2> HIDE DEF v
  <2> QED
    BY <1>3, <2>1, <2>2
<1>7. CASE RaiseInBar(bar)
  <2>1. Semantics!Unclosable(v)
    BY <1>7, UnclosableRaises DEF RaiseInBar, BarCompletes
  <2>2. Semantics!Keep(v, TapeOf(FillsAtOpen(bar)))
    BY <1>7, KeptInBar DEF RaiseInBar
  <2> QED
    BY <2>1, <2>2
<1> QED
  BY <1>5, <1>6, <1>7

(* What is filled at the open of a bar is the entry that waited.           *)
LEMMA EntryIsWaiting ==
  ASSUME TypeOK, Holding, EntryPending, NEW bar \in BarType
  PROVE  /\ PositionAtOpen(bar).quantity # 0
         /\ ViewOf(PositionAtOpen(bar)) = Semantics!PositionOf(pending.intent, bar.open)
         /\ TapeOf(FillsAtOpen(bar)) =
              Append(TapeOf(fills),
                     Semantics!Bought(ViewOf(PositionAtOpen(bar)).quantity, bar.open))
<1> DEFINE q == pending.intent.quantity
<1>1. /\ q \in Nat /\ q # 0 /\ pending.intent.action \in {"BUY", "SELL"}
  BY DEF TypeOK, OrderType, IntentType, Holding, PendingStillFits, EntryPending, IsEntry
<1>2. /\ PositionAtOpen(bar).quantity = IF pending.intent.action = "BUY" THEN q ELSE -q
      /\ PositionAtOpen(bar).price = bar.open
      /\ PositionAtOpen(bar).stop = pending.intent.stop
      /\ PositionAtOpen(bar).profit = pending.intent.profit
  BY DEF PositionAtOpen
<1>3. /\ EntryAtOpen(bar).action = pending.intent.action
      /\ EntryAtOpen(bar).quantity = q /\ EntryAtOpen(bar).price = bar.open
  BY DEF EntryAtOpen, Fill
<1>4. TapeOf(FillsAtOpen(bar)) = Append(TapeOf(fills), Traded(EntryAtOpen(bar)))
  BY OpenInType, TapeGrows DEF FillsAtOpen, TypeOK
<1> HIDE DEF q
<1>5. ViewOf(PositionAtOpen(bar)).quantity = PositionAtOpen(bar).quantity
  BY DEF ViewOf
<1>6. Traded(EntryAtOpen(bar)) = Semantics!Bought(PositionAtOpen(bar).quantity, bar.open)
  BY <1>1, <1>2, <1>3 DEF Traded, Semantics!Bought, Semantics!Side, Semantics!Size
<1>7. PositionAtOpen(bar).quantity # 0
  BY <1>1, <1>2
<1>8. ViewOf(PositionAtOpen(bar)) = Semantics!PositionOf(pending.intent, bar.open)
  BY <1>2 DEF ViewOf, Semantics!PositionOf, q
<1> QED
  BY <1>4, <1>5, <1>6, <1>7, <1>8

(* process_bar trades what its candle makes of the decision that waited    *)
(* and of the position that was held.                                      *)
LEMMA BarTrades ==
  ASSUME TypeOK, Holding, NEW bar \in BarType, bar.low <= bar.open, bar.open <= bar.high,
         HoldBar(bar) \/ ExitBar(bar) \/ RaiseInBar(bar)
  PROVE  Semantics!Trade(CandleOf(bar))
<1> DEFINE p == PositionAtOpen(bar)
<1>1. CandleOf(bar).open = bar.open
  BY DEF CandleOf
<1>2. pending # NoOrder =>
        /\ Waiting = {[intent |-> pending.intent, since |-> pending.decided]}
        /\ Semantics!Enters(pending.intent) <=> EntryPending
        /\ Semantics!Enters(pending.intent) <=> ~ClosePending
  BY DEF Waiting, Semantics!Enters, EntryPending, ClosePending, IsEntry, TypeOK, OrderType,
     IntentType, Actions
<1>3. ~EntryPending => p = position /\ FillsAtOpen(bar) = fills
  BY DEF PositionAtOpen, FillsAtOpen
<1>4. IsOpen => Held = {ViewOf(position)}
  BY DEF Held
<1>5. CASE EntryPending
  <2>1. ~ClosePending /\ pending # NoOrder
    BY <1>5 DEF EntryPending, ClosePending
  <2>2. Semantics!Meet(ViewOf(p), CandleOf(bar), TapeOf(FillsAtOpen(bar)))
    BY <1>5, <2>1, EntryIsWaiting, BarMeetsLevels
  <2> HIDE DEF p
  <2>3. /\ ViewOf(p) = Semantics!PositionOf(pending.intent, bar.open)
        /\ TapeOf(FillsAtOpen(bar)) =
             Append(TapeOf(fills), Semantics!Bought(ViewOf(p).quantity, bar.open))
    BY <1>5, EntryIsWaiting DEF p
  <2>4. LET o == Semantics!PositionOf(pending.intent, CandleOf(bar).open)
        IN Semantics!Meet(o, CandleOf(bar),
                          Append(TapeOf(fills), Semantics!Bought(o.quantity, CandleOf(bar).open)))
    BY <1>1, <2>2, <2>3
  <2>5. \E d \in Waiting :
          /\ Semantics!Enters(d.intent)
          /\ LET o == Semantics!PositionOf(d.intent, CandleOf(bar).open)
             IN Semantics!Meet(o, CandleOf(bar),
                               Append(TapeOf(fills), Semantics!Bought(o.quantity, CandleOf(bar).open)))
    <3>1. [intent |-> pending.intent, since |-> pending.decided] \in Waiting
      BY <1>2, <2>1
    <3>2. [intent |-> pending.intent, since |-> pending.decided].intent = pending.intent
      OBVIOUS
    <3>3. Semantics!Enters(pending.intent)
      BY <1>2, <1>5, <2>1
    <3> QED
      BY <2>4, <3>1, <3>2, <3>3
  <2> QED
    BY <2>5 DEF Semantics!Trade
<1>6. CASE ClosePending
  <2>1. IsOpen /\ ~EntryPending /\ pending # NoOrder
    BY <1>6 DEF ClosePending, EntryPending, Holding, PendingStillFits
  <2>2. ExitOf(bar).price = bar.open /\ ExitOf(bar) # NoExit
    BY <1>6 DEF ExitOf, NoExit
  <2>3. p = position /\ p.quantity # 0
    BY <1>3, <2>1 DEF IsOpen
  <2>4. \/ Semantics!Leave(ViewOf(position), CandleOf(bar).open, TapeOf(fills))
        \/ /\ Semantics!Unclosable(ViewOf(position))
           /\ Semantics!Keep(ViewOf(position), TapeOf(fills))
    <3>1. CASE ExitBar(bar)
      BY <1>1, <1>3, <2>1, <2>2, <2>3, <3>1, LeftInBar
    <3>2. CASE RaiseInBar(bar)
      <4>1. Semantics!Unclosable(ViewOf(position))
        BY <2>3, <3>2, UnclosableRaises DEF RaiseInBar, BarCompletes
      <4>2. Semantics!Keep(ViewOf(position), TapeOf(fills))
        BY <1>3, <2>1, <2>3, <3>2, KeptInBar DEF RaiseInBar
      <4> QED
        BY <4>1, <4>2
    <3> QED
      BY <2>2, <3>1, <3>2 DEF HoldBar
  <2>5. \E d \in Waiting, h \in Held :
          /\ ~Semantics!Enters(d.intent)
          /\ \/ Semantics!Leave(h, CandleOf(bar).open, TapeOf(fills))
             \/ Semantics!Unclosable(h) /\ Semantics!Keep(h, TapeOf(fills))
    <3>1. [intent |-> pending.intent, since |-> pending.decided] \in Waiting
      BY <1>2, <2>1
    <3>2. [intent |-> pending.intent, since |-> pending.decided].intent = pending.intent
      OBVIOUS
    <3>3. ~Semantics!Enters(pending.intent) /\ ViewOf(position) \in Held
      BY <1>2, <1>4, <1>6, <2>1
    <3> QED
      BY <2>4, <3>1, <3>2, <3>3
  <2> QED
    BY <2>5 DEF Semantics!Trade
<1>7. CASE ~EntryPending /\ ~ClosePending
  <2>1. pending = NoOrder /\ Waiting = {}
    BY <1>7 DEF EntryPending, ClosePending, Waiting
  <2>2. CASE IsOpen
    <3>1. p = position /\ p.quantity # 0
      BY <1>3, <1>7, <2>2 DEF IsOpen
    <3>2. Semantics!Meet(ViewOf(position), CandleOf(bar), TapeOf(fills))
      BY <1>3, <1>7, <3>1, BarMeetsLevels
    <3> QED
      BY <1>4, <2>1, <2>2, <3>2 DEF Semantics!Trade
  <2>3. CASE ~IsOpen
    <3>1. p = position /\ p.quantity = 0 /\ Held = {}
      BY <1>3, <1>7, <2>3 DEF IsOpen, Held
    <3>2. ExitOf(bar) = NoExit
      BY <1>7, <3>1 DEF ExitOf, ProtectiveExit
    <3>3. HoldBar(bar)
      BY <3>2 DEF ExitBar, RaiseInBar, BarCompletes
    <3>4. position' = position /\ fills' = fills
      BY <1>3, <1>7, <3>1, <3>3 DEF HoldBar
    <3>5. Held' = {} /\ TapeOf(fills') = TapeOf(fills)
      BY <2>3, <3>4 DEF Held, IsOpen
    <3> QED
      BY <2>1, <3>1, <3>5 DEF Semantics!Trade
  <2> QED
    BY <2>2, <2>3
<1> QED
  BY <1>5, <1>6, <1>7

(* process_bar is a candle of the semantics. *)
LEMMA ProcessBarIsCandle ==
  ASSUME TypeOK, Holding, NEW b \in Bars, NEW t \in Times, ProcessBar(b, t)
  PROVE  Semantics!Candle(b, t)
<1> DEFINE bar == Stamped(b, t)
<1>1. /\ bar \in BarType /\ CandleOf(bar) = b /\ bar.time = t /\ bar # NoBar
      /\ bar.low <= bar.open /\ bar.open <= bar.high
  BY BarIsCandle
<1>2. /\ BarAccepted(bar) /\ lastBar' = bar /\ pending' = NoOrder
      /\ HoldBar(bar) \/ ExitBar(bar) \/ RaiseInBar(bar)
      /\ finalized' = finalized
  BY DEF ProcessBar, outcome
<1> HIDE DEF bar
<1>3. Semantics!Trade(b)
  BY <1>1, <1>2, BarTrades
<1>4. Waiting' = {} /\ Last' = {[time |-> t, candle |-> b]}
  BY <1>1, <1>2 DEF Waiting, Last
<1>5. /\ \A c \in Last : c.time <= t
      /\ \A d \in Waiting : d.since <= t
      /\ ~finalized
  BY <1>1, <1>2, SMTT(20) DEF BarAccepted, Last, Waiting, TypeOK, BarType
<1> QED
  BY <1>2, <1>3, <1>4, <1>5 DEF Semantics!Candle

(* finalize is the end of the data of the semantics. *)
LEMMA FinalizeIsEnd ==
  ASSUME TypeOK, Finalize
  PROVE  Semantics!EndOfData
<1>1. /\ ~finalized /\ lastBar # NoBar /\ pending' = NoOrder /\ lastBar' = lastBar
      /\ FinalizeFlat \/ FinalizeOpen \/ RaiseInFinalize
  BY DEF Finalize
<1>2. /\ Last = {[time |-> lastBar.time, candle |-> CandleOf(lastBar)]} /\ Last' = Last
      /\ Waiting' = {}
  BY <1>1 DEF Last, Waiting
<1>3. CASE FinalizeFlat
  <2>1. Held = {} /\ Held' = Held /\ TapeOf(fills') = TapeOf(fills) /\ finalized' = TRUE
    BY <1>3 DEF FinalizeFlat, Held, IsOpen, holding, executed
  <2> QED
    BY <1>1, <1>2, <2>1 DEF Semantics!EndOfData
<1>4. CASE FinalizeOpen
  <2> DEFINE exit == Fill(orderSeq + 1, OppositeAction(position), Abs(position.quantity),
                          lastBar.time, lastBar, lastBar.close, "END_OF_DATA", position.id)
  <2>1. /\ position.quantity # 0 /\ FinalizeCompletes /\ fills' = Append(fills, exit)
        /\ position' = Flat /\ finalized' = TRUE
    BY <1>4 DEF FinalizeOpen, CompleteTrade
  <2>2. /\ Abs(position.quantity) \in Nat /\ OppositeAction(position) \in Actions
        /\ position.id \in Nat /\ lastBar.time \in Nat /\ lastBar.close \in Nat
        /\ lastBar \in BarType /\ orderSeq + 1 \in Nat /\ position \in PositionType
        /\ fills \in Seq(FillType)
    BY SMTT(20) DEF TypeOK, PositionType, BarType, Abs, OppositeAction, Actions
  <2>3. exit \in FillType
    BY <2>2, FillInType DEF FillReasons
  <2>4. /\ exit.action = OppositeAction(position) /\ exit.quantity = Abs(position.quantity)
        /\ exit.price = lastBar.close
    BY DEF Fill
  <2> HIDE DEF exit
  <2>5. TapeOf(fills') = Append(TapeOf(fills), Traded(exit))
    BY <2>1, <2>2, <2>3, TapeGrows
  <2>6. Traded(exit) = Semantics!Bought(-ViewOf(position).quantity, lastBar.close)
    BY <2>1, <2>2, <2>4, ExitIsOpposite
  <2>7. ~Semantics!Unclosable(ViewOf(position))
    BY <2>1, UnclosableRaises DEF FinalizeCompletes
  <2>8. Held = {ViewOf(position)} /\ Held' = {}
    BY <2>1 DEF Held, IsOpen, Flat
  <2>9. Semantics!Leave(ViewOf(position), lastBar.close, TapeOf(fills))
    BY <2>5, <2>6, <2>7, <2>8 DEF Semantics!Leave
  <2>10. CandleOf(lastBar).close = lastBar.close
    BY DEF CandleOf
  <2> QED
    BY <1>1, <1>2, <2>1, <2>8, <2>9, <2>10 DEF Semantics!EndOfData
<1>5. CASE RaiseInFinalize
  <2>1. /\ IsOpen /\ ~RiskDefined(position)
        /\ UNCHANGED <<position, fills, finalized>>
    BY <1>5 DEF RaiseInFinalize, FinalizeCompletes, IsOpen, holding, executed, outcome
  <2>2. Semantics!Unclosable(ViewOf(position))
    BY <2>1, UnclosableRaises
  <2>3. Held = {ViewOf(position)} /\ Held' = Held /\ TapeOf(fills') = TapeOf(fills)
    BY <2>1 DEF Held, IsOpen
  <2> QED
    BY <1>1, <1>2, <2>1, <2>2, <2>3 DEF Semantics!EndOfData, Semantics!Keep
<1> QED
  BY <1>1, <1>3, <1>4, <1>5

(* USER_GUIDE.md, "Execution semantics": the broker does nothing else. *)
THEOREM BrokerImplementsSemantics == Spec => SemanticsImplemented
<1>1. Init => Semantics!SemanticsInit
  BY DEF Init, Semantics!SemanticsInit, Waiting, Held, IsOpen, Flat, TapeOf, Last
<1>2. ASSUME Inductive, Holding, [Next]_vars
      PROVE  [Semantics!SemanticsNext]_(Semantics!semanticsVars)
  <2>1. TypeOK
    BY <1>2 DEF Inductive
  <2>2. ASSUME NEW intent \in Intents, NEW t \in Times, Submit(intent, t)
        PROVE  Semantics!SemanticsNext \/ UNCHANGED Semantics!semanticsVars
    BY <2>1, <2>2, SubmitDecides DEF Semantics!SemanticsNext
  <2>3. ASSUME NEW b \in Bars, NEW t \in Times, ProcessBar(b, t)
        PROVE  Semantics!SemanticsNext
    BY <1>2, <2>1, <2>3, ProcessBarIsCandle DEF Semantics!SemanticsNext
  <2>4. CASE Finalize
    BY <2>1, <2>4, FinalizeIsEnd DEF Semantics!SemanticsNext
  <2>5. CASE UNCHANGED vars
    BY <2>5 DEF vars, Semantics!semanticsVars, Waiting, Held, IsOpen, Last, holding, executed, outcome
  <2> QED
    BY <1>2, <2>2, <2>3, <2>4, <2>5 DEF Next
<1> QED
  BY <1>1, <1>2, AlwaysInductive, AlwaysHolding, PTL
     DEF Spec, SemanticsImplemented, Semantics!SemanticsSpec

-----------------------------------------------------------------------------
(***************************************************************************)
(* What the broker records: identifiers name one order, equity points and  *)
(* bars correspond, fills pair into trades, and no protective level is     *)
(* passed over.                                                            *)
(***************************************************************************)

-----------------------------------------------------------------------------
(* Order identifiers.  Each is at most the counter; the pending one has no *)
(* fill yet.                                                               *)

Numbered(log, n) == \A i \in 1 .. Len(log) : log[i].order \in 1 .. n
Distinct(log) == \A i, j \in 1 .. Len(log) : log[i].order = log[j].order => i = j
Unfilled(log, order) == \A i \in 1 .. Len(log) : log[i].order # order
Asked(log) ==
  \A i \in 1 .. Len(log), j \in 1 .. Len(admissions) :
    log[i].order = admissions[j].order => log[i].reason = "INTENT"

Orders ==
  /\ Numbered(fills, orderSeq) /\ Distinct(fills) /\ Asked(fills)
  /\ \A j \in 1 .. Len(admissions) : admissions[j].order <= orderSeq
  /\ \A i, j \in 1 .. Len(admissions) :
       admissions[i].order = admissions[j].order /\ admissions[i].order # 0 => i = j
  /\ pending # NoOrder => pending.order \in 1 .. orderSeq /\ Unfilled(fills, pending.order)

(* A fill under an identifier without one keeps the identifiers apart.     *)
LEMMA FreshFill ==
  ASSUME NEW log \in Seq(FillType), NEW n \in Nat, NEW m \in n .. n + 1, NEW f \in FillType,
         Numbered(log, n), Distinct(log), Asked(log),
         f.order \in 1 .. m, Unfilled(log, f.order),
         f.reason = "INTENT" \/ \A j \in 1 .. Len(admissions) : admissions[j].order # f.order
  PROVE  /\ Append(log, f) \in Seq(FillType)
         /\ Numbered(Append(log, f), m) /\ Distinct(Append(log, f)) /\ Asked(Append(log, f))
<1> DEFINE longer == Append(log, f)
<1>1. /\ longer \in Seq(FillType) /\ Len(longer) = Len(log) + 1 /\ Len(log) \in Nat
      /\ \A i \in 1 .. Len(log) : longer[i] = log[i]
      /\ longer[Len(log) + 1] = f
  BY AppendProperties
<1> HIDE DEF longer
<1>2. \A i \in 1 .. Len(longer) : i \in 1 .. Len(log) \/ i = Len(log) + 1
  BY <1>1
<1>3. Numbered(longer, m)
  <2> SUFFICES ASSUME NEW i \in 1 .. Len(longer) PROVE longer[i].order \in 1 .. m
    BY DEF Numbered
  <2>1. CASE i \in 1 .. Len(log)
    <3>1. log[i].order \in 1 .. n
      BY <2>1 DEF Numbered
    <3> QED
      BY <1>1, <2>1, <3>1
  <2>2. CASE i = Len(log) + 1
    BY <1>1, <2>2
  <2> QED
    BY <1>2, <2>1, <2>2
<1>4. Distinct(longer)
  BY <1>1, <1>2 DEF Distinct, Unfilled
<1>5. Asked(longer)
  BY <1>1, <1>2 DEF Asked
<1> QED
  BY <1>1, <1>3, <1>4, <1>5 DEF longer

(* The identifiers of admissions are natural numbers up to the counter.    *)
LEMMA AdmissionsNumbered ==
  ASSUME TypeOK, Orders
  PROVE  \A j \in 1 .. Len(admissions) : admissions[j].order \in 0 .. orderSeq
<1> SUFFICES ASSUME NEW j \in 1 .. Len(admissions) PROVE admissions[j].order \in 0 .. orderSeq
  OBVIOUS
<1>1. admissions \in Seq(AdmissionType) /\ orderSeq \in Nat
  BY DEF TypeOK
<1>2. admissions[j] \in AdmissionType
  BY <1>1
<1>3. admissions[j].order \in Nat
  BY <1>2 DEF AdmissionType
<1> QED
  BY <1>1, <1>3 DEF Orders

(* submit takes the next identifier for an order without a fill.           *)
LEMMA SubmitOrders ==
  ASSUME TypeOK, Orders, NEW intent \in Intents, NEW t \in Times, Submit(intent, t)
  PROVE  Orders'
<1>1. /\ admissions \in Seq(AdmissionType) /\ orderSeq \in Nat /\ fills' = fills
      /\ fills \in Seq(FillType) /\ Len(processed) \in Nat
      /\ intent \in IntentType /\ t \in Nat
  BY IntentsAssumption, BoundsAssumption DEF TypeOK, Submit, executed
<1>2. \A i \in 1 .. Len(fills) : fills[i].order \in 1 .. orderSeq
  BY DEF Orders, Numbered
<1>3. CASE AdmissionReason(intent) = "ACCEPTED"
  <2> DEFINE new == Admission(intent, t, orderSeq + 1, "ACCEPTED")
  <2>1. /\ orderSeq' = orderSeq + 1 /\ admissions' = Append(admissions, new)
        /\ pending'.order = orderSeq + 1
    BY <1>3 DEF Submit
  <2>2. new \in AdmissionType /\ new.order = orderSeq + 1
    BY <1>1 DEF Admission, AdmissionType
  <2> HIDE DEF new
  <2>3. /\ Len(admissions') = Len(admissions) + 1
        /\ \A j \in 1 .. Len(admissions) : admissions'[j] = admissions[j]
        /\ admissions'[Len(admissions) + 1] = new
        /\ \A j \in 1 .. Len(admissions') : j \in 1 .. Len(admissions) \/ j = Len(admissions) + 1
    BY <1>1, <2>1, <2>2, AppendProperties
  <2>4. Numbered(fills', orderSeq') /\ Distinct(fills') /\ Unfilled(fills', orderSeq + 1)
    BY <1>1, <1>2, <2>1 DEF Orders, Numbered, Distinct, Unfilled
  <2>5. Asked(fills)'
    <3> SUFFICES ASSUME NEW i \in 1 .. Len(fills'), NEW j \in 1 .. Len(admissions'),
                        fills'[i].order = admissions'[j].order
                 PROVE  fills'[i].reason = "INTENT"
      BY DEF Asked
    <3>1. fills[i].order \in 1 .. orderSeq
      BY <1>1, <1>2
    <3>2. j \in 1 .. Len(admissions)
      BY <1>1, <2>2, <2>3, <3>1
    <3> QED
      BY <1>1, <2>3, <3>2 DEF Orders, Asked
  <2>6. \A j \in 1 .. Len(admissions) :
          admissions[j].order # orderSeq + 1 /\ admissions[j].order \in 0 .. orderSeq
    BY <1>1, AdmissionsNumbered
  <2>7. \A j \in 1 .. Len(admissions') : admissions'[j].order <= orderSeq'
    BY <1>1, <2>1, <2>2, <2>3, <2>6
  <2>8. \A i, j \in 1 .. Len(admissions') :
          admissions'[i].order = admissions'[j].order /\ admissions'[i].order # 0 => i = j
    BY <1>1, <2>2, <2>3, <2>6 DEF Orders
  <2>9. pending'.order \in 1 .. orderSeq' /\ Unfilled(fills, pending.order)'
    BY <1>1, <2>1, <2>4 DEF Unfilled
  <2>10. Numbered(fills, orderSeq)' /\ Distinct(fills)'
    BY <1>1, <2>4 DEF Numbered, Distinct
  <2> QED
    BY <2>5, <2>7, <2>8, <2>9, <2>10 DEF Orders
<1>4. CASE AdmissionReason(intent) # "ACCEPTED"
  <2> DEFINE new == Admission(intent, t, 0, AdmissionReason(intent))
  <2>1. UNCHANGED <<orderSeq, pending>> /\ admissions' = Append(admissions, new)
    BY <1>4 DEF Submit
  <2>2. new \in AdmissionType /\ new.order = 0
    BY <1>1 DEF Admission, AdmissionType, AdmissionReason
  <2> HIDE DEF new
  <2>3. /\ Len(admissions') = Len(admissions) + 1
        /\ \A j \in 1 .. Len(admissions) : admissions'[j] = admissions[j]
        /\ admissions'[Len(admissions) + 1] = new
        /\ \A j \in 1 .. Len(admissions') : j \in 1 .. Len(admissions) \/ j = Len(admissions) + 1
    BY <1>1, <2>1, <2>2, AppendProperties
  <2>4. \A j \in 1 .. Len(admissions') : admissions'[j].order <= orderSeq
    BY <1>1, <2>2, <2>3 DEF Orders
  <2>5. \A i, j \in 1 .. Len(admissions') :
          admissions'[i].order = admissions'[j].order /\ admissions'[i].order # 0 => i = j
    BY <2>2, <2>3 DEF Orders
  <2>6. Asked(fills)'
    BY <1>1, <1>2, <2>2, <2>3 DEF Orders, Asked
  <2> QED
    BY <1>1, <2>1, <2>4, <2>5, <2>6 DEF Orders, Numbered, Distinct, Unfilled
<1> QED
  BY <1>3, <1>4

(* The fill of a pending entry uses its order, which is then no longer     *)
(* pending.                                                                *)
LEMMA OrdersAtOpen ==
  ASSUME TypeOK, Orders, NEW bar \in BarType
  PROVE  /\ FillsAtOpen(bar) \in Seq(FillType)
         /\ Numbered(FillsAtOpen(bar), orderSeq) /\ Distinct(FillsAtOpen(bar))
         /\ Asked(FillsAtOpen(bar))
         /\ ClosePending => Unfilled(FillsAtOpen(bar), pending.order)
<1>1. fills \in Seq(FillType) /\ orderSeq \in Nat /\ EntryAtOpen(bar) \in FillType
  BY OpenInType DEF TypeOK
<1>2. CASE EntryPending
  <2>1. /\ EntryAtOpen(bar).order = pending.order /\ EntryAtOpen(bar).reason = "INTENT"
        /\ FillsAtOpen(bar) = Append(fills, EntryAtOpen(bar))
    BY <1>2 DEF EntryAtOpen, Fill, FillsAtOpen
  <2>2. pending.order \in 1 .. orderSeq /\ Unfilled(fills, pending.order)
    BY <1>2 DEF Orders, EntryPending
  <2>3. ~ClosePending
    BY <1>2 DEF EntryPending, ClosePending
  <2>4. orderSeq \in orderSeq .. orderSeq + 1
    BY <1>1
  <2> QED
    BY <1>1, <2>1, <2>2, <2>3, <2>4, FreshFill DEF Orders
<1>3. CASE ~EntryPending
  BY <1>1, <1>3 DEF FillsAtOpen, Orders, ClosePending
<1> QED
  BY <1>2, <1>3

(* The counters and logs of Orders after a step that consumes the order.   *)
LEMMA OrdersConsumed ==
  ASSUME Orders, TypeOK, UNCHANGED admissions, pending' = NoOrder,
         orderSeq' \in orderSeq .. orderSeq + 1,
         Numbered(fills', orderSeq'), Distinct(fills'), Asked(fills')
  PROVE  Orders'
<1>1. \A j \in 1 .. Len(admissions) : admissions[j].order <= orderSeq'
  BY AdmissionsNumbered DEF TypeOK
<1> QED
  BY <1>1 DEF Orders, Asked

(* A bar, whether it completes or raises. *)
LEMMA ProcessBarOrders ==
  ASSUME Inductive, Orders, NEW b \in Bars, NEW t \in Times, ProcessBar(b, t)
  PROVE  Orders'
<1> DEFINE bar == Stamped(b, t)
           log == FillsAtOpen(bar)
<1>1. TypeOK /\ bar \in BarType /\ orderSeq \in Nat
  BY BarPrelude DEF Inductive, TypeOK
<1>2. /\ UNCHANGED admissions /\ pending' = NoOrder
      /\ HoldBar(bar) \/ ExitBar(bar) \/ RaiseInBar(bar)
  BY DEF ProcessBar
<1> HIDE DEF bar
<1>3. /\ log \in Seq(FillType) /\ Numbered(log, orderSeq) /\ Distinct(log) /\ Asked(log)
      /\ ClosePending => Unfilled(log, pending.order)
  BY <1>1, OrdersAtOpen
<1>4. CASE fills' = log /\ orderSeq' \in {orderSeq, orderSeq + 1}
  <2>1. Numbered(fills', orderSeq')
    BY <1>1, <1>3, <1>4 DEF Numbered
  <2> QED
    BY <1>1, <1>2, <1>3, <1>4, <2>1, OrdersConsumed
<1>5. CASE ExitBar(bar)
  <2> DEFINE exit == ExitFill(PositionAtOpen(bar), bar)
  <2>1. /\ ExitOf(bar) # NoExit /\ fills' = Append(log, exit)
        /\ orderSeq' = IF ClosePending THEN orderSeq ELSE orderSeq + 1
    BY <1>5 DEF ExitBar
  <2>2. exit \in FillType
    BY <1>1, <2>1, ExitInType
  <2>3. CASE ClosePending
    <3>1. exit.order = pending.order /\ exit.reason = "INTENT"
      BY <2>3 DEF ExitFill, Fill
    <3>2. pending.order \in 1 .. orderSeq
      BY <2>3 DEF Orders, ClosePending
    <3>3. orderSeq \in orderSeq .. orderSeq + 1 /\ orderSeq' = orderSeq
      BY <1>1, <2>1, <2>3
    <3> HIDE DEF exit, log
    <3> QED
      BY <1>1, <1>2, <1>3, <2>1, <2>2, <2>3, <3>1, <3>2, <3>3, FreshFill, OrdersConsumed
  <2>4. CASE ~ClosePending
    <3>1. exit.order = orderSeq + 1
      BY <2>4 DEF ExitFill, Fill
    <3>2. Unfilled(log, orderSeq + 1)
      BY <1>1, <1>3 DEF Numbered, Unfilled
    <3>3. \A j \in 1 .. Len(admissions) : admissions[j].order # orderSeq + 1
      BY <1>1 DEF Orders
    <3>4. /\ orderSeq' = orderSeq + 1 /\ orderSeq + 1 \in orderSeq .. orderSeq + 1
          /\ orderSeq + 1 \in 1 .. orderSeq + 1
      BY <1>1, <2>1, <2>4
    <3> HIDE DEF exit, log
    <3> QED
      BY <1>1, <1>2, <1>3, <2>1, <2>2, <3>1, <3>2, <3>3, <3>4, FreshFill, OrdersConsumed
  <2> QED
    BY <2>3, <2>4
<1> QED
  BY <1>2, <1>4, <1>5 DEF HoldBar, RaiseInBar

(* What finalize fills when it liquidates.                                 *)
LEMMA LiquidationInType ==
  ASSUME TypeOK
  PROVE  Fill(orderSeq + 1, OppositeAction(position), Abs(position.quantity), lastBar.time, lastBar,
              lastBar.close, "END_OF_DATA", position.id) \in FillType
<1>1. /\ Abs(position.quantity) \in Nat /\ OppositeAction(position) \in Actions
      /\ position.id \in Nat /\ lastBar.time \in Nat /\ lastBar.close \in Nat
      /\ orderSeq + 1 \in Nat /\ lastBar \in BarType
  BY SMTT(20) DEF TypeOK, PositionType, BarType, Abs, OppositeAction, Actions
<1> QED
  BY <1>1, FillInType DEF FillReasons

(* The end of a run. *)
LEMMA FinalizeOrders ==
  ASSUME TypeOK, Orders, Finalize
  PROVE  Orders'
<1>1. /\ UNCHANGED admissions /\ pending' = NoOrder
      /\ FinalizeFlat \/ FinalizeOpen \/ RaiseInFinalize
      /\ orderSeq \in Nat /\ fills \in Seq(FillType)
      /\ Numbered(fills, orderSeq) /\ Distinct(fills) /\ Asked(fills)
  BY DEF Finalize, TypeOK, Orders
<1>2. CASE fills' = fills /\ orderSeq' \in {orderSeq, orderSeq + 1}
  <2>1. Numbered(fills', orderSeq')
    BY <1>1, <1>2 DEF Numbered
  <2> QED
    BY <1>1, <1>2, <2>1, OrdersConsumed
<1>3. CASE FinalizeOpen
  <2> DEFINE exit == Fill(orderSeq + 1, OppositeAction(position), Abs(position.quantity),
                          lastBar.time, lastBar, lastBar.close, "END_OF_DATA", position.id)
  <2>1. orderSeq' = orderSeq + 1 /\ fills' = Append(fills, exit)
    BY <1>3 DEF FinalizeOpen
  <2>2. exit \in FillType /\ exit.order = orderSeq + 1
    BY LiquidationInType DEF Fill
  <2>3. Unfilled(fills, orderSeq + 1)
    BY <1>1 DEF Numbered, Unfilled
  <2>4. \A j \in 1 .. Len(admissions) : admissions[j].order # orderSeq + 1
    BY <1>1 DEF Orders
  <2>5. orderSeq + 1 \in orderSeq .. orderSeq + 1 /\ orderSeq + 1 \in 1 .. orderSeq + 1
    BY <1>1
  <2> HIDE DEF exit
  <2> QED
    BY <1>1, <2>1, <2>2, <2>3, <2>4, <2>5, FreshFill, OrdersConsumed
<1> QED
  BY <1>1, <1>2, <1>3 DEF FinalizeFlat, RaiseInFinalize, identifiers, executed

(* The counter is never behind the identifiers in use. *)
THEOREM AlwaysOrders == Spec => []Orders
<1>1. Init => Orders
  BY DEF Init, Orders, Numbered, Distinct, Asked, Unfilled
<1>2. Inductive /\ Orders /\ [Next]_vars => Orders'
  <2>1. Orders /\ UNCHANGED vars => Orders'
    BY DEF Orders, Numbered, Distinct, Asked, Unfilled, vars, identifiers, executed
  <2> QED
    BY <2>1, SubmitOrders, ProcessBarOrders, FinalizeOrders DEF Next, Inductive
<1> QED
  BY <1>1, <1>2, AlwaysInductive, PTL DEF Spec

(* No two fills and no two accepted intents ever share an identifier.      *)
THEOREM OrdersCorrect == Spec => []OrdersUsedOnce
<1>1. Orders => OrdersUsedOnce
  BY DEF Orders, OrdersUsedOnce, Distinct, Asked
<1> QED
  BY <1>1, AlwaysOrders, PTL

-----------------------------------------------------------------------------
(* Equity points.  Each belongs to a bar, and later ones to later bars.    *)

Fits(points, log) ==
  /\ \A i, j \in 1 .. Len(points) : i < j => points[i].bar < points[j].bar
  /\ \A i \in 1 .. Len(points) :
       /\ points[i].bar \in 1 .. Len(log)
       /\ points[i].time = log[points[i].bar].time /\ points[i].close = log[points[i].bar].close

Points ==
  /\ Fits(equityPoints, processed)
  /\ lastBar # NoBar =>
       /\ Len(processed) > 0
       /\ lastBar = processed[Len(processed)] /\ lastBar.index = Len(processed)

(* _record_equity adds the point of the last bar after those of earlier    *)
(* bars.                                                                   *)
LEMMA RecordFits ==
  ASSUME NEW log \in Seq(BarType), NEW before \in Seq(PointType), Fits(before, log),
         Len(log) > 0, NEW bar \in BarType, bar = log[Len(log)], bar.index = Len(log),
         \A i \in 1 .. Len(before) : before[i].bar < Len(log),
         NEW p \in PositionType, NEW entry \in FillType, NEW money \in Int, NEW peakBefore \in Int,
         RecordEquity(bar, p, entry, money, peakBefore, before)
  PROVE  Fits(equityPoints', log)
<1> DEFINE point == Point(bar, Mark(bar, p, entry, money, peakBefore))
<1>1. point \in PointType /\ equityPoints' = Append(before, point)
  BY MarkInType DEF RecordEquity
<1>2. point.bar = Len(log) /\ point.time = bar.time /\ point.close = bar.close
  BY DEF Point
<1> HIDE DEF point
<1>3. /\ Len(equityPoints') = Len(before) + 1 /\ Len(before) \in Nat /\ Len(log) \in Nat
      /\ \A i \in 1 .. Len(before) : equityPoints'[i] = before[i]
      /\ equityPoints'[Len(before) + 1] = point
  BY <1>1, AppendProperties
<1>4. \A i \in 1 .. Len(equityPoints') : i \in 1 .. Len(before) \/ i = Len(before) + 1
  BY <1>3
<1>5. \A i, j \in 1 .. Len(equityPoints') : i < j => equityPoints'[i].bar < equityPoints'[j].bar
  <2> SUFFICES ASSUME NEW i \in 1 .. Len(equityPoints'), NEW j \in 1 .. Len(equityPoints'), i < j
               PROVE  equityPoints'[i].bar < equityPoints'[j].bar
    OBVIOUS
  <2>1. i \in 1 .. Len(before)
    BY <1>3
  <2>2. CASE j \in 1 .. Len(before)
    BY <1>3, <2>1, <2>2 DEF Fits
  <2>3. CASE j = Len(before) + 1
    BY <1>2, <1>3, <2>1, <2>3
  <2> QED
    BY <1>4, <2>2, <2>3
<1>6. ASSUME NEW i \in 1 .. Len(equityPoints')
      PROVE  /\ equityPoints'[i].bar \in 1 .. Len(log)
             /\ equityPoints'[i].time = log[equityPoints'[i].bar].time
             /\ equityPoints'[i].close = log[equityPoints'[i].bar].close
  <2>1. CASE i \in 1 .. Len(before)
    BY <1>3, <2>1 DEF Fits
  <2>2. CASE i = Len(before) + 1
    BY <1>2, <1>3, <2>2
  <2> QED
    BY <1>4, <2>1, <2>2
<1> QED
  BY <1>5, <1>6 DEF Fits

(* A further bar leaves the points on the bars they had.                   *)
LEMMA LaterBarsKeepPoints ==
  ASSUME NEW log \in Seq(BarType), NEW bar \in BarType, NEW points, Fits(points, log)
  PROVE  Fits(points, Append(log, bar)) /\ \A i \in 1 .. Len(points) : points[i].bar < Len(log) + 1
<1>1. /\ Len(Append(log, bar)) = Len(log) + 1 /\ Len(log) \in Nat
      /\ \A n \in 1 .. Len(log) : Append(log, bar)[n] = log[n]
  BY AppendProperties
<1> QED
  BY <1>1 DEF Fits

(* A bar, whether it completes or raises. *)
LEMMA ProcessBarPoints ==
  ASSUME Inductive, Holding, Points, NEW b \in Bars, NEW t \in Times, ProcessBar(b, t)
  PROVE  Points'
<1> DEFINE bar == Stamped(b, t)
           p == PositionAtOpen(bar)
           entry == EntryAtOpen(bar)
<1>1. /\ TypeOK /\ bar \in BarType /\ processed \in Seq(BarType) /\ processed' \in Seq(BarType)
      /\ cash \in Int /\ peakEquity \in Int /\ equityPoints \in Seq(PointType)
  BY BarPrelude DEF Inductive, TypeOK
<1>2. /\ processed' = Append(processed, bar) /\ lastBar' = bar /\ bar.index = Len(processed) + 1
      /\ HoldBar(bar) \/ ExitBar(bar) \/ RaiseInBar(bar)
  BY DEF ProcessBar, Stamped
<1>3. p \in PositionType /\ entry \in FillType
  BY <1>1, OpenInType
<1> HIDE DEF bar, p, entry
<1>4. /\ Len(processed') = Len(processed) + 1 /\ processed'[Len(processed')] = bar
      /\ bar.index = Len(processed') /\ Len(processed') > 0 /\ Len(processed) \in Nat
  BY <1>1, <1>2, AppendProperties
<1>5. /\ Fits(equityPoints, processed')
      /\ \A i \in 1 .. Len(equityPoints) : equityPoints[i].bar < Len(processed')
  BY <1>1, <1>2, <1>4, LaterBarsKeepPoints DEF Points
<1>6. CASE HoldBar(bar)
  <2>1. RecordEquity(bar, p, entry, cash, peakEquity, equityPoints)
    BY <1>6 DEF HoldBar, p, entry
  <2>2. Fits(equityPoints', processed')
    BY <1>1, <1>3, <1>4, <1>5, <2>1, RecordFits
  <2> QED
    BY <1>2, <1>4, <2>2 DEF Points
<1>7. CASE ExitBar(bar)
  <2> DEFINE trade == CompletedTrade(p, entry, ExitFill(p, bar), ExitOf(bar).reason)
  <2>1. /\ ExitOf(bar) # NoExit
        /\ RecordEquity(bar, Flat, NoFill, cash + trade.net, peakEquity, equityPoints)
    BY <1>7 DEF ExitBar, p, entry
  <2>2. trade.net \in Int
    <3>1. ExitFill(p, bar) \in FillType /\ ExitOf(bar).reason \in TradeReasons
      BY <1>1, <2>1, ExitInType DEF p
    <3>2. tradeSeq \in Nat
      BY <1>1 DEF TypeOK
    <3>3. trade \in TradeType
      BY <1>3, <3>1, <3>2, TradeInType DEF TradeReasons
    <3> HIDE DEF trade
    <3> QED
      BY <3>3 DEF TradeType
  <2> HIDE DEF trade
  <2>3. cash + trade.net \in Int
    BY <1>1, <2>2
  <2>4. Fits(equityPoints', processed')
    BY <1>1, <1>4, <1>5, <2>1, <2>3, NonesInType, RecordFits
  <2> QED
    BY <1>2, <1>4, <2>4 DEF Points
<1>8. CASE RaiseInBar(bar)
  BY <1>2, <1>4, <1>5, <1>8 DEF RaiseInBar, accounting, Points
<1> QED
  BY <1>2, <1>6, <1>7, <1>8

(* finalize replaces the point of the last bar by another of that bar.     *)
LEMMA FinalizePoints ==
  ASSUME Inductive, Points, Balanced, Holding, Finalize
  PROVE  Points'
<1>1. /\ lastBar # NoBar /\ UNCHANGED <<processed, lastBar>>
      /\ FinalizeFlat \/ FinalizeOpen \/ RaiseInFinalize
  BY DEF Finalize
<1>2. CASE UNCHANGED equityPoints
  BY <1>1, <1>2 DEF Points
<1>3. CASE FinalizeOpen
  <2> DEFINE exit == Fill(orderSeq + 1, OppositeAction(position), Abs(position.quantity),
                          lastBar.time, lastBar, lastBar.close, "END_OF_DATA", position.id)
             trade == CompletedTrade(position, entryFill, exit, "END_OF_DATA")
  <2>1. /\ Len(equityPoints) > 0
        /\ RecordEquity(lastBar, Flat, NoFill, cash + trade.net, PeakBeforeLast, EarlierPoints)
    BY <1>3 DEF FinalizeOpen
  <2>2. /\ TypeOK /\ equityPoints \in Seq(PointType) /\ Len(equityPoints) \in Nat /\ cash \in Int
        /\ lastBar \in BarType /\ processed \in Seq(BarType) /\ tradeSeq \in Nat
        /\ position \in PositionType /\ entryFill \in FillType /\ Len(processed) \in Nat
    BY DEF Inductive, TypeOK
  <2>3. /\ EarlierPoints \in Seq(PointType) /\ Len(EarlierPoints) = Len(equityPoints) - 1
        /\ \A i \in 1 .. Len(EarlierPoints) : EarlierPoints[i] = equityPoints[i]
        /\ PeakBeforeLast = IF Len(equityPoints) = 1 THEN StartingCash
                            ELSE equityPoints[Len(equityPoints) - 1].peak
    BY <2>1, PeakBeforeLastIsPrevious DEF Inductive
  <2>4. /\ Len(processed) > 0 /\ lastBar = processed[Len(processed)]
        /\ lastBar.index = Len(processed) /\ Fits(equityPoints, processed)
    BY <1>1 DEF Points
  <2>5. \A i \in 1 .. Len(EarlierPoints) :
          i \in 1 .. Len(equityPoints) /\ i < Len(equityPoints)
          /\ Len(equityPoints) \in 1 .. Len(equityPoints)
    BY <2>1, <2>2, <2>3
  <2>6. Fits(EarlierPoints, processed)
    BY <2>3, <2>4, <2>5 DEF Fits
  <2>7. \A i \in 1 .. Len(EarlierPoints) : EarlierPoints[i].bar < Len(processed)
    <3> SUFFICES ASSUME NEW i \in 1 .. Len(EarlierPoints) PROVE EarlierPoints[i].bar < Len(processed)
      OBVIOUS
    <3>1. /\ equityPoints[i].bar < equityPoints[Len(equityPoints)].bar
          /\ equityPoints[Len(equityPoints)].bar \in 1 .. Len(processed)
          /\ equityPoints[i].bar \in 1 .. Len(processed)
      BY <2>4, <2>5 DEF Fits
    <3> QED
      BY <2>2, <2>3, <3>1
  <2>8. PeakBeforeLast \in Int
    <3>1. CASE Len(equityPoints) = 1
      BY <2>3, <3>1, NonesInType
    <3>2. CASE Len(equityPoints) # 1
      <4> DEFINE n == Len(equityPoints)
      <4>1. n \in Nat /\ n > 0 /\ n # 1
        BY <2>1, <2>2, <3>2
      <4> HIDE DEF n
      <4>2. n - 1 \in 1 .. n
        BY <4>1
      <4>3. equityPoints[n - 1] \in PointType
        BY <2>2, <4>2 DEF n
      <4> QED
        BY <2>3, <3>2, <4>3 DEF n, PointType
    <3> QED
      BY <3>1, <3>2
  <2>9. cash + trade.net \in Int
    <3>1. exit \in FillType
      BY <2>2, LiquidationInType
    <3> HIDE DEF exit
    <3>2. trade \in TradeType
      BY <2>2, <3>1, TradeInType
    <3> HIDE DEF trade
    <3> QED
      BY <2>2, <3>2, SMTT(20) DEF TradeType
  <2> HIDE DEF trade
  <2>10. Fits(equityPoints', processed)
    BY <2>1, <2>2, <2>3, <2>4, <2>6, <2>7, <2>8, <2>9, NonesInType, RecordFits
  <2> QED
    BY <1>1, <2>4, <2>10 DEF Points
<1> QED
  BY <1>1, <1>2, <1>3 DEF FinalizeFlat, RaiseInFinalize, accounting

(* Every point belongs to a bar of its own.                                *)
THEOREM AlwaysPoints == Spec => []Points
<1>1. Init => Points
  BY DEF Init, Points, Fits
<1>2. Inductive /\ Holding /\ Settlement /\ Points /\ [Next]_vars => Points'
  <2>1. ASSUME Points, UNCHANGED <<equityPoints, processed, lastBar>> PROVE Points'
    BY <2>1 DEF Points
  <2>2. ASSUME NEW intent \in Intents, NEW t \in Times, Submit(intent, t)
        PROVE  UNCHANGED <<equityPoints, processed, lastBar>>
    BY <2>2 DEF Submit, accounting
  <2>3. UNCHANGED vars => UNCHANGED <<equityPoints, processed, lastBar>>
    BY DEF vars, accounting
  <2> QED
    BY <2>1, <2>2, <2>3, ProcessBarPoints, FinalizePoints DEF Next, Settlement
<1> QED
  BY <1>1, <1>2, AlwaysInductive, AlwaysHolding, AlwaysSettlement, PTL DEF Spec

(* Every bar has one point, in the order of the bars.                      *)
THEOREM PointsCorrect == Spec => []OnePointPerBar
<1>1. Settlement /\ Points => OnePointPerBar
  BY DEF Settlement, Balanced, Points, Fits, OnePointPerBar
<1> QED
  BY <1>1, AlwaysPoints, AlwaysSettlement, PTL

-----------------------------------------------------------------------------
(* Fills and trades.                                                       *)

(* What FillsPairIntoTrades says of the i-th trade and its two fills.      *)
PairOf(t, in, out, i) ==
  /\ t.trade = i /\ t.position = i
  /\ in.position = i /\ out.position = i
  /\ t.entryOrder = in.order /\ t.exitOrder = out.order
  /\ t.entryPrice = in.price /\ t.exitPrice = out.price
  /\ in.quantity = Abs(t.quantity) /\ out.quantity = Abs(t.quantity)
  /\ in.action = (IF t.quantity > 0 THEN "BUY" ELSE "SELL")
  /\ out.action = (IF t.quantity > 0 THEN "SELL" ELSE "BUY")
  /\ in.bar <= out.bar /\ t.entered <= t.exited
  /\ t.net = t.gross - in.slippage - in.commission - out.slippage - out.commission

(* The fill that opened position p, on one of the first bars, before now.  *)
OpenedBy(p, entry, bars, now) ==
  /\ entry.position = p.id /\ entry.price = p.price
  /\ entry.quantity = Abs(p.quantity)
  /\ entry.action = IF p.quantity > 0 THEN "BUY" ELSE "SELL"
  /\ entry.bar <= bars /\ p.entered <= now

(* A log of fills that pairs into the completed trades, and the position   *)
(* of number n, if any, that its last fill opened.                         *)
Pairs(p, entry, log, completed, n, bars, now) ==
  /\ \A i \in 1 .. Len(completed) : PairOf(completed[i], log[2 * i - 1], log[2 * i], i)
  /\ p.quantity = 0 => Len(log) = 2 * Len(completed) /\ n = Len(completed)
  /\ p.quantity # 0 =>
       /\ Len(log) = 2 * Len(completed) + 1 /\ n = Len(completed) + 1
       /\ log[Len(log)] = entry /\ p.id = n
       /\ OpenedBy(p, entry, bars, now)

(* Only a stuck session has taken trade identifiers without a trade.       *)
Pairing ==
  /\ Pairs(position, entryFill, fills, trades, positionSeq, Len(processed), lastBar.time)
  /\ ~Stuck => tradeSeq = Len(trades)

(* The trades at the head of a log stay paired when it grows.              *)
LEMMA GrowingLogKeepsPairs ==
  ASSUME NEW log \in Seq(FillType), NEW f \in FillType, NEW completed \in Seq(TradeType),
         Len(log) >= 2 * Len(completed),
         \A i \in 1 .. Len(completed) : PairOf(completed[i], log[2 * i - 1], log[2 * i], i)
  PROVE  \A i \in 1 .. Len(completed) :
           PairOf(completed[i], Append(log, f)[2 * i - 1], Append(log, f)[2 * i], i)
<1> SUFFICES ASSUME NEW i \in 1 .. Len(completed)
             PROVE  PairOf(completed[i], Append(log, f)[2 * i - 1], Append(log, f)[2 * i], i)
  OBVIOUS
<1>1. 2 * i - 1 \in 1 .. Len(log) /\ 2 * i \in 1 .. Len(log)
  OBVIOUS
<1>2. Append(log, f)[2 * i - 1] = log[2 * i - 1] /\ Append(log, f)[2 * i] = log[2 * i]
  BY <1>1, AppendProperties
<1> QED
  BY <1>2

(* The pending entry, when it fills, opens the next position.              *)
LEMMA PairsAtOpen ==
  ASSUME TypeOK, Holding, Pairing, NEW bar \in BarType,
         bar.index = Len(processed) + 1, lastBar.time <= bar.time
  PROVE  Pairs(PositionAtOpen(bar), EntryAtOpen(bar), FillsAtOpen(bar), trades,
               IF EntryPending THEN positionSeq + 1 ELSE positionSeq, bar.index, bar.time)
<1>1. /\ fills \in Seq(FillType) /\ trades \in Seq(TradeType) /\ positionSeq \in Nat
      /\ Len(fills) \in Nat /\ Len(trades) \in Nat /\ Len(processed) \in Nat
      /\ lastBar.time \in Nat /\ bar.time \in Nat
      /\ position \in PositionType /\ entryFill \in FillType
  BY SMTT(20) DEF TypeOK, BarType
<1>2. Pairs(position, entryFill, fills, trades, positionSeq, Len(processed), lastBar.time)
  BY DEF Pairing
<1>3. CASE EntryPending
  <2> DEFINE p == PositionAtOpen(bar)
             entry == EntryAtOpen(bar)
             q == pending.intent.quantity
  <2>1. position.quantity = 0 /\ q \in Nat /\ q # 0 /\ pending.intent.action \in {"BUY", "SELL"}
    BY <1>3 DEF TypeOK, OrderType, IntentType, Holding, PendingStillFits, EntryPending, IsEntry, IsOpen
  <2>2. /\ p.quantity = (IF pending.intent.action = "BUY" THEN q ELSE -q)
        /\ p.id = positionSeq + 1 /\ p.price = bar.open /\ p.entered = bar.time
        /\ entry.position = positionSeq + 1 /\ entry.price = bar.open /\ entry.quantity = q
        /\ entry.action = pending.intent.action /\ entry.bar = bar.index
        /\ FillsAtOpen(bar) = Append(fills, entry)
    BY <1>3 DEF PositionAtOpen, EntryAtOpen, FillsAtOpen, Fill
  <2>3. entry \in FillType
    BY OpenInType
  <2> HIDE DEF p, entry, q
  <2>4. /\ p.quantity # 0 /\ Abs(p.quantity) = q
        /\ pending.intent.action = IF p.quantity > 0 THEN "BUY" ELSE "SELL"
    BY <2>1, <2>2 DEF Abs
  <2>5. OpenedBy(p, entry, bar.index, bar.time)
    BY <1>1, <2>2, <2>4 DEF OpenedBy
  <2>6. Len(fills) = 2 * Len(trades) /\ positionSeq = Len(trades)
    BY <1>2, <2>1 DEF Pairs
  <2>7. Len(Append(fills, entry)) = Len(fills) + 1 /\ Append(fills, entry)[Len(fills) + 1] = entry
    BY <1>1, <2>3, AppendProperties
  <2>8. \A i \in 1 .. Len(trades) :
          PairOf(trades[i], Append(fills, entry)[2 * i - 1], Append(fills, entry)[2 * i], i)
    BY <1>1, <1>2, <2>3, <2>6, GrowingLogKeepsPairs DEF Pairs
  <2>9. Pairs(p, entry, Append(fills, entry), trades, positionSeq + 1, bar.index, bar.time)
    BY <1>1, <2>2, <2>4, <2>5, <2>6, <2>7, <2>8 DEF Pairs
  <2> QED
    BY <1>3, <2>2, <2>9 DEF p, entry
<1>4. CASE ~EntryPending
  <2>1. /\ PositionAtOpen(bar) = position /\ EntryAtOpen(bar) = entryFill /\ FillsAtOpen(bar) = fills
    BY <1>4 DEF PositionAtOpen, EntryAtOpen, FillsAtOpen
  <2>2. position.quantity # 0 => OpenedBy(position, entryFill, bar.index, bar.time)
    <3>1. entryFill.bar \in Nat /\ position.entered \in Nat
      BY <1>1 DEF FillType, PositionType
    <3> QED
      BY <1>1, <1>2, <3>1 DEF Pairs, OpenedBy
  <2>3. Pairs(position, entryFill, fills, trades, positionSeq, bar.index, bar.time)
    BY <1>2, <2>2 DEF Pairs
  <2> QED
    BY <1>4, <2>1, <2>3
<1> QED
  BY <1>3, <1>4

(* The exit of the open position completes the pair that its entry began.  *)
LEMMA ExitCompletesPair ==
  ASSUME NEW p \in PositionType, NEW entry \in FillType, NEW exit \in FillType,
         NEW log \in Seq(FillType), NEW completed \in Seq(TradeType),
         NEW n \in Nat, NEW bars \in Nat, NEW now \in Nat,
         NEW reason \in {"STRATEGY_CLOSE", "STOP_LOSS", "TAKE_PROFIT", "END_OF_DATA"},
         Pairs(p, entry, log, completed, n, bars, now), p.quantity # 0,
         tradeSeq = Len(completed),
         exit.position = p.id, exit.quantity = Abs(p.quantity), exit.action = OppositeAction(p),
         exit.bar = bars, exit.filled = now
  PROVE  Pairs(Flat, NoFill, Append(log, exit),
               Append(completed, CompletedTrade(p, entry, exit, reason)), n, bars, now)
<1> DEFINE trade == CompletedTrade(p, entry, exit, reason)
           longer == Append(log, exit)
           more == Append(completed, trade)
<1>1. Len(completed) \in Nat /\ tradeSeq \in Nat /\ Len(log) \in Nat
  OBVIOUS
<1>2. trade \in TradeType
  BY <1>1, TradeInType
<1>3. /\ Len(log) = 2 * Len(completed) + 1 /\ n = Len(completed) + 1
      /\ log[Len(log)] = entry /\ p.id = n /\ OpenedBy(p, entry, bars, now)
  BY DEF Pairs
<1>4. PairOf(trade, entry, exit, Len(completed) + 1)
  <2>1. /\ trade.trade = Len(completed) + 1 /\ trade.position = p.id
        /\ trade.entryOrder = entry.order /\ trade.exitOrder = exit.order
        /\ trade.quantity = p.quantity /\ trade.entered = p.entered /\ trade.exited = exit.filled
        /\ trade.entryPrice = p.price /\ trade.exitPrice = exit.price
        /\ trade.net = trade.gross - (entry.commission + exit.commission)
                                   - (entry.slippage + exit.slippage)
        /\ trade.gross \in Int
    BY <1>1, <1>2 DEF CompletedTrade, TradeType
  <2>2. /\ entry.commission \in Int /\ exit.commission \in Int
        /\ entry.slippage \in Int /\ exit.slippage \in Int
    BY DEF FillType
  <2> HIDE DEF trade
  <2>3. trade.net = trade.gross - entry.slippage - entry.commission - exit.slippage - exit.commission
    BY <2>1, <2>2, SMTT(20)
  <2>4. /\ entry.position = p.id /\ entry.price = p.price /\ entry.quantity = Abs(p.quantity)
        /\ entry.action = (IF p.quantity > 0 THEN "BUY" ELSE "SELL")
        /\ exit.action = (IF p.quantity > 0 THEN "SELL" ELSE "BUY")
        /\ entry.bar <= exit.bar /\ p.entered <= exit.filled
    BY <1>3 DEF OpenedBy, OppositeAction
  <2> QED
    BY <1>3, <2>1, <2>3, <2>4 DEF PairOf
<1> HIDE DEF trade
<1>5. /\ longer \in Seq(FillType) /\ Len(longer) = Len(log) + 1
      /\ \A i \in 1 .. Len(log) : longer[i] = log[i]
      /\ longer[Len(log) + 1] = exit
      /\ Len(more) = Len(completed) + 1
      /\ \A i \in 1 .. Len(completed) : more[i] = completed[i]
      /\ more[Len(completed) + 1] = trade
  BY <1>2, AppendProperties
<1>6. \A i \in 1 .. Len(completed) : PairOf(completed[i], longer[2 * i - 1], longer[2 * i], i)
  BY <1>1, <1>3, GrowingLogKeepsPairs DEF Pairs
<1> HIDE DEF longer, more
<1>7. ASSUME NEW i \in 1 .. Len(more)
      PROVE  PairOf(more[i], longer[2 * i - 1], longer[2 * i], i)
  <2>1. CASE i \in 1 .. Len(completed)
    BY <1>5, <1>6, <2>1
  <2>2. CASE i = Len(completed) + 1
    <3>1. 2 * i - 1 = Len(log) /\ 2 * i = Len(log) + 1 /\ Len(log) \in 1 .. Len(log)
      BY <1>1, <1>3, <2>2
    <3>2. longer[2 * i - 1] = entry /\ longer[2 * i] = exit /\ more[i] = trade
      BY <1>3, <1>5, <2>2, <3>1
    <3> QED
      BY <1>4, <2>2, <3>2
  <2> QED
    BY <1>1, <1>5, <2>1, <2>2, SMTT(20)
<1>8. Pairs(Flat, NoFill, longer, more, n, bars, now)
  BY <1>1, <1>3, <1>5, <1>7 DEF Pairs, Flat
<1> QED
  BY <1>8 DEF longer, more, trade

(* A bar keeps the pairing. *)
LEMMA ProcessBarPairing ==
  ASSUME Inductive, Holding, Pairing, NEW b \in Bars, NEW t \in Times, ProcessBar(b, t)
  PROVE  Pairing'
<1> DEFINE bar == Stamped(b, t)
           p == PositionAtOpen(bar)
           entry == EntryAtOpen(bar)
           log == FillsAtOpen(bar)
           n == IF EntryPending THEN positionSeq + 1 ELSE positionSeq
<1>1. /\ TypeOK /\ bar \in BarType /\ processed \in Seq(BarType)
      /\ trades \in Seq(TradeType) /\ tradeSeq \in Nat /\ n \in Nat
  BY BarPrelude DEF Inductive, TypeOK
<1>2. /\ processed' = Append(processed, bar) /\ lastBar' = bar /\ positionSeq' = n
      /\ bar.index = Len(processed) + 1 /\ lastBar.time <= bar.time
      /\ HoldBar(bar) \/ ExitBar(bar) \/ RaiseInBar(bar)
  BY DEF ProcessBar, BarAccepted, Stamped, Inductive, TypeOK, BarType
<1>3. p \in PositionType /\ entry \in FillType /\ log \in Seq(FillType)
  BY <1>1, OpenInType
<1>4. Stuck => p = position
  BY OpenKeepsPosition DEF Stuck
<1> HIDE DEF bar
<1>5. Pairs(p, entry, log, trades, n, bar.index, bar.time)
  BY <1>1, <1>2, PairsAtOpen
<1>6. Len(processed') = bar.index /\ lastBar'.time = bar.time /\ bar.index \in Nat /\ bar.time \in Nat
  BY <1>1, <1>2, AppendProperties DEF BarType
<1> HIDE DEF p, entry, log, n
<1>7. CASE HoldBar(bar)
  <2>1. position' = p /\ entryFill' = entry /\ fills' = log /\ UNCHANGED <<tradeSeq, trades>>
    BY <1>7 DEF HoldBar, p, entry, log
  <2>2. Stuck => Stuck'
    BY <1>4, <2>1 DEF Stuck, IsOpen, RiskDefined
  <2> QED
    BY <1>2, <1>5, <1>6, <2>1, <2>2 DEF Pairing
<1>8. CASE ExitBar(bar)
  <2> DEFINE exit == ExitFill(p, bar)
             trade == CompletedTrade(p, entry, exit, ExitOf(bar).reason)
  <2>1. /\ ExitOf(bar) # NoExit /\ BarCompletes(bar) /\ CompleteTrade(trade)
        /\ fills' = Append(log, exit)
    BY <1>8 DEF ExitBar, p, entry, log
  <2>2. exit \in FillType /\ ExitOf(bar).reason \in TradeReasons
    BY <1>1, <2>1, ExitInType DEF p
  <2>3. p.quantity # 0
    BY <2>1, ExitsAreOpen DEF p
  <2>4. ~Stuck
    BY <1>4, <2>1 DEF Stuck, BarCompletes, p
  <2>5. tradeSeq = Len(trades)
    BY <2>4 DEF Pairing
  <2>6. /\ exit.position = p.id /\ exit.quantity = Abs(p.quantity) /\ exit.action = OppositeAction(p)
        /\ exit.bar = bar.index /\ exit.filled = bar.time
    BY DEF ExitFill, Fill
  <2> HIDE DEF exit
  <2>7. trade \in TradeType
    BY <1>1, <1>3, <2>2, TradeInType DEF TradeReasons
  <2>8. Pairs(Flat, NoFill, Append(log, exit), Append(trades, trade), n, bar.index, bar.time)
    BY <1>1, <1>3, <1>5, <1>6, <2>2, <2>3, <2>5, <2>6, ExitCompletesPair DEF TradeReasons
  <2> HIDE DEF trade
  <2>9. /\ tradeSeq' = tradeSeq + 1 /\ trades' = Append(trades, trade)
        /\ position' = Flat /\ entryFill' = NoFill
    BY <2>1 DEF CompleteTrade
  <2>10. Len(trades') = Len(trades) + 1
    BY <1>1, <2>7, <2>9, AppendProperties
  <2> QED
    BY <1>2, <1>6, <2>1, <2>5, <2>8, <2>9, <2>10 DEF Pairing
<1>9. CASE RaiseInBar(bar)
  <2>1. position' = p /\ entryFill' = entry /\ fills' = log /\ trades' = trades /\ ~BarCompletes(bar)
    BY <1>9 DEF RaiseInBar, p, entry, log
  <2>2. Stuck'
    BY <2>1, ExitsAreOpen DEF Stuck, IsOpen, BarCompletes, RiskDefined, p
  <2> QED
    BY <1>2, <1>5, <1>6, <2>1, <2>2 DEF Pairing
<1> QED
  BY <1>2, <1>7, <1>8, <1>9

(* And so does the end of a run. *)
LEMMA FinalizePairing ==
  ASSUME TypeOK, Points, Pairing, Finalize
  PROVE  Pairing'
<1>1. /\ lastBar # NoBar /\ UNCHANGED <<processed, lastBar>>
      /\ FinalizeFlat \/ FinalizeOpen \/ RaiseInFinalize
      /\ lastBar.index = Len(processed)
      /\ fills \in Seq(FillType) /\ trades \in Seq(TradeType) /\ tradeSeq \in Nat /\ positionSeq \in Nat
      /\ position \in PositionType /\ entryFill \in FillType
      /\ lastBar.time \in Nat /\ Len(processed) \in Nat
  BY DEF Finalize, TypeOK, Points, BarType
<1>2. Pairs(position, entryFill, fills, trades, positionSeq, Len(processed), lastBar.time)
  BY DEF Pairing
<1>3. CASE FinalizeFlat
  BY <1>1, <1>3 DEF FinalizeFlat, identifiers, holding, executed, Pairing, Stuck, IsOpen, RiskDefined
<1>4. CASE FinalizeOpen
  <2> DEFINE exit == Fill(orderSeq + 1, OppositeAction(position), Abs(position.quantity),
                          lastBar.time, lastBar, lastBar.close, "END_OF_DATA", position.id)
             trade == CompletedTrade(position, entryFill, exit, "END_OF_DATA")
  <2>1. /\ FinalizeCompletes /\ position.quantity # 0 /\ CompleteTrade(trade)
        /\ fills' = Append(fills, exit) /\ UNCHANGED positionSeq
    BY <1>4 DEF FinalizeOpen
  <2>2. tradeSeq = Len(trades)
    BY <2>1 DEF Pairing, Stuck, FinalizeCompletes
  <2>3. exit \in FillType
    BY LiquidationInType
  <2>4. /\ exit.position = position.id /\ exit.quantity = Abs(position.quantity)
        /\ exit.action = OppositeAction(position)
        /\ exit.bar = Len(processed) /\ exit.filled = lastBar.time
    BY <1>1 DEF Fill
  <2> HIDE DEF exit
  <2>5. trade \in TradeType
    BY <1>1, <2>3, TradeInType
  <2>6. Pairs(Flat, NoFill, Append(fills, exit), Append(trades, trade), positionSeq,
              Len(processed), lastBar.time)
    BY <1>1, <1>2, <2>1, <2>2, <2>3, <2>4, ExitCompletesPair
  <2> HIDE DEF trade
  <2>7. /\ tradeSeq' = tradeSeq + 1 /\ trades' = Append(trades, trade)
        /\ position' = Flat /\ entryFill' = NoFill
    BY <2>1 DEF CompleteTrade
  <2>8. Len(trades') = Len(trades) + 1
    BY <1>1, <2>5, <2>7, AppendProperties
  <2> QED
    BY <1>1, <2>1, <2>2, <2>6, <2>7, <2>8 DEF Pairing
<1>5. CASE RaiseInFinalize
  <2>1. Stuck' /\ UNCHANGED <<positionSeq, position, entryFill, fills, trades>>
    BY <1>5 DEF RaiseInFinalize, FinalizeCompletes, holding, executed, Stuck, IsOpen, RiskDefined
  <2> QED
    BY <1>1, <1>2, <2>1 DEF Pairing
<1> QED
  BY <1>1, <1>3, <1>4, <1>5

(* Only the last fill, of an open position, is without a trade. *)
THEOREM AlwaysPairing == Spec => []Pairing
<1>1. Init => Pairing
  BY DEF Init, Pairing, Pairs, Stuck, IsOpen, Flat
<1>2. Inductive /\ Holding /\ Points /\ Pairing /\ [Next]_vars => Pairing'
  <2>1. ASSUME Pairing, UNCHANGED <<identifiers, holding, executed, processed, lastBar>>
               \/ UNCHANGED <<positionSeq, tradeSeq, holding, executed, processed, lastBar>>
        PROVE  Pairing'
    BY <2>1 DEF Pairing, Stuck, IsOpen, RiskDefined, identifiers, holding, executed
  <2>2. ASSUME NEW intent \in Intents, NEW t \in Times, Submit(intent, t)
        PROVE  UNCHANGED <<positionSeq, tradeSeq, holding, executed, processed, lastBar>>
    BY <2>2 DEF Submit
  <2>3. UNCHANGED vars => UNCHANGED <<positionSeq, tradeSeq, holding, executed, processed, lastBar>>
    BY DEF vars, identifiers
  <2> QED
    BY <2>1, <2>2, <2>3, ProcessBarPairing, FinalizePairing DEF Next, Inductive
<1> QED
  BY <1>1, <1>2, AlwaysInductive, AlwaysHolding, AlwaysPoints, PTL DEF Spec

(* Fills are entries and exits in turn, each pair one trade.               *)
THEOREM PairsCorrect == Spec => []FillsPairIntoTrades
<1>1. Holding /\ Pairing => FillsPairIntoTrades
  BY DEF Holding, Pairing, Pairs, PairOf, FillsPairIntoTrades, IsOpen
<1> QED
  BY <1>1, AlwaysHolding, AlwaysPairing, PTL

-----------------------------------------------------------------------------
(* Protective levels.                                                      *)

(* The submissions that were given an order identifier. *)
Askers(log, order) == {k \in 1 .. Len(log) : order # 0 /\ log[k].order = order}

(* A position guarded by the levels of an intent, on the side of it. *)
Guards(p, intent) ==
  /\ p.quantity # 0 /\ intent.stop = p.stop /\ intent.profit = p.profit
  /\ intent.action \in {"BUY", "SELL"} /\ (intent.action = "BUY" <=> p.quantity > 0)

UntouchedOn(bars, intent, from, to) ==
  \A n \in from .. to : ~StopTouched(intent, bars[n]) /\ ~TargetTouched(intent, bars[n])

(* What LevelsNeverMissed says of a trade and its two fills. *)
Obeys(t, in, out, intent, bars) ==
  /\ in.bar \in 1 .. Len(bars) /\ out.bar \in 1 .. Len(bars)
  /\ UntouchedOn(bars, intent, in.bar, out.bar - 1)
  /\ t.reason = "STOP_LOSS" => StopTouched(intent, bars[out.bar])
  /\ t.reason = "TAKE_PROFIT" =>
       TargetTouched(intent, bars[out.bar]) /\ ~StopTouched(intent, bars[out.bar])
  /\ t.reason = "END_OF_DATA" => UntouchedOn(bars, intent, out.bar, out.bar)

AllObey(completed, log, asked, bars) ==
  \A i \in 1 .. Len(completed) :
    \E k \in Askers(asked, completed[i].entryOrder) :
      Obeys(completed[i], log[2 * i - 1], log[2 * i], asked[k].intent, bars)

(* An open position has an intent behind it, and no level of it was        *)
(* touched since it opened.                                                *)
Watched(p, entry, asked, bars, stuck) ==
  p.quantity # 0 =>
    \E k \in Askers(asked, entry.order) :
      /\ Guards(p, asked[k].intent)
      /\ entry.bar \in 1 .. Len(bars)
      /\ ~stuck => UntouchedOn(bars, asked[k].intent, entry.bar, Len(bars))

Levels ==
  /\ pending # NoOrder =>
       \E k \in Askers(admissions, pending.order) : admissions[k].intent = pending.intent
  /\ Watched(position, entryFill, admissions, processed, Stuck)
  /\ AllObey(trades, fills, admissions, processed)

(* A further submission leaves the earlier ones behind what they asked. *)
LEMMA AskersStay ==
  ASSUME NEW log \in Seq(AdmissionType), NEW a \in AdmissionType, NEW order, NEW k \in Askers(log, order)
  PROVE  k \in Askers(Append(log, a), order) /\ Append(log, a)[k] = log[k]
<1>1. /\ Len(log) \in Nat /\ Len(Append(log, a)) = Len(log) + 1
      /\ \A i \in 1 .. Len(log) : Append(log, a)[i] = log[i]
  BY AppendProperties
<1> QED
  BY <1>1 DEF Askers

(* A further bar touches nothing before it. *)
LEMMA UntouchedStays ==
  ASSUME NEW bars \in Seq(BarType), NEW bar \in BarType, NEW intent, NEW from \in Nat \ {0},
         NEW to \in Int, to <= Len(bars), UntouchedOn(bars, intent, from, to)
  PROVE  UntouchedOn(Append(bars, bar), intent, from, to)
<1>1. Len(bars) \in Nat /\ \A i \in 1 .. Len(bars) : Append(bars, bar)[i] = bars[i]
  BY AppendProperties
<1>2. \A n \in from .. to : n \in 1 .. Len(bars)
  BY <1>1
<1> QED
  BY <1>1, <1>2 DEF UntouchedOn

(* A trade that obeyed keeps obeying. *)
LEMMA ObeysLater ==
  ASSUME NEW bars \in Seq(BarType), NEW bar \in BarType, NEW t, NEW in, NEW out, NEW intent,
         Obeys(t, in, out, intent, bars)
  PROVE  Obeys(t, in, out, intent, Append(bars, bar))
<1>1. /\ Len(bars) \in Nat /\ Len(Append(bars, bar)) = Len(bars) + 1
      /\ \A i \in 1 .. Len(bars) : Append(bars, bar)[i] = bars[i]
  BY AppendProperties
<1>2. in.bar \in 1 .. Len(bars) /\ out.bar \in 1 .. Len(bars)
  BY DEF Obeys
<1>3. UntouchedOn(Append(bars, bar), intent, in.bar, out.bar - 1)
  BY <1>1, <1>2, UntouchedStays DEF Obeys
<1>4. UntouchedOn(bars, intent, out.bar, out.bar) =>
        UntouchedOn(Append(bars, bar), intent, out.bar, out.bar)
  BY <1>1, <1>2, UntouchedStays
<1>5. in.bar \in 1 .. Len(Append(bars, bar)) /\ out.bar \in 1 .. Len(Append(bars, bar))
  BY <1>1, <1>2
<1>6. Append(bars, bar)[out.bar] = bars[out.bar]
  BY <1>1, <1>2
<1> QED
  BY <1>3, <1>4, <1>5, <1>6 DEF Obeys

(* A further fill leaves the pairs of the trades alone. *)
LEMMA AllObeyLater ==
  ASSUME NEW completed \in Seq(TradeType), NEW log \in Seq(FillType), NEW f \in FillType,
         NEW asked, NEW bars, Len(log) >= 2 * Len(completed),
         AllObey(completed, log, asked, bars)
  PROVE  AllObey(completed, Append(log, f), asked, bars)
<1> SUFFICES ASSUME NEW i \in 1 .. Len(completed)
             PROVE  \E k \in Askers(asked, completed[i].entryOrder) :
                      Obeys(completed[i], Append(log, f)[2 * i - 1], Append(log, f)[2 * i],
                            asked[k].intent, bars)
  BY DEF AllObey
<1>1. 2 * i - 1 \in 1 .. Len(log) /\ 2 * i \in 1 .. Len(log)
  OBVIOUS
<1>2. Append(log, f)[2 * i - 1] = log[2 * i - 1] /\ Append(log, f)[2 * i] = log[2 * i]
  BY <1>1, AppendProperties
<1> QED
  BY <1>2 DEF AllObey

(* One more trade, closed by the last fill, obeys if its pair does. *)
LEMMA OneMoreObeys ==
  ASSUME NEW completed \in Seq(TradeType), NEW t \in TradeType,
         NEW log \in Seq(FillType), NEW entry, NEW exit \in FillType,
         Len(log) = 2 * Len(completed) + 1, log[Len(log)] = entry,
         NEW asked, NEW bars, AllObey(completed, log, asked, bars),
         \E k \in Askers(asked, t.entryOrder) : Obeys(t, entry, exit, asked[k].intent, bars)
  PROVE  AllObey(Append(completed, t), Append(log, exit), asked, bars)
<1> DEFINE more == Append(completed, t)
           longer == Append(log, exit)
<1>1. /\ Len(completed) \in Nat /\ Len(log) \in Nat /\ Len(more) = Len(completed) + 1
      /\ \A i \in 1 .. Len(completed) : more[i] = completed[i]
      /\ more[Len(completed) + 1] = t
      /\ \A i \in 1 .. Len(log) : longer[i] = log[i]
      /\ longer[Len(log) + 1] = exit
  BY AppendProperties, SMTT(30)
<1>2. AllObey(completed, longer, asked, bars)
  BY <1>1, AllObeyLater
<1> HIDE DEF more, longer
<1>3. ASSUME NEW i \in 1 .. Len(more)
      PROVE  \E k \in Askers(asked, more[i].entryOrder) :
               Obeys(more[i], longer[2 * i - 1], longer[2 * i], asked[k].intent, bars)
  <2>1. CASE i \in 1 .. Len(completed)
    BY <1>1, <1>2, <2>1 DEF AllObey
  <2>2. CASE i = Len(completed) + 1
    <3>1. 2 * i - 1 = Len(log) /\ 2 * i = Len(log) + 1 /\ Len(log) \in 1 .. Len(log)
      BY <1>1, <2>2
    <3>2. longer[2 * i - 1] = entry /\ longer[2 * i] = exit /\ more[i] = t
      BY <1>1, <2>2, <3>1
    <3> QED
      BY <3>2
  <2> QED
    BY <1>1, <2>1, <2>2
<1>4. AllObey(more, longer, asked, bars)
  BY <1>3 DEF AllObey
<1> QED
  BY <1>4 DEF more, longer

(* A bar that exits nothing touched nothing; an exit names the level that  *)
(* the bar touched, the stop first.                                        *)
LEMMA ExitTouches ==
  ASSUME NEW p \in PositionType, NEW bar \in BarType, bar.low <= bar.open, bar.open <= bar.high,
         NEW intent, Guards(p, intent)
  PROVE  /\ ProtectiveExit(p, bar) = NoExit =>
              ~StopTouched(intent, bar) /\ ~TargetTouched(intent, bar)
         /\ ProtectiveExit(p, bar).reason = "STOP_LOSS" => StopTouched(intent, bar)
         /\ ProtectiveExit(p, bar).reason = "TAKE_PROFIT" =>
              TargetTouched(intent, bar) /\ ~StopTouched(intent, bar)
         /\ ProtectiveExit(p, bar).reason # "END_OF_DATA"
<1>1. /\ p.quantity \in Int /\ p.stop \in Nat /\ p.profit \in Nat
      /\ bar.low \in Nat /\ bar.open \in Nat /\ bar.high \in Nat
  BY DEF PositionType, BarType
<1>2. /\ StopTouched(intent, bar) <=>
           p.stop # 0 /\ IF p.quantity > 0 THEN bar.low <= p.stop ELSE bar.high >= p.stop
      /\ TargetTouched(intent, bar) <=>
           p.profit # 0 /\ IF p.quantity > 0 THEN bar.high >= p.profit ELSE bar.low <= p.profit
  BY DEF Guards, StopTouched, TargetTouched
<1>3. p.quantity # 0
  BY DEF Guards
<1> QED
  BY <1>1, <1>2, <1>3 DEF ProtectiveExit, NoExit

(* One more bar that touches nothing. *)
LEMMA UntouchedThrough ==
  ASSUME NEW bars \in Seq(BarType), NEW bar \in BarType, NEW intent, NEW from \in 1 .. Len(bars) + 1,
         UntouchedOn(bars, intent, from, Len(bars)),
         ~StopTouched(intent, bar), ~TargetTouched(intent, bar)
  PROVE  UntouchedOn(Append(bars, bar), intent, from, Len(bars) + 1)
<1>1. /\ Len(bars) \in Nat /\ \A i \in 1 .. Len(bars) : Append(bars, bar)[i] = bars[i]
      /\ Append(bars, bar)[Len(bars) + 1] = bar
  BY AppendProperties
<1>2. ASSUME NEW n \in from .. Len(bars) + 1
      PROVE  ~StopTouched(intent, Append(bars, bar)[n]) /\ ~TargetTouched(intent, Append(bars, bar)[n])
  <2>1. n \in from .. Len(bars) \/ n = Len(bars) + 1
    BY <1>1
  <2>2. n \in from .. Len(bars) => n \in 1 .. Len(bars)
    BY <1>1
  <2> QED
    BY <1>1, <2>1, <2>2 DEF UntouchedOn
<1> QED
  BY <1>2 DEF UntouchedOn

(* An accepted intent is the one that waits. *)
LEMMA SubmitLevels ==
  ASSUME TypeOK, Orders, Levels, NEW intent \in Intents, NEW t \in Times, Submit(intent, t)
  PROVE  Levels'
<1>1. /\ UNCHANGED <<position, entryFill, fills, trades, processed>>
      /\ admissions \in Seq(AdmissionType) /\ orderSeq \in Nat /\ Len(admissions) \in Nat
  BY DEF Submit, holding, executed, TypeOK
<1>2. Stuck' <=> Stuck
  BY <1>1 DEF Stuck, IsOpen, RiskDefined
<1>3. PICK a \in AdmissionType :
        /\ admissions' = Append(admissions, a)
        /\ \/ UNCHANGED pending
           \/ pending'.order = orderSeq + 1 /\ pending'.intent = intent
              /\ a.order = orderSeq + 1 /\ a.intent = intent
  <2>1. intent \in IntentType /\ t \in Nat /\ Len(processed) \in Nat
    BY IntentsAssumption, BoundsAssumption DEF TypeOK
  <2>2. AdmissionReason(intent) \in {"ACCEPTED", "SESSION_FINALIZED", "PENDING_ORDER_EXISTS",
             "POSITION_ALREADY_OPEN", "INVALID_ORDER_STATE", "NO_POSITION_TO_CLOSE"}
    BY DEF AdmissionReason
  <2> DEFINE accepted == Admission(intent, t, orderSeq + 1, "ACCEPTED")
             rejected == Admission(intent, t, 0, AdmissionReason(intent))
  <2>3. /\ accepted \in AdmissionType /\ rejected \in AdmissionType
        /\ accepted.order = orderSeq + 1 /\ accepted.intent = intent
    BY <1>1, <2>1, <2>2 DEF Admission, AdmissionType
  <2>4. \/ /\ admissions' = Append(admissions, accepted)
           /\ pending'.order = orderSeq + 1 /\ pending'.intent = intent
        \/ admissions' = Append(admissions, rejected) /\ UNCHANGED pending
    BY DEF Submit
  <2> HIDE DEF accepted, rejected
  <2> QED
    BY <2>3, <2>4
<1>4. ASSUME NEW order, NEW k \in Askers(admissions, order)
      PROVE  k \in Askers(admissions', order) /\ admissions'[k] = admissions[k]
  BY <1>1, <1>3, <1>4, AskersStay
<1>5. pending' # NoOrder =>
        \E k \in Askers(admissions', pending'.order) : admissions'[k].intent = pending'.intent
  <2>1. CASE UNCHANGED pending
    BY <1>4, <2>1 DEF Levels
  <2>2. CASE /\ pending'.order = orderSeq + 1 /\ pending'.intent = intent
             /\ a.order = orderSeq + 1 /\ a.intent = intent
    <3>1. Len(admissions') = Len(admissions) + 1 /\ admissions'[Len(admissions) + 1] = a
      BY <1>1, <1>3, AppendProperties
    <3>2. Len(admissions) + 1 \in Askers(admissions', pending'.order)
      BY <1>1, <2>2, <3>1 DEF Askers
    <3> QED
      BY <2>2, <3>1, <3>2
  <2> QED
    BY <1>3, <2>1, <2>2
<1>6. Watched(position', entryFill', admissions', processed', Stuck')
  BY <1>1, <1>2, <1>4 DEF Levels, Watched
<1>7. AllObey(trades', fills', admissions', processed')
  BY <1>1, <1>4 DEF Levels, AllObey
<1> QED
  BY <1>5, <1>6, <1>7 DEF Levels

(* What is open after the open has an intent behind it, and was not        *)
(* touched before this bar.                                                *)
LEMMA WatchedAtOpen ==
  ASSUME TypeOK, Holding, Levels, NEW bar \in BarType, bar.index = Len(processed) + 1,
         PositionAtOpen(bar).quantity # 0
  PROVE  \E k \in Askers(admissions, EntryAtOpen(bar).order) :
           /\ Guards(PositionAtOpen(bar), admissions[k].intent)
           /\ EntryAtOpen(bar).bar \in 1 .. Len(processed) + 1
           /\ ~Stuck => UntouchedOn(processed, admissions[k].intent, EntryAtOpen(bar).bar, Len(processed))
<1>1. Len(processed) \in Nat
  BY DEF TypeOK
<1>2. CASE EntryPending
  <2> DEFINE q == pending.intent.quantity
  <2>1. PICK k \in Askers(admissions, pending.order) : admissions[k].intent = pending.intent
    BY <1>2 DEF Levels, EntryPending
  <2>2. q \in Nat /\ q # 0 /\ pending.intent.action \in {"BUY", "SELL"}
    BY <1>2 DEF TypeOK, OrderType, IntentType, Holding, PendingStillFits, EntryPending, IsEntry
  <2>3. /\ EntryAtOpen(bar).order = pending.order /\ EntryAtOpen(bar).bar = Len(processed) + 1
        /\ PositionAtOpen(bar).quantity = IF pending.intent.action = "BUY" THEN q ELSE -q
        /\ PositionAtOpen(bar).stop = pending.intent.stop
        /\ PositionAtOpen(bar).profit = pending.intent.profit
    BY <1>2 DEF EntryAtOpen, Fill, PositionAtOpen
  <2> HIDE DEF q
  <2>4. Guards(PositionAtOpen(bar), admissions[k].intent)
    BY <2>1, <2>2, <2>3 DEF Guards
  <2>5. UntouchedOn(processed, admissions[k].intent, Len(processed) + 1, Len(processed))
    BY <1>1 DEF UntouchedOn
  <2> QED
    BY <1>1, <2>1, <2>3, <2>4, <2>5
<1>3. CASE ~EntryPending
  <2>1. PositionAtOpen(bar) = position /\ EntryAtOpen(bar) = entryFill
    BY <1>3 DEF PositionAtOpen, EntryAtOpen
  <2> QED
    BY <1>1, <2>1 DEF Levels, Watched
<1> QED
  BY <1>2, <1>3

(* A bar either exits the position or touches none of its levels. *)
LEMMA ProcessBarLevels ==
  ASSUME Inductive, Holding, Pairing, Levels, NEW b \in Bars, NEW t \in Times, ProcessBar(b, t)
  PROVE  Levels'
<1> DEFINE bar == Stamped(b, t)
           p == PositionAtOpen(bar)
           entry == EntryAtOpen(bar)
           log == FillsAtOpen(bar)
           n == Len(processed)
           bars == Append(processed, bar)
<1>1. /\ TypeOK /\ bar \in BarType /\ processed \in Seq(BarType)
      /\ trades \in Seq(TradeType) /\ tradeSeq \in Nat /\ n \in Nat /\ fills \in Seq(FillType)
  BY BarPrelude DEF Inductive, TypeOK
<1>2. /\ processed' = bars /\ bar.index = n + 1 /\ pending' = NoOrder /\ admissions' = admissions
      /\ lastBar.time <= bar.time
      /\ HoldBar(bar) \/ ExitBar(bar) \/ RaiseInBar(bar)
  BY DEF ProcessBar, BarAccepted, Stamped, Inductive, TypeOK, BarType
<1>3. p \in PositionType /\ entry \in FillType /\ log \in Seq(FillType)
  BY <1>1, OpenInType
<1>4. bar.low <= bar.open /\ bar.open <= bar.high
  BY BarsAssumption DEF Stamped, CandleType
<1>5. Stuck => p = position
  BY OpenKeepsPosition DEF Stuck
<1> HIDE DEF bar
<1>6. Pairs(p, entry, log, trades, IF EntryPending THEN positionSeq + 1 ELSE positionSeq,
            bar.index, bar.time)
  BY <1>1, <1>2, PairsAtOpen
<1>7. /\ bars \in Seq(BarType) /\ Len(bars) = n + 1 /\ bars[n + 1] = bar
  BY <1>1, AppendProperties
<1>8. p.quantity # 0 =>
        \E k \in Askers(admissions, entry.order) :
          /\ Guards(p, admissions[k].intent)
          /\ entry.bar \in 1 .. n + 1
          /\ ~Stuck => UntouchedOn(processed, admissions[k].intent, entry.bar, n)
  BY <1>1, <1>2, WatchedAtOpen
<1>9. AllObey(trades, fills, admissions, bars)
  BY <1>1, ObeysLater DEF Levels, AllObey
<1>10. AllObey(trades, log, admissions, bars)
  <2>1. CASE EntryPending
    <3>1. log = Append(fills, entry)
      BY <2>1 DEF FillsAtOpen
    <3>2. Len(fills) >= 2 * Len(trades)
      BY <1>1 DEF Pairing, Pairs
    <3> HIDE DEF bars, log, entry
    <3> QED
      BY <1>1, <1>3, <1>9, <3>1, <3>2, AllObeyLater
  <2>2. CASE ~EntryPending
    BY <1>9, <2>2 DEF FillsAtOpen
  <2> QED
    BY <2>1, <2>2
<1> HIDE DEF p, entry, log, n, bars
<1>11. CASE HoldBar(bar)
  <2>1. /\ position' = p /\ entryFill' = entry /\ fills' = log /\ UNCHANGED trades
        /\ ExitOf(bar) = NoExit
    BY <1>11 DEF HoldBar, p, entry, log
  <2>2. ProtectiveExit(p, bar) = NoExit
    BY <2>1 DEF ExitOf, NoExit, p
  <2>3. ASSUME p.quantity # 0
        PROVE  \E k \in Askers(admissions, entry.order) :
                 /\ Guards(p, admissions[k].intent)
                 /\ entry.bar \in 1 .. n + 1
                 /\ ~Stuck' => UntouchedOn(bars, admissions[k].intent, entry.bar, n + 1)
    <3>1. PICK k \in Askers(admissions, entry.order) :
          /\ Guards(p, admissions[k].intent)
          /\ entry.bar \in 1 .. n + 1
          /\ ~Stuck => UntouchedOn(processed, admissions[k].intent, entry.bar, n)
      BY <1>8, <2>3
    <3>2. ~StopTouched(admissions[k].intent, bar) /\ ~TargetTouched(admissions[k].intent, bar)
      BY <1>1, <1>3, <1>4, <2>2, <3>1, ExitTouches
    <3>3. Stuck => Stuck'
      BY <1>5, <2>1 DEF Stuck, IsOpen, RiskDefined
    <3>4. ~Stuck => UntouchedOn(bars, admissions[k].intent, entry.bar, n + 1)
      BY <1>1, <3>1, <3>2, UntouchedThrough DEF n, bars
    <3> QED
      BY <3>1, <3>3, <3>4
  <2>4. Watched(position', entryFill', admissions', processed', Stuck')
    BY <1>2, <1>7, <2>1, <2>3 DEF Watched
  <2> QED
    BY <1>2, <1>10, <2>1, <2>4 DEF Levels
<1>12. CASE ExitBar(bar)
  <2> DEFINE exit == ExitFill(p, bar)
             trade == CompletedTrade(p, entry, exit, ExitOf(bar).reason)
  <2>1. /\ ExitOf(bar) # NoExit /\ BarCompletes(bar) /\ CompleteTrade(trade)
        /\ fills' = Append(log, exit)
    BY <1>12 DEF ExitBar, p, entry, log
  <2>2. exit \in FillType /\ ExitOf(bar).reason \in TradeReasons
    BY <1>1, <2>1, ExitInType DEF p
  <2>3. p.quantity # 0 /\ ~Stuck
    BY <1>5, <2>1, ExitsAreOpen DEF p, Stuck, BarCompletes
  <2>4. trade.entryOrder = entry.order /\ trade.reason = ExitOf(bar).reason /\ exit.bar = n + 1
    BY <1>2 DEF CompletedTrade, ExitFill, Fill
  <2> HIDE DEF exit
  <2>5. trade \in TradeType
    BY <1>1, <1>3, <2>2, TradeInType DEF TradeReasons
  <2> HIDE DEF trade
  <2>6. PICK k \in Askers(admissions, entry.order) :
          /\ Guards(p, admissions[k].intent)
          /\ entry.bar \in 1 .. n + 1
          /\ UntouchedOn(processed, admissions[k].intent, entry.bar, n)
    BY <1>8, <2>3
  <2>7. Obeys(trade, entry, exit, admissions[k].intent, bars)
    <3>1. UntouchedOn(bars, admissions[k].intent, entry.bar, exit.bar - 1)
      <4>1. exit.bar - 1 = n /\ n <= Len(processed) /\ entry.bar \in Nat \ {0}
        BY <1>1, <2>4, <2>6 DEF n
      <4> QED
        BY <1>1, <2>6, <4>1, UntouchedStays DEF bars
    <3>2. \/ ExitOf(bar).reason = "STRATEGY_CLOSE"
          \/ ExitOf(bar) = ProtectiveExit(p, bar)
      BY DEF ExitOf, p
    <3>3. /\ ExitOf(bar).reason = "STOP_LOSS" => StopTouched(admissions[k].intent, bar)
          /\ ExitOf(bar).reason = "TAKE_PROFIT" =>
               TargetTouched(admissions[k].intent, bar) /\ ~StopTouched(admissions[k].intent, bar)
          /\ ExitOf(bar).reason # "END_OF_DATA"
      BY <1>1, <1>3, <1>4, <2>6, <3>2, ExitTouches
    <3>4. entry.bar \in 1 .. Len(bars) /\ exit.bar \in 1 .. Len(bars) /\ bars[exit.bar] = bar
      BY <1>1, <1>7, <2>4, <2>6
    <3> QED
      BY <2>4, <3>1, <3>3, <3>4 DEF Obeys
  <2>8. trades' = Append(trades, trade) /\ position' = Flat
    BY <2>1 DEF CompleteTrade
  <2>9. Len(log) = 2 * Len(trades) + 1 /\ log[Len(log)] = entry
    BY <1>6, <2>3 DEF Pairs
  <2>10. AllObey(trades', fills', admissions, bars)
    BY <1>1, <1>3, <1>10, <2>1, <2>2, <2>4, <2>5, <2>6, <2>7, <2>8, <2>9, OneMoreObeys
  <2>11. Watched(position', entryFill', admissions', processed', Stuck')
    BY <2>8 DEF Watched, Flat
  <2> QED
    BY <1>2, <2>10, <2>11 DEF Levels
<1>13. CASE RaiseInBar(bar)
  <2>1. position' = p /\ entryFill' = entry /\ fills' = log /\ trades' = trades /\ ~BarCompletes(bar)
    BY <1>13 DEF RaiseInBar, p, entry, log
  <2>2. Stuck'
    BY <2>1, ExitsAreOpen DEF Stuck, IsOpen, BarCompletes, RiskDefined, p
  <2>3. Watched(position', entryFill', admissions', processed', Stuck')
    BY <1>2, <1>7, <1>8, <2>1, <2>2 DEF Watched
  <2> QED
    BY <1>2, <1>10, <2>1, <2>3 DEF Levels
<1> QED
  BY <1>2, <1>11, <1>12, <1>13

(* A liquidated position was watched to the last bar. *)
LEMMA FinalizeLevels ==
  ASSUME TypeOK, Points, Pairing, Levels, Finalize
  PROVE  Levels'
<1>1. /\ lastBar # NoBar /\ UNCHANGED <<processed, lastBar, admissions>> /\ pending' = NoOrder
      /\ FinalizeFlat \/ FinalizeOpen \/ RaiseInFinalize
      /\ lastBar.index = Len(processed) /\ Len(processed) > 0
      /\ fills \in Seq(FillType) /\ trades \in Seq(TradeType) /\ tradeSeq \in Nat
      /\ position \in PositionType /\ entryFill \in FillType /\ Len(processed) \in Nat
  BY DEF Finalize, TypeOK, Points
<1>2. CASE FinalizeFlat \/ RaiseInFinalize
  <2>1. UNCHANGED <<position, entryFill, fills, trades>>
    BY <1>2 DEF FinalizeFlat, RaiseInFinalize, holding, executed
  <2>2. Stuck' <=> Stuck
    BY <2>1 DEF Stuck, IsOpen, RiskDefined
  <2> QED
    BY <1>1, <2>1, <2>2 DEF Levels
<1>3. CASE FinalizeOpen
  <2> DEFINE exit == Fill(orderSeq + 1, OppositeAction(position), Abs(position.quantity),
                          lastBar.time, lastBar, lastBar.close, "END_OF_DATA", position.id)
             trade == CompletedTrade(position, entryFill, exit, "END_OF_DATA")
  <2>1. /\ FinalizeCompletes /\ position.quantity # 0 /\ CompleteTrade(trade)
        /\ fills' = Append(fills, exit)
    BY <1>3 DEF FinalizeOpen
  <2>2. exit \in FillType
    BY LiquidationInType
  <2>3. /\ trade.entryOrder = entryFill.order /\ trade.reason = "END_OF_DATA"
        /\ exit.bar = Len(processed)
    BY <1>1 DEF CompletedTrade, Fill
  <2> HIDE DEF exit
  <2>4. trade \in TradeType
    BY <1>1, <2>2, TradeInType
  <2> HIDE DEF trade
  <2>5. trades' = Append(trades, trade) /\ position' = Flat
    BY <2>1 DEF CompleteTrade
  <2>6. PICK k \in Askers(admissions, entryFill.order) :
          /\ entryFill.bar \in 1 .. Len(processed)
          /\ UntouchedOn(processed, admissions[k].intent, entryFill.bar, Len(processed))
    <3>1. ~Stuck
      BY <2>1 DEF Stuck, FinalizeCompletes
    <3> QED
      BY <2>1, <3>1 DEF Levels, Watched
  <2>7. Obeys(trade, entryFill, exit, admissions[k].intent, processed)
    <3>1. /\ UntouchedOn(processed, admissions[k].intent, entryFill.bar, exit.bar - 1)
          /\ UntouchedOn(processed, admissions[k].intent, exit.bar, exit.bar)
      <4>1. Len(processed) \in Nat /\ exit.bar = Len(processed) /\ entryFill.bar \in 1 .. Len(processed)
        BY <1>1, <2>3, <2>6
      <4>2. \A n \in entryFill.bar .. exit.bar - 1 : n \in entryFill.bar .. Len(processed)
        BY <4>1
      <4>3. \A n \in exit.bar .. exit.bar : n \in entryFill.bar .. Len(processed)
        BY <4>1
      <4> QED
        BY <2>6, <4>2, <4>3 DEF UntouchedOn
    <3> QED
      BY <1>1, <2>3, <2>6, <3>1 DEF Obeys
  <2>8. Len(fills) = 2 * Len(trades) + 1 /\ fills[Len(fills)] = entryFill
    BY <2>1 DEF Pairing, Pairs
  <2>9. AllObey(trades', fills', admissions, processed)
    BY <1>1, <2>1, <2>2, <2>3, <2>4, <2>5, <2>6, <2>7, <2>8, OneMoreObeys DEF Levels
  <2>10. Watched(position', entryFill', admissions', processed', Stuck')
    BY <2>5 DEF Watched, Flat
  <2> QED
    BY <1>1, <2>9, <2>10 DEF Levels
<1> QED
  BY <1>1, <1>2, <1>3

(* The intent behind an entry is the one that was given its identifier. *)
LEMMA EntryIntentOfAsker ==
  ASSUME OrdersUsedOnce, NEW order, NEW k \in Askers(admissions, order)
  PROVE  EntryIntent(order) = admissions[k].intent
<1>1. \A j \in 1 .. Len(admissions) : admissions[j].order = order => j = k
  BY DEF OrdersUsedOnce, Askers
<1>2. k = CHOOSE j \in 1 .. Len(admissions) : admissions[j].order = order
  BY <1>1 DEF Askers
<1> QED
  BY <1>2 DEF EntryIntent

(* broker.py, _select_protective_exit: no protective level is ever missed, *)
(* on any bars and for any intents.                                        *)
THEOREM LevelsCorrect == Spec => []LevelsNeverMissed
<1>1. Init => Levels
  BY DEF Init, Levels, Watched, AllObey, Flat
<1>2. Inductive /\ Holding /\ Points /\ Orders /\ Pairing /\ Levels /\ [Next]_vars => Levels'
  <2>1. UNCHANGED vars /\ Levels => Levels'
    BY DEF vars, holding, executed, Levels, Stuck, IsOpen, RiskDefined
  <2> QED
    BY <2>1, SubmitLevels, ProcessBarLevels, FinalizeLevels DEF Next, Inductive
<1>3. OrdersUsedOnce /\ Levels => LevelsNeverMissed
  <2> SUFFICES ASSUME OrdersUsedOnce, Levels PROVE LevelsNeverMissed
    OBVIOUS
  <2>1. ASSUME NEW i \in 1 .. Len(trades)
        PROVE  /\ Untouched(EntryIntent(trades[i].entryOrder), fills[2 * i - 1].bar, fills[2 * i].bar - 1)
               /\ trades[i].reason = "STOP_LOSS" =>
                    StopTouched(EntryIntent(trades[i].entryOrder), processed[fills[2 * i].bar])
               /\ trades[i].reason = "TAKE_PROFIT" =>
                    /\ TargetTouched(EntryIntent(trades[i].entryOrder), processed[fills[2 * i].bar])
                    /\ ~StopTouched(EntryIntent(trades[i].entryOrder), processed[fills[2 * i].bar])
               /\ trades[i].reason = "END_OF_DATA" =>
                    Untouched(EntryIntent(trades[i].entryOrder), fills[2 * i].bar, fills[2 * i].bar)
    <3>1. PICK k \in Askers(admissions, trades[i].entryOrder) :
            Obeys(trades[i], fills[2 * i - 1], fills[2 * i], admissions[k].intent, processed)
      BY DEF Levels, AllObey
    <3>2. EntryIntent(trades[i].entryOrder) = admissions[k].intent
      BY EntryIntentOfAsker
    <3> QED
      BY <3>1, <3>2 DEF Obeys, UntouchedOn, Untouched
  <2>2. IsOpen /\ ~Stuck => Untouched(EntryIntent(entryFill.order), entryFill.bar, Len(processed))
    <3> SUFFICES ASSUME IsOpen, ~Stuck
                 PROVE  Untouched(EntryIntent(entryFill.order), entryFill.bar, Len(processed))
      OBVIOUS
    <3>1. PICK k \in Askers(admissions, entryFill.order) :
            UntouchedOn(processed, admissions[k].intent, entryFill.bar, Len(processed))
      BY DEF Levels, Watched, IsOpen
    <3>2. EntryIntent(entryFill.order) = admissions[k].intent
      BY EntryIntentOfAsker
    <3> QED
      BY <3>1, <3>2 DEF UntouchedOn, Untouched
  <2> QED
    BY <2>1, <2>2 DEF LevelsNeverMissed
<1> QED
  BY <1>1, <1>2, <1>3, AlwaysInductive, AlwaysHolding, AlwaysPoints, AlwaysOrders, AlwaysPairing,
     OrdersCorrect, PTL DEF Spec

-----------------------------------------------------------------------------
(***************************************************************************)
(* What the fills amount to: cash and holdings are sums over them, and so  *)
(* is the equity of every point; costs and net P&L of the trades are those *)
(* of their fills.                                                         *)
(***************************************************************************)

-----------------------------------------------------------------------------
(* Sums over fills.                                                        *)

Kept(log, n) == [i \in 1 .. Len(log) |-> IF log[i].bar <= n THEN SignedQuantity(log[i]) ELSE 0]
Moved(log, n) == [i \in 1 .. Len(log) |-> IF log[i].bar <= n THEN CashFlow(log[i]) ELSE 0]
HeldBy(log, n) == Total(Kept(log, n))
PaidBy(log, n) == Total(Moved(log, n))
Unit == RateScale * RateScale

(* The scales are whole numbers. *)
LEMMA UnitIsInt == Unit \in Int /\ RateScale \in Int
BY SettingsAssumption DEF Unit

(* What a fill moves is a whole number. *)
LEMMA FlowInType ==
  ASSUME NEW f \in FillType
  PROVE  SignedQuantity(f) \in Int /\ CashFlow(f) \in Int
<1>1. /\ f.quantity \in Int /\ f.price \in Int /\ f.commission \in Int
      /\ RateScale \in Int /\ SlippageRate \in Int
  BY SettingsAssumption DEF FillType
<1>2. SignedQuantity(f) \in Int
  BY <1>1 DEF SignedQuantity
<1>3. EffectivePrice(f.action, f.price) \in Int
  BY <1>1 DEF EffectivePrice
<1> QED
  BY <1>1, <1>2, <1>3 DEF CashFlow

(* The paid and the held quantity of a log are whole numbers. *)
LEMMA SumsInType ==
  ASSUME NEW log \in Seq(FillType), NEW n \in Nat
  PROVE  /\ Kept(log, n) \in [1 .. Len(log) -> Int] /\ Moved(log, n) \in [1 .. Len(log) -> Int]
         /\ HeldBy(log, n) \in Int /\ PaidBy(log, n) \in Int
<1>1. Len(log) \in Nat /\ \A i \in 1 .. Len(log) : log[i] \in FillType
  OBVIOUS
<1>2. /\ Kept(log, n) \in [1 .. Len(log) -> Int] /\ Moved(log, n) \in [1 .. Len(log) -> Int]
  BY <1>1, FlowInType DEF Kept, Moved
<1>3. HeldBy(log, n) \in Int /\ PaidBy(log, n) \in Int
  BY <1>1, <1>2, TotalInType DEF HeldBy, PaidBy
<1> QED
  BY <1>2, <1>3

(* One more fill moves the sums from its bar on. *)
LEMMA SumsGrow ==
  ASSUME NEW log \in Seq(FillType), NEW f \in FillType, NEW n \in Nat
  PROVE  /\ HeldBy(Append(log, f), n) = HeldBy(log, n) + (IF f.bar <= n THEN SignedQuantity(f) ELSE 0)
         /\ PaidBy(Append(log, f), n) = PaidBy(log, n) + (IF f.bar <= n THEN CashFlow(f) ELSE 0)
<1> DEFINE longer == Append(log, f)
           m == Len(log)
<1>1. /\ longer \in Seq(FillType) /\ Len(longer) = m + 1 /\ m \in Nat
      /\ \A i \in 1 .. m : longer[i] = log[i]
      /\ longer[m + 1] = f
  BY AppendProperties
<1> HIDE DEF longer, m
<1>2. /\ Kept(log, n) \in [1 .. m -> Int] /\ Moved(log, n) \in [1 .. m -> Int]
      /\ Kept(longer, n) \in [1 .. m + 1 -> Int] /\ Moved(longer, n) \in [1 .. m + 1 -> Int]
  BY <1>1, SumsInType DEF m
<1>3. /\ \A i \in 1 .. m : Kept(longer, n)[i] = Kept(log, n)[i]
      /\ \A i \in 1 .. m : Moved(longer, n)[i] = Moved(log, n)[i]
      /\ Kept(longer, n)[m + 1] = IF f.bar <= n THEN SignedQuantity(f) ELSE 0
      /\ Moved(longer, n)[m + 1] = IF f.bar <= n THEN CashFlow(f) ELSE 0
  BY <1>1 DEF Kept, Moved, m
<1>4. /\ Total(Kept(longer, n)) = Total(Kept(log, n)) + Kept(longer, n)[m + 1]
      /\ Total(Moved(longer, n)) = Total(Moved(log, n)) + Moved(longer, n)[m + 1]
  BY <1>1, <1>2, <1>3, TotalGrows
<1>5. /\ HeldBy(longer, n) = HeldBy(log, n) + (IF f.bar <= n THEN SignedQuantity(f) ELSE 0)
      /\ PaidBy(longer, n) = PaidBy(log, n) + (IF f.bar <= n THEN CashFlow(f) ELSE 0)
  BY <1>3, <1>4 DEF HeldBy, PaidBy
<1> QED
  BY <1>5 DEF longer

(* Once every fill is on an early bar, later bars add nothing. *)
LEMMA SumsRest ==
  ASSUME NEW log \in Seq(FillType), NEW m \in Nat, NEW n \in Nat, m <= n,
         \A i \in 1 .. Len(log) : log[i].bar <= m
  PROVE  HeldBy(log, n) = HeldBy(log, m) /\ PaidBy(log, n) = PaidBy(log, m)
<1>1. \A i \in 1 .. Len(log) : log[i].bar \in Nat
  <2> SUFFICES ASSUME NEW i \in 1 .. Len(log) PROVE log[i].bar \in Nat
    OBVIOUS
  <2>1. log[i] \in FillType
    OBVIOUS
  <2> QED
    BY <2>1 DEF FillType
<1>2. \A i \in 1 .. Len(log) : log[i].bar <= n
  BY <1>1
<1>3. Kept(log, n) = Kept(log, m) /\ Moved(log, n) = Moved(log, m)
  BY <1>2 DEF Kept, Moved
<1> QED
  BY <1>3 DEF HeldBy, PaidBy

-----------------------------------------------------------------------------
(* Mark to market.                                                         *)

(* What a fill moves: the reference price and both costs. *)
LEMMA FlowOfFill ==
  ASSUME NEW f \in FillType, f.slippage = SlippageCost(f.price, f.quantity), f.action \in {"BUY", "SELL"}
  PROVE  CashFlow(f) = -(SignedQuantity(f) * f.price * Unit) - f.slippage - f.commission
<1> DEFINE q == f.quantity
           x == f.price
           r == RateScale
           s == SlippageRate
           c == f.commission
<1>1. q \in Int /\ x \in Int /\ c \in Int /\ r \in Int /\ s \in Int
  BY SettingsAssumption DEF FillType
<1>2. f.slippage = x * q * s * r
  BY DEF SlippageCost
<1>3. CASE f.action = "BUY"
  <2>1. SignedQuantity(f) = q /\ EffectivePrice(f.action, f.price) = x * (r + s)
    BY <1>3 DEF SignedQuantity, EffectivePrice
  <2>2. CashFlow(f) = -q * (x * (r + s)) * r - c
    BY <2>1 DEF CashFlow
  <2> HIDE DEF q, x, r, s, c
  <2>3. -q * (x * (r + s)) * r - c = -(q * x * (r * r)) - (x * q * s * r) - c
    BY <1>1
  <2> QED
    BY <1>2, <2>1, <2>2, <2>3 DEF Unit, q, x, r, s, c
<1>4. CASE f.action = "SELL"
  <2>1. SignedQuantity(f) = -q /\ EffectivePrice(f.action, f.price) = x * (r - s)
    BY <1>4 DEF SignedQuantity, EffectivePrice
  <2>2. CashFlow(f) = -(-q) * (x * (r - s)) * r - c
    BY <2>1 DEF CashFlow
  <2> HIDE DEF q, x, r, s, c
  <2>3. -(-q) * (x * (r - s)) * r - c = -((-q) * x * (r * r)) - (x * q * s * r) - c
    BY <1>1
  <2> QED
    BY <1>2, <2>1, <2>2, <2>3 DEF Unit, q, x, r, s, c
<1> QED
  BY <1>3, <1>4

(* A gain from the reference prices, term by term. *)
LEMMA GrossSplits ==
  ASSUME NEW q \in Int, NEW from \in Int, NEW to \in Int
  PROVE  /\ GrossPnl(q, from, to) = q * to * Unit - q * from * Unit
         /\ q * to * Unit \in Int /\ q * from * Unit \in Int
<1> DEFINE u == Unit
<1>1. u \in Int
  BY UnitIsInt
<1>2. GrossPnl(q, from, to) = (to - from) * q * u
  BY DEF GrossPnl, Unit
<1> HIDE DEF u
<1>3. (to - from) * q * u = q * to * u - q * from * u /\ q * to * u \in Int /\ q * from * u \in Int
  BY <1>1
<1> QED
  BY <1>2, <1>3 DEF u

(* The fills of the first bars hold what the ledger holds, and paid what   *)
(* is missing of the cash: the value of the open position at its entry     *)
(* price, and the costs of its entry.                                      *)
Funds(p, entry, log, money, bars) ==
  /\ \A i \in 1 .. Len(log) : log[i].bar <= bars
  /\ HeldBy(log, bars) = p.quantity
  /\ StartingCash + PaidBy(log, bars)
       = money - p.quantity * p.price * Unit - entry.slippage - entry.commission

(* What EquityMatchesFills says of some points and a log. *)
Marks(points, log) ==
  \A i \in 1 .. Len(points) :
    /\ points[i].quantity = HeldBy(log, points[i].bar)
    /\ points[i].equity = StartingCash + PaidBy(log, points[i].bar)
                          + HeldBy(log, points[i].bar) * points[i].close * Unit

Funded ==
  /\ Funds(position, entryFill, fills, cash, Len(processed))
  /\ Marks(equityPoints, fills)

(* A bar without a fill changes nothing. *)
LEMMA FundsLater ==
  ASSUME NEW p, NEW entry, NEW log \in Seq(FillType), NEW money, NEW m \in Nat, NEW n \in Nat,
         m <= n, Funds(p, entry, log, money, m)
  PROVE  Funds(p, entry, log, money, n)
<1>1. \A i \in 1 .. Len(log) : log[i].bar <= m
  BY DEF Funds
<1>2. HeldBy(log, n) = HeldBy(log, m) /\ PaidBy(log, n) = PaidBy(log, m)
  BY <1>1, SumsRest
<1>3. \A i \in 1 .. Len(log) : log[i].bar \in Nat
  <2> SUFFICES ASSUME NEW i \in 1 .. Len(log) PROVE log[i].bar \in Nat
    OBVIOUS
  <2>1. log[i] \in FillType
    OBVIOUS
  <2> QED
    BY <2>1 DEF FillType
<1>4. \A i \in 1 .. Len(log) : log[i].bar <= n
  BY <1>1, <1>3
<1> QED
  BY <1>2, <1>4 DEF Funds

(* A fill on bar n is the last of its log. *)
LEMMA FundsGrow ==
  ASSUME NEW log \in Seq(FillType), NEW f \in FillType, NEW n \in Nat, f.bar = n,
         \A i \in 1 .. Len(log) : log[i].bar <= n
  PROVE  /\ \A i \in 1 .. Len(Append(log, f)) : Append(log, f)[i].bar <= n
         /\ HeldBy(Append(log, f), n) = HeldBy(log, n) + SignedQuantity(f)
         /\ PaidBy(Append(log, f), n) = PaidBy(log, n) + CashFlow(f)
<1>1. /\ Len(Append(log, f)) = Len(log) + 1 /\ Len(log) \in Nat
      /\ \A i \in 1 .. Len(log) : Append(log, f)[i] = log[i]
      /\ Append(log, f)[Len(log) + 1] = f
  BY AppendProperties
<1>2. \A i \in 1 .. Len(Append(log, f)) : Append(log, f)[i].bar <= n
  BY <1>1
<1> QED
  BY <1>2, SumsGrow

(* The two sums of an opening and of a closing fill. *)
LEMMA OpeningSum ==
  ASSUME NEW start \in Int, NEW paid \in Int, NEW flow \in Int, NEW money \in Int,
         NEW value \in Int, NEW slippage \in Int, NEW commission \in Int,
         start + paid = money, flow = -value - slippage - commission
  PROVE  start + (paid + flow) = money - value - slippage - commission
OBVIOUS

(* The arithmetic of a closed position. *)
LEMMA ClosingSum ==
  ASSUME NEW start \in Int, NEW paid \in Int, NEW flow \in Int, NEW money \in Int,
         NEW at \in Int, NEW now \in Int, NEW gain, NEW net,
         NEW in \in Int, NEW charged \in Int, NEW out \in Int, NEW taken \in Int,
         start + paid = money - at - in - charged, flow = now - out - taken,
         gain = now - at, net = gain - (charged + taken) - (in + out)
  PROVE  start + (paid + flow) = money + net /\ net \in Int
OBVIOUS

(* An entry that fills. *)
LEMMA FundsOpen ==
  ASSUME NEW p \in PositionType, NEW entry \in FillType, NEW log \in Seq(FillType),
         NEW money \in Int, NEW n \in Nat, NEW next \in PositionType, NEW f \in FillType,
         Funds(p, entry, log, money, n), p.quantity = 0, entry = NoFill,
         f.bar = n, f.slippage = SlippageCost(f.price, f.quantity), f.action \in {"BUY", "SELL"},
         next.quantity = SignedQuantity(f), next.price = f.price
  PROVE  Funds(next, f, Append(log, f), money, n)
<1> DEFINE value == SignedQuantity(f) * f.price * Unit
           lost == f.slippage
           charged == f.commission
           start == StartingCash
           held == HeldBy(log, n)
           paid == PaidBy(log, n)
           flow == CashFlow(f)
           longer == Append(log, f)
<1>1. /\ held \in Int /\ paid \in Int /\ flow \in Int /\ SignedQuantity(f) \in Int
      /\ f.slippage \in Int /\ f.commission \in Int /\ f.price \in Int
  <2>1. held \in Int /\ paid \in Int /\ flow \in Int /\ SignedQuantity(f) \in Int
    BY SumsInType, FlowInType
  <2> QED
    BY <2>1 DEF FillType
<1>2. /\ \A i \in 1 .. Len(longer) : longer[i].bar <= n
      /\ HeldBy(longer, n) = held + SignedQuantity(f) /\ PaidBy(longer, n) = paid + flow
  BY FundsGrow DEF Funds
<1>3. flow = -(SignedQuantity(f) * f.price * Unit) - f.slippage - f.commission
  BY FlowOfFill
<1>4. held = 0 /\ StartingCash + paid = money
  <2>1. entry.slippage = 0 /\ entry.commission = 0
    BY DEF NoFill
  <2>2. p.price \in Int
    BY DEF PositionType
  <2>3. 0 * p.price * Unit = 0
    BY <2>2, UnitIsInt
  <2> QED
    BY <2>1, <2>3 DEF Funds
<1>5. start \in Int /\ value \in Int
  BY <1>1, UnitIsInt, NonesInType, GrossSplits
<1> HIDE DEF held, paid, flow, longer, value, lost, charged, start
<1>6. start + (paid + flow) = money - value - lost - charged
  <2>1. paid \in Int /\ flow \in Int /\ lost \in Int /\ charged \in Int
    BY <1>1 DEF lost, charged
  <2>2. start + paid = money
    BY <1>4 DEF start
  <2>3. flow = -value - lost - charged
    BY <1>3 DEF value, lost, charged
  <2> QED
    BY <1>5, <2>1, <2>2, <2>3, OpeningSum
<1>7. held + SignedQuantity(f) = next.quantity
  BY <1>1, <1>4
<1> QED
  BY <1>2, <1>6, <1>7 DEF Funds, longer, value, lost, charged, start

(* The exit of the open position. *)
LEMMA FundsClose ==
  ASSUME NEW p \in PositionType, NEW entry \in FillType, NEW log \in Seq(FillType),
         NEW money \in Int, NEW n \in Nat, NEW exit \in FillType, NEW reason,
         Funds(p, entry, log, money, n),
         exit.bar = n, exit.slippage = SlippageCost(exit.price, exit.quantity),
         exit.action = OppositeAction(p), exit.quantity = Abs(p.quantity)
  PROVE  Funds(Flat, NoFill, Append(log, exit),
               money + CompletedTrade(p, entry, exit, reason).net, n)
<1> DEFINE q == p.quantity
           held == HeldBy(log, n)
           paid == PaidBy(log, n)
           flow == CashFlow(exit)
           longer == Append(log, exit)
           net == CompletedTrade(p, entry, exit, reason).net
           gain == GrossPnl(q, p.price, exit.price)
           at == q * p.price * Unit
           now == q * exit.price * Unit
           in == entry.slippage
           charged == entry.commission
           out == exit.slippage
           taken == exit.commission
           start == StartingCash
<1>1. /\ held \in Int /\ paid \in Int /\ flow \in Int /\ q \in Int /\ p.price \in Int
      /\ exit.slippage \in Int /\ exit.commission \in Int /\ exit.price \in Int
      /\ entry.slippage \in Int /\ entry.commission \in Int /\ StartingCash \in Int
  <2>1. held \in Int /\ paid \in Int /\ flow \in Int /\ StartingCash \in Int
    BY SumsInType, FlowInType, NonesInType
  <2>2. q \in Int /\ p.price \in Int
    BY DEF PositionType
  <2> QED
    BY <2>1, <2>2 DEF FillType
<1>2. /\ \A i \in 1 .. Len(longer) : longer[i].bar <= n
      /\ HeldBy(longer, n) = held + SignedQuantity(exit) /\ PaidBy(longer, n) = paid + flow
  BY FundsGrow DEF Funds
<1>3. SignedQuantity(exit) = -q
  BY <1>1 DEF SignedQuantity, OppositeAction, Abs
<1>4. flow = -((-q) * exit.price * Unit) - exit.slippage - exit.commission
  <2>1. exit.action \in {"BUY", "SELL"}
    BY DEF OppositeAction
  <2> QED
    BY <1>3, <2>1, FlowOfFill
<1>5. gain = now - at /\ now \in Int /\ at \in Int
  BY <1>1, GrossSplits
<1>6. -((-q) * exit.price * Unit) = now
  BY <1>1, UnitIsInt, SMTT(30)
<1>7. net = gain - (entry.commission + exit.commission) - (entry.slippage + exit.slippage)
  BY DEF CompletedTrade
<1>8. held = q /\ StartingCash + paid = money - at - entry.slippage - entry.commission
  BY DEF Funds
<1> HIDE DEF held, paid, flow, longer, net, gain, at, now, q, in, charged, out, taken, start
<1>9. StartingCash + (paid + flow) = money + net /\ held + SignedQuantity(exit) = 0 /\ net \in Int
  <2>1. flow = now - exit.slippage - exit.commission
    BY <1>4, <1>6
  <2>2. StartingCash + (paid + flow) = money + net /\ net \in Int
    <3>1. /\ start \in Int /\ paid \in Int /\ flow \in Int
          /\ in \in Int /\ charged \in Int /\ out \in Int /\ taken \in Int
      BY <1>1 DEF start, in, charged, out, taken
    <3>2. start + paid = money - at - in - charged
      BY <1>8 DEF start, in, charged
    <3>3. flow = now - out - taken
      BY <2>1 DEF out, taken
    <3>4. net = gain - (charged + taken) - (in + out)
      BY <1>7 DEF in, charged, out, taken
    <3>5. start + (paid + flow) = money + net /\ net \in Int
      BY <1>5, <3>1, <3>2, <3>3, <3>4, ClosingSum
    <3> QED
      BY <3>5 DEF start
  <2> QED
    BY <1>1, <1>3, <1>8, <2>2
<1>10. 0 * 0 * Unit = 0
  BY UnitIsInt
<1>11. money + net = (money + net) - 0 * 0 * Unit - 0 - 0
  BY <1>9, <1>10
<1>12. Flat.quantity = 0 /\ Flat.price = 0 /\ NoFill.slippage = 0 /\ NoFill.commission = 0
  BY DEF Flat, NoFill
<1>13. Funds(Flat, NoFill, longer, money + net, n)
  BY <1>2, <1>9, <1>11, <1>12 DEF Funds
<1> QED
  BY <1>13 DEF longer, net

(* A later fill leaves earlier points marked. *)
LEMMA MarksStay ==
  ASSUME NEW points \in Seq(PointType), NEW log \in Seq(FillType), NEW f \in FillType,
         Marks(points, log), \A i \in 1 .. Len(points) : points[i].bar < f.bar
  PROVE  Marks(points, Append(log, f))
<1> SUFFICES ASSUME NEW i \in 1 .. Len(points)
             PROVE  /\ points[i].quantity = HeldBy(Append(log, f), points[i].bar)
                    /\ points[i].equity = StartingCash + PaidBy(Append(log, f), points[i].bar)
                         + HeldBy(Append(log, f), points[i].bar) * points[i].close * Unit
  BY DEF Marks
<1> DEFINE n == points[i].bar
<1>1. n \in Nat /\ f.bar \in Nat /\ n < f.bar
  <2>1. points[i] \in PointType
    OBVIOUS
  <2> QED
    BY <2>1 DEF PointType, FillType
<1> HIDE DEF n
<1>2. ~(f.bar <= n)
  BY <1>1
<1>3. HeldBy(log, n) \in Int /\ PaidBy(log, n) \in Int
  BY <1>1, SumsInType
<1>4. HeldBy(Append(log, f), n) = HeldBy(log, n) /\ PaidBy(Append(log, f), n) = PaidBy(log, n)
  <2>1. /\ HeldBy(Append(log, f), n) = HeldBy(log, n) + (IF f.bar <= n THEN SignedQuantity(f) ELSE 0)
        /\ PaidBy(Append(log, f), n) = PaidBy(log, n) + (IF f.bar <= n THEN CashFlow(f) ELSE 0)
    BY <1>1, SumsGrow
  <2> QED
    BY <1>2, <1>3, <2>1
<1> QED
  BY <1>4 DEF n, Marks

(* The mark at the close: what was paid, and the position at the close. *)
LEMMA MarkOfFunds ==
  ASSUME NEW p \in PositionType, NEW entry \in FillType, NEW log \in Seq(FillType),
         NEW money \in Int, NEW bar \in BarType, NEW peakBefore \in Int,
         Funds(p, entry, log, money, bar.index), p.quantity = 0 => entry = NoFill
  PROVE  LET mark == Mark(bar, p, entry, money, peakBefore)
         IN /\ mark.quantity = HeldBy(log, bar.index)
            /\ mark.equity = StartingCash + PaidBy(log, bar.index)
                             + HeldBy(log, bar.index) * bar.close * Unit
<1> DEFINE q == p.quantity
           held == HeldBy(log, bar.index)
           paid == PaidBy(log, bar.index)
           at == q * p.price * Unit
           now == q * bar.close * Unit
           in == entry.slippage
           charged == entry.commission
           start == StartingCash
           gain == GrossPnl(q, p.price, bar.close)
           mark == Mark(bar, p, entry, money, peakBefore)
<1>1. q \in Int /\ p.price \in Int /\ bar.close \in Int /\ bar.index \in Nat
  BY DEF PositionType, BarType
<1>2. in \in Int /\ charged \in Int
  BY DEF FillType
<1>3. held \in Int /\ paid \in Int /\ start \in Int
  BY <1>1, SumsInType, NonesInType
<1>4. gain = now - at /\ now \in Int /\ at \in Int
  BY <1>1, GrossSplits
<1>5. held = q /\ start + paid = money - at - in - charged
  BY DEF Funds
<1>6. q = 0 => in = 0 /\ charged = 0 /\ at = 0 /\ now = 0
  <2>1. q = 0 => in = 0 /\ charged = 0
    BY DEF NoFill
  <2>2. q = 0 => at = 0 /\ now = 0
    BY <1>1, UnitIsInt
  <2> QED
    BY <2>1, <2>2
<1>7. /\ mark.quantity = q
      /\ mark.equity = money + (IF q = 0 THEN 0 ELSE gain - in - charged)
  BY DEF Mark, UnrealizedPnl
<1>8. mark.equity = start + paid + now
  <2> HIDE DEF q, held, paid, at, now, in, charged, start, gain, mark
  <2>1. CASE q = 0
    BY <1>2, <1>3, <1>4, <1>5, <1>6, <1>7, <2>1
  <2>2. CASE q # 0
    BY <1>2, <1>3, <1>4, <1>5, <1>7, <2>2
  <2> QED
    BY <2>1, <2>2
<1> QED
  BY <1>5, <1>7, <1>8

(* The point of a bar is a mark of the account. *)
LEMMA RecordMarks ==
  ASSUME NEW p \in PositionType, NEW entry \in FillType, NEW log \in Seq(FillType),
         NEW money \in Int, NEW bar \in BarType, NEW peakBefore \in Int,
         NEW before \in Seq(PointType), Marks(before, log),
         Funds(p, entry, log, money, bar.index), p.quantity = 0 => entry = NoFill,
         RecordEquity(bar, p, entry, money, peakBefore, before)
  PROVE  Marks(equityPoints', log)
<1> DEFINE mark == Mark(bar, p, entry, money, peakBefore)
           point == Point(bar, mark)
<1>1. point \in PointType /\ equityPoints' = Append(before, point)
  BY MarkInType DEF RecordEquity
<1>2. /\ mark.quantity = HeldBy(log, bar.index)
      /\ mark.equity = StartingCash + PaidBy(log, bar.index)
                       + HeldBy(log, bar.index) * bar.close * Unit
  BY MarkOfFunds
<1>3. /\ point.bar = bar.index /\ point.close = bar.close
      /\ point.quantity = mark.quantity /\ point.equity = mark.equity
  BY DEF Point
<1> HIDE DEF mark, point
<1>4. /\ Len(equityPoints') = Len(before) + 1 /\ Len(before) \in Nat
      /\ \A i \in 1 .. Len(before) : equityPoints'[i] = before[i]
      /\ equityPoints'[Len(before) + 1] = point
  BY <1>1, AppendProperties
<1> SUFFICES ASSUME NEW i \in 1 .. Len(equityPoints')
             PROVE  /\ equityPoints'[i].quantity = HeldBy(log, equityPoints'[i].bar)
                    /\ equityPoints'[i].equity
                         = StartingCash + PaidBy(log, equityPoints'[i].bar)
                           + HeldBy(log, equityPoints'[i].bar) * equityPoints'[i].close * Unit
  BY DEF Marks
<1>5. CASE i \in 1 .. Len(before)
  BY <1>4, <1>5 DEF Marks
<1>6. CASE i = Len(before) + 1
  BY <1>2, <1>3, <1>4, <1>6
<1> QED
  BY <1>4, <1>5, <1>6

(* What the open of a bar leaves. *)
LEMMA FundedAtOpen ==
  ASSUME TypeOK, Holding, Points, Funded, NEW bar \in BarType, bar.index = Len(processed) + 1
  PROVE  /\ Funds(PositionAtOpen(bar), EntryAtOpen(bar), FillsAtOpen(bar), cash, bar.index)
         /\ Marks(equityPoints, FillsAtOpen(bar))
         /\ PositionAtOpen(bar).quantity = 0 => EntryAtOpen(bar) = NoFill
         /\ \A i \in 1 .. Len(equityPoints) : equityPoints[i].bar < bar.index
<1>1. /\ fills \in Seq(FillType) /\ cash \in Int /\ Len(processed) \in Nat
      /\ equityPoints \in Seq(PointType)
      /\ position \in PositionType /\ entryFill \in FillType /\ bar.index \in Nat
  BY DEF TypeOK, BarType
<1>2. Funds(position, entryFill, fills, cash, bar.index)
  <2>1. Len(processed) <= bar.index
    BY <1>1
  <2> QED
    BY <1>1, <2>1, FundsLater DEF Funded
<1>3. \A i \in 1 .. Len(equityPoints) : equityPoints[i].bar < bar.index
  BY <1>1 DEF Points, Fits
<1>4. position.quantity = 0 => entryFill = NoFill
  BY DEF Holding, HoldingsAgree, IsOpen
<1>5. CASE EntryPending
  <2> DEFINE p == PositionAtOpen(bar)
             entry == EntryAtOpen(bar)
             q == pending.intent.quantity
  <2>1. position.quantity = 0 /\ q \in Nat /\ q # 0 /\ pending.intent.action \in {"BUY", "SELL"}
    BY <1>5 DEF TypeOK, OrderType, IntentType, Holding, PendingStillFits, EntryPending, IsEntry, IsOpen
  <2>2. /\ p.quantity = (IF pending.intent.action = "BUY" THEN q ELSE -q)
        /\ p.price = bar.open /\ entry.price = bar.open /\ entry.quantity = q
        /\ entry.action = pending.intent.action /\ entry.bar = bar.index
        /\ entry.slippage = SlippageCost(entry.price, entry.quantity)
        /\ FillsAtOpen(bar) = Append(fills, entry)
    BY <1>5 DEF PositionAtOpen, EntryAtOpen, FillsAtOpen, Fill
  <2>3. entry \in FillType /\ p \in PositionType
    BY OpenInType
  <2> HIDE DEF p, entry, q
  <2>4. p.quantity = SignedQuantity(entry) /\ p.quantity # 0
    BY <2>1, <2>2 DEF SignedQuantity
  <2>5. Funds(p, entry, Append(fills, entry), cash, bar.index)
    BY <1>1, <1>2, <1>4, <2>1, <2>2, <2>3, <2>4, FundsOpen
  <2>6. Marks(equityPoints, Append(fills, entry))
    BY <1>1, <1>3, <2>2, <2>3, MarksStay DEF Funded
  <2> QED
    BY <1>3, <2>2, <2>4, <2>5, <2>6 DEF p, entry
<1>6. CASE ~EntryPending
  <2>1. PositionAtOpen(bar) = position /\ EntryAtOpen(bar) = entryFill /\ FillsAtOpen(bar) = fills
    BY <1>6 DEF PositionAtOpen, EntryAtOpen, FillsAtOpen
  <2> QED
    BY <1>2, <1>3, <1>4, <2>1 DEF Funded
<1> QED
  BY <1>5, <1>6

(* A bar keeps the account funded. *)
LEMMA ProcessBarFunded ==
  ASSUME Inductive, Holding, Points, Funded, NEW b \in Bars, NEW t \in Times, ProcessBar(b, t)
  PROVE  Funded'
<1> DEFINE bar == Stamped(b, t)
           p == PositionAtOpen(bar)
           entry == EntryAtOpen(bar)
           log == FillsAtOpen(bar)
           n == bar.index
<1>1. /\ TypeOK /\ bar \in BarType /\ processed \in Seq(BarType) /\ n \in Nat
      /\ cash \in Int /\ peakEquity \in Int /\ equityPoints \in Seq(PointType) /\ tradeSeq \in Nat
  BY BarPrelude DEF Inductive, TypeOK, BarType
<1>2. /\ processed' = Append(processed, bar) /\ bar.index = Len(processed) + 1
      /\ HoldBar(bar) \/ ExitBar(bar) \/ RaiseInBar(bar)
  BY DEF ProcessBar, Stamped
<1>3. p \in PositionType /\ entry \in FillType /\ log \in Seq(FillType)
  BY <1>1, OpenInType
<1> HIDE DEF bar
<1>4. Len(processed') = n
  BY <1>1, <1>2, AppendProperties
<1>5. /\ Funds(p, entry, log, cash, n) /\ Marks(equityPoints, log)
      /\ p.quantity = 0 => entry = NoFill
      /\ \A i \in 1 .. Len(equityPoints) : equityPoints[i].bar < n
  BY <1>1, <1>2, FundedAtOpen
<1> HIDE DEF p, entry, log
<1>6. CASE HoldBar(bar)
  <2>1. /\ position' = p /\ entryFill' = entry /\ fills' = log /\ UNCHANGED cash
        /\ RecordEquity(bar, p, entry, cash, peakEquity, equityPoints)
    BY <1>6 DEF HoldBar, p, entry, log
  <2>2. Marks(equityPoints', log)
    BY <1>1, <1>3, <1>5, <2>1, RecordMarks
  <2> QED
    BY <1>4, <1>5, <2>1, <2>2 DEF Funded
<1>7. CASE ExitBar(bar)
  <2> DEFINE exit == ExitFill(p, bar)
             trade == CompletedTrade(p, entry, exit, ExitOf(bar).reason)
             longer == Append(log, exit)
  <2>1. /\ ExitOf(bar) # NoExit /\ CompleteTrade(trade) /\ fills' = longer
        /\ RecordEquity(bar, Flat, NoFill, cash + trade.net, peakEquity, equityPoints)
    BY <1>7 DEF ExitBar, p, entry, log
  <2>2. exit \in FillType /\ ExitOf(bar).reason \in TradeReasons
    BY <1>1, <2>1, ExitInType DEF p
  <2>3. /\ exit.quantity = Abs(p.quantity) /\ exit.action = OppositeAction(p)
        /\ exit.bar = n /\ exit.slippage = SlippageCost(exit.price, exit.quantity)
    BY DEF ExitFill, Fill
  <2>4. position' = Flat /\ entryFill' = NoFill /\ cash' = cash + trade.net
    BY <2>1 DEF CompleteTrade
  <2> HIDE DEF exit
  <2>5. trade.net \in Int
    <3>1. trade \in TradeType
      BY <1>1, <1>3, <2>2, TradeInType DEF TradeReasons
    <3> HIDE DEF trade
    <3> QED
      BY <3>1 DEF TradeType
  <2>6. Funds(Flat, NoFill, longer, cash + trade.net, n)
    BY <1>1, <1>3, <1>5, <2>2, <2>3, FundsClose
  <2>7. Marks(equityPoints, longer)
    BY <1>1, <1>3, <1>5, <2>2, <2>3, MarksStay
  <2>8. longer \in Seq(FillType) /\ cash + trade.net \in Int
    BY <1>1, <1>3, <2>2, <2>5
  <2> HIDE DEF trade, longer
  <2>9. Marks(equityPoints', longer)
    BY <1>1, <2>1, <2>6, <2>7, <2>8, NonesInType, RecordMarks
  <2> QED
    BY <1>4, <2>1, <2>4, <2>6, <2>9 DEF Funded
<1>8. CASE RaiseInBar(bar)
  <2>1. /\ position' = p /\ entryFill' = entry /\ fills' = log
        /\ UNCHANGED <<cash, equityPoints>>
    BY <1>8 DEF RaiseInBar, p, entry, log, accounting
  <2> QED
    BY <1>4, <1>5, <2>1 DEF Funded
<1> QED
  BY <1>2, <1>6, <1>7, <1>8

(* And so does the end of a run. *)
LEMMA FinalizeFunded ==
  ASSUME Inductive, Holding, Points, Funded, Finalize
  PROVE  Funded'
<1>1. /\ lastBar # NoBar /\ UNCHANGED <<processed, lastBar>>
      /\ FinalizeFlat \/ FinalizeOpen \/ RaiseInFinalize
  BY DEF Finalize
<1>2. CASE UNCHANGED <<cash, equityPoints, position, entryFill, fills>>
  BY <1>1, <1>2 DEF Funded
<1>3. CASE FinalizeOpen
  <2> DEFINE exit == Fill(orderSeq + 1, OppositeAction(position), Abs(position.quantity),
                          lastBar.time, lastBar, lastBar.close, "END_OF_DATA", position.id)
             trade == CompletedTrade(position, entryFill, exit, "END_OF_DATA")
             n == Len(processed)
             longer == Append(fills, exit)
  <2>1. /\ Len(equityPoints) > 0 /\ CompleteTrade(trade) /\ fills' = longer
        /\ RecordEquity(lastBar, Flat, NoFill, cash + trade.net, PeakBeforeLast, EarlierPoints)
    BY <1>3 DEF FinalizeOpen
  <2>2. /\ TypeOK /\ equityPoints \in Seq(PointType) /\ Len(equityPoints) \in Nat /\ cash \in Int
        /\ lastBar \in BarType /\ tradeSeq \in Nat /\ fills \in Seq(FillType)
        /\ position \in PositionType /\ entryFill \in FillType /\ n \in Nat
    BY DEF Inductive, TypeOK
  <2>3. /\ EarlierPoints \in Seq(PointType) /\ Len(EarlierPoints) = Len(equityPoints) - 1
        /\ \A i \in 1 .. Len(EarlierPoints) : EarlierPoints[i] = equityPoints[i]
        /\ PeakBeforeLast \in Int
    <3>1. /\ EarlierPoints \in Seq(PointType) /\ Len(EarlierPoints) = Len(equityPoints) - 1
          /\ \A i \in 1 .. Len(EarlierPoints) : EarlierPoints[i] = equityPoints[i]
          /\ PeakBeforeLast = IF Len(equityPoints) = 1 THEN StartingCash
                              ELSE equityPoints[Len(equityPoints) - 1].peak
      BY <2>1, PeakBeforeLastIsPrevious DEF Inductive
    <3>2. CASE Len(equityPoints) = 1
      BY <3>1, <3>2, NonesInType
    <3>3. CASE Len(equityPoints) # 1
      <4> DEFINE m == Len(equityPoints)
      <4>1. m \in Nat /\ m > 0 /\ m # 1
        BY <2>1, <2>2, <3>3
      <4> HIDE DEF m
      <4>2. m - 1 \in 1 .. m
        BY <4>1
      <4>3. equityPoints[m - 1] \in PointType
        BY <2>2, <4>2 DEF m
      <4> QED
        BY <3>1, <3>3, <4>3 DEF m, PointType
    <3> QED
      BY <3>1, <3>2, <3>3
  <2>4. lastBar.index = n /\ Fits(equityPoints, processed)
    BY <1>1 DEF Points
  <2>5. \A i \in 1 .. Len(EarlierPoints) : EarlierPoints[i].bar < n
    <3> SUFFICES ASSUME NEW i \in 1 .. Len(EarlierPoints) PROVE EarlierPoints[i].bar < n
      OBVIOUS
    <3>1. /\ i \in 1 .. Len(equityPoints) /\ i < Len(equityPoints)
          /\ Len(equityPoints) \in 1 .. Len(equityPoints)
      BY <2>1, <2>2, <2>3
    <3>2. /\ equityPoints[i].bar < equityPoints[Len(equityPoints)].bar
          /\ equityPoints[Len(equityPoints)].bar \in 1 .. n /\ equityPoints[i].bar \in 1 .. n
      BY <2>4, <3>1 DEF Fits
    <3> QED
      BY <2>2, <2>3, <3>2
  <2>6. exit \in FillType
    BY <2>2, LiquidationInType
  <2>7. /\ exit.quantity = Abs(position.quantity) /\ exit.action = OppositeAction(position)
        /\ exit.bar = n /\ exit.slippage = SlippageCost(exit.price, exit.quantity)
    BY <2>4 DEF Fill
  <2>8. position' = Flat /\ entryFill' = NoFill /\ cash' = cash + trade.net
    BY <2>1 DEF CompleteTrade
  <2> HIDE DEF exit
  <2>9. cash + trade.net \in Int
    <3>1. trade \in TradeType
      BY <2>2, <2>6, TradeInType
    <3> HIDE DEF trade
    <3> QED
      BY <2>2, <3>1, SMTT(20) DEF TradeType
  <2>10. Marks(EarlierPoints, fills)
    <3>1. \A i \in 1 .. Len(EarlierPoints) : i \in 1 .. Len(equityPoints)
      BY <2>2, <2>3
    <3> QED
      BY <2>3, <3>1 DEF Funded, Marks
  <2>11. Marks(EarlierPoints, longer)
    BY <2>2, <2>3, <2>5, <2>6, <2>7, <2>10, MarksStay
  <2>12. Funds(Flat, NoFill, longer, cash + trade.net, n)
    BY <2>2, <2>6, <2>7, FundsClose DEF Funded
  <2>13. longer \in Seq(FillType)
    BY <2>2, <2>6
  <2> HIDE DEF trade, longer
  <2>14. Marks(equityPoints', longer)
    BY <2>1, <2>2, <2>3, <2>4, <2>9, <2>11, <2>12, <2>13, NonesInType, RecordMarks
  <2> QED
    BY <1>1, <2>1, <2>8, <2>12, <2>14 DEF Funded
<1> QED
  BY <1>1, <1>2, <1>3 DEF FinalizeFlat, RaiseInFinalize, accounting, holding, executed

(* The cash is what the fills left of the initial cash, the open position  *)
(* counted at its entry price with the costs of its entry.                 *)
THEOREM AlwaysFunded == Spec => []Funded
<1>1. Init => Funded
  <2> SUFFICES ASSUME Init PROVE Funded
    OBVIOUS
  <2>1. /\ fills = <<>> /\ equityPoints = <<>> /\ processed = <<>> /\ position = Flat
        /\ entryFill = NoFill /\ cash = StartingCash
    BY DEF Init
  <2>2. Kept(<<>>, 0) \in [1 .. 0 -> Int] /\ Moved(<<>>, 0) \in [1 .. 0 -> Int]
    BY DEF Kept, Moved
  <2>3. HeldBy(<<>>, 0) = 0 /\ PaidBy(<<>>, 0) = 0
    BY <2>2, TotalOfNone DEF HeldBy, PaidBy
  <2>4. StartingCash \in Int /\ 0 * 0 * Unit = 0
    BY UnitIsInt, NonesInType
  <2>5. /\ Flat.quantity = 0 /\ Flat.price = 0 /\ NoFill.slippage = 0 /\ NoFill.commission = 0
        /\ Len(<<>>) = 0
    BY DEF Flat, NoFill
  <2>6. StartingCash + 0 = StartingCash - 0 * 0 * Unit - 0 - 0
    BY <2>4
  <2>7. Funds(Flat, NoFill, <<>>, StartingCash, 0)
    BY <2>3, <2>5, <2>6 DEF Funds
  <2> QED
    BY <2>1, <2>5, <2>7 DEF Funded, Marks
<1>2. Inductive /\ Holding /\ Points /\ Funded /\ [Next]_vars => Funded'
  <2>1. ASSUME Funded, UNCHANGED <<cash, equityPoints, position, entryFill, fills, processed>>
        PROVE  Funded'
    BY <2>1 DEF Funded
  <2>2. ASSUME NEW intent \in Intents, NEW t \in Times, Submit(intent, t)
        PROVE  UNCHANGED <<cash, equityPoints, position, entryFill, fills, processed>>
    BY <2>2 DEF Submit, accounting, holding, executed
  <2>3. UNCHANGED vars => UNCHANGED <<cash, equityPoints, position, entryFill, fills, processed>>
    BY DEF vars, accounting, holding, executed
  <2> QED
    BY <2>1, <2>2, <2>3, ProcessBarFunded, FinalizeFunded DEF Next
<1> QED
  BY <1>1, <1>2, AlwaysInductive, AlwaysHolding, AlwaysPoints, PTL DEF Spec

(* Every equity point is the initial cash, what the fills so far paid and  *)
(* received, and what they left at the bar's close.                        *)
THEOREM EquityCorrect == Spec => []EquityMatchesFills
<1>1. Funded => EquityMatchesFills
  <2> SUFFICES ASSUME Funded, NEW i \in 1 .. Len(equityPoints)
               PROVE  LET point == equityPoints[i]
                          held == SumOfFills(point.bar, SignedQuantity)
                      IN /\ point.quantity = held
                         /\ point.equity = StartingCash + SumOfFills(point.bar, CashFlow)
                                           + held * point.close * (RateScale * RateScale)
    BY DEF EquityMatchesFills
  <2>1. /\ SumOfFills(equityPoints[i].bar, SignedQuantity) = HeldBy(fills, equityPoints[i].bar)
        /\ SumOfFills(equityPoints[i].bar, CashFlow) = PaidBy(fills, equityPoints[i].bar)
    BY DEF SumOfFills, HeldBy, PaidBy, Kept, Moved
  <2> QED
    BY <2>1 DEF Funded, Marks, Unit
<1> QED
  BY <1>1, AlwaysFunded, PTL

-----------------------------------------------------------------------------
(* Costs and net P&L.                                                      *)

(* A record more, its numbers more. *)
LEMMA CostsGrow ==
  ASSUME NEW S, \A r \in S : r.commission \in Int /\ r.slippage \in Int,
         NEW log \in Seq(S), NEW f \in S
  PROVE  /\ Commissions(log) \in Int /\ Slippages(log) \in Int
         /\ Commissions(Append(log, f)) = Commissions(log) + f.commission
         /\ Slippages(Append(log, f)) = Slippages(log) + f.slippage
<1> DEFINE longer == Append(log, f)
           n == Len(log)
           paid == [i \in 1 .. n |-> log[i].commission]
           paidAfter == [i \in 1 .. n + 1 |-> longer[i].commission]
           lost == [i \in 1 .. n |-> log[i].slippage]
           lostAfter == [i \in 1 .. n + 1 |-> longer[i].slippage]
<1>1. /\ Len(longer) = n + 1 /\ n \in Nat
      /\ \A i \in 1 .. n : longer[i] = log[i] /\ log[i] \in S
      /\ longer[n + 1] = f
  BY AppendProperties
<1>2. /\ Commissions(log) = Total(paid) /\ Slippages(log) = Total(lost)
      /\ Commissions(longer) = Total(paidAfter) /\ Slippages(longer) = Total(lostAfter)
  BY <1>1 DEF Commissions, Slippages
<1> HIDE DEF longer, n
<1>3. /\ paid \in [1 .. n -> Int] /\ lost \in [1 .. n -> Int]
      /\ \A i \in 1 .. n : paidAfter[i] = paid[i] /\ lostAfter[i] = lost[i]
      /\ paidAfter[n + 1] = f.commission /\ lostAfter[n + 1] = f.slippage
  BY <1>1
<1>4. ASSUME NEW i \in 1 .. n + 1
      PROVE  longer[i].commission \in Int /\ longer[i].slippage \in Int
  <2>1. i \in 1 .. n \/ i = n + 1
    BY <1>1
  <2> QED
    BY <1>1, <2>1
<1>5. paidAfter \in [1 .. n + 1 -> Int] /\ lostAfter \in [1 .. n + 1 -> Int]
  BY <1>4
<1> HIDE DEF paid, paidAfter, lost, lostAfter
<1>6. /\ Total(paid) \in Int /\ Total(paidAfter) = Total(paid) + f.commission
      /\ Total(lost) \in Int /\ Total(lostAfter) = Total(lost) + f.slippage
  BY <1>1, <1>3, <1>5, TotalGrows
<1> QED
  BY <1>2, <1>6 DEF longer

(* One more trade adds its net result. *)
LEMMA NetsGrow ==
  ASSUME NEW completed \in Seq(TradeType), NEW trade \in TradeType
  PROVE  /\ Nets(completed) \in Int
         /\ Nets(Append(completed, trade)) = Nets(completed) + trade.net
<1> DEFINE longer == Append(completed, trade)
           n == Len(completed)
           nets == [i \in 1 .. n |-> completed[i].net]
           netsAfter == [i \in 1 .. n + 1 |-> longer[i].net]
<1>1. /\ Len(longer) = n + 1 /\ n \in Nat
      /\ \A i \in 1 .. n : longer[i] = completed[i] /\ completed[i] \in TradeType
      /\ longer[n + 1] = trade
  BY AppendProperties
<1>2. Nets(completed) = Total(nets) /\ Nets(longer) = Total(netsAfter)
  BY <1>1 DEF Nets
<1> HIDE DEF longer, n
<1>3. ASSUME NEW i \in 1 .. n + 1
      PROVE  longer[i].net \in Int
  <2>1. i \in 1 .. n \/ i = n + 1
    BY <1>1
  <2>2. longer[i] \in TradeType
    BY <1>1, <2>1
  <2> QED
    BY <2>2 DEF TradeType
<1>4. \A i \in 1 .. n : completed[i].net \in Int
  <2> SUFFICES ASSUME NEW i \in 1 .. n PROVE completed[i].net \in Int
    OBVIOUS
  <2>1. completed[i] \in TradeType
    BY <1>1
  <2> QED
    BY <2>1 DEF TradeType
<1>5. /\ nets \in [1 .. n -> Int] /\ netsAfter \in [1 .. n + 1 -> Int]
      /\ \A i \in 1 .. n : netsAfter[i] = nets[i]
      /\ netsAfter[n + 1] = trade.net
  BY <1>1, <1>3, <1>4
<1> HIDE DEF nets, netsAfter
<1>6. Total(nets) \in Int /\ Total(netsAfter) = Total(nets) + trade.net
  BY <1>1, <1>5, TotalGrows
<1> QED
  BY <1>2, <1>6 DEF longer

(* Costs are whole numbers. *)
LEMMA CostsInType ==
  /\ \A r \in FillType : r.commission \in Int /\ r.slippage \in Int
  /\ \A r \in TradeType : r.commission \in Int /\ r.slippage \in Int
BY DEF FillType, TradeType

(* The sums over trades are whole numbers. *)
LEMMA SumsOfTrades ==
  ASSUME NEW completed \in Seq(TradeType)
  PROVE  Commissions(completed) \in Int /\ Slippages(completed) \in Int /\ Nets(completed) \in Int
<1> DEFINE some == [trade |-> 0, position |-> 0, entryOrder |-> 0, exitOrder |-> 0, quantity |-> 0,
                    entered |-> 0, exited |-> 0, entryPrice |-> 0, exitPrice |-> 0, gross |-> 0,
                    commission |-> 0, slippage |-> 0, net |-> 0, reason |-> "STOP_LOSS"]
<1>1. some \in TradeType
  BY DEF TradeType
<1> HIDE DEF some
<1> QED
  BY <1>1, CostsGrow, NetsGrow, CostsInType

(* What the fills cost, the trades carry, but for the entry of the open    *)
(* position; and the cash is what the trades made of the initial cash.     *)
Books(entry, log, completed, money) ==
  /\ Commissions(log) = Commissions(completed) + entry.commission
  /\ Slippages(log) = Slippages(completed) + entry.slippage
  /\ money = StartingCash + Nets(completed)
  /\ \A i \in 1 .. Len(completed) :
       completed[i].net = completed[i].gross - completed[i].commission - completed[i].slippage

Booked == Books(entryFill, fills, trades, cash)

(* An entry that fills. *)
LEMMA BooksOpen ==
  ASSUME NEW log \in Seq(FillType), NEW completed \in Seq(TradeType), NEW money,
         NEW f \in FillType, Books(NoFill, log, completed, money)
  PROVE  Books(f, Append(log, f), completed, money)
<1>1. /\ Commissions(log) \in Int /\ Slippages(log) \in Int
      /\ Commissions(Append(log, f)) = Commissions(log) + f.commission
      /\ Slippages(Append(log, f)) = Slippages(log) + f.slippage
  BY CostsGrow, CostsInType
<1>2. Commissions(completed) \in Int /\ Slippages(completed) \in Int
  BY SumsOfTrades
<1>3. NoFill.commission = 0 /\ NoFill.slippage = 0
  BY DEF NoFill
<1> QED
  BY <1>1, <1>2, <1>3 DEF Books

(* A trade that completes. *)
LEMMA BooksClose ==
  ASSUME NEW p \in PositionType, NEW entry \in FillType, NEW log \in Seq(FillType),
         NEW completed \in Seq(TradeType), NEW money \in Int, NEW exit \in FillType,
         NEW reason \in {"STRATEGY_CLOSE", "STOP_LOSS", "TAKE_PROFIT", "END_OF_DATA"},
         tradeSeq \in Nat, Books(entry, log, completed, money)
  PROVE  LET trade == CompletedTrade(p, entry, exit, reason)
         IN Books(NoFill, Append(log, exit), Append(completed, trade), money + trade.net)
<1> DEFINE trade == CompletedTrade(p, entry, exit, reason)
           longer == Append(log, exit)
           more == Append(completed, trade)
<1>1. trade \in TradeType
  BY TradeInType
<1>2. /\ trade.commission = entry.commission + exit.commission
      /\ trade.slippage = entry.slippage + exit.slippage
      /\ trade.net = trade.gross - trade.commission - trade.slippage
  BY DEF CompletedTrade
<1>3. /\ entry.commission \in Int /\ entry.slippage \in Int
      /\ exit.commission \in Int /\ exit.slippage \in Int
  BY DEF FillType
<1> HIDE DEF trade
<1>4. /\ Commissions(log) \in Int /\ Slippages(log) \in Int
      /\ Commissions(longer) = Commissions(log) + exit.commission
      /\ Slippages(longer) = Slippages(log) + exit.slippage
  BY CostsGrow, CostsInType
<1>5. /\ Commissions(completed) \in Int /\ Slippages(completed) \in Int
      /\ Commissions(more) = Commissions(completed) + trade.commission
      /\ Slippages(more) = Slippages(completed) + trade.slippage
  BY <1>1, CostsGrow, CostsInType
<1>6. Nets(completed) \in Int /\ Nets(more) = Nets(completed) + trade.net
  BY <1>1, NetsGrow
<1>7. trade.net \in Int /\ StartingCash \in Int
  BY <1>1, NonesInType DEF TradeType
<1>8. /\ Len(more) = Len(completed) + 1 /\ Len(completed) \in Nat
      /\ \A i \in 1 .. Len(completed) : more[i] = completed[i]
      /\ more[Len(completed) + 1] = trade
  BY <1>1, AppendProperties
<1> HIDE DEF longer, more
<1>9. Commissions(longer) = Commissions(more) + 0 /\ Slippages(longer) = Slippages(more) + 0
  <2>1. /\ Commissions(longer) = (Commissions(completed) + entry.commission) + exit.commission
        /\ Slippages(longer) = (Slippages(completed) + entry.slippage) + exit.slippage
    BY <1>4 DEF Books
  <2>2. /\ Commissions(more) = Commissions(completed) + (entry.commission + exit.commission)
        /\ Slippages(more) = Slippages(completed) + (entry.slippage + exit.slippage)
    BY <1>2, <1>5
  <2> QED
    BY <1>3, <1>5, <2>1, <2>2, SMTT(30)
<1>10. money + trade.net = StartingCash + Nets(more)
  BY <1>6, <1>7 DEF Books
<1>11. ASSUME NEW i \in 1 .. Len(more)
       PROVE  more[i].net = more[i].gross - more[i].commission - more[i].slippage
  <2>1. i \in 1 .. Len(completed) \/ i = Len(completed) + 1
    BY <1>8
  <2> QED
    BY <1>2, <1>8, <2>1 DEF Books
<1>12. NoFill.commission = 0 /\ NoFill.slippage = 0
  BY DEF NoFill
<1>13. Books(NoFill, longer, more, money + trade.net)
  BY <1>9, <1>10, <1>11, <1>12 DEF Books
<1> QED
  BY <1>13 DEF longer, more, trade

(* The fills of the open are booked. *)
LEMMA BooksAtOpen ==
  ASSUME TypeOK, Holding, Booked, NEW bar \in BarType
  PROVE  Books(EntryAtOpen(bar), FillsAtOpen(bar), trades, cash)
<1>1. fills \in Seq(FillType) /\ trades \in Seq(TradeType) /\ EntryAtOpen(bar) \in FillType
  BY OpenInType DEF TypeOK
<1>2. CASE EntryPending
  <2>1. entryFill = NoFill /\ FillsAtOpen(bar) = Append(fills, EntryAtOpen(bar))
    BY <1>2 DEF Holding, PendingStillFits, HoldingsAgree, FillsAtOpen
  <2> QED
    BY <1>1, <2>1, BooksOpen DEF Booked
<1>3. CASE ~EntryPending
  BY <1>3 DEF Booked, EntryAtOpen, FillsAtOpen
<1> QED
  BY <1>2, <1>3

(* A bar keeps the books. *)
LEMMA ProcessBarBooked ==
  ASSUME Inductive, Holding, Booked, NEW b \in Bars, NEW t \in Times, ProcessBar(b, t)
  PROVE  Booked'
<1> DEFINE bar == Stamped(b, t)
           p == PositionAtOpen(bar)
           entry == EntryAtOpen(bar)
           log == FillsAtOpen(bar)
<1>1. /\ TypeOK /\ bar \in BarType
      /\ cash \in Int /\ tradeSeq \in Nat /\ trades \in Seq(TradeType)
  <2>1. bar \in BarType
    BY BarPrelude
  <2> QED
    BY <2>1 DEF Inductive, TypeOK
<1>2. HoldBar(bar) \/ ExitBar(bar) \/ RaiseInBar(bar)
  BY DEF ProcessBar
<1> HIDE DEF bar
<1>3. p \in PositionType /\ entry \in FillType /\ log \in Seq(FillType)
  BY <1>1, OpenInType
<1>4. Books(entry, log, trades, cash)
  BY <1>1, BooksAtOpen
<1> HIDE DEF p, entry, log
<1>5. CASE HoldBar(bar)
  BY <1>4, <1>5 DEF HoldBar, Booked, p, entry, log
<1>6. CASE ExitBar(bar)
  <2> DEFINE exit == ExitFill(p, bar)
             trade == CompletedTrade(p, entry, exit, ExitOf(bar).reason)
  <2>1. ExitOf(bar) # NoExit /\ CompleteTrade(trade) /\ fills' = Append(log, exit)
    BY <1>6 DEF ExitBar, p, entry, log
  <2>2. exit \in FillType /\ ExitOf(bar).reason \in TradeReasons
    BY <1>1, <2>1, ExitInType DEF p
  <2> HIDE DEF exit
  <2>3. Books(NoFill, Append(log, exit), Append(trades, trade), cash + trade.net)
    BY <1>1, <1>3, <1>4, <2>2, BooksClose DEF TradeReasons
  <2> HIDE DEF trade
  <2>4. trades' = Append(trades, trade) /\ cash' = cash + trade.net /\ entryFill' = NoFill
    BY <2>1 DEF CompleteTrade
  <2> QED
    BY <2>1, <2>3, <2>4 DEF Booked
<1>7. CASE RaiseInBar(bar)
  BY <1>4, <1>7 DEF RaiseInBar, Booked, entry, log, accounting
<1> QED
  BY <1>2, <1>5, <1>6, <1>7

(* And so does the end of a run. *)
LEMMA FinalizeBooked ==
  ASSUME TypeOK, Booked, Finalize
  PROVE  Booked'
<1>1. CASE FinalizeOpen
  <2> DEFINE exit == Fill(orderSeq + 1, OppositeAction(position), Abs(position.quantity),
                          lastBar.time, lastBar, lastBar.close, "END_OF_DATA", position.id)
             trade == CompletedTrade(position, entryFill, exit, "END_OF_DATA")
  <2>1. CompleteTrade(trade) /\ fills' = Append(fills, exit)
    BY <1>1 DEF FinalizeOpen
  <2>2. /\ cash \in Int /\ tradeSeq \in Nat /\ fills \in Seq(FillType) /\ trades \in Seq(TradeType)
        /\ position \in PositionType /\ entryFill \in FillType
    BY DEF TypeOK
  <2>3. exit \in FillType
    BY LiquidationInType
  <2> HIDE DEF exit
  <2>4. Books(NoFill, Append(fills, exit), Append(trades, trade), cash + trade.net)
    BY <2>2, <2>3, BooksClose DEF Booked
  <2> HIDE DEF trade
  <2>5. trades' = Append(trades, trade) /\ cash' = cash + trade.net /\ entryFill' = NoFill
    BY <2>1 DEF CompleteTrade
  <2> QED
    BY <2>1, <2>4, <2>5 DEF Booked
<1>2. CASE UNCHANGED <<entryFill, fills, trades, cash>>
  BY <1>2 DEF Booked
<1> QED
  BY <1>1, <1>2 DEF Finalize, FinalizeFlat, RaiseInFinalize, accounting, holding, executed

(* Fills, trades and cash agree on costs and on net P&L. *)
THEOREM AlwaysBooked == Spec => []Booked
<1>1. Init => Booked
  <2> SUFFICES ASSUME Init PROVE Booked
    OBVIOUS
  <2>1. fills = <<>> /\ trades = <<>> /\ entryFill = NoFill /\ cash = StartingCash
    BY DEF Init
  <2> DEFINE paid == [i \in 1 .. Len(<<>>) |-> <<>>[i].commission]
             lost == [i \in 1 .. Len(<<>>) |-> <<>>[i].slippage]
             nets == [i \in 1 .. Len(<<>>) |-> <<>>[i].net]
  <2>2. paid \in [1 .. 0 -> Int] /\ lost \in [1 .. 0 -> Int] /\ nets \in [1 .. 0 -> Int]
    OBVIOUS
  <2>3. Commissions(<<>>) = Total(paid) /\ Slippages(<<>>) = Total(lost) /\ Nets(<<>>) = Total(nets)
    BY DEF Commissions, Slippages, Nets
  <2> HIDE DEF paid, lost, nets
  <2>4. Commissions(<<>>) = 0 /\ Slippages(<<>>) = 0 /\ Nets(<<>>) = 0
    BY <2>2, <2>3, TotalOfNone
  <2>5. NoFill.commission = 0 /\ NoFill.slippage = 0 /\ StartingCash \in Int /\ Len(<<>>) = 0
    BY NonesInType DEF NoFill
  <2> QED
    BY <2>1, <2>4, <2>5 DEF Booked, Books
<1>2. Inductive /\ Holding /\ Booked /\ [Next]_vars => Booked'
  <2>1. ASSUME Booked, UNCHANGED <<entryFill, fills, trades, cash>>
        PROVE  Booked'
    BY <2>1 DEF Booked
  <2>2. ASSUME NEW intent \in Intents, NEW t \in Times, Submit(intent, t)
        PROVE  UNCHANGED <<entryFill, fills, trades, cash>>
    BY <2>2 DEF Submit, accounting, holding, executed
  <2>3. UNCHANGED vars => UNCHANGED <<entryFill, fills, trades, cash>>
    BY DEF vars, accounting, holding, executed
  <2> QED
    BY <2>1, <2>2, <2>3, ProcessBarBooked, FinalizeBooked DEF Next, Inductive
<1> QED
  BY <1>1, <1>2, AlwaysInductive, AlwaysHolding, PTL DEF Spec
=============================================================================
