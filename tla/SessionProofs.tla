--------------------------- MODULE SessionProofs ----------------------------
(***************************************************************************)
(* Theorems about a session, for every input, every set of answers of a    *)
(* strategy and every policy. The first lets a session inherit what is     *)
(* proved of the broker: whatever the strategy does, the loop calls the    *)
(* broker within the broker's assumptions.                                 *)
(***************************************************************************)
EXTENDS SessionSafety, BrokerProofs, FiniteSetTheorems

(* Where the loop is in its input. *)
Loop ==
  /\ input \in InputSequences
  /\ prior \in Seq(Bars)
  /\ settings \in Policies
  /\ phase = "on_bar" => /\ Len(prior) < Len(input)
                         /\ lastBar.time = Len(prior) + 1

-----------------------------------------------------------------------------
(* The next bar is one of the broker's bars, at one of its times. *)
LEMMA NextBar ==
  ASSUME Loop, NEW n, n = Len(prior) + 1, n <= Len(input)
  PROVE  n \in 1 .. Len(input) /\ input[n] \in Bars /\ n \in Times
<1>1. input \in Seq(Bars) /\ 1 .. Len(input) \subseteq Times
  BY InputsAssumption DEF Loop
<1>2. Len(prior) \in Nat /\ Len(input) \in Nat
  BY <1>1 DEF Loop
<1>3. n \in 1 .. Len(input)
  BY <1>2
<1> QED
  BY <1>1, <1>3

(* What the policy hands on is what a caller of the broker may submit. *)
LEMMA EffectiveIsIntent ==
  ASSUME Loop, NEW intent \in Answers
  PROVE  intent \in Intents /\ Effective(intent) \in Intents
BY AnswersAssumption DEF Effective, Loop

(* The loop advances bar by bar. *)
LEMMA LoopStep ==
  ASSUME Loop, [SessionNext]_sessionVars
  PROVE  Loop'
<1>1. CASE ConsumeBar
  <2> DEFINE n == Len(prior) + 1
  <2>1. n <= Len(input) /\ ProcessBar(input[n], n) /\ UNCHANGED <<input, prior, settings>>
    BY <1>1 DEF ConsumeBar, ObserveAccount, policyVars
  <2>2. lastBar'.time = n
    BY <2>1 DEF ProcessBar, Stamped
  <2>3. Len(prior) \in Nat /\ Len(input) \in Nat
    BY InputsAssumption DEF Loop
  <2> QED
    BY <2>1, <2>2, <2>3 DEF Loop
<1>2. ASSUME phase = "on_bar", EndOfIteration, UNCHANGED settings
      PROVE  Loop'
  <2>1. input[Len(prior) + 1] \in Bars
    <3>1. Len(prior) + 1 <= Len(input)
      BY <1>2, InputsAssumption DEF Loop
    <3> QED
      BY <3>1, NextBar
  <2> QED
    BY <1>2, <2>1 DEF Loop, EndOfIteration
<1>3. CASE OnBarReturnsNone
  BY <1>2, <1>3 DEF OnBarReturnsNone, policyVars
<1>4. ASSUME NEW intent \in Answers, OnBarReturnsIntent(intent)
      PROVE  Loop'
  BY <1>2, <1>4 DEF OnBarReturnsIntent, SubmitDirect, SubmitRiskChecked, Evaluate, policyVars
<1>5. CASE Start \/ OnBarFails \/ Finish \/ FinalizeSession
  BY <1>5 DEF Start, OnBarFails, Finish, FinalizeSession, policyVars, Loop
<1>6. CASE Stopped \/ UNCHANGED sessionVars
  BY <1>6 DEF Stopped, sessionVars, brokerVars, vars, policyVars, loopVars, Loop
<1> QED
  BY <1>1, <1>3, <1>4, <1>5, <1>6 DEF SessionNext

(* Every step of the loop is a call of the broker or leaves it alone. *)
LEMMA StepDrivesBroker ==
  ASSUME Loop, [SessionNext]_sessionVars
  PROVE  [Next]_vars
<1>1. CASE ConsumeBar
  <2> DEFINE n == Len(prior) + 1
  <2>1. n <= Len(input) /\ ProcessBar(input[n], n)
    BY <1>1 DEF ConsumeBar
  <2>2. input[n] \in Bars /\ n \in Times
    BY <2>1, NextBar
  <2> HIDE DEF n
  <2> QED
    BY <2>1, <2>2 DEF Next
<1>2. ASSUME NEW intent \in Answers, OnBarReturnsIntent(intent)
      PROVE  [Next]_vars
  <2>1. lastBar.time \in Times
    <3>1. Len(prior) + 1 <= Len(input) /\ lastBar.time = Len(prior) + 1
      BY <1>2, InputsAssumption DEF Loop, OnBarReturnsIntent
    <3> QED
      BY <3>1, NextBar
  <2>2. \/ Submit(intent, lastBar.time) \/ Submit(Effective(intent), lastBar.time)
        \/ UNCHANGED vars
    BY <1>2 DEF OnBarReturnsIntent, SubmitDirect, SubmitRiskChecked, brokerVars
  <2> QED
    BY <2>1, <2>2, EffectiveIsIntent DEF Next
<1>3. CASE FinalizeSession
  BY <1>3 DEF FinalizeSession, Next
<1>4. CASE Start \/ OnBarFails \/ OnBarReturnsNone \/ Finish
  BY <1>4 DEF Start, OnBarFails, OnBarReturnsNone, Finish, brokerVars
<1>5. CASE Stopped \/ UNCHANGED sessionVars
  BY <1>5 DEF Stopped, sessionVars, brokerVars
<1> QED
  BY <1>1, <1>2, <1>3, <1>4, <1>5 DEF SessionNext

(* Before the first bar. *)
LEMMA InitLoop == SessionInit => Loop /\ Init
BY DEF SessionInit, PolicyInit, Loop

(* A session is always somewhere in its input. *)
THEOREM AlwaysLoop == SessionSpec => []Loop
<1>1. Loop /\ [SessionNext]_sessionVars => Loop'
  BY LoopStep
<1> QED
  BY <1>1, InitLoop, PTL DEF SessionSpec

(* adapter.py, _run_session: a session, seen by its broker, is a legal     *)
(* sequence of submit, process_bar and finalize calls, with intents,       *)
(* candles and timestamps that the broker's theorems speak of.  So every   *)
(* theorem about Spec is one about SessionSpec.                            *)
THEOREM SessionDrivesBroker == SessionSpec => Spec
<1>1. Loop /\ [SessionNext]_sessionVars => [Next]_vars
  BY StepDrivesBroker
<1> QED
  BY <1>1, InitLoop, AlwaysLoop, PTL DEF SessionSpec, Spec

-----------------------------------------------------------------------------
(* The lock.                                                               *)

(* Under a lock no entry waits, and a callback finds nothing waiting.      *)
Lock ==
  /\ locked => settings.aware /\ ~EntryPending
  /\ phase = "on_bar" => pending = NoOrder

(* Once a drawdown was seen, what is submitted is a CLOSE or nothing. *)
LEMMA LockStep ==
  ASSUME Lock, [SessionNext]_sessionVars
  PROVE  Lock'
<1>1. CASE ConsumeBar
  <2>1. pending' = NoOrder
    BY <1>1 DEF ConsumeBar, ProcessBar
  <2>2. UNCHANGED settings /\ (locked' => locked \/ settings.aware)
    BY <1>1 DEF ConsumeBar, ObserveAccount, policyVars
  <2> QED
    BY <2>1, <2>2 DEF Lock, EntryPending
<1>2. ASSUME NEW intent \in Answers, OnBarReturnsIntent(intent)
      PROVE  Lock'
  <2>1. pending = NoOrder /\ phase' = "bar" /\ UNCHANGED settings
    BY <1>2 DEF OnBarReturnsIntent, EndOfIteration, SubmitDirect, SubmitRiskChecked, Evaluate,
       policyVars, Lock
  <2>2. CASE SubmitDirect(intent, lastBar.time)
    BY <2>1, <2>2 DEF SubmitDirect, policyVars, Lock
  <2>3. CASE SubmitRiskChecked(intent, lastBar.time)
    <3>1. settings.aware /\ locked' = LockedAfter(account)
      BY <2>3 DEF SubmitRiskChecked, Evaluate
    <3>2. CASE RiskReason(intent, account) = "ACCEPTED" /\ locked'
      <4>1. intent.action = "CLOSE" /\ Effective(intent) = intent
        BY <3>1, <3>2 DEF RiskReason, Effective
      <4>2. Submit(intent, lastBar.time)
        BY <2>3, <3>2, <4>1 DEF SubmitRiskChecked
      <4>3. pending' = NoOrder \/ pending'.intent = intent
        BY <2>1, <4>2 DEF Submit
      <4>4. ~EntryPending'
        BY <4>1, <4>3 DEF EntryPending, IsEntry
      <4> QED
        BY <2>1, <3>1, <4>4 DEF Lock
    <3>3. CASE RiskReason(intent, account) # "ACCEPTED"
      <4>1. pending' = NoOrder
        BY <2>1, <2>3, <3>3 DEF SubmitRiskChecked, brokerVars, vars
      <4> QED
        BY <2>1, <3>1, <4>1 DEF Lock, EntryPending
    <3>4. CASE ~locked'
      BY <2>1, <3>4 DEF Lock
    <3> QED
      BY <3>2, <3>3, <3>4
  <2> QED
    BY <1>2, <2>2, <2>3 DEF OnBarReturnsIntent
<1>3. CASE FinalizeSession
  BY <1>3 DEF FinalizeSession, Finalize, policyVars, Lock, EntryPending
<1>4. CASE Start \/ OnBarFails \/ OnBarReturnsNone \/ Finish
  BY <1>4 DEF Start, OnBarFails, OnBarReturnsNone, EndOfIteration, Finish, brokerVars, vars,
     policyVars, Lock, EntryPending
<1>5. CASE Stopped \/ UNCHANGED sessionVars
  BY <1>5 DEF Stopped, sessionVars, brokerVars, vars, policyVars, loopVars, Lock, EntryPending
<1> QED
  BY <1>1, <1>2, <1>3, <1>4, <1>5 DEF SessionNext

(* No lock is set. *)
LEMMA InitLock == SessionInit => Lock
BY DEF SessionInit, PolicyInit, Init, Lock, EntryPending

(* A position is opened by a pending entry alone. *)
LEMMA EntriesOpenPositions ==
  ASSUME ~EntryPending, [SessionNext]_sessionVars
  PROVE  positionSeq' = positionSeq
<1>1. CASE ConsumeBar
  BY <1>1 DEF ConsumeBar, ProcessBar
<1>2. ASSUME NEW intent \in Answers, OnBarReturnsIntent(intent)
      PROVE  positionSeq' = positionSeq
  BY <1>2 DEF OnBarReturnsIntent, SubmitDirect, SubmitRiskChecked, Submit, brokerVars, vars,
     identifiers
<1>3. CASE FinalizeSession
  BY <1>3 DEF FinalizeSession, Finalize, FinalizeFlat, FinalizeOpen, RaiseInFinalize, identifiers
<1>4. CASE Start \/ OnBarFails \/ OnBarReturnsNone \/ Finish
  BY <1>4 DEF Start, OnBarFails, OnBarReturnsNone, Finish, brokerVars, vars, identifiers
<1>5. CASE Stopped \/ UNCHANGED sessionVars
  BY <1>5 DEF Stopped, sessionVars, brokerVars, vars, identifiers
<1> QED
  BY <1>1, <1>2, <1>3, <1>4, <1>5 DEF SessionNext

(* USER_GUIDE.md:147-150: after the drawdown lock no position is opened,   *)
(* whatever was accepted before it, for every strategy and policy.         *)
THEOREM LockCorrect == SessionSpec => NoEntryAfterLock
<1>1. Lock /\ [SessionNext]_sessionVars => Lock'
  BY LockStep
<1>2. Lock /\ [SessionNext]_sessionVars => [locked => positionSeq' = positionSeq]_sessionVars
  BY EntriesOpenPositions DEF Lock
<1> QED
  BY <1>1, <1>2, InitLock, PTL DEF SessionSpec, NoEntryAfterLock

-----------------------------------------------------------------------------
(* When the lock is taken.                                                 *)

(* In a callback the account is that of the last point: looking at it once *)
(* more, as evaluate does, shows nothing new.                              *)
AccountIsLastPoint ==
  phase = "on_bar" =>
    LET last == equityPoints[Len(equityPoints)]
    IN Len(equityPoints) > 0 /\ account.peak = last.peak /\ account.equity = last.equity

Locking == LockedExactlyAfterDrawdown /\ AccountIsLastPoint

(* A bar that completes adds the point of the new account. *)
PointOfAccount ==
  \E point \in PointType :
    /\ equityPoints' = Append(equityPoints, point)
    /\ point.peak = account'.peak /\ point.equity = account'.equity

(* A completed bar records its account. *)
LEMMA BarRecords ==
  ASSUME Inductive, NEW b \in Bars, NEW t \in Times, ProcessBar(b, t), BarCompletes(Stamped(b, t))
  PROVE  PointOfAccount
<1> DEFINE bar == Stamped(b, t)
<1>1. bar \in BarType /\ TypeOK /\ cash \in Int /\ peakEquity \in Int
  BY BarPrelude DEF Inductive, TypeOK
<1>2. HoldBar(bar) \/ ExitBar(bar)
  BY DEF ProcessBar, RaiseInBar
<1> HIDE DEF bar
<1>3. ASSUME NEW p \in PositionType, NEW entry \in FillType, NEW money \in Int,
             RecordEquity(bar, p, entry, money, peakEquity, equityPoints)
      PROVE  PointOfAccount
  <2> DEFINE mark == Mark(bar, p, entry, money, peakEquity)
  <2>1. Point(bar, mark) \in PointType
    BY <1>1, MarkInType
  <2>2. account' = mark /\ equityPoints' = Append(equityPoints, Point(bar, mark))
    BY <1>3 DEF RecordEquity
  <2>3. Point(bar, mark).peak = mark.peak /\ Point(bar, mark).equity = mark.equity
    BY DEF Point
  <2> QED
    BY <2>1, <2>2, <2>3 DEF PointOfAccount
<1>4. CASE HoldBar(bar)
  <2>1. PositionAtOpen(bar) \in PositionType /\ EntryAtOpen(bar) \in FillType
    BY <1>1, OpenInType
  <2> QED
    BY <1>1, <1>3, <1>4, <2>1 DEF HoldBar
<1>5. CASE ExitBar(bar)
  <2> DEFINE p == PositionAtOpen(bar)
             exit == ExitFill(p, bar)
             trade == CompletedTrade(p, EntryAtOpen(bar), exit, ExitOf(bar).reason)
  <2>1. p \in PositionType /\ EntryAtOpen(bar) \in FillType
    BY <1>1, OpenInType
  <2>2. /\ ExitOf(bar) # NoExit
        /\ RecordEquity(bar, Flat, NoFill, cash + trade.net, peakEquity, equityPoints)
    BY <1>5 DEF ExitBar
  <2>3. exit \in FillType /\ ExitOf(bar).reason \in TradeReasons /\ tradeSeq \in Nat
    BY <1>1, <2>2, ExitInType DEF TypeOK
  <2> HIDE DEF p, exit
  <2>4. trade \in TradeType
    BY <2>1, <2>3, TradeInType DEF TradeReasons
  <2> HIDE DEF trade
  <2>5. cash + trade.net \in Int
    BY <1>1, <2>4 DEF TradeType
  <2> QED
    BY <1>3, <2>2, <2>5, NonesInType
<1> QED
  BY <1>2, <1>4, <1>5

(* A bar that raises leaves the account alone. *)
LEMMA BarRaises ==
  ASSUME NEW b, NEW t, ProcessBar(b, t), ~BarCompletes(Stamped(b, t))
  PROVE  UNCHANGED accounting
BY DEF ProcessBar, HoldBar, ExitBar, RaiseInBar, BarCompletes

(* A drawdown was reached on some bar; one more point, one more chance. *)
Reached(points) == \E i \in 1 .. Len(points) : DrawdownReached(points[i])

(* One more point, one more chance. *)
LEMMA ReachedByAppend ==
  ASSUME NEW points \in Seq(PointType), NEW point \in PointType
  PROVE  Reached(Append(points, point)) <=> Reached(points) \/ DrawdownReached(point)
<1> DEFINE longer == Append(points, point)
<1>1. /\ Len(points) \in Nat /\ Len(longer) = Len(points) + 1
      /\ \A i \in 1 .. Len(points) : longer[i] = points[i]
      /\ longer[Len(points) + 1] = point
  BY AppendProperties
<1> HIDE DEF longer
<1>2. 1 .. Len(longer) = (1 .. Len(points)) \cup {Len(points) + 1}
  BY <1>1
<1>3. Reached(longer) <=> \/ \E i \in 1 .. Len(points) : DrawdownReached(longer[i])
                         \/ DrawdownReached(longer[Len(points) + 1])
  BY <1>2 DEF Reached
<1>4. (\E i \in 1 .. Len(points) : DrawdownReached(longer[i])) <=> Reached(points)
  BY <1>1 DEF Reached
<1>5. Reached(longer) <=> Reached(points) \/ DrawdownReached(point)
  BY <1>1, <1>3, <1>4
<1> QED
  BY <1>5 DEF longer

(* Observing an account locks when it has the drawdown of the last point. *)
LEMMA LockingStep ==
  ASSUME Inductive, Loop, Lock, Locking, [SessionNext]_sessionVars
  PROVE  Locking'
<1>1. equityPoints \in Seq(PointType) /\ Len(equityPoints) \in Nat
  BY DEF Inductive, TypeOK
<1>2. ~finalized => (locked <=> settings.aware /\ Reached(equityPoints))
  BY DEF Locking, LockedExactlyAfterDrawdown, Reached
<1>3. ASSUME UNCHANGED settings, ~finalized' => (locked' <=> settings.aware /\ Reached(equityPoints'))
      PROVE  LockedExactlyAfterDrawdown'
  BY <1>3 DEF LockedExactlyAfterDrawdown, Reached, DrawdownReached
<1>4. ASSUME UNCHANGED <<finalized, equityPoints, locked, settings>>, phase' # "on_bar"
      PROVE  Locking'
  BY <1>2, <1>3, <1>4 DEF Locking, AccountIsLastPoint
<1>5. CASE ConsumeBar
  <2> DEFINE n == Len(prior) + 1
             bar == Stamped(input[n], n)
  <2>1. n <= Len(input) /\ ProcessBar(input[n], n)
    BY <1>5 DEF ConsumeBar
  <2>2. input[n] \in Bars /\ n \in Times
    BY <2>1, NextBar
  <2>3. ~finalized /\ finalized' = finalized
    BY <2>1 DEF ProcessBar, BarAccepted, outcome
  <2>4. CASE BarCompletes(bar)
    <3>1. PICK point \in PointType : /\ equityPoints' = Append(equityPoints, point)
                                     /\ point.peak = account'.peak /\ point.equity = account'.equity
      BY <2>1, <2>2, <2>4, BarRecords DEF PointOfAccount
    <3>2. UNCHANGED settings /\ locked' = IF settings.aware THEN LockedAfter(account') ELSE locked
      BY <1>5, <2>4 DEF ConsumeBar, ObserveAccount
    <3>3. DrawdownReached(account') <=> DrawdownReached(point)
      BY <3>1 DEF DrawdownReached
    <3>4. locked' <=> settings.aware /\ (Reached(equityPoints) \/ DrawdownReached(point))
      BY <1>2, <2>3, <3>2, <3>3 DEF LockedAfter
    <3>5. Reached(equityPoints') <=> Reached(equityPoints) \/ DrawdownReached(point)
      BY <1>1, <3>1, ReachedByAppend
    <3>6. LockedExactlyAfterDrawdown'
      BY <1>3, <3>2, <3>4, <3>5
    <3>7. Len(equityPoints') > 0 /\ equityPoints'[Len(equityPoints')] = point
      BY <1>1, <3>1, AppendProperties
    <3> QED
      BY <3>1, <3>6, <3>7 DEF Locking, AccountIsLastPoint
  <2>5. CASE ~BarCompletes(bar)
    <3>1. UNCHANGED <<settings, locked>> /\ phase' = "failed"
      BY <1>5, <2>5 DEF ConsumeBar, policyVars
    <3>2. UNCHANGED equityPoints
      BY <2>1, <2>5, BarRaises DEF accounting
    <3> QED
      BY <1>4, <2>3, <3>1, <3>2
  <2> QED
    BY <2>4, <2>5
<1>6. ASSUME NEW intent \in Answers, OnBarReturnsIntent(intent)
      PROVE  Locking'
  <2>1. phase = "on_bar" /\ phase' = "bar"
    BY <1>6 DEF OnBarReturnsIntent, EndOfIteration
  <2>2. CASE SubmitDirect(intent, lastBar.time)
    BY <1>4, <2>1, <2>2 DEF SubmitDirect, Submit, outcome, accounting, policyVars
  <2>3. CASE SubmitRiskChecked(intent, lastBar.time)
    <3>1. settings.aware /\ UNCHANGED settings /\ locked' = LockedAfter(account)
      BY <2>3 DEF SubmitRiskChecked, Evaluate
    <3>2. UNCHANGED <<finalized, equityPoints>>
      BY <2>3 DEF SubmitRiskChecked, Submit, brokerVars, vars, outcome, accounting
    <3>3. DrawdownReached(account) => Reached(equityPoints)
      BY <1>1, <2>1 DEF Locking, AccountIsLastPoint, DrawdownReached, Reached
    <3>4. ~finalized' => (locked' <=> settings.aware /\ Reached(equityPoints'))
      BY <1>2, <3>1, <3>2, <3>3 DEF LockedAfter
    <3> QED
      BY <1>3, <2>1, <3>1, <3>4 DEF Locking, AccountIsLastPoint
  <2> QED
    BY <1>6, <2>2, <2>3 DEF OnBarReturnsIntent
<1>7. CASE FinalizeSession
  <2>1. phase' # "on_bar" /\ UNCHANGED <<settings, locked>>
    BY <1>7 DEF FinalizeSession, policyVars
  <2>2. finalized' \/ UNCHANGED <<finalized, equityPoints>>
    BY <1>7 DEF FinalizeSession, Finalize, FinalizeFlat, FinalizeOpen, RaiseInFinalize, accounting,
       outcome
  <2>3. CASE finalized'
    BY <2>1, <2>3 DEF Locking, LockedExactlyAfterDrawdown, AccountIsLastPoint
  <2> QED
    BY <1>4, <2>1, <2>2, <2>3
<1>8. CASE Start \/ OnBarFails \/ OnBarReturnsNone \/ Finish
  BY <1>4, <1>8 DEF Start, OnBarFails, OnBarReturnsNone, EndOfIteration, Finish, brokerVars, vars,
     policyVars, outcome, accounting
<1>9. CASE Stopped \/ UNCHANGED sessionVars
  BY <1>9 DEF Stopped, sessionVars, brokerVars, vars, policyVars, loopVars, outcome, accounting,
     Locking, LockedExactlyAfterDrawdown, AccountIsLastPoint, DrawdownReached
<1> QED
  BY <1>5, <1>6, <1>7, <1>8, <1>9 DEF SessionNext

(* No lock is set. *)
LEMMA InitLocking == SessionInit => Locking
BY DEF SessionInit, PolicyInit, Init, Locking, LockedExactlyAfterDrawdown, AccountIsLastPoint

(* In a session the lock is always as its points say. *)
THEOREM AlwaysLocking == SessionSpec => []Locking
<1>1. Lock /\ [SessionNext]_sessionVars => Lock'
  BY LockStep
<1>2. Inductive /\ Loop /\ Lock /\ Locking /\ [SessionNext]_sessionVars => Locking'
  BY LockingStep
<1> QED
  BY <1>1, <1>2, InitLock, InitLocking, AlwaysLoop, SessionDrivesBroker, AlwaysInductive, PTL
     DEF SessionSpec

(* policy.py:82 and adapter.py:63: while the session runs the lock is on   *)
(* exactly when some bar closed with the drawdown of the policy, whatever  *)
(* the strategy asked for and wherever the equity went since.              *)
THEOREM LockedCorrect == SessionSpec => []LockedExactlyAfterDrawdown
<1>1. Locking => LockedExactlyAfterDrawdown
  BY DEF Locking
<1> QED
  BY <1>1, AlwaysLocking, PTL

-----------------------------------------------------------------------------
(* What the policy approved.                                               *)

(* An entry that waits was approved, as the position it becomes will be.   *)
Approval ==
  /\ ExposureWithinPolicy
  /\ settings.aware /\ EntryPending =>
       /\ pending.intent.quantity <= settings.maxQuantity
       /\ pending.intent.action = "SELL" => settings.allowShort

(* A position opened by an approved entry obeys the policy, and so does no *)
(* position.                                                               *)
LEMMA ApprovedPosition ==
  ASSUME TypeOK, Loop, Approval, NEW bar, UNCHANGED settings,
         position' = PositionAtOpen(bar) \/ position' = Flat
  PROVE  ExposureWithinPolicy'
<1>1. settings.maxQuantity \in Nat
  BY PoliciesAssumption DEF Loop, PolicyType
<1>2. pending.intent.quantity \in Nat /\ pending.intent.action \in Actions
  BY DEF TypeOK, OrderType, IntentType
<1>3. CASE position' = Flat
  BY <1>1, <1>3 DEF ExposureWithinPolicy, Flat, Abs
<1>4. CASE position' = PositionAtOpen(bar) /\ EntryPending
  <2>1. position'.quantity = IF pending.intent.action = "BUY" THEN pending.intent.quantity
                             ELSE -pending.intent.quantity
    BY <1>4 DEF PositionAtOpen
  <2>2. Abs(position'.quantity) = pending.intent.quantity
    BY <1>2, <2>1 DEF Abs
  <2>3. position'.quantity < 0 => pending.intent.action = "SELL"
    BY <1>2, <1>4, <2>1 DEF EntryPending, IsEntry
  <2> QED
    BY <1>4, <2>2, <2>3 DEF Approval, ExposureWithinPolicy
<1>5. CASE position' = PositionAtOpen(bar) /\ ~EntryPending
  BY <1>5 DEF PositionAtOpen, Approval, ExposureWithinPolicy
<1> QED
  BY <1>3, <1>4, <1>5

(* The policy is asked before an entry waits, and only then. *)
LEMMA ApprovalStep ==
  ASSUME TypeOK, Loop, Lock, Approval, [SessionNext]_sessionVars
  PROVE  Approval'
<1>1. ASSUME UNCHANGED <<settings, position, pending>>
      PROVE  Approval'
  BY <1>1 DEF Approval, ExposureWithinPolicy, EntryPending
<1>2. CASE ConsumeBar
  <2> DEFINE bar == Stamped(input[Len(prior) + 1], Len(prior) + 1)
  <2>1. UNCHANGED settings /\ pending' = NoOrder /\ (HoldBar(bar) \/ ExitBar(bar) \/ RaiseInBar(bar))
    BY <1>2 DEF ConsumeBar, ProcessBar, ObserveAccount, policyVars
  <2> HIDE DEF bar
  <2>2. position' = PositionAtOpen(bar) \/ position' = Flat
    BY <2>1 DEF HoldBar, ExitBar, RaiseInBar, CompleteTrade
  <2> QED
    BY <2>1, <2>2, ApprovedPosition DEF Approval, EntryPending
<1>3. ASSUME NEW intent \in Answers, OnBarReturnsIntent(intent)
      PROVE  Approval'
  <2>1. pending = NoOrder
    BY <1>3 DEF OnBarReturnsIntent, Lock
  <2>2. CASE SubmitDirect(intent, lastBar.time)
    BY <2>2 DEF SubmitDirect, Submit, holding, policyVars, Approval, ExposureWithinPolicy
  <2>3. CASE SubmitRiskChecked(intent, lastBar.time)
    <3>1. UNCHANGED <<settings, position>>
      BY <2>3 DEF SubmitRiskChecked, Evaluate, Submit, holding, brokerVars, vars
    <3>2. CASE RiskReason(intent, account) = "ACCEPTED"
      <4>1. pending' = NoOrder \/ pending'.intent = Effective(intent)
        BY <2>1, <2>3, <3>2 DEF SubmitRiskChecked, Submit
      <4>2. intent.action # "CLOSE" =>
              /\ Effective(intent).quantity <= settings.maxQuantity
              /\ intent.action = "SELL" => settings.allowShort
        <5>1. Effective(intent).quantity \in Nat /\ settings.maxQuantity \in Nat
          BY EffectiveIsIntent, IntentsAssumption, PoliciesAssumption DEF Loop, PolicyType, IntentType
        <5> QED
          BY <3>2, <5>1 DEF RiskReason
      <4>3. Effective(intent).action = intent.action
        BY EffectiveIsIntent, IntentsAssumption DEF Effective, IntentType
      <4> QED
        BY <3>1, <4>1, <4>2, <4>3 DEF Approval, ExposureWithinPolicy, EntryPending, IsEntry
    <3>3. CASE RiskReason(intent, account) # "ACCEPTED"
      BY <1>1, <2>3, <3>1, <3>3 DEF SubmitRiskChecked, brokerVars, vars
    <3> QED
      BY <3>2, <3>3
  <2> QED
    BY <1>3, <2>2, <2>3 DEF OnBarReturnsIntent
<1>4. CASE FinalizeSession
  <2>1. UNCHANGED settings /\ pending' = NoOrder /\ (UNCHANGED position \/ position' = Flat)
    BY <1>4 DEF FinalizeSession, Finalize, FinalizeFlat, FinalizeOpen, RaiseInFinalize, CompleteTrade,
       holding, policyVars
  <2>2. CASE UNCHANGED position
    BY <2>1, <2>2 DEF Approval, ExposureWithinPolicy, EntryPending
  <2>3. CASE position' = Flat
    BY <2>1, <2>3, ApprovedPosition DEF Approval, EntryPending
  <2> QED
    BY <2>1, <2>2, <2>3
<1>5. CASE Start \/ OnBarFails \/ OnBarReturnsNone \/ Finish
  BY <1>1, <1>5 DEF Start, OnBarFails, OnBarReturnsNone, Finish, brokerVars, vars, policyVars, holding
<1>6. CASE Stopped \/ UNCHANGED sessionVars
  BY <1>1, <1>6 DEF Stopped, sessionVars, brokerVars, vars, policyVars, holding
<1> QED
  BY <1>2, <1>3, <1>4, <1>5, <1>6 DEF SessionNext

(* Nothing is approved yet. *)
LEMMA InitApproval == SessionInit => Approval
<1> SUFFICES ASSUME SessionInit PROVE Approval
  OBVIOUS
<1>1. settings.maxQuantity \in Nat
  BY PoliciesAssumption DEF SessionInit, PolicyInit, PolicyType
<1> QED
  BY <1>1 DEF SessionInit, Init, Approval, ExposureWithinPolicy, EntryPending, Flat, Abs

(* USER_GUIDE.md, "Risk behavior": the position held obeys the policy,     *)
(* at whatever price and however many bars after its approval it opened.   *)
THEOREM ExposureCorrect == SessionSpec => []ExposureWithinPolicy
<1>1. Lock /\ [SessionNext]_sessionVars => Lock'
  BY LockStep
<1>2. TypeOK /\ Loop /\ Lock /\ Approval /\ [SessionNext]_sessionVars => Approval'
  BY ApprovalStep
<1>3. Approval => ExposureWithinPolicy
  BY DEF Approval
<1> QED
  BY <1>1, <1>2, <1>3, InitLock, InitApproval, AlwaysLoop, SessionDrivesBroker, TypeCorrect, PTL
     DEF SessionSpec

-----------------------------------------------------------------------------
(* The candle of a fill.                                                   *)

OnItsCandle(f) ==
  f.reason = "INTENT" => f.filled = f.decided + 1 /\ f.price = input[f.filled].open
AllOnTheirCandles(log) == \A i \in 1 .. Len(log) : OnItsCandle(log[i])

(* What waits when the loop takes the next bar was decided on the bar      *)
(* before it.                                                              *)
Timely ==
  /\ AllOnTheirCandles(fills)
  /\ pending # NoOrder => /\ phase # "created"
                          /\ phase = "bar" => pending.decided = Len(prior)

(* One more fill on its candle. *)
LEMMA OneMoreOnItsCandle ==
  ASSUME NEW log \in Seq(FillType), NEW f \in FillType, AllOnTheirCandles(log), OnItsCandle(f)
  PROVE  Append(log, f) \in Seq(FillType) /\ AllOnTheirCandles(Append(log, f))
<1>1. /\ Len(log) \in Nat /\ Len(Append(log, f)) = Len(log) + 1
      /\ \A i \in 1 .. Len(log) : Append(log, f)[i] = log[i]
      /\ Append(log, f)[Len(log) + 1] = f
  BY AppendProperties
<1>2. ASSUME NEW i \in 1 .. Len(Append(log, f))
      PROVE  OnItsCandle(Append(log, f)[i])
  <2>1. i \in 1 .. Len(log) \/ i = Len(log) + 1
    BY <1>1
  <2> QED
    BY <1>1, <2>1 DEF AllOnTheirCandles
<1> QED
  BY <1>2 DEF AllOnTheirCandles

(* A bar fills what waited for it, and otherwise only what no intent asked *)
(* for.                                                                    *)
LEMMA BarFillsOnItsCandle ==
  ASSUME TypeOK, Loop, Timely, phase = "bar", NEW n, n = Len(prior) + 1, n <= Len(input),
         ProcessBar(input[n], n)
  PROVE  AllOnTheirCandles(fills')
<1> DEFINE bar == Stamped(input[n], n)
           p == PositionAtOpen(bar)
<1>1. n \in Nat /\ n \in Times /\ input[n] \in CandleType /\ Len(processed) \in Nat
  BY NextBar, BarsAssumption, BoundsAssumption DEF TypeOK
<1>2. bar \in BarType /\ bar.time = n /\ bar.open = input[n].open
  BY <1>1 DEF Stamped, BarType, CandleType
<1>3. pending # NoOrder => pending.decided + 1 = n
  BY DEF Timely
<1>4. HoldBar(bar) \/ ExitBar(bar) \/ RaiseInBar(bar)
  BY DEF ProcessBar
<1> HIDE DEF bar
<1>5. AllOnTheirCandles(FillsAtOpen(bar)) /\ FillsAtOpen(bar) \in Seq(FillType)
  <2>1. fills \in Seq(FillType) /\ AllOnTheirCandles(fills) /\ EntryAtOpen(bar) \in FillType
    BY <1>2, OpenInType DEF TypeOK, Timely
  <2>2. CASE EntryPending
    <3>1. OnItsCandle(EntryAtOpen(bar))
      <4>1. /\ EntryAtOpen(bar).filled = n /\ EntryAtOpen(bar).decided = pending.decided
            /\ EntryAtOpen(bar).price = input[n].open
        BY <1>2, <2>2 DEF EntryAtOpen, Fill
      <4> QED
        BY <1>3, <2>2, <4>1 DEF OnItsCandle, EntryPending
    <3> QED
      BY <2>1, <2>2, <3>1, OneMoreOnItsCandle DEF FillsAtOpen
  <2>3. CASE ~EntryPending
    BY <2>1, <2>3 DEF FillsAtOpen
  <2> QED
    BY <2>2, <2>3
<1>6. CASE HoldBar(bar) \/ RaiseInBar(bar)
  BY <1>5, <1>6 DEF HoldBar, RaiseInBar
<1>7. CASE ExitBar(bar)
  <2>1. ExitOf(bar) # NoExit /\ fills' = Append(FillsAtOpen(bar), ExitFill(p, bar))
    BY <1>7 DEF ExitBar
  <2>2. ExitFill(p, bar) \in FillType
    BY <1>2, <2>1, ExitInType
  <2>3. OnItsCandle(ExitFill(p, bar))
    <3>1. CASE ClosePending
      <4>1. /\ ExitFill(p, bar).filled = n /\ ExitFill(p, bar).decided = pending.decided
            /\ ExitFill(p, bar).price = input[n].open
        BY <1>2, <3>1 DEF ExitFill, Fill
      <4> QED
        BY <1>3, <3>1, <4>1 DEF OnItsCandle, ClosePending
    <3>2. CASE ~ClosePending
      <4>1. ExitFill(p, bar).reason = ProtectiveExit(p, bar).reason
        BY <3>2 DEF ExitFill, ExitOf, Fill
      <4>2. ProtectiveExit(p, bar).reason # "INTENT"
        BY DEF ProtectiveExit, NoExit
      <4> QED
        BY <4>1, <4>2 DEF OnItsCandle
    <3> QED
      BY <3>1, <3>2
  <2> HIDE DEF p
  <2> QED
    BY <1>5, <2>1, <2>2, <2>3, OneMoreOnItsCandle
<1> QED
  BY <1>4, <1>6, <1>7

(* A decision is made on the bar that the next iteration follows. *)
LEMMA TimelyStep ==
  ASSUME TypeOK, Loop, Lock, Timely, [SessionNext]_sessionVars
  PROVE  Timely'
<1>1. ASSUME UNCHANGED <<input, fills>>
      PROVE  AllOnTheirCandles(fills)'
  BY <1>1 DEF Timely, AllOnTheirCandles, OnItsCandle
<1>2. CASE ConsumeBar
  <2> DEFINE n == Len(prior) + 1
  <2>1. /\ phase = "bar" /\ n <= Len(input) /\ ProcessBar(input[n], n)
        /\ UNCHANGED input /\ pending' = NoOrder
    BY <1>2 DEF ConsumeBar, ProcessBar
  <2> HIDE DEF n
  <2>2. AllOnTheirCandles(fills')
    BY <2>1, BarFillsOnItsCandle DEF n
  <2> QED
    BY <2>1, <2>2 DEF Timely, AllOnTheirCandles, OnItsCandle
<1>3. ASSUME NEW intent \in Answers, OnBarReturnsIntent(intent)
      PROVE  Timely'
  <2>1. /\ pending = NoOrder /\ phase' = "bar" /\ UNCHANGED input
        /\ lastBar.time = Len(prior) + 1 /\ prior' = Append(prior, input[Len(prior) + 1])
    BY <1>3 DEF OnBarReturnsIntent, EndOfIteration, Lock, Loop
  <2>2. Len(prior') = Len(prior) + 1
    <3>1. input[Len(prior) + 1] \in Bars /\ prior \in Seq(Bars)
      <4>1. Len(prior) + 1 <= Len(input)
        BY <1>3, InputsAssumption DEF OnBarReturnsIntent, Loop
      <4> QED
        BY <4>1, NextBar DEF Loop
    <3> QED
      BY <2>1, <3>1
  <2>3. /\ UNCHANGED fills
        /\ pending' = NoOrder \/ pending'.decided = lastBar.time
    BY <1>3, <2>1 DEF OnBarReturnsIntent, SubmitDirect, SubmitRiskChecked, Submit, executed, brokerVars,
       vars
  <2> QED
    BY <1>1, <2>1, <2>2, <2>3 DEF Timely
<1>4. CASE FinalizeSession
  <2>1. pending' = NoOrder /\ UNCHANGED input
    BY <1>4 DEF FinalizeSession, Finalize
  <2>2. CASE FinalizeOpen
    <3> DEFINE exit == Fill(orderSeq + 1, OppositeAction(position), Abs(position.quantity), lastBar.time,
                            lastBar, lastBar.close, "END_OF_DATA", position.id)
    <3>1. exit \in FillType /\ fills \in Seq(FillType) /\ exit.reason = "END_OF_DATA"
      BY LiquidationInType DEF TypeOK, Fill
    <3>2. fills' = Append(fills, exit)
      BY <2>2 DEF FinalizeOpen
    <3> HIDE DEF exit
    <3>3. AllOnTheirCandles(fills')
      BY <3>1, <3>2, OneMoreOnItsCandle DEF OnItsCandle, Timely
    <3> QED
      BY <2>1, <3>3 DEF Timely, AllOnTheirCandles, OnItsCandle
  <2>3. CASE UNCHANGED fills
    BY <1>1, <2>1, <2>3 DEF Timely
  <2> QED
    BY <1>4, <2>2, <2>3 DEF FinalizeSession, Finalize, FinalizeFlat, RaiseInFinalize, executed
<1>5. CASE Start
  BY <1>1, <1>5 DEF Start, Timely, brokerVars, vars, executed
<1>6. CASE OnBarReturnsNone
  BY <1>1, <1>6 DEF OnBarReturnsNone, EndOfIteration, Timely, Lock, brokerVars, vars, executed
<1>7. CASE OnBarFails \/ Finish
  BY <1>1, <1>7 DEF OnBarFails, Finish, Timely, brokerVars, vars, executed
<1>8. CASE Stopped \/ UNCHANGED sessionVars
  BY <1>1, <1>8 DEF Stopped, Timely, sessionVars, brokerVars, loopVars, vars, executed
<1> QED
  BY <1>2, <1>3, <1>4, <1>5, <1>6, <1>7, <1>8 DEF SessionNext

(* Nothing is filled yet. *)
LEMMA InitTimely == SessionInit => Timely
BY DEF SessionInit, Init, Timely, AllOnTheirCandles

(* USER_GUIDE.md:166: every decision is filled at the open of the candle   *)
(* after its own, for every input and strategy.                            *)
THEOREM NextCandleCorrect == SessionSpec => []FillsOnTheNextCandle
<1>1. Lock /\ [SessionNext]_sessionVars => Lock'
  BY LockStep
<1>2. TypeOK /\ Loop /\ Lock /\ Timely /\ [SessionNext]_sessionVars => Timely'
  BY TimelyStep
<1>3. Timely => FillsOnTheNextCandle
  BY DEF Timely, AllOnTheirCandles, OnItsCandle, FillsOnTheNextCandle
<1> QED
  BY <1>1, <1>2, <1>3, InitLock, InitTimely, AlwaysLoop, SessionDrivesBroker, TypeCorrect, PTL
     DEF SessionSpec

-----------------------------------------------------------------------------
(* Counting.                                                               *)

(* A log splits into what is accepted and what is not. *)
LEMMA CountsSplit ==
  ASSUME NEW S, NEW log \in Seq(S)
  PROVE  /\ Count(log, IsAccepted) \in Nat /\ Count(log, IsRejected) \in Nat
         /\ Count(log, IsAccepted) + Count(log, IsRejected) = Len(log)
<1> DEFINE good == {i \in 1 .. Len(log) : IsAccepted(log[i])}
           bad == {i \in 1 .. Len(log) : IsRejected(log[i])}
<1>1. Len(log) \in Nat /\ DOMAIN log = 1 .. Len(log)
  OBVIOUS
<1>2. IsFiniteSet(1 .. Len(log)) /\ Cardinality(1 .. Len(log)) = Len(log)
  BY <1>1, FS_Interval, SMTT(30)
<1>3. IsFiniteSet(good) /\ IsFiniteSet(bad)
  BY <1>2, FS_Subset
<1>4. good \cup bad = 1 .. Len(log) /\ good \cap bad = {}
  BY DEF IsAccepted, IsRejected
<1>5. Count(log, IsAccepted) = Cardinality(good) /\ Count(log, IsRejected) = Cardinality(bad)
  BY <1>1 DEF Count
<1> HIDE DEF good, bad
<1>6. Cardinality(good) \in Nat /\ Cardinality(bad) \in Nat
  BY <1>3, FS_CardinalityType
<1>7. Cardinality(good \cup bad) = Cardinality(good) + Cardinality(bad) - Cardinality(good \cap bad)
  BY <1>3, FS_Union
<1>8. Cardinality({}) = 0
  BY FS_EmptySet
<1> QED
  <2>1. Len(log) = Cardinality(good) + Cardinality(bad) - 0
    BY <1>2, <1>4, <1>7, <1>8, Zenon
  <2>2. Cardinality(good) + Cardinality(bad) - 0 = Cardinality(good) + Cardinality(bad)
    BY <1>6
  <2> QED
    BY <1>5, <1>6, <2>1, <2>2

(* The accepted records among the first ones. *)
AcceptedBy(log, n) == Cardinality({j \in 1 .. n : IsAccepted(log[j])})

(* The counts of the code are those of the whole log. *)
LEMMA CountIsAcceptedBy ==
  ASSUME NEW S, NEW log \in Seq(S)
  PROVE  Count(log, IsAccepted) = AcceptedBy(log, Len(log))
<1>1. DOMAIN log = 1 .. Len(log)
  OBVIOUS
<1> QED
  BY <1>1 DEF Count, AcceptedBy

(* The next record counts if it is accepted. *)
LEMMA OneMoreCounted ==
  ASSUME NEW log, NEW n \in Nat
  PROVE  /\ AcceptedBy(log, n) \in Nat
         /\ AcceptedBy(log, n + 1) = AcceptedBy(log, n) + (IF IsAccepted(log[n + 1]) THEN 1 ELSE 0)
<1> DEFINE good == {j \in 1 .. n : IsAccepted(log[j])}
<1>1. IsFiniteSet(1 .. n)
  BY FS_Interval
<1>2. IsFiniteSet(good) /\ n + 1 \notin good
  BY <1>1, FS_Subset
<1>3. {j \in 1 .. n + 1 : IsAccepted(log[j])}
        = IF IsAccepted(log[n + 1]) THEN good \cup {n + 1} ELSE good
  OBVIOUS
<1> HIDE DEF good
<1>4. Cardinality(good \cup {n + 1}) = Cardinality(good) + 1
  BY <1>2, FS_AddElement
<1>5. Cardinality(good) \in Nat
  BY <1>2, FS_CardinalityType
<1> QED
  BY <1>3, <1>4, <1>5 DEF AcceptedBy, good

(* None among no record is accepted. *)
LEMMA NothingCounted ==
  ASSUME NEW log
  PROVE  AcceptedBy(log, 0) = 0
<1>1. {j \in 1 .. 0 : IsAccepted(log[j])} = {}
  OBVIOUS
<1> QED
  BY <1>1, FS_EmptySet DEF AcceptedBy

(* A longer log counts the same up to where it grew. *)
LEMMA CountedBefore ==
  ASSUME NEW log, NEW longer, NEW n \in Nat, \A j \in 1 .. n : longer[j] = log[j]
  PROVE  AcceptedBy(longer, n) = AcceptedBy(log, n)
<1>1. {j \in 1 .. n : IsAccepted(longer[j])} = {j \in 1 .. n : IsAccepted(log[j])}
  BY DEF IsAccepted
<1> QED
  BY <1>1 DEF AcceptedBy

(* An accepted record is counted itself, and not after the end of the log. *)
LEMMA CountedInRange ==
  ASSUME NEW log, NEW n \in Nat, NEW i \in 1 .. n, IsAccepted(log[i])
  PROVE  AcceptedBy(log, i) \in 1 .. AcceptedBy(log, n)
<1> DEFINE some == {j \in 1 .. i : IsAccepted(log[j])}
           all == {j \in 1 .. n : IsAccepted(log[j])}
<1>1. IsFiniteSet(1 .. n) /\ all \in SUBSET (1 .. n) /\ some \in SUBSET all
  BY FS_Interval
<1>2. IsFiniteSet(all) /\ IsFiniteSet(some) /\ Cardinality(some) <= Cardinality(all)
  BY <1>1, FS_Subset
<1>3. some # {}
  OBVIOUS
<1>4. Cardinality(some) \in Nat /\ Cardinality(all) \in Nat /\ Cardinality(some) # 0
  BY <1>2, <1>3, FS_CardinalityType, FS_EmptySet
<1> HIDE DEF some, all
<1>5. Cardinality(some) \in 1 .. Cardinality(all)
  BY <1>2, <1>4
<1> QED
  BY <1>5 DEF AcceptedBy, some, all

-----------------------------------------------------------------------------
(* What the broker sees of the decisions.                                  *)

(* A kept RiskDecision. *)
DecisionType ==
  [intent : Intents, effective : Intents,
   reason : {"ACCEPTED", "SHORTS_DISABLED", "QUANTITY_EXCEEDED", "DRAWDOWN_LOCKED"}]

Followed ==
  /\ riskDecisions \in Seq(DecisionType)
  /\ settings.aware =>
       /\ Len(admissions) = AcceptedBy(riskDecisions, Len(riskDecisions))
       /\ \A i \in 1 .. Len(riskDecisions) :
            IsAccepted(riskDecisions[i]) =>
              /\ admissions[AcceptedBy(riskDecisions, i)].intent = riskDecisions[i].effective
              /\ riskDecisions[i].effective = Effective(riskDecisions[i].intent)
  /\ ~settings.aware => riskDecisions = <<>>

(* What one call of submit adds. *)
LEMMA SubmitAdds ==
  ASSUME TypeOK, NEW intent \in Intents, NEW t \in Times, Submit(intent, t)
  PROVE  \E a \in AdmissionType : admissions' = Append(admissions, a) /\ a.intent = intent
<1>1. intent \in IntentType /\ t \in Nat /\ Len(processed) \in Nat /\ orderSeq \in Nat
  BY IntentsAssumption, BoundsAssumption DEF TypeOK
<1>2. AdmissionReason(intent) \in {"ACCEPTED", "SESSION_FINALIZED", "PENDING_ORDER_EXISTS",
             "POSITION_ALREADY_OPEN", "INVALID_ORDER_STATE", "NO_POSITION_TO_CLOSE"}
  BY DEF AdmissionReason
<1> DEFINE accepted == Admission(intent, t, orderSeq + 1, "ACCEPTED")
           rejected == Admission(intent, t, 0, AdmissionReason(intent))
<1>3. /\ accepted \in AdmissionType /\ rejected \in AdmissionType
      /\ accepted.intent = intent /\ rejected.intent = intent
  BY <1>1, <1>2 DEF Admission, AdmissionType
<1>4. admissions' = Append(admissions, accepted) \/ admissions' = Append(admissions, rejected)
  BY DEF Submit
<1> HIDE DEF accepted, rejected
<1> QED
  BY <1>3, <1>4

(* Every decision is kept; the accepted ones, with the effective intent,   *)
(* are the next call of submit.                                            *)
LEMMA DecisionFollowed ==
  ASSUME TypeOK, Loop, Followed, phase = "on_bar",
         NEW intent \in Answers, SubmitRiskChecked(intent, lastBar.time)
  PROVE  Followed'
<1> DEFINE d == [intent |-> intent, effective |-> Effective(intent),
                 reason |-> RiskReason(intent, account)]
           n == Len(riskDecisions)
           m == Len(admissions)
<1>1. settings.aware /\ UNCHANGED settings /\ riskDecisions' = Append(riskDecisions, d)
  BY DEF SubmitRiskChecked, Evaluate
<1>2. d \in DecisionType
  <2>1. RiskReason(intent, account)
          \in {"ACCEPTED", "SHORTS_DISABLED", "QUANTITY_EXCEEDED", "DRAWDOWN_LOCKED"}
    BY DEF RiskReason
  <2> QED
    BY <2>1, EffectiveIsIntent DEF DecisionType
<1>3. /\ d.intent = intent /\ d.effective = Effective(intent)
      /\ IsAccepted(d) <=> RiskReason(intent, account) = "ACCEPTED"
  BY DEF IsAccepted
<1> HIDE DEF d
<1>4. /\ n \in Nat /\ riskDecisions' \in Seq(DecisionType) /\ Len(riskDecisions') = n + 1
      /\ \A i \in 1 .. n : riskDecisions'[i] = riskDecisions[i]
      /\ riskDecisions'[n + 1] = d
  BY <1>1, <1>2, AppendProperties DEF Followed
<1>5. m \in Nat /\ admissions \in Seq(AdmissionType) /\ m = AcceptedBy(riskDecisions, n)
  BY <1>1 DEF TypeOK, Followed
<1>6. ASSUME NEW i \in 0 .. n
      PROVE  AcceptedBy(riskDecisions', i) = AcceptedBy(riskDecisions, i)
  <2>1. i \in Nat /\ \A j \in 1 .. i : riskDecisions'[j] = riskDecisions[j]
    BY <1>4
  <2> QED
    BY <2>1, CountedBefore
<1>7. ASSUME NEW i \in 1 .. n, IsAccepted(riskDecisions[i])
      PROVE  /\ AcceptedBy(riskDecisions', i) \in 1 .. m
             /\ admissions[AcceptedBy(riskDecisions', i)].intent = riskDecisions[i].effective
             /\ riskDecisions[i].effective = Effective(riskDecisions[i].intent)
  <2>1. AcceptedBy(riskDecisions, i) \in 1 .. m
    BY <1>4, <1>5, <1>7, CountedInRange
  <2>2. AcceptedBy(riskDecisions', i) = AcceptedBy(riskDecisions, i)
    BY <1>4, <1>6
  <2> QED
    BY <1>1, <1>7, <2>1, <2>2 DEF Followed
<1>8. \A x : Effective(x)' = Effective(x)
  BY <1>1 DEF Effective
<1>9. AcceptedBy(riskDecisions', n + 1) = m + (IF IsAccepted(d) THEN 1 ELSE 0)
  <2>1. AcceptedBy(riskDecisions', n) = m
    BY <1>4, <1>5, <1>6
  <2> QED
    BY <1>4, <2>1, OneMoreCounted
<1>10. ASSUME NEW log, admissions' = log,
              Len(log) = m + (IF IsAccepted(d) THEN 1 ELSE 0),
              \A k \in 1 .. m : log[k] = admissions[k],
              IsAccepted(d) => log[m + 1].intent = Effective(intent)
       PROVE  Followed'
  <2>1. Len(admissions') = AcceptedBy(riskDecisions', Len(riskDecisions'))
    BY <1>4, <1>9, <1>10
  <2>2. ASSUME NEW i \in 1 .. Len(riskDecisions'), IsAccepted(riskDecisions'[i])
        PROVE  /\ admissions'[AcceptedBy(riskDecisions', i)].intent = riskDecisions'[i].effective
               /\ riskDecisions'[i].effective = Effective(riskDecisions'[i].intent)
    <3>1. CASE i \in 1 .. n
      BY <1>4, <1>7, <1>10, <2>2, <3>1
    <3>2. CASE i = n + 1
      <4>1. riskDecisions'[i] = d /\ IsAccepted(d)
        BY <1>4, <2>2, <3>2
      <4>2. AcceptedBy(riskDecisions', i) = m + 1
        BY <1>9, <3>2, <4>1
      <4> QED
        BY <1>3, <1>10, <4>1, <4>2
    <3> QED
      BY <1>4, <2>2, <3>1, <3>2
  <2> QED
    BY <1>1, <1>4, <1>8, <2>1, <2>2 DEF Followed
<1>11. CASE IsAccepted(d)
  <2>1. Submit(Effective(intent), lastBar.time)
    BY <1>3, <1>11 DEF SubmitRiskChecked
  <2>2. Effective(intent) \in Intents /\ lastBar.time \in Times
    <3>1. Len(prior) + 1 <= Len(input) /\ lastBar.time = Len(prior) + 1
      BY InputsAssumption DEF Loop
    <3> QED
      BY <3>1, NextBar, EffectiveIsIntent
  <2>3. PICK a \in AdmissionType : admissions' = Append(admissions, a) /\ a.intent = Effective(intent)
    BY <2>1, <2>2, SubmitAdds
  <2>4. /\ Len(admissions') = m + 1 /\ admissions'[m + 1] = a
        /\ \A k \in 1 .. m : admissions'[k] = admissions[k]
    BY <1>5, <2>3, AppendProperties
  <2> QED
    BY <1>10, <1>11, <2>3, <2>4
<1>12. CASE ~IsAccepted(d)
  <2>1. UNCHANGED admissions
    BY <1>3, <1>12 DEF SubmitRiskChecked, brokerVars, vars
  <2> QED
    BY <1>5, <1>10, <1>12, <2>1
<1> QED
  BY <1>11, <1>12

(* No other step of a session decides or submits anything. *)
LEMMA FollowedStep ==
  ASSUME TypeOK, Loop, Followed, [SessionNext]_sessionVars
  PROVE  Followed'
<1>1. ASSUME UNCHANGED <<settings, riskDecisions>>, settings.aware => UNCHANGED admissions
      PROVE  Followed'
  BY <1>1 DEF Followed, Effective
<1>2. ASSUME NEW intent \in Answers, OnBarReturnsIntent(intent)
      PROVE  Followed'
  <2>1. CASE SubmitDirect(intent, lastBar.time)
    BY <1>1, <2>1 DEF SubmitDirect, policyVars
  <2>2. CASE SubmitRiskChecked(intent, lastBar.time)
    BY <1>2, <2>2, DecisionFollowed DEF OnBarReturnsIntent
  <2> QED
    BY <1>2, <2>1, <2>2 DEF OnBarReturnsIntent
<1>3. CASE ConsumeBar
  BY <1>1, <1>3 DEF ConsumeBar, ProcessBar, ObserveAccount, policyVars
<1>4. CASE FinalizeSession
  BY <1>1, <1>4 DEF FinalizeSession, Finalize, policyVars
<1>5. CASE Start \/ OnBarFails \/ OnBarReturnsNone \/ Finish
  BY <1>1, <1>5 DEF Start, OnBarFails, OnBarReturnsNone, Finish, brokerVars, vars, policyVars
<1>6. CASE Stopped \/ UNCHANGED sessionVars
  BY <1>1, <1>6 DEF Stopped, sessionVars, brokerVars, vars, policyVars
<1> QED
  BY <1>2, <1>3, <1>4, <1>5, <1>6 DEF SessionNext

(* Nothing was decided or submitted. *)
LEMMA InitFollowed == SessionInit => Followed
<1> SUFFICES ASSUME SessionInit PROVE Followed
  OBVIOUS
<1>1. riskDecisions = <<>> /\ admissions = <<>>
  BY DEF SessionInit, PolicyInit, Init
<1> QED
  BY <1>1, NothingCounted DEF Followed

(* Nothing comes to the broker but what the policy accepted. *)
THEOREM AlwaysFollowed == SessionSpec => []Followed
<1>1. TypeOK /\ Loop /\ Followed /\ [SessionNext]_sessionVars => Followed'
  BY FollowedStep
<1> QED
  BY <1>1, InitFollowed, AlwaysLoop, SessionDrivesBroker, TypeCorrect, PTL DEF SessionSpec

(* adapter.py, _submit_risk_checked: the broker sees the accepted          *)
(* decisions, all of them, in order and with the effective intent.         *)
THEOREM AdmissionsFollow == SessionSpec => []AdmissionsFollowDecisions
<1>1. Followed => AdmissionsFollowDecisions
  <2> SUFFICES ASSUME Followed, settings.aware PROVE AdmissionsFollowDecisions
    BY DEF AdmissionsFollowDecisions
  <2>1. Count(riskDecisions, IsAccepted) = AcceptedBy(riskDecisions, Len(riskDecisions))
    BY CountIsAcceptedBy DEF Followed
  <2> QED
    BY <2>1 DEF Followed, AdmissionsFollowDecisions, AcceptedBy
<1> QED
  BY <1>1, AlwaysFollowed, PTL

-----------------------------------------------------------------------------
(* What a callback sees.                                                   *)

(* What a callback is told is what the loop has done so far. *)
Told ==
  /\ Len(prior) <= Len(input)
  /\ \A i \in 1 .. Len(prior) : prior[i] = input[i]
  /\ phase = "created" => prior = <<>>
  /\ phase \in {"created", "bar", "finalize"} => Len(processed) = Len(prior)
  /\ phase = "finalize" => Len(prior) = Len(input)
  /\ phase = "on_bar" =>
       /\ Len(processed) = Len(prior) + 1
       /\ context.time = Len(prior) + 1 /\ context.prior = prior
       /\ context.position = position /\ context.account = account
       /\ context.accepted = Counts[1] /\ context.rejected = Counts[2]

(* A bar is processed, then told, and only then a prior bar. *)
LEMMA ToldStep ==
  ASSUME TypeOK, Loop, Told, [SessionNext]_sessionVars
  PROVE  Told'
<1>1. /\ Len(prior) \in Nat /\ Len(input) \in Nat /\ prior \in Seq(Bars)
      /\ processed \in Seq(BarType) /\ Len(processed) \in Nat
  BY InputsAssumption DEF Loop, TypeOK
<1>2. ASSUME UNCHANGED <<prior, input>>, UNCHANGED processed,
             phase' # "on_bar", phase' # "created",
             phase' \in {"bar", "finalize"} => phase \in {"created", "bar", "finalize"},
             phase' = "finalize" => Len(prior) = Len(input)
      PROVE  Told'
  BY <1>2 DEF Told
<1>3. ASSUME phase = "on_bar", EndOfIteration, UNCHANGED processed
      PROVE  Told'
  <2> DEFINE n == Len(prior) + 1
  <2>1. n <= Len(input) /\ input[n] \in Bars
    <3>1. n <= Len(input)
      BY <1>1, <1>3 DEF Loop
    <3> QED
      BY <3>1, NextBar
  <2>2. prior' = Append(prior, input[n]) /\ UNCHANGED input /\ phase' = "bar"
    BY <1>3 DEF EndOfIteration
  <2>3. /\ Len(prior') = n /\ prior'[n] = input[n]
        /\ \A i \in 1 .. Len(prior) : prior'[i] = prior[i]
    BY <1>1, <2>1, <2>2, AppendProperties
  <2> QED
    BY <1>1, <1>3, <2>1, <2>2, <2>3 DEF Told
<1>4. CASE ConsumeBar
  <2> DEFINE n == Len(prior) + 1
  <2>1. /\ phase = "bar" /\ n <= Len(input) /\ UNCHANGED <<input, prior>>
        /\ processed' = Append(processed, Stamped(input[n], n)) /\ UNCHANGED admissions
        /\ UNCHANGED <<settings, riskDecisions>>
    BY <1>4 DEF ConsumeBar, ProcessBar, ObserveAccount, policyVars
  <2>2. input[n] \in Bars /\ n \in Nat /\ n \in Times
    BY <1>1, <2>1, NextBar
  <2>3. Stamped(input[n], n) \in BarType
    BY <1>1, <2>2, BarsAssumption DEF Stamped, BarType, CandleType
  <2>4. Len(processed') = Len(processed) + 1
    BY <1>1, <2>1, <2>3, AppendProperties
  <2>5. CASE BarCompletes(Stamped(input[n], n))
    <3>1. context' = BarContext(n) /\ phase' = "on_bar"
      BY <1>4, <2>5 DEF ConsumeBar
    <3>2. Counts' = Counts
      BY <2>1 DEF Counts
    <3>3. /\ context'.time = n /\ context'.prior = prior /\ context'.position = position'
          /\ context'.account = account' /\ context'.accepted = Counts[1]
          /\ context'.rejected = Counts[2]
      BY <3>1 DEF BarContext, StrategyContext
    <3> HIDE DEF n
    <3> QED
      BY <2>1, <2>4, <3>1, <3>2, <3>3 DEF Told, n
  <2>6. CASE ~BarCompletes(Stamped(input[n], n))
    <3>1. phase' = "failed"
      BY <1>4, <2>6 DEF ConsumeBar
    <3> QED
      BY <2>1, <3>1 DEF Told
  <2> QED
    BY <2>5, <2>6
<1>5. ASSUME NEW intent \in Answers, OnBarReturnsIntent(intent)
      PROVE  Told'
  <2>1. UNCHANGED processed
    BY <1>5 DEF OnBarReturnsIntent, SubmitDirect, SubmitRiskChecked, Submit, brokerVars, vars
  <2> QED
    BY <1>3, <1>5, <2>1 DEF OnBarReturnsIntent
<1>6. CASE OnBarReturnsNone
  BY <1>3, <1>6 DEF OnBarReturnsNone, brokerVars, vars
<1>7. CASE FinalizeSession
  BY <1>2, <1>7 DEF FinalizeSession, Finalize
<1>8. CASE Start \/ OnBarFails \/ Finish
  BY <1>2, <1>8 DEF Start, OnBarFails, Finish, brokerVars, vars
<1>9. CASE Stopped \/ UNCHANGED sessionVars
  BY <1>9 DEF Stopped, sessionVars, brokerVars, vars, holding, accounting, policyVars, loopVars, Told, Counts
<1> QED
  BY <1>4, <1>5, <1>6, <1>7, <1>8, <1>9 DEF SessionNext

(* Before on_start there is nothing to tell. *)
LEMMA InitTold == SessionInit => Told
<1> SUFFICES ASSUME SessionInit PROVE Told
  OBVIOUS
<1>1. prior = <<>> /\ processed = <<>> /\ phase = "created" /\ Len(input) \in Nat
  BY InputsAssumption DEF SessionInit, Init
<1> QED
  BY <1>1 DEF Told

(* Together they are what on_bar may rely on. *)
LEMMA ToldIsContext ==
  ASSUME TypeOK, Loop, Followed, AccountIsLastPoint, Told
  PROVE  ContextIsOfThisBar
<1> SUFFICES ASSUME phase = "on_bar" PROVE ContextIsOfThisBar
  BY DEF ContextIsOfThisBar
<1>1. /\ Len(prior) \in Nat /\ Len(input) \in Nat /\ prior \in Seq(Bars) /\ input \in Seq(Bars)
      /\ Len(processed) \in Nat
  BY InputsAssumption DEF Loop, TypeOK
<1>2. context.prior = SubSeq(input, 1, context.time - 1)
  <2>1. context.time - 1 = Len(prior) /\ context.prior = prior /\ Len(prior) <= Len(input)
        /\ \A i \in 1 .. Len(prior) : prior[i] = input[i]
    BY <1>1 DEF Told
  <2>2. SubSeq(input, 1, Len(prior)) \in Seq(Bars) /\ Len(SubSeq(input, 1, Len(prior))) = Len(prior)
        /\ \A i \in 1 .. Len(prior) : SubSeq(input, 1, Len(prior))[i] = input[i]
    BY <1>1, <2>1, SubSeqProperties
  <2>3. SubSeq(input, 1, Len(prior)) = prior
    BY <1>1, <2>1, <2>2, SeqEqual
  <2> QED
    BY <2>1, <2>3
<1>3. context.time = Len(processed)
  BY DEF Told
<1>4. context.accepted + context.rejected =
         IF settings.aware THEN Len(riskDecisions) ELSE Len(admissions)
  <2>1. context.accepted = Counts[1] /\ context.rejected = Counts[2]
    BY DEF Told
  <2>2. CASE settings.aware
    <3>1. Count(riskDecisions, IsAccepted) + Count(riskDecisions, IsRejected) = Len(riskDecisions)
      BY CountsSplit DEF Followed
    <3> QED
      BY <2>1, <2>2, <3>1 DEF Counts
  <2>3. CASE ~settings.aware
    <3>1. Count(admissions, IsAccepted) + Count(admissions, IsRejected) = Len(admissions)
      BY CountsSplit DEF TypeOK
    <3> QED
      BY <2>1, <2>3, <3>1 DEF Counts
  <2> QED
    BY <2>2, <2>3
<1>5. /\ context.position = position /\ context.account = account
      /\ account.equity = equityPoints[Len(equityPoints)].equity
      /\ account.peak = equityPoints[Len(equityPoints)].peak
  BY DEF Told, AccountIsLastPoint
<1> QED
  BY <1>2, <1>3, <1>4, <1>5 DEF ContextIsOfThisBar

(* A session tells every callback what it has done. *)
THEOREM AlwaysTold == SessionSpec => []Told
<1>1. TypeOK /\ Loop /\ Told /\ [SessionNext]_sessionVars => Told'
  BY ToldStep
<1> QED
  BY <1>1, InitTold, AlwaysLoop, SessionDrivesBroker, TypeCorrect, PTL DEF SessionSpec

(* adapter.py, _run_session: the context of on_bar is that of its bar, for *)
(* every input, strategy and policy.                                       *)
THEOREM ContextCorrect == SessionSpec => []ContextIsOfThisBar
<1>1. TypeOK /\ Loop /\ Followed /\ Locking /\ Told => ContextIsOfThisBar
  BY ToldIsContext DEF Locking
<1> QED
  BY <1>1, AlwaysLoop, AlwaysFollowed, AlwaysLocking, AlwaysTold, SessionDrivesBroker, TypeCorrect,
     PTL

-----------------------------------------------------------------------------
(* What became of the accepted intents.                                    *)

Filled(log, order) == \E i \in 1 .. Len(log) : log[i].order = order
Waits(a) == pending # NoOrder /\ pending.order = a.order /\ pending.decided = a.decided
Lost(a) == a.reason = "ACCEPTED" /\ ~Filled(fills, a.order)

(* While no call has raised, an accepted intent is filled or waits, and    *)
(* what waits was accepted.  A completed session reports what still waited *)
(* at its end, which was decided on the last bar.                          *)
Accounted ==
  /\ phase \notin {"done", "failed"} =>
       /\ \A k \in 1 .. Len(admissions) : Lost(admissions[k]) => Waits(admissions[k])
       /\ pending # NoOrder =>
            \E k \in 1 .. Len(admissions) :
              admissions[k].reason = "ACCEPTED" /\ admissions[k].order = pending.order
  /\ phase = "finalize" /\ pending # NoOrder => pending.decided = Len(input)
  /\ phase = "done" =>
       /\ finalized /\ result.admissions = admissions
       /\ result.cancelled <=> \E k \in 1 .. Len(admissions) : Lost(admissions[k])
       /\ \A k \in 1 .. Len(admissions) : Lost(admissions[k]) => admissions[k].decided = Len(input)

(* A log with one more fill has one more order filled. *)
LEMMA FilledByAppend ==
  ASSUME NEW log \in Seq(FillType), NEW f \in FillType, NEW order
  PROVE  Filled(Append(log, f), order) <=> Filled(log, order) \/ f.order = order
<1> DEFINE longer == Append(log, f)
<1>1. /\ Len(log) \in Nat /\ Len(longer) = Len(log) + 1 /\ longer[Len(log) + 1] = f
      /\ \A i \in 1 .. Len(log) : longer[i] = log[i]
  BY AppendProperties
<1> HIDE DEF longer
<1>2. \A i : i \in 1 .. Len(longer) <=> i \in 1 .. Len(log) \/ i = Len(log) + 1
  BY <1>1
<1>3. Filled(longer, order) <=> Filled(log, order) \/ f.order = order
  BY <1>1, <1>2 DEF Filled
<1> QED
  BY <1>3 DEF longer

(* A bar that completes fills what waited. *)
LEMMA BarFillsWaiting ==
  ASSUME TypeOK, NEW b \in Bars, NEW t \in Times, ProcessBar(b, t), BarCompletes(Stamped(b, t)),
         Stamped(b, t) \in BarType, NEW order,
         Filled(fills, order) \/ (pending # NoOrder /\ pending.order = order)
  PROVE  Filled(fills', order)
<1> DEFINE bar == Stamped(b, t)
<1>1. HoldBar(bar) \/ ExitBar(bar)
  BY DEF ProcessBar, RaiseInBar
<1> HIDE DEF bar
<1>2. bar \in BarType
  BY DEF bar
<1>3. fills \in Seq(FillType) /\ EntryAtOpen(bar) \in FillType /\ FillsAtOpen(bar) \in Seq(FillType)
  BY <1>2, OpenInType DEF TypeOK
<1>4. Filled(FillsAtOpen(bar), order) \/ (ClosePending /\ pending.order = order)
  <2>1. CASE EntryPending
    <3>1. EntryAtOpen(bar).order = pending.order /\ FillsAtOpen(bar) = Append(fills, EntryAtOpen(bar))
      BY <2>1 DEF EntryAtOpen, Fill, FillsAtOpen
    <3> QED
      BY <1>3, <3>1, FilledByAppend
  <2>2. CASE ~EntryPending
    BY <2>2 DEF FillsAtOpen, EntryPending, ClosePending
  <2> QED
    BY <2>1, <2>2
<1>5. CASE HoldBar(bar)
  <2>1. ~ClosePending
    BY <1>5 DEF HoldBar, ExitOf, NoExit
  <2> QED
    BY <1>4, <1>5, <2>1 DEF HoldBar
<1>6. CASE ExitBar(bar)
  <2> DEFINE exit == ExitFill(PositionAtOpen(bar), bar)
  <2>1. exit \in FillType /\ fills' = Append(FillsAtOpen(bar), exit)
    BY <1>2, <1>6, ExitInType DEF ExitBar
  <2>2. ClosePending => exit.order = pending.order
    BY DEF ExitFill, Fill
  <2> HIDE DEF exit
  <2> QED
    BY <1>3, <1>4, <2>1, <2>2, FilledByAppend
<1> QED
  BY <1>1, <1>5, <1>6

(* A submitted intent waits if it is accepted. *)
LEMMA SubmitAccounted ==
  ASSUME TypeOK, phase = "on_bar", pending = NoOrder, Accounted, EndOfIteration,
         NEW intent \in Intents, NEW t \in Times, Submit(intent, t)
  PROVE  Accounted'
<1> DEFINE m == Len(admissions)
<1>1. UNCHANGED fills /\ phase' = "bar"
  BY DEF Submit, executed, EndOfIteration
<1>2. m \in Nat /\ admissions \in Seq(AdmissionType)
  BY DEF TypeOK
<1>3. \A k \in 1 .. m : ~Lost(admissions[k])
  BY DEF Accounted, Waits
<1>4. PICK a \in AdmissionType :
        /\ admissions' = Append(admissions, a)
        /\ \/ /\ a.reason = "ACCEPTED" /\ a.order = pending'.order /\ a.decided = pending'.decided
              /\ pending' # NoOrder
           \/ a.reason # "ACCEPTED" /\ pending' = NoOrder
  <2>1. intent \in IntentType /\ t \in Nat /\ Len(processed) \in Nat /\ orderSeq \in Nat
    BY IntentsAssumption, BoundsAssumption DEF TypeOK
  <2>2. AdmissionReason(intent) \in {"ACCEPTED", "SESSION_FINALIZED", "PENDING_ORDER_EXISTS",
             "POSITION_ALREADY_OPEN", "INVALID_ORDER_STATE", "NO_POSITION_TO_CLOSE"}
    BY DEF AdmissionReason
  <2> DEFINE accepted == Admission(intent, t, orderSeq + 1, "ACCEPTED")
             rejected == Admission(intent, t, 0, AdmissionReason(intent))
             order == [order |-> orderSeq + 1, intent |-> intent, decided |-> t]
  <2>3. /\ accepted \in AdmissionType /\ rejected \in AdmissionType
        /\ accepted.reason = "ACCEPTED" /\ accepted.order = orderSeq + 1 /\ accepted.decided = t
        /\ rejected.reason = AdmissionReason(intent)
    BY <2>1, <2>2 DEF Admission, AdmissionType
  <2>4. order.order = orderSeq + 1 /\ order.decided = t /\ order # NoOrder
    <3>1. order.order # NoOrder.order
      BY <2>1 DEF NoOrder
    <3> QED
      BY <3>1
  <2>5. \/ pending' = order /\ admissions' = Append(admissions, accepted)
        \/ /\ AdmissionReason(intent) # "ACCEPTED" /\ admissions' = Append(admissions, rejected)
           /\ pending' = NoOrder
    BY DEF Submit
  <2> HIDE DEF accepted, rejected, order
  <2> QED
    BY <2>3, <2>4, <2>5
<1>5. /\ Len(admissions') = m + 1 /\ admissions'[m + 1] = a
      /\ \A k \in 1 .. m : admissions'[k] = admissions[k]
  BY <1>2, <1>4, AppendProperties
<1> HIDE DEF m
<1>6. ASSUME NEW k \in 1 .. Len(admissions'), Lost(admissions[k])'
      PROVE  Waits(admissions[k])'
  <2>1. admissions'[k].reason = "ACCEPTED" /\ ~Filled(fills, admissions'[k].order)
    BY <1>1, <1>6 DEF Lost, Filled
  <2>2. k = m + 1
    BY <1>2, <1>3, <1>5, <2>1 DEF Lost, m
  <2> QED
    BY <1>4, <1>5, <2>1, <2>2 DEF Waits
<1>7. pending' # NoOrder =>
        \E k \in 1 .. Len(admissions') :
          admissions'[k].reason = "ACCEPTED" /\ admissions'[k].order = pending'.order
  BY <1>2, <1>4, <1>5 DEF m
<1> QED
  BY <1>1, <1>6, <1>7 DEF Accounted, Lost, Waits

(* At the end what waits is cancelled, and a liquidation fills no intent.  *)
LEMMA FinalizeAccounts ==
  ASSUME TypeOK, Orders, Accounted, FinalizeSession
  PROVE  Accounted'
<1>1. /\ phase = "finalize" /\ Finalize /\ UNCHANGED input /\ UNCHANGED admissions
      /\ phase' = IF FinalizeCompletes THEN "done" ELSE "failed"
  BY DEF FinalizeSession, Finalize
<1>2. CASE ~FinalizeCompletes
  BY <1>1, <1>2 DEF Accounted
<1>3. CASE FinalizeCompletes
  <2>1. FinalizeFlat \/ FinalizeOpen
    BY <1>1, <1>3 DEF Finalize, RaiseInFinalize
  <2>2. finalized' /\ result'.admissions = admissions /\ (result'.cancelled <=> pending # NoOrder)
    <3>1. finalized' = TRUE /\ result' = Result(pending # NoOrder)
      BY <2>1 DEF FinalizeFlat, FinalizeOpen
    <3> QED
      BY <3>1 DEF Result
  <2>3. ASSUME NEW k \in 1 .. Len(admissions)
        PROVE  Filled(fills', admissions[k].order) <=> Filled(fills, admissions[k].order)
    <3>1. CASE FinalizeFlat
      BY <3>1 DEF FinalizeFlat, executed
    <3>2. CASE FinalizeOpen
      <4> DEFINE exit == Fill(orderSeq + 1, OppositeAction(position), Abs(position.quantity),
                              lastBar.time, lastBar, lastBar.close, "END_OF_DATA", position.id)
      <4>1. exit \in FillType /\ fills \in Seq(FillType) /\ exit.order = orderSeq + 1
        BY LiquidationInType DEF TypeOK, Fill
      <4>2. fills' = Append(fills, exit)
        BY <3>2 DEF FinalizeOpen
      <4>3. exit.order # admissions[k].order
        <5>1. admissions[k] \in AdmissionType /\ orderSeq \in Nat
          BY DEF TypeOK
        <5>2. admissions[k].order \in Nat /\ admissions[k].order <= orderSeq
          BY <5>1 DEF AdmissionType, Orders
        <5> QED
          BY <4>1, <5>1, <5>2
      <4> HIDE DEF exit
      <4> QED
        BY <4>1, <4>2, <4>3, FilledByAppend
    <3> QED
      BY <2>1, <3>1, <3>2
  <2>4. ASSUME NEW k \in 1 .. Len(admissions)
        PROVE  Lost(admissions[k])' <=> Lost(admissions[k])
    BY <1>1, <2>3 DEF Lost
  <2>5. pending # NoOrder <=> \E k \in 1 .. Len(admissions) : Lost(admissions[k])
    <3>1. ASSUME pending # NoOrder
          PROVE  \E k \in 1 .. Len(admissions) : Lost(admissions[k])
      <4>1. PICK k \in 1 .. Len(admissions) :
              admissions[k].reason = "ACCEPTED" /\ admissions[k].order = pending.order
        BY <1>1, <3>1 DEF Accounted
      <4>2. ~Filled(fills, pending.order)
        BY <3>1 DEF Orders, Unfilled, Filled
      <4> QED
        BY <4>1, <4>2 DEF Lost
    <3> QED
      BY <1>1, <3>1 DEF Accounted, Waits
  <2>6. \A k \in 1 .. Len(admissions) : Lost(admissions[k]) => admissions[k].decided = Len(input)
    BY <1>1 DEF Accounted, Waits
  <2>7. phase' = "done"
    BY <1>1, <1>3
  <2> QED
    BY <1>1, <2>2, <2>4, <2>5, <2>6, <2>7 DEF Accounted
<1> QED
  BY <1>2, <1>3

(* No step forgets an accepted intent. *)
LEMMA AccountedStep ==
  ASSUME TypeOK, Orders, Loop, Lock, Timely, Told, Accounted, [SessionNext]_sessionVars
  PROVE  Accounted'
<1>1. ASSUME UNCHANGED <<fills, admissions, pending, input>>, phase \notin {"done", "failed"},
             phase' \notin {"done", "finalize"}
      PROVE  Accounted'
  BY <1>1 DEF Accounted, Lost, Waits
<1>2. CASE ConsumeBar
  <2> DEFINE n == Len(prior) + 1
             bar == Stamped(input[n], n)
  <2>1. /\ phase = "bar" /\ n <= Len(input) /\ ProcessBar(input[n], n)
        /\ UNCHANGED admissions /\ pending' = NoOrder
    BY <1>2 DEF ConsumeBar, ProcessBar
  <2>2. input[n] \in Bars /\ n \in Times /\ Len(processed) \in Nat
    BY <2>1, NextBar DEF TypeOK
  <2>3. CASE BarCompletes(bar)
    <3>1. phase' = "on_bar" /\ bar \in BarType
      BY <1>2, <2>2, <2>3, BarsAssumption, BoundsAssumption DEF ConsumeBar, Stamped, BarType, CandleType
    <3>2. ASSUME NEW k \in 1 .. Len(admissions), admissions[k].reason = "ACCEPTED"
          PROVE  Filled(fills', admissions[k].order)
      <4>1. Filled(fills, admissions[k].order)
              \/ (pending # NoOrder /\ pending.order = admissions[k].order)
        BY <2>1, <3>2 DEF Accounted, Lost, Waits
      <4> HIDE DEF n
      <4> QED
        BY <2>1, <2>2, <2>3, <3>1, <4>1, BarFillsWaiting
    <3> QED
      BY <2>1, <3>1, <3>2 DEF Accounted, Lost
  <2>4. CASE ~BarCompletes(bar)
    <3>1. phase' = "failed"
      BY <1>2, <2>4 DEF ConsumeBar
    <3> QED
      BY <3>1 DEF Accounted
  <2> QED
    BY <2>3, <2>4
<1>3. ASSUME NEW intent \in Answers, OnBarReturnsIntent(intent)
      PROVE  Accounted'
  <2>1. phase = "on_bar" /\ pending = NoOrder /\ EndOfIteration
    BY <1>3 DEF OnBarReturnsIntent, Lock
  <2>2. lastBar.time \in Times
    <3>1. Len(prior) + 1 <= Len(input) /\ lastBar.time = Len(prior) + 1
      BY <2>1, InputsAssumption DEF Loop
    <3> QED
      BY <3>1, NextBar
  <2>3. CASE UNCHANGED brokerVars
    BY <1>1, <2>1, <2>3 DEF EndOfIteration, brokerVars, vars, executed
  <2>4. intent \in Intents /\ Effective(intent) \in Intents
    BY EffectiveIsIntent
  <2> QED
    BY <1>3, <2>1, <2>2, <2>3, <2>4, SubmitAccounted
       DEF OnBarReturnsIntent, SubmitDirect, SubmitRiskChecked
<1>4. CASE FinalizeSession
  BY <1>4, FinalizeAccounts
<1>5. CASE Start \/ OnBarFails \/ OnBarReturnsNone
  BY <1>1, <1>5 DEF Start, OnBarFails, OnBarReturnsNone, EndOfIteration, brokerVars, vars, executed
<1>6. CASE Finish
  <2>1. /\ phase = "bar" /\ Len(prior) = Len(input) /\ phase' \in {"finalize", "failed"}
        /\ UNCHANGED <<fills, admissions, pending, input>>
    BY <1>6 DEF Finish, brokerVars, vars, executed
  <2>2. pending # NoOrder => pending.decided = Len(input)
    BY <2>1 DEF Timely
  <2> QED
    BY <2>1, <2>2 DEF Accounted, Lost, Waits
<1>7. CASE Stopped \/ UNCHANGED sessionVars
  BY <1>7 DEF Stopped, sessionVars, brokerVars, loopVars, vars, executed, outcome, Accounted, Lost, Waits
<1> QED
  BY <1>2, <1>3, <1>4, <1>5, <1>6, <1>7 DEF SessionNext

(* Nothing was accepted. *)
LEMMA InitAccounted == SessionInit => Accounted
BY DEF SessionInit, Init, Accounted

(* The broker of a session keeps account of every accepted intent.         *)
THEOREM AlwaysAccounted == SessionSpec => []Accounted
<1>1. Lock /\ [SessionNext]_sessionVars => Lock'
  BY LockStep
<1>2. TypeOK /\ Loop /\ Lock /\ Timely /\ [SessionNext]_sessionVars => Timely'
  BY TimelyStep
<1>3. /\ TypeOK /\ Orders /\ Loop /\ Lock /\ Timely /\ Told /\ Accounted
      /\ [SessionNext]_sessionVars
      => Accounted'
  BY AccountedStep
<1> QED
  BY <1>1, <1>2, <1>3, InitLock, InitTimely, InitAccounted, AlwaysLoop, AlwaysTold,
     SessionDrivesBroker, TypeCorrect, AlwaysOrders, PTL DEF SessionSpec

(* adapter.py, _run_session and runner.py, RunCounts: the counts of a      *)
(* completed run add up, for every input, strategy and policy.             *)
THEOREM CountsCorrect == SessionSpec => []FilledOrCancelled
<1>1. TypeOK /\ SettledWhenFinal /\ FillsPairIntoTrades /\ Followed /\ Accounted => FilledOrCancelled
  <2> SUFFICES ASSUME TypeOK, SettledWhenFinal, FillsPairIntoTrades, Followed, Accounted,
                      phase = "done"
               PROVE  FilledOrCancelled
    BY DEF FilledOrCancelled
  <2> DEFINE unfilled == {k \in 1 .. Len(admissions) :
                       /\ admissions[k].reason = "ACCEPTED"
                       /\ \A i \in 1 .. Len(result.fills) : result.fills[i].order # admissions[k].order}
  <2>1. /\ finalized /\ result.admissions = admissions
        /\ result.fills = fills /\ result.trades = trades /\ ~IsOpen
    BY DEF Accounted, SettledWhenFinal
  <2>2. \A k : k \in unfilled <=> k \in 1 .. Len(admissions) /\ Lost(admissions[k])
    BY <2>1 DEF Lost, Filled
  <2> HIDE DEF unfilled
  <2>3. (result.cancelled <=> unfilled # {}) /\ \A k \in unfilled : admissions[k].decided = Len(input)
    BY <2>2 DEF Accounted
  <2>4. RunCounts.fills = 2 * RunCounts.completedTrades
    <3>1. Len(fills) = 2 * Len(trades) + 0
      BY <2>1 DEF FillsPairIntoTrades
    <3>2. Len(fills) \in Nat /\ Len(trades) \in Nat
      BY DEF TypeOK
    <3> QED
      BY <2>1, <3>1, <3>2 DEF RunCounts
  <2>5. settings.aware =>
          RunCounts.admissionsAccepted + RunCounts.admissionsRejected = RunCounts.intentsAccepted
    <3>1. Count(admissions, IsAccepted) + Count(admissions, IsRejected) = Len(admissions)
      BY CountsSplit DEF TypeOK
    <3>2. Count(riskDecisions, IsAccepted) = AcceptedBy(riskDecisions, Len(riskDecisions))
      BY CountIsAcceptedBy DEF Followed
    <3>3. /\ RunCounts.admissionsAccepted = Count(admissions, IsAccepted)
          /\ RunCounts.admissionsRejected = Count(admissions, IsRejected)
          /\ RunCounts.intentsAccepted = Count(riskDecisions, IsAccepted)
      BY <2>1 DEF RunCounts
    <3> QED
      BY <3>1, <3>2, <3>3 DEF Followed
  <2> QED
    BY <2>3, <2>4, <2>5 DEF FilledOrCancelled, unfilled
<1> QED
  BY <1>1, AlwaysAccounted, AlwaysFollowed, SessionDrivesBroker, TypeCorrect, SettledCorrect,
     PairsCorrect, PTL

-----------------------------------------------------------------------------
(* The report.                                                             *)

(* The i-th bar has timestamp i, and a session that is done has had bars.  *)
Clock ==
  /\ \A i \in 1 .. Len(processed) : processed[i].time = i
  /\ phase = "done" => finalized /\ Len(processed) > 0

(* Every step keeps the clock. *)
LEMMA ClockStep ==
  ASSUME TypeOK, Settlement, Loop, Told, Clock, [SessionNext]_sessionVars
  PROVE  Clock'
<1>1. /\ Len(prior) \in Nat /\ Len(input) \in Nat
      /\ processed \in Seq(BarType) /\ Len(processed) \in Nat
  BY InputsAssumption DEF Loop, TypeOK
<1>2. ASSUME UNCHANGED processed, phase' = "done" => FALSE
      PROVE  Clock'
  BY <1>2 DEF Clock
<1>3. CASE ConsumeBar
  <2> DEFINE n == Len(prior) + 1
             bar == Stamped(input[n], n)
  <2>1. /\ phase = "bar" /\ n <= Len(input) /\ phase' # "done"
        /\ processed' = Append(processed, bar)
    BY <1>3 DEF ConsumeBar, ProcessBar
  <2>2. input[n] \in Bars /\ n \in Times /\ Len(processed) = Len(prior)
    BY <2>1, NextBar DEF Told
  <2>3. bar \in BarType /\ bar.time = n
    BY <1>1, <2>2, BarsAssumption DEF Stamped, BarType, CandleType
  <2> HIDE DEF bar
  <2>4. /\ Len(processed') = n /\ processed'[n] = bar
        /\ \A i \in 1 .. Len(processed) : processed'[i] = processed[i]
    BY <1>1, <2>1, <2>2, <2>3, AppendProperties
  <2>5. \A i \in 1 .. n : processed'[i].time = i
    <3> SUFFICES ASSUME NEW i \in 1 .. n PROVE processed'[i].time = i
      OBVIOUS
    <3>1. i \in 1 .. Len(processed) \/ i = n
      BY <1>1, <2>2
    <3> QED
      BY <2>3, <2>4, <3>1 DEF Clock
  <2> QED
    BY <2>1, <2>4, <2>5 DEF Clock
<1>4. ASSUME NEW intent \in Answers, OnBarReturnsIntent(intent)
      PROVE  Clock'
  BY <1>2, <1>4 DEF OnBarReturnsIntent, EndOfIteration, SubmitDirect, SubmitRiskChecked, Submit,
     brokerVars, vars
<1>5. CASE FinalizeSession
  <2>1. Finalize /\ UNCHANGED processed /\ lastBar # NoBar
        /\ phase' = (IF FinalizeCompletes THEN "done" ELSE "failed")
    BY <1>5 DEF FinalizeSession, Finalize
  <2>2. Len(processed) > 0
    BY <2>1 DEF Settlement, Balanced
  <2>3. phase' = "done" => finalized'
    BY <2>1 DEF Finalize, FinalizeFlat, FinalizeOpen, RaiseInFinalize
  <2> QED
    BY <2>1, <2>2, <2>3 DEF Clock
<1>6. CASE OnBarReturnsNone
  BY <1>2, <1>6 DEF OnBarReturnsNone, EndOfIteration, brokerVars, vars
<1>7. CASE Start \/ OnBarFails \/ Finish
  BY <1>2, <1>7 DEF Start, OnBarFails, Finish, brokerVars, vars
<1>8. CASE Stopped \/ UNCHANGED sessionVars
  BY <1>8 DEF Stopped, sessionVars, brokerVars, vars, outcome, loopVars, Clock
<1> QED
  BY <1>3, <1>4, <1>5, <1>6, <1>7, <1>8 DEF SessionNext

(* No bar is processed. *)
LEMMA InitClock == SessionInit => Clock
BY DEF SessionInit, Init, Clock

(* Bars carry their number as timestamp. *)
THEOREM AlwaysClock == SessionSpec => []Clock
<1>1. TypeOK /\ Settlement /\ Loop /\ Told /\ Clock /\ [SessionNext]_sessionVars => Clock'
  BY ClockStep
<1> QED
  BY <1>1, InitClock, AlwaysLoop, AlwaysTold, SessionDrivesBroker, TypeCorrect, AlwaysSettlement, PTL
     DEF SessionSpec

(* The result of a completed session is one to report. *)
LEMMA ResultIsReportable ==
  ASSUME TypeOK, Settlement, Points, Clock, phase = "done"
  PROVE  Reportable(result)
<1>1. /\ result.equity = equityPoints /\ result.account = account /\ result.position = Flat
      /\ account.equity = cash /\ Len(equityPoints) = Len(processed) /\ Len(processed) > 0
      /\ equityPoints[Len(equityPoints)].equity = cash
  BY DEF Settlement, SettledWhenFinal, Clock
<1>2. ASSUME NEW i \in 2 .. Len(equityPoints)
      PROVE  equityPoints[i - 1].time < equityPoints[i].time
  <2>1. Len(equityPoints) \in Nat /\ Len(processed) \in Nat
    BY DEF TypeOK
  <2>2. i \in 1 .. Len(equityPoints) /\ i - 1 \in 1 .. Len(equityPoints) /\ i - 1 < i
    BY <2>1
  <2>3. equityPoints[i - 1].bar < equityPoints[i].bar
    BY <2>2 DEF Points, Fits
  <2>4. \A j \in 1 .. Len(equityPoints) : equityPoints[j].time = equityPoints[j].bar
    BY DEF Points, Fits, Clock
  <2> QED
    BY <2>2, <2>3, <2>4
<1>3. Flat.quantity = 0
  BY DEF Flat
<1> QED
  BY <1>1, <1>2, <1>3 DEF Reportable

(* Its fills, trades and curve agree. *)
LEMMA ResultReconciles ==
  ASSUME TypeOK, Settlement, Holding, Booked, phase = "done", finalized
  PROVE  Reconciled(result, StartingCash)
<1>1. /\ result.equity = equityPoints /\ result.fills = fills /\ result.trades = trades
      /\ equityPoints[Len(equityPoints)].equity = cash /\ ~IsOpen
  BY DEF Settlement, SettledWhenFinal
<1>2. NoFill.commission = 0 /\ NoFill.slippage = 0 /\ entryFill = NoFill
  BY <1>1 DEF Holding, HoldingsAgree, NoFill
<1>3. /\ Commissions(fills) = Commissions(trades) + 0 /\ Slippages(fills) = Slippages(trades) + 0
      /\ cash = StartingCash + Nets(trades)
      /\ \A i \in 1 .. Len(trades) :
           trades[i].net = trades[i].gross - trades[i].commission - trades[i].slippage
  BY <1>2 DEF Booked, Books
<1>4. Commissions(trades) \in Int /\ Slippages(trades) \in Int /\ Nets(trades) \in Int
  BY SumsOfTrades DEF TypeOK
<1>5. StartingCash \in Int
  BY NonesInType
<1>6. cash - StartingCash = Nets(trades)
  BY <1>3, <1>4, <1>5
<1> QED
  BY <1>1, <1>3, <1>4, <1>6 DEF Reconciled, TradesReconcile

(* contracts.py, validate_report_input, and metrics.py: the report layer   *)
(* refuses no completed session, for every input, strategy and policy.     *)
THEOREM ReportCorrect == SessionSpec => []ReportAccepted
<1>1. TypeOK /\ Settlement /\ Holding /\ Points /\ Booked /\ Clock => ReportAccepted
  BY ResultIsReportable, ResultReconciles DEF ReportAccepted, Clock
<1> QED
  BY <1>1, AlwaysClock, SessionDrivesBroker, TypeCorrect, AlwaysSettlement, AlwaysHolding, AlwaysPoints,
     AlwaysBooked, PTL

-----------------------------------------------------------------------------
(* The two drawdowns.                                                      *)

(* An order takes a bar to be decided and another to be filled: the first  *)
(* point is the initial cash, and finalize never replaces it.              *)
Opening ==
  /\ Len(processed) = 0 => pending = NoOrder
  /\ Len(processed) <= 1 => ~IsOpen /\ cash = StartingCash
  /\ Len(processed) > 0 => Len(equityPoints) > 0 /\ equityPoints[1].equity = StartingCash

(* The first bar is marked flat. *)
LEMMA FirstBarIsFlat ==
  ASSUME Inductive, Settlement, Opening, NEW b \in Bars, NEW t \in Times, ProcessBar(b, t),
         Len(processed) = 0
  PROVE  Opening'
<1> DEFINE bar == Stamped(b, t)
<1>1. /\ TypeOK /\ bar \in BarType /\ processed \in Seq(BarType) /\ equityPoints \in Seq(PointType)
      /\ position \in PositionType /\ cash \in Int /\ peakEquity \in Int /\ entryFill \in FillType
  BY BarPrelude DEF Inductive, TypeOK
<1>2. /\ pending = NoOrder /\ position.quantity = 0 /\ cash = StartingCash /\ ~IsOpen
      /\ Len(equityPoints) = 0
  BY DEF Opening, IsOpen, Settlement, Balanced, Stuck
<1>3. /\ HoldBar(bar) \/ ExitBar(bar) \/ RaiseInBar(bar)
      /\ processed' = Append(processed, bar) /\ pending' = NoOrder
  BY DEF ProcessBar
<1> HIDE DEF bar
<1>4. PositionAtOpen(bar) = position /\ EntryAtOpen(bar) = entryFill /\ ExitOf(bar) = NoExit
  BY <1>2 DEF PositionAtOpen, EntryAtOpen, EntryPending, ClosePending, ExitOf, ProtectiveExit
<1>5. /\ position' = position /\ cash' = cash
      /\ RecordEquity(bar, position, entryFill, cash, peakEquity, equityPoints)
  BY <1>3, <1>4 DEF HoldBar, ExitBar, RaiseInBar, BarCompletes
<1> DEFINE mark == Mark(bar, position, entryFill, cash, peakEquity)
           point == Point(bar, mark)
<1>6. point \in PointType /\ mark \in AccountType
  BY <1>1, MarkInType
<1>7. equityPoints' = Append(equityPoints, point)
  BY <1>5 DEF RecordEquity
<1>8. point.equity = StartingCash
  <2>1. point.equity = mark.equity
    BY DEF Point
  <2>2. mark.equity = cash + 0
    BY <1>2 DEF Mark
  <2> QED
    BY <1>1, <1>2, <2>1, <2>2
<1> HIDE DEF point
<1>9. Len(equityPoints') = 1 /\ equityPoints'[1] = point
  BY <1>1, <1>2, <1>6, <1>7, AppendProperties
<1>10. Len(processed') = 1
  BY <1>1, <1>3, AppendProperties
<1> QED
  BY <1>2, <1>3, <1>5, <1>8, <1>9, <1>10 DEF Opening, IsOpen

(* Later bars add points after it. *)
LEMMA LaterBarKeepsFirst ==
  ASSUME Inductive, Opening, NEW b \in Bars, NEW t \in Times, ProcessBar(b, t), Len(processed) > 0
  PROVE  Opening'
<1>1. /\ processed \in Seq(BarType) /\ equityPoints \in Seq(PointType)
      /\ Stamped(b, t) \in BarType /\ processed' = Append(processed, Stamped(b, t))
      /\ pending' = NoOrder
  BY BarPrelude DEF Inductive, TypeOK, ProcessBar
<1>2. Len(processed') = Len(processed) + 1 /\ Len(processed) \in Nat /\ Len(equityPoints) \in Nat
  BY <1>1, AppendProperties
<1>3. Len(equityPoints) > 0 /\ equityPoints[1].equity = StartingCash
  BY DEF Opening
<1>4. Len(equityPoints') > 0 /\ equityPoints'[1] = equityPoints[1]
  <2>1. CASE BarCompletes(Stamped(b, t))
    <3>1. PICK point \in PointType : equityPoints' = Append(equityPoints, point)
      BY <2>1, BarRecords DEF PointOfAccount
    <3> QED
      BY <1>1, <1>2, <1>3, <3>1, AppendProperties
  <2>2. CASE ~BarCompletes(Stamped(b, t))
    BY <1>3, <2>2, BarRaises DEF accounting
  <2> QED
    BY <2>1, <2>2
<1> QED
  BY <1>1, <1>2, <1>3, <1>4 DEF Opening

(* finalize replaces the last point of an open position, and a position    *)
(* A liquidation replaces the last point and leaves the earlier ones.      *)
LEMMA LiquidationKeepsEarlier ==
  ASSUME Inductive, Settlement, Opening, FinalizeOpen
  PROVE  /\ Len(processed) > 1 /\ Len(equityPoints) > 1 /\ Len(equityPoints') = Len(equityPoints)
         /\ \A i \in 1 .. Len(equityPoints) - 1 : equityPoints'[i] = equityPoints[i]
<1> DEFINE exit == Fill(orderSeq + 1, OppositeAction(position), Abs(position.quantity),
                        lastBar.time, lastBar, lastBar.close, "END_OF_DATA", position.id)
           trade == CompletedTrade(position, entryFill, exit, "END_OF_DATA")
           mark == Mark(lastBar, Flat, NoFill, cash + trade.net, PeakBeforeLast)
           point == Point(lastBar, mark)
<1>1. /\ IsOpen /\ ~Stuck
      /\ RecordEquity(lastBar, Flat, NoFill, cash + trade.net, PeakBeforeLast, EarlierPoints)
  BY DEF FinalizeOpen, FinalizeCompletes, IsOpen, Stuck
<1>2. /\ TypeOK /\ equityPoints \in Seq(PointType) /\ Len(equityPoints) \in Nat /\ cash \in Int
      /\ lastBar \in BarType /\ processed \in Seq(BarType) /\ tradeSeq \in Nat
      /\ position \in PositionType /\ entryFill \in FillType /\ Len(processed) \in Nat
  BY DEF Inductive, TypeOK
<1>3. Len(processed) > 1 /\ Len(equityPoints) = Len(processed)
  BY <1>1, <1>2 DEF Opening, Settlement, Balanced
<1>4. /\ EarlierPoints \in Seq(PointType) /\ Len(EarlierPoints) = Len(equityPoints) - 1
      /\ \A i \in 1 .. Len(EarlierPoints) : EarlierPoints[i] = equityPoints[i]
      /\ PeakBeforeLast = equityPoints[Len(equityPoints) - 1].peak
  BY <1>2, <1>3, PeakBeforeLastIsPrevious DEF Inductive
<1>5. PeakBeforeLast \in Int
  <2> DEFINE n == Len(equityPoints)
  <2>1. n - 1 \in 1 .. n
    BY <1>2, <1>3
  <2> HIDE DEF n
  <2>2. equityPoints[n - 1] \in PointType
    BY <1>2, <2>1 DEF n
  <2> QED
    BY <1>4, <2>2 DEF n, PointType
<1>6. cash + trade.net \in Int
  <2>1. exit \in FillType
    BY <1>2, LiquidationInType
  <2> HIDE DEF exit
  <2>2. trade \in TradeType
    BY <1>2, <2>1, TradeInType
  <2> HIDE DEF trade
  <2> QED
    BY <1>2, <2>2, SMTT(20) DEF TradeType
<1>7. equityPoints' = Append(EarlierPoints, point)
  BY <1>1 DEF RecordEquity
<1> HIDE DEF trade
<1>8. point \in PointType
  BY <1>2, <1>5, <1>6, MarkInType, NonesInType
<1> HIDE DEF point
<1>9. /\ Len(equityPoints') = Len(EarlierPoints) + 1
      /\ \A i \in 1 .. Len(EarlierPoints) : equityPoints'[i] = EarlierPoints[i]
  BY <1>4, <1>7, <1>8, AppendProperties
<1> QED
  BY <1>2, <1>3, <1>4, <1>9

(* is open only after a second bar.                                        *)
LEMMA FinalizeKeepsFirst ==
  ASSUME Inductive, Settlement, Opening, Finalize
  PROVE  Opening'
<1>1. /\ lastBar # NoBar /\ UNCHANGED processed /\ pending' = NoOrder
      /\ FinalizeFlat \/ FinalizeOpen \/ RaiseInFinalize
  BY DEF Finalize
<1>2. CASE FinalizeFlat \/ RaiseInFinalize
  BY <1>1, <1>2 DEF FinalizeFlat, RaiseInFinalize, accounting, holding, Opening, IsOpen
<1>3. CASE FinalizeOpen
  <2>1. /\ Len(processed) > 1 /\ Len(equityPoints) > 1 /\ Len(equityPoints') = Len(equityPoints)
        /\ \A i \in 1 .. Len(equityPoints) - 1 : equityPoints'[i] = equityPoints[i]
    BY <1>3, LiquidationKeepsEarlier
  <2>2. Len(processed) \in Nat /\ Len(equityPoints) \in Nat
    BY DEF Inductive, TypeOK
  <2>3. 1 \in 1 .. Len(equityPoints) - 1
    BY <2>1, <2>2
  <2>4. Len(equityPoints') > 0 /\ equityPoints'[1] = equityPoints[1]
    BY <2>1, <2>2, <2>3
  <2> QED
    BY <1>1, <2>1, <2>2, <2>4 DEF Opening
<1> QED
  BY <1>1, <1>2, <1>3

(* Every step keeps the opening. *)
LEMMA OpeningStep ==
  ASSUME Inductive, Settlement, Loop, Told, Opening, [SessionNext]_sessionVars
  PROVE  Opening'
<1>1. /\ Len(prior) \in Nat /\ Len(input) \in Nat /\ Len(processed) \in Nat
  BY InputsAssumption DEF Loop, Inductive, TypeOK
<1>2. CASE ConsumeBar
  <2> DEFINE n == Len(prior) + 1
  <2>1. n <= Len(input) /\ ProcessBar(input[n], n)
    BY <1>2 DEF ConsumeBar
  <2>2. input[n] \in Bars /\ n \in Times
    BY <2>1, NextBar
  <2> HIDE DEF n
  <2> QED
    BY <1>1, <2>1, <2>2, FirstBarIsFlat, LaterBarKeepsFirst
<1>3. ASSUME NEW intent \in Answers, OnBarReturnsIntent(intent)
      PROVE  Opening'
  <2>1. Len(processed) > 0
    BY <1>1, <1>3 DEF OnBarReturnsIntent, Told
  <2>2. UNCHANGED <<processed, position, cash, equityPoints>>
    BY <1>3 DEF OnBarReturnsIntent, SubmitDirect, SubmitRiskChecked, Submit, brokerVars, vars,
       accounting, holding
  <2> QED
    BY <2>1, <2>2 DEF Opening, IsOpen
<1>4. CASE FinalizeSession
  BY <1>4, FinalizeKeepsFirst DEF FinalizeSession
<1>5. CASE \/ Start \/ OnBarFails \/ OnBarReturnsNone \/ Finish \/ Stopped
           \/ UNCHANGED sessionVars
  <2>1. UNCHANGED <<processed, position, cash, equityPoints, pending>>
    BY <1>5 DEF Start, OnBarFails, OnBarReturnsNone, Finish, Stopped, sessionVars, brokerVars, vars,
       accounting, holding
  <2> QED
    BY <2>1 DEF Opening, IsOpen
<1> QED
  BY <1>2, <1>3, <1>4, <1>5 DEF SessionNext

(* No bar is open. *)
LEMMA InitOpening == SessionInit => Opening
<1> SUFFICES ASSUME SessionInit PROVE Opening
  OBVIOUS
<1>1. /\ pending = NoOrder /\ position = Flat /\ cash = StartingCash /\ processed = <<>>
  BY DEF SessionInit, Init
<1>2. Len(processed) = 0 /\ ~IsOpen
  BY <1>1 DEF IsOpen, Flat
<1> QED
  BY <1>1, <1>2 DEF Opening

(* A session starts flat. *)
THEOREM AlwaysOpening == SessionSpec => []Opening
<1>1. Inductive /\ Settlement /\ Loop /\ Told /\ Opening /\ [SessionNext]_sessionVars => Opening'
  BY OpeningStep
<1> QED
  BY <1>1, InitOpening, AlwaysLoop, AlwaysTold, SessionDrivesBroker, AlwaysInductive, AlwaysSettlement,
     PTL DEF SessionSpec

(* The largest fall of a curve is the distance of its trough from the peak *)
(* of that point, and no point lies further under its own peak.            *)
LEMMA FallsFromPeaks ==
  ASSUME NEW n \in Nat \ {0}, NEW curve \in [1 .. n -> Int], NEW peaks \in [1 .. n -> Int],
         NEW d \in DrawType, FallAfter(curve, n, d),
         \A i \in 1 .. n : \A j \in 1 .. i : curve[j] <= peaks[i],
         \A i \in 1 .. n : \E j \in 1 .. i : peaks[i] = curve[j]
  PROVE  /\ d.trough \in 1 .. n
         /\ \A i \in 1 .. n : peaks[i] - curve[i] <= d.amount
         /\ peaks[d.trough] - curve[d.trough] = d.amount /\ peaks[d.trough] = d.from
<1> DEFINE top == d.top
           trough == d.trough
           amount == d.amount
           from == d.from
<1>1. /\ top \in 1 .. n /\ trough \in top .. n /\ curve[top] - curve[trough] = amount
      /\ curve[top] = from
      /\ \A k \in 1 .. n : \A h \in 1 .. k : curve[h] - curve[k] <= amount
      /\ amount \in Int
  BY DEF FallAfter, DrawType
<1>2. \A i \in 1 .. n : curve[i] \in Int /\ peaks[i] \in Int
  OBVIOUS
<1>3. ASSUME NEW i \in 1 .. n
      PROVE  peaks[i] - curve[i] <= amount
  <2>1. PICK j \in 1 .. i : peaks[i] = curve[j]
    OBVIOUS
  <2> QED
    BY <1>1, <2>1
<1> HIDE DEF top, trough, amount, from
<1>4. peaks[trough] - curve[trough] = amount /\ peaks[trough] = from /\ trough \in 1 .. n
  <2>1. trough \in 1 .. n /\ top \in 1 .. trough /\ top \in 1 .. n
    BY <1>1
  <2>2. /\ curve[top] <= peaks[trough] /\ peaks[trough] - curve[trough] <= amount
        /\ curve[top] \in Int /\ peaks[trough] \in Int /\ curve[trough] \in Int
    BY <1>2, <1>3, <2>1
  <2> QED
    BY <1>1, <2>1, <2>2
<1> QED
  BY <1>3, <1>4 DEF trough, amount, from

(* adapter.py:63 and policy.py, observe_account: the policy sees every     *)
(* point but the one that the liquidation writes, and does not forget.     *)
Heeded ==
  settings.aware =>
    \A i \in 1 .. Len(equityPoints) - 1 : DrawdownReached(equityPoints[i]) => locked

(* No point is replaced but the last, and the lock is never released.      *)
LEMMA HeededStep ==
  ASSUME Inductive, Settlement, Opening, Locking', Heeded, [SessionNext]_sessionVars
  PROVE  Heeded'
<1>1. Len(equityPoints) \in Nat
  BY DEF Inductive, TypeOK
<1>2. ASSUME UNCHANGED <<settings, equityPoints>>, locked => locked'
      PROVE  Heeded'
  BY <1>2 DEF Heeded, DrawdownReached
<1>3. CASE ConsumeBar
  <2>1. ~finalized'
    BY <1>3 DEF ConsumeBar, ProcessBar, BarAccepted, outcome
  <2>2. \A i \in 1 .. Len(equityPoints') - 1 : i \in 1 .. Len(equityPoints')
    BY SMT
  <2> QED
    BY <2>1, <2>2 DEF Locking, LockedExactlyAfterDrawdown, Heeded
<1>4. ASSUME NEW intent \in Answers, OnBarReturnsIntent(intent)
      PROVE  Heeded'
  <2>1. CASE SubmitDirect(intent, lastBar.time)
    BY <1>2, <2>1 DEF SubmitDirect, Submit, accounting, policyVars
  <2>2. CASE SubmitRiskChecked(intent, lastBar.time)
    <3>1. UNCHANGED settings /\ (locked => locked')
      BY <2>2 DEF SubmitRiskChecked, Evaluate, LockedAfter
    <3>2. UNCHANGED equityPoints
      BY <2>2 DEF SubmitRiskChecked, Submit, brokerVars, vars, accounting
    <3> QED
      BY <1>2, <3>1, <3>2
  <2> QED
    BY <1>4, <2>1, <2>2 DEF OnBarReturnsIntent
<1>5. CASE FinalizeSession
  <2>1. Finalize /\ UNCHANGED <<settings, locked>>
    BY <1>5 DEF FinalizeSession, policyVars
  <2>2. CASE FinalizeFlat \/ RaiseInFinalize
    BY <1>2, <2>1, <2>2 DEF FinalizeFlat, RaiseInFinalize, accounting
  <2>3. CASE FinalizeOpen
    BY <2>1, <2>3, LiquidationKeepsEarlier DEF Heeded, DrawdownReached
  <2> QED
    BY <2>1, <2>2, <2>3 DEF Finalize
<1>6. CASE \/ Start \/ OnBarFails \/ OnBarReturnsNone \/ Finish \/ Stopped
           \/ UNCHANGED sessionVars
  BY <1>2, <1>6 DEF Start, OnBarFails, OnBarReturnsNone, Finish, Stopped, sessionVars, brokerVars, vars,
     policyVars, accounting
<1> QED
  BY <1>3, <1>4, <1>5, <1>6 DEF SessionNext

(* No point is recorded. *)
LEMMA InitHeeded == SessionInit => Heeded
<1> SUFFICES ASSUME SessionInit PROVE Heeded
  OBVIOUS
<1>1. Len(equityPoints) = 0
  BY EmptySeq DEF SessionInit, Init
<1>2. 1 .. 0 - 1 = {}
  BY SMT
<1> QED
  BY <1>1, <1>2 DEF Heeded

(* The policy heeds every point of a session but the last.                 *)
THEOREM AlwaysHeeded == SessionSpec => []Heeded
<1>1. Inductive /\ Settlement /\ Opening /\ Locking' /\ Heeded /\ [SessionNext]_sessionVars => Heeded'
  BY HeededStep
<1> QED
  BY <1>1, InitHeeded, AlwaysLocking, AlwaysOpening, SessionDrivesBroker, AlwaysInductive,
     AlwaysSettlement, PTL DEF SessionSpec

(* metrics.py, _drawdown_metrics, and broker.py, _record_equity: the       *)
(* drawdown a report scans the curve for, its amount and the peak of its   *)
(* percentage, is that of a point the broker recorded, no point is deeper, *)
(* and when it reaches the policy's limit before the last point the policy *)
(* is locked, for every input, strategy and policy.                        *)
THEOREM DrawdownsAgree == SessionSpec => []DrawdownAgreesWithPoints
<1>1. Inductive /\ Settlement /\ Clock /\ Opening /\ Heeded => DrawdownAgreesWithPoints
  <2> SUFFICES ASSUME Inductive, Settlement, Clock, Opening, Heeded, phase = "done"
               PROVE  DrawdownAgreesWithPoints
    BY DEF DrawdownAgreesWithPoints
  <2> DEFINE n == Len(equityPoints)
             curve == [i \in 1 .. n |-> equityPoints[i].equity]
             peaks == [i \in 1 .. n |-> equityPoints[i].peak]
             d == Drawdown(curve)
  <2>1. /\ result.equity = equityPoints /\ n \in Nat \ {0} /\ equityPoints \in Seq(PointType)
        /\ equityPoints[1].equity = StartingCash
    <3>1. finalized /\ Len(processed) > 0
      BY DEF Clock
    <3> QED
      BY <3>1 DEF Settlement, SettledWhenFinal, Inductive, TypeOK, Opening
  <2>2. curve \in [1 .. n -> Int] /\ peaks \in [1 .. n -> Int]
    <3>1. \A i \in 1 .. n : equityPoints[i] \in PointType
      BY <2>1
    <3> QED
      BY <3>1 DEF PointType
  <2>3. ASSUME NEW i \in 1 .. n, NEW j \in 1 .. i
        PROVE  curve[j] <= peaks[i]
    <3>1. equityPoints[i].peak >= equityPoints[j].equity /\ j \in 1 .. n
      BY <2>1 DEF Inductive, PeakIsRunningMaximum
    <3> QED
      BY <2>2, <3>1
  <2>4. ASSUME NEW i \in 1 .. n
        PROVE  \E j \in 1 .. i : peaks[i] = curve[j]
    <3>1. \E j \in 1 .. i : equityPoints[i].peak = equityPoints[j].equity
      <4>1. 1 \in 1 .. i
        BY <2>1
      <4> QED
        BY <2>1, <4>1 DEF Inductive, PeakIsRunningMaximum
    <3>2. \A j \in 1 .. i : j \in 1 .. n
      BY <2>1
    <3> QED
      BY <3>1, <3>2
  <2>5. d \in DrawType /\ FallAfter(curve, n, d)
    BY <2>1, <2>2, DrawdownIsSound
  <2>6. /\ d.trough \in 1 .. n
        /\ \A i \in 1 .. n : peaks[i] - curve[i] <= d.amount
        /\ peaks[d.trough] - curve[d.trough] = d.amount /\ peaks[d.trough] = d.from
    <3> HIDE DEF n, curve, peaks, d
    <3> QED
      BY <2>1, <2>2, <2>3, <2>4, <2>5, FallsFromPeaks
  <2>7. \A i \in 1 .. n : peaks[i] = equityPoints[i].peak /\ curve[i] = equityPoints[i].equity
    OBVIOUS
  <2>8. d = Drawdown([i \in 1 .. Len(equityPoints) |-> equityPoints[i].equity])
    OBVIOUS
  <2> DEFINE deepest == equityPoints[d.trough]
  <2>9. settings.aware /\ d.trough < n /\ DrawdownReached(deepest) => locked
    <3> DEFINE trough == d.trough
    <3>1. trough \in 1 .. n
      BY <2>6
    <3> HIDE DEF trough, curve, peaks, d
    <3>2. trough < n => trough \in 1 .. n - 1
      BY <2>1, <3>1
    <3> QED
      BY <3>2 DEF Heeded, trough
  <2>10. /\ \A i \in 1 .. n : equityPoints[i].peak - equityPoints[i].equity <= d.amount
         /\ deepest.peak - deepest.equity = d.amount /\ deepest.peak = d.from
    <3> HIDE DEF curve, peaks, d, n
    <3> QED
      BY <2>6, <2>7
  <2> HIDE DEF curve, peaks, d
  <2> QED
    BY <2>1, <2>8, <2>9, <2>10 DEF DrawdownAgreesWithPoints
<1> QED
  BY <1>1, AlwaysClock, AlwaysOpening, AlwaysHeeded, SessionDrivesBroker, AlwaysInductive,
     AlwaysSettlement, PTL
=============================================================================
