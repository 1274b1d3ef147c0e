------------------------------- MODULE Session -------------------------------
(***************************************************************************)
(* One run of a strategy over a broker (strategies/adapter.py): the loop   *)
(* of _run_session with the risk gate of RiskAwareStrategyAdapter between  *)
(* the strategy and the broker.  The strategy is external and may answer   *)
(* any callback with an exception, on_bar also with no intent or with any  *)
(* of Answers.  An exception raised anywhere ends the session without a    *)
(* result and leaves adapter, policy and broker as they then are.          *)
(***************************************************************************)
EXTENDS Broker, RiskPolicy, FiniteSets

CONSTANTS
  InputSequences,  \* the bar sequences a session may be given
  Answers          \* the OrderIntent values the strategy may return

(* _validate_session rejects an empty sequence; load_csv returns at least  *)
(* one bar.                                                                *)
ASSUME InputsAssumption ==
  \A s \in InputSequences : s \in Seq(Bars) /\ Len(s) > 0 /\ 1 .. Len(s) \subseteq Times

(* What the adapter submits: an answer, or what the policy makes of it.    *)
ASSUME AnswersAssumption ==
  /\ Answers \subseteq Intents
  /\ \A i \in Answers, p \in Policies :
       i.action # "CLOSE" /\ i.quantity = 0 => [i EXCEPT !.quantity = p.default] \in Intents

VARIABLES
  phase,    \* the statement of _run_session the thread is at
  input,    \* bar_sequence; the i-th bar has timestamp i
  prior,    \* prior_bars
  context   \* the StrategyContext of the latest callback

loopVars == <<phase, input, prior, context>>
brokerVars == vars
sessionVars == <<brokerVars, policyVars, loopVars>>

Phases == {"created", "bar", "on_bar", "finalize", "done", "failed"}

Count(s, Test(_)) == Cardinality({i \in DOMAIN s : Test(s[i])})
IsAccepted(d) == d.reason = "ACCEPTED"
IsRejected(d) == d.reason # "ACCEPTED"

(* _broker_counts and _risk_counts: accepted and rejected so far. *)
Counts ==
  LET log == IF settings.aware THEN riskDecisions ELSE admissions
  IN <<Count(log, IsAccepted), Count(log, IsRejected)>>

StrategyContext(t, p, a, counts, bars) ==
  [time |-> t, position |-> p, account |-> a, accepted |-> counts[1], rejected |-> counts[2],
   prior |-> bars]

(* The session builder of session.py: fresh broker, policy and adapter. *)
SessionInit ==
  /\ Init
  /\ PolicyInit
  /\ input \in InputSequences
  /\ phase = "created"
  /\ prior = <<>>
  /\ context = StrategyContext(0, Flat, account, <<0, 0>>, <<>>)

(* on_start with the initial context. *)
Start ==
  /\ phase = "created"
  /\ phase' \in {"bar", "failed"}
  /\ UNCHANGED <<brokerVars, policyVars, input, prior, context>>

(* The context of on_bar, built after the bar was processed. *)
ContextBeforeBar(n) ==  \* slip: position and account from before the bar
  StrategyContext(n, position, account, Counts, prior)

BarContext(n) == StrategyContext(n, position', account', Counts, prior)

(* The head of the loop: process_bar, then observe_risk_account, then the  *)
(* context for on_bar.  An exception in process_bar reaches neither.       *)
ConsumeBar ==
  LET n == Len(prior) + 1
  IN /\ phase = "bar"
     /\ n <= Len(input)
     /\ ProcessBar(input[n], n)
     /\ IF BarCompletes(Stamped(input[n], n))
        THEN /\ ObserveAccount(account')
             /\ context' = BarContext(n)
             /\ phase' = "on_bar"
        ELSE phase' = "failed" /\ UNCHANGED <<policyVars, context>>
     /\ UNCHANGED <<input, prior>>

(* The callback raises, or returns neither None nor an OrderIntent. *)
OnBarFails ==
  /\ phase = "on_bar"
  /\ phase' = "failed"
  /\ UNCHANGED <<brokerVars, policyVars, input, prior, context>>

EndOfIteration ==
  /\ prior' = Append(prior, input[Len(prior) + 1])
  /\ phase' = "bar"
  /\ UNCHANGED <<input, context>>

OnBarReturnsNone ==
  /\ phase = "on_bar"
  /\ EndOfIteration
  /\ UNCHANGED <<brokerVars, policyVars>>

(* _submit_direct. *)
SubmitDirect(intent, t) ==
  /\ ~settings.aware
  /\ Submit(intent, t)
  /\ UNCHANGED policyVars

(* _submit_risk_checked: every decision is kept, the accepted ones reach   *)
(* the broker with their effective intent.                                 *)
SubmitUnnormalized(intent, t) ==  \* slip: the strategy's own intent is submitted
  /\ settings.aware
  /\ Evaluate(intent, account)
  /\ IF RiskReason(intent, account) = "ACCEPTED"
     THEN Submit(intent, t)
     ELSE UNCHANGED brokerVars

SubmitRiskChecked(intent, t) ==
  /\ settings.aware
  /\ Evaluate(intent, account)
  /\ IF RiskReason(intent, account) = "ACCEPTED"
     THEN Submit(Effective(intent), t)
     ELSE UNCHANGED brokerVars

OnBarReturnsIntent(intent) ==
  /\ phase = "on_bar"
  /\ SubmitDirect(intent, lastBar.time) \/ SubmitRiskChecked(intent, lastBar.time)
  /\ EndOfIteration

(* on_finish with the final context, which has every bar as prior bar. *)
FinishOrRetry ==  \* slip: an error of on_finish runs the callbacks again
  /\ phase = "bar"
  /\ Len(prior) = Len(input)
  /\ context' = StrategyContext(Len(input), position, account, Counts, prior)
  /\ phase' \in {"finalize", "created"}
  /\ UNCHANGED <<brokerVars, policyVars, input, prior>>

Finish ==
  /\ phase = "bar"
  /\ Len(prior) = Len(input)
  /\ context' = StrategyContext(Len(input), position, account, Counts, prior)
  /\ phase' \in {"finalize", "failed"}
  /\ UNCHANGED <<brokerVars, policyVars, input, prior>>

FinalizeSession ==
  /\ phase = "finalize"
  /\ Finalize
  /\ phase' = IF FinalizeCompletes THEN "done" ELSE "failed"
  /\ UNCHANGED <<policyVars, input, prior, context>>

(* The call has returned or raised: nothing follows. *)
Stopped == phase \in {"done", "failed"} /\ UNCHANGED sessionVars

SessionNext ==
  \/ Start
  \/ ConsumeBar
  \/ OnBarFails
  \/ OnBarReturnsNone
  \/ \E intent \in Answers : OnBarReturnsIntent(intent)
  \/ Finish
  \/ FinalizeSession
  \/ Stopped

SessionSpec == SessionInit /\ [][SessionNext]_sessionVars

(* One thread runs the loop to its end and every callback returns.  Every  *)
(* step moves phase, and the runs check that a session that has not ended  *)
(* has a step (deadlock): this is the fairness of SessionNext, stated on   *)
(* the one variable TLC has to look at.                                    *)
FairSession ==
  SessionSpec /\ WF_phase(phase \notin {"done", "failed"} /\ phase' \in Phases)

-----------------------------------------------------------------------------
(* RunCounts as BacktestRunner._build_result fills it in. *)
RunCounts ==
  [intentsAccepted |-> Count(riskDecisions, IsAccepted),
   intentsRejected |-> Count(riskDecisions, IsRejected),
   fills |-> Len(result.fills),
   completedTrades |-> Len(result.trades),
   admissionsAccepted |-> Count(result.admissions, IsAccepted),
   admissionsRejected |-> Count(result.admissions, IsRejected)]
=============================================================================
