----------------------------- MODULE RiskPolicy -----------------------------
(***************************************************************************)
(* BasicRiskPolicy (risk/policy.py): quantity normalisation, the order of  *)
(* the entry checks and the permanent drawdown lock.  A policy observes    *)
(* the account after every bar and again when it evaluates an intent.      *)
(***************************************************************************)
EXTENDS Integers, Sequences

CONSTANT Policies  \* the RiskSettings a session may run with

(* RiskSettings.__post_init__.  maxDrawdown is in percent, 0 stands for    *)
(* None: no lock.  aware is FALSE for a session without a policy, driven   *)
(* by StrategyAdapter instead of RiskAwareStrategyAdapter.                 *)
PolicyType ==
  [aware : BOOLEAN, default : Nat \ {0}, allowShort : BOOLEAN, maxQuantity : Nat \ {0},
   maxDrawdown : Nat]

ASSUME PoliciesAssumption ==
  /\ Policies \subseteq PolicyType
  /\ \A p \in Policies : p.default <= p.maxQuantity

VARIABLES
  settings,       \* the policy's RiskSettings
  locked,         \* _drawdown_locked
  riskDecisions   \* the adapter's _risk_decisions

policyVars == <<settings, locked, riskDecisions>>

PolicyInit ==
  /\ settings \in Policies
  /\ locked = FALSE
  /\ riskDecisions = <<>>

(* AccountSnapshot.drawdown_pct >= max_drawdown_pct, the division cleared: *)
(* the peak is positive.                                                   *)
DrawdownReached(account) ==
  settings.maxDrawdown # 0 /\ (account.peak - account.equity) * 100 >= settings.maxDrawdown * account.peak

(* _observe_account: the lock is taken, never released. *)
LockForgotten(account) == DrawdownReached(account)  \* slip: a recovery unlocks
LockedAfter(account) == locked \/ DrawdownReached(account)

ObserveAccount(account) ==
  /\ locked' = (IF settings.aware THEN LockedAfter(account) ELSE locked)
  /\ UNCHANGED <<settings, riskDecisions>>

(* _normalize: an entry without quantity takes the default. *)
Effective(intent) ==
  IF intent.action = "CLOSE" \/ intent.quantity # 0 THEN intent
  ELSE [intent EXCEPT !.quantity = settings.default]

ShortsUnchecked(intent, account) ==  \* slip: allow_short is ignored
  IF intent.action = "CLOSE" THEN "ACCEPTED"
  ELSE IF Effective(intent).quantity > settings.maxQuantity THEN "QUANTITY_EXCEEDED"
  ELSE IF LockedAfter(account) THEN "DRAWDOWN_LOCKED"
  ELSE "ACCEPTED"

LockUnchecked(intent, account) ==  \* slip: the lock is recorded and not applied
  IF intent.action = "CLOSE" THEN "ACCEPTED"
  ELSE IF intent.action = "SELL" /\ ~settings.allowShort THEN "SHORTS_DISABLED"
  ELSE IF Effective(intent).quantity > settings.maxQuantity THEN "QUANTITY_EXCEEDED"
  ELSE "ACCEPTED"

RiskReason(intent, account) ==
  IF intent.action = "CLOSE" THEN "ACCEPTED"
  ELSE IF intent.action = "SELL" /\ ~settings.allowShort THEN "SHORTS_DISABLED"
  ELSE IF Effective(intent).quantity > settings.maxQuantity THEN "QUANTITY_EXCEEDED"
  ELSE IF LockedAfter(account) THEN "DRAWDOWN_LOCKED"
  ELSE "ACCEPTED"

Evaluate(intent, account) ==
  /\ locked' = LockedAfter(account)
  /\ riskDecisions' = Append(riskDecisions,
       [intent |-> intent, effective |-> Effective(intent), reason |-> RiskReason(intent, account)])
  /\ UNCHANGED settings
=============================================================================
