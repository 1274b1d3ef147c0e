---------------------------- MODULE SessionSafety ----------------------------
(* What one run of a strategy guarantees, across adapter, policy and broker. *)
EXTENDS Session, Metrics

(* The lock is taken exactly when some bar closed with the configured      *)
(* drawdown, whether or not the strategy asked for anything on that bar    *)
(* and whatever the equity did since.                                      *)
LockedExactlyAfterDrawdown ==
  ~finalized =>
    (locked <=> settings.aware /\ \E i \in 1 .. Len(equityPoints) : DrawdownReached(equityPoints[i]))

(* USER_GUIDE.md:147-150: after the lock no position is ever opened, also  *)
(* not by an intent accepted on an earlier bar.                            *)
NoEntryAfterLock == [][locked => positionSeq' = positionSeq]_sessionVars

(* The position the broker holds obeys the policy that approved its entry  *)
(* a bar earlier: never above the maximum quantity, never short when       *)
(* shorts are disabled.                                                    *)
ExposureWithinPolicy ==
  settings.aware => /\ Abs(position.quantity) <= settings.maxQuantity
                    /\ position.quantity < 0 => settings.allowShort

(* The broker sees the accepted decisions, all of them, in order and with  *)
(* the effective intent, and nothing else.                                 *)
AdmissionsFollowDecisions ==
  settings.aware =>
    /\ Len(admissions) = Count(riskDecisions, IsAccepted)
    /\ \A i \in 1 .. Len(riskDecisions) :
         LET decision == riskDecisions[i]
             k == Cardinality({j \in 1 .. i : IsAccepted(riskDecisions[j])})
         IN IsAccepted(decision) =>
              /\ admissions[k].intent = decision.effective
              /\ decision.effective = Effective(decision.intent)

(* USER_GUIDE.md:166: "A strategy decision never fills on its decision     *)
(* candle", but at the open of the next.                                   *)
FillsOnTheNextCandle ==
  \A i \in 1 .. Len(fills) :
    fills[i].reason = "INTENT" =>
      fills[i].filled = fills[i].decided + 1 /\ fills[i].price = input[fills[i].filled].open

(* on_bar sees the bars before the current one and no other, together with *)
(* the account and position as they are after the current bar, not before. *)
ContextIsOfThisBar ==
  phase = "on_bar" =>
    /\ context.prior = SubSeq(input, 1, context.time - 1)
    /\ context.time = Len(processed)
    /\ context.position = position
    /\ context.account.equity = equityPoints[Len(equityPoints)].equity
    /\ context.account.peak = equityPoints[Len(equityPoints)].peak
    /\ context.accepted + context.rejected =
         IF settings.aware THEN Len(riskDecisions) ELSE Len(admissions)

(* The counts of a completed run add up.  Every accepted intent was filled *)
(* or, if it was decided on the last bar, cancelled; every trade took two  *)
(* fills; and what the policy accepted, and nothing else, came to the      *)
(* broker.                                                                 *)
FilledOrCancelled ==
  phase = "done" =>
    LET unfilled == {k \in 1 .. Len(admissions) :
                       /\ admissions[k].reason = "ACCEPTED"
                       /\ \A i \in 1 .. Len(result.fills) : result.fills[i].order # admissions[k].order}
    IN /\ result.cancelled <=> unfilled # {}
       /\ \A k \in unfilled : admissions[k].decided = Len(input)
       /\ RunCounts.fills = 2 * RunCounts.completedTrades
       /\ settings.aware =>
            RunCounts.admissionsAccepted + RunCounts.admissionsRejected = RunCounts.intentsAccepted

(* validate_report_input and the reconciliations of calculate_metrics      *)
(* never refuse what a completed session returns: its curve ends in its    *)
(* account, and fills, trades and curve agree on costs and on net P&L.     *)
ReportAccepted ==
  phase = "done" => Reportable(result) /\ Reconciled(result, StartingCash)

(* The drawdown calculate_metrics finds by scanning the curve is that of a *)
(* point the broker recorded, with its amount and with the peak the        *)
(* percentage is of, and no point lies further under its own peak.  So a   *)
(* report whose percentage reaches the limit of the policy means that the  *)
(* policy is locked, unless that point is the last, which the liquidation  *)
(* may write after the policy's last look.  A lock does not mean such a    *)
(* report: the policy compares the percentage of every point, the report   *)
(* has the one of the largest amount (100, 80, 200, 170 locks at 20 % and  *)
(* reports 15 %).                                                          *)
DrawdownAgreesWithPoints ==
  phase = "done" =>
    LET points == result.equity
        d == Drawdown([i \in 1 .. Len(points) |-> points[i].equity])
        deepest == points[d.trough]
    IN /\ \A i \in 1 .. Len(points) : points[i].peak - points[i].equity <= d.amount
       /\ deepest.peak - deepest.equity = d.amount /\ deepest.peak = d.from
       /\ settings.aware /\ d.trough < Len(points) /\ DrawdownReached(deepest) => locked

(* Every run ends, with a result or with an error. *)
Terminates == <>(phase \in {"done", "failed"})
=============================================================================
