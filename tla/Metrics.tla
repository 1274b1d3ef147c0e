------------------------------- MODULE Metrics -------------------------------
(***************************************************************************)
(* The metrics of a finished run (reporting/metrics.py) that scan a whole  *)
(* series, and the checks that decide whether a result may be reported     *)
(* (reporting/contracts.py, validate_report_input).  Series are sequences: *)
(* of equity values, of the net P&L of the trades, of points, trades and   *)
(* fills as the broker records them.                                       *)
(***************************************************************************)
EXTENDS Integers, Sequences, Sums

-----------------------------------------------------------------------------
(* _drawdown_metrics.  The loop's local variables after some points:       *)
(* peakAt, top and trough are indices into the curve.  The percentage of   *)
(* the largest amount (maximum_pct) is 100 * amount / from: from is the    *)
(* peak_equity that it was divided by.                                     *)

StartOf(curve) ==
  [peak |-> curve[1], peakAt |-> 1, amount |-> 0, from |-> curve[1],
   top |-> 1, trough |-> 1, duration |-> 0, longest |-> 0]

PeakKept(d, equity, i) ==  \* slip: peak_index stays behind
  IF equity > d.peak THEN [d EXCEPT !.peak = equity, !.duration = 0] ELSE d

(* A new peak ends the current drawdown. *)
AtPeak(d, equity, i) ==
  IF equity > d.peak THEN [d EXCEPT !.peak = equity, !.peakAt = i, !.duration = 0] ELSE d

Below(d, equity, i) ==
  LET longer == [d EXCEPT !.duration = @ + 1,
                          !.longest = IF d.duration + 1 > @ THEN d.duration + 1 ELSE @]
  IN IF d.peak - equity > d.amount
     THEN [longer EXCEPT !.amount = d.peak - equity, !.from = d.peak, !.top = d.peakAt, !.trough = i]
     ELSE longer

Observe(d, equity, i) ==
  LET now == AtPeak(d, equity, i)
  IN IF equity < now.peak THEN Below(now, equity, i) ELSE [now EXCEPT !.duration = 0]

Drawdown(curve) ==
  LET after[i \in 0 .. Len(curve)] ==
        IF i = 0 THEN StartOf(curve) ELSE Observe(after[i - 1], curve[i], i)
  IN after[Len(curve)]

(* The recovery mapping: the first point after the trough that is back at  *)
(* the prior peak.                                                         *)
RecoveredAbove(curve) ==  \* slip: a return to the peak is not enough
  LET d == Drawdown(curve)
      back == {j \in d.trough + 1 .. Len(curve) : curve[j] > curve[d.top]}
  IN IF d.amount = 0 THEN [recovered |-> "NO_DRAWDOWN", bars |-> 0]
     ELSE IF back = {} THEN [recovered |-> "NO", bars |-> 0]
     ELSE [recovered |-> "YES",
           bars |-> (CHOOSE j \in back : \A k \in back : j <= k) - d.trough]

Recovery(curve) ==
  LET d == Drawdown(curve)
      back == {j \in d.trough + 1 .. Len(curve) : curve[j] >= curve[d.top]}
  IN IF d.amount = 0 THEN [recovered |-> "NO_DRAWDOWN", bars |-> 0]
     ELSE IF back = {} THEN [recovered |-> "NO", bars |-> 0]
     ELSE [recovered |-> "YES",
           bars |-> (CHOOSE j \in back : \A k \in back : j <= k) - d.trough]

-----------------------------------------------------------------------------
(* _streaks: a breakeven trade ends both streaks.                          *)

BreakevenIgnored(s, net) ==  \* slip: a breakeven trade ends no streak
  CASE net > 0 -> [s EXCEPT !.wins = @ + 1, !.losses = 0,
                            !.longestWins = IF s.wins + 1 > @ THEN s.wins + 1 ELSE @]
    [] net < 0 -> [s EXCEPT !.losses = @ + 1, !.wins = 0,
                            !.longestLosses = IF s.losses + 1 > @ THEN s.losses + 1 ELSE @]
    [] net = 0 -> s

NextStreak(s, net) ==
  CASE net > 0 -> [s EXCEPT !.wins = @ + 1, !.losses = 0,
                            !.longestWins = IF s.wins + 1 > @ THEN s.wins + 1 ELSE @]
    [] net < 0 -> [s EXCEPT !.losses = @ + 1, !.wins = 0,
                            !.longestLosses = IF s.losses + 1 > @ THEN s.losses + 1 ELSE @]
    [] net = 0 -> [s EXCEPT !.wins = 0, !.losses = 0]

Streaks(nets) ==
  LET after[i \in 0 .. Len(nets)] ==
        IF i = 0 THEN [wins |-> 0, losses |-> 0, longestWins |-> 0, longestLosses |-> 0]
        ELSE NextStreak(after[i - 1], nets[i])
  IN after[Len(nets)]

-----------------------------------------------------------------------------
(* validate_report_input: flat, a curve in strict time order, and its last *)
(* point the final account.                                                *)
Reportable(result) ==
  /\ result.position.quantity = 0
  /\ Len(result.equity) > 0
  /\ \A i \in 2 .. Len(result.equity) : result.equity[i - 1].time < result.equity[i].time
  /\ result.equity[Len(result.equity)].equity = result.account.equity

(* _validate_trade_reconciliation. *)
Commissions(records) == Total([i \in 1 .. Len(records) |-> records[i].commission])
Slippages(records) == Total([i \in 1 .. Len(records) |-> records[i].slippage])

TradesReconcile(result) ==
  /\ \A i \in 1 .. Len(result.trades) :
       LET t == result.trades[i] IN t.net = t.gross - t.commission - t.slippage
  /\ Commissions(result.fills) = Commissions(result.trades)
  /\ Slippages(result.fills) = Slippages(result.trades)

(* The reconciliations of calculate_metrics. *)
Nets(completed) == Total([i \in 1 .. Len(completed) |-> completed[i].net])

Reconciled(result, startingCash) ==
  /\ TradesReconcile(result)
  /\ result.equity[Len(result.equity)].equity - startingCash = Nets(result.trades)
=============================================================================
