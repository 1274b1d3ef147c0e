------------------------------ MODULE MCMetrics ------------------------------
(***************************************************************************)
(* Every series up to a bound, grown one value at a time and read both as  *)
(* an equity curve and as the net P&L of trades: the one-pass loops of     *)
(* reporting/metrics.py against definitions that look at all pairs and all *)
(* segments.                                                               *)
(***************************************************************************)
EXTENDS Metrics

CONSTANTS Values, MaxLength

ASSUME ValuesAssumption == Values \subseteq Int

(* Falls, returns to a level, and wins, losses and breakeven trades.        *)
MCValues == -2 .. 2

VARIABLE series

MCInit == \E v \in Values : series = <<v>>
Grow == Len(series) < MaxLength /\ \E v \in Values : series' = Append(series, v)
MCSpec == MCInit /\ [][Grow]_series

Points == 1 .. Len(series)
Segments == {s \in Points \X Points : s[1] <= s[2]}
LengthOf(s) == s[2] - s[1] + 1
IsLongest(n, Good(_)) ==
  /\ n = 0 \/ \E s \in Segments : LengthOf(s) = n /\ \A k \in s[1] .. s[2] : Good(k)
  /\ \A s \in Segments : (\A k \in s[1] .. s[2] : Good(k)) => LengthOf(s) <= n

(* The drawdown reported is the largest fall between any two points of the *)
(* curve, from the highest point before it to the first point that low;    *)
(* its percentage is that of the equity it fell from, and no fall of the   *)
(* same amount has a larger one (a smaller fall may: 100, 80, 200, 170);   *)
(* and the longest drawdown is the longest run of points below an earlier  *)
(* one.                                                                    *)
DrawdownMatchesCurve ==
  LET d == Drawdown(series)
      Underwater(k) == \E h \in 1 .. k : series[h] > series[k]
  IN /\ \A s \in Segments : series[s[1]] - series[s[2]] <= d.amount
     /\ series[d.top] - series[d.trough] = d.amount /\ d.from = series[d.top]
     /\ \A s \in Segments : series[s[1]] - series[s[2]] = d.amount => d.from <= series[s[1]]
     /\ d.top <= d.trough
     /\ \A i \in 1 .. d.trough - 1 : \A h \in 1 .. i : series[h] - series[i] < d.amount
     /\ IsLongest(d.longest, Underwater)

(* A drawdown has recovered when the curve is back at the peak it fell     *)
(* from, after a stretch that stayed below it and never fell deeper.       *)
RecoveryIsFirstReturn ==
  LET d == Drawdown(series)
      r == Recovery(series)
      end == IF r.recovered = "YES" THEN d.trough + r.bars - 1 ELSE Len(series)
  IN /\ r.recovered = "NO_DRAWDOWN" <=> \A k \in Points : \A h \in 1 .. k : series[h] <= series[k]
     /\ r.recovered # "NO_DRAWDOWN" =>
          \A k \in d.top + 1 .. end : series[d.trough] <= series[k] /\ series[k] <= series[d.top]
     /\ r.recovered # "NO_DRAWDOWN" => \A k \in d.trough .. end : series[k] < series[d.top]
     /\ r.recovered = "YES" => series[d.trough + r.bars] >= series[d.top]

(* The streaks are the longest runs of winning and of losing trades. *)
StreaksAreLongestRuns ==
  LET s == Streaks(series)
      Won(k) == series[k] > 0
      Lost(k) == series[k] < 0
  IN IsLongest(s.longestWins, Won) /\ IsLongest(s.longestLosses, Lost)
=============================================================================
