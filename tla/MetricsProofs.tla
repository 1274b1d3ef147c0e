---------------------------- MODULE MetricsProofs ----------------------------
(***************************************************************************)
(* The drawdown, the recovery and the streaks of every series of every     *)
(* length: the one-pass loops find what a look at all pairs of points and  *)
(* at all runs of trades finds.                                            *)
(***************************************************************************)
EXTENDS MCMetrics, SeriesProofs

(* A series always has a point. *)
Series == series \in Seq(Int) /\ Len(series) > 0

(* The series always has a point (compute_metrics). *)
THEOREM AlwaysSeries == MCSpec => []Series
<1>1. MCInit => Series
  BY ValuesAssumption DEF MCInit, Series
<1>2. Series /\ [Grow]_series => Series'
  <2> SUFFICES ASSUME Series, [Grow]_series PROVE Series'
    OBVIOUS
  <2>1. CASE Grow
    <3>1. PICK v \in Values : series' = Append(series, v)
      BY <2>1 DEF Grow
    <3>2. v \in Int
      BY ValuesAssumption
    <3>3. Append(series, v) \in Seq(Int) /\ Len(Append(series, v)) = Len(series) + 1
      BY <3>2, AppendProperties DEF Series
    <3> QED
      BY <3>1, <3>3 DEF Series
  <2>2. CASE UNCHANGED series
    BY <2>2 DEF Series
  <2> QED
    BY <2>1, <2>2
<1> QED
  BY <1>1, <1>2, PTL DEF MCSpec

(* So it is a curve for the lemmas. *)
LEMMA SeriesIsCurve ==
  ASSUME Series
  PROVE  /\ Len(series) \in Nat \ {0} /\ series \in [1 .. Len(series) -> Int]
         /\ Points = 1 .. Len(series)
BY DEF Series, Points

(* A run of indices in U, in the words of the module that TLC reads. *)
LEMMA RunIsLongest ==
  ASSUME NEW U, NEW r, NEW l, Series, RunAt(U, Len(series), r, l)
  PROVE  /\ l = 0 \/ \E s \in Segments : LengthOf(s) = l /\ \A k \in s[1] .. s[2] : k \in U
         /\ \A s \in Segments : (\A k \in s[1] .. s[2] : k \in U) => LengthOf(s) <= l
<1> DEFINE n == Len(series)
<1>1. n \in Nat \ {0} /\ Points = 1 .. n
  BY SeriesIsCurve
<1> HIDE DEF n
<1>2. RunAt(U, n, r, l)
  BY DEF n
<1>3. ASSUME l # 0
      PROVE  \E s \in Segments : LengthOf(s) = l /\ \A k \in s[1] .. s[2] : k \in U
  <2>1. PICK a \in 1 .. n : \E b \in a .. n : b - a + 1 = l /\ \A k \in a .. b : k \in U
    BY <1>2, <1>3 DEF RunAt
  <2>2. PICK b \in a .. n : b - a + 1 = l /\ \A k \in a .. b : k \in U
    BY <2>1
  <2>3. <<a, b>> \in Segments
    BY <1>1 DEF Segments
  <2>4. LengthOf(<<a, b>>) = l /\ \A k \in <<a, b>>[1] .. <<a, b>>[2] : k \in U
    BY <2>2 DEF LengthOf
  <2> QED
    BY <2>3, <2>4
<1>4. ASSUME NEW s \in Segments, \A k \in s[1] .. s[2] : k \in U
      PROVE  LengthOf(s) <= l
  <2>1. s[1] \in 1 .. n /\ s[2] \in s[1] .. n
    BY <1>1 DEF Segments
  <2>2. s[2] - s[1] + 1 <= l
    BY <1>2, <1>4, <2>1 DEF RunAt
  <2> QED
    BY <2>2 DEF LengthOf
<1> QED
  BY <1>3, <1>4

(* The streaks reported are the longest runs of winning and losing trades, *)
(* whatever the trades.                                                    *)
THEOREM StreaksCorrect == MCSpec => []StreaksAreLongestRuns
<1>1. Series => StreaksAreLongestRuns
  <2> SUFFICES ASSUME Series PROVE StreaksAreLongestRuns
    OBVIOUS
  <2> DEFINE n == Len(series)
             s == Streaks(series)
             W == Winning(series, n)
             L == Losing(series, n)
  <2>1. n \in Nat /\ series \in [1 .. n -> Int]
    BY SeriesIsCurve
  <2>2. RunAt(W, n, s.wins, s.longestWins) /\ RunAt(L, n, s.losses, s.longestLosses)
    BY <2>1, StreaksAreRuns
  <2>3. \A g \in Segments : \A k \in g[1] .. g[2] : (k \in W <=> series[k] > 0) /\ (k \in L <=> series[k] < 0)
    <3> SUFFICES ASSUME NEW g \in Segments, NEW k \in g[1] .. g[2]
                 PROVE  (k \in W <=> series[k] > 0) /\ (k \in L <=> series[k] < 0)
      OBVIOUS
    <3>1. k \in 1 .. n
      BY <2>1 DEF Segments, Points
    <3> QED
      BY <3>1 DEF Winning, Losing
  <2> HIDE DEF n, W, L
  <2>4. /\ s.longestWins = 0
             \/ \E g \in Segments : LengthOf(g) = s.longestWins /\ \A k \in g[1] .. g[2] : k \in W
        /\ \A g \in Segments : (\A k \in g[1] .. g[2] : k \in W) => LengthOf(g) <= s.longestWins
    BY <2>2, RunIsLongest DEF n
  <2>5. /\ s.longestLosses = 0
             \/ \E g \in Segments : LengthOf(g) = s.longestLosses /\ \A k \in g[1] .. g[2] : k \in L
        /\ \A g \in Segments : (\A k \in g[1] .. g[2] : k \in L) => LengthOf(g) <= s.longestLosses
    BY <2>2, RunIsLongest DEF n
  <2> HIDE DEF s
  <2>6. /\ s.longestWins = 0
             \/ \E g \in Segments : LengthOf(g) = s.longestWins /\ \A k \in g[1] .. g[2] : series[k] > 0
        /\ \A g \in Segments : (\A k \in g[1] .. g[2] : series[k] > 0) => LengthOf(g) <= s.longestWins
    BY <2>3, <2>4
  <2>7. /\ s.longestLosses = 0
             \/ \E g \in Segments : LengthOf(g) = s.longestLosses /\ \A k \in g[1] .. g[2] : series[k] < 0
        /\ \A g \in Segments : (\A k \in g[1] .. g[2] : series[k] < 0) => LengthOf(g) <= s.longestLosses
    BY <2>3, <2>5
  <2> QED
    BY <2>6, <2>7 DEF StreaksAreLongestRuns, IsLongest, s
<1> QED
  BY <1>1, AlwaysSeries, PTL

(* The drawdown reported is the largest fall of the curve, the first of    *)
(* that size and the one of the largest percentage of that size, and the   *)
(* longest drawdown is the longest run below a peak, whatever the curve.   *)
THEOREM DrawdownCorrect == MCSpec => []DrawdownMatchesCurve
<1>1. Series => DrawdownMatchesCurve
  <2> SUFFICES ASSUME Series PROVE DrawdownMatchesCurve
    OBVIOUS
  <2> DEFINE n == Len(series)
             d == Drawdown(series)
             U == SunkAt(series, n)
             Low(k) == \E h \in 1 .. k : series[h] > series[k]
  <2>1. n \in Nat \ {0} /\ series \in [1 .. n -> Int] /\ Points = 1 .. n
    BY SeriesIsCurve
  <2>2. d \in DrawType /\ FallAfter(series, n, d) /\ RunAt(U, n, d.duration, d.longest)
    BY <2>1, DrawdownIsSound
  <2>3. \A g \in Segments : \A k \in g[1] .. g[2] : k \in U <=> Low(k)
    <3> SUFFICES ASSUME NEW g \in Segments, NEW k \in g[1] .. g[2]
                 PROVE  k \in U <=> Low(k)
      OBVIOUS
    <3>1. k \in 1 .. n
      BY <2>1 DEF Segments
    <3> QED
      BY <3>1 DEF SunkAt
  <2> HIDE DEF n, U, d, Low
  <2>4. /\ d.longest = 0
             \/ \E g \in Segments : LengthOf(g) = d.longest /\ \A k \in g[1] .. g[2] : k \in U
        /\ \A g \in Segments : (\A k \in g[1] .. g[2] : k \in U) => LengthOf(g) <= d.longest
    BY <2>2, RunIsLongest DEF n
  <2>5. /\ d.longest = 0
             \/ \E g \in Segments : LengthOf(g) = d.longest /\ \A k \in g[1] .. g[2] : Low(k)
        /\ \A g \in Segments : (\A k \in g[1] .. g[2] : Low(k)) => LengthOf(g) <= d.longest
    BY <2>3, <2>4
  <2>6. \A g \in Segments : series[g[1]] - series[g[2]] <= d.amount
    <3> SUFFICES ASSUME NEW g \in Segments PROVE series[g[1]] - series[g[2]] <= d.amount
      OBVIOUS
    <3>1. g[2] \in 1 .. n /\ g[1] \in 1 .. g[2]
      BY <2>1 DEF Segments
    <3> QED
      BY <2>2, <3>1 DEF FallAfter
  <2>7. /\ series[d.top] - series[d.trough] = d.amount /\ d.from = series[d.top]
        /\ d.top <= d.trough
        /\ \A i \in 1 .. d.trough - 1 : \A h \in 1 .. i : series[h] - series[i] < d.amount
    BY <2>2 DEF FallAfter
  <2>8. ASSUME NEW g \in Segments, series[g[1]] - series[g[2]] = d.amount
        PROVE  d.from <= series[g[1]]
    <3> DEFINE start == g[1]
               end == g[2]
               top == d.top
               trough == d.trough
               amount == d.amount
    <3>1. /\ end \in 1 .. n /\ start \in 1 .. end /\ start \in 1 .. n
          /\ series[start] - series[end] = amount
      BY <2>1, <2>8 DEF Segments
    <3>2. /\ top \in 1 .. n /\ trough \in top .. n /\ d.from = series[top] /\ amount \in Int
          /\ \A k \in 1 .. n : \A h \in 1 .. k : series[h] - series[k] <= amount
          /\ \A k \in 1 .. trough - 1 : \A h \in 1 .. k : series[h] - series[k] < amount
      BY <2>2 DEF FallAfter, DrawType
    <3> HIDE DEF start, end, top, trough, amount
    <3>3. series[start] \in Int /\ series[end] \in Int /\ series[top] \in Int
      BY <2>1, <3>1, <3>2
    <3>4. ~(end < trough)
      <4>1. SUFFICES ASSUME end < trough PROVE FALSE
        OBVIOUS
      <4>2. end \in 1 .. trough - 1
        BY <2>1, <3>1, <3>2, <4>1
      <4>3. series[start] - series[end] < amount
        BY <3>1, <3>2, <4>2
      <4> QED
        BY <3>1, <3>2, <4>3
    <3>5. top \in 1 .. end
      BY <2>1, <3>1, <3>2, <3>4
    <3>6. series[top] - series[end] <= amount
      BY <3>1, <3>2, <3>5
    <3> QED
      BY <3>1, <3>2, <3>3, <3>6 DEF start
  <2> QED
    BY <2>5, <2>6, <2>7, <2>8 DEF DrawdownMatchesCurve, IsLongest, d, Low
<1> QED
  BY <1>1, AlwaysSeries, PTL

(* A drawdown is reported as recovered at the first point back at the peak *)
(* it fell from, whatever the curve.                                       *)
THEOREM RecoveryCorrect == MCSpec => []RecoveryIsFirstReturn
<1>1. Series => RecoveryIsFirstReturn
  <2> SUFFICES ASSUME Series PROVE RecoveryIsFirstReturn
    OBVIOUS
  <2> DEFINE n == Len(series)
             d == Drawdown(series)
             r == Recovery(series)
             top == d.top
             trough == d.trough
             back == {j \in trough + 1 .. n : series[j] >= series[top]}
             first == CHOOSE j \in back : \A k \in back : j <= k
             end == IF r.recovered = "YES" THEN trough + r.bars - 1 ELSE n
  <2>1. n \in Nat \ {0} /\ series \in [1 .. n -> Int] /\ Points = 1 .. n
    BY SeriesIsCurve
  <2>2. d \in DrawType /\ FallAfter(series, n, d)
    BY <2>1, DrawdownIsSound
  <2>3. r = IF d.amount = 0 THEN [recovered |-> "NO_DRAWDOWN", bars |-> 0]
            ELSE IF back = {} THEN [recovered |-> "NO", bars |-> 0]
            ELSE [recovered |-> "YES", bars |-> first - trough]
    BY DEF Recovery
  <2>4. /\ top \in 1 .. n /\ trough \in top .. n /\ series[top] - series[trough] = d.amount
        /\ \A k \in 1 .. n : \A h \in 1 .. k : series[h] - series[k] <= d.amount
    BY <2>2 DEF FallAfter
  <2>5. d.amount \in Int
    BY <2>2 DEF DrawType
  <2>6. ASSUME back # {}
        PROVE  first \in back /\ \A k \in back : first <= k
    <3>1. back \in SUBSET Nat
      BY <2>4
    <3> HIDE DEF back
    <3>2. \E j \in back : \A k \in back : j <= k
      BY <2>6, <3>1, Least
    <3> QED
      BY <3>2
  <2> HIDE DEF n, d, r, first
  <2>7. \A k \in 1 .. n : series[k] \in Int
    BY <2>1
  <2>8. /\ r.recovered = "NO_DRAWDOWN" <=> d.amount = 0
        /\ r.recovered = "YES" <=> d.amount # 0 /\ back # {}
        /\ r.recovered = "YES" => r.bars = first - trough
    BY <2>3
  <2> HIDE DEF top, trough
  (* 1. No drawdown: the curve never falls. *)
  <2>9. r.recovered = "NO_DRAWDOWN" <=> \A k \in Points : \A h \in 1 .. k : series[h] <= series[k]
    <3>1. ASSUME d.amount = 0, NEW k \in 1 .. n, NEW h \in 1 .. k PROVE series[h] <= series[k]
      <4>1. series[h] - series[k] <= 0 /\ series[h] \in Int /\ series[k] \in Int
        BY <2>1, <2>4, <2>7, <3>1, SMTT(30)
      <4> QED
        BY <4>1
    <3>2. ASSUME \A k \in 1 .. n : \A h \in 1 .. k : series[h] <= series[k] PROVE d.amount = 0
      <4>1. trough \in 1 .. n /\ top \in 1 .. trough
        BY <2>1, <2>4
      <4>2. series[top] <= series[trough] /\ series[top] \in Int /\ series[trough] \in Int
        BY <2>4, <2>7, <3>2, <4>1
      <4>3. series[trough] - series[trough] <= d.amount
        BY <2>4, <4>1
      <4> QED
        BY <2>4, <2>5, <4>2, <4>3
    <3> QED
      BY <2>1, <2>8, <3>1, <3>2
  (* 2. After the trough, before end, the curve is below the top.           *)
  <2>10. ASSUME r.recovered # "NO_DRAWDOWN"
         PROVE  end \in trough .. n /\ \A k \in trough + 1 .. end : series[k] < series[top]
    <3>1. CASE r.recovered = "YES"
      <4>1. first \in back /\ (\A k \in back : first <= k) /\ end = first - 1
        <5>1. first \in back /\ (\A k \in back : first <= k) /\ r.bars = first - trough
          BY <2>6, <2>8, <3>1
        <5>2. first \in Int /\ trough \in Int
          BY <2>1, <2>4, <5>1
        <5>3. end = trough + (first - trough) - 1
          BY <3>1, <5>1
        <5> HIDE DEF end, back
        <5> QED
          BY <5>1, <5>2, <5>3
      <4> HIDE DEF end
      <4>2. end \in trough .. n
        BY <2>1, <2>4, <4>1
      <4>3. ASSUME NEW k \in trough + 1 .. end PROVE series[k] < series[top]
        <5>1. k \in trough + 1 .. n /\ k < first
          BY <2>1, <2>4, <4>1
        <5>2. k \notin back
          BY <4>1, <5>1
        <5>3. series[k] \in Int /\ series[top] \in Int
          BY <2>1, <2>4, <2>7, <5>1
        <5> QED
          BY <5>1, <5>2, <5>3
      <4> QED
        BY <4>2, <4>3
    <3>2. CASE r.recovered # "YES"
      <4>1. back = {} /\ end = n
        BY <2>8, <2>10, <3>2
      <4>2. ASSUME NEW k \in trough + 1 .. n PROVE series[k] < series[top]
        <5>1. k \in 1 .. n /\ series[k] \in Int /\ series[top] \in Int
          BY <2>1, <2>4, <2>7
        <5> QED
          BY <4>1, <5>1
      <4> QED
        BY <2>1, <2>4, <4>1, <4>2, SMTT(30)
    <3> QED
      BY <3>1, <3>2
  <2>11. r.recovered = "YES" => series[trough + r.bars] >= series[top]
    <3> SUFFICES ASSUME r.recovered = "YES" PROVE series[trough + r.bars] >= series[top]
      OBVIOUS
    <3>1. first \in back /\ r.bars = first - trough
      BY <2>6, <2>8
    <3>2. first \in Int /\ trough \in Int /\ series[first] >= series[top]
      BY <2>1, <2>4, <3>1
    <3>3. trough + r.bars = first
      BY <3>1, <3>2
    <3> QED
      BY <3>2, <3>3
  <2> HIDE DEF end, back
  (* 3. From the top to end the curve stays between the trough and the top. *)
  <2>12. ASSUME r.recovered # "NO_DRAWDOWN", NEW k \in top + 1 .. end
         PROVE  series[trough] <= series[k] /\ series[k] <= series[top]
    <3>1. end \in trough .. n /\ \A j \in trough + 1 .. end : series[j] < series[top]
      BY <2>10, <2>12
    <3>2. k \in 1 .. n /\ top \in 1 .. k /\ series[k] \in Int /\ series[top] \in Int /\ series[trough] \in Int
          /\ trough \in 1 .. n
      BY <2>1, <2>4, <2>7, <3>1
    <3>3. series[top] - series[k] <= d.amount
      BY <2>4, <3>2
    <3>4. series[trough] <= series[k]
      BY <2>4, <2>5, <3>2, <3>3
    <3>5. CASE k <= trough
      <4>1. series[k] - series[trough] <= d.amount
        BY <2>4, <3>2, <3>5
      <4> QED
        BY <2>4, <2>5, <3>2, <3>4, <4>1
    <3>6. CASE ~(k <= trough)
      <4>1. k \in trough + 1 .. end
        BY <3>1, <3>2, <3>6
      <4> QED
        BY <3>1, <3>2, <3>4, <4>1
    <3> QED
      BY <3>5, <3>6
  <2>13. ASSUME r.recovered # "NO_DRAWDOWN", NEW k \in trough .. end
         PROVE  series[k] < series[top]
    <3>1. CASE k = trough
      <4>1. trough \in 1 .. n /\ top \in 1 .. n
        BY <2>1, <2>4
      <4>2. series[trough] \in Int /\ series[top] \in Int
        BY <2>7, <4>1
      <4>3. series[trough] - series[trough] <= d.amount
        BY <2>4, <4>1
      <4>4. d.amount > 0
        BY <2>5, <2>8, <2>13, <4>2, <4>3
      <4> QED
        BY <2>4, <2>5, <3>1, <4>2, <4>4
    <3>2. CASE k # trough
      <4>1. k \in trough + 1 .. end
        BY <2>4, <3>2
      <4> QED
        BY <2>10, <2>13, <4>1
    <3> QED
      BY <3>1, <3>2
  <2> QED
    BY <2>9, <2>11, <2>12, <2>13 DEF RecoveryIsFirstReturn, n, d, r, top, trough, end
<1> QED
  BY <1>1, AlwaysSeries, PTL
=============================================================================
