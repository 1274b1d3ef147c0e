---------------------------- MODULE SeriesProofs ----------------------------
(***************************************************************************)
(* Facts about the recursive functions of this project. A loop over a      *)
(* series is written f[i \in 0 .. n] with the state before the loop at 0;  *)
(* here such functions are shown to exist, so that what the definition     *)
(* chooses satisfies its equation. Induction over the naturals comes from  *)
(* their order, which is well-founded. Then what the loops compute: sums,  *)
(* streaks, drawdowns, and the first failure of a sequence of checks.      *)
(***************************************************************************)
EXTENDS Metrics, SequenceTheorems, WellFoundedInduction, TLAPS, Checks

-----------------------------------------------------------------------------
(* Induction.                                                              *)

(* A nonempty set of naturals has a least element. *)
LEMMA Least ==
  ASSUME NEW T \in SUBSET Nat, T # {}
  PROVE  \E m \in T : \A k \in T : m <= k
<1> DEFINE R == {p \in Nat \X Nat : p[1] < p[2]}
<1>1. IsWellFoundedOn(R, Nat)
  <2>1. R = OpToRel(<, Nat)
    BY DEF OpToRel
  <2> QED
    BY <2>1, NatLessThanWellFounded
<1>2. PICK m \in T : \A k \in T : ~(<<k, m>> \in R)
  BY <1>1, WFMin, Zenon
<1>3. ASSUME NEW k \in T PROVE m <= k
  <2>1. <<k, m>> \notin R
    BY <1>2
  <2>2. k \in Nat /\ m \in Nat
    OBVIOUS
  <2> QED
    BY <2>1, <2>2
<1> QED
  BY <1>3

(* A set of naturals with 0 and every successor holds them all up to n. *)
LEMMA Induct ==
  ASSUME NEW n \in Nat, NEW T \in SUBSET (0 .. n), 0 \in T, \A i \in T : i < n => i + 1 \in T
  PROVE  T = 0 .. n
<1> SUFFICES ASSUME (0 .. n) \ T # {} PROVE FALSE
  OBVIOUS
<1>1. PICK m \in (0 .. n) \ T : \A k \in (0 .. n) \ T : m <= k
  <2>1. (0 .. n) \ T \in SUBSET Nat
    OBVIOUS
  <2> QED
    BY <2>1, Least
<1>2. m # 0 /\ m - 1 \in 0 .. n
  BY <1>1
<1>3. m - 1 \in T /\ m - 1 < n
  BY <1>1, <1>2
<1> QED
  BY <1>1, <1>2, <1>3

(* A run of n steps over states D. *)
HasRun(n, D, start, step) ==
  \E f \in [0 .. n -> D] : f[0] = start /\ \A i \in 1 .. n : f[i] = step[i][f[i - 1]]

(* A loop has a run, of any length. *)
LEMMA LoopRuns ==
  ASSUME NEW n \in Nat, NEW D, NEW start \in D, NEW step \in [1 .. n -> [D -> D]]
  PROVE  HasRun(n, D, start, step)
<1> DEFINE T == {k \in 0 .. n : HasRun(k, D, start, step)}
<1>1. 0 \in T
  <2> DEFINE g == [i \in 0 .. 0 |-> start]
  <2>1. g \in [0 .. 0 -> D] /\ g[0] = start /\ \A i \in 1 .. 0 : g[i] = step[i][g[i - 1]]
    OBVIOUS
  <2> HIDE DEF g
  <2>2. HasRun(0, D, start, step)
    BY <2>1 DEF HasRun
  <2> QED
    BY <2>2
<1>2. ASSUME NEW k \in T, k < n
      PROVE  k + 1 \in T
  <2>1. PICK f \in [0 .. k -> D] : f[0] = start /\ \A i \in 1 .. k : f[i] = step[i][f[i - 1]]
    BY DEF HasRun
  <2> DEFINE g == [i \in 0 .. k + 1 |-> IF i = k + 1 THEN step[k + 1][f[k]] ELSE f[i]]
  <2>2. step[k + 1][f[k]] \in D
    <3>1. k + 1 \in 1 .. n /\ f[k] \in D
      BY <1>2
    <3> QED
      BY <3>1
  <2>3. g \in [0 .. k + 1 -> D]
    BY <1>2, <2>2
  <2>4. g[0] = start
    BY <1>2, <2>1
  <2>5. ASSUME NEW i \in 1 .. k + 1
        PROVE  g[i] = step[i][g[i - 1]]
    <3>1. g[i - 1] = f[i - 1]
      BY <1>2
    <3>2. CASE i = k + 1
      BY <1>2, <3>1, <3>2
    <3>3. CASE i # k + 1
      BY <1>2, <2>1, <3>1, <3>3
    <3> QED
      BY <3>2, <3>3
  <2> HIDE DEF g
  <2>6. HasRun(k + 1, D, start, step)
    BY <2>3, <2>4, <2>5 DEF HasRun
  <2> QED
    BY <1>2, <2>6
<1>3. T = 0 .. n
  BY <1>1, <1>2, Induct
<1> QED
  BY <1>3

-----------------------------------------------------------------------------
(* Sums.                                                                   *)

(* A sequence of n integers. *)
LEMMA SeriesIsSeq ==
  ASSUME NEW n \in Nat, NEW S, NEW s \in [1 .. n -> S]
  PROVE  s \in Seq(S) /\ Len(s) = n
OBVIOUS

(* What Total chooses are the partial sums. *)
LEMMA TotalUnfolds ==
  ASSUME NEW n \in Nat, NEW s \in [1 .. n -> Int]
  PROVE  \E sum \in [0 .. n -> Int] :
           /\ sum[0] = 0 /\ \A i \in 1 .. n : sum[i] = sum[i - 1] + s[i]
           /\ Total(s) = sum[n]
<1> DEFINE step == [i \in 1 .. n |-> [x \in Int |-> x + s[i]]]
           Partial(sum) == sum = [i \in 0 .. n |-> IF i = 0 THEN 0 ELSE sum[i - 1] + s[i]]
           chosen == CHOOSE sum : Partial(sum)
<1>1. Len(s) = n
  BY SeriesIsSeq
<1>2. PICK f \in [0 .. n -> Int] : f[0] = 0 /\ \A i \in 1 .. n : f[i] = step[i][f[i - 1]]
  <2>1. step \in [1 .. n -> [Int -> Int]]
    OBVIOUS
  <2> HIDE DEF step
  <2>2. 0 \in Int
    OBVIOUS
  <2>3. HasRun(n, Int, 0, step)
    BY <2>1, <2>2, LoopRuns
  <2> QED
    BY <2>3 DEF HasRun
<1>3. Partial(f)
  <2>1. \A i \in 1 .. n : f[i] = f[i - 1] + s[i]
    <3> SUFFICES ASSUME NEW i \in 1 .. n PROVE f[i] = f[i - 1] + s[i]
      OBVIOUS
    <3>1. f[i - 1] \in Int /\ s[i] \in Int
      OBVIOUS
    <3> QED
      BY <1>2, <3>1
  <2> QED
    BY <1>2, <2>1
<1>4. Partial(chosen)
  BY <1>3
<1>5. Total(s) = chosen[n]
  BY <1>1 DEF Total
<1> HIDE DEF chosen
<1>6. chosen[0] = 0 /\ \A i \in 1 .. n : chosen[i] = chosen[i - 1] + s[i]
  BY <1>4
<1>7. \A i \in 0 .. n : chosen[i] \in Int
  <2> DEFINE T == {i \in 0 .. n : chosen[i] \in Int}
  <2>1. 0 \in T /\ \A i \in T : i < n => i + 1 \in T
    BY <1>6, SMTT(30)
  <2> HIDE DEF T
  <2>2. T = 0 .. n
    BY <2>1, Induct DEF T
  <2> QED
    BY <2>2 DEF T
<1>8. chosen \in [0 .. n -> Int]
  BY <1>4, <1>7
<1> QED
  BY <1>5, <1>6, <1>8

(* A sum of whole numbers is one. *)
LEMMA TotalInType ==
  ASSUME NEW n \in Nat, NEW s \in [1 .. n -> Int]
  PROVE  Total(s) \in Int
<1>1. PICK f \in [0 .. n -> Int] :
        f[0] = 0 /\ (\A i \in 1 .. n : f[i] = f[i - 1] + s[i]) /\ Total(s) = f[n]
  BY TotalUnfolds
<1> QED
  BY <1>1

(* One more summand. *)
LEMMA TotalGrows ==
  ASSUME NEW n \in Nat, NEW s \in [1 .. n -> Int], NEW t \in [1 .. n + 1 -> Int],
         \A i \in 1 .. n : t[i] = s[i]
  PROVE  Total(s) \in Int /\ Total(t) = Total(s) + t[n + 1]
<1>1. PICK f \in [0 .. n -> Int] :
        f[0] = 0 /\ (\A i \in 1 .. n : f[i] = f[i - 1] + s[i]) /\ Total(s) = f[n]
  BY TotalUnfolds
<1>2. PICK g \in [0 .. n + 1 -> Int] :
        g[0] = 0 /\ (\A i \in 1 .. n + 1 : g[i] = g[i - 1] + t[i]) /\ Total(t) = g[n + 1]
  <2>1. n + 1 \in Nat
    OBVIOUS
  <2> QED
    BY <2>1, TotalUnfolds
<1> DEFINE T == {i \in 0 .. n : f[i] = g[i]}
<1>3. 0 \in T
  BY <1>1, <1>2
<1>4. ASSUME NEW i \in T, i < n
      PROVE  i + 1 \in T
  BY <1>1, <1>2, <1>4
<1>5. T = 0 .. n
  BY <1>3, <1>4, Induct
<1>6. f[n] = g[n] /\ g[n + 1] = g[n] + t[n + 1]
  <2>1. n \in 0 .. n /\ n + 1 \in 1 .. n + 1 /\ (n + 1) - 1 = n
    OBVIOUS
  <2>2. n \in T
    BY <1>5, <2>1, Zenon
  <2> QED
    BY <1>2, <2>1, <2>2
<1> QED
  BY <1>1, <1>2, <1>6

(* The empty sum. *)
LEMMA TotalOfNone ==
  ASSUME NEW s \in [1 .. 0 -> Int]
  PROVE  Total(s) = 0
BY TotalUnfolds

-----------------------------------------------------------------------------
(* Runs of good indices.                                                   *)

(* Of the first i indices, the last r in a row are in U, and no more; and  *)
(* l is the length of the longest run in U.                                *)
RunAt(U, i, r, l) ==
  /\ r \in 0 .. i /\ l \in 0 .. i
  /\ \A k \in i - r + 1 .. i : k \in U
  /\ r < i => i - r \notin U
  /\ l = 0 \/ \E a \in 1 .. i : \E b \in a .. i : b - a + 1 = l /\ \A k \in a .. b : k \in U
  /\ \A a \in 1 .. i : \A b \in a .. i : (\A k \in a .. b : k \in U) => b - a + 1 <= l

Longer(r, l) == IF r + 1 > l THEN r + 1 ELSE l

(* Before the first index. *)
LEMMA RunStarts ==
  ASSUME NEW U
  PROVE  RunAt(U, 0, 0, 0)
BY DEF RunAt

(* One more index in the set. *)
LEMMA RunGrows ==
  ASSUME NEW U, NEW i \in Nat, NEW r, NEW l, RunAt(U, i, r, l), i + 1 \in U
  PROVE  RunAt(U, i + 1, r + 1, Longer(r, l))
<1> DEFINE m == Longer(r, l)
<1>1. /\ r \in 0 .. i /\ l \in 0 .. i
      /\ \A k \in i - r + 1 .. i : k \in U
      /\ r < i => i - r \notin U
  BY DEF RunAt
<1>2. r + 1 \in 0 .. i + 1 /\ m \in 0 .. i + 1 /\ r + 1 <= m /\ l <= m /\ (m = r + 1 \/ m = l)
  BY <1>1 DEF Longer
<1>3. ASSUME NEW k \in (i + 1) - (r + 1) + 1 .. i + 1
      PROVE  k \in U
  <2>1. k = i + 1 \/ k \in i - r + 1 .. i
    BY <1>1
  <2> QED
    BY <1>1, <2>1
<1>4. r + 1 < i + 1 => (i + 1) - (r + 1) \notin U
  <2>1. (i + 1) - (r + 1) = i - r
    BY <1>1
  <2> QED
    BY <1>1, <2>1
<1>5. m = 0 \/ \E a \in 1 .. i + 1 : \E b \in a .. i + 1 : b - a + 1 = m /\ \A k \in a .. b : k \in U
  <2>1. CASE m = r + 1
    <3> DEFINE a == i + 1 - r
    <3>1. a \in 1 .. i + 1 /\ i + 1 \in a .. i + 1 /\ (i + 1) - a + 1 = m
      BY <1>1, <2>1
    <3>2. \A k \in a .. i + 1 : k \in U
      <4>1. (i + 1) - (r + 1) + 1 = a
        BY <1>1
      <4> QED
        BY <1>3, <4>1
    <3> HIDE DEF a, m
    <3> QED
      BY <3>1, <3>2
  <2>2. CASE m = l /\ l # 0
    <3>1. PICK a \in 1 .. i : \E b \in a .. i : b - a + 1 = l /\ \A k \in a .. b : k \in U
      BY <2>2 DEF RunAt
    <3>2. PICK b \in a .. i : b - a + 1 = l /\ \A k \in a .. b : k \in U
      BY <3>1
    <3>3. a \in 1 .. i + 1 /\ b \in a .. i + 1
      OBVIOUS
    <3> HIDE DEF m
    <3> QED
      BY <2>2, <3>2, <3>3
  <2> QED
    BY <1>2, <2>1, <2>2
<1>6. ASSUME NEW a \in 1 .. i + 1, NEW b \in a .. i + 1, \A k \in a .. b : k \in U
      PROVE  b - a + 1 <= m
  <2> HIDE DEF m
  <2>1. CASE b = i + 1
    <3>1. ASSUME r < i PROVE a > i - r
      <4>1. i - r \notin a .. b
        BY <1>1, <1>6, <3>1
      <4> QED
        BY <1>1, <2>1, <4>1
    <3> QED
      BY <1>1, <1>2, <2>1, <3>1
  <2>2. CASE b # i + 1
    <3>1. a \in 1 .. i /\ b \in a .. i
      BY <2>2
    <3>2. b - a + 1 <= l
      BY <1>6, <3>1 DEF RunAt
    <3> QED
      BY <1>1, <1>2, <3>1, <3>2
  <2> QED
    BY <2>1, <2>2
<1> HIDE DEF m
<1>7. RunAt(U, i + 1, r + 1, m)
  BY <1>2, <1>3, <1>4, <1>5, <1>6 DEF RunAt
<1> QED
  BY <1>7 DEF m

(* One that is not. *)
LEMMA RunBreaks ==
  ASSUME NEW U, NEW i \in Nat, NEW r, NEW l, RunAt(U, i, r, l), i + 1 \notin U
  PROVE  RunAt(U, i + 1, 0, l)
<1>1. l \in 0 .. i
  BY DEF RunAt
<1>2. 0 \in 0 .. i + 1 /\ l \in 0 .. i + 1 /\ (i + 1) - 0 = i + 1
  BY <1>1
<1>3. \A k \in (i + 1) - 0 + 1 .. i + 1 : k \in U
  OBVIOUS
<1>4. l = 0 \/ \E a \in 1 .. i + 1 : \E b \in a .. i + 1 : b - a + 1 = l /\ \A k \in a .. b : k \in U
  <2> SUFFICES ASSUME l # 0
               PROVE  \E a \in 1 .. i + 1 : \E b \in a .. i + 1 : b - a + 1 = l /\ \A k \in a .. b : k \in U
    OBVIOUS
  <2>1. PICK a \in 1 .. i : \E b \in a .. i : b - a + 1 = l /\ \A k \in a .. b : k \in U
    BY DEF RunAt
  <2>2. PICK b \in a .. i : b - a + 1 = l /\ \A k \in a .. b : k \in U
    BY <2>1
  <2>3. a \in 1 .. i + 1 /\ b \in a .. i + 1
    OBVIOUS
  <2> QED
    BY <2>2, <2>3
<1>5. ASSUME NEW a \in 1 .. i + 1, NEW b \in a .. i + 1, \A k \in a .. b : k \in U
      PROVE  b - a + 1 <= l
  <2>1. b # i + 1
    <3>1. b \in a .. b
      OBVIOUS
    <3> QED
      BY <1>5, <3>1
  <2>2. a \in 1 .. i /\ b \in a .. i
    BY <2>1
  <2> QED
    BY <1>5, <2>2 DEF RunAt
<1> QED
  BY <1>2, <1>3, <1>4, <1>5 DEF RunAt

-----------------------------------------------------------------------------
(* The streaks.                                                            *)

StreakType == [wins : Int, losses : Int, longestWins : Int, longestLosses : Int]
NoStreak == [wins |-> 0, losses |-> 0, longestWins |-> 0, longestLosses |-> 0]

Winning(nets, n) == {k \in 1 .. n : nets[k] > 0}
Losing(nets, n) == {k \in 1 .. n : nets[k] < 0}

(* The three outcomes of a trade. *)
LEMMA StreakCases ==
  ASSUME NEW s \in StreakType, NEW net \in Int
  PROVE  /\ NextStreak(s, net) \in StreakType
         /\ net > 0 => /\ NextStreak(s, net).wins = s.wins + 1 /\ NextStreak(s, net).losses = 0
                       /\ NextStreak(s, net).longestWins = Longer(s.wins, s.longestWins)
                       /\ NextStreak(s, net).longestLosses = s.longestLosses
         /\ net < 0 => /\ NextStreak(s, net).losses = s.losses + 1 /\ NextStreak(s, net).wins = 0
                       /\ NextStreak(s, net).longestLosses = Longer(s.losses, s.longestLosses)
                       /\ NextStreak(s, net).longestWins = s.longestWins
         /\ net = 0 => /\ NextStreak(s, net).wins = 0 /\ NextStreak(s, net).losses = 0
                       /\ NextStreak(s, net).longestWins = s.longestWins
                       /\ NextStreak(s, net).longestLosses = s.longestLosses
<1>0. /\ s.wins \in Int /\ s.losses \in Int /\ s.longestWins \in Int /\ s.longestLosses \in Int
      /\ Longer(s.wins, s.longestWins) \in Int /\ Longer(s.losses, s.longestLosses) \in Int
  BY DEF StreakType, Longer
<1>1. CASE net > 0
  <2> DEFINE t == [s EXCEPT !.wins = s.wins + 1, !.losses = 0, !.longestWins = Longer(s.wins, s.longestWins)]
             u == [s EXCEPT !.wins = s.wins + 1]
             v == [u EXCEPT !.losses = 0]
             w == [v EXCEPT !.longestWins = Longer(s.wins, s.longestWins)]
  <2>1. NextStreak(s, net) = t
    BY <1>1 DEF NextStreak, Longer
  <2>2. t = w
    OBVIOUS
  <2>3. u \in StreakType
    BY <1>0 DEF StreakType
  <2> HIDE DEF u
  <2>4. v \in StreakType
    BY <1>0, <2>3 DEF StreakType
  <2> HIDE DEF v
  <2>5. w \in StreakType
    BY <1>0, <2>4 DEF StreakType
  <2> USE DEF u, v
  <2>6. /\ t.wins = s.wins + 1 /\ t.losses = 0
        /\ t.longestWins = Longer(s.wins, s.longestWins) /\ t.longestLosses = s.longestLosses
    BY DEF StreakType
  <2> HIDE DEF t, u, v, w
  <2> QED
    BY <1>1, <2>1, <2>2, <2>5, <2>6
<1>2. CASE net < 0
  <2> DEFINE t == [s EXCEPT !.losses = s.losses + 1, !.wins = 0, !.longestLosses = Longer(s.losses, s.longestLosses)]
             u == [s EXCEPT !.losses = s.losses + 1]
             v == [u EXCEPT !.wins = 0]
             w == [v EXCEPT !.longestLosses = Longer(s.losses, s.longestLosses)]
  <2>1. NextStreak(s, net) = t
    BY <1>2 DEF NextStreak, Longer
  <2>2. t = w
    OBVIOUS
  <2>3. u \in StreakType
    BY <1>0 DEF StreakType
  <2> HIDE DEF u
  <2>4. v \in StreakType
    BY <1>0, <2>3 DEF StreakType
  <2> HIDE DEF v
  <2>5. w \in StreakType
    BY <1>0, <2>4 DEF StreakType
  <2> USE DEF u, v
  <2>6. /\ t.wins = 0 /\ t.losses = s.losses + 1
        /\ t.longestWins = s.longestWins /\ t.longestLosses = Longer(s.losses, s.longestLosses)
    BY DEF StreakType
  <2> HIDE DEF t, u, v, w
  <2> QED
    BY <1>2, <2>1, <2>2, <2>5, <2>6
<1>3. CASE net = 0
  <2> DEFINE t == [s EXCEPT !.wins = 0, !.losses = 0]
             u == [s EXCEPT !.wins = 0]
             v == [u EXCEPT !.losses = 0]
  <2>1. NextStreak(s, net) = t
    BY <1>3 DEF NextStreak, Longer
  <2>2. t = v
    OBVIOUS
  <2>3. u \in StreakType
    BY <1>0 DEF StreakType
  <2> HIDE DEF u
  <2>4. v \in StreakType
    BY <1>0, <2>3 DEF StreakType
  <2> USE DEF u
  <2>5. /\ t.wins = 0 /\ t.losses = 0
        /\ t.longestWins = s.longestWins /\ t.longestLosses = s.longestLosses
    BY DEF StreakType
  <2> HIDE DEF t, u, v
  <2> QED
    BY <1>3, <2>1, <2>2, <2>4, <2>5
<1> QED
  BY <1>1, <1>2, <1>3

(* What Streaks chooses are the loop's states. *)
LEMMA StreaksUnfold ==
  ASSUME NEW n \in Nat, NEW nets \in [1 .. n -> Int]
  PROVE  \E after \in [0 .. n -> StreakType] :
           /\ after[0] = NoStreak /\ \A i \in 1 .. n : after[i] = NextStreak(after[i - 1], nets[i])
           /\ Streaks(nets) = after[n]
<1> DEFINE step == [i \in 1 .. n |-> [s \in StreakType |-> NextStreak(s, nets[i])]]
           Loop(after) == after = [i \in 0 .. n |-> IF i = 0 THEN NoStreak ELSE NextStreak(after[i - 1], nets[i])]
           chosen == CHOOSE after : Loop(after)
<1>1. Len(nets) = n
  BY SeriesIsSeq
<1>2. PICK f \in [0 .. n -> StreakType] : f[0] = NoStreak /\ \A i \in 1 .. n : f[i] = step[i][f[i - 1]]
  <2>1. step \in [1 .. n -> [StreakType -> StreakType]]
    BY StreakCases
  <2> HIDE DEF step
  <2>2. NoStreak \in StreakType
    BY DEF NoStreak, StreakType
  <2>3. HasRun(n, StreakType, NoStreak, step)
    BY <2>1, <2>2, LoopRuns
  <2> QED
    BY <2>3 DEF HasRun
<1>3. \A i \in 1 .. n : f[i] = NextStreak(f[i - 1], nets[i])
  <2> SUFFICES ASSUME NEW i \in 1 .. n PROVE f[i] = NextStreak(f[i - 1], nets[i])
    OBVIOUS
  <2>1. f[i - 1] \in StreakType
    OBVIOUS
  <2> QED
    BY <1>2, <2>1
<1>4. Loop(f)
  BY <1>2, <1>3
<1>5. Loop(chosen)
  BY <1>4
<1>6. Streaks(nets) = chosen[n]
  BY <1>1 DEF Streaks, NoStreak
<1> HIDE DEF chosen
<1>7. chosen[0] = NoStreak /\ \A i \in 1 .. n : chosen[i] = NextStreak(chosen[i - 1], nets[i])
  BY <1>5
<1>8. \A i \in 0 .. n : chosen[i] \in StreakType
  <2> DEFINE T == {i \in 0 .. n : chosen[i] \in StreakType}
  <2>1. 0 \in T
    BY <1>7 DEF NoStreak, StreakType
  <2>2. ASSUME NEW i \in T, i < n PROVE i + 1 \in T
    <3>1. /\ i + 1 \in 1 .. n /\ (i + 1) - 1 = i /\ chosen[i] \in StreakType
          /\ nets[i + 1] \in Int
      BY <2>2
    <3>2. NextStreak(chosen[i], nets[i + 1]) \in StreakType
      BY <3>1, StreakCases
    <3>3. chosen[i + 1] = NextStreak(chosen[i], nets[i + 1])
      BY <1>7, <3>1
    <3> QED
      BY <3>1, <3>2, <3>3
  <2> HIDE DEF T
  <2>3. T = 0 .. n
    BY <2>1, <2>2, Induct DEF T
  <2> QED
    BY <2>3 DEF T
<1>9. chosen \in [0 .. n -> StreakType]
  BY <1>5, <1>8
<1> QED
  BY <1>6, <1>7, <1>9

(* The streaks are the longest runs of winning and of losing trades. *)
LEMMA StreaksAreRuns ==
  ASSUME NEW n \in Nat, NEW nets \in [1 .. n -> Int]
  PROVE  /\ RunAt(Winning(nets, n), n, Streaks(nets).wins, Streaks(nets).longestWins)
         /\ RunAt(Losing(nets, n), n, Streaks(nets).losses, Streaks(nets).longestLosses)
<1> DEFINE W == Winning(nets, n)
           L == Losing(nets, n)
<1>1. PICK after \in [0 .. n -> StreakType] :
        /\ after[0] = NoStreak /\ \A i \in 1 .. n : after[i] = NextStreak(after[i - 1], nets[i])
        /\ Streaks(nets) = after[n]
  BY StreaksUnfold
<1> DEFINE Sound(i) == /\ RunAt(W, i, after[i].wins, after[i].longestWins)
                       /\ RunAt(L, i, after[i].losses, after[i].longestLosses)
           T == {i \in 0 .. n : Sound(i)}
<1>2. 0 \in T
  BY <1>1, RunStarts DEF NoStreak
<1>3. ASSUME NEW i \in T, i < n
      PROVE  i + 1 \in T
  <2> DEFINE s == after[i]
             t == after[i + 1]
             net == nets[i + 1]
  <2>1. /\ i \in Nat /\ i + 1 \in 1 .. n /\ (i + 1) - 1 = i /\ s \in StreakType /\ net \in Int
        /\ RunAt(W, i, s.wins, s.longestWins) /\ RunAt(L, i, s.losses, s.longestLosses)
    BY <1>3
  <2>2. t = NextStreak(s, net)
    BY <1>1, <2>1
  <2>3. (i + 1 \in W <=> net > 0) /\ (i + 1 \in L <=> net < 0)
    BY <2>1 DEF Winning, Losing
  <2> HIDE DEF W, L, s, t, net
  <2>4. CASE net > 0
    <3>1. /\ t.wins = s.wins + 1 /\ t.losses = 0
          /\ t.longestWins = Longer(s.wins, s.longestWins) /\ t.longestLosses = s.longestLosses
      BY <2>1, <2>2, <2>4, StreakCases
    <3>2. i + 1 \in W /\ i + 1 \notin L
      BY <2>1, <2>3, <2>4
    <3>3. RunAt(W, i + 1, t.wins, t.longestWins) /\ RunAt(L, i + 1, t.losses, t.longestLosses)
      BY <2>1, <3>1, <3>2, RunGrows, RunBreaks
    <3> QED
      BY <2>1, <3>3 DEF t
  <2>5. CASE net < 0
    <3>1. /\ t.losses = s.losses + 1 /\ t.wins = 0
          /\ t.longestLosses = Longer(s.losses, s.longestLosses) /\ t.longestWins = s.longestWins
      BY <2>1, <2>2, <2>5, StreakCases
    <3>2. i + 1 \notin W /\ i + 1 \in L
      BY <2>1, <2>3, <2>5
    <3>3. RunAt(W, i + 1, t.wins, t.longestWins) /\ RunAt(L, i + 1, t.losses, t.longestLosses)
      BY <2>1, <3>1, <3>2, RunGrows, RunBreaks
    <3> QED
      BY <2>1, <3>3 DEF t
  <2>6. CASE net = 0
    <3>1. /\ t.losses = 0 /\ t.wins = 0
          /\ t.longestLosses = s.longestLosses /\ t.longestWins = s.longestWins
      BY <2>1, <2>2, <2>6, StreakCases
    <3>2. i + 1 \notin W /\ i + 1 \notin L
      BY <2>1, <2>3, <2>6
    <3>3. RunAt(W, i + 1, t.wins, t.longestWins) /\ RunAt(L, i + 1, t.losses, t.longestLosses)
      BY <2>1, <3>1, <3>2, RunBreaks
    <3> QED
      BY <2>1, <3>3 DEF t
  <2> QED
    BY <2>1, <2>4, <2>5, <2>6
<1> HIDE DEF Sound
<1>4. T = 0 .. n
  BY <1>2, <1>3, Induct
<1>5. Sound(n)
  <2>1. n \in 0 .. n
    OBVIOUS
  <2>2. n \in T
    BY <1>4, <2>1, Zenon
  <2> QED
    BY <2>2
<1> QED
  BY <1>1, <1>5 DEF Sound

-----------------------------------------------------------------------------
(* The drawdown.                                                           *)

DrawType == [peak : Int, peakAt : Int, amount : Int, from : Int, top : Int, trough : Int,
             duration : Int, longest : Int]

SunkAt(curve, n) == {k \in 1 .. n : \E h \in 1 .. k : curve[h] > curve[k]}

(* A point above the peak, at it and below it. *)
LEMMA AbovePeak ==
  ASSUME NEW d \in DrawType, NEW equity \in Int, NEW i \in Int, equity > d.peak
  PROVE  LET t == Observe(d, equity, i)
         IN /\ t \in DrawType
            /\ t.peak = equity /\ t.peakAt = i /\ t.duration = 0
            /\ t.amount = d.amount /\ t.from = d.from /\ t.top = d.top /\ t.trough = d.trough
            /\ t.longest = d.longest
<1> DEFINE u == [d EXCEPT !.peak = equity]
           v == [u EXCEPT !.peakAt = i]
           w == [v EXCEPT !.duration = 0]
           t == Observe(d, equity, i)
<1>1. /\ d.peak \in Int /\ d.duration \in Int /\ d.longest \in Int /\ d.amount \in Int
  BY DEF DrawType
<1>2. AtPeak(d, equity, i) = w
  BY DEF AtPeak
<1>3. w.peak = equity
  BY DEF DrawType
<1>4. t = [w EXCEPT !.duration = 0]
  <2> HIDE DEF w
  <2> QED
    BY <1>2, <1>3 DEF Observe
<1>5. t = w
  BY <1>4
<1>6. u \in DrawType
  BY DEF DrawType
<1>7. v \in DrawType
  <2> HIDE DEF u
  <2> QED
    BY <1>6 DEF DrawType
<1>8. w \in DrawType
  <2> HIDE DEF v
  <2> QED
    BY <1>7 DEF DrawType
<1>9. /\ w.peak = equity /\ w.peakAt = i /\ w.duration = 0
      /\ w.amount = d.amount /\ w.from = d.from /\ w.top = d.top /\ w.trough = d.trough
      /\ w.longest = d.longest
  BY DEF DrawType
<1> HIDE DEF t, w
<1>10. t \in DrawType /\ t.peak = equity /\ t.peakAt = i /\ t.duration = 0
       /\ t.amount = d.amount /\ t.from = d.from /\ t.top = d.top /\ t.trough = d.trough
       /\ t.longest = d.longest
  BY <1>5, <1>8, <1>9
<1> QED
  BY <1>10 DEF t

(* A point on the peak. *)
LEMMA OnPeak ==
  ASSUME NEW d \in DrawType, NEW equity \in Int, NEW i \in Int, equity = d.peak
  PROVE  LET t == Observe(d, equity, i)
         IN /\ t \in DrawType
            /\ t.peak = d.peak /\ t.peakAt = d.peakAt /\ t.duration = 0
            /\ t.amount = d.amount /\ t.from = d.from /\ t.top = d.top /\ t.trough = d.trough
            /\ t.longest = d.longest
<1>1. d.peak \in Int
  BY DEF DrawType
<1>2. Observe(d, equity, i) = [d EXCEPT !.duration = 0]
  BY <1>1 DEF Observe, AtPeak
<1> QED
  BY <1>2 DEF DrawType

(* A point under it. *)
LEMMA UnderPeak ==
  ASSUME NEW d \in DrawType, NEW equity \in Int, NEW i \in Int, equity < d.peak
  PROVE  LET t == Observe(d, equity, i)
         IN /\ t \in DrawType
            /\ t.peak = d.peak /\ t.peakAt = d.peakAt
            /\ t.duration = d.duration + 1 /\ t.longest = Longer(d.duration, d.longest)
            /\ d.peak - equity > d.amount =>
                 t.amount = d.peak - equity /\ t.from = d.peak /\ t.top = d.peakAt /\ t.trough = i
            /\ ~(d.peak - equity > d.amount) =>
                 t.amount = d.amount /\ t.from = d.from /\ t.top = d.top /\ t.trough = d.trough
<1> DEFINE t == Observe(d, equity, i)
           u == [d EXCEPT !.duration = d.duration + 1]
           v == [u EXCEPT !.longest = Longer(d.duration, d.longest)]
           x == [v EXCEPT !.amount = d.peak - equity]
           f == [x EXCEPT !.from = d.peak]
           y == [f EXCEPT !.top = d.peakAt]
           z == [y EXCEPT !.trough = i]
<1>1. /\ d.peak \in Int /\ d.peakAt \in Int /\ d.duration \in Int /\ d.longest \in Int /\ d.amount \in Int
      /\ Longer(d.duration, d.longest) \in Int
  BY DEF DrawType, Longer
<1>2. t = Below(d, equity, i)
  BY <1>1 DEF Observe, AtPeak
<1>3. Below(d, equity, i) = IF d.peak - equity > d.amount THEN z ELSE v
  BY DEF Below, Longer
<1>4. u \in DrawType
  BY <1>1 DEF DrawType
<1>5. v \in DrawType
  <2> HIDE DEF u
  <2> QED
    BY <1>1, <1>4 DEF DrawType
<1>6. /\ v.peak = d.peak /\ v.peakAt = d.peakAt
      /\ v.duration = d.duration + 1 /\ v.longest = Longer(d.duration, d.longest)
      /\ v.amount = d.amount /\ v.from = d.from /\ v.top = d.top /\ v.trough = d.trough
  BY DEF DrawType
<1> HIDE DEF v
<1>7. x \in DrawType
  BY <1>1, <1>5 DEF DrawType
<1>8. y \in DrawType
  <2>1. f \in DrawType
    <3> HIDE DEF x
    <3> QED
      BY <1>1, <1>7 DEF DrawType
  <2> HIDE DEF f
  <2> QED
    BY <1>1, <2>1 DEF DrawType
<1>9. z \in DrawType
  <2> HIDE DEF y
  <2> QED
    BY <1>1, <1>8 DEF DrawType
<1>10. /\ z.peak = v.peak /\ z.peakAt = v.peakAt
       /\ z.duration = v.duration /\ z.longest = v.longest
       /\ z.amount = d.peak - equity /\ z.from = d.peak /\ z.top = d.peakAt /\ z.trough = i
  BY <1>5 DEF DrawType
<1> HIDE DEF t, z
<1>11. /\ t \in DrawType
       /\ t.peak = d.peak /\ t.peakAt = d.peakAt
       /\ t.duration = d.duration + 1 /\ t.longest = Longer(d.duration, d.longest)
       /\ d.peak - equity > d.amount =>
            t.amount = d.peak - equity /\ t.from = d.peak /\ t.top = d.peakAt /\ t.trough = i
       /\ ~(d.peak - equity > d.amount) =>
            t.amount = d.amount /\ t.from = d.from /\ t.top = d.top /\ t.trough = d.trough
  <2>1. CASE d.peak - equity > d.amount
    BY <1>2, <1>3, <1>6, <1>9, <1>10, <2>1
  <2>2. CASE ~(d.peak - equity > d.amount)
    BY <1>2, <1>3, <1>5, <1>6, <2>2
  <2> QED
    BY <2>1, <2>2
<1> QED
  BY <1>11 DEF t

(* The fold keeps its type. *)
LEMMA ObserveInType ==
  ASSUME NEW d \in DrawType, NEW equity \in Int, NEW i \in Int
  PROVE  Observe(d, equity, i) \in DrawType
<1>1. d.peak \in Int
  BY DEF DrawType
<1>2. equity > d.peak \/ equity = d.peak \/ equity < d.peak
  BY <1>1
<1> QED
  BY <1>2, AbovePeak, OnPeak, UnderPeak

(* What Drawdown chooses are the loop's states. *)
LEMMA DrawdownUnfolds ==
  ASSUME NEW n \in Nat \ {0}, NEW curve \in [1 .. n -> Int]
  PROVE  \E after \in [0 .. n -> DrawType] :
           /\ after[0] = StartOf(curve)
           /\ \A i \in 1 .. n : after[i] = Observe(after[i - 1], curve[i], i)
           /\ Drawdown(curve) = after[n]
<1> DEFINE step == [i \in 1 .. n |-> [d \in DrawType |-> Observe(d, curve[i], i)]]
           Loop(after) == after = [i \in 0 .. n |->
                                     IF i = 0 THEN StartOf(curve) ELSE Observe(after[i - 1], curve[i], i)]
           chosen == CHOOSE after : Loop(after)
<1>1. Len(curve) = n /\ StartOf(curve) \in DrawType
  BY SeriesIsSeq DEF StartOf, DrawType
<1>2. PICK f \in [0 .. n -> DrawType] :
        f[0] = StartOf(curve) /\ \A i \in 1 .. n : f[i] = step[i][f[i - 1]]
  <2>1. step \in [1 .. n -> [DrawType -> DrawType]]
    BY ObserveInType
  <2> HIDE DEF step
  <2>2. HasRun(n, DrawType, StartOf(curve), step)
    BY <1>1, <2>1, LoopRuns
  <2> QED
    BY <2>2 DEF HasRun
<1>3. \A i \in 1 .. n : f[i] = Observe(f[i - 1], curve[i], i)
  <2> SUFFICES ASSUME NEW i \in 1 .. n PROVE f[i] = Observe(f[i - 1], curve[i], i)
    OBVIOUS
  <2>1. f[i - 1] \in DrawType
    OBVIOUS
  <2> QED
    BY <1>2, <2>1
<1>4. Loop(f)
  BY <1>2, <1>3
<1>5. Loop(chosen)
  BY <1>4
<1>6. Drawdown(curve) = chosen[n]
  BY <1>1 DEF Drawdown
<1> HIDE DEF chosen
<1>7. chosen[0] = StartOf(curve) /\ \A i \in 1 .. n : chosen[i] = Observe(chosen[i - 1], curve[i], i)
  BY <1>5
<1>8. \A i \in 0 .. n : chosen[i] \in DrawType
  <2> DEFINE T == {i \in 0 .. n : chosen[i] \in DrawType}
  <2>1. 0 \in T
    BY <1>1, <1>7
  <2>2. ASSUME NEW i \in T, i < n PROVE i + 1 \in T
    <3>1. /\ i + 1 \in 1 .. n /\ i + 1 \in Int /\ (i + 1) - 1 = i /\ chosen[i] \in DrawType
          /\ curve[i + 1] \in Int
      BY <2>2
    <3>2. Observe(chosen[i], curve[i + 1], i + 1) \in DrawType
      BY <3>1, ObserveInType
    <3>3. chosen[i + 1] = Observe(chosen[i], curve[i + 1], i + 1)
      BY <1>7, <3>1
    <3> QED
      BY <3>1, <3>2, <3>3
  <2> HIDE DEF T
  <2>3. T = 0 .. n
    BY <2>1, <2>2, Induct DEF T
  <2> QED
    BY <2>3 DEF T
<1>9. chosen \in [0 .. n -> DrawType]
  BY <1>5, <1>8
<1> QED
  BY <1>6, <1>7, <1>9

(* After i points: the peak is the highest of them, and the fall from top  *)
(* to trough is the largest of them, and the first so large.               *)
PeakAfter(curve, i, d) ==
  /\ d.peakAt \in 1 .. i /\ d.peak = curve[d.peakAt]
  /\ \A k \in 1 .. i : curve[k] <= d.peak

FallAfter(curve, i, d) ==
  /\ d.top \in 1 .. i /\ d.trough \in d.top .. i
  /\ curve[d.top] - curve[d.trough] = d.amount /\ curve[d.top] = d.from
  /\ \A k \in 1 .. i : \A h \in 1 .. k : curve[h] - curve[k] <= d.amount
  /\ \A k \in 1 .. d.trough - 1 : \A h \in 1 .. k : curve[h] - curve[k] < d.amount

(* A step that changes no field of the fall keeps it, when no later point  *)
(* is deeper.                                                              *)
LEMMA FallKept ==
  ASSUME NEW i \in Nat \ {0}, NEW n \in Nat, i < n, NEW curve \in [1 .. n -> Int],
         NEW d \in DrawType, NEW t \in DrawType, PeakAfter(curve, i, d), FallAfter(curve, i, d),
         t.amount = d.amount, t.from = d.from, t.top = d.top, t.trough = d.trough,
         d.peak - curve[i + 1] <= d.amount
  PROVE  FallAfter(curve, i + 1, t)
<1>0. (\A k \in 1 .. i : k \in 1 .. n /\ curve[k] \in Int) /\ i + 1 \in 1 .. n /\ curve[i + 1] \in Int
  OBVIOUS
<1>1. /\ d.top \in 1 .. i /\ d.trough \in d.top .. i
      /\ curve[d.top] - curve[d.trough] = d.amount /\ curve[d.top] = d.from
      /\ \A k \in 1 .. i : \A h \in 1 .. k : curve[h] - curve[k] <= d.amount
      /\ \A k \in 1 .. d.trough - 1 : \A h \in 1 .. k : curve[h] - curve[k] < d.amount
      /\ \A k \in 1 .. i : curve[k] <= d.peak
      /\ d.peak \in Int /\ d.amount \in Int
  BY DEF FallAfter, PeakAfter, DrawType
<1>2. ASSUME NEW k \in 1 .. i + 1, NEW h \in 1 .. k PROVE curve[h] - curve[k] <= d.amount
  <2>1. CASE k = i + 1 /\ h = i + 1
    <3>1. curve[1] - curve[1] <= d.amount /\ curve[1] \in Int /\ curve[h] \in Int
      BY <1>1, <2>1
    <3> QED
      BY <1>1, <2>1, <3>1
  <2>2. CASE k = i + 1 /\ h # i + 1
    <3>1. h \in 1 .. i
      BY <2>2
    <3>2. curve[h] <= d.peak /\ curve[h] \in Int /\ curve[k] \in Int /\ curve[k] = curve[i + 1]
      BY <1>0, <1>1, <2>2, <3>1
    <3> DEFINE here == curve[h]
               low == curve[i + 1]
               peak == d.peak
               amount == d.amount
    <3>3. here \in Int /\ low \in Int /\ peak \in Int /\ amount \in Int
          /\ here <= peak /\ peak - low <= amount
      BY <1>0, <1>1, <3>2
    <3> HIDE DEF here, low, peak, amount
    <3>4. here - low <= amount
      BY <3>3
    <3> QED
      BY <3>2, <3>4 DEF here, low, amount
  <2>3. CASE k # i + 1
    <3>1. k \in 1 .. i
      BY <2>3
    <3> QED
      BY <1>1, <3>1
  <2> QED
    BY <2>1, <2>2, <2>3
<1>3. d.top \in 1 .. i + 1 /\ d.trough \in d.top .. i + 1
  <2> DEFINE top == d.top
             trough == d.trough
  <2>1. top \in 1 .. i /\ trough \in top .. i
    BY <1>1
  <2> HIDE DEF top, trough
  <2>2. top \in 1 .. i + 1 /\ trough \in top .. i + 1
    BY <2>1
  <2> QED
    BY <2>2 DEF top, trough
<1> QED
  BY <1>1, <1>2, <1>3 DEF FallAfter

(* A deeper point moves the fall. *)
LEMMA FallMoved ==
  ASSUME NEW i \in Nat \ {0}, NEW n \in Nat, i < n, NEW curve \in [1 .. n -> Int],
         NEW d \in DrawType, NEW t \in DrawType, PeakAfter(curve, i, d), FallAfter(curve, i, d),
         curve[i + 1] < d.peak, d.peak - curve[i + 1] > d.amount,
         t.amount = d.peak - curve[i + 1], t.from = d.peak, t.top = d.peakAt, t.trough = i + 1
  PROVE  FallAfter(curve, i + 1, t)
<1>0. (\A k \in 1 .. i : k \in 1 .. n /\ curve[k] \in Int) /\ i + 1 \in 1 .. n /\ curve[i + 1] \in Int
  OBVIOUS
<1>1. /\ d.peakAt \in 1 .. i /\ d.peak = curve[d.peakAt]
      /\ \A k \in 1 .. i : \A h \in 1 .. k : curve[h] - curve[k] <= d.amount
      /\ \A k \in 1 .. i : curve[k] <= d.peak
      /\ d.peak \in Int /\ d.amount \in Int /\ curve[i + 1] \in Int
  BY <1>0 DEF FallAfter, PeakAfter, DrawType
<1>2. ASSUME NEW k \in 1 .. i, NEW h \in 1 .. k PROVE curve[h] - curve[k] < t.amount
  <2>1. curve[h] - curve[k] <= d.amount /\ curve[h] \in Int /\ curve[k] \in Int
    BY <1>0, <1>1, SMTT(30)
  <2> DEFINE fall == curve[h] - curve[k]
             amount == d.amount
             larger == d.peak - curve[i + 1]
  <2>2. fall \in Int /\ amount \in Int /\ larger \in Int
    <3>1. fall \in Int
      BY <2>1
    <3>2. amount \in Int
      BY <1>1
    <3>3. larger \in Int
      BY <1>1
    <3> QED
      BY <3>1, <3>2, <3>3
  <2>4. fall <= amount
    BY <2>1
  <2>5. larger > amount
    OBVIOUS
  <2> HIDE DEF fall, amount, larger
  <2>3. fall < larger
    BY <2>2, <2>4, <2>5
  <2> QED
    BY <2>3 DEF fall, larger
<1>3. ASSUME NEW h \in 1 .. i + 1 PROVE curve[h] - curve[i + 1] <= t.amount
  <2>1. CASE h = i + 1
    BY <1>1, <2>1
  <2>2. CASE h # i + 1
    <3>1. h \in 1 .. i
      BY <2>2
    <3> DEFINE value == curve[h]
               next == curve[i + 1]
               peak == d.peak
    <3>2. value <= peak
      BY <1>1, <3>1
    <3>3. value \in Int /\ next \in Int /\ peak \in Int
      BY <1>0, <1>1, <3>1
    <3>4. t.amount = peak - next
      OBVIOUS
    <3> HIDE DEF value, next, peak
    <3>5. value - next <= peak - next
      BY <3>2, <3>3
    <3> QED
      BY <3>4, <3>5 DEF value, next
  <2> QED
    BY <2>1, <2>2
<1>4. ASSUME NEW k \in 1 .. i + 1, NEW h \in 1 .. k PROVE curve[h] - curve[k] <= t.amount
  <2>1. CASE k = i + 1
    BY <1>3, <2>1
  <2>2. CASE k # i + 1
    <3>0. k \in 1 .. i /\ h \in 1 .. i
      BY <2>2
    <3>1. curve[h] - curve[k] < t.amount /\ curve[h] \in Int /\ curve[k] \in Int
      BY <1>0, <1>2, <3>0
    <3> QED
      BY <1>1, <3>1, SMTT(30)
  <2> QED
    BY <2>1, <2>2
<1>5. t.top \in 1 .. i + 1 /\ t.trough \in t.top .. i + 1 /\ curve[t.top] - curve[t.trough] = t.amount
      /\ curve[t.top] = t.from /\ t.trough - 1 = i
  BY <1>1
<1> QED
  BY <1>2, <1>4, <1>5 DEF FallAfter

(* After every point: the peak, the fall and the run below the peak. *)
LEMMA DrawdownIsSound ==
  ASSUME NEW n \in Nat \ {0}, NEW curve \in [1 .. n -> Int]
  PROVE  LET d == Drawdown(curve)
         IN /\ d \in DrawType
            /\ PeakAfter(curve, n, d) /\ FallAfter(curve, n, d)
            /\ RunAt(SunkAt(curve, n), n, d.duration, d.longest)
<1> DEFINE U == SunkAt(curve, n)
<1>1. PICK after \in [0 .. n -> DrawType] :
        /\ after[0] = StartOf(curve) /\ \A i \in 1 .. n : after[i] = Observe(after[i - 1], curve[i], i)
        /\ Drawdown(curve) = after[n]
  BY DrawdownUnfolds
<1> DEFINE Seen(i) == /\ RunAt(U, i, after[i].duration, after[i].longest)
                      /\ i # 0 => PeakAfter(curve, i, after[i]) /\ FallAfter(curve, i, after[i])
           T == {i \in 0 .. n : Seen(i)}
<1>2. 0 \in T
  <2>1. after[0].duration = 0 /\ after[0].longest = 0
    BY <1>1 DEF StartOf
  <2> QED
    BY <2>1, RunStarts
<1>3. ASSUME NEW i \in T, i < n
      PROVE  i + 1 \in T
  <2> DEFINE s == after[i]
             t == after[i + 1]
             equity == curve[i + 1]
  <2>1. /\ i \in Nat /\ i < n /\ i + 1 \in 1 .. n /\ i + 1 \in Int /\ (i + 1) - 1 = i
        /\ s \in DrawType /\ t \in DrawType /\ equity \in Int
        /\ RunAt(U, i, s.duration, s.longest)
        /\ i # 0 => PeakAfter(curve, i, s) /\ FallAfter(curve, i, s)
    BY <1>3
  <2>2. t = Observe(s, equity, i + 1)
    BY <1>1, <2>1
  <2>3. i + 1 \in U <=> \E h \in 1 .. i + 1 : curve[h] > curve[i + 1]
    BY <2>1 DEF SunkAt
  <2>4. i = 0 => s = StartOf(curve)
    BY <1>1
  <2>5. s.peak \in Int
    BY <2>1 DEF DrawType
  <2>6. \A k \in 1 .. i + 1 : k \in 1 .. n /\ curve[k] \in Int
    BY <2>1
  <2>7. \A k \in 1 .. i : curve[k] <= s.peak
    <3>1. CASE i = 0
      BY <3>1
    <3>2. CASE i # 0
      BY <2>1, <3>2 DEF PeakAfter
    <3> QED
      BY <3>1, <3>2
  <2>8. SUFFICES /\ RunAt(U, i + 1, t.duration, t.longest)
                 /\ PeakAfter(curve, i + 1, t) /\ FallAfter(curve, i + 1, t)
    <3> HIDE DEF U
    <3> QED
      BY <2>1, <2>8
  <2> HIDE DEF U, s, t
  <2>9. CASE i = 0
    <3>1. /\ s.peak = curve[1] /\ s.peakAt = 1 /\ s.amount = 0 /\ s.from = curve[1]
          /\ s.top = 1 /\ s.trough = 1
          /\ s.duration = 0 /\ s.longest = 0
      BY <2>4, <2>9 DEF StartOf
    <3>2. /\ t.peak = curve[1] /\ t.peakAt = 1 /\ t.amount = 0 /\ t.from = curve[1]
          /\ t.top = 1 /\ t.trough = 1
          /\ t.duration = 0 /\ t.longest = 0
      BY <2>1, <2>2, <2>9, <3>1, OnPeak
    <3>3. i + 1 \notin U
      BY <2>1, <2>3, <2>9
    <3>4. RunAt(U, i + 1, 0, 0)
      BY <2>1, <3>1, <3>3, RunBreaks
    <3>5. curve[1] \in Int /\ curve[1] - curve[1] = 0
      BY <2>1, <2>9
    <3>6. PeakAfter(curve, i + 1, t)
      BY <2>9, <3>2, <3>5 DEF PeakAfter
    <3>7. FallAfter(curve, i + 1, t)
      BY <2>9, <3>2, <3>5 DEF FallAfter
    <3> QED
      BY <3>2, <3>4, <3>6, <3>7
  <2>10. CASE i # 0
    <3>1. i \in Nat \ {0} /\ PeakAfter(curve, i, s) /\ FallAfter(curve, i, s)
      BY <2>1, <2>10
    <3>2. s.peakAt \in 1 .. i /\ s.peak = curve[s.peakAt]
          /\ s.top \in Int /\ s.trough \in Int /\ s.amount \in Int
      BY <2>1, <3>1 DEF PeakAfter, DrawType
    <3>3. CASE equity > s.peak
      <4>1. /\ t.peak = equity /\ t.peakAt = i + 1 /\ t.duration = 0
            /\ t.amount = s.amount /\ t.from = s.from /\ t.top = s.top /\ t.trough = s.trough
            /\ t.longest = s.longest
        BY <2>1, <2>2, <3>3, AbovePeak
      <4>2. \A k \in 1 .. i + 1 : curve[k] <= equity
        <5> SUFFICES ASSUME NEW k \in 1 .. i + 1 PROVE curve[k] <= equity
          OBVIOUS
        <5>1. CASE k = i + 1
          BY <2>1, <5>1
        <5>2. CASE k # i + 1
          <6>1. k \in 1 .. i
            BY <2>1, <5>2
          <6>2. curve[k] \in Int /\ curve[k] <= s.peak
            BY <2>6, <2>7, <6>1
          <6> QED
            BY <2>1, <2>5, <3>3, <6>2
        <5> QED
          BY <5>1, <5>2
      <4>3. i + 1 \notin U
        BY <2>1, <2>3, <2>6, <4>2
      <4>4. RunAt(U, i + 1, t.duration, t.longest)
        BY <2>1, <4>1, <4>3, RunBreaks
      <4>5. PeakAfter(curve, i + 1, t)
        BY <2>1, <4>1, <4>2 DEF PeakAfter
      <4>6. s.peak - curve[i + 1] <= s.amount
        <5>1. curve[1] - curve[1] <= s.amount /\ curve[1] \in Int
          BY <2>6, <3>1 DEF FallAfter
        <5> QED
          BY <2>1, <2>5, <3>2, <3>3, <5>1
      <4>7. FallAfter(curve, i + 1, t)
        BY <2>1, <3>1, <4>1, <4>6, FallKept
      <4> QED
        BY <4>4, <4>5, <4>7
    <3>4. CASE equity = s.peak
      <4>1. /\ t.peak = s.peak /\ t.peakAt = s.peakAt /\ t.duration = 0
            /\ t.amount = s.amount /\ t.from = s.from /\ t.top = s.top /\ t.trough = s.trough
            /\ t.longest = s.longest
        BY <2>1, <2>2, <3>4, OnPeak
      <4>2. \A k \in 1 .. i + 1 : curve[k] <= s.peak
        BY <2>1, <2>7, <3>4
      <4>3. i + 1 \notin U
        BY <2>1, <2>3, <2>6, <3>4, <4>2
      <4>4. RunAt(U, i + 1, t.duration, t.longest)
        BY <2>1, <4>1, <4>3, RunBreaks
      <4>5. PeakAfter(curve, i + 1, t)
        BY <2>1, <3>2, <4>1, <4>2 DEF PeakAfter
      <4>6. s.peak - curve[i + 1] <= s.amount
        <5>1. curve[1] - curve[1] <= s.amount /\ curve[1] \in Int
          BY <2>6, <3>1 DEF FallAfter
        <5> QED
          BY <2>1, <2>5, <3>2, <3>4, <5>1
      <4>7. FallAfter(curve, i + 1, t)
        BY <2>1, <3>1, <4>1, <4>6, FallKept
      <4> QED
        BY <4>4, <4>5, <4>7
    <3>5. CASE equity < s.peak
      <4>1. /\ t.peak = s.peak /\ t.peakAt = s.peakAt /\ t.duration = s.duration + 1
            /\ t.longest = Longer(s.duration, s.longest)
            /\ s.peak - equity > s.amount =>
                 t.amount = s.peak - equity /\ t.from = s.peak /\ t.top = s.peakAt /\ t.trough = i + 1
            /\ ~(s.peak - equity > s.amount) =>
                 t.amount = s.amount /\ t.from = s.from /\ t.top = s.top /\ t.trough = s.trough
        BY <2>1, <2>2, <3>5, UnderPeak
      <4>2. \A k \in 1 .. i + 1 : curve[k] <= s.peak
        BY <2>1, <2>5, <2>7, <3>5
      <4>3. i + 1 \in U
        <5>1. s.peakAt \in 1 .. i + 1 /\ curve[s.peakAt] > curve[i + 1]
          BY <2>1, <3>2, <3>5
        <5> QED
          BY <2>3, <5>1
      <4>4. RunAt(U, i + 1, t.duration, t.longest)
        BY <2>1, <4>1, <4>3, RunGrows
      <4>5. PeakAfter(curve, i + 1, t)
        BY <2>1, <3>2, <4>1, <4>2 DEF PeakAfter
      <4>6. CASE s.peak - equity > s.amount
        <5>1. FallAfter(curve, i + 1, t)
          BY <2>1, <3>1, <3>5, <4>1, <4>6, FallMoved
        <5> QED
          BY <4>4, <4>5, <5>1
      <4>7. CASE ~(s.peak - equity > s.amount)
        <5>1. s.peak - curve[i + 1] <= s.amount
          BY <2>1, <2>5, <3>2, <4>7, SMTT(30)
        <5>2. FallAfter(curve, i + 1, t)
          BY <2>1, <3>1, <4>1, <4>7, <5>1, FallKept
        <5> QED
          BY <4>4, <4>5, <5>2
      <4> QED
        BY <4>6, <4>7
    <3> QED
      BY <2>1, <2>5, <3>3, <3>4, <3>5
  <2> QED
    BY <2>9, <2>10
<1> HIDE DEF Seen
<1>4. T = 0 .. n
  BY <1>2, <1>3, Induct
<1>5. Seen(n)
  <2>1. n \in 0 .. n
    OBVIOUS
  <2>2. n \in T
    BY <1>4, <2>1, Zenon
  <2> QED
    BY <2>2
<1>6. after[n] \in DrawType
  OBVIOUS
<1> QED
  BY <1>1, <1>5, <1>6 DEF Seen

-----------------------------------------------------------------------------
(* Sequences of checks.                                                    *)

CheckType(codes) == [code : codes, fails : BOOLEAN]
Clean(checks) == \A i \in 1 .. Len(checks) : ~checks[i].fails

(* The outcome names a failing check, the first, unless there is none. *)
LEMMA FirstFailingIsFirst ==
  ASSUME NEW codes, "NONE" \notin codes, NEW checks \in Seq(CheckType(codes))
  PROVE  /\ FirstFailing(checks) = "NONE" <=> Clean(checks)
         /\ FirstFailing(checks) # "NONE" =>
              \E i \in 1 .. Len(checks) : /\ checks[i].fails /\ checks[i].code = FirstFailing(checks)
                                          /\ \A j \in 1 .. i - 1 : ~checks[j].fails
<1> DEFINE n == Len(checks)
           failing == {i \in 1 .. n : checks[i].fails}
           Is(i) == checks[i].fails /\ \A j \in 1 .. n : j < i => ~checks[j].fails
           first == CHOOSE i \in 1 .. n : Is(i)
<1>1. n \in Nat /\ DOMAIN checks = 1 .. n
  OBVIOUS
<1>2. \A i \in 1 .. n : checks[i] \in CheckType(codes)
  OBVIOUS
<1>3. FirstFailing(checks) = IF failing # {} THEN checks[first].code ELSE "NONE"
  BY <1>1 DEF FirstFailing, Fails
<1>4. ASSUME failing # {}
      PROVE  first \in 1 .. n /\ Is(first)
  <2>1. failing \in SUBSET Nat
    BY <1>1
  <2>2. PICK m \in failing : \A k \in failing : m <= k
    <3> HIDE DEF failing
    <3> QED
      BY <1>4, <2>1, Least
  <2>3. m \in 1 .. n /\ Is(m)
    BY <1>1, <2>2
  <2> HIDE DEF Is
  <2> QED
    BY <2>3
<1> HIDE DEF first
<1>5. failing # {} => /\ first \in 1 .. n /\ checks[first].fails /\ checks[first].code # "NONE"
                      /\ \A j \in 1 .. first - 1 : ~checks[j].fails
  BY <1>1, <1>2, <1>4 DEF CheckType
<1> QED
  BY <1>3, <1>5 DEF Clean

(* Of two sequences of checks, one after the other, none fails if none of each does. *)
LEMMA CleanConcat ==
  ASSUME NEW codes, NEW s \in Seq(CheckType(codes)), NEW t \in Seq(CheckType(codes))
  PROVE  s \o t \in Seq(CheckType(codes)) /\ (Clean(s \o t) <=> Clean(s) /\ Clean(t))
<1> DEFINE u == s \o t
<1>1. /\ u \in Seq(CheckType(codes)) /\ Len(u) = Len(s) + Len(t)
      /\ \A i \in 1 .. Len(s) + Len(t) : u[i] = IF i <= Len(s) THEN s[i] ELSE t[i - Len(s)]
  BY ConcatProperties
<1>2. Len(s) \in Nat /\ Len(t) \in Nat
  OBVIOUS
<1> HIDE DEF u
<1>3. ASSUME Clean(u) PROVE Clean(s) /\ Clean(t)
  <2>1. \A i \in 1 .. Len(s) : i \in 1 .. Len(u) /\ u[i] = s[i]
    BY <1>1, <1>2
  <2>2. ASSUME NEW i \in 1 .. Len(t)
        PROVE  i + Len(s) \in 1 .. Len(u) /\ u[i + Len(s)] = t[i]
    <3> DEFINE at == i + Len(s)
    <3>1. at \in 1 .. Len(s) + Len(t) /\ ~(at <= Len(s)) /\ at - Len(s) = i
      BY <1>2
    <3> HIDE DEF at
    <3>2. u[at] = t[at - Len(s)]
      BY <1>1, <3>1
    <3> QED
      BY <1>1, <3>1, <3>2 DEF at
  <2> QED
    BY <1>3, <2>1, <2>2 DEF Clean
<1>4. ASSUME Clean(s), Clean(t) PROVE Clean(u)
  <2> SUFFICES ASSUME NEW i \in 1 .. Len(u) PROVE ~u[i].fails
    BY DEF Clean
  <2>1. CASE i <= Len(s)
    BY <1>1, <1>2, <1>4, <2>1 DEF Clean
  <2>2. CASE ~(i <= Len(s))
    <3>1. i - Len(s) \in 1 .. Len(t) /\ u[i] = t[i - Len(s)]
      BY <1>1, <1>2, <2>2
    <3> QED
      BY <1>4, <3>1 DEF Clean
  <2> QED
    BY <2>1, <2>2
<1> QED
  BY <1>1, <1>3, <1>4 DEF u

(* Checks made in a loop, part by part. *)
Joins(n, upTo, parts) == upTo[0] = <<>> /\ \A i \in 1 .. n : upTo[i] = upTo[i - 1] \o parts[i]

(* The loop has its sequences of checks. *)
LEMMA JoinExists ==
  ASSUME NEW codes, NEW n \in Nat, NEW parts \in [1 .. n -> Seq(CheckType(codes))]
  PROVE  \E upTo \in [0 .. n -> Seq(CheckType(codes))] : Joins(n, upTo, parts)
<1> DEFINE step == [i \in 1 .. n |-> [s \in Seq(CheckType(codes)) |-> s \o parts[i]]]
<1>1. step \in [1 .. n -> [Seq(CheckType(codes)) -> Seq(CheckType(codes))]]
  BY CleanConcat
<1>2. <<>> \in Seq(CheckType(codes))
  OBVIOUS
<1> HIDE DEF step
<1>3. HasRun(n, Seq(CheckType(codes)), <<>>, step)
  BY <1>1, <1>2, LoopRuns
<1>4. PICK f \in [0 .. n -> Seq(CheckType(codes))] : f[0] = <<>> /\ \A i \in 1 .. n : f[i] = step[i][f[i - 1]]
  BY <1>3 DEF HasRun
<1>5. \A i \in 1 .. n : f[i] = f[i - 1] \o parts[i]
  <2> SUFFICES ASSUME NEW i \in 1 .. n PROVE f[i] = f[i - 1] \o parts[i]
    OBVIOUS
  <2>1. f[i - 1] \in Seq(CheckType(codes))
    OBVIOUS
  <2> QED
    BY <1>4, <2>1 DEF step
<1> QED
  BY <1>4, <1>5 DEF Joins

(* Of the checks of all parts none fails if none of any part does. *)
LEMMA JoinIsClean ==
  ASSUME NEW codes, NEW n \in Nat, NEW parts \in [1 .. n -> Seq(CheckType(codes))], NEW upTo, Joins(n, upTo, parts)
  PROVE  upTo[n] \in Seq(CheckType(codes)) /\ (Clean(upTo[n]) <=> \A i \in 1 .. n : Clean(parts[i]))
<1> DEFINE Good(i) == upTo[i] \in Seq(CheckType(codes)) /\ (Clean(upTo[i]) <=> \A j \in 1 .. i : Clean(parts[j]))
           T == {i \in 0 .. n : Good(i)}
<1>1. 0 \in T
  <2>1. upTo[0] = <<>> /\ <<>> \in Seq(CheckType(codes)) /\ Len(<<>>) = 0
    BY DEF Joins
  <2>2. Clean(<<>>)
    BY <2>1 DEF Clean
  <2> HIDE DEF Clean
  <2>3. Good(0)
    BY <2>1, <2>2
  <2> QED
    BY <2>3
<1>2. ASSUME NEW i \in T, i < n
      PROVE  i + 1 \in T
  <2>1. /\ i \in 0 .. n /\ i + 1 \in 1 .. n /\ (i + 1) - 1 = i /\ Good(i) /\ parts[i + 1] \in Seq(CheckType(codes))
    BY <1>2
  <2>2. upTo[i + 1] = upTo[i] \o parts[i + 1]
    BY <2>1 DEF Joins
  <2>3. /\ upTo[i + 1] \in Seq(CheckType(codes))
        /\ Clean(upTo[i + 1]) <=> (\A j \in 1 .. i : Clean(parts[j])) /\ Clean(parts[i + 1])
    BY <2>1, <2>2, CleanConcat
  <2>4. \A j \in 1 .. i + 1 : j \in 1 .. i \/ j = i + 1
    BY <2>1
  <2>5. \A j \in 1 .. i : j \in 1 .. i + 1
    BY <2>1
  <2> QED
    BY <2>1, <2>3, <2>4, <2>5
<1> HIDE DEF Good
<1>3. T = 0 .. n
  BY <1>1, <1>2, Induct
<1>4. n \in 0 .. n
  OBVIOUS
<1>5. n \in T
  BY <1>3, <1>4, Zenon
<1> QED
  BY <1>5 DEF Good

(* Of two sequences of checks, the second counts if the first finds nothing. *)
LEMMA FirstOfConcat ==
  ASSUME NEW codes, "NONE" \notin codes,
         NEW s \in Seq(CheckType(codes)), NEW t \in Seq(CheckType(codes))
  PROVE  /\ s \o t \in Seq(CheckType(codes))
         /\ FirstFailing(s \o t) = IF FirstFailing(s) # "NONE" THEN FirstFailing(s) ELSE FirstFailing(t)
<1> DEFINE u == s \o t
           ls == Len(s)
           lt == Len(t)
           First(c, i) == c[i].fails /\ FirstFailing(c) = c[i].code /\ \A j \in 1 .. i - 1 : ~c[j].fails
<1>1. /\ u \in Seq(CheckType(codes)) /\ Len(u) = ls + lt
      /\ \A i \in 1 .. ls + lt : u[i] = IF i <= ls THEN s[i] ELSE t[i - ls]
      /\ Clean(u) <=> Clean(s) /\ Clean(t)
  BY ConcatProperties, CleanConcat
<1>2. ls \in Nat /\ lt \in Nat
  OBVIOUS
<1>3. ASSUME NEW c \in Seq(CheckType(codes))
      PROVE  /\ FirstFailing(c) = "NONE" <=> Clean(c)
             /\ FirstFailing(c) # "NONE" => \E i \in 1 .. Len(c) : First(c, i)
  BY FirstFailingIsFirst
<1> HIDE DEF u, First
<1>4. CASE Clean(s) /\ Clean(t)
  BY <1>1, <1>3, <1>4 DEF u
<1>5. CASE ~Clean(s)
  <2>1. PICK i \in 1 .. ls : First(s, i)
    BY <1>3, <1>5
  <2>2. PICK j \in 1 .. Len(u) : First(u, j)
    BY <1>1, <1>3, <1>5
  <2>3. i \in 1 .. Len(u) /\ u[i] = s[i] /\ s[i].fails
    BY <1>1, <1>2, <2>1 DEF First
  <2>4. j <= i
    BY <1>1, <1>2, <2>2, <2>3 DEF First
  <2>5. j \in 1 .. ls /\ u[j] = s[j] /\ s[j].fails
    BY <1>1, <1>2, <2>1, <2>2, <2>4 DEF First
  <2>6. ~(j < i)
    BY <1>2, <2>1, <2>5 DEF First
  <2>7. i = j
    BY <1>1, <1>2, <2>4, <2>6
  <2>8. FirstFailing(u) = FirstFailing(s) /\ FirstFailing(s) # "NONE"
    BY <1>3, <1>5, <2>1, <2>2, <2>3, <2>7 DEF First
  <2> QED
    BY <1>1, <2>8 DEF u
<1>6. CASE Clean(s) /\ ~Clean(t)
  <2>1. PICK i \in 1 .. lt : First(t, i)
    BY <1>3, <1>6
  <2>2. PICK j \in 1 .. Len(u) : First(u, j)
    BY <1>1, <1>3, <1>6
  <2> DEFINE k == i + ls
             h == j - ls
  <2>3. k \in 1 .. ls + lt /\ ~(k <= ls) /\ k - ls = i /\ k \in Int /\ j \in 1 .. ls + lt /\ j \in Int
    BY <1>1, <1>2
  <2>4. u[k] = t[i]
    <3> HIDE DEF k
    <3> QED
      BY <1>1, <2>3
  <2>5. ~(k < j)
    <3>1. t[i].fails
      BY <2>1 DEF First
    <3>2. k < j => k \in 1 .. j - 1
      BY <1>1, <1>2, <2>3
    <3> HIDE DEF k
    <3> QED
      BY <2>2, <2>4, <3>1, <3>2 DEF First
  <2>6. ~(j <= ls)
    <3> SUFFICES ASSUME j <= ls PROVE FALSE
      OBVIOUS
    <3>1. j \in 1 .. ls /\ u[j] = s[j]
      BY <1>1, <1>2
    <3> QED
      BY <1>6, <2>2, <3>1 DEF Clean, First
  <2>7. h \in 1 .. lt /\ h <= i /\ u[j] = t[h]
    BY <1>1, <1>2, <2>3, <2>5, <2>6
  <2>8. ~(h < i)
    <3>1. u[j].fails
      BY <2>2 DEF First
    <3>2. h < i => h \in 1 .. i - 1
      BY <2>7
    <3> HIDE DEF h
    <3> QED
      BY <2>1, <2>7, <3>1, <3>2 DEF First
  <2>9. h = i
    BY <2>7, <2>8
  <2>10. FirstFailing(u) = FirstFailing(t) /\ FirstFailing(s) = "NONE"
    <3>1. u[j] = t[i]
      BY <2>7, <2>9
    <3> QED
      BY <1>3, <1>6, <2>1, <2>2, <3>1 DEF First
  <2> QED
    BY <1>1, <2>10 DEF u
<1> QED
  BY <1>4, <1>5, <1>6

(* One check. *)
LEMMA FirstOfOne ==
  ASSUME NEW codes, "NONE" \notin codes, NEW a \in codes, NEW x \in BOOLEAN
  PROVE  /\ <<Check(a, x)>> \in Seq(CheckType(codes))
         /\ FirstFailing(<<Check(a, x)>>) = IF x THEN a ELSE "NONE"
<1> DEFINE c == <<Check(a, x)>>
<1>1. Check(a, x) \in CheckType(codes) /\ (Check(a, x).fails <=> x) /\ Check(a, x).code = a
  BY DEF Check, CheckType
<1>2. c \in Seq(CheckType(codes)) /\ Len(c) = 1 /\ c[1] = Check(a, x)
  BY <1>1
<1> HIDE DEF c
<1>3. FirstFailing(c) = "NONE" <=> Clean(c)
  BY <1>2, FirstFailingIsFirst
<1>4. FirstFailing(c) # "NONE" => \E i \in 1 .. 1 : c[i].code = FirstFailing(c)
  BY <1>2, FirstFailingIsFirst
<1>5. Clean(c) <=> ~x
  BY <1>1, <1>2 DEF Clean
<1> QED
  BY <1>1, <1>2, <1>3, <1>4, <1>5 DEF c

Three(a, x, b, y, c, z) == <<Check(a, x), Check(b, y), Check(c, z)>>

(* Three checks. *)
LEMMA FirstOfThree ==
  ASSUME NEW codes, "NONE" \notin codes,
         NEW a \in codes, NEW x \in BOOLEAN,
         NEW b \in codes, NEW y \in BOOLEAN,
         NEW c \in codes, NEW z \in BOOLEAN
  PROVE  /\ Three(a, x, b, y, c, z) \in Seq(CheckType(codes))
         /\ FirstFailing(Three(a, x, b, y, c, z)) =
              IF x THEN a ELSE IF y THEN b ELSE IF z THEN c ELSE "NONE"
<1> DEFINE checks == <<Check(a, x), Check(b, y), Check(c, z)>>
<1>1. \A e \in codes : \A v \in BOOLEAN :
        Check(e, v) \in CheckType(codes) /\ (Check(e, v).fails <=> v) /\ Check(e, v).code = e
  BY DEF Check, CheckType
<1>2. /\ checks \in Seq(CheckType(codes)) /\ Len(checks) = 3
      /\ checks[1].code = a /\ (checks[1].fails <=> x)
      /\ checks[2].code = b /\ (checks[2].fails <=> y)
      /\ checks[3].code = c /\ (checks[3].fails <=> z)
  BY <1>1
<1> HIDE DEF checks
<1>3. 1 .. 3 = {1, 2, 3}
  OBVIOUS
<1>4. /\ FirstFailing(checks) = "NONE" <=> Clean(checks)
      /\ FirstFailing(checks) # "NONE" =>
           \E k \in 1 .. 3 : /\ checks[k].fails /\ checks[k].code = FirstFailing(checks)
                             /\ \A j \in 1 .. k - 1 : ~checks[j].fails
  BY <1>2, FirstFailingIsFirst
<1>5. Clean(checks) <=> ~x /\ ~y /\ ~z
  BY <1>2, <1>3 DEF Clean
<1>6. ASSUME x
      PROVE  FirstFailing(checks) = a
  <2>1. PICK k \in 1 .. 3 : /\ checks[k].fails /\ checks[k].code = FirstFailing(checks)
                           /\ \A j \in 1 .. k - 1 : ~checks[j].fails
    BY <1>4, <1>5, <1>6
  <2>2. k = 1
    <3>1. k \in {1, 2, 3}
      BY <1>3
    <3>2. ~(k > 1)
      BY <1>2, <1>6, <2>1
    <3>3. k >= 1
      BY <1>2, <1>6, <2>1, <3>1
    <3> QED
      BY <3>1, <3>2, <3>3
  <2> QED
    BY <1>2, <2>1, <2>2
<1>7. ASSUME y, ~x
      PROVE  FirstFailing(checks) = b
  <2>1. PICK k \in 1 .. 3 : /\ checks[k].fails /\ checks[k].code = FirstFailing(checks)
                           /\ \A j \in 1 .. k - 1 : ~checks[j].fails
    BY <1>4, <1>5, <1>7
  <2>2. k = 2
    <3>1. k \in {1, 2, 3}
      BY <1>3
    <3>2. ~(k > 2)
      BY <1>2, <1>7, <2>1
    <3>3. k >= 2
      BY <1>2, <1>7, <2>1, <3>1
    <3> QED
      BY <3>1, <3>2, <3>3
  <2> QED
    BY <1>2, <2>1, <2>2
<1>8. ASSUME z, ~x, ~y
      PROVE  FirstFailing(checks) = c
  <2>1. PICK k \in 1 .. 3 : /\ checks[k].fails /\ checks[k].code = FirstFailing(checks)
                           /\ \A j \in 1 .. k - 1 : ~checks[j].fails
    BY <1>4, <1>5, <1>8
  <2>2. k = 3
    <3>1. k \in {1, 2, 3}
      BY <1>3
    <3>2. ~(k > 3)
      BY <1>2, <1>8, <2>1
    <3>3. k >= 3
      BY <1>2, <1>8, <2>1, <3>1
    <3> QED
      BY <3>1, <3>2, <3>3
  <2> QED
    BY <1>2, <2>1, <2>2
<1> QED
  BY <1>2, <1>4, <1>5, <1>6, <1>7, <1>8 DEF checks, Three

Four(a, x, b, y, c, z, d, w) == <<Check(a, x), Check(b, y), Check(c, z), Check(d, w)>>

(* Four checks. *)
LEMMA FirstOfFour ==
  ASSUME NEW codes, "NONE" \notin codes,
         NEW a \in codes, NEW x \in BOOLEAN,
         NEW b \in codes, NEW y \in BOOLEAN,
         NEW c \in codes, NEW z \in BOOLEAN,
         NEW d \in codes, NEW w \in BOOLEAN
  PROVE  /\ Four(a, x, b, y, c, z, d, w) \in Seq(CheckType(codes))
         /\ FirstFailing(Four(a, x, b, y, c, z, d, w)) =
              IF x THEN a ELSE IF y THEN b ELSE IF z THEN c ELSE IF w THEN d ELSE "NONE"
<1> DEFINE checks == <<Check(a, x), Check(b, y), Check(c, z), Check(d, w)>>
<1>1. \A e \in codes : \A v \in BOOLEAN :
        Check(e, v) \in CheckType(codes) /\ (Check(e, v).fails <=> v) /\ Check(e, v).code = e
  BY DEF Check, CheckType
<1>2. /\ checks \in Seq(CheckType(codes)) /\ Len(checks) = 4
      /\ checks[1].code = a /\ (checks[1].fails <=> x)
      /\ checks[2].code = b /\ (checks[2].fails <=> y)
      /\ checks[3].code = c /\ (checks[3].fails <=> z)
      /\ checks[4].code = d /\ (checks[4].fails <=> w)
  BY <1>1
<1> HIDE DEF checks
<1>3. 1 .. 4 = {1, 2, 3, 4}
  OBVIOUS
<1>4. /\ FirstFailing(checks) = "NONE" <=> Clean(checks)
      /\ FirstFailing(checks) # "NONE" =>
           \E k \in 1 .. 4 : /\ checks[k].fails /\ checks[k].code = FirstFailing(checks)
                             /\ \A j \in 1 .. k - 1 : ~checks[j].fails
  BY <1>2, FirstFailingIsFirst
<1>5. Clean(checks) <=> ~x /\ ~y /\ ~z /\ ~w
  BY <1>2, <1>3 DEF Clean
<1>6. ASSUME x
      PROVE  FirstFailing(checks) = a
  <2>1. PICK k \in 1 .. 4 : /\ checks[k].fails /\ checks[k].code = FirstFailing(checks)
                           /\ \A j \in 1 .. k - 1 : ~checks[j].fails
    BY <1>4, <1>5, <1>6
  <2>2. k = 1
    <3>1. k \in {1, 2, 3, 4}
      BY <1>3
    <3>2. ~(k > 1)
      BY <1>2, <1>6, <2>1
    <3>3. k >= 1
      BY <1>2, <1>6, <2>1, <3>1
    <3> QED
      BY <3>1, <3>2, <3>3
  <2> QED
    BY <1>2, <2>1, <2>2
<1>7. ASSUME y, ~x
      PROVE  FirstFailing(checks) = b
  <2>1. PICK k \in 1 .. 4 : /\ checks[k].fails /\ checks[k].code = FirstFailing(checks)
                           /\ \A j \in 1 .. k - 1 : ~checks[j].fails
    BY <1>4, <1>5, <1>7
  <2>2. k = 2
    <3>1. k \in {1, 2, 3, 4}
      BY <1>3
    <3>2. ~(k > 2)
      BY <1>2, <1>7, <2>1
    <3>3. k >= 2
      BY <1>2, <1>7, <2>1, <3>1
    <3> QED
      BY <3>1, <3>2, <3>3
  <2> QED
    BY <1>2, <2>1, <2>2
<1>8. ASSUME z, ~x, ~y
      PROVE  FirstFailing(checks) = c
  <2>1. PICK k \in 1 .. 4 : /\ checks[k].fails /\ checks[k].code = FirstFailing(checks)
                           /\ \A j \in 1 .. k - 1 : ~checks[j].fails
    BY <1>4, <1>5, <1>8
  <2>2. k = 3
    <3>1. k \in {1, 2, 3, 4}
      BY <1>3
    <3>2. ~(k > 3)
      BY <1>2, <1>8, <2>1
    <3>3. k >= 3
      BY <1>2, <1>8, <2>1, <3>1
    <3> QED
      BY <3>1, <3>2, <3>3
  <2> QED
    BY <1>2, <2>1, <2>2
<1>9. ASSUME w, ~x, ~y, ~z
      PROVE  FirstFailing(checks) = d
  <2>1. PICK k \in 1 .. 4 : /\ checks[k].fails /\ checks[k].code = FirstFailing(checks)
                           /\ \A j \in 1 .. k - 1 : ~checks[j].fails
    BY <1>4, <1>5, <1>9
  <2>2. k = 4
    <3>1. k \in {1, 2, 3, 4}
      BY <1>3
    <3>2. ~(k > 4)
      BY <1>2, <1>9, <2>1
    <3>3. k >= 4
      BY <1>2, <1>9, <2>1, <3>1
    <3> QED
      BY <3>1, <3>2, <3>3
  <2> QED
    BY <1>2, <2>1, <2>2
<1> QED
  BY <1>2, <1>4, <1>5, <1>6, <1>7, <1>8, <1>9 DEF checks, Four
=============================================================================
