-------------------------------- MODULE Sums --------------------------------
(* math.fsum over whole numbers, which reporting/metrics.py reconciles with. *)
EXTENDS Integers, Sequences

Total(s) ==
  LET sum[i \in 0 .. Len(s)] == IF i = 0 THEN 0 ELSE sum[i - 1] + s[i]
  IN sum[Len(s)]
=============================================================================
