------------------------------ MODULE MCProject ------------------------------
(* Bounded instances of the strategy commands for TLC.                     *)
EXTENDS ProjectSafety, TLC

(* The processes are interchangeable: no command is bound to one of them. *)
Interchangeable == Permutations(Procs)
=============================================================================
