-------------------------------- MODULE Checks --------------------------------
(* A function of the program that raises at the first failing of a fixed   *)
(* sequence of checks: each check has the code it raises with, and the     *)
(* outcome is the first code, or NONE when the function returns.           *)
EXTENDS Integers, Sequences

Check(code, fails) == [code |-> code, fails |-> fails]
Fails(checks, i) == checks[i].fails
FirstFailing(checks) ==
  IF \E i \in DOMAIN checks : Fails(checks, i)
  THEN checks[CHOOSE i \in DOMAIN checks :
                Fails(checks, i) /\ \A j \in DOMAIN checks : j < i => ~Fails(checks, j)].code
  ELSE "NONE"
=============================================================================
