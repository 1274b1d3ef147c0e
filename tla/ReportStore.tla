----------------------------- MODULE ReportStore -----------------------------
(***************************************************************************)
(* What write_artifacts promises (artifacts.py:183, "Publish exactly three *)
(* report files, or leave no successful report behind."), without its      *)
(* files, staging directories and probes: a set of whole reports under     *)
(* names, to which each run adds at most one, all at once, under a name    *)
(* that is free.  A run succeeds only while its report is there and fails  *)
(* only without one, and nobody touches the report of another.             *)
(***************************************************************************)
CONSTANTS Procs, Destinations, Earlier

VARIABLES
  store,    \* the whole reports: pairs of a name and the run that made it
  outcome   \* of each run: "running", "done", "failed" or "crashed"

storeVars == <<store, outcome>>

Taken == {r[1] : r \in store}
Of(p) == {r \in store : r[2] = p}
Running(p) == outcome[p] = "running"
End(p, how) == outcome' = [outcome EXCEPT ![p] = how] /\ UNCHANGED store

StoreInit ==
  /\ store \subseteq Destinations \X {Earlier}
  /\ outcome = [p \in Procs |-> "running"]

Publish(p) ==
  /\ Running(p) /\ Of(p) = {}
  /\ \E d \in Destinations \ Taken : store' = store \cup {<<d, p>>}
  /\ UNCHANGED outcome

Withdraw(p) ==
  /\ Running(p) /\ Of(p) # {}
  /\ store' = store \ Of(p)
  /\ UNCHANGED outcome

Succeed(p) == Running(p) /\ Of(p) # {} /\ End(p, "done")
Fail(p) == Running(p) /\ Of(p) = {} /\ End(p, "failed")
Crash(p) == Running(p) /\ End(p, "crashed")

StoreNext == \E p \in Procs : Publish(p) \/ Withdraw(p) \/ Succeed(p) \/ Fail(p) \/ Crash(p)
StoreSpec == StoreInit /\ [][StoreNext]_storeVars
=============================================================================
