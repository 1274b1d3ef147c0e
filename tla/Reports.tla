------------------------------- MODULE Reports -------------------------------
(***************************************************************************)
(* Publication of a report directory (reporting/artifacts.py,              *)
(* write_artifacts): runs that end at the same second, and so compete for  *)
(* one name, with calls that fail and processes that are killed.           *)
(*                                                                         *)
(* The filesystem (external): a rename onto a directory succeeds only if   *)
(* that directory is absent or empty, mkdtemp makes a directory no other   *)
(* process uses, and rmtree deletes one entry after the other.             *)
(***************************************************************************)
EXTENDS Naturals

CONSTANTS
  Procs,       \* runs that write their report
  Stamps,      \* the base names: second and shortened run identifier
  Earlier,     \* the owner of the reports of earlier runs
  Suffixes,    \* bound on the suffixes a probe may reach, Nat for none
  MaxFaults,   \* bound on failing filesystem calls
  MaxCrashes   \* bound on killed processes

ASSUME ReportsAssumption ==
  /\ Earlier \notin Procs
  /\ Suffixes \subseteq Nat /\ 0 \in Suffixes
  /\ MaxFaults \in Nat /\ MaxCrashes \in Nat

Destinations == Stamps \X Suffixes
ArtifactNames == {"summary.json", "trades.csv", "equity.csv"}
NoDirectory == [owner |-> Earlier, exists |-> FALSE, files |-> {}]
Directory(owner, files) == [owner |-> owner, exists |-> TRUE, files |-> files]
DirectoryType == [owner : Procs \cup {Earlier}, exists : BOOLEAN, files : SUBSET ArtifactNames]

VARIABLES
  report,   \* the directories below the output root, by destination
  staging,  \* the staging directory of a process
  pc,
  stamp,    \* the base name of a process
  suffix,   \* of its candidate destination
  faults, crashes

bounds == <<faults, crashes>>
reportsVars == <<report, staging, pc, stamp, suffix, bounds>>

Ended == {"done", "failed", "crashed"}
Labels == Ended \cup {"mkdir", "probe", "stage", "publish", "check", "withdraw", "discard"}
DestinationOf(p) == <<stamp[p], suffix[p]>>

Vacant(dir) == dir.files = {}

ReportsInit ==
  /\ \E used \in SUBSET Stamps :
       report = [d \in Destinations |->
                   IF d[1] \in used /\ d[2] = 0 THEN Directory(Earlier, ArtifactNames) ELSE NoDirectory]
  /\ staging = [p \in Procs |-> NoDirectory]
  /\ pc = [p \in Procs |-> "mkdir"]
  /\ stamp \in [Procs -> Stamps]
  /\ suffix = [p \in Procs |-> 0]
  /\ faults = 0 /\ crashes = 0

At(p, label) == pc[p] = label
Goto(p, label) == pc' = [pc EXCEPT ![p] = label]
Fault == faults < MaxFaults /\ faults' = faults + 1 /\ UNCHANGED crashes
NoFault == UNCHANGED bounds

(* The output root. *)
MakeRoot(p) ==
  /\ At(p, "mkdir")
  /\ \/ NoFault /\ Goto(p, "probe")
     \/ Fault /\ Goto(p, "failed")
  /\ UNCHANGED <<report, staging, stamp, suffix>>

(* _next_destination, one call of exists() per step. *)
Unprobed(p) ==  \* slip: the first candidate is taken without a look
  /\ suffix' = suffix
  /\ Goto(p, "stage")

SameSuffixAgain(p) ==  \* slip: the suffix does not advance
  /\ suffix' = suffix
  /\ Goto(p, IF report[DestinationOf(p)].exists THEN "probe" ELSE "stage")

Advance(p) ==
  /\ suffix' = [suffix EXCEPT ![p] = IF report[DestinationOf(p)].exists THEN @ + 1 ELSE @]
  /\ suffix'[p] \in Suffixes
  /\ Goto(p, IF report[DestinationOf(p)].exists THEN "probe" ELSE "stage")

Probe(p) ==
  /\ At(p, "probe")
  /\ \/ NoFault /\ Advance(p)
     \/ Fault /\ Goto(p, "failed") /\ UNCHANGED suffix
  /\ UNCHANGED <<report, staging, stamp>>

StageUnchecked(p) ==  \* slip: a failed write is not noticed and the listing not compared
  /\ At(p, "stage")
  /\ NoFault \/ Fault
  /\ \E written \in IF faults' = faults THEN {ArtifactNames} ELSE SUBSET ArtifactNames :
       staging' = [staging EXCEPT ![p] = Directory(p, written)]
  /\ Goto(p, "publish")
  /\ UNCHANGED <<report, stamp, suffix>>

(* mkdtemp, the three files written atomically one by one, and the listing *)
(* of the staging directory, none of which another process can see.  A     *)
(* failure or a rejected value at any point leaves the files before it.    *)
Stage(p) ==
  /\ At(p, "stage")
  /\ \/ /\ NoFault
        /\ staging' = [staging EXCEPT ![p] = Directory(p, ArtifactNames)]
        /\ Goto(p, "publish")
     \/ /\ Fault
        /\ \E left \in {NoDirectory} \cup {Directory(p, written) : written \in SUBSET ArtifactNames} :
             staging' = [staging EXCEPT ![p] = left]
        /\ Goto(p, "discard")
  /\ UNCHANGED <<report, stamp, suffix>>

(* os.replace(staging, destination): what was vacant when it was probed    *)
(* may be taken by now.                                                    *)
Publish(p) ==
  /\ At(p, "publish")
  /\ \/ /\ NoFault /\ Vacant(report[DestinationOf(p)])
        /\ report' = [report EXCEPT ![DestinationOf(p)] = staging[p]]
        /\ staging' = [staging EXCEPT ![p] = NoDirectory]
        /\ Goto(p, "check")
     \/ /\ NoFault /\ ~Vacant(report[DestinationOf(p)])
        /\ UNCHANGED <<report, staging>>
        /\ Goto(p, "discard")
     \/ Fault /\ UNCHANGED <<report, staging>> /\ Goto(p, "discard")
  /\ UNCHANGED <<stamp, suffix>>

(* The listing of the published directory. *)
KeptOnError(p) ==  \* slip: a report that cannot be listed stays published
  Goto(p, IF faults' = faults THEN "done" ELSE "failed")

AfterListing(p) ==
  Goto(p, IF faults' = faults /\ report[DestinationOf(p)].files = ArtifactNames
          THEN "done" ELSE "withdraw")

Check(p) ==
  /\ At(p, "check")
  /\ NoFault \/ Fault
  /\ AfterListing(p)
  /\ UNCHANGED <<report, staging, stamp, suffix>>

(* rmtree of the published directory, with errors ignored: file by file,   *)
(* then the directory.  It works on the directory it opened: one that      *)
(* another run has renamed onto the emptied path is not touched.           *)
Withdraw(p) ==
  LET d == DestinationOf(p)
  IN /\ At(p, "withdraw")
     /\ \/ /\ NoFault /\ report[d].owner = p
           /\ \E f \in report[d].files : report' = [report EXCEPT ![d].files = @ \ {f}]
           /\ UNCHANGED pc
        \/ /\ NoFault /\ report[d].owner = p /\ report[d].files = {}
           /\ report' = [report EXCEPT ![d] = NoDirectory]
           /\ Goto(p, "failed")
        \/ /\ NoFault /\ report[d].owner # p
           /\ UNCHANGED report
           /\ Goto(p, "failed")
        \/ /\ Fault /\ report[d].owner = p
           /\ \E left \in SUBSET report[d].files : report' = [report EXCEPT ![d].files = left]
           /\ Goto(p, "failed")
     /\ UNCHANGED <<staging, stamp, suffix>>

(* The finally clause. *)
Discard(p) ==
  /\ At(p, "discard")
  /\ \/ NoFault /\ staging' = [staging EXCEPT ![p] = NoDirectory]
     \/ /\ Fault /\ staging[p].exists
        /\ \E left \in SUBSET staging[p].files : staging' = [staging EXCEPT ![p].files = left]
  /\ Goto(p, "failed")
  /\ UNCHANGED <<report, stamp, suffix>>

(* A kill, which runs no handler. *)
Crash(p) ==
  /\ crashes < MaxCrashes /\ crashes' = crashes + 1
  /\ pc[p] \notin Ended
  /\ Goto(p, "crashed")
  /\ UNCHANGED <<report, staging, stamp, suffix, faults>>

Step(p) ==
  \/ MakeRoot(p) \/ Probe(p) \/ Stage(p) \/ Publish(p)
  \/ Check(p) \/ Withdraw(p) \/ Discard(p)

ReportsNext == \E p \in Procs : Step(p) \/ Crash(p)
ReportsSpec == ReportsInit /\ [][ReportsNext]_reportsVars

(* A process that is not killed runs on. *)
FairReports == ReportsSpec /\ \A p \in Procs : WF_reportsVars(Step(p))

-----------------------------------------------------------------------------
(* Every variable has its type. *)
ReportsTypeOK ==
  /\ report \in [Destinations -> DirectoryType]
  /\ staging \in [Procs -> DirectoryType]
  /\ pc \in [Procs -> Labels]
  /\ stamp \in [Procs -> Stamps] /\ suffix \in [Procs -> Suffixes]
  /\ faults \in 0 .. MaxFaults /\ crashes \in 0 .. MaxCrashes

(* artifacts.py:183, "exactly three report files": writing never leaves a  *)
(* part of a report under a report's name, whoever is killed and whoever   *)
(* competes for the name.  Only a withdrawal may: a run whose listing      *)
(* failed deletes its report where it is, and there is a part of it while  *)
(* that lasts, and for good if the run is killed in it.  The claim is      *)
(* about one failing call: a second one, in the withdrawal, is ignored by  *)
(* the code and may leave a part, too.                                     *)
PublishedIsComplete ==
  \A d \in Destinations :
    report[d].exists /\ report[d].files # ArtifactNames =>
      /\ faults > 0
      /\ pc[report[d].owner] \in {"withdraw", "crashed"}

(* Without a failing call a run only fails when another run published      *)
(* under the name it had probed: never over an earlier report.             *)
FailsOnlyWhenRaced ==
  \A p \in Procs :
    pc[p] = "failed" /\ faults = 0 =>
      \E q \in Procs \ {p} : report[DestinationOf(p)] = Directory(q, ArtifactNames)

(* Publication implements the store of whole reports, also among the       *)
(* clean-ups of others: what a run published and returned stays whole, the *)
(* reports of earlier runs stay, and a run that reports an error after one *)
(* failing call, or because its name was taken, leaves no report.          *)
Whole(d) == report[d].exists /\ report[d].files = ArtifactNames
Store == INSTANCE ReportStore
         WITH store <- {<<d, report[d].owner>> : d \in {e \in Destinations : Whole(e)}},
              outcome <- [p \in Procs |-> IF pc[p] \in Ended THEN pc[p] ELSE "running"]
StoreImplemented == Store!StoreSpec

(* Every run ends: the others can take only finitely many names from it.   *)
EveryRunEnds == \A p \in Procs : <>(pc[p] \in Ended)
=============================================================================
