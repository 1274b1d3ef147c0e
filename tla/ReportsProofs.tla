---------------------------- MODULE ReportsProofs ----------------------------
(***************************************************************************)
(* Theorems about the publication of reports, for any number of runs,      *)
(* names and killed processes and one failing call (OneFault; with two,    *)
(* a report that cannot be listed may also resist its withdrawal, and the  *)
(* code reports an error beside a report).                                 *)
(***************************************************************************)
EXTENDS Reports, TLAPS

OneFault == MaxFaults <= 1

(* No run owns a directory before it published, nor after it failed.       *)
Empty(p) == \A d \in Destinations : report[d].owner # p
OwnsNothing ==
  \A p \in Procs : pc[p] \in {"mkdir", "probe", "stage", "publish", "discard", "failed"} => Empty(p)

(* What it owns is at its destination, and whole unless it is withdrawn.   *)
OwnsOne ==
  \A p \in Procs, d \in Destinations :
    report[d].owner = p =>
      /\ d = DestinationOf(p) /\ report[d].exists
      /\ report[d].files # ArtifactNames => faults > 0 /\ pc[p] \in {"withdraw", "crashed"}

(* It is there while the run relies on it. *)
OwnsPublished ==
  \A p \in Procs :
    /\ pc[p] = "publish" => staging[p] = Directory(p, ArtifactNames)
    /\ pc[p] \in {"check", "done"} => report[DestinationOf(p)] = Directory(p, ArtifactNames)
    /\ pc[p] = "withdraw" => faults > 0

(* Reports of earlier runs stay, and no run tries to publish over one.     *)
EarlierStay ==
  /\ \A d \in Destinations :
       report[d].owner = Earlier => report[d] \in {NoDirectory, Directory(Earlier, ArtifactNames)}
  /\ \A p \in Procs :
       pc[p] \in {"stage", "publish"} =>
         (report[DestinationOf(p)].owner = Earlier => report[DestinationOf(p)] = NoDirectory)

(* A run that failed without a failing call was raced.                     *)
Raced ==
  \A p \in Procs :
    pc[p] \in {"discard", "failed"} /\ faults = 0 =>
      \E q \in Procs \ {p} : report[DestinationOf(p)] = Directory(q, ArtifactNames)

Publication ==
  /\ ReportsTypeOK
  /\ OwnsNothing /\ OwnsOne /\ OwnsPublished /\ EarlierStay /\ Raced

-----------------------------------------------------------------------------
(* Directories and destinations have their types. *)
LEMMA DirectoriesInType ==
  /\ NoDirectory \in DirectoryType
  /\ \A p \in Procs \cup {Earlier}, files \in SUBSET ArtifactNames :
       Directory(p, files) \in DirectoryType
  /\ \A p \in Procs : \A files :
       /\ Directory(p, files) # NoDirectory /\ Directory(p, files).owner = p
       /\ Directory(p, files).exists /\ Directory(p, files).files = files
  /\ NoDirectory.owner = Earlier /\ NoDirectory.exists = FALSE /\ NoDirectory.files = {}
  /\ ArtifactNames # {}
  /\ Earlier \notin Procs
BY ReportsAssumption DEF NoDirectory, Directory, DirectoryType, ArtifactNames

(* The types of what a process holds. *)
LEMMA DestinationsInType ==
  ASSUME ReportsTypeOK, NEW p \in Procs
  PROVE  /\ DestinationOf(p) \in Destinations
         /\ pc[p] \in Labels /\ suffix[p] \in Suffixes /\ stamp[p] \in Stamps
         /\ report[DestinationOf(p)] \in DirectoryType
BY DEF ReportsTypeOK, DestinationOf, Destinations

(* Nothing is published yet. *)
LEMMA InitPublication == ReportsInit => Publication
<1> SUFFICES ASSUME ReportsInit PROVE Publication
  OBVIOUS
<1>1. ReportsTypeOK
  BY DirectoriesInType, ReportsAssumption
     DEF ReportsInit, ReportsTypeOK, Destinations, Labels, Ended
<1>2. \A d \in Destinations : report[d] \in {NoDirectory, Directory(Earlier, ArtifactNames)}
  BY DEF ReportsInit
<1>3. \A d \in Destinations : report[d].owner = Earlier
  BY <1>2 DEF NoDirectory, Directory
<1>4. \A p \in Procs : pc[p] = "mkdir" /\ p # Earlier
  BY DirectoriesInType DEF ReportsInit
<1> QED
  BY <1>1, <1>2, <1>3, <1>4
     DEF Publication, OwnsNothing, Empty, OwnsOne, OwnsPublished, EarlierStay, Raced

(* A step that leaves the reports alone and moves one run on. *)
LEMMA MoveRun ==
  ASSUME Publication, NEW p \in Procs, NEW label \in Labels, Goto(p, label),
         UNCHANGED <<report, stamp>>,
         staging' \in [Procs -> DirectoryType], suffix' \in [Procs -> Suffixes],
         \A q \in Procs \ {p} : staging'[q] = staging[q] /\ suffix'[q] = suffix[q],
         faults' \in faults .. MaxFaults, crashes' \in 0 .. MaxCrashes,
         suffix'[p] = suffix[p] \/ Empty(p),
         label \in {"mkdir", "probe", "stage", "publish", "discard", "failed"} => Empty(p),
         report[DestinationOf(p)] # Directory(p, ArtifactNames) => label \notin {"check", "done"},
         label \in {"check", "done", "withdraw"} => suffix'[p] = suffix[p],
         label = "publish" => staging'[p] = Directory(p, ArtifactNames),
         label = "withdraw" => faults' > 0,
         pc[p] \in {"withdraw", "crashed"} => label \in {"withdraw", "crashed"} \/ Empty(p),
         label \in {"stage", "publish"} => 
           (report[DestinationOf(p)'].owner = Earlier => report[DestinationOf(p)'] = NoDirectory),
         label \in {"discard", "failed"} /\ faults' = 0 =>
           \E q \in Procs \ {p} : report[DestinationOf(p)'] = Directory(q, ArtifactNames)
  PROVE  Publication'
<1>1. pc' = [pc EXCEPT ![p] = label] /\ pc \in [Procs -> Labels]
  BY DEF Goto, Publication, ReportsTypeOK
<1>2. \A q \in Procs \ {p} : DestinationOf(q)' = DestinationOf(q) /\ pc'[q] = pc[q]
  BY <1>1 DEF DestinationOf
<1>3. pc'[p] = label
  BY <1>1
<1>4. faults \in Nat /\ faults' \in Nat /\ faults <= faults' /\ MaxFaults \in Nat
  BY ReportsAssumption DEF Publication, ReportsTypeOK
<1>5. ReportsTypeOK'
  BY <1>1, <1>4 DEF Publication, ReportsTypeOK
<1>6. OwnsNothing'
  BY <1>2, <1>3 DEF Publication, OwnsNothing, Empty
<1>7. OwnsOne'
  BY <1>2, <1>3, <1>4 DEF Publication, OwnsOne, Empty, DestinationOf
<1>8. OwnsPublished'
  BY <1>2, <1>3, <1>4 DEF Publication, OwnsPublished, DestinationOf
<1>9. EarlierStay'
  BY <1>2, <1>3 DEF Publication, EarlierStay
<1>10. Raced'
  BY <1>2, <1>3, <1>4 DEF Publication, Raced
<1> QED
  BY <1>5, <1>6, <1>7, <1>8, <1>9, <1>10 DEF Publication

(* The calls counted as failing. *)
LEMMA FaultCounts ==
  ASSUME ReportsTypeOK, NoFault \/ Fault
  PROVE  /\ faults' \in faults .. MaxFaults /\ crashes' \in 0 .. MaxCrashes
         /\ faults \in Nat /\ faults' \in Nat /\ MaxFaults \in Nat
         /\ Fault => faults < MaxFaults /\ faults' # 0 /\ faults' > 0
         /\ NoFault => faults' = faults
BY ReportsAssumption DEF ReportsTypeOK, NoFault, Fault, bounds

(* A kill. *)
LEMMA KillKeeps ==
  ASSUME Publication, NEW p \in Procs, Crash(p)
  PROVE  Publication'
<1>1. ReportsTypeOK
  BY DEF Publication
<1>2. faults' \in faults .. MaxFaults /\ crashes' \in 0 .. MaxCrashes
  BY <1>1, ReportsAssumption DEF Crash, ReportsTypeOK
<1> QED
  BY <1>1, <1>2, MoveRun DEF Crash, Labels, Ended, ReportsTypeOK

(* The root directory. *)
LEMMA MakeRootKeeps ==
  ASSUME Publication, NEW p \in Procs, MakeRoot(p)
  PROVE  Publication'
<1>1. ReportsTypeOK /\ Empty(p)
  BY DEF Publication, OwnsNothing, MakeRoot, At
<1>2. NoFault \/ Fault
  BY DEF MakeRoot
<1> QED
  BY <1>1, <1>2, FaultCounts, MoveRun DEF MakeRoot, Labels, Ended, ReportsTypeOK, At

(* A probe that ends finds a name no earlier run has. *)
LEMMA ProbeKeeps ==
  ASSUME Publication, NEW p \in Procs, Probe(p)
  PROVE  Publication'
<1>1. ReportsTypeOK /\ Empty(p)
  BY DEF Publication, OwnsNothing, Probe, At
<1>2. NoFault \/ Fault
  BY DEF Probe
<1>3. UNCHANGED <<report, staging, stamp>>
  BY DEF Probe
<1>4. CASE NoFault /\ Advance(p)
  <2> DEFINE found == report[DestinationOf(p)].exists
             label == IF found THEN "probe" ELSE "stage"
  <2>1. /\ suffix' = [suffix EXCEPT ![p] = IF found THEN @ + 1 ELSE @]
        /\ suffix'[p] \in Suffixes /\ Goto(p, label)
    BY <1>4 DEF Advance
  <2>2. label \in Labels
    BY DEF Labels
  <2>3. suffix' \in [Procs -> Suffixes] /\ \A q \in Procs \ {p} : suffix'[q] = suffix[q]
    BY <1>1, <2>1 DEF ReportsTypeOK
  <2>4. ~found => suffix'[p] = suffix[p] /\ DestinationOf(p)' = DestinationOf(p)
    BY <1>1, <1>3, <2>1 DEF ReportsTypeOK, DestinationOf
  <2>5. ~found => (report[DestinationOf(p)].owner = Earlier => report[DestinationOf(p)] = NoDirectory)
    BY <1>1, DestinationsInType, DirectoriesInType DEF Publication, EarlierStay, Directory
  <2> HIDE DEF found
  <2>6. label = "stage" =>
          (report[DestinationOf(p)'].owner = Earlier => report[DestinationOf(p)'] = NoDirectory)
    BY <2>4, <2>5
  <2> QED
    BY <1>1, <1>2, <1>3, <2>1, <2>2, <2>3, <2>6, FaultCounts, MoveRun DEF ReportsTypeOK, At
<1>5. CASE Fault
  <2>1. UNCHANGED suffix /\ Goto(p, "failed") /\ pc[p] = "probe"
    <3>1. ~NoFault
      BY <1>1, <1>5 DEF Fault, NoFault, bounds, ReportsTypeOK
    <3> QED
      BY <3>1 DEF Probe, At
  <2> QED
    BY <1>1, <1>2, <1>3, <1>5, <2>1, FaultCounts, MoveRun DEF Labels, Ended, ReportsTypeOK
<1> QED
  BY <1>4, <1>5 DEF Probe

(* The staging directory. *)
LEMMA StageKeeps ==
  ASSUME Publication, NEW p \in Procs, Stage(p)
  PROVE  Publication'
<1>1. ReportsTypeOK /\ Empty(p)
  BY DEF Publication, OwnsNothing, Stage, At
<1>2. NoFault \/ Fault
  BY DEF Stage
<1>3. UNCHANGED <<report, stamp, suffix>> /\ pc[p] = "stage" /\ DestinationOf(p)' = DestinationOf(p)
  BY DEF Stage, At, DestinationOf
<1>4. report[DestinationOf(p)].owner = Earlier => report[DestinationOf(p)] = NoDirectory
  BY <1>3 DEF Publication, EarlierStay
<1>5. ASSUME NEW left \in DirectoryType, staging' = [staging EXCEPT ![p] = left]
      PROVE  /\ staging' \in [Procs -> DirectoryType] /\ staging'[p] = left
             /\ \A q \in Procs \ {p} : staging'[q] = staging[q]
  BY <1>1, <1>5 DEF ReportsTypeOK
<1>6. CASE NoFault /\ Goto(p, "publish") /\ staging' = [staging EXCEPT ![p] = Directory(p, ArtifactNames)]
  <2>1. Directory(p, ArtifactNames) \in DirectoryType
    BY DirectoriesInType
  <2> QED
    BY <1>1, <1>2, <1>3, <1>4, <1>5, <1>6, <2>1, FaultCounts, MoveRun DEF Labels, ReportsTypeOK
<1>7. CASE Fault /\ Goto(p, "discard")
  <2>1. PICK left \in {NoDirectory} \cup {Directory(p, written) : written \in SUBSET ArtifactNames} :
          staging' = [staging EXCEPT ![p] = left]
    <3>1. faults' # faults
      BY <1>1, <1>7 DEF Fault, ReportsTypeOK
    <3> QED
      BY <1>7, <3>1 DEF Stage, NoFault, bounds
  <2>2. left \in DirectoryType
    BY DirectoriesInType
  <2> QED
    BY <1>1, <1>2, <1>3, <1>5, <1>7, <2>1, <2>2, FaultCounts, MoveRun DEF Labels, ReportsTypeOK
<1> QED
  BY <1>6, <1>7 DEF Stage

(* The staging directory is removed. *)
LEMMA DiscardKeeps ==
  ASSUME Publication, NEW p \in Procs, Discard(p)
  PROVE  Publication'
<1>1. ReportsTypeOK /\ Empty(p)
  BY DEF Publication, OwnsNothing, Discard, At
<1>2. NoFault \/ Fault
  BY DEF Discard
<1>3. /\ UNCHANGED <<report, stamp, suffix>> /\ pc[p] = "discard" /\ Goto(p, "failed")
      /\ DestinationOf(p)' = DestinationOf(p)
  BY DEF Discard, At, DestinationOf
<1>4. /\ staging' \in [Procs -> DirectoryType]
      /\ \A q \in Procs \ {p} : staging'[q] = staging[q]
  <2>1. CASE staging' = [staging EXCEPT ![p] = NoDirectory]
    BY <1>1, <2>1, DirectoriesInType DEF ReportsTypeOK
  <2>2. ASSUME NEW left \in SUBSET staging[p].files, staging' = [staging EXCEPT ![p].files = left]
        PROVE  /\ staging' \in [Procs -> DirectoryType]
               /\ \A q \in Procs \ {p} : staging'[q] = staging[q]
    <3>1. staging[p] \in DirectoryType
      BY <1>1 DEF ReportsTypeOK
    <3>2. [staging[p] EXCEPT !.files = left] \in DirectoryType
      BY <2>2, <3>1 DEF DirectoryType
    <3>3. staging' = [staging EXCEPT ![p] = [staging[p] EXCEPT !.files = left]]
      BY <2>2
    <3> QED
      BY <1>1, <3>2, <3>3 DEF ReportsTypeOK
  <2> QED
    BY <2>1, <2>2 DEF Discard
<1>5. faults' = 0 => \E q \in Procs \ {p} : report[DestinationOf(p)'] = Directory(q, ArtifactNames)
  BY <1>1, <1>2, <1>3, FaultCounts DEF Publication, Raced
<1> QED
  BY <1>1, <1>2, <1>3, <1>4, <1>5, FaultCounts, MoveRun DEF Labels, Ended, ReportsTypeOK

(* The listing of what was published. *)
LEMMA CheckKeeps ==
  ASSUME Publication, NEW p \in Procs, Check(p)
  PROVE  Publication'
<1>1. ReportsTypeOK /\ report[DestinationOf(p)] = Directory(p, ArtifactNames)
  BY DEF Publication, OwnsPublished, Check, At
<1>2. NoFault \/ Fault
  BY DEF Check
<1>3. UNCHANGED <<report, staging, stamp, suffix>> /\ pc[p] = "check"
  BY DEF Check, At
<1>4. \/ Goto(p, "done")
      \/ Goto(p, "withdraw") /\ faults' > 0
  BY <1>1, <1>2, FaultCounts, DirectoriesInType DEF Check, AfterListing
<1> QED
  BY <1>1, <1>2, <1>3, <1>4, FaultCounts, MoveRun DEF Labels, Ended, ReportsTypeOK

(* A rename onto a vacant name overwrites no report, and one that meets a  *)
(* report meets that of another run.                                       *)
LEMMA PublishKeeps ==
  ASSUME Publication, NEW p \in Procs, Publish(p)
  PROVE  Publication'
<1> DEFINE d == DestinationOf(p)
<1>1. ReportsTypeOK /\ Empty(p) /\ pc[p] = "publish" /\ staging[p] = Directory(p, ArtifactNames)
  BY DEF Publication, OwnsNothing, OwnsPublished, Publish, At
<1>2. NoFault \/ Fault
  BY DEF Publish
<1>3. UNCHANGED <<stamp, suffix>> /\ \A q \in Procs : DestinationOf(q)' = DestinationOf(q)
  BY DEF Publish, DestinationOf
<1>4. d \in Destinations /\ report[d] \in DirectoryType
  BY <1>1, DestinationsInType
<1>5. report[d].owner = Earlier => report[d] = NoDirectory
  BY <1>1 DEF Publication, EarlierStay
<1>6. CASE NoFault /\ Vacant(report[d]) /\ Goto(p, "check")
           /\ report' = [report EXCEPT ![d] = staging[p]]
           /\ staging' = [staging EXCEPT ![p] = NoDirectory]
  <2>1. /\ report'[d] = Directory(p, ArtifactNames)
        /\ \A e \in Destinations \ {d} : report'[e] = report[e]
        /\ report' \in [Destinations -> DirectoryType]
    BY <1>1, <1>4, <1>6, DirectoriesInType DEF ReportsTypeOK
  <2>2. /\ pc'[p] = "check" /\ pc' \in [Procs -> Labels]
        /\ \A q \in Procs \ {p} : pc'[q] = pc[q]
    BY <1>1, <1>6 DEF Goto, ReportsTypeOK, Labels
  <2>3. /\ staging' \in [Procs -> DirectoryType]
        /\ \A q \in Procs \ {p} : staging'[q] = staging[q]
    BY <1>1, <1>6, DirectoriesInType DEF ReportsTypeOK
  <2>4. faults' = faults /\ crashes' = crashes
    BY <1>6 DEF NoFault, bounds
  <2>5. \A q \in Procs : report[d] # Directory(q, ArtifactNames)
    BY <1>6, DirectoriesInType DEF Vacant
  <2>6. \A q \in Procs : DestinationOf(q) \in Destinations
    BY <1>1, DestinationsInType
  <2>7. ReportsTypeOK'
    BY <1>1, <1>3, <2>1, <2>2, <2>3, <2>4 DEF ReportsTypeOK
  <2>8. /\ report'[d].owner = p /\ report'[d].exists /\ report'[d].files = ArtifactNames
        /\ p # Earlier
    BY <2>1, DirectoriesInType
  <2>9. OwnsNothing'
    BY <2>1, <2>2, <2>8 DEF Publication, OwnsNothing, Empty
  <2>10. OwnsOne'
    <3> SUFFICES ASSUME NEW q \in Procs, NEW e \in Destinations, report'[e].owner = q
                 PROVE  /\ e = DestinationOf(q)' /\ report'[e].exists
                        /\ report'[e].files # ArtifactNames =>
                             faults' > 0 /\ pc'[q] \in {"withdraw", "crashed"}
      BY DEF OwnsOne
    <3>1. CASE e = d
      BY <1>3, <2>8, <3>1
    <3>2. CASE e # d
      BY <1>1, <1>3, <2>1, <2>2, <2>4, <3>2 DEF Publication, OwnsOne, Empty
    <3> QED
      BY <3>1, <3>2
  <2>11. OwnsPublished'
    BY <1>3, <2>1, <2>2, <2>3, <2>4, <2>5, <2>6 DEF Publication, OwnsPublished
  <2>12. EarlierStay'
    BY <1>3, <2>1, <2>2, <2>6, <2>8 DEF Publication, EarlierStay
  <2>13. Raced'
    BY <1>3, <2>1, <2>2, <2>4, <2>5, <2>6 DEF Publication, Raced
  <2> QED
    BY <2>7, <2>9, <2>10, <2>11, <2>12, <2>13 DEF Publication
<1>7. CASE NoFault /\ ~Vacant(report[d]) /\ UNCHANGED <<report, staging>> /\ Goto(p, "discard")
  <2>1. report[d].owner \in Procs \ {p} /\ report[d].files # {}
    BY <1>1, <1>4, <1>5, <1>7, DirectoriesInType DEF Vacant, Empty, DirectoryType
  <2>2. PICK q \in Procs \ {p} : q = report[d].owner
    BY <2>1
  <2>3. faults' = 0 => report[d].exists /\ report[d].files = ArtifactNames
    BY <1>1, <1>4, <1>7, <2>2, FaultCounts DEF Publication, OwnsOne
  <2>4. report[d] = [owner |-> report[d].owner, exists |-> report[d].exists, files |-> report[d].files]
    BY <1>4 DEF DirectoryType
  <2>5. faults' = 0 => report[d] = Directory(q, ArtifactNames)
    BY <2>2, <2>3, <2>4, <1>4 DEF Directory, DirectoryType
  <2>6. faults' = 0 =>
          \E r \in Procs \ {p} : report[DestinationOf(p)'] = Directory(r, ArtifactNames)
    BY <1>3, <2>5
  <2> QED
    BY <1>1, <1>2, <1>3, <1>7, <2>6, FaultCounts, MoveRun DEF Labels, Ended, ReportsTypeOK
<1>8. CASE Fault /\ UNCHANGED <<report, staging>> /\ Goto(p, "discard")
  BY <1>1, <1>2, <1>3, <1>8, FaultCounts, MoveRun DEF Labels, Ended, ReportsTypeOK
<1> QED
  BY <1>6, <1>7, <1>8 DEF Publish

(* A withdrawal touches only the report of the run that withdraws, and its *)
(* calls do not fail: the one that may has failed before.                  *)
LEMMA WithdrawKeeps ==
  ASSUME OneFault, Publication, NEW p \in Procs, Withdraw(p)
  PROVE  Publication'
<1> DEFINE d == DestinationOf(p)
<1>1. ReportsTypeOK /\ pc[p] = "withdraw" /\ faults > 0
  BY DEF Publication, OwnsPublished, Withdraw, At
<1>2. ~Fault
  BY <1>1, ReportsAssumption DEF OneFault, Fault, ReportsTypeOK
<1>3. /\ UNCHANGED <<staging, stamp, suffix, faults, crashes>>
      /\ \A q \in Procs : DestinationOf(q)' = DestinationOf(q)
  BY <1>2 DEF Withdraw, NoFault, bounds, DestinationOf
<1>4. d \in Destinations /\ report[d] \in DirectoryType /\ p # Earlier
  BY <1>1, DestinationsInType, DirectoriesInType
<1>5. CASE report[d].owner # p /\ UNCHANGED report /\ Goto(p, "failed")
  <2>1. Empty(p)
    BY <1>1, <1>5 DEF Publication, OwnsOne, Empty
  <2> QED
    BY <1>1, <1>3, <1>5, <2>1, ReportsAssumption, MoveRun DEF Labels, Ended, ReportsTypeOK
<1>6. ASSUME NEW left \in DirectoryType, report[d].owner = p,
             report' = [report EXCEPT ![d] = left],
             \/ /\ left.owner = p /\ left.exists = report[d].exists /\ UNCHANGED pc
             \/ left = NoDirectory /\ Goto(p, "failed")
      PROVE  Publication'
  <2>1. /\ report'[d] = left /\ \A e \in Destinations \ {d} : report'[e] = report[e]
        /\ report' \in [Destinations -> DirectoryType]
    BY <1>1, <1>4, <1>6 DEF ReportsTypeOK
  <2>2. /\ \A q \in Procs \ {p} : pc'[q] = pc[q]
        /\ pc' \in [Procs -> Labels]
        /\ \/ pc'[p] = "withdraw" /\ left.owner = p /\ left.exists
           \/ pc'[p] = "failed" /\ left = NoDirectory
    <3>1. report[d].exists
      BY <1>4, <1>6 DEF Publication, OwnsOne
    <3>2. CASE left.owner = p /\ left.exists = report[d].exists /\ UNCHANGED pc
      BY <1>1, <3>1, <3>2 DEF ReportsTypeOK
    <3>3. CASE left = NoDirectory /\ Goto(p, "failed")
      BY <1>1, <3>3 DEF Goto, ReportsTypeOK, Labels, Ended
    <3> QED
      BY <1>6, <3>2, <3>3
  <2>3. NoDirectory.owner = Earlier /\ left.owner \in {p, Earlier}
    BY <2>2, DirectoriesInType
  <2>4. \A q \in Procs : DestinationOf(q) \in Destinations /\ q # Earlier
    BY <1>1, DestinationsInType, DirectoriesInType
  <2>5. \A q \in Procs \ {p} : report[d] # Directory(q, ArtifactNames)
    BY <1>6, DirectoriesInType
  <2>6. \A e \in Destinations \ {d} : report[e].owner # p
    BY <1>1 DEF Publication, OwnsOne
  <2>7. ReportsTypeOK'
    BY <1>1, <1>3, <2>1, <2>2 DEF ReportsTypeOK
  <2>8. OwnsNothing'
    BY <2>1, <2>2, <2>3, <2>4, <2>6 DEF Publication, OwnsNothing, Empty
  <2>9. OwnsOne'
    <3> SUFFICES ASSUME NEW q \in Procs, NEW e \in Destinations, report'[e].owner = q
                 PROVE  /\ e = DestinationOf(q)' /\ report'[e].exists
                        /\ report'[e].files # ArtifactNames =>
                             faults' > 0 /\ pc'[q] \in {"withdraw", "crashed"}
      BY DEF OwnsOne
    <3>1. CASE e = d
      BY <1>1, <1>3, <2>1, <2>2, <2>3, <2>4, <3>1
    <3>2. CASE e # d
      BY <1>3, <2>1, <2>2, <2>6, <3>2 DEF Publication, OwnsOne
    <3> QED
      BY <3>1, <3>2
  <2>10. OwnsPublished'
    BY <1>1, <1>3, <2>1, <2>2, <2>4, <2>5 DEF Publication, OwnsPublished
  <2>11. EarlierStay'
    BY <1>3, <1>4, <2>1, <2>2, <2>4 DEF Publication, EarlierStay
  <2>12. Raced'
    BY <1>1, <1>3 DEF Raced
  <2> QED
    BY <2>7, <2>8, <2>9, <2>10, <2>11, <2>12 DEF Publication
<1>7. CASE report[d].owner = p /\ UNCHANGED pc
           /\ \E f \in report[d].files : report' = [report EXCEPT ![d].files = @ \ {f}]
  <2>1. PICK f \in report[d].files : report' = [report EXCEPT ![d].files = @ \ {f}]
    BY <1>7
  <2> DEFINE left == [report[d] EXCEPT !.files = @ \ {f}]
  <2>2. left \in DirectoryType /\ left.owner = p /\ left.exists = report[d].exists
    BY <1>4, <1>7 DEF DirectoryType
  <2>3. report' = [report EXCEPT ![d] = left]
    BY <2>1
  <2> QED
    BY <1>6, <1>7, <2>2, <2>3
<1>8. CASE report[d].owner = p /\ report' = [report EXCEPT ![d] = NoDirectory] /\ Goto(p, "failed")
  BY <1>6, <1>8, DirectoriesInType
<1> QED
  BY <1>2, <1>5, <1>7, <1>8 DEF Withdraw

-----------------------------------------------------------------------------
(* With one failing call, every step keeps the invariant. *)
LEMMA StepKeeps ==
  ASSUME OneFault, Publication, [ReportsNext]_reportsVars
  PROVE  Publication'
<1>1. CASE UNCHANGED reportsVars
  BY <1>1
     DEF reportsVars, bounds, Publication, ReportsTypeOK, OwnsNothing, Empty, OwnsOne,
         OwnsPublished, EarlierStay, Raced, DestinationOf
<1>2. ASSUME NEW p \in Procs, Step(p) \/ Crash(p)
      PROVE  Publication'
  BY <1>2, MakeRootKeeps, ProbeKeeps, StageKeeps, PublishKeeps, CheckKeeps, WithdrawKeeps,
     DiscardKeeps, KillKeeps DEF Step
<1> QED
  BY <1>1, <1>2 DEF ReportsNext

(* artifacts.py:183: who owns which report, at every moment of a run.      *)
THEOREM AlwaysPublication == OneFault /\ ReportsSpec => []Publication
<1> SUFFICES ASSUME OneFault PROVE ReportsSpec => []Publication
  OBVIOUS
<1>1. ReportsInit => Publication
  BY InitPublication
<1>2. Publication /\ [ReportsNext]_reportsVars => Publication'
  BY StepKeeps
<1> QED
  BY <1>1, <1>2, PTL DEF ReportsSpec

(* The variables keep their types. *)
THEOREM ReportsTypeCorrect == OneFault /\ ReportsSpec => []ReportsTypeOK
<1>1. Publication => ReportsTypeOK
  BY DEF Publication
<1> QED
  BY <1>1, AlwaysPublication, PTL

(* Nobody finds a part of a report under a report's name, whoever crashes  *)
(* and whoever races for the name, but where a withdrawal is under way or  *)
(* was cut short by a kill.                                                *)
THEOREM PublishedCorrect == OneFault /\ ReportsSpec => []PublishedIsComplete
<1>1. ASSUME Publication PROVE PublishedIsComplete
  <2>1. SUFFICES ASSUME NEW d \in Destinations, report[d].exists, report[d].files # ArtifactNames
                 PROVE  faults > 0 /\ pc[report[d].owner] \in {"withdraw", "crashed"}
    BY DEF PublishedIsComplete
  <2>2. report[d].owner # Earlier
    BY <1>1, <2>1, DirectoriesInType DEF Publication, EarlierStay, Directory
  <2>3. report[d].owner \in Procs
    BY <1>1, <2>2 DEF Publication, ReportsTypeOK, DirectoryType
  <2> QED
    BY <1>1, <2>1, <2>3 DEF Publication, OwnsOne
<1> QED
  BY <1>1, AlwaysPublication, PTL

(* A run fails without a failing call only when it lost its name.          *)
THEOREM RacedCorrect == OneFault /\ ReportsSpec => []FailsOnlyWhenRaced
<1>1. Publication => FailsOnlyWhenRaced
  BY DEF Publication, Raced, FailsOnlyWhenRaced
<1> QED
  BY <1>1, AlwaysPublication, PTL

-----------------------------------------------------------------------------
(* The store that the directories amount to, and the outcomes.             *)
Listed == {<<d, report[d].owner>> : d \in {e \in Destinations : Whole(e)}}
Outcome == [p \in Procs |-> IF pc[p] \in Ended THEN pc[p] ELSE "running"]

(* The reports of one run in the store are the whole ones it owns.         *)
LEMMA OfOwner ==
  ASSUME NEW p \in Procs
  PROVE  /\ Store!Of(p) = {<<d, p>> : d \in {e \in Destinations : Whole(e) /\ report[e].owner = p}}
         /\ Store!Taken = {e \in Destinations : Whole(e)}
         /\ Store!Running(p) <=> pc[p] \notin Ended
<1>1. Store!Of(p) = {<<d, p>> : d \in {e \in Destinations : Whole(e) /\ report[e].owner = p}}
  <2> DEFINE owned == {<<d, p>> : d \in {e \in Destinations : Whole(e) /\ report[e].owner = p}}
  <2>1. ASSUME NEW r \in Store!Of(p) PROVE r \in owned
    BY <2>1 DEF Store!Of
  <2>2. ASSUME NEW r \in owned PROVE r \in Store!Of(p)
    BY <2>2 DEF Store!Of
  <2> QED
    BY <2>1, <2>2
<1>2. Store!Taken = {e \in Destinations : Whole(e)}
  <2>1. ASSUME NEW e \in Destinations, Whole(e) PROVE e \in Store!Taken
    <3>1. <<e, report[e].owner>> \in Listed
      BY <2>1 DEF Listed
    <3> QED
      BY <3>1, <<e, report[e].owner>>[1] = e DEF Store!Taken, Listed
  <2>2. ASSUME NEW e \in Store!Taken PROVE e \in Destinations /\ Whole(e)
    BY <2>2 DEF Store!Taken
  <2> QED
    BY <2>1, <2>2
<1>3. Store!Running(p) <=> pc[p] \notin Ended
  BY DEF Store!Running, Ended
<1> QED
  BY <1>1, <1>2, <1>3

(* A step that leaves the reports alone moves one run to its outcome.      *)
LEMMA MoveRunIsStore ==
  ASSUME Publication, NEW p \in Procs, NEW label \in Labels, Goto(p, label),
         UNCHANGED Listed, pc[p] \notin Ended,
         label = "done" => report[DestinationOf(p)] = Directory(p, ArtifactNames),
         label = "failed" => \A d \in Destinations : Whole(d) => report[d].owner # p
  PROVE  Store!StoreNext \/ UNCHANGED Store!storeVars
<1>1. pc \in [Procs -> Labels] /\ ReportsTypeOK
  BY DEF Publication, ReportsTypeOK
<1>2. CASE label \notin Ended
  <2>1. Outcome' = Outcome
    BY <1>1, <1>2 DEF Goto, Outcome
  <2> QED
    BY <2>1 DEF Store!storeVars, Listed, Outcome
<1>3. CASE label \in Ended
  <2>1. Store!End(p, label)
    <3>1. Outcome' = [Outcome EXCEPT ![p] = label]
      BY <1>1, <1>3 DEF Goto, Outcome
    <3> QED
      BY <3>1 DEF Store!End, Listed, Outcome
  <2>2. Store!Running(p)
    BY OfOwner
  <2>3. CASE label = "done"
    <3>1. DestinationOf(p) \in Destinations
      BY <1>1, DestinationsInType
    <3>2. Whole(DestinationOf(p)) /\ report[DestinationOf(p)].owner = p
      BY <2>3, DirectoriesInType DEF Whole
    <3>3. <<DestinationOf(p), p>> \in Store!Of(p)
      BY <3>1, <3>2, OfOwner
    <3> QED
      BY <2>1, <2>2, <2>3, <3>3 DEF Store!StoreNext, Store!Succeed
  <2>4. CASE label = "failed"
    <3>1. Store!Of(p) = {}
      BY <2>4, OfOwner
    <3> QED
      BY <2>1, <2>2, <2>4, <3>1 DEF Store!StoreNext, Store!Fail
  <2>5. CASE label = "crashed"
    BY <2>1, <2>2, <2>5 DEF Store!StoreNext, Store!Crash
  <2> QED
    BY <1>3, <2>3, <2>4, <2>5 DEF Ended
<1> QED
  BY <1>2, <1>3

(* A successful rename adds one report under a free name.                  *)
LEMMA PublishIsStore ==
  ASSUME Publication, NEW p \in Procs, Publish(p)
  PROVE  Store!StoreNext \/ UNCHANGED Store!storeVars
<1> DEFINE d == DestinationOf(p)
<1>1. /\ ReportsTypeOK /\ Empty(p) /\ pc[p] = "publish" /\ pc[p] \notin Ended
      /\ staging[p] = Directory(p, ArtifactNames) /\ d \in Destinations
  BY DestinationsInType DEF Publication, OwnsNothing, OwnsPublished, Publish, At, Ended
<1>same. d' = d
  BY DEF Publish, DestinationOf
<1>2. CASE UNCHANGED report /\ Goto(p, "discard")
  <2>1. UNCHANGED Listed
    BY <1>2 DEF Listed, Whole
  <2> QED
    BY <1>1, <1>2, <2>1, MoveRunIsStore DEF Labels
<1>3. CASE Vacant(report[d]) /\ Goto(p, "check") /\ report' = [report EXCEPT ![d] = staging[p]]
  <2>1. /\ report'[d] = Directory(p, ArtifactNames)
        /\ \A e \in Destinations \ {d} : report'[e] = report[e]
    BY <1>1, <1>3 DEF ReportsTypeOK
  <2>2. ~Whole(d) /\ report'[d].owner = p /\ Whole(d)'
    BY <1>same, <1>3, <2>1, DirectoriesInType DEF Vacant, Whole
  <2>3. \A e \in Destinations \ {d} : Whole(e)' = Whole(e) /\ report'[e].owner = report[e].owner
    BY <2>1 DEF Whole
  <2>4. {e \in Destinations : Whole(e)'} = {e \in Destinations : Whole(e)} \cup {d}
    BY <1>same, <1>1, <2>2, <2>3
  <2>5. Listed' = Listed \cup {<<d, p>>}
    BY <1>1, <2>2, <2>3, <2>4 DEF Listed
  <2>6. Outcome' = Outcome
    BY <1>1, <1>3 DEF Goto, Outcome, Ended, ReportsTypeOK
  <2>7. Store!Of(p) = {} /\ Store!Running(p) /\ d \in Destinations \ Store!Taken
    BY <1>1, <2>2, OfOwner DEF Empty
  <2> HIDE DEF d
  <2>8. Store!Publish(p)
    BY <2>5, <2>6, <2>7 DEF Store!Publish, Listed, Outcome
  <2> QED
    BY <2>8 DEF Store!StoreNext
<1> QED
  BY <1>2, <1>3 DEF Publish

(* A withdrawal ends with the first file that goes.                        *)
LEMMA WithdrawIsStore ==
  ASSUME OneFault, Publication, NEW p \in Procs, Withdraw(p)
  PROVE  Store!StoreNext \/ UNCHANGED Store!storeVars
<1> DEFINE d == DestinationOf(p)
<1>1. /\ ReportsTypeOK /\ pc[p] = "withdraw" /\ pc[p] \notin Ended /\ faults > 0
      /\ d \in Destinations /\ report[d] \in DirectoryType
  BY DestinationsInType DEF Publication, OwnsPublished, Withdraw, At, Ended
<1>same. d' = d
  BY DEF Withdraw, DestinationOf
<1>2. ~Fault
  BY <1>1, ReportsAssumption DEF OneFault, Fault, ReportsTypeOK
<1>3. \A e \in Destinations \ {d} : report[e].owner # p
  BY <1>1 DEF Publication, OwnsOne
<1>4. CASE report[d].owner # p /\ UNCHANGED report /\ Goto(p, "failed")
  <2>1. UNCHANGED Listed
    BY <1>4 DEF Listed, Whole
  <2> QED
    BY <1>1, <1>3, <1>4, <2>1, MoveRunIsStore DEF Labels, Ended
<1>5. CASE report[d].files = {} /\ report' = [report EXCEPT ![d] = NoDirectory] /\ Goto(p, "failed")
  <2>1. ~Whole(d) /\ ~Whole(d)'
    BY <1>same, <1>1, <1>5, DirectoriesInType DEF Whole, ReportsTypeOK
  <2>2. \A e \in Destinations \ {d} : report'[e] = report[e]
    BY <1>1, <1>5 DEF ReportsTypeOK
  <2>3. {e \in Destinations : Whole(e)'} = {e \in Destinations : Whole(e)}
    BY <1>same, <2>1, <2>2 DEF Whole
  <2>4. UNCHANGED Listed
    BY <2>1, <2>2, <2>3 DEF Listed
  <2>5. \A e \in Destinations : Whole(e) => report[e].owner # p
    BY <1>3, <2>1
  <2> QED
    BY <1>1, <1>5, <2>4, <2>5, MoveRunIsStore DEF Labels, Ended
<1>6. CASE report[d].owner = p /\ UNCHANGED pc
           /\ \E f \in report[d].files : report' = [report EXCEPT ![d].files = @ \ {f}]
  <2>1. PICK f \in report[d].files : report' = [report EXCEPT ![d].files = @ \ {f}]
    BY <1>6
  <2>2. /\ report'[d].files # ArtifactNames
        /\ \A e \in Destinations \ {d} : report'[e] = report[e]
    BY <1>1, <2>1 DEF ReportsTypeOK, DirectoryType
  <2>3. ~Whole(d)'
    BY <1>same, <2>2 DEF Whole
  <2>4. {e \in Destinations : Whole(e)'} = {e \in Destinations : Whole(e)} \ {d}
    BY <1>same, <2>2, <2>3 DEF Whole
  <2>5. Listed' = Listed \ {<<d, p>>}
    BY <1>6, <2>2, <2>4 DEF Listed
  <2>6. Outcome' = Outcome
    BY <1>6 DEF Outcome
  <2>7. CASE ~Whole(d)
    <3>1. Listed' = Listed
      BY <2>5, <2>7 DEF Listed
    <3> QED
      BY <2>6, <3>1 DEF Store!storeVars, Listed, Outcome
  <2>8. CASE Whole(d)
    <3>1. Store!Of(p) = {<<d, p>>} /\ Store!Running(p)
      BY <1>1, <1>3, <1>6, <2>8, OfOwner
    <3> HIDE DEF d
    <3>2. Store!Withdraw(p)
      BY <2>5, <2>6, <3>1 DEF Store!Withdraw, Listed, Outcome
    <3> QED
      BY <3>2 DEF Store!StoreNext
  <2> QED
    BY <2>7, <2>8
<1> QED
  BY <1>2, <1>4, <1>5, <1>6 DEF Withdraw

(* Every other step only moves its run on.                                 *)
LEMMA OthersAreStore ==
  ASSUME Publication, NEW p \in Procs,
         \/ MakeRoot(p) \/ Probe(p) \/ Stage(p) \/ Check(p) \/ Discard(p) \/ Crash(p)
  PROVE  Store!StoreNext \/ UNCHANGED Store!storeVars
<1>1. UNCHANGED Listed
  <2>1. UNCHANGED report
    BY DEF MakeRoot, Probe, Stage, Check, Discard, Crash
  <2> QED
    BY <2>1 DEF Listed, Whole
<1>2. pc[p] \notin Ended
  BY DEF MakeRoot, Probe, Stage, Check, Discard, Crash, At, Ended
<1>3. PICK label \in Labels :
        /\ Goto(p, label)
        /\ label = "done" => report[DestinationOf(p)] = Directory(p, ArtifactNames)
        /\ label = "failed" => Empty(p)
  <2>1. CASE MakeRoot(p)
    BY <2>1 DEF MakeRoot, Publication, OwnsNothing, At, Labels, Ended
  <2>2. CASE Probe(p)
    BY <2>2 DEF Probe, Advance, Publication, OwnsNothing, At, Labels, Ended
  <2>3. CASE Stage(p)
    BY <2>3 DEF Stage, At, Labels, Ended
  <2>4. CASE Check(p)
    BY <2>4 DEF Check, AfterListing, Publication, OwnsPublished, At, Labels, Ended
  <2>5. CASE Discard(p)
    BY <2>5 DEF Discard, Publication, OwnsNothing, At, Labels, Ended
  <2>6. CASE Crash(p)
    BY <2>6 DEF Crash, Labels, Ended
  <2> QED
    BY <2>1, <2>2, <2>3, <2>4, <2>5, <2>6
<1> QED
  BY <1>1, <1>2, <1>3, MoveRunIsStore DEF Empty

(* artifacts.py:183, the promise of write_artifacts: each run publishes    *)
(* its report all at once or not at all, and keeps it or reports an error. *)
THEOREM StoreCorrect == OneFault /\ ReportsSpec => StoreImplemented
<1> SUFFICES ASSUME OneFault PROVE ReportsSpec => StoreImplemented
  OBVIOUS
<1>1. ReportsInit => Store!StoreInit
  <2> SUFFICES ASSUME ReportsInit PROVE Store!StoreInit
    OBVIOUS
  <2>1. \A d \in Destinations : report[d].owner = Earlier
    BY DEF ReportsInit, NoDirectory, Directory
  <2>2. Listed \subseteq Destinations \X {Earlier}
    BY <2>1 DEF Listed
  <2>3. Outcome = [p \in Procs |-> "running"]
    BY DEF ReportsInit, Outcome, Ended
  <2> QED
    BY <2>2, <2>3 DEF Store!StoreInit, Listed, Outcome
<1>2. Publication /\ [ReportsNext]_reportsVars => [Store!StoreNext]_(Store!storeVars)
  <2> SUFFICES ASSUME Publication, [ReportsNext]_reportsVars
               PROVE  Store!StoreNext \/ UNCHANGED Store!storeVars
    OBVIOUS
  <2>1. CASE UNCHANGED reportsVars
    BY <2>1 DEF reportsVars, Store!storeVars, Whole
  <2>2. ASSUME NEW p \in Procs, Step(p) \/ Crash(p)
        PROVE  Store!StoreNext \/ UNCHANGED Store!storeVars
    BY <2>2, PublishIsStore, WithdrawIsStore, OthersAreStore DEF Step
  <2> QED
    BY <2>1, <2>2 DEF ReportsNext
<1>3. ReportsSpec => []Publication
  BY AlwaysPublication
<1> QED
  BY <1>1, <1>2, <1>3, PTL DEF ReportsSpec, StoreImplemented, Store!StoreSpec
=============================================================================
