---------------------------- MODULE ProjectProofs ----------------------------
(***************************************************************************)
(* Theorems about the strategy commands, for any number of processes and   *)
(* names and every bound on overlaps, failing calls and kills.             *)
(***************************************************************************)
EXTENDS ProjectSafety, TLAPS

(* The labels at which a command runs.  "read" to "replace" are common to  *)
(* the three operations, the others belong to one.                         *)
Checking == {"list", "prepare_root", "check_target", "check_package", "write_package",
             "check_directory", "stage"}
Creating == {"mkdtemp", "rename", "clean_target", "clean_rest"}
Writing == {"read", "write_temp", "replace"}
RollingBack == {"rollback_temp", "rollback_replace", "rollback_restore"}
Labels == Ended \cup Checking \cup Creating \cup Writing \cup {"restore", "rmtree"} \cup RollingBack

DirType == [owner : Procs \cup {User}, exists : BOOLEAN, files : SUBSET Files]
ManifestType == [exists : BOOLEAN, names : SUBSET Names]

(* The variables have their types, and what does not exist holds nothing.  *)
ProjectTypeOK ==
  /\ root \in BOOLEAN /\ package \in BOOLEAN
  /\ manifest \in ManifestType
  /\ target \in [Names -> DirType] /\ staging \in [Procs -> DirType]
  /\ temps \in SUBSET Procs
  /\ pc \in [Procs -> Labels]
  /\ command \in [Procs -> Commands]
  /\ listed \in [Procs -> SUBSET Names] /\ records \in [Procs -> SUBSET Names]
  /\ madePackage \in [Procs -> BOOLEAN]
  /\ before \in [Procs -> [package : BOOLEAN, manifest : ManifestType, target : [Names -> DirType]]]
  /\ faults \in Nat /\ crashes \in Nat /\ overlaps \in Nat
  /\ \A n \in Names : ~target[n].exists => target[n] = NoDir

(* The labels a command of one operation passes. *)
OwnLabel(p) ==
  /\ pc[p] \in Creating \cup {"prepare_root", "check_target", "check_package", "write_package"}
       => IsOp(p, "create")
  /\ pc[p] \in {"check_directory", "stage", "restore", "rmtree"} \cup RollingBack => IsOp(p, "remove")

(* What a command has in its staging directory. *)
Staged(p) ==
  /\ ~staging[p].exists => staging[p] = NoDir
  /\ pc[p] = "rename" => staging[p] = Dir(p, Files)
  /\ \/ pc[p] \in Checking \cup {"idle", "mkdtemp", "done", "rolled_back"}
     \/ pc[p] \in Writing /\ ~IsOp(p, "remove")
     => staging[p] = NoDir

-----------------------------------------------------------------------------
(* One command at a time: how far it has changed what it found.            *)

Active(p) == pc[p] \notin Ended
Alone == \A p, q \in Procs : Active(p) /\ Active(q) => p = q

(* Its checks have passed. *)
Passed(p) ==
  LET n == NameOf(p)
      was == before[p]
  IN /\ pc[p] \in Checking => Snapshot = was
     /\ Active(p) /\ pc[p] # "list" =>
          n \notin Builtins /\ (n \in was.manifest.names <=> ~IsOp(p, "create"))
     /\ Active(p) /\ pc[p] \notin {"list", "prepare_root"} /\ IsOp(p, "create") => root
     /\ pc[p] \in {"check_package", "write_package"} => was.target[n] = NoDir
     /\ pc[p] = "write_package" => madePackage[p] /\ ~package
     /\ pc[p] = "stage" => target[n].exists

CreateOnTrack(p) ==
  LET n == NameOf(p)
      was == before[p]
  IN IsOp(p, "create") /\ pc[p] \in Creating \cup Writing =>
       /\ was.target[n] = NoDir
       /\ manifest = was.manifest
       /\ package /\ ~madePackage[p] <=> was.package
       /\ pc[p] \in {"mkdtemp", "rename"} \cup Writing => package
       /\ pc[p] \in {"mkdtemp", "rename"} => target = was.target
       /\ pc[p] \in Writing => target = [was.target EXCEPT ![n] = Dir(p, Files)]
       /\ pc[p] \in {"write_temp", "replace"} => records[p] = manifest.names \cup {n}
       /\ pc[p] = "clean_target" => faults > 0 /\ \A m \in Names \ {n} : target[m] = was.target[m]
       /\ pc[p] = "clean_rest" => faults > 0 /\ (faults = 1 => target = was.target)

RemoveOnTrack(p) ==
  LET n == NameOf(p)
      was == before[p]
  IN IsOp(p, "remove") /\ pc[p] \in Writing \cup {"restore", "rmtree"} \cup RollingBack =>
       /\ package = was.package
       /\ was.target[n].exists
       /\ target = [was.target EXCEPT ![n] = NoDir]
       /\ staging[p].exists
       /\ pc[p] \in Writing \cup {"restore"} => manifest = was.manifest
       /\ pc[p] \in Writing \cup {"restore", "rmtree"} => staging[p] = was.target[n]
       /\ pc[p] \in RollingBack => PartOf(staging[p], was.target[n])
       /\ pc[p] \in {"restore"} \cup RollingBack => faults > 0
       /\ pc[p] \in {"write_temp", "replace"} => records[p] = manifest.names \ {n}
       /\ listed[p] = was.manifest.names
       /\ pc[p] \in RollingBack => records[p] = was.manifest.names
       /\ pc[p] \in {"rmtree", "rollback_temp", "rollback_replace"} =>
            manifest.names = was.manifest.names \ {n}
       /\ pc[p] = "rollback_restore" => manifest.names = was.manifest.names

ForgetOnTrack(p) ==
  IsOp(p, "forget") /\ pc[p] \in Writing =>
    /\ Snapshot = before[p]
    /\ pc[p] \in {"write_temp", "replace"} => records[p] = manifest.names \ {NameOf(p)}

RemoveListed(p) ==
  IsOp(p, "remove") /\ Active(p) /\ pc[p] # "list" => listed[p] = before[p].manifest.names

OnTrack(p) ==
  /\ Passed(p) /\ RemoveListed(p)
  /\ CreateOnTrack(p) /\ RemoveOnTrack(p) /\ ForgetOnTrack(p)

Inductive ==
  /\ ProjectTypeOK
  /\ \A p \in Procs : OwnLabel(p) /\ Staged(p)
  /\ Sequential => Alone /\ \A p \in Procs : OnTrack(p)

-----------------------------------------------------------------------------
(* What the commands leave behind.                                         *)
Consistent(project) ==
  \A n \in project.manifest.names : project.target[n].exists /\ n \notin Builtins
Tidy(p) == pc[p] \in Ended \ {"rollback_failed"} => ~staging[p].exists

StaysConsistent ==
  Sequential /\ faults <= 1 /\ crashes = 0 =>
    /\ Quiet => Consistent(Snapshot)
    /\ \A p \in Procs : Tidy(p) /\ (Active(p) => Consistent(before[p]))

HasFiles(project, n) ==
  \/ Complete(project.target[n])
  \/ \E p \in Procs : pc[p] = "crashed" /\ IsOp(p, "remove") /\ NameOf(p) = n /\ Complete(staging[p])
FilesSurvive ==
  Sequential /\ faults = 0 =>
    /\ Quiet => \A n \in manifest.names : HasFiles(Snapshot, n)
    /\ \A p \in Procs : Active(p) => \A n \in before[p].manifest.names : HasFiles(before[p], n)

-----------------------------------------------------------------------------
(* Two commands on one name, whatever else runs.                           *)
OnlyTwo(p, q) ==
  /\ p # q /\ NameOf(p) = NameOf(q) /\ command[p].op = command[q].op
  /\ \A r \in Procs \ {p, q} : NameOf(r) = NameOf(p) => pc[r] = "idle"
Renamed(p) == pc[p] \in Writing \cup {"done"}
GivenUp(p) == pc[p] \in {"clean_target", "clean_rest", "failed", "crashed"}
Taken(p) == pc[p] \in Writing \cup {"restore", "rmtree", "done"} \cup RollingBack

Winner ==
  \A p, q \in Procs :
    OnlyTwo(p, q) =>
      /\ IsOp(p, "create") /\ Renamed(p) =>
           ~Renamed(q) /\ (GivenUp(q) \/ Complete(target[NameOf(p)]))
      /\ IsOp(p, "remove") /\ Taken(p) => ~Taken(q) /\ ~target[NameOf(p)].exists

-----------------------------------------------------------------------------
(* Directories and snapshots. *)
LEMMA DirsInType ==
  /\ NoDir \in DirType /\ ~NoDir.exists /\ NoDir.files = {}
  /\ \A p \in Procs : \A f \in SUBSET Files :
       Dir(p, f) \in DirType /\ Dir(p, f).exists /\ Dir(p, f).files = f
  /\ Dir(User, Files) \in DirType /\ Dir(User, Files).exists
BY DEF NoDir, Dir, DirType

(* A part of a directory is a directory: its files are fewer.              *)
LEMMA PartOfDir ==
  ASSUME NEW dir \in DirType, NEW left \in SUBSET dir.files
  PROVE  /\ [dir EXCEPT !.files = left] \in DirType
         /\ [dir EXCEPT !.files = left].exists = dir.exists
         /\ [dir EXCEPT !.files = left].files = left
<1>1. left \in SUBSET Files
  BY DEF DirType
<1> QED
  BY <1>1 DEF DirType

ProjectType == [package : BOOLEAN, manifest : ManifestType, target : [Names -> DirType]]

(* Two snapshots are equal when their parts are.                           *)
LEMMA SameProject ==
  ASSUME NEW was \in ProjectType, NEW now \in ProjectType
  PROVE  now = was <=> /\ now.package = was.package
                       /\ now.manifest = was.manifest /\ now.target = was.target
BY DEF ProjectType

(* No command has begun, and what exists is registered or not.             *)
LEMMA InitInductive == ProjectInit => Inductive
<1> SUFFICES ASSUME ProjectInit PROVE Inductive
  OBVIOUS
<1>1. PICK present, registered \in {{}} \cup {{n} : n \in Names \ Builtins} :
        /\ registered \subseteq present
        /\ target = [n \in Names |-> IF n \in present THEN Dir(User, Files) ELSE NoDir]
        /\ manifest = [exists |-> registered # {}, names |-> registered]
        /\ package = (registered # {})
        /\ root = (present # {})
  BY DEF ProjectInit
<1>2. registered \in SUBSET Names
  OBVIOUS
<1>3. manifest \in ManifestType /\ target \in [Names -> DirType]
  BY <1>1, <1>2, DirsInType DEF ManifestType
<1>4. \A n \in Names : ~target[n].exists => target[n] = NoDir
  BY <1>1, DirsInType
<1>5. Snapshot \in ProjectType
  BY <1>1, <1>3 DEF Snapshot, ProjectType
<1>6. ProjectTypeOK
  BY <1>1, <1>3, <1>4, <1>5, DirsInType
     DEF ProjectInit, ProjectTypeOK, ProjectType, Labels, Ended
<1>7. \A p \in Procs : pc[p] = "idle" /\ staging[p] = NoDir
  BY DEF ProjectInit
<1>8. \A p \in Procs : OwnLabel(p) /\ Staged(p)
  BY <1>7 DEF OwnLabel, Staged, Creating, RollingBack
<1>9. \A p \in Procs : ~Active(p) /\ OnTrack(p)
  BY <1>7 DEF Active, Ended, OnTrack, Passed, RemoveListed, CreateOnTrack, RemoveOnTrack,
              ForgetOnTrack, Checking, Creating, Writing, RollingBack
<1> QED
  BY <1>6, <1>8, <1>9 DEF Inductive, Alone

(* What a step of a command leaves alone: the other processes, and the     *)
(* directories of the other names.                                         *)
Moves(p) ==
  /\ Active(p) /\ pc' = [pc EXCEPT ![p] = pc'[p]] /\ pc'[p] # "idle"
  /\ UNCHANGED <<command, before, overlaps>>
  /\ faults <= faults' /\ (UNCHANGED crashes <=> pc'[p] # "crashed")
  /\ \A q \in Procs \ {p} : staging'[q] = staging[q]
  /\ \A m \in Names \ {NameOf(p)} : target'[m] = target[m]

(* A command that moves on keeps the invariant if its own part of it holds. *)
LEMMA MoveOn ==
  ASSUME Inductive, NEW p \in Procs, Moves(p),
         ProjectTypeOK',
         OwnLabel(p)', Staged(p)', Sequential => OnTrack(p)'
  PROVE  Inductive'
<1>1. pc' = [pc EXCEPT ![p] = pc'[p]] /\ pc \in [Procs -> Labels]
  BY DEF Moves, Inductive, ProjectTypeOK
<1>2. \A q \in Procs \ {p} : pc'[q] = pc[q]
  BY <1>1
<1>3. ASSUME NEW q \in Procs \ {p}
      PROVE  OwnLabel(q)' /\ Staged(q)'
  BY <1>2 DEF Moves, Inductive, OwnLabel, Staged, IsOp
<1>4. ASSUME Sequential, NEW q \in Procs \ {p}
      PROVE  ~Active(q)' /\ OnTrack(q)'
  <2>1. ~Active(q)
    BY <1>4 DEF Moves, Inductive, Alone
  <2>2. ~Active(q)'
    BY <2>1, <1>2 DEF Active
  <2> QED
    BY <2>2 DEF Active, Ended, OnTrack, Passed, RemoveListed, CreateOnTrack, RemoveOnTrack,
                ForgetOnTrack, Checking, Creating, Writing, RollingBack
<1>5. Sequential' <=> Sequential
  BY DEF Moves, Sequential
<1>6. Sequential => Alone'
  BY <1>4 DEF Alone
<1> QED
  BY <1>3, <1>4, <1>5, <1>6 DEF Inductive

(* The calls counted as failing, and those before a fault. *)
LEMMA Calls ==
  ASSUME ProjectTypeOK, NoFault \/ Fault
  PROVE  /\ faults' \in Nat /\ crashes' \in Nat /\ overlaps' \in Nat
         /\ UNCHANGED <<overlaps, crashes>> /\ faults \in Nat
         /\ Fault => faults' = faults + 1 /\ Sequential
         /\ NoFault => faults' = faults
         /\ faults <= faults'
BY DEF ProjectTypeOK, NoFault, Fault, bounds, Sequential

(* The checks against the names that list() returned change nothing.       *)
LEMMA ListKeeps ==
  ASSUME Inductive, NEW p \in Procs, List(p)
  PROVE  Inductive' /\ Moves(p)
<1>1. ProjectTypeOK /\ OwnLabel(p) /\ Staged(p) /\ (Sequential => OnTrack(p)) /\ Active(p)
  BY DEF Inductive, List, At, Active, Ended
<1>2. /\ pc'[p] \in {"failed", "prepare_root", "check_directory", "read"}
      /\ pc' = [pc EXCEPT ![p] = pc'[p]]
  BY <1>1 DEF List, Goto, ProjectTypeOK, IsOp, Commands, Refused, ManifestType
<1>3. Moves(p)
  BY <1>1, <1>2, Calls
     DEF List, Moves, files, locals, bounds, NoFault, NameOf, Commands, ProjectTypeOK, Refused,
         ManifestType
<1>4. pc' \in [Procs -> Labels]
  BY <1>1, <1>2 DEF ProjectTypeOK, Labels, Ended, Checking, Creating, Writing, RollingBack
<1>5. ProjectTypeOK'
  BY <1>1, <1>4, Calls, DirsInType DEF List, files, locals, ProjectTypeOK, Refused, ManifestType
<1>6. OwnLabel(p)'
  BY <1>1, <1>2
     DEF List, At, Goto, files, locals, OwnLabel, IsOp, ProjectTypeOK, Commands, Ended, Checking,
         Creating, Writing, RollingBack, Refused, ManifestType
<1>7. Staged(p)'
  BY <1>1, <1>2, <1>5, Calls, DirsInType
     DEF List, At, Goto, files, locals, Staged, IsOp, ProjectTypeOK, Ended, Checking, Creating,
         Writing, RollingBack, Refused, ManifestType
<1>8. Sequential => OnTrack(p)'
  BY <1>1, <1>2, <1>5, Calls, DirsInType
     DEF List, At, Goto, files, locals, ProjectTypeOK, Active, NameOf, IsOp, Commands, Snapshot,
         OnTrack, Passed, RemoveListed, CreateOnTrack, RemoveOnTrack, ForgetOnTrack, Ended,
         Checking, Creating, Writing, RollingBack, Refused, ManifestType
<1> QED
  BY <1>1, <1>2, <1>3, <1>5, <1>6, <1>7, <1>8, MoveOn

(* Making strategies/ changes nothing that a failure would have to undo.   *)
LEMMA PrepareRootKeeps ==
  ASSUME Inductive, NEW p \in Procs, PrepareRoot(p)
  PROVE  Inductive' /\ Moves(p)
<1>1. ProjectTypeOK /\ OwnLabel(p) /\ Staged(p) /\ (Sequential => OnTrack(p)) /\ Active(p)
  BY DEF Inductive, PrepareRoot, At, Active, Ended
<1>2. pc'[p] \in {"check_target", "failed"} /\ pc' = [pc EXCEPT ![p] = pc'[p]]
  BY <1>1 DEF PrepareRoot, Goto, ProjectTypeOK, IsOp, Commands
<1>3. Moves(p)
  BY <1>1, <1>2, Calls
     DEF PrepareRoot, Moves, files, locals, bounds, NoFault, NameOf, Commands, ProjectTypeOK
<1>4. pc' \in [Procs -> Labels]
  BY <1>1, <1>2 DEF ProjectTypeOK, Labels, Ended, Checking, Creating, Writing, RollingBack
<1>5. ProjectTypeOK'
  BY <1>1, <1>4, Calls, DirsInType DEF PrepareRoot, files, locals, ProjectTypeOK
<1>6. OwnLabel(p)'
  BY <1>1, <1>2
     DEF PrepareRoot, At, Goto, files, locals, OwnLabel, IsOp, ProjectTypeOK, Commands, Ended,
         Checking, Creating, Writing, RollingBack
<1>7. Staged(p)'
  BY <1>1, <1>2, <1>5, Calls, DirsInType
     DEF PrepareRoot, At, Goto, files, locals, Staged, IsOp, ProjectTypeOK, Ended, Checking,
         Creating, Writing, RollingBack
<1>8. Sequential => OnTrack(p)'
  BY <1>1, <1>2, <1>5, Calls, DirsInType
     DEF PrepareRoot, At, Goto, files, locals, ProjectTypeOK, Active, NameOf, IsOp, Commands, Snapshot,
         OnTrack, Passed, RemoveListed, CreateOnTrack, RemoveOnTrack, ForgetOnTrack, Ended,
         Checking, Creating, Writing, RollingBack
<1> QED
  BY <1>1, <1>2, <1>3, <1>5, <1>6, <1>7, <1>8, MoveOn

(* A creation goes on only if its directory does not exist.                *)
LEMMA CheckTargetKeeps ==
  ASSUME Inductive, NEW p \in Procs, CheckTarget(p)
  PROVE  Inductive' /\ Moves(p)
<1>1. ProjectTypeOK /\ OwnLabel(p) /\ Staged(p) /\ (Sequential => OnTrack(p)) /\ Active(p)
  BY DEF Inductive, CheckTarget, At, Active, Ended
<1>2. pc'[p] \in {"failed", "check_package"} /\ pc' = [pc EXCEPT ![p] = pc'[p]]
  BY <1>1 DEF CheckTarget, Goto, ProjectTypeOK, IsOp, Commands, NoFault, bounds
<1>3. Moves(p)
  BY <1>1, <1>2, Calls
     DEF CheckTarget, Moves, files, locals, bounds, NoFault, NameOf, Commands, ProjectTypeOK,
         NoFault, bounds
<1>4. pc' \in [Procs -> Labels]
  BY <1>1, <1>2 DEF ProjectTypeOK, Labels, Ended, Checking, Creating, Writing, RollingBack
<1>5. ProjectTypeOK'
  BY <1>1, <1>4, Calls, DirsInType DEF CheckTarget, files, locals, ProjectTypeOK, NoFault, bounds
<1>6. OwnLabel(p)'
  BY <1>1, <1>2
     DEF CheckTarget, At, Goto, files, locals, OwnLabel, IsOp, ProjectTypeOK, Commands, Ended,
         Checking, Creating, Writing, RollingBack, NoFault, bounds
<1>7. Staged(p)'
  BY <1>1, <1>2, <1>5, Calls, DirsInType
     DEF CheckTarget, At, Goto, files, locals, Staged, IsOp, ProjectTypeOK, Ended, Checking,
         Creating, Writing, RollingBack, NoFault, bounds
<1>8. Sequential => OnTrack(p)'
  BY <1>1, <1>2, <1>5, Calls, DirsInType
     DEF CheckTarget, At, Goto, files, locals, ProjectTypeOK, Active, NameOf, IsOp, Commands, Snapshot,
         OnTrack, Passed, RemoveListed, CreateOnTrack, RemoveOnTrack, ForgetOnTrack, Ended,
         Checking, Creating, Writing, RollingBack, NoFault, bounds
<1> QED
  BY <1>1, <1>2, <1>3, <1>5, <1>6, <1>7, <1>8, MoveOn

(* created_package_init records that the initializer was missing.          *)
LEMMA CheckPackageKeeps ==
  ASSUME Inductive, NEW p \in Procs, CheckPackage(p)
  PROVE  Inductive' /\ Moves(p)
<1>1. ProjectTypeOK /\ OwnLabel(p) /\ Staged(p) /\ (Sequential => OnTrack(p)) /\ Active(p)
  BY DEF Inductive, CheckPackage, At, Active, Ended
<1>2. pc'[p] \in {"mkdtemp", "write_package"} /\ pc' = [pc EXCEPT ![p] = pc'[p]]
  BY <1>1 DEF CheckPackage, Goto, ProjectTypeOK, IsOp, Commands, NoFault, bounds
<1>3. Moves(p)
  BY <1>1, <1>2, Calls
     DEF CheckPackage, Moves, files, locals, bounds, NoFault, NameOf, Commands, ProjectTypeOK,
         NoFault, bounds
<1>4. pc' \in [Procs -> Labels]
  BY <1>1, <1>2 DEF ProjectTypeOK, Labels, Ended, Checking, Creating, Writing, RollingBack
<1>9. /\ madePackage'[p] <=> ~package
      /\ pc'[p] = (IF package THEN "mkdtemp" ELSE "write_package") /\ UNCHANGED files
      /\ pc[p] = "check_package" /\ IsOp(p, "create") /\ UNCHANGED bounds
  BY <1>1 DEF CheckPackage, At, Goto, OwnLabel, ProjectTypeOK
<1>10. Sequential => /\ Snapshot = before[p] /\ before[p].target[NameOf(p)] = NoDir /\ root
                     /\ (package <=> before[p].package)
                     /\ target = before[p].target /\ manifest = before[p].manifest
                     /\ NameOf(p) \notin Builtins /\ NameOf(p) \notin before[p].manifest.names
  BY <1>1, <1>9 DEF OnTrack, Passed, Checking, Snapshot, Active
<1>5. ProjectTypeOK'
  BY <1>1, <1>4, Calls, DirsInType DEF CheckPackage, files, locals, ProjectTypeOK, NoFault, bounds
<1>6. OwnLabel(p)'
  BY <1>1, <1>2
     DEF CheckPackage, At, Goto, files, locals, OwnLabel, IsOp, ProjectTypeOK, Commands, Ended,
         Checking, Creating, Writing, RollingBack, NoFault, bounds
<1>7. Staged(p)'
  BY <1>1, <1>2, <1>5, Calls, DirsInType
     DEF CheckPackage, At, Goto, files, locals, Staged, IsOp, ProjectTypeOK, Ended, Checking,
         Creating, Writing, RollingBack, NoFault, bounds
<1>8. Sequential => OnTrack(p)'
  BY <1>1, <1>2, <1>5, Calls, DirsInType, <1>9, <1>10
     DEF CheckPackage, At, Goto, files, locals, ProjectTypeOK, Active, NameOf, IsOp, Commands, Snapshot,
         OnTrack, Passed, RemoveListed, CreateOnTrack, RemoveOnTrack, ForgetOnTrack, Ended,
         Checking, Creating, Writing, RollingBack, NoFault, bounds
<1> QED
  BY <1>1, <1>2, <1>3, <1>5, <1>6, <1>7, <1>8, MoveOn

(* The initializer is written, or a failing write may have left one.       *)
LEMMA WritePackageKeeps ==
  ASSUME Inductive, NEW p \in Procs, WritePackage(p)
  PROVE  Inductive' /\ Moves(p)
<1>1. ProjectTypeOK /\ OwnLabel(p) /\ Staged(p) /\ (Sequential => OnTrack(p)) /\ Active(p)
  BY DEF Inductive, WritePackage, At, Active, Ended
<1>2. pc'[p] \in {"mkdtemp", "clean_target"} /\ pc' = [pc EXCEPT ![p] = pc'[p]]
  BY <1>1 DEF WritePackage, Goto, ProjectTypeOK, IsOp, Commands
<1>3. Moves(p)
  <2>1. (NoFault \/ Fault) /\ UNCHANGED target
    BY <1>1 DEF WritePackage, NameOf, Commands, ProjectTypeOK
  <2>2. UNCHANGED <<command, before, staging>>
    BY DEF WritePackage, locals
  <2> QED
    BY <1>1, <1>2, <2>1, <2>2, Calls DEF Moves
<1>4. pc' \in [Procs -> Labels]
  BY <1>1, <1>2 DEF ProjectTypeOK, Labels, Ended, Checking, Creating, Writing, RollingBack
<1>9. Sequential => /\ Snapshot = before[p] /\ before[p].target[NameOf(p)] = NoDir /\ root
                    /\ ~before[p].package /\ ~package /\ madePackage[p]
                    /\ target = before[p].target /\ manifest = before[p].manifest
                    /\ NameOf(p) \notin Builtins /\ NameOf(p) \notin before[p].manifest.names
                    /\ IsOp(p, "create")
  BY <1>1 DEF WritePackage, At, OnTrack, OwnLabel, Passed, Checking, Snapshot, Active
<1>10. Sequential => \/ package' /\ UNCHANGED root /\ pc'[p] = "mkdtemp"
                     \/ faults' > 0 /\ package' \in BOOLEAN /\ pc'[p] = "clean_target" /\ UNCHANGED root
  <2>0. pc \in [Procs -> Labels] /\ UNCHANGED root
    BY <1>1 DEF WritePackage, ProjectTypeOK
  <2>1. CASE package' = TRUE /\ Goto(p, "mkdtemp")
    BY <2>0, <2>1 DEF Goto
  <2>2. CASE package \/ ~root
    BY <1>9, <2>2
  <2>3. CASE Fault /\ package' \in {package, TRUE} /\ Goto(p, "clean_target")
    <3>1. faults' > 0
      BY <1>1, <2>3, Calls
    <3>2. pc'[p] = "clean_target"
      BY <2>0, <2>3 DEF Goto
    <3>3. package' \in BOOLEAN
      BY <1>1, <2>3 DEF ProjectTypeOK
    <3> QED
      BY <2>0, <3>1, <3>2, <3>3
  <2> QED
    BY <2>1, <2>2, <2>3 DEF WritePackage
<1>5. ProjectTypeOK'
  BY <1>1, <1>4, Calls, DirsInType DEF WritePackage, files, locals, ProjectTypeOK
<1>6. OwnLabel(p)'
  BY <1>1, <1>2
     DEF WritePackage, At, Goto, files, locals, OwnLabel, IsOp, ProjectTypeOK, Commands, Ended,
         Checking, Creating, Writing, RollingBack
<1>7. Staged(p)'
  BY <1>1, <1>2, <1>5, Calls, DirsInType
     DEF WritePackage, At, Goto, files, locals, Staged, IsOp, ProjectTypeOK, Ended, Checking,
         Creating, Writing, RollingBack
<1>8. Sequential => OnTrack(p)'
  BY <1>1, <1>2, <1>5, Calls, DirsInType, <1>9, <1>10
     DEF WritePackage, At, Goto, files, locals, ProjectTypeOK, Active, NameOf, IsOp, Commands, Snapshot,
         OnTrack, Passed, RemoveListed, CreateOnTrack, RemoveOnTrack, ForgetOnTrack, Ended,
         Checking, Creating, Writing, RollingBack
<1> QED
  BY <1>1, <1>2, <1>3, <1>5, <1>6, <1>7, <1>8, MoveOn

(* The files are made in the staging directory, which holds some of them   *)
(* after a failure.                                                        *)
LEMMA FillStagingKeeps ==
  ASSUME Inductive, NEW p \in Procs, FillStaging(p)
  PROVE  Inductive' /\ Moves(p)
<1>1. ProjectTypeOK /\ OwnLabel(p) /\ Staged(p) /\ (Sequential => OnTrack(p)) /\ Active(p)
  BY DEF Inductive, FillStaging, At, Active, Ended
<1>2. pc'[p] \in {"rename", "clean_target"} /\ pc' = [pc EXCEPT ![p] = pc'[p]]
  BY <1>1 DEF FillStaging, Goto, ProjectTypeOK, IsOp, Commands
<1>3. Moves(p)
  BY <1>1, <1>2, Calls
     DEF FillStaging, Moves, files, locals, bounds, NoFault, NameOf, Commands, ProjectTypeOK
<1>4. pc' \in [Procs -> Labels]
  BY <1>1, <1>2 DEF ProjectTypeOK, Labels, Ended, Checking, Creating, Writing, RollingBack
<1>9. {} \in SUBSET Files /\ {"__init__.py"} \in SUBSET Files /\ Files \in SUBSET Files
  BY DEF Files
<1>10. PICK left \in DirType :
         staging' = [staging EXCEPT ![p] = left] /\ (~left.exists => left = NoDir)
         /\ (pc'[p] = "rename" => left = Dir(p, Files))
  <2>1. CASE UNCHANGED staging
    <3>1. staging' = [staging EXCEPT ![p] = staging[p]] /\ staging[p] \in DirType
      BY <1>1, <2>1 DEF ProjectTypeOK
    <3> QED
      BY <1>1, <1>2, <2>1, <3>1 DEF FillStaging, Staged, Goto, ProjectTypeOK
  <2>2. CASE staging' = [staging EXCEPT ![p] = Dir(p, Files)]
    BY <1>9, <2>2, DirsInType
  <2>3. CASE Goto(p, "clean_target") /\ \E left \in {NoDir, Dir(p, {}), Dir(p, {"__init__.py"})} :
                                       staging' = [staging EXCEPT ![p] = left]
    BY <1>1, <1>9, <2>3, DirsInType DEF Goto, ProjectTypeOK
  <2> QED
    BY <2>1, <2>2, <2>3 DEF FillStaging
<1>5. ProjectTypeOK'
  BY <1>1, <1>4, Calls, DirsInType, <1>10 DEF FillStaging, files, locals, ProjectTypeOK
<1>6. OwnLabel(p)'
  BY <1>1, <1>2
     DEF FillStaging, At, Goto, files, locals, OwnLabel, IsOp, ProjectTypeOK, Commands, Ended,
         Checking, Creating, Writing, RollingBack
<1>7. Staged(p)'
  BY <1>1, <1>2, <1>5, Calls, DirsInType, <1>10
     DEF FillStaging, At, Goto, files, locals, Staged, IsOp, ProjectTypeOK, Ended, Checking,
         Creating, Writing, RollingBack
<1>8. Sequential => OnTrack(p)'
  BY <1>1, <1>2, <1>5, Calls, DirsInType
     DEF FillStaging, At, Goto, files, locals, ProjectTypeOK, Active, NameOf, IsOp, Commands, Snapshot,
         OnTrack, Passed, RemoveListed, CreateOnTrack, RemoveOnTrack, ForgetOnTrack, Ended,
         Checking, Creating, Writing, RollingBack
<1> QED
  BY <1>1, <1>2, <1>3, <1>5, <1>6, <1>7, <1>8, MoveOn

(* The rename moves the whole directory, onto a name that has none.        *)
LEMMA RenameToTargetKeeps ==
  ASSUME Inductive, NEW p \in Procs, RenameToTarget(p)
  PROVE  Inductive' /\ Moves(p)
<1>1. ProjectTypeOK /\ OwnLabel(p) /\ Staged(p) /\ (Sequential => OnTrack(p)) /\ Active(p)
  BY DEF Inductive, RenameToTarget, At, Active, Ended
<1>2. pc'[p] \in {"read", "clean_target"} /\ pc' = [pc EXCEPT ![p] = pc'[p]]
  BY <1>1 DEF RenameToTarget, Goto, ProjectTypeOK, IsOp, Commands, Vacant
<1>3. Moves(p)
  BY <1>1, <1>2, Calls
     DEF RenameToTarget, Moves, files, locals, bounds, NoFault, NameOf, Commands, ProjectTypeOK,
         Vacant
<1>4. pc' \in [Procs -> Labels]
  BY <1>1, <1>2 DEF ProjectTypeOK, Labels, Ended, Checking, Creating, Writing, RollingBack
<1>9. /\ NameOf(p) \in Names /\ staging[p] = Dir(p, Files)
      /\ Dir(p, Files) \in DirType /\ Dir(p, Files).exists
  BY <1>1, DirsInType DEF RenameToTarget, At, Staged, NameOf, Commands, ProjectTypeOK
<1>10. \/ UNCHANGED <<target, staging>> /\ pc'[p] = "clean_target"
       \/ /\ pc'[p] = "read" /\ NoFault /\ target[NameOf(p)].files = {}
          /\ target' = [target EXCEPT ![NameOf(p)] = Dir(p, Files)]
          /\ staging' = [staging EXCEPT ![p] = NoDir]
  BY <1>1, <1>9 DEF RenameToTarget, Goto, Vacant, ProjectTypeOK
<1>11. /\ target' \in [Names -> DirType] /\ staging' \in [Procs -> DirType]
       /\ \A n \in Names : ~target'[n].exists => target'[n] = NoDir
  <2> DEFINE k == NameOf(p)
  <2>1. CASE UNCHANGED <<target, staging>>
    BY <1>1, <2>1 DEF ProjectTypeOK
  <2>2. CASE target' = [target EXCEPT ![k] = Dir(p, Files)] /\ staging' = [staging EXCEPT ![p] = NoDir]
    <3>1. k \in Names
      BY <1>9
    <3> HIDE DEF k
    <3> QED
      BY <1>1, <1>9, <2>2, <3>1, DirsInType DEF ProjectTypeOK
  <2> QED
    BY <1>10, <2>1, <2>2
<1>12. Sequential =>
         /\ before[p].target[NameOf(p)] = NoDir
         /\ target = before[p].target /\ manifest = before[p].manifest
         /\ (package /\ ~madePackage[p] <=> before[p].package) /\ package
         /\ NameOf(p) \notin Builtins /\ NameOf(p) \notin before[p].manifest.names /\ root
         /\ (UNCHANGED target => faults' > 0)
  <2>1. IsOp(p, "create") /\ pc[p] = "rename"
    BY <1>1 DEF RenameToTarget, At, OwnLabel, Creating
  <2>2. \/ faults' # faults \/ ~Vacant(target[NameOf(p)])
        \/ target' = [target EXCEPT ![NameOf(p)] = staging[p]]
    BY DEF RenameToTarget
  <2>3. NoFault \/ Fault
    BY DEF RenameToTarget
  <2>4. ~UNCHANGED target \/ faults' # faults \/ ~Vacant(target[NameOf(p)])
    <3>1. SUFFICES ASSUME target' = [target EXCEPT ![NameOf(p)] = staging[p]],
                          UNCHANGED target, Vacant(target[NameOf(p)])
                   PROVE  FALSE
      BY <2>2
    <3>2. target[NameOf(p)] = staging[p]
      BY <1>1, <1>9, <3>1 DEF ProjectTypeOK
    <3> QED
      BY <1>9, <3>1, <3>2 DEF Vacant, Dir, Files
  <2> QED
    BY <1>1, <2>1, <2>3, <2>4, Calls, DirsInType
       DEF OnTrack, Passed, CreateOnTrack, Creating, Active, Vacant
<1>5. ProjectTypeOK'
  BY <1>1, <1>4, Calls, DirsInType, <1>11 DEF RenameToTarget, files, locals, ProjectTypeOK, Vacant
<1>6. OwnLabel(p)'
  BY <1>1, <1>2
     DEF RenameToTarget, At, Goto, files, locals, OwnLabel, IsOp, ProjectTypeOK, Commands, Ended,
         Checking, Creating, Writing, RollingBack, Vacant
<1>7. Staged(p)'
  BY <1>1, <1>2, <1>5, Calls, DirsInType, <1>10
     DEF RenameToTarget, At, Goto, files, locals, Staged, IsOp, ProjectTypeOK, Ended, Checking,
         Creating, Writing, RollingBack, Vacant
<1>8. Sequential => OnTrack(p)'
  BY <1>1, <1>2, <1>5, Calls, DirsInType, <1>9, <1>10, <1>12
     DEF RenameToTarget, At, Goto, files, locals, ProjectTypeOK, Active, NameOf, IsOp, Commands,
         Snapshot,
         OnTrack, Passed, RemoveListed, CreateOnTrack, RemoveOnTrack, ForgetOnTrack, Ended,
         Checking, Creating, Writing, RollingBack, Vacant
<1> QED
  BY <1>1, <1>2, <1>3, <1>5, <1>6, <1>7, <1>8, MoveOn

(* The cleanup removes the directory, or after another failure a part of   *)
(* it.                                                                     *)
LEMMA CleanTargetKeeps ==
  ASSUME Inductive, NEW p \in Procs, CleanTarget(p)
  PROVE  Inductive' /\ Moves(p)
<1>1. ProjectTypeOK /\ OwnLabel(p) /\ Staged(p) /\ (Sequential => OnTrack(p)) /\ Active(p)
  BY DEF Inductive, CleanTarget, At, Active, Ended
<1>2. pc'[p] \in {"clean_rest"} /\ pc' = [pc EXCEPT ![p] = pc'[p]]
  BY <1>1 DEF CleanTarget, Goto, ProjectTypeOK, IsOp, Commands
<1>3. Moves(p)
  <2>1. (NoFault \/ Fault) /\ \A m \in Names \ {NameOf(p)} : target'[m] = target[m]
    BY <1>1 DEF CleanTarget, NameOf, Commands, ProjectTypeOK
  <2>2. UNCHANGED <<command, before, staging>>
    BY DEF CleanTarget, locals
  <2> QED
    BY <1>1, <1>2, <2>1, <2>2, Calls DEF Moves
<1>4. pc' \in [Procs -> Labels]
  BY <1>1, <1>2 DEF ProjectTypeOK, Labels, Ended, Checking, Creating, Writing, RollingBack
<1>9. NameOf(p) \in Names
  BY <1>1 DEF NameOf, Commands, ProjectTypeOK
<1>10. /\ target' \in [Names -> DirType]
       /\ \A n \in Names : ~target'[n].exists => target'[n] = NoDir
  <2>1. CASE target' = [target EXCEPT ![NameOf(p)] = NoDir]
    BY <1>1, <1>9, <2>1, DirsInType DEF ProjectTypeOK
  <2>2. ASSUME target[NameOf(p)].exists, NEW left \in SUBSET target[NameOf(p)].files,
               target' = [target EXCEPT ![NameOf(p)].files = left]
        PROVE  <1>10
    <3>1. target' = [target EXCEPT ![NameOf(p)] = [target[NameOf(p)] EXCEPT !.files = left]]
      BY <2>2
    <3> QED
      <4> DEFINE n == NameOf(p)
                 dir == [target[n] EXCEPT !.files = left]
      <4>1. target[n] \in DirType
        BY <1>1, <1>9 DEF ProjectTypeOK
      <4>2. dir \in DirType /\ dir.exists
        BY <2>2, <4>1, PartOfDir
      <4>3. target' = [target EXCEPT ![n] = dir]
        BY <3>1
      <4> HIDE DEF dir, n
      <4> QED
        BY <1>1, <4>2, <4>3 DEF ProjectTypeOK
  <2> QED
    BY <2>1, <2>2 DEF CleanTarget
<1>5. ProjectTypeOK'
  BY <1>1, <1>4, Calls, DirsInType, <1>10 DEF CleanTarget, files, locals, ProjectTypeOK
<1>6. OwnLabel(p)'
  BY <1>1, <1>2
     DEF CleanTarget, At, Goto, files, locals, OwnLabel, IsOp, ProjectTypeOK, Commands, Ended,
         Checking, Creating, Writing, RollingBack
<1>7. Staged(p)'
  BY <1>1, <1>2, <1>5, Calls, DirsInType, <1>9
     DEF CleanTarget, At, Goto, files, locals, Staged, IsOp, ProjectTypeOK, Ended, Checking,
         Creating, Writing, RollingBack
<1>8. Sequential => OnTrack(p)'
  BY <1>1, <1>2, <1>5, Calls, DirsInType, <1>9
     DEF CleanTarget, At, Goto, files, locals, ProjectTypeOK, Active, NameOf, IsOp, Commands, Snapshot,
         OnTrack, Passed, RemoveListed, CreateOnTrack, RemoveOnTrack, ForgetOnTrack, Ended,
         Checking, Creating, Writing, RollingBack
<1> QED
  BY <1>1, <1>2, <1>3, <1>5, <1>6, <1>7, <1>8, MoveOn

(* The cleanup removes the staging directory and the initializer it made.  *)
LEMMA CleanRestKeeps ==
  ASSUME Inductive, NEW p \in Procs, CleanRest(p)
  PROVE  Inductive' /\ Moves(p)
<1>1. ProjectTypeOK /\ OwnLabel(p) /\ Staged(p) /\ (Sequential => OnTrack(p)) /\ Active(p)
  BY DEF Inductive, CleanRest, At, Active, Ended
<1>2. pc'[p] \in {"failed"} /\ pc' = [pc EXCEPT ![p] = pc'[p]]
  BY <1>1 DEF CleanRest, Goto, ProjectTypeOK, IsOp, Commands
<1>3. Moves(p)
  BY <1>1, <1>2, Calls
     DEF CleanRest, Moves, files, locals, bounds, NoFault, NameOf, Commands, ProjectTypeOK
<1>4. pc' \in [Procs -> Labels]
  BY <1>1, <1>2 DEF ProjectTypeOK, Labels, Ended, Checking, Creating, Writing, RollingBack
<1>5. ProjectTypeOK'
  BY <1>1, <1>4, Calls, DirsInType DEF CleanRest, files, locals, ProjectTypeOK
<1>6. OwnLabel(p)'
  BY <1>1, <1>2
     DEF CleanRest, At, Goto, files, locals, OwnLabel, IsOp, ProjectTypeOK, Commands, Ended,
         Checking, Creating, Writing, RollingBack
<1>7. Staged(p)'
  BY <1>1, <1>2, <1>5, Calls, DirsInType
     DEF CleanRest, At, Goto, files, locals, Staged, IsOp, ProjectTypeOK, Ended, Checking,
         Creating, Writing, RollingBack
<1>8. Sequential => OnTrack(p)'
  BY <1>1, <1>2, <1>5, Calls, DirsInType
     DEF CleanRest, At, Goto, files, locals, ProjectTypeOK, Active, NameOf, IsOp, Commands, Snapshot,
         OnTrack, Passed, RemoveListed, CreateOnTrack, RemoveOnTrack, ForgetOnTrack, Ended,
         Checking, Creating, Writing, RollingBack
<1> QED
  BY <1>1, <1>2, <1>3, <1>5, <1>6, <1>7, <1>8, MoveOn

(* The records to write are those of the file and the change of the        *)
(* command.                                                                *)
LEMMA ReadRecordsKeeps ==
  ASSUME Inductive, NEW p \in Procs, ReadRecords(p)
  PROVE  Inductive' /\ Moves(p)
<1>1. ProjectTypeOK /\ OwnLabel(p) /\ Staged(p) /\ (Sequential => OnTrack(p)) /\ Active(p)
  BY DEF Inductive, ReadRecords, At, Active, Ended
<1>2. /\ pc'[p] \in {"write_temp", "clean_target", "restore", "failed"}
      /\ pc' = [pc EXCEPT ![p] = pc'[p]]
  BY <1>1 DEF ReadRecords, Goto, ProjectTypeOK, IsOp, Commands, OnRegistryError, NewRecords
<1>3. Moves(p)
  BY <1>1, <1>2, Calls
     DEF ReadRecords, Moves, files, locals, bounds, NoFault, NameOf, Commands, ProjectTypeOK,
         OnRegistryError, NewRecords
<1>4. pc' \in [Procs -> Labels]
  BY <1>1, <1>2 DEF ProjectTypeOK, Labels, Ended, Checking, Creating, Writing, RollingBack
<1>9. NewRecords(p) \in SUBSET Names
  BY <1>1 DEF NewRecords, NameOf, Commands, ManifestType, ProjectTypeOK
<1>5. ProjectTypeOK'
  BY <1>1, <1>4, Calls, DirsInType, <1>9, ZenonT(40)
     DEF ReadRecords, files, locals, ProjectTypeOK, OnRegistryError, NewRecords
<1>6. OwnLabel(p)'
  BY <1>1, <1>2
     DEF ReadRecords, At, Goto, files, locals, OwnLabel, IsOp, ProjectTypeOK, Commands, Ended,
         Checking, Creating, Writing, RollingBack, OnRegistryError, NewRecords
<1>7. Staged(p)'
  BY <1>1, <1>2, <1>5, Calls, DirsInType
     DEF ReadRecords, At, Goto, files, locals, Staged, IsOp, ProjectTypeOK, Ended, Checking,
         Creating, Writing, RollingBack, OnRegistryError, NewRecords
<1>8. Sequential => OnTrack(p)'
  BY <1>1, <1>2, <1>5, Calls, DirsInType
     DEF ReadRecords, At, Goto, files, locals, ProjectTypeOK, Active, NameOf, IsOp, Commands, Snapshot,
         OnTrack, Passed, RemoveListed, CreateOnTrack, RemoveOnTrack, ForgetOnTrack, Ended,
         Checking, Creating, Writing, RollingBack, OnRegistryError, NewRecords
<1> QED
  BY <1>1, <1>2, <1>3, <1>5, <1>6, <1>7, <1>8, MoveOn

(* A removal goes on only if its directory exists.                         *)
LEMMA CheckDirectoryKeeps ==
  ASSUME Inductive, NEW p \in Procs, CheckDirectory(p)
  PROVE  Inductive' /\ Moves(p)
<1>1. ProjectTypeOK /\ OwnLabel(p) /\ Staged(p) /\ (Sequential => OnTrack(p)) /\ Active(p)
  BY DEF Inductive, CheckDirectory, At, Active, Ended
<1>2. pc'[p] \in {"stage", "failed"} /\ pc' = [pc EXCEPT ![p] = pc'[p]]
  BY <1>1 DEF CheckDirectory, Goto, ProjectTypeOK, IsOp, Commands, NoFault, bounds
<1>3. Moves(p)
  BY <1>1, <1>2, Calls
     DEF CheckDirectory, Moves, files, locals, bounds, NoFault, NameOf, Commands, ProjectTypeOK,
         NoFault, bounds
<1>4. pc' \in [Procs -> Labels]
  BY <1>1, <1>2 DEF ProjectTypeOK, Labels, Ended, Checking, Creating, Writing, RollingBack
<1>5. ProjectTypeOK'
  BY <1>1, <1>4, Calls, DirsInType DEF CheckDirectory, files, locals, ProjectTypeOK, NoFault, bounds
<1>6. OwnLabel(p)'
  BY <1>1, <1>2
     DEF CheckDirectory, At, Goto, files, locals, OwnLabel, IsOp, ProjectTypeOK, Commands, Ended,
         Checking, Creating, Writing, RollingBack, NoFault, bounds
<1>7. Staged(p)'
  BY <1>1, <1>2, <1>5, Calls, DirsInType
     DEF CheckDirectory, At, Goto, files, locals, Staged, IsOp, ProjectTypeOK, Ended, Checking,
         Creating, Writing, RollingBack, NoFault, bounds
<1>8. Sequential => OnTrack(p)'
  BY <1>1, <1>2, <1>5, Calls, DirsInType
     DEF CheckDirectory, At, Goto, files, locals, ProjectTypeOK, Active, NameOf, IsOp, Commands,
         Snapshot,
         OnTrack, Passed, RemoveListed, CreateOnTrack, RemoveOnTrack, ForgetOnTrack, Ended,
         Checking, Creating, Writing, RollingBack, NoFault, bounds
<1> QED
  BY <1>1, <1>2, <1>3, <1>5, <1>6, <1>7, <1>8, MoveOn

(* The directory of a removal moves into its staging directory as it is.   *)
LEMMA StageRemovalKeeps ==
  ASSUME Inductive, NEW p \in Procs, StageRemoval(p)
  PROVE  Inductive' /\ Moves(p)
<1>1. ProjectTypeOK /\ OwnLabel(p) /\ Staged(p) /\ (Sequential => OnTrack(p)) /\ Active(p)
  BY DEF Inductive, StageRemoval, At, Active, Ended
<1>2. pc'[p] \in {"read", "failed"} /\ pc' = [pc EXCEPT ![p] = pc'[p]]
  BY <1>1 DEF StageRemoval, Goto, ProjectTypeOK, IsOp, Commands
<1>3. Moves(p)
  BY <1>1, <1>2, Calls
     DEF StageRemoval, Moves, files, locals, bounds, NoFault, NameOf, Commands, ProjectTypeOK
<1>4. pc' \in [Procs -> Labels]
  BY <1>1, <1>2 DEF ProjectTypeOK, Labels, Ended, Checking, Creating, Writing, RollingBack
<1>9. NameOf(p) \in Names /\ target[NameOf(p)] \in DirType /\ IsOp(p, "remove")
  BY <1>1, DirsInType DEF StageRemoval, At, OwnLabel, NameOf, Commands, ProjectTypeOK
<1>10. \/ UNCHANGED <<target, staging>> /\ pc'[p] = "failed"
       \/ /\ pc'[p] = "read" /\ target[NameOf(p)].exists
          /\ target' = [target EXCEPT ![NameOf(p)] = NoDir]
          /\ staging' = [staging EXCEPT ![p] = target[NameOf(p)]]
  BY <1>1, <1>9 DEF StageRemoval, Goto, ProjectTypeOK
<1>11. /\ target' \in [Names -> DirType] /\ staging' \in [Procs -> DirType]
       /\ \A n \in Names : ~target'[n].exists => target'[n] = NoDir
  <2> DEFINE k == NameOf(p)
  <2>1. CASE UNCHANGED <<target, staging>>
    BY <1>1, <2>1 DEF ProjectTypeOK
  <2>2. CASE target' = [target EXCEPT ![k] = NoDir] /\ staging' = [staging EXCEPT ![p] = target[k]]
    <3>1. k \in Names
      BY <1>9
    <3> HIDE DEF k
    <3> QED
      BY <1>1, <1>9, <2>2, <3>1, DirsInType DEF ProjectTypeOK
  <2> QED
    BY <1>10, <2>1, <2>2
<1>5. ProjectTypeOK'
  BY <1>1, <1>4, Calls, DirsInType, <1>11 DEF StageRemoval, files, locals, ProjectTypeOK
<1>6. OwnLabel(p)'
  BY <1>1, <1>2
     DEF StageRemoval, At, Goto, files, locals, OwnLabel, IsOp, ProjectTypeOK, Commands, Ended,
         Checking, Creating, Writing, RollingBack
<1>7. Staged(p)'
  BY <1>1, <1>2, <1>5, Calls, DirsInType, <1>9, <1>10
     DEF StageRemoval, At, Goto, files, locals, Staged, IsOp, ProjectTypeOK, Ended, Checking,
         Creating, Writing, RollingBack
<1>8. Sequential => OnTrack(p)'
  BY <1>1, <1>2, <1>5, Calls, DirsInType, <1>9, <1>10
     DEF StageRemoval, At, Goto, files, locals, ProjectTypeOK, Active, NameOf, IsOp, Commands, Snapshot,
         OnTrack, Passed, RemoveListed, CreateOnTrack, RemoveOnTrack, ForgetOnTrack, Ended,
         Checking, Creating, Writing, RollingBack
<1> QED
  BY <1>1, <1>2, <1>3, <1>5, <1>6, <1>7, <1>8, MoveOn

(* A failing rmtree leaves a part of the staged directory.                 *)
LEMMA DeleteStagedKeeps ==
  ASSUME Inductive, NEW p \in Procs, DeleteStaged(p)
  PROVE  Inductive' /\ Moves(p)
<1>1. ProjectTypeOK /\ OwnLabel(p) /\ Staged(p) /\ (Sequential => OnTrack(p)) /\ Active(p)
  BY DEF Inductive, DeleteStaged, At, Active, Ended
<1>2. pc'[p] \in {"done", "rollback_temp"} /\ pc' = [pc EXCEPT ![p] = pc'[p]]
  BY <1>1 DEF DeleteStaged, Goto, ProjectTypeOK, IsOp, Commands
<1>3. Moves(p)
  BY <1>1, <1>2, Calls
     DEF DeleteStaged, Moves, files, locals, bounds, NoFault, NameOf, Commands, ProjectTypeOK
<1>4. pc' \in [Procs -> Labels]
  BY <1>1, <1>2 DEF ProjectTypeOK, Labels, Ended, Checking, Creating, Writing, RollingBack
<1>9. \E left \in DirType :
        /\ staging' = [staging EXCEPT ![p] = left] /\ (~left.exists => left = NoDir)
        /\ (pc'[p] = "done" => left = NoDir)
        /\ (pc'[p] = "rollback_temp" => (staging[p].exists => left.exists) /\ PartOf(left, staging[p]))
  <2>1. CASE staging' = [staging EXCEPT ![p] = NoDir]  /\ Goto(p, "done")
    BY <2>1, <1>1, DirsInType DEF Goto, ProjectTypeOK
  <2>2. ASSUME NEW left \in SUBSET staging[p].files,
               staging' = [staging EXCEPT ![p].files = left], Goto(p, "rollback_temp")
        PROVE  <1>9
    <3>1. staging' = [staging EXCEPT ![p] = [staging[p] EXCEPT !.files = left]]
      BY <2>2
    <3>2. staging[p] \in DirType
      BY <1>1 DEF ProjectTypeOK
    <3>3. \/ staging[p].exists
          \/ staging[p] = NoDir
      BY <1>1 DEF Staged
    <3> DEFINE dir == [staging[p] EXCEPT !.files = left]
    <3>4. dir \in DirType /\ dir.exists = staging[p].exists /\ dir.files = left
      BY <2>2, <3>2, PartOfDir
    <3>5. ~staging[p].exists => dir = NoDir
      <4>1. SUFFICES ASSUME staging[p] = NoDir PROVE dir = NoDir
        BY <3>3
      <4>2. left = {}
        BY <2>2, <4>1, DirsInType
      <4>3. dir = [NoDir EXCEPT !.files = {}]
        BY <4>1, <4>2
      <4>4. [NoDir EXCEPT !.files = {}] = [k \in DOMAIN NoDir |-> NoDir[k]]
        BY DEF NoDir
      <4> QED
        BY <4>3, <4>4 DEF NoDir
    <3>6. staging' = [staging EXCEPT ![p] = dir] /\ pc'[p] = "rollback_temp"
      BY <1>1, <2>2, <3>1 DEF Goto, ProjectTypeOK
    <3>7. PartOf(dir, staging[p])
      BY <2>2 DEF PartOf
    <3> HIDE DEF dir
    <3> QED
      BY <3>4, <3>5, <3>6, <3>7
  <2> QED
    BY <2>1, <2>2 DEF DeleteStaged
<1>5. ProjectTypeOK'
  BY <1>1, <1>4, Calls, DirsInType, <1>9 DEF DeleteStaged, files, locals, ProjectTypeOK
<1>6. OwnLabel(p)'
  BY <1>1, <1>2
     DEF DeleteStaged, At, Goto, files, locals, OwnLabel, IsOp, ProjectTypeOK, Commands, Ended,
         Checking, Creating, Writing, RollingBack
<1>7. Staged(p)'
  BY <1>1, <1>2, <1>5, Calls, DirsInType, <1>9
     DEF DeleteStaged, At, Goto, files, locals, Staged, IsOp, ProjectTypeOK, Ended, Checking,
         Creating, Writing, RollingBack
<1>8. Sequential => OnTrack(p)'
  BY <1>1, <1>2, <1>5, Calls, DirsInType, <1>9
     DEF DeleteStaged, At, Goto, files, locals, ProjectTypeOK, Active, NameOf, IsOp, Commands, Snapshot,
         OnTrack, Passed, RemoveListed, CreateOnTrack, RemoveOnTrack, ForgetOnTrack, Ended,
         Checking, Creating, Writing, RollingBack
<1> QED
  BY <1>1, <1>2, <1>3, <1>5, <1>6, <1>7, <1>8, MoveOn

(* A kill leaves the files as they are.                                    *)
LEMMA CrashKeeps ==
  ASSUME Inductive, NEW p \in Procs, Crash(p)
  PROVE  Inductive' /\ Moves(p)
<1>1. ProjectTypeOK /\ OwnLabel(p) /\ Staged(p) /\ (Sequential => OnTrack(p)) /\ Active(p)
  BY DEF Inductive, Crash, At, Active, Ended
<1>2. pc'[p] \in {"crashed"} /\ pc' = [pc EXCEPT ![p] = pc'[p]]
  BY <1>1 DEF Crash, Goto, ProjectTypeOK, IsOp, Commands
<1>3. Moves(p)
  BY <1>1, <1>2, Calls DEF Crash, Moves, files, locals, bounds, NoFault, NameOf, Commands, ProjectTypeOK
<1>4. pc' \in [Procs -> Labels]
  BY <1>1, <1>2 DEF ProjectTypeOK, Labels, Ended, Checking, Creating, Writing, RollingBack
<1>5. ProjectTypeOK'
  BY <1>1, <1>4, Calls, DirsInType DEF Crash, files, locals, ProjectTypeOK
<1>6. OwnLabel(p)'
  BY <1>1, <1>2
     DEF Crash, At, Goto, files, locals, OwnLabel, IsOp, ProjectTypeOK, Commands, Ended, Checking,
         Creating, Writing, RollingBack
<1>7. Staged(p)'
  BY <1>1, <1>2, <1>5, Calls, DirsInType
     DEF Crash, At, Goto, files, locals, Staged, IsOp, ProjectTypeOK, Ended, Checking, Creating,
         Writing, RollingBack
<1>8. Sequential => OnTrack(p)'
  BY <1>1, <1>2, <1>5, Calls, DirsInType
     DEF Crash, At, Goto, files, locals, ProjectTypeOK, Active, NameOf, IsOp, Commands, Snapshot,
         OnTrack, Passed, RemoveListed, CreateOnTrack, RemoveOnTrack, ForgetOnTrack, Ended,
         Checking, Creating, Writing, RollingBack
<1> QED
  BY <1>1, <1>2, <1>3, <1>5, <1>6, <1>7, <1>8, MoveOn

(* The temporary file changes no record.                                   *)
LEMMA WriteRecordsTempKeeps ==
  ASSUME Inductive, NEW p \in Procs, WriteTemp(p, "write_temp", "replace", OnRegistryError(p))
  PROVE  Inductive' /\ Moves(p)
<1>1. ProjectTypeOK /\ OwnLabel(p) /\ Staged(p) /\ (Sequential => OnTrack(p)) /\ Active(p)
  BY DEF Inductive, WriteTemp, At, Active, Ended
<1>2. pc'[p] \in {"replace", "clean_target", "restore", "failed"} /\ pc' = [pc EXCEPT ![p] = pc'[p]]
  BY <1>1 DEF WriteTemp, Goto, ProjectTypeOK, IsOp, Commands, OnRegistryError
<1>3. Moves(p)
  BY <1>1, <1>2, Calls
     DEF WriteTemp, Moves, files, locals, bounds, NoFault, NameOf, Commands, ProjectTypeOK,
         OnRegistryError
<1>4. pc' \in [Procs -> Labels]
  BY <1>1, <1>2 DEF ProjectTypeOK, Labels, Ended, Checking, Creating, Writing, RollingBack
<1>5. ProjectTypeOK'
  BY <1>1, <1>4, Calls, DirsInType DEF WriteTemp, files, locals, ProjectTypeOK, OnRegistryError
<1>6. OwnLabel(p)'
  BY <1>1, <1>2
     DEF WriteTemp, At, Goto, files, locals, OwnLabel, IsOp, ProjectTypeOK, Commands, Ended,
         Checking, Creating, Writing, RollingBack, OnRegistryError
<1>7. Staged(p)'
  BY <1>1, <1>2, <1>5, Calls, DirsInType
     DEF WriteTemp, At, Goto, files, locals, Staged, IsOp, ProjectTypeOK, Ended, Checking,
         Creating, Writing, RollingBack, OnRegistryError
<1>8. Sequential => OnTrack(p)'
  BY <1>1, <1>2, <1>5, Calls, DirsInType
     DEF WriteTemp, At, Goto, files, locals, ProjectTypeOK, Active, NameOf, IsOp, Commands, Snapshot,
         OnTrack, Passed, RemoveListed, CreateOnTrack, RemoveOnTrack, ForgetOnTrack, Ended,
         Checking, Creating, Writing, RollingBack, OnRegistryError
<1> QED
  BY <1>1, <1>2, <1>3, <1>5, <1>6, <1>7, <1>8, MoveOn

(* os.replace puts all the new records in place, or none.                  *)
LEMMA WriteRecordsReplaceKeeps ==
  ASSUME Inductive, NEW p \in Procs,
         ReplaceManifest(p, "replace", IF IsOp(p, "remove") THEN "rmtree" ELSE "done",
                         OnRegistryError(p))
  PROVE  Inductive' /\ Moves(p)
<1>1. ProjectTypeOK /\ OwnLabel(p) /\ Staged(p) /\ (Sequential => OnTrack(p)) /\ Active(p)
  BY DEF Inductive, ReplaceManifest, At, Active, Ended
<1>2. /\ pc'[p] \in {"rmtree", "done", "clean_target", "restore", "failed"}
      /\ pc' = [pc EXCEPT ![p] = pc'[p]]
  BY <1>1 DEF ReplaceManifest, Goto, ProjectTypeOK, IsOp, Commands, OnRegistryError
<1>3. Moves(p)
  BY <1>1, <1>2, Calls
     DEF ReplaceManifest, Moves, files, locals, bounds, NoFault, NameOf, Commands, ProjectTypeOK,
         OnRegistryError
<1>4. pc' \in [Procs -> Labels]
  BY <1>1, <1>2 DEF ProjectTypeOK, Labels, Ended, Checking, Creating, Writing, RollingBack
<1>9. /\ manifest' \in ManifestType
      /\ UNCHANGED manifest \/ manifest'.names = records[p]
  <2>1. CASE UNCHANGED manifest
    BY <1>1, <2>1 DEF ProjectTypeOK
  <2>2. CASE manifest' = [exists |-> TRUE, names |-> records[p]]
    <3>1. records[p] \in SUBSET Names /\ TRUE \in BOOLEAN
      BY <1>1 DEF ProjectTypeOK
    <3> QED
      BY <2>2, <3>1 DEF ManifestType
  <2> QED
    BY <2>1, <2>2 DEF ReplaceManifest
<1>5. ProjectTypeOK'
  BY <1>1, <1>4, Calls, DirsInType, <1>9
     DEF ReplaceManifest, files, locals, ProjectTypeOK, OnRegistryError
<1>6. OwnLabel(p)'
  BY <1>1, <1>2
     DEF ReplaceManifest, At, Goto, files, locals, OwnLabel, IsOp, ProjectTypeOK, Commands, Ended,
         Checking, Creating, Writing, RollingBack, OnRegistryError
<1>7. Staged(p)'
  BY <1>1, <1>2, <1>5, Calls, DirsInType
     DEF ReplaceManifest, At, Goto, files, locals, Staged, IsOp, ProjectTypeOK, Ended, Checking,
         Creating, Writing, RollingBack, OnRegistryError
<1>8. Sequential => OnTrack(p)'
  BY <1>1, <1>2, <1>5, Calls, DirsInType, <1>9
     DEF ReplaceManifest, At, Goto, files, locals, ProjectTypeOK, Active, NameOf, IsOp, Commands,
         Snapshot,
         OnTrack, Passed, RemoveListed, CreateOnTrack, RemoveOnTrack, ForgetOnTrack, Ended,
         Checking, Creating, Writing, RollingBack, OnRegistryError
<1> QED
  BY <1>1, <1>2, <1>3, <1>5, <1>6, <1>7, <1>8, MoveOn

(* The rollback writes the records listed at the start.                    *)
LEMMA RollBackTempKeeps ==
  ASSUME Inductive, NEW p \in Procs,
         WriteTemp(p, "rollback_temp", "rollback_replace", "rollback_failed")
  PROVE  Inductive' /\ Moves(p)
<1>1. ProjectTypeOK /\ OwnLabel(p) /\ Staged(p) /\ (Sequential => OnTrack(p)) /\ Active(p)
  BY DEF Inductive, WriteTemp, At, Active, Ended
<1>2. pc'[p] \in {"rollback_replace", "rollback_failed"} /\ pc' = [pc EXCEPT ![p] = pc'[p]]
  BY <1>1 DEF WriteTemp, Goto, ProjectTypeOK, IsOp, Commands
<1>3. Moves(p)
  BY <1>1, <1>2, Calls
     DEF WriteTemp, Moves, files, locals, bounds, NoFault, NameOf, Commands, ProjectTypeOK
<1>4. pc' \in [Procs -> Labels]
  BY <1>1, <1>2 DEF ProjectTypeOK, Labels, Ended, Checking, Creating, Writing, RollingBack
<1>5. ProjectTypeOK'
  BY <1>1, <1>4, Calls, DirsInType DEF WriteTemp, files, locals, ProjectTypeOK
<1>6. OwnLabel(p)'
  BY <1>1, <1>2
     DEF WriteTemp, At, Goto, files, locals, OwnLabel, IsOp, ProjectTypeOK, Commands, Ended,
         Checking, Creating, Writing, RollingBack
<1>7. Staged(p)'
  BY <1>1, <1>2, <1>5, Calls, DirsInType
     DEF WriteTemp, At, Goto, files, locals, Staged, IsOp, ProjectTypeOK, Ended, Checking,
         Creating, Writing, RollingBack
<1>8. Sequential => OnTrack(p)'
  BY <1>1, <1>2, <1>5, Calls, DirsInType
     DEF WriteTemp, At, Goto, files, locals, ProjectTypeOK, Active, NameOf, IsOp, Commands, Snapshot,
         OnTrack, Passed, RemoveListed, CreateOnTrack, RemoveOnTrack, ForgetOnTrack, Ended,
         Checking, Creating, Writing, RollingBack
<1> QED
  BY <1>1, <1>2, <1>3, <1>5, <1>6, <1>7, <1>8, MoveOn

(* The rollback of the registry registers the name again.                  *)
LEMMA RollBackReplaceKeeps ==
  ASSUME Inductive, NEW p \in Procs,
         ReplaceManifest(p, "rollback_replace", "rollback_restore", "rollback_failed")
  PROVE  Inductive' /\ Moves(p)
<1>1. ProjectTypeOK /\ OwnLabel(p) /\ Staged(p) /\ (Sequential => OnTrack(p)) /\ Active(p)
  BY DEF Inductive, ReplaceManifest, At, Active, Ended
<1>2. pc'[p] \in {"rollback_restore", "rollback_failed"} /\ pc' = [pc EXCEPT ![p] = pc'[p]]
  BY <1>1 DEF ReplaceManifest, Goto, ProjectTypeOK, IsOp, Commands
<1>3. Moves(p)
  BY <1>1, <1>2, Calls
     DEF ReplaceManifest, Moves, files, locals, bounds, NoFault, NameOf, Commands, ProjectTypeOK
<1>4. pc' \in [Procs -> Labels]
  BY <1>1, <1>2 DEF ProjectTypeOK, Labels, Ended, Checking, Creating, Writing, RollingBack
<1>9. /\ manifest' \in ManifestType
      /\ UNCHANGED manifest \/ manifest'.names = records[p]
  <2>1. CASE UNCHANGED manifest
    BY <1>1, <2>1 DEF ProjectTypeOK
  <2>2. CASE manifest' = [exists |-> TRUE, names |-> records[p]]
    <3>1. records[p] \in SUBSET Names /\ TRUE \in BOOLEAN
      BY <1>1 DEF ProjectTypeOK
    <3> QED
      BY <2>2, <3>1 DEF ManifestType
  <2> QED
    BY <2>1, <2>2 DEF ReplaceManifest
<1>5. ProjectTypeOK'
  BY <1>1, <1>4, Calls, DirsInType, <1>9 DEF ReplaceManifest, files, locals, ProjectTypeOK
<1>6. OwnLabel(p)'
  BY <1>1, <1>2
     DEF ReplaceManifest, At, Goto, files, locals, OwnLabel, IsOp, ProjectTypeOK, Commands, Ended,
         Checking, Creating, Writing, RollingBack
<1>7. Staged(p)'
  BY <1>1, <1>2, <1>5, Calls, DirsInType
     DEF ReplaceManifest, At, Goto, files, locals, Staged, IsOp, ProjectTypeOK, Ended, Checking,
         Creating, Writing, RollingBack
<1>8. Sequential => OnTrack(p)'
  BY <1>1, <1>2, <1>5, Calls, DirsInType, <1>9
     DEF ReplaceManifest, At, Goto, files, locals, ProjectTypeOK, Active, NameOf, IsOp, Commands,
         Snapshot,
         OnTrack, Passed, RemoveListed, CreateOnTrack, RemoveOnTrack, ForgetOnTrack, Ended,
         Checking, Creating, Writing, RollingBack
<1> QED
  BY <1>1, <1>2, <1>3, <1>5, <1>6, <1>7, <1>8, MoveOn

(* The staged directory goes back to its name after a failed registration. *)
LEMMA RestoreKeeps ==
  ASSUME Inductive, NEW p \in Procs, Restore(p, "restore", "failed", "failed")
  PROVE  Inductive' /\ Moves(p)
<1>1. ProjectTypeOK /\ OwnLabel(p) /\ Staged(p) /\ (Sequential => OnTrack(p)) /\ Active(p)
  BY DEF Inductive, Restore, At, Active, Ended
<1>2. pc'[p] \in {"failed"} /\ pc' = [pc EXCEPT ![p] = pc'[p]]
  BY <1>1 DEF Restore, Goto, ProjectTypeOK, IsOp, Commands
<1>3. Moves(p)
  BY <1>1, <1>2, Calls
     DEF Restore, Moves, files, locals, bounds, NoFault, NameOf, Commands, ProjectTypeOK
<1>4. pc' \in [Procs -> Labels]
  BY <1>1, <1>2 DEF ProjectTypeOK, Labels, Ended, Checking, Creating, Writing, RollingBack
<1>9. NameOf(p) \in Names
  BY <1>1 DEF NameOf, Commands, ProjectTypeOK
<1>10. \/ UNCHANGED <<target, staging>>
       \/ /\ target' = [target EXCEPT ![NameOf(p)] = staging[p]]
          /\ staging' = [staging EXCEPT ![p] = NoDir]
  BY DEF Restore
<1>11. /\ target' \in [Names -> DirType] /\ staging' \in [Procs -> DirType]
       /\ \A n \in Names : ~target'[n].exists => target'[n] = NoDir
  <2> DEFINE k == NameOf(p)
  <2>1. CASE UNCHANGED <<target, staging>>
    BY <1>1, <2>1 DEF ProjectTypeOK
  <2>2. CASE target' = [target EXCEPT ![k] = staging[p]] /\ staging' = [staging EXCEPT ![p] = NoDir]
    <3>1. k \in Names
      BY <1>9
    <3> HIDE DEF k
    <3> QED
      BY <1>1, <2>2, <3>1, DirsInType DEF Staged, ProjectTypeOK
  <2> QED
    BY <1>10, <2>1, <2>2
<1>5. ProjectTypeOK'
  BY <1>1, <1>4, Calls, DirsInType, <1>11 DEF Restore, files, locals, ProjectTypeOK
<1>6. OwnLabel(p)'
  BY <1>1, <1>2
     DEF Restore, At, Goto, files, locals, OwnLabel, IsOp, ProjectTypeOK, Commands, Ended,
         Checking, Creating, Writing, RollingBack
<1>7. Staged(p)'
  BY <1>1, <1>2, <1>5, Calls, DirsInType, <1>9, <1>10
     DEF Restore, At, Goto, files, locals, Staged, IsOp, ProjectTypeOK, Ended, Checking, Creating,
         Writing, RollingBack
<1>8. Sequential => OnTrack(p)'
  BY <1>1, <1>2, <1>5, Calls, DirsInType, <1>9, <1>10
     DEF Restore, At, Goto, files, locals, ProjectTypeOK, Active, NameOf, IsOp, Commands, Snapshot,
         OnTrack, Passed, RemoveListed, CreateOnTrack, RemoveOnTrack, ForgetOnTrack, Ended,
         Checking, Creating, Writing, RollingBack
<1> QED
  BY <1>1, <1>2, <1>3, <1>5, <1>6, <1>7, <1>8, MoveOn

(* The staged directory goes back to its name after a failed deletion.     *)
LEMMA RollBackRestoreKeeps ==
  ASSUME Inductive, NEW p \in Procs, Restore(p, "rollback_restore", "rolled_back", "rollback_failed")
  PROVE  Inductive' /\ Moves(p)
<1>1. ProjectTypeOK /\ OwnLabel(p) /\ Staged(p) /\ (Sequential => OnTrack(p)) /\ Active(p)
  BY DEF Inductive, Restore, At, Active, Ended
<1>2. pc'[p] \in {"rolled_back", "rollback_failed"} /\ pc' = [pc EXCEPT ![p] = pc'[p]]
  BY <1>1 DEF Restore, Goto, ProjectTypeOK, IsOp, Commands
<1>3. Moves(p)
  BY <1>1, <1>2, Calls
     DEF Restore, Moves, files, locals, bounds, NoFault, NameOf, Commands, ProjectTypeOK
<1>4. pc' \in [Procs -> Labels]
  BY <1>1, <1>2 DEF ProjectTypeOK, Labels, Ended, Checking, Creating, Writing, RollingBack
<1>9. NameOf(p) \in Names
  BY <1>1 DEF NameOf, Commands, ProjectTypeOK
<1>10. \/ UNCHANGED <<target, staging>>
       \/ /\ target' = [target EXCEPT ![NameOf(p)] = staging[p]]
          /\ staging' = [staging EXCEPT ![p] = NoDir]
  BY DEF Restore
<1>11. /\ target' \in [Names -> DirType] /\ staging' \in [Procs -> DirType]
       /\ \A n \in Names : ~target'[n].exists => target'[n] = NoDir
  <2> DEFINE k == NameOf(p)
  <2>1. CASE UNCHANGED <<target, staging>>
    BY <1>1, <2>1 DEF ProjectTypeOK
  <2>2. CASE target' = [target EXCEPT ![k] = staging[p]] /\ staging' = [staging EXCEPT ![p] = NoDir]
    <3>1. k \in Names
      BY <1>9
    <3> HIDE DEF k
    <3> QED
      BY <1>1, <2>2, <3>1, DirsInType DEF Staged, ProjectTypeOK
  <2> QED
    BY <1>10, <2>1, <2>2
<1>5. ProjectTypeOK'
  BY <1>1, <1>4, Calls, DirsInType, <1>11 DEF Restore, files, locals, ProjectTypeOK
<1>6. OwnLabel(p)'
  BY <1>1, <1>2
     DEF Restore, At, Goto, files, locals, OwnLabel, IsOp, ProjectTypeOK, Commands, Ended,
         Checking, Creating, Writing, RollingBack
<1>7. Staged(p)'
  BY <1>1, <1>2, <1>5, Calls, DirsInType, <1>9, <1>10
     DEF Restore, At, Goto, files, locals, Staged, IsOp, ProjectTypeOK, Ended, Checking, Creating,
         Writing, RollingBack
<1>8. Sequential => OnTrack(p)'
  BY <1>1, <1>2, <1>5, Calls, DirsInType, <1>9, <1>10
     DEF Restore, At, Goto, files, locals, ProjectTypeOK, Active, NameOf, IsOp, Commands, Snapshot,
         OnTrack, Passed, RemoveListed, CreateOnTrack, RemoveOnTrack, ForgetOnTrack, Ended,
         Checking, Creating, Writing, RollingBack
<1> QED
  BY <1>1, <1>2, <1>3, <1>5, <1>6, <1>7, <1>8, MoveOn

(* A command that begins finds no other one running, or counts as an overlap. *)
LEMMA BeginKeeps ==
  ASSUME Inductive, NEW p \in Procs, Begin(p)
  PROVE  Inductive'
<1>1. /\ ProjectTypeOK /\ pc[p] = "idle" /\ pc'[p] = "list" /\ pc' = [pc EXCEPT ![p] = "list"]
      /\ before' = [before EXCEPT ![p] = Snapshot] /\ UNCHANGED <<files, locals, faults, crashes>>
  BY DEF Inductive, Begin, At, Goto, ProjectTypeOK
<1>2. \/ UNCHANGED overlaps /\ \A q \in Procs : pc[q] \in Ended
      \/ overlaps' = overlaps + 1
  BY DEF Begin
<1>3. Snapshot \in ProjectType
  BY <1>1 DEF Snapshot, ProjectTypeOK, ProjectType
<1>4. ProjectTypeOK'
  <2>1. before' \in [Procs -> ProjectType]
    BY <1>1, <1>3 DEF ProjectTypeOK, ProjectType
  <2>2. pc' \in [Procs -> Labels]
    BY <1>1 DEF ProjectTypeOK, Labels, Checking
  <2>3. overlaps' \in Nat
    BY <1>1, <1>2 DEF ProjectTypeOK
  <2> QED
    BY <1>1, <2>1, <2>2, <2>3 DEF ProjectTypeOK, ProjectType, files, locals
<1>5. ASSUME NEW q \in Procs PROVE (OwnLabel(q) /\ Staged(q))'
  <2>1. CASE q = p
    BY <1>1, <2>1 DEF Inductive, OwnLabel, Staged, IsOp, files, locals, Ended, Checking, Creating,
                      Writing, RollingBack
  <2>2. CASE q # p
    <3>1. pc'[q] = pc[q]
      BY <1>1, <2>2 DEF ProjectTypeOK
    <3> QED
      BY <1>1, <3>1 DEF Inductive, OwnLabel, Staged, IsOp, files, locals
  <2> QED
    BY <2>1, <2>2
<1>6. ASSUME Sequential' PROVE Alone' /\ \A q \in Procs : OnTrack(q)'
  <2>1. \A q \in Procs : pc[q] \in Ended
    BY <1>1, <1>2, <1>6 DEF Sequential, ProjectTypeOK
  <2>2. \A q \in Procs \ {p} : pc'[q] \in Ended
    BY <1>1, <2>1 DEF ProjectTypeOK
  <2>3. Alone'
    BY <2>2 DEF Alone, Active
  <2>4. \A q \in Procs \ {p} : OnTrack(q)'
    BY <2>2 DEF Active, Ended, OnTrack, Passed, RemoveListed, CreateOnTrack, RemoveOnTrack,
                ForgetOnTrack, Checking, Creating, Writing, RollingBack
  <2>5. before'[p] = Snapshot /\ Snapshot' = Snapshot
    BY <1>1 DEF ProjectTypeOK, Snapshot, files
  <2>6. OnTrack(p)'
    BY <1>1, <2>5 DEF Active, Ended, OnTrack, Passed, RemoveListed, CreateOnTrack, RemoveOnTrack,
                ForgetOnTrack, Checking, Creating, Writing, RollingBack, IsOp, locals, files
  <2> QED
    BY <2>3, <2>4, <2>6
<1> QED
  BY <1>4, <1>5, <1>6 DEF Inductive

(* A step that changes nothing keeps the invariant.                        *)
LEMMA StutterKeeps == Inductive /\ UNCHANGED projectVars => Inductive'
BY DEF Inductive, projectVars, files, locals, bounds, ProjectTypeOK, OwnLabel, Staged, Alone,
       Active, Sequential, OnTrack, Passed, RemoveListed, CreateOnTrack, RemoveOnTrack,
       ForgetOnTrack, Snapshot, NameOf, IsOp

(* A step of a running command. *)
Step(p) ==
  \/ List(p)
  \/ PrepareRoot(p) \/ CheckTarget(p) \/ CheckPackage(p) \/ WritePackage(p)
  \/ FillStaging(p) \/ RenameToTarget(p) \/ CleanTarget(p) \/ CleanRest(p)
  \/ ReadRecords(p) \/ WriteRecords(p)
  \/ CheckDirectory(p) \/ StageRemoval(p) \/ DeleteStaged(p)
  \/ Restore(p, "restore", "failed", "failed") \/ RollBack(p)

(* Every such step keeps the invariant, and works on its own strategy and  *)
(* its own staging directory.                                              *)
LEMMA StepKeeps ==
  ASSUME Inductive, NEW p \in Procs, Step(p) \/ Crash(p)
  PROVE  Inductive' /\ Moves(p)
<1>1. CASE WriteRecords(p)
  BY <1>1, WriteRecordsTempKeeps, WriteRecordsReplaceKeeps DEF WriteRecords
<1>2. CASE RollBack(p)
  BY <1>2, RollBackTempKeeps, RollBackReplaceKeeps, RollBackRestoreKeeps DEF RollBack
<1> QED
  BY <1>1, <1>2, ListKeeps, PrepareRootKeeps, CheckTargetKeeps,
     CheckPackageKeeps, WritePackageKeeps, FillStagingKeeps, RenameToTargetKeeps,
     CleanTargetKeeps, CleanRestKeeps, ReadRecordsKeeps, CheckDirectoryKeeps,
     StageRemovalKeeps, DeleteStagedKeeps, RestoreKeeps, CrashKeeps DEF Step

(* A command begins, makes a step or is killed.                            *)
LEMMA NextIsStep == ProjectNext <=> \E p \in Procs : Begin(p) \/ Step(p) \/ Crash(p)
BY DEF ProjectNext, Step

(* The invariant holds in every state of every run of the commands. *)
LEMMA AlwaysInductive == ProjectSpec => []Inductive
<1>1. Inductive /\ [ProjectNext]_projectVars => Inductive'
  BY BeginKeeps, StepKeeps, StutterKeeps, NextIsStep
<1> QED
  BY InitInductive, <1>1, PTL DEF ProjectSpec

-----------------------------------------------------------------------------
(* What a command that ends alone leaves, whichever step ends it. *)
Did(p) ==
  LET n == NameOf(p)
      was == before[p]
  IN CASE IsOp(p, "create") ->
            /\ manifest'.names = was.manifest.names \cup {n} /\ n \notin was.manifest.names
            /\ target' = [was.target EXCEPT ![n] = Dir(p, Files)]
            /\ package'
       [] IsOp(p, "remove") ->
            /\ manifest'.names = was.manifest.names \ {n} /\ n \in was.manifest.names
            /\ target' = [was.target EXCEPT ![n] = NoDir]
       [] IsOp(p, "forget") ->
            /\ manifest'.names = was.manifest.names \ {n} /\ n \in was.manifest.names
            /\ target' = was.target

EndsWell(p) ==
  Sequential =>
    /\ pc'[p] = "failed" /\ faults' <= 1 => Snapshot' = before[p]
    /\ pc'[p] = "done" => Did(p) /\ NameOf(p) \notin Builtins
    /\ pc'[p] = "rolled_back" =>
         faults' > 0 /\ OnlyFilesLost(p)
    /\ pc'[p] = "rollback_failed" => faults' > 1
    /\ pc'[p] \in {"failed", "done", "rolled_back"} /\ faults' <= 1 => ~staging'[p].exists

(* No step of a running command ends it otherwise. *)
LEMMA EveryEnd ==
  ASSUME Inductive, NEW p \in Procs, Step(p)
  PROVE  EndsWell(p)
<1> SUFFICES ASSUME Sequential PROVE EndsWell(p)
  BY DEF EndsWell
<1>1. /\ ProjectTypeOK /\ OwnLabel(p) /\ Staged(p) /\ OnTrack(p)
      /\ NameOf(p) \in Names /\ before[p] \in ProjectType
      /\ IsOp(p, "create") \/ IsOp(p, "remove") \/ IsOp(p, "forget")
  BY DEF Inductive, ProjectTypeOK, NameOf, IsOp, Commands, ProjectType
<1>2. ~NoDir.exists /\ NoDir.files = {}
  BY DirsInType
<1>3. ASSUME UNCHANGED <<package, manifest, target, staging, before>>,
             pc'[p] = "failed", pc[p] \in Checking
      PROVE  EndsWell(p)
  BY <1>1, <1>2, <1>3 DEF EndsWell, OnTrack, Passed, Staged, Snapshot
<1>4. CASE List(p)
  BY <1>1, <1>3, <1>4 DEF EndsWell, List, At, Goto, files, ProjectTypeOK, Checking
<1>5. CASE PrepareRoot(p)
  BY <1>1, <1>3, <1>5 DEF EndsWell, PrepareRoot, At, Goto, files, ProjectTypeOK, Checking
<1>6. CASE CheckTarget(p)
  BY <1>1, <1>3, <1>6 DEF EndsWell, CheckTarget, At, Goto, files, ProjectTypeOK, Checking
<1>7. CASE CheckPackage(p) \/ WritePackage(p) \/ FillStaging(p) \/ RenameToTarget(p) \/ CleanTarget(p)
  <2>1. pc'[p] \in {"mkdtemp", "write_package", "clean_target", "rename", "read", "clean_rest"}
    BY <1>1, <1>7 DEF CheckPackage, WritePackage, FillStaging, RenameToTarget, CleanTarget, Goto,
                      ProjectTypeOK
  <2> QED
    BY <2>1 DEF EndsWell
<1>8. CASE CleanRest(p)
  BY <1>1, <1>2, <1>8, Calls
     DEF EndsWell, CleanRest, At, Goto, ProjectTypeOK, OwnLabel, OnTrack, CreateOnTrack, Creating,
         Snapshot, ProjectType
<1>9. CASE ReadRecords(p)
  BY <1>1, <1>2, <1>9
     DEF EndsWell, IsOp, ReadRecords, OnRegistryError, At, Goto, files, ProjectTypeOK, OnTrack,
         ForgetOnTrack, Writing, Snapshot, Staged
<1>10. CASE WriteTemp(p, "write_temp", "replace", OnRegistryError(p))
  BY <1>1, <1>2, <1>10
     DEF EndsWell, IsOp, WriteTemp, OnRegistryError, At, Goto, files, ProjectTypeOK, OnTrack,
         ForgetOnTrack, Writing, Snapshot, Staged
<1>11. CASE ReplaceManifest(p, "replace",
                            IF IsOp(p, "remove") THEN "rmtree" ELSE "done", OnRegistryError(p))
  <2>1. pc[p] = "replace" /\ UNCHANGED <<package, target, staging, before>>
    BY <1>11 DEF ReplaceManifest, At
  <2>2. CASE UNCHANGED manifest /\ Goto(p, OnRegistryError(p))
    BY <1>1, <1>2, <2>1, <2>2
       DEF EndsWell, IsOp, OnRegistryError, Goto, ProjectTypeOK, OnTrack, ForgetOnTrack, Writing,
           Snapshot, Staged
  <2>3. CASE /\ manifest' = [exists |-> TRUE, names |-> records[p]]
             /\ Goto(p, IF IsOp(p, "remove") THEN "rmtree" ELSE "done")
    <3>1. manifest'.names = records[p]
      BY <2>3
    <3>2. /\ NameOf(p) \notin Builtins
          /\ NameOf(p) \in before[p].manifest.names <=> ~IsOp(p, "create")
      BY <1>1, <2>1 DEF OnTrack, Passed, Active, Ended
    <3>3. CASE IsOp(p, "create")
      BY <1>1, <1>2, <2>1, <2>3, <3>1, <3>2, <3>3
         DEF EndsWell, Did, IsOp, Goto, ProjectTypeOK, OnTrack, CreateOnTrack, Writing, Staged
    <3>4. CASE IsOp(p, "remove")
      BY <1>1, <2>1, <2>3, <3>4 DEF EndsWell, Goto, ProjectTypeOK
    <3>5. CASE IsOp(p, "forget")
      BY <1>1, <1>2, <2>1, <2>3, <3>1, <3>2, <3>5
         DEF EndsWell, Did, IsOp, Goto, ProjectTypeOK, OnTrack, ForgetOnTrack, Writing, Staged, Snapshot
    <3> QED
      BY <1>1, <3>3, <3>4, <3>5
  <2> QED
    BY <1>11, <2>2, <2>3 DEF ReplaceManifest
<1>12. CASE CheckDirectory(p)
  BY <1>1, <1>3, <1>12 DEF EndsWell, CheckDirectory, At, Goto, files, ProjectTypeOK, Checking
<1>13. CASE StageRemoval(p)
  BY <1>1, <1>3, <1>13 DEF EndsWell, StageRemoval, At, Goto, files, ProjectTypeOK, Checking
<1>14. CASE DeleteStaged(p)
  <2>1. pc[p] = "rmtree" /\ UNCHANGED <<manifest, target, before>> /\ IsOp(p, "remove")
        /\ ~IsOp(p, "create") /\ ~IsOp(p, "forget")
    BY <1>1, <1>14 DEF DeleteStaged, At, OwnLabel, IsOp
  <2>2. /\ manifest.names = before[p].manifest.names \ {NameOf(p)}
        /\ target = [before[p].target EXCEPT ![NameOf(p)] = NoDir]
        /\ NameOf(p) \in before[p].manifest.names /\ NameOf(p) \notin Builtins
    BY <1>1, <2>1 DEF OnTrack, Passed, RemoveOnTrack, Active, Ended
  <2>3. pc'[p] = "rollback_temp" \/ (pc'[p] = "done" /\ staging'[p] = NoDir)
    <3>1. CASE staging' = [staging EXCEPT ![p] = NoDir] /\ Goto(p, "done")
      BY <1>1, <3>1 DEF Goto, ProjectTypeOK
    <3>2. CASE Goto(p, "rollback_temp")
      BY <1>1, <3>2 DEF Goto, ProjectTypeOK
    <3> QED
      BY <1>14, <3>1, <3>2 DEF DeleteStaged
  <2> QED
    BY <1>2, <2>1, <2>2, <2>3 DEF EndsWell, Did
<1>15. CASE Restore(p, "restore", "failed", "failed")
  <2> DEFINE n == NameOf(p)
             was == before[p]
  <2>1. /\ pc[p] = "restore" /\ pc'[p] = "failed" /\ UNCHANGED <<package, manifest, before>>
        /\ IsOp(p, "remove") /\ faults > 0
    BY <1>1, <1>15 DEF Restore, At, Goto, OwnLabel, OnTrack, RemoveOnTrack, ProjectTypeOK
  <2>2. /\ package = was.package /\ manifest = was.manifest
        /\ target = [was.target EXCEPT ![n] = NoDir] /\ staging[p] = was.target[n]
    BY <1>1, <2>1 DEF OnTrack, RemoveOnTrack
  <2>3. \/ faults' > 1
        \/ /\ target' = [target EXCEPT ![n] = staging[p]]
           /\ staging' = [staging EXCEPT ![p] = NoDir]
    BY <1>1, <1>2, <1>15, <2>1, <2>2, Calls DEF Restore, Vacant, ProjectType
  <2>4. ASSUME target' = [target EXCEPT ![n] = staging[p]] PROVE target' = was.target
    BY <1>1, <2>2, <2>4 DEF ProjectType
  <2>5. faults' <= 1 => Snapshot' = was /\ ~staging'[p].exists
    <3>1. package' \in BOOLEAN /\ faults' \in Nat
      BY <1>1, <1>15, <2>1, Calls DEF ProjectTypeOK, Restore
    <3> HIDE DEF n, was
    <3>2. faults' <= 1 => target' = was.target /\ ~staging'[p].exists
      BY <1>1, <1>2, <2>3, <2>4, <3>1 DEF ProjectTypeOK
    <3>3. was \in ProjectType
      BY <1>1 DEF was
    <3> QED
      BY <2>1, <2>2, <3>2, <3>3 DEF Snapshot, ProjectType
  <2> QED
    BY <2>1, <2>5 DEF EndsWell
<1>16. CASE WriteTemp(p, "rollback_temp", "rollback_replace", "rollback_failed")
  BY <1>1, <1>16, Calls
     DEF EndsWell, WriteTemp, At, Goto, ProjectTypeOK, OwnLabel, OnTrack, RemoveOnTrack, RollingBack
<1>17. CASE ReplaceManifest(p, "rollback_replace", "rollback_restore", "rollback_failed")
  BY <1>1, <1>17, Calls
     DEF EndsWell, ReplaceManifest, At, Goto, ProjectTypeOK, OwnLabel, OnTrack, RemoveOnTrack,
         RollingBack
<1>18. CASE Restore(p, "rollback_restore", "rolled_back", "rollback_failed")
  BY <1>1, <1>2, <1>18, Calls
     DEF EndsWell, OnlyFilesLost, Restore, Vacant, At, Goto, ProjectTypeOK, OwnLabel, OnTrack,
         RemoveOnTrack, RollingBack, ProjectType
<1> QED
  BY <1>4, <1>5, <1>6, <1>7, <1>8, <1>9, <1>10, <1>11, <1>12, <1>13, <1>14, <1>15, <1>16, <1>17,
     <1>18 DEF Step, WriteRecords, RollBack

-----------------------------------------------------------------------------
(* The three ways a command steps, seen from any process. *)
LEMMA EndsByStep ==
  ASSUME Inductive, NEW p \in Procs, [ProjectNext]_projectVars,
         NEW label \in Ended \ {"idle", "crashed"}, EndsIn(p, label)
  PROVE  Step(p)
<1>1. pc \in [Procs -> Labels]
  BY DEF Inductive, ProjectTypeOK
<1>2. PICK q \in Procs : Begin(q) \/ Step(q) \/ Crash(q)
  BY NextIsStep DEF projectVars, EndsIn
<1>3. ~Begin(q) /\ ~Crash(q)
  BY <1>1 DEF Begin, Crash, Goto, EndsIn, Ended
<1>4. Moves(q)
  BY <1>2, <1>3, StepKeeps
<1>5. p = q
  BY <1>1, <1>4 DEF Moves, EndsIn
<1> QED
  BY <1>2, <1>3, <1>5

(* Only a kill ends a command as crashed. *)
LEMMA StepNoCrash ==
  ASSUME Inductive, NEW p \in Procs, Step(p)
  PROVE  pc'[p] # "crashed" /\ UNCHANGED crashes
<1>1. Moves(p) /\ pc \in [Procs -> Labels] /\ command[p] \in Commands
  BY StepKeeps DEF Inductive, ProjectTypeOK
<1>2. NoFault \/ Fault
  BY DEF Step, List, PrepareRoot, CheckTarget, CheckPackage, WritePackage, FillStaging,
         RenameToTarget, CleanTarget, CleanRest, ReadRecords, WriteRecords, WriteTemp,
         ReplaceManifest, CheckDirectory, StageRemoval, DeleteStaged, Restore, RollBack, NoFault
<1>3. UNCHANGED crashes
  BY <1>2, Calls DEF Inductive
<1> QED
  BY <1>1, <1>3 DEF Moves

(* A command that reports an error after one failing call has changed      *)
(* nothing, unless that call is the rmtree of a removal: then only files   *)
(* of the directory it was to delete are gone.                             *)
THEOREM FailureIsContained == ProjectSpec => FailedCommandIsContained
<1> DEFINE Contained ==
             \A p \in Procs :
               Sequential /\ faults' <= 1 =>
                 /\ EndsIn(p, "failed") => Snapshot' = before[p]
                 /\ EndsIn(p, "rolled_back") => OnlyFilesLost(p)
                 /\ ~EndsIn(p, "rollback_failed")
<1>1. Inductive /\ [ProjectNext]_projectVars => [Contained]_projectVars
  <2> SUFFICES ASSUME Inductive, [ProjectNext]_projectVars, NEW p \in Procs,
                      Sequential, faults' <= 1,
                      NEW label \in {"failed", "rolled_back", "rollback_failed"}, EndsIn(p, label)
               PROVE  /\ label = "failed" => Snapshot' = before[p]
                      /\ label = "rolled_back" => OnlyFilesLost(p)
                      /\ label # "rollback_failed"
    OBVIOUS
  <2>1. Step(p)
    BY EndsByStep DEF Ended
  <2>2. EndsWell(p)
    BY <2>1, EveryEnd
  <2>3. faults' \in Nat
    BY <2>1, StepKeeps DEF Inductive, ProjectTypeOK
  <2> QED
    BY <2>2, <2>3 DEF EndsWell, EndsIn
<1>2. [][Contained]_projectVars => FailedCommandIsContained
  BY PTL DEF FailedCommandIsContained
<1> QED
  BY <1>1, <1>2, AlwaysInductive, PTL DEF ProjectSpec

(* A command that succeeds has done what it says and nothing else.         *)
THEOREM DoneCommandIsExact == ProjectSpec => DoneCommandChangesItsName
<1> DEFINE Exact == \A p \in Procs : Sequential /\ EndsIn(p, "done") => Did(p)
<1>1. Inductive /\ [ProjectNext]_projectVars => [Exact]_projectVars
  <2> SUFFICES ASSUME Inductive, [ProjectNext]_projectVars, NEW p \in Procs,
                      Sequential, EndsIn(p, "done")
               PROVE  Did(p)
    OBVIOUS
  <2>1. EndsWell(p)
    BY EndsByStep, EveryEnd DEF Ended
  <2> QED
    BY <2>1 DEF EndsWell, EndsIn
<1>2. [][Exact]_projectVars => DoneCommandChangesItsName
  BY PTL DEF DoneCommandChangesItsName, Did
<1> QED
  BY <1>1, <1>2, AlwaysInductive, PTL DEF ProjectSpec

(* Whatever one call failed, the project is consistent between commands.   *)
(* The first project registers only what exists.                           *)
LEMMA InitConsistent == ProjectInit => StaysConsistent
<1> SUFFICES ASSUME ProjectInit PROVE StaysConsistent
  OBVIOUS
<1>1. \A p \in Procs : staging[p] = NoDir /\ ~Active(p)
  BY DEF ProjectInit, Active, Ended
<1>2. PICK present, registered \in {{}} \cup {{n} : n \in Names \ Builtins} :
        /\ registered \subseteq present
        /\ target = [n \in Names |-> IF n \in present THEN Dir(User, Files) ELSE NoDir]
        /\ manifest = [exists |-> registered # {}, names |-> registered]
  BY DEF ProjectInit
<1>3. registered \subseteq Names \ Builtins /\ manifest.names = registered
  BY <1>2
<1>4. Consistent(Snapshot)
  BY <1>2, <1>3, DirsInType DEF Consistent, Snapshot
<1> QED
  BY <1>1, <1>4, DirsInType DEF StaysConsistent, Tidy

(* A step keeps it: how a command ends is known from EveryEnd.             *)
LEMMA StepConsistent ==
  ASSUME Inductive, StaysConsistent, [ProjectNext]_projectVars
  PROVE  StaysConsistent'
<1> SUFFICES ASSUME Sequential', faults' <= 1, crashes' = 0
             PROVE  /\ Quiet' => Consistent(Snapshot')
                    /\ \A p \in Procs : Tidy(p)' /\ (Active(p)' => Consistent(before'[p]))
  BY DEF StaysConsistent
<1>1. ProjectTypeOK
  BY DEF Inductive
<1>2. CASE UNCHANGED projectVars
  BY <1>2 DEF projectVars, files, locals, bounds, Quiet, Snapshot, Tidy, Active, Sequential,
              StaysConsistent
<1>3. ASSUME NEW p \in Procs, Begin(p)
      PROVE  /\ Quiet' => Consistent(Snapshot')
             /\ \A q \in Procs : Tidy(q)' /\ (Active(q)' => Consistent(before'[q]))
  <2>1. /\ pc' = [pc EXCEPT ![p] = "list"] /\ before' = [before EXCEPT ![p] = Snapshot]
        /\ UNCHANGED <<files, faults, crashes>>
    BY <1>3 DEF Begin, Goto
  <2>2. UNCHANGED overlaps /\ \A q \in Procs : pc[q] \in Ended
    BY <1>1, <1>3 DEF Begin, Sequential, ProjectTypeOK
  <2>3. Consistent(Snapshot)
    BY <2>1, <2>2 DEF StaysConsistent, Quiet, Sequential
  <2>4. pc'[p] = "list" /\ before'[p] = Snapshot /\ \A q \in Procs \ {p} : pc'[q] = pc[q]
    BY <1>1, <2>1 DEF ProjectTypeOK
  <2>5. ~Quiet'
    BY <2>4 DEF Quiet, Ended
  <2> QED
    BY <2>1, <2>2, <2>3, <2>4, <2>5 DEF StaysConsistent, Tidy, Active, Ended, Sequential, files
<1>4. ASSUME NEW p \in Procs, Step(p) \/ Crash(p)
      PROVE  /\ Quiet' => Consistent(Snapshot')
             /\ \A q \in Procs : Tidy(q)' /\ (Active(q)' => Consistent(before'[q]))
  <2>1. Moves(p) /\ ProjectTypeOK'
    BY <1>4, StepKeeps DEF Inductive
  <2>2. Sequential /\ faults <= 1 /\ Step(p)
    BY <1>1, <1>4, <2>1 DEF Moves, Sequential, Crash, ProjectTypeOK
  <2>3. crashes = 0 /\ pc'[p] \notin {"idle", "crashed"}
    BY <1>1, <2>1, <2>2, StepNoCrash DEF Moves
  <2>4. /\ Consistent(before[p]) /\ before' = before
        /\ \A q \in Procs \ {p} : Tidy(q)' /\ ~Active(q)'
    <3>1. \A q \in Procs : Tidy(q)
      BY <2>2, <2>3 DEF StaysConsistent
    <3>2. \A q \in Procs \ {p} : ~Active(q) /\ pc'[q] = pc[q]
      BY <1>1, <2>1, <2>2 DEF Inductive, Alone, Moves, ProjectTypeOK
    <3> QED
      BY <2>1, <2>2, <2>3, <3>1, <3>2 DEF StaysConsistent, Moves, Tidy, Active
  <2>5. CASE Active(p)'
    BY <2>4, <2>5 DEF Quiet, Active, Tidy
  <2>6. CASE ~Active(p)'
    <3>5. EndsWell(p) /\ faults' \in Nat
      BY <2>1, <2>2, EveryEnd DEF ProjectTypeOK
    <3>1. pc'[p] \in {"failed", "done", "rolled_back"} /\ EndsWell(p)
      BY <2>2, <2>3, <2>6, <3>5 DEF Active, Ended, EndsWell
    <3>2. Tidy(p)'
      BY <2>2, <3>1 DEF EndsWell, Tidy
    <3>3. /\ NameOf(p) \in Names /\ before[p].target \in [Names -> DirType]
          /\ before[p].manifest.names \subseteq Names
      BY <1>1 DEF ProjectTypeOK, NameOf, Commands, ManifestType
    <3>4. Consistent(Snapshot')
      <4>1. CASE pc'[p] = "failed"
        BY <2>2, <2>4, <3>1, <4>1 DEF EndsWell
      <4>2. CASE pc'[p] = "done"
        <5>1. /\ NameOf(p) \notin Builtins /\ Consistent(before[p]) /\ Dir(p, Files).exists
              /\ IsOp(p, "create") \/ IsOp(p, "remove") \/ IsOp(p, "forget")
              /\ Did(p)
          BY <1>1, <2>2, <2>4, <3>1, <4>2, DirsInType DEF EndsWell, IsOp, Commands, ProjectTypeOK
        <5>2. CASE IsOp(p, "create")
          BY <3>3, <5>1, <5>2, ZenonT(40) DEF Did, Consistent, Snapshot
        <5>3. CASE IsOp(p, "remove")
          BY <3>3, <5>1, <5>3 DEF Did, IsOp, Consistent, Snapshot
        <5>4. CASE IsOp(p, "forget")
          BY <3>3, <5>1, <5>4 DEF Did, IsOp, Consistent, Snapshot
        <5> QED
          BY <5>1, <5>2, <5>3, <5>4
      <4>3. CASE pc'[p] = "rolled_back"
        BY <2>2, <2>4, <3>1, <3>3, <4>3
           DEF EndsWell, OnlyFilesLost, Consistent, Snapshot
      <4> QED
        BY <3>1, <4>1, <4>2, <4>3
    <3> QED
      BY <2>4, <2>6, <3>2, <3>4
  <2> QED
    BY <2>5, <2>6
<1> QED
  BY <1>2, <1>3, <1>4, NextIsStep

(* After one failing call at most, every registered strategy has its       *)
(* directory and no staging directory is left.                             *)
THEOREM QuietIsConsistent == ProjectSpec => []QuietProjectIsConsistent
<1>1. Inductive /\ StaysConsistent /\ [ProjectNext]_projectVars => StaysConsistent'
  BY StepConsistent
<1>2. Inductive /\ StaysConsistent => QuietProjectIsConsistent
  BY DEF StaysConsistent, QuietProjectIsConsistent, Consistent, Tidy, Snapshot, Quiet
<1> QED
  BY <1>1, <1>2, InitConsistent, AlwaysInductive, PTL DEF ProjectSpec

-----------------------------------------------------------------------------
(* A kill leaves what the command had done by then. *)
LEMMA FilesNow ==
  ASSUME Inductive, Sequential, faults = 0, NEW p \in Procs, Active(p),
         NEW m \in manifest.names, HasFiles(before[p], m)
  PROVE  HasFiles(Snapshot, m) \/ (IsOp(p, "remove") /\ NameOf(p) = m /\ Complete(staging[p]))
<1> DEFINE n == NameOf(p)
           was == before[p]
<1>1. /\ OnTrack(p) /\ OwnLabel(p) /\ n \in Names /\ was.target \in [Names -> DirType]
      /\ m \in Names /\ pc[p] \in Labels
      /\ IsOp(p, "create") \/ IsOp(p, "remove") \/ IsOp(p, "forget")
  BY DEF Inductive, ProjectTypeOK, NameOf, IsOp, Commands, ManifestType
<1>3. CASE target = was.target
  BY <1>3 DEF HasFiles, Snapshot
<1>4. CASE pc[p] \in Checking
  BY <1>1, <1>3, <1>4 DEF OnTrack, Passed, Snapshot
<1>5. CASE IsOp(p, "create") /\ pc[p] \in Creating
  BY <1>1, <1>3, <1>5 DEF OnTrack, CreateOnTrack, Creating
<1>6. CASE IsOp(p, "create") /\ pc[p] \in Writing
  BY <1>1, <1>6 DEF OnTrack, CreateOnTrack, HasFiles, Snapshot, Complete, Dir
<1>7. CASE IsOp(p, "remove") /\ pc[p] \in Writing \cup {"restore", "rmtree"} \cup RollingBack
  BY <1>1, <1>7 DEF OnTrack, RemoveOnTrack, Writing, RollingBack, HasFiles, Snapshot, Complete
<1>8. CASE IsOp(p, "forget") /\ pc[p] \in Writing
  BY <1>1, <1>3, <1>8 DEF OnTrack, ForgetOnTrack, Snapshot
<1> QED
  BY <1>1, <1>4, <1>5, <1>6, <1>7, <1>8
     DEF OwnLabel, IsOp, Active, Labels, Creating, Writing, RollingBack, Ended

(* A command alone registers nothing before its last step. *)
LEMMA ManifestGrows ==
  ASSUME Inductive, Sequential, faults = 0, NEW p \in Procs, Active(p)
  PROVE  manifest.names \subseteq before[p].manifest.names
<1>1. OnTrack(p) /\ OwnLabel(p) /\ pc[p] \in Labels /\ faults \in Nat
      /\ (IsOp(p, "create") \/ IsOp(p, "remove") \/ IsOp(p, "forget"))
  BY DEF Inductive, ProjectTypeOK, IsOp, Commands
<1>2. CASE pc[p] \in Checking
  BY <1>1, <1>2 DEF OnTrack, Passed, Snapshot
<1>3. CASE IsOp(p, "create") /\ pc[p] \in Creating \cup Writing
  BY <1>1, <1>3 DEF OnTrack, CreateOnTrack
<1>4. CASE IsOp(p, "remove") /\ pc[p] \in Writing \cup {"restore", "rmtree"} \cup RollingBack
  BY <1>1, <1>4 DEF OnTrack, RemoveOnTrack, Writing, RollingBack
<1>5. CASE IsOp(p, "forget") /\ pc[p] \in Writing
  BY <1>1, <1>5 DEF OnTrack, ForgetOnTrack, Snapshot
<1> QED
  BY <1>1, <1>2, <1>3, <1>4, <1>5
     DEF OwnLabel, IsOp, Active, Labels, Creating, Writing, RollingBack, Ended

(* The first project has the files of what it registers.                   *)
LEMMA InitFilesSurvive == ProjectInit => FilesSurvive
<1> SUFFICES ASSUME ProjectInit PROVE FilesSurvive
  OBVIOUS
<1>1. \A p \in Procs : ~Active(p)
  BY DEF ProjectInit, Active, Ended
<1>2. PICK present, registered \in {{}} \cup {{n} : n \in Names \ Builtins} :
        /\ registered \subseteq present
        /\ target = [n \in Names |-> IF n \in present THEN Dir(User, Files) ELSE NoDir]
        /\ manifest = [exists |-> registered # {}, names |-> registered]
  BY DEF ProjectInit
<1>3. registered \subseteq Names \ Builtins /\ manifest.names = registered
  BY <1>2
<1>4. \A n \in manifest.names : HasFiles(Snapshot, n)
  BY <1>2, <1>3 DEF HasFiles, Snapshot, Complete, Dir
<1> QED
  BY <1>1, <1>4 DEF FilesSurvive

(* A step keeps the files, a kill by FilesNow.                             *)
LEMMA StepFilesSurvive ==
  ASSUME Inductive, FilesSurvive, [ProjectNext]_projectVars
  PROVE  FilesSurvive'
<1> SUFFICES ASSUME Sequential', faults' = 0
             PROVE  /\ Quiet' => \A n \in manifest'.names : HasFiles(Snapshot, n)'
                    /\ \A p \in Procs : Active(p)' =>
                         \A n \in before'[p].manifest.names : HasFiles(before[p], n)'
  BY DEF FilesSurvive
<1>1. ProjectTypeOK
  BY DEF Inductive
<1>2. CASE UNCHANGED projectVars
  BY <1>2 DEF projectVars, files, locals, bounds, Quiet, Snapshot, Active, Sequential,
              FilesSurvive, HasFiles, IsOp, NameOf
<1>3. ASSUME NEW p \in Procs, Begin(p)
      PROVE  /\ Quiet' => \A n \in manifest'.names : HasFiles(Snapshot, n)'
             /\ \A q \in Procs : Active(q)' =>
                  \A n \in before'[q].manifest.names : HasFiles(before[q], n)'
  <2>1. /\ pc' = [pc EXCEPT ![p] = "list"] /\ before' = [before EXCEPT ![p] = Snapshot]
        /\ UNCHANGED <<files, locals, faults, crashes>> /\ pc[p] = "idle"
    BY <1>3 DEF Begin, Goto, At
  <2>2. UNCHANGED overlaps /\ \A q \in Procs : pc[q] \in Ended
    BY <1>1, <1>3 DEF Begin, Sequential, ProjectTypeOK
  <2>3. \A n \in manifest.names : HasFiles(Snapshot, n)
    BY <2>1, <2>2 DEF FilesSurvive, Quiet, Sequential
  <2>4. pc'[p] = "list" /\ before'[p] = Snapshot /\ \A q \in Procs \ {p} : pc'[q] = pc[q]
    BY <1>1, <2>1 DEF ProjectTypeOK
  <2>5. ~Quiet' /\ \A q \in Procs \ {p} : ~Active(q)'
    BY <2>2, <2>4 DEF Quiet, Ended, Active
  <2>6. \A n \in Names : HasFiles(Snapshot, n) => HasFiles(before[p], n)'
    BY <2>1, <2>4 DEF HasFiles, IsOp, NameOf, files, locals
  <2>7. manifest.names \subseteq Names /\ before'[p].manifest = manifest
    BY <1>1, <2>4 DEF ProjectTypeOK, ManifestType, Snapshot
  <2> QED
    BY <2>3, <2>5, <2>6, <2>7
<1>4. ASSUME NEW p \in Procs, Step(p) \/ Crash(p)
      PROVE  /\ Quiet' => \A n \in manifest'.names : HasFiles(Snapshot, n)'
             /\ \A q \in Procs : Active(q)' =>
                  \A n \in before'[q].manifest.names : HasFiles(before[q], n)'
  <2>1. Moves(p) /\ ProjectTypeOK'
    BY <1>4, StepKeeps DEF Inductive
  <2>2. Sequential /\ faults = 0 /\ Active(p)
    BY <1>1, <2>1 DEF Moves, Sequential, ProjectTypeOK
  <2>3. \A q \in Procs \ {p} : ~Active(q)' /\ pc'[q] = pc[q] /\ staging'[q] = staging[q]
    BY <1>1, <2>1, <2>2 DEF Inductive, Alone, Moves, ProjectTypeOK, Active
  <2>4. /\ command' = command /\ before' = before
        /\ \A n \in before[p].manifest.names : HasFiles(before[p], n)
    BY <2>1, <2>2 DEF FilesSurvive, Moves
  <2>5. before[p].manifest.names \subseteq Names /\ before[p].target \in [Names -> DirType]
        /\ NameOf(p) \in Names
    BY <1>1 DEF ProjectTypeOK, ManifestType, NameOf, Commands
  <2>6. \A n \in Names : HasFiles(before[p], n) =>
          \/ Complete(before[p].target[n])
          \/ \E q \in Procs : pc'[q] = "crashed" /\ IsOp(q, "remove")' /\ NameOf(q)' = n
                              /\ Complete(staging'[q])
    BY <2>2, <2>3, <2>4 DEF HasFiles, IsOp, NameOf, Active, Ended
  <2>7. CASE Active(p)'
    BY <2>3, <2>4, <2>5, <2>6, <2>7 DEF Quiet, Active, HasFiles
  <2>8. CASE ~Active(p)' /\ Step(p)
    <3>1. EndsWell(p) /\ pc'[p] \notin {"idle", "crashed"}
      BY <2>1, <2>8, StepNoCrash, EveryEnd DEF Moves
    <3>2. pc'[p] \in {"failed", "done"}
      BY <2>2, <2>8, <3>1 DEF Active, Ended, EndsWell
    <3>3. \A n \in manifest'.names :
            /\ n \in Names
            /\ \/ Complete(target'[n])
               \/ n \in before[p].manifest.names /\ target'[n] = before[p].target[n]
      <4>1. CASE pc'[p] = "failed"
        BY <2>2, <2>5, <3>1, <4>1 DEF EndsWell, Snapshot
      <4>2. CASE pc'[p] = "done"
        <5>1. Did(p) /\ (IsOp(p, "create") \/ IsOp(p, "remove") \/ IsOp(p, "forget"))
              /\ Complete(Dir(p, Files))
          BY <1>1, <2>2, <3>1, <4>2 DEF EndsWell, IsOp, Commands, ProjectTypeOK, Complete, Dir
        <5>2. CASE IsOp(p, "create")
          BY <2>5, <5>1, <5>2 DEF Did
        <5>3. CASE IsOp(p, "remove")
          BY <2>5, <5>1, <5>3 DEF Did, IsOp
        <5>4. CASE IsOp(p, "forget")
          BY <2>5, <5>1, <5>4 DEF Did, IsOp
        <5> QED
          BY <5>1, <5>2, <5>3, <5>4
      <4> QED
        BY <3>2, <4>1, <4>2
    <3>4. \A n \in manifest'.names : HasFiles(Snapshot, n)'
      BY <2>4, <2>6, <3>3 DEF HasFiles, Snapshot
    <3> QED
      BY <2>3, <2>8, <3>4
  <2>9. CASE Crash(p)
    <3>1. pc'[p] = "crashed" /\ UNCHANGED files /\ ~Active(p)'
      BY <1>1, <2>9 DEF Crash, Goto, ProjectTypeOK, Active, Ended
    <3>2. /\ \A n \in manifest.names : n \in Names
          /\ \A n \in Names : HasFiles(Snapshot, n) => HasFiles(Snapshot, n)'
      BY <1>1, <2>2, <2>3, <2>4, <3>1
         DEF HasFiles, Snapshot, IsOp, NameOf, files, Active, Ended, ProjectTypeOK, ManifestType
    <3>3. ASSUME NEW m \in manifest.names
          PROVE  HasFiles(Snapshot, m)'
      <4>1. m \in before[p].manifest.names
        BY <2>2, <2>9, ManifestGrows
      <4>2. HasFiles(Snapshot, m) \/ (IsOp(p, "remove") /\ NameOf(p) = m /\ Complete(staging[p]))
        BY <2>2, <2>4, <4>1, FilesNow
      <4>3. CASE IsOp(p, "remove") /\ NameOf(p) = m /\ Complete(staging[p])
        BY <2>4, <3>1, <4>3 DEF HasFiles, IsOp, NameOf, files
      <4> QED
        BY <3>2, <4>2, <4>3
    <3> QED
      BY <2>3, <3>1, <3>3 DEF files
  <2> QED
    BY <1>4, <2>7, <2>8, <2>9
<1> QED
  BY <1>2, <1>3, <1>4, NextIsStep

(* The files of a registered strategy survive every kill. *)
THEOREM KillsKeepFiles == ProjectSpec => []RegisteredFilesSurviveCrash
<1>1. Inductive /\ FilesSurvive /\ [ProjectNext]_projectVars => FilesSurvive'
  BY StepFilesSurvive
<1>2. FilesSurvive => RegisteredFilesSurviveCrash
  BY DEF FilesSurvive, RegisteredFilesSurviveCrash, HasFiles, Snapshot
<1> QED
  BY <1>1, <1>2, InitFilesSurvive, AlwaysInductive, PTL DEF ProjectSpec

-----------------------------------------------------------------------------
(* How a command takes or gives up the directory of its name. *)
Contends(p) ==
  LET n == NameOf(p)
      kept == target'[n] = target[n]
  IN /\ IsOp(p, "create") =>
          /\ Renamed(p)' => \/ Renamed(p) /\ kept
                            \/ pc[p] = "rename" /\ Vacant(target[n]) /\ Complete(target'[n])
          /\ GivenUp(p)' \/ Renamed(p)' \/ kept
          /\ GivenUp(p) => GivenUp(p)'
          /\ pc[p] = "rename" /\ ~Vacant(target[n]) => kept
     /\ IsOp(p, "remove") =>
          /\ Taken(p)' => \/ Taken(p) /\ kept
                          \/ target[n].exists /\ ~target'[n].exists
          /\ Taken(p) \/ Taken(p)' \/ kept

(* Every step of a command takes, keeps or gives up its directory so.      *)
LEMMA EveryContender ==
  ASSUME Inductive, NEW p \in Procs, Step(p) \/ Crash(p)
  PROVE  Contends(p)
<1> DEFINE n == NameOf(p)
<1>1. /\ ProjectTypeOK /\ OwnLabel(p) /\ Staged(p) /\ n \in Names /\ Moves(p)
      /\ ProjectTypeOK'
  BY StepKeeps DEF Inductive, ProjectTypeOK, NameOf, Commands
<1>2. \A op \in {"create", "remove", "forget"} : IsOp(p, op)' <=> IsOp(p, op)
  BY <1>1 DEF Moves, IsOp
<1>3. CASE \/ List(p) \/ PrepareRoot(p) \/ CheckTarget(p) \/ CheckPackage(p) \/ WritePackage(p)
           \/ FillStaging(p) \/ CheckDirectory(p)
  <2>1. /\ target' = target
        /\ pc'[p] \in {"failed", "prepare_root", "check_directory", "read", "check_target",
                       "check_package", "mkdtemp", "write_package", "clean_target", "rename", "stage"}
        /\ pc'[p] = "read" => ~IsOp(p, "create") /\ ~IsOp(p, "remove")
        /\ ~Taken(p) /\ ~Renamed(p) /\ ~GivenUp(p)
    BY <1>1, <1>3, ZenonT(40)
       DEF List, PrepareRoot, CheckTarget, CheckPackage, WritePackage, FillStaging, CheckDirectory,
           At, Goto, files, ProjectTypeOK, Taken, Renamed, GivenUp, Writing, RollingBack, IsOp, Commands
  <2> QED
    BY <2>1 DEF Contends, Taken, Renamed, GivenUp, Writing, RollingBack
<1>4. CASE RenameToTarget(p)
  <2>1. IsOp(p, "create") /\ ~IsOp(p, "remove") /\ pc[p] = "rename" /\ Complete(staging[p])
    BY <1>1, <1>4 DEF RenameToTarget, At, OwnLabel, IsOp, Creating, Staged, Complete, Dir
  <2>2. \/ target' = target /\ pc'[p] = "clean_target"
        \/ Vacant(target[n]) /\ target'[n] = staging[p] /\ pc'[p] = "read"
    BY <1>1, <1>4 DEF RenameToTarget, Goto, ProjectTypeOK
  <2>3. CASE target' = target /\ pc'[p] = "clean_target"
    BY <2>1, <2>3 DEF Contends, Renamed, GivenUp, Writing
  <2>4. CASE Vacant(target[n]) /\ target'[n] = staging[p] /\ pc'[p] = "read"
    BY <2>1, <2>4 DEF Contends, Renamed, GivenUp, Writing
  <2> QED
    BY <2>2, <2>3, <2>4
<1>5. CASE CleanTarget(p) \/ CleanRest(p)
  <2>1. IsOp(p, "create") /\ ~IsOp(p, "remove") /\ GivenUp(p) /\ GivenUp(p)'
        /\ ~Renamed(p)' /\ pc[p] # "rename"
    BY <1>1, <1>5 DEF CleanTarget, CleanRest, At, Goto, OwnLabel, IsOp, Creating, GivenUp, Renamed,
                      Writing, ProjectTypeOK
  <2> QED
    BY <2>1 DEF Contends
<1>6. CASE ReadRecords(p) \/ WriteRecords(p) \/ DeleteStaged(p)
  <2>1. /\ target' = target /\ pc[p] \in Writing \cup {"rmtree"}
        /\ pc'[p] \in Writing \cup {"clean_target", "restore", "failed", "rmtree", "done",
                                     "rollback_temp"}
    BY <1>1, <1>6
       DEF ReadRecords, WriteRecords, WriteTemp, ReplaceManifest, DeleteStaged, OnRegistryError,
           At, Goto, files, Writing, ProjectTypeOK, IsOp, Commands
  <2>2. IsOp(p, "create") => pc[p] \in Writing
    BY <1>1, <2>1 DEF OwnLabel, IsOp
  <2> QED
    BY <2>1, <2>2 DEF Contends, Taken, Renamed, GivenUp, Writing, RollingBack
<1>7. CASE StageRemoval(p)
  <2>1. IsOp(p, "remove") /\ ~IsOp(p, "create")
    BY <1>1, <1>7 DEF StageRemoval, At, OwnLabel, IsOp
  <2>2. \/ target' = target /\ pc'[p] = "failed"
        \/ target[n].exists /\ target'[n] = NoDir /\ pc'[p] = "read"
    BY <1>1, <1>7 DEF StageRemoval, Goto, ProjectTypeOK
  <2>3. CASE target' = target /\ pc'[p] = "failed"
    BY <2>1, <2>3 DEF Contends, Taken, Writing, RollingBack
  <2>4. CASE target[n].exists /\ target'[n] = NoDir /\ pc'[p] = "read"
    BY <2>1, <2>4, DirsInType DEF Contends, Taken, Writing
  <2> QED
    BY <2>2, <2>3, <2>4
<1>8. CASE Restore(p, "restore", "failed", "failed") \/ RollBack(p)
  <2>1. IsOp(p, "remove") /\ ~IsOp(p, "create") /\ Taken(p)
    BY <1>1, <1>8
       DEF Restore, RollBack, WriteTemp, ReplaceManifest, At, OwnLabel, IsOp, Taken, RollingBack
  <2>2. target' = target \/ pc'[p] \in {"failed", "rolled_back"}
    BY <1>1, <1>8 DEF Restore, RollBack, WriteTemp, ReplaceManifest, Goto, ProjectTypeOK
  <2> QED
    BY <2>1, <2>2 DEF Contends, Taken, Writing, RollingBack
<1>9. CASE Crash(p)
  <2>1. target' = target /\ pc'[p] = "crashed" /\ pc[p] # "crashed"
    BY <1>1, <1>9 DEF Crash, Goto, files, ProjectTypeOK, Ended
  <2> QED
    BY <2>1 DEF Contends, Taken, Renamed, GivenUp, Writing, RollingBack
<1> QED
  BY <1>3, <1>4, <1>5, <1>6, <1>7, <1>8, <1>9 DEF Step

(* No command has renamed anything yet.                                    *)
LEMMA InitWinner == ProjectInit => Winner
BY DEF ProjectInit, Winner, Renamed, Taken, Writing, RollingBack

(* A step keeps it: only the rename takes the directory of a name.         *)
LEMMA StepWinner ==
  ASSUME Inductive, Winner, [ProjectNext]_projectVars
  PROVE  Winner'
<1>1. ProjectTypeOK
  BY DEF Inductive
<1>2. CASE UNCHANGED projectVars
  BY <1>2 DEF projectVars, files, locals, Winner, OnlyTwo, Renamed, GivenUp, Taken, IsOp, NameOf
<1>3. ASSUME NEW p \in Procs, Begin(p) PROVE Winner'
  <2>1. /\ pc[p] = "idle" /\ pc'[p] = "list" /\ \A q \in Procs \ {p} : pc'[q] = pc[q]
        /\ target' = target /\ command' = command
    BY <1>1, <1>3 DEF Begin, At, Goto, files, locals, ProjectTypeOK
  <2>2. \A a, b \in Procs : OnlyTwo(a, b)' => OnlyTwo(a, b)
    BY <2>1 DEF OnlyTwo, NameOf
  <2>3. \A q \in Procs : /\ Renamed(q)' <=> Renamed(q)
                         /\ Taken(q)' <=> Taken(q)
                         /\ GivenUp(q) => GivenUp(q)'
    BY <2>1 DEF Renamed, Taken, GivenUp, Writing, RollingBack
  <2> QED
    BY <2>1, <2>2, <2>3 DEF Winner, IsOp, NameOf
<1>4. ASSUME NEW p \in Procs, Step(p) \/ Crash(p) PROVE Winner'
  <2>1. Moves(p) /\ Contends(p)
    BY <1>4, StepKeeps, EveryContender
  <2>2. /\ \A q \in Procs \ {p} : pc'[q] = pc[q]
        /\ command' = command /\ pc'[p] # "idle" /\ pc[p] \in Labels /\ NameOf(p) \in Names
        /\ \A q \in Procs : NameOf(q) \in Names
    BY <1>1, <2>1 DEF Moves, ProjectTypeOK, NameOf, Commands
  <2>3. \A q \in Procs \ {p} : /\ Renamed(q)' <=> Renamed(q)
                               /\ Taken(q)' <=> Taken(q)
                               /\ GivenUp(q)' <=> GivenUp(q)
    BY <2>2 DEF Renamed, Taken, GivenUp
  <2> SUFFICES ASSUME NEW a \in Procs, NEW b \in Procs, OnlyTwo(a, b)'
               PROVE  /\ IsOp(a, "create") /\ Renamed(a)' =>
                           ~Renamed(b)' /\ (GivenUp(b)' \/ Complete(target'[NameOf(a)]))
                      /\ IsOp(a, "remove") /\ Taken(a)' => ~Taken(b)' /\ ~target'[NameOf(a)].exists
    BY <2>2 DEF Winner, IsOp, NameOf
  <2>4. a # b /\ NameOf(a) = NameOf(b) /\ command[a].op = command[b].op
    BY <2>2 DEF OnlyTwo, NameOf
  <2>5. CASE p # a /\ p # b
    <3>1. NameOf(p) # NameOf(a)
      BY <2>2, <2>5 DEF OnlyTwo, NameOf
    <3>2. target'[NameOf(a)] = target[NameOf(a)]
      BY <2>1, <2>2, <3>1 DEF Moves
    <3>3. OnlyTwo(a, b)
      BY <2>2, <3>1 DEF OnlyTwo, NameOf
    <3> QED
      BY <2>3, <2>5, <3>2, <3>3 DEF Winner
  <2>6. CASE p = a \/ p = b
    <3>1. OnlyTwo(a, b) /\ OnlyTwo(b, a)
      BY <2>2, <2>6 DEF OnlyTwo, NameOf
    <3>2. /\ IsOp(a, "create") /\ Renamed(a) =>
               ~Renamed(b) /\ (GivenUp(b) \/ Complete(target[NameOf(a)]))
          /\ IsOp(a, "remove") /\ Taken(a) => ~Taken(b) /\ ~target[NameOf(a)].exists
          /\ IsOp(a, "create") /\ Renamed(b) =>
               ~Renamed(a) /\ (GivenUp(a) \/ Complete(target[NameOf(a)]))
          /\ IsOp(a, "remove") /\ Taken(b) => ~Taken(a) /\ ~target[NameOf(a)].exists
      BY <2>4, <3>1 DEF Winner, IsOp
    <3>3. \A dir : Complete(dir) => ~Vacant(dir)
      BY DEF Complete, Vacant, Files
    <3>4. CASE p = a
      <4>1. IsOp(a, "create") /\ Renamed(a)' =>
              ~Renamed(b)' /\ (GivenUp(b)' \/ Complete(target'[NameOf(a)]))
        BY <2>1, <2>3, <2>4, <3>2, <3>3, <3>4 DEF Contends, GivenUp, Renamed
      <4>2. IsOp(a, "remove") /\ Taken(a)' => ~Taken(b)' /\ ~target'[NameOf(a)].exists
        BY <2>1, <2>3, <2>4, <3>2, <3>4 DEF Contends
      <4> QED
        BY <4>1, <4>2
    <3>5. CASE p = b
      <4>1. IsOp(b, "create") <=> IsOp(a, "create")
        BY <2>4 DEF IsOp
      <4>2. IsOp(b, "remove") <=> IsOp(a, "remove")
        BY <2>4 DEF IsOp
      <4>3. IsOp(a, "create") /\ Renamed(a)' =>
              ~Renamed(b)' /\ (GivenUp(b)' \/ Complete(target'[NameOf(a)]))
        BY <2>1, <2>3, <2>4, <3>2, <3>3, <3>5, <4>1 DEF Contends, GivenUp
      <4>4. IsOp(a, "remove") /\ Taken(a)' => ~Taken(b)' /\ ~target'[NameOf(a)].exists
        BY <2>1, <2>3, <2>4, <3>2, <3>5, <4>2 DEF Contends
      <4> QED
        BY <4>3, <4>4
    <3> QED
      BY <2>6, <3>4, <3>5
  <2> QED
    BY <2>5, <2>6
<1> QED
  BY <1>2, <1>3, <1>4, NextIsStep

(* The rename onto the directory decides between two commands. *)
THEOREM RenameDecides == ProjectSpec => []OneWinnerPerName
<1>1. Inductive /\ Winner /\ [ProjectNext]_projectVars => Winner'
  BY StepWinner
<1>2. Inductive /\ Winner => OneWinnerPerName
  <2> SUFFICES ASSUME Inductive, Winner, NEW p \in Procs, NEW q \in Procs,
                      p # q, pc[p] = "done", pc[q] = "done", NameOf(p) = NameOf(q),
                      command[p].op = command[q].op, ~IsOp(p, "forget"),
                      \A r \in Procs \ {p, q} : NameOf(r) = NameOf(p) => pc[r] = "idle"
               PROVE  FALSE
    BY DEF OneWinnerPerName
  <2>1. OnlyTwo(p, q)
    BY DEF OnlyTwo
  <2>2. Renamed(p) /\ Renamed(q) /\ Taken(p) /\ Taken(q)
    BY DEF Renamed, Taken
  <2>3. IsOp(p, "create") \/ IsOp(p, "remove")
    BY DEF Inductive, ProjectTypeOK, IsOp, Commands
  <2> QED
    BY <2>1, <2>2, <2>3 DEF Winner
<1> QED
  BY <1>1, <1>2, InitWinner, AlwaysInductive, PTL DEF ProjectSpec

=============================================================================
