-------------------------- MODULE ProjectStrategies --------------------------
(***************************************************************************)
(* `strategy create` and `strategy remove` on one project directory        *)
(* (strategies/scaffold.py, strategies/project_registry.py): several       *)
(* command processes, each a sequence of filesystem calls, with calls that *)
(* fail and processes that are killed.                                     *)
(*                                                                         *)
(* The filesystem (external): rename and os.replace are atomic, a rename   *)
(* onto a directory succeeds only if that directory is empty, rmdir only   *)
(* removes an empty directory, and a failing rmtree may have deleted some  *)
(* of the files.                                                           *)
(***************************************************************************)
EXTENDS Naturals, FiniteSets

CONSTANTS
  Procs,       \* command processes, each runs one command
  Names,       \* strategy names
  Builtins,    \* the names of BUILTIN_REGISTRY
  MaxOverlaps, \* bound on commands that begin while another one runs
  MaxFaults,   \* bound on failing filesystem calls
  MaxCrashes,  \* bound on killed processes
  User         \* the owner of directories that no process made

ASSUME ProjectAssumption ==
  /\ MaxOverlaps \in Nat /\ MaxFaults \in Nat /\ MaxCrashes \in Nat
  /\ User \notin Procs

Files == {"__init__.py", "strategy.py"}
NoDir == [owner |-> User, exists |-> FALSE, files |-> {}]
Dir(owner, files) == [owner |-> owner, exists |-> TRUE, files |-> files]
Commands == [op : {"create", "remove", "forget"}, name : Names]  \* forget: remove --keep-files

VARIABLES
  \* the filesystem below the project root
  root,      \* strategies/ exists
  package,   \* strategies/__init__.py exists
  manifest,  \* strategies/registry.toml: present or not, and its names
  target,    \* strategies/<name>
  staging,   \* the staging directory of a process
  temps,     \* processes whose .registry-*.toml.tmp file exists
  \* local variables of the processes
  pc, command,
  listed,      \* the names registry.list returned
  records,     \* the names about to be written
  madePackage, \* created_package_init
  \* history and bounds
  before,    \* the filesystem when the command began
  faults, crashes, overlaps

files == <<root, package, manifest, target, staging, temps>>
locals == <<command, listed, records, madePackage>>
bounds == <<faults, crashes, overlaps>>
projectVars == <<files, pc, locals, before, bounds>>

Ended == {"idle", "done", "failed", "rolled_back", "rollback_failed", "crashed"}
Snapshot == [package |-> package, manifest |-> manifest, target |-> target]
NameOf(p) == command[p].name
IsOp(p, op) == command[p].op = op
Overwritable(dir) == TRUE  \* slip: a rename that replaces what is there
Vacant(dir) == dir.files = {}  \* absent or empty: a rename onto it succeeds
Complete(dir) == dir.exists /\ dir.files = Files
RootEmpty ==
  /\ ~package /\ ~manifest.exists /\ temps = {}
  /\ \A n \in Names : ~target[n].exists
  /\ \A p \in Procs : ~staging[p].exists

-----------------------------------------------------------------------------
(* A fresh project, one with a registered strategy, and one that holds a   *)
(* directory nobody registered.                                            *)
ProjectInit ==
  /\ \E present, registered \in {{}} \cup {{n} : n \in Names \ Builtins} :
       /\ registered \subseteq present
       /\ target = [n \in Names |-> IF n \in present THEN Dir(User, Files) ELSE NoDir]
       /\ manifest = [exists |-> registered # {}, names |-> registered]
       /\ package = (registered # {})
       /\ root = (present # {})
  /\ staging = [p \in Procs |-> NoDir]
  /\ temps = {}
  /\ pc = [p \in Procs |-> "idle"]
  /\ command \in [Procs -> Commands]
  /\ listed = [p \in Procs |-> {}] /\ records = [p \in Procs |-> {}]
  /\ madePackage = [p \in Procs |-> FALSE]
  /\ before = [p \in Procs |-> Snapshot]
  /\ faults = 0 /\ crashes = 0 /\ overlaps = 0

At(p, label) == pc[p] = label
Goto(p, label) == pc' = [pc EXCEPT ![p] = label]
Fault ==
  /\ overlaps = 0 /\ faults < MaxFaults
  /\ faults' = faults + 1
  /\ UNCHANGED <<crashes, overlaps>>
NoFault == UNCHANGED bounds

(* A bound of the model: either commands overlap, or calls fail and        *)
(* processes are killed.                                                   *)
Begin(p) ==
  /\ At(p, "idle")
  /\ IF \A q \in Procs : pc[q] \in Ended
     THEN UNCHANGED overlaps
     ELSE /\ faults + crashes = 0 /\ overlaps < MaxOverlaps
          /\ overlaps' = overlaps + 1
  /\ UNCHANGED <<faults, crashes>>
  /\ before' = [before EXCEPT ![p] = Snapshot]
  /\ Goto(p, "list")
  /\ UNCHANGED <<files, locals>>

(* The names a command refuses: built-in ones, registered ones on create,  *)
(* unregistered ones on remove.                                            *)
BuiltinsUnchecked(p) == NameOf(p) \in manifest.names <=> IsOp(p, "create")  \* slip
Refused(p) == NameOf(p) \in Builtins \/ (NameOf(p) \in manifest.names <=> IsOp(p, "create"))

(* The checks before anything is changed: built-in and registered names;   *)
(* a command that fails here has not touched the project.                  *)
List(p) ==
  /\ At(p, "list")
  /\ listed' = [listed EXCEPT ![p] = manifest.names]
  /\ \/ /\ NoFault
        /\ Goto(p, IF Refused(p)
                   THEN "failed"
                   ELSE CASE IsOp(p, "create") -> "prepare_root"
                          [] IsOp(p, "remove") -> "check_directory"
                          [] IsOp(p, "forget") -> "read")
     \/ Fault /\ Goto(p, "failed")
  /\ UNCHANGED <<files, command, records, madePackage, before>>

-----------------------------------------------------------------------------
(* create_project_strategy.                                                *)

PrepareRoot(p) ==
  /\ At(p, "prepare_root")
  /\ \/ NoFault /\ root' = TRUE /\ Goto(p, "check_target")
     \/ Fault /\ UNCHANGED root /\ Goto(p, "failed")
  /\ UNCHANGED <<package, manifest, target, staging, temps, locals, before>>

CheckTarget(p) ==
  /\ At(p, "check_target")
  /\ Goto(p, IF target[NameOf(p)].exists THEN "failed" ELSE "check_package")
  /\ UNCHANGED <<files, locals, before, bounds>>

(* created_package_init is set before the file is written. *)
CheckPackage(p) ==
  /\ At(p, "check_package")
  /\ madePackage' = [madePackage EXCEPT ![p] = ~package]
  /\ Goto(p, IF package THEN "mkdtemp" ELSE "write_package")
  /\ UNCHANGED <<files, command, listed, records, before, bounds>>

(* Mode "x" fails on an existing file; a failing write may leave one. *)
WritePackage(p) ==
  /\ At(p, "write_package")
  /\ \/ NoFault /\ root /\ ~package /\ package' = TRUE /\ Goto(p, "mkdtemp")
     \/ NoFault /\ (package \/ ~root) /\ UNCHANGED package /\ Goto(p, "clean_target")
     \/ Fault /\ root /\ package' \in {package, TRUE} /\ Goto(p, "clean_target")
  /\ UNCHANGED <<root, manifest, target, staging, temps, locals, before>>

(* mkdtemp and the two files in it, which no other process can see. *)
FillStaging(p) ==
  /\ At(p, "mkdtemp")
  /\ \/ /\ NoFault /\ root
        /\ staging' = [staging EXCEPT ![p] = Dir(p, Files)]
        /\ Goto(p, "rename")
     \/ /\ NoFault /\ ~root
        /\ UNCHANGED staging
        /\ Goto(p, "clean_target")
     \/ /\ Fault /\ root
        /\ \E left \in {NoDir, Dir(p, {}), Dir(p, {"__init__.py"})} :
             staging' = [staging EXCEPT ![p] = left]
        /\ Goto(p, "clean_target")
  /\ UNCHANGED <<root, package, manifest, target, temps, locals, before>>

RenameToTarget(p) ==
  LET n == NameOf(p)
  IN /\ At(p, "rename")
     /\ \/ /\ NoFault /\ Vacant(target[n])
           /\ target' = [target EXCEPT ![n] = staging[p]]
           /\ staging' = [staging EXCEPT ![p] = NoDir]
           /\ Goto(p, "read")
        \/ /\ NoFault \/ Fault
           /\ faults' # faults \/ ~Vacant(target[n])
           /\ UNCHANGED <<target, staging>>
           /\ Goto(p, "clean_target")
     /\ UNCHANGED <<root, package, manifest, temps, locals, before>>

(* _clean_failed_creation: rmtree ignores errors; it removes the target    *)
(* whoever made it.                                                        *)
CleanTarget(p) ==
  LET n == NameOf(p)
  IN /\ At(p, "clean_target")
     /\ \/ NoFault /\ target' = [target EXCEPT ![n] = NoDir]
        \/ /\ Fault /\ target[n].exists
           /\ \E left \in SUBSET target[n].files : target' = [target EXCEPT ![n].files = left]
     /\ Goto(p, "clean_rest")
     /\ UNCHANGED <<root, package, manifest, staging, temps, locals, before>>

(* The staging directory, then the initializer and the empty root. *)
CleanRest(p) ==
  /\ At(p, "clean_rest")
  /\ UNCHANGED <<manifest, target, temps, locals, before>>
  /\ \/ /\ NoFault
        /\ staging' = [staging EXCEPT ![p] = NoDir]
        /\ package' = (package /\ ~madePackage[p])
        /\ root' = (root /\ ~(madePackage[p] /\ RootEmpty'))
     \/ /\ Fault
        /\ \/ /\ staging[p].exists
              /\ UNCHANGED staging
              /\ package' = (package /\ ~madePackage[p])
           \/ /\ madePackage[p]
              /\ staging' = [staging EXCEPT ![p] = NoDir]
              /\ UNCHANGED package
        /\ UNCHANGED root
  /\ Goto(p, "failed")

-----------------------------------------------------------------------------
(* ProjectStrategyRegistry.add, remove and replace.                        *)

FilesLeftOnError(p) ==  \* slip: a failed registration keeps the files
  IF IsOp(p, "remove") THEN "restore" ELSE "failed"

OnRegistryError(p) ==
  CASE IsOp(p, "create") -> "clean_target"
    [] IsOp(p, "remove") -> "restore"
    [] IsOp(p, "forget") -> "failed"

(* The records that add, remove and forget write. *)
OwnRecordOnly(p) ==  \* slip: the other records are lost
  IF IsOp(p, "create") THEN {NameOf(p)} ELSE manifest.names \ {NameOf(p)}

NewRecords(p) ==
  IF IsOp(p, "create") THEN manifest.names \cup {NameOf(p)} ELSE manifest.names \ {NameOf(p)}

(* _read_records: add refuses a registered name, remove an unknown one. *)
ReadRecords(p) ==
  LET n == NameOf(p)
      refused == n \in manifest.names <=> IsOp(p, "create")
  IN /\ At(p, "read")
     /\ \/ /\ NoFault
           /\ records' = [records EXCEPT ![p] = NewRecords(p)]
           /\ Goto(p, IF refused THEN OnRegistryError(p) ELSE "write_temp")
        \/ Fault /\ UNCHANGED records /\ Goto(p, OnRegistryError(p))
     /\ UNCHANGED <<files, command, listed, madePackage, before>>

(* _write_records up to the fsync: temporary_path is assigned only after   *)
(* it, so a failing write leaves the temporary file behind.                *)
WriteTemp(p, label, next, onError) ==
  /\ At(p, label)
  /\ root' = TRUE
  /\ \/ NoFault /\ temps' = temps \cup {p} /\ Goto(p, next)
     \/ Fault /\ temps' \in {temps, temps \cup {p}} /\ Goto(p, onError)
  /\ UNCHANGED <<package, manifest, target, staging, locals, before>>

(* chmod and os.replace: the whole file changes at once, or not at all. *)
ReplaceManifest(p, label, next, onError) ==
  /\ At(p, label)
  /\ temps' = temps \ {p}
  /\ \/ NoFault /\ manifest' = [exists |-> TRUE, names |-> records[p]] /\ Goto(p, next)
     \/ Fault /\ UNCHANGED manifest /\ Goto(p, onError)
  /\ UNCHANGED <<root, package, target, staging, locals, before>>

WriteRecords(p) ==
  \/ WriteTemp(p, "write_temp", "replace", OnRegistryError(p))
  \/ ReplaceManifest(p, "replace", IF IsOp(p, "remove") THEN "rmtree" ELSE "done", OnRegistryError(p))

-----------------------------------------------------------------------------
(* remove_project_strategy.                                                *)

(* _require_safe_removal_target. *)
CheckDirectory(p) ==
  /\ At(p, "check_directory")
  /\ Goto(p, IF target[NameOf(p)].exists THEN "stage" ELSE "failed")
  /\ UNCHANGED <<files, locals, before, bounds>>

DeleteBeforeRecord(p) ==  \* slip: the files go before the record
  /\ At(p, "stage")
  /\ NoFault /\ target[NameOf(p)].exists
  /\ target' = [target EXCEPT ![NameOf(p)] = NoDir]
  /\ Goto(p, "read")
  /\ UNCHANGED <<root, package, manifest, staging, temps, locals, before>>

StageRemoval(p) ==
  LET n == NameOf(p)
  IN /\ At(p, "stage")
     /\ \/ /\ NoFault /\ target[n].exists
           /\ staging' = [staging EXCEPT ![p] = target[n]]
           /\ target' = [target EXCEPT ![n] = NoDir]
           /\ Goto(p, "read")
        \/ /\ NoFault \/ Fault
           /\ faults' # faults \/ ~target[n].exists
           /\ UNCHANGED <<staging, target>>
           /\ Goto(p, "failed")
     /\ UNCHANGED <<root, package, manifest, temps, locals, before>>

DeleteStaged(p) ==
  /\ At(p, "rmtree")
  /\ \/ NoFault /\ staging' = [staging EXCEPT ![p] = NoDir] /\ Goto(p, "done")
     \/ /\ Fault
        /\ \E left \in SUBSET staging[p].files : staging' = [staging EXCEPT ![p].files = left]
        /\ Goto(p, "rollback_temp")
  /\ records' = [records EXCEPT ![p] = listed[p]]
  /\ UNCHANGED <<root, package, manifest, target, temps, command, listed, madePackage, before>>

(* _restore_staged_directory. *)
Restore(p, label, next, onError) ==
  LET n == NameOf(p)
  IN /\ At(p, label)
     /\ \/ /\ NoFault /\ Vacant(target[n])
           /\ target' = [target EXCEPT ![n] = staging[p]]
           /\ staging' = [staging EXCEPT ![p] = NoDir]
           /\ Goto(p, next)
        \/ /\ NoFault \/ Fault
           /\ faults' # faults \/ ~Vacant(target[n])
           /\ UNCHANGED <<target, staging>>
           /\ Goto(p, onError)
     /\ UNCHANGED <<root, package, manifest, temps, locals, before>>

(* The rollback of a failed deletion: registry.replace with the records    *)
(* listed at the start, then the directory, whatever is left of it.        *)
RollBack(p) ==
  \/ WriteTemp(p, "rollback_temp", "rollback_replace", "rollback_failed")
  \/ ReplaceManifest(p, "rollback_replace", "rollback_restore", "rollback_failed")
  \/ Restore(p, "rollback_restore", "rolled_back", "rollback_failed")

-----------------------------------------------------------------------------
(* A kill or an interrupt, which no handler of the code catches. *)
Crash(p) ==
  /\ overlaps = 0 /\ crashes < MaxCrashes
  /\ crashes' = crashes + 1
  /\ pc[p] \notin Ended
  /\ Goto(p, "crashed")
  /\ UNCHANGED <<files, locals, before, faults, overlaps>>

ProjectNext ==
  \E p \in Procs :
    \/ Begin(p) \/ List(p)
    \/ PrepareRoot(p) \/ CheckTarget(p) \/ CheckPackage(p) \/ WritePackage(p)
    \/ FillStaging(p) \/ RenameToTarget(p) \/ CleanTarget(p) \/ CleanRest(p)
    \/ ReadRecords(p) \/ WriteRecords(p)
    \/ CheckDirectory(p) \/ StageRemoval(p) \/ DeleteStaged(p)
    \/ Restore(p, "restore", "failed", "failed") \/ RollBack(p)
    \/ Crash(p)

ProjectSpec == ProjectInit /\ [][ProjectNext]_projectVars
=============================================================================
