---------------------------- MODULE ProjectSafety ----------------------------
(* What the strategy commands guarantee about a project directory. *)
EXTENDS ProjectStrategies

Quiet == \A p \in Procs : pc[p] \in Ended
Sequential == overlaps = 0
EndsIn(p, label) == pc[p] # label /\ pc'[p] = label

(* What is left of a directory after a failing rmtree. *)
PartOf(dir, whole) == \E left \in SUBSET whole.files : dir = [whole EXCEPT !.files = left]

(* A removal that was rolled back has lost at most files of its own        *)
(* directory, which exists and is registered again.                        *)
OnlyFilesLost(p) ==
  LET n == NameOf(p)
      was == before[p]
  IN /\ package' = was.package /\ manifest'.names = was.manifest.names
     /\ PartOf(target'[n], was.target[n]) /\ target'[n].exists
     /\ \A m \in Names \ {n} : target'[m] = was.target[m]

(* "Rollback safety": a command that reports an error after one failing    *)
(* filesystem call leaves the registry, the strategy directories and the   *)
(* package initializer as it found them, with one exception: when the      *)
(* deletion of a removed directory fails half way, what it deleted is      *)
(* gone, and nothing else has changed.  No rollback fails.                 *)
FailedCommandIsContained ==
  [][\A p \in Procs :
       Sequential /\ faults' <= 1 =>
         /\ EndsIn(p, "failed") => Snapshot' = before[p]
         /\ EndsIn(p, "rolled_back") => OnlyFilesLost(p)
         /\ ~EndsIn(p, "rollback_failed")]_projectVars

(* A command that succeeds did what it says to its own strategy, and left  *)
(* every other record and directory as it found them.                      *)
DoneCommandChangesItsName ==
  [][\A p \in Procs : Sequential /\ EndsIn(p, "done") =>
       LET n == NameOf(p)
           was == before[p]
       IN CASE IsOp(p, "create") ->
                 /\ manifest'.names = was.manifest.names \cup {n} /\ n \notin was.manifest.names
                 /\ target' = [was.target EXCEPT ![n] = Dir(p, Files)]
                 /\ package'
            [] IsOp(p, "remove") ->
                 /\ manifest'.names = was.manifest.names \ {n} /\ n \in was.manifest.names
                 /\ target' = [was.target EXCEPT ![n] = NoDir]
            [] IsOp(p, "forget") ->
                 /\ manifest'.names = was.manifest.names \ {n} /\ n \in was.manifest.names
                 /\ target' = was.target]_projectVars

(* Between commands, whatever call failed, every registered strategy has   *)
(* its directory, nothing is left in a staging directory, and no built-in  *)
(* name is registered.  (With two failing calls a rollback may fail too.)  *)
QuietProjectIsConsistent ==
  Quiet /\ Sequential /\ faults <= 1 /\ crashes = 0 =>
    /\ \A n \in manifest.names : target[n].exists /\ n \notin Builtins
    /\ \A p \in Procs : pc[p] # "rollback_failed" => ~staging[p].exists

(* However a command is killed, the files of a registered strategy exist,  *)
(* in its directory or in the staging directory of the removal that was    *)
(* killed: the record goes before the files.  (After a failing rmtree the  *)
(* rollback may register what is left of a directory.)                     *)
RegisteredFilesSurviveCrash ==
  Quiet /\ Sequential /\ faults = 0 =>
    \A n \in manifest.names :
      \/ Complete(target[n])
      \/ \E p \in Procs : /\ pc[p] = "crashed" /\ IsOp(p, "remove") /\ NameOf(p) = n
                          /\ Complete(staging[p])

(* Two creations of one name, or two removals, succeed together only if    *)
(* another command on that name ran: the rename decides between them, as   *)
(* the checks before it cannot.                                            *)
OneWinnerPerName ==
  \A p, q \in Procs :
    (p # q /\ pc[p] = "done" /\ pc[q] = "done" /\ NameOf(p) = NameOf(q)
     /\ command[p].op = command[q].op /\ ~IsOp(p, "forget"))
    => \E r \in Procs \ {p, q} : NameOf(r) = NameOf(p) /\ pc[r] # "idle"

-----------------------------------------------------------------------------
(* scaffold.py:161: "removal was rolled back".  A removal that says so has *)
(* left the project as it found it.                                        *)
RollbackRestores ==
  [][\A p \in Procs : EndsIn(p, "rolled_back") => Snapshot' = before[p]]_projectVars

(* scaffold.py:38: "atomically register its alias".  A strategy whose      *)
(* creation succeeded keeps its directory until it is removed.             *)
CreatedKeepsDirectory ==
  \A p \in Procs :
    pc[p] = "done" /\ IsOp(p, "create") =>
      \/ Complete(target[NameOf(p)])
      \/ \E q \in Procs : IsOp(q, "remove") /\ NameOf(q) = NameOf(p)

(* project_registry.py:116: "Atomically add one record without overwriting *)
(* an existing alias".  As long as commands only add, a strategy whose     *)
(* creation succeeded stays registered.                                    *)
CreatedStaysRegistered ==
  \A p \in Procs :
    pc[p] = "done" /\ (\A q \in Procs : IsOp(q, "create")) => NameOf(p) \in manifest.names
=============================================================================
