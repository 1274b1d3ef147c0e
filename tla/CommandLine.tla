----------------------------- MODULE CommandLine -----------------------------
(***************************************************************************)
(* The commands that read: backtest, validate and list-strategies (cli.py  *)
(* main), and behind backtest the runner, the identity of the run and the  *)
(* loading of the strategy (engine/runner.py, engine/identity.py,          *)
(* strategies/loader.py, session.py).  Several command processes work in   *)
(* one project directory while its files are edited: a process opens the   *)
(* data and the strategy's module more than once.                          *)
(*                                                                         *)
(* The simulation, the hash functions and Python's import system are       *)
(* external: what a run computes is a function of the candles, the code    *)
(* that was imported and the configuration, different for different        *)
(* arguments, and a hash stands for what was hashed.                       *)
(***************************************************************************)
EXTENDS Configuration

CONSTANTS
  Procs,       \* command processes
  Workloads,   \* the files they find, what they are asked, and the edits used up
  Versions,    \* the contents of the project directory that edits may leave
  DataFiles,   \* the bytes a data file may have
  CandlesIn,   \* what load_csv reads from them, or NoCandles for an error
  NoCandles,
  Sources,     \* the texts a strategy's module may have
  Behaviour,   \* what the code in such a text does
  Failing,     \* candles and configuration with which a run of the built-in raises
  Helpers,     \* the texts of a module that the strategies import
  Absent,      \* a file that does not exist, a hash that is None
  Inaccessible,  \* a data file in a directory that may not be searched
  MaxEdits,    \* bound on edits of files
  MaxFaults    \* bound on reports that cannot be computed, written or printed

Places == {"working directory", "file directory", "absolute"}
BuiltIn == "candle_pulse"
Alias == "my_strategy"
Packaged == "strategies.my_strategy.strategy:MyStrategy"
Plain == "plain:Plain"
NoModule == ":Plain"
NotAName == "My Strategy"
Modules == {Packaged, Plain}  \* the modules that may exist
References == Modules \cup {NoModule}  \* what has a colon
Commands == {"backtest", "validate", "list-strategies"}
Behaviours ==
  {"runs", "import error", "other import failure", "no class", "constructor raises",
   "callback raises", "invalid answer", "bar raises"}

(* What a request gives: options of the parser, a file as reading it ends, *)
(* and values, of which a number is whole and a text is nothing else.      *)
IsRequest(r) ==
  /\ DOMAIN r.options \subseteq Keys /\ HoldsValues(r.options)
  /\ r.file = NoFile \/ r.file.status \in ReadOutcomes
  /\ \A s \in DOMAIN r.file.mapping : HoldsValues(r.file.mapping[s].entries)

ASSUME CommandLineAssumption ==
  /\ DOMAIN CandlesIn = DataFiles
  /\ Behaviour \in [Sources -> Behaviours]
  /\ Absent \notin DataFiles \cup Sources /\ Inaccessible \notin DataFiles \cup {Absent}
  /\ Versions \subseteq
       [data : [Places -> DataFiles \cup {Absent, Inaccessible}],
        source : [Modules -> Sources \cup {Absent}], helper : Helpers,
        registry : {"registered", "unregistered", "invalid", "undecodable"}]
  /\ \A w \in Workloads :
       /\ DOMAIN w.request = Procs
       /\ \A p \in Procs : /\ w.request[p].command \in Commands
                           /\ IsRequest(w.request[p])
  /\ MaxSlippageBps \in Nat
  /\ MaxEdits \in Nat /\ MaxFaults \in Nat

VARIABLES
  \* the files below the project directory
  data,      \* by place
  source,    \* by module
  helper,
  registry,  \* "registered", "unregistered", "invalid" or "undecodable": no UTF-8, or
             \* in a directory that may not be searched
  \* the processes
  pc, request,
  config,    \* the RunConfig
  candles,   \* dataset.bars
  identity,  \* what build_run_identity hashed
  code,      \* the imported module and its helper
  result,    \* what the simulation returned
  report,    \* the published report
  raised,    \* the class of the exception that ended the command
  \* history and bounds
  disturbed, \* whether a file was edited while the process ran
  edits, faults

files == <<data, source, helper, registry>>
locals == <<request, config, candles, identity, code, result, report>>
bounds == <<disturbed, edits, faults>>
commandVars == <<files, pc, locals, raised, bounds>>

Unset == <<>>
NotImported == [module |-> Absent, helper |-> Absent]
NoIdentity == [input |-> Absent, source |-> Absent, config |-> Unset]

(* A workload that is to run undisturbed has used up its edits. *)
CommandInit ==
  /\ \E w \in Workloads :
       /\ data = w.files.data /\ source = w.files.source
       /\ helper = w.files.helper /\ registry = w.files.registry
       /\ request = w.request
       /\ pc = [p \in Procs |-> w.request[p].command]
       /\ edits = w.edits
  /\ config = [p \in Procs |-> Unset] /\ candles = [p \in Procs |-> NoCandles]
  /\ identity = [p \in Procs |-> NoIdentity] /\ code = [p \in Procs |-> NotImported]
  /\ result = [p \in Procs |-> Unset] /\ report = [p \in Procs |-> Unset]
  /\ raised = [p \in Procs |-> "nothing"]
  /\ disturbed = [p \in Procs |-> FALSE]
  /\ faults = 0

Ended == {"done", "failed"}
At(p, label) == pc[p] = label
Continue(p, label) == pc' = [pc EXCEPT ![p] = label] /\ UNCHANGED raised

(* An exception ends a command in the except clauses of main. *)
Raise(p, class) ==
  /\ pc' = [pc EXCEPT ![p] = "failed"]
  /\ raised' = [raised EXCEPT ![p] = class]

InputErrors ==
  {"ConfigurationValidationError", "DataValidationError", "RunIdentityError", "StrategyValidationError"}
ExitCode(p) == IF At(p, "done") THEN 0 ELSE IF raised[p] \in InputErrors THEN 2 ELSE 1

StrategyOf(p) == config[p].settings["strategy"].text
InputOf(p) == data[InputPlace(request[p], config[p])]
SourceOf(p) == source[StrategyOf(p)]

-----------------------------------------------------------------------------
(* _resolve_backtest_config. *)
ResolveConfig(p) ==
  /\ At(p, "backtest")
  /\ \/ /\ ConfigurationError(request[p]) = "NONE"
        /\ config' = [config EXCEPT ![p] = ResolvedConfig(request[p])]
        /\ Continue(p, "alias")
     \/ /\ ConfigurationError(request[p]) # "NONE"
        /\ IF ConfigurationError(request[p]) = "another exception"
           THEN Raise(p, "another exception") ELSE Raise(p, "ConfigurationValidationError")
        /\ UNCHANGED config
  /\ UNCHANGED <<files, request, candles, identity, code, result, report, bounds>>

(* _resolve_project_strategy_config: a project alias becomes the reference *)
(* of its record; any other text stays, to be refused later.  The          *)
(* UnicodeDecodeError of a manifest is not caught where it is read.        *)
RegistryError ==
  IF registry = "undecodable" THEN "another exception" ELSE "StrategyValidationError"
RegistryReadable == registry \in {"registered", "unregistered"}

IsName(strategy) == strategy \notin References \cup {BuiltIn, NotAName}
Resolved(c) == [c EXCEPT !.settings["strategy"] = Text(Packaged)]

AliasStep(p, next) ==
  /\ At(p, "alias")
  /\ \/ /\ IsName(StrategyOf(p)) /\ ~RegistryReadable
        /\ Raise(p, RegistryError)
        /\ UNCHANGED config
     \/ /\ StrategyOf(p) = Alias /\ registry = "registered"
        /\ config' = [config EXCEPT ![p] = Resolved(config[p])]
        /\ Continue(p, next)
     \/ /\ IsName(StrategyOf(p)) =>
             registry = "unregistered" \/ (registry = "registered" /\ StrategyOf(p) # Alias)
        /\ Continue(p, next)
        /\ UNCHANGED config
  /\ UNCHANGED <<files, request, candles, identity, code, result, report, bounds>>

IdentityFirst(p) == AliasStep(p, "identify")  \* slip: the data is not loaded before the identity
ResolveAlias(p) == AliasStep(p, "load")

-----------------------------------------------------------------------------
(* BacktestRunner.run. *)

Loadable(bytes) == bytes \in DataFiles /\ CandlesIn[bytes] # NoCandles

(* Looking for the file is outside the try of load_csv. *)
DataError(bytes) == IF bytes = Inaccessible THEN "another exception" ELSE "DataValidationError"

LoadData(p) ==
  /\ At(p, "load")
  /\ \/ /\ Loadable(InputOf(p))
        /\ candles' = [candles EXCEPT ![p] = CandlesIn[InputOf(p)]]
        /\ Continue(p, "identify")
     \/ /\ ~Loadable(InputOf(p))
        /\ Raise(p, DataError(InputOf(p)))
        /\ UNCHANGED candles
  /\ UNCHANGED <<files, request, config, identity, code, result, report, bounds>>

(* build_run_identity, first the bytes of the input, read once more. *)
HashInput(p) ==
  /\ At(p, "identify")
  /\ \/ /\ InputOf(p) \in DataFiles
        /\ identity' = [identity EXCEPT ![p].input = InputOf(p), ![p].config = config[p]]
        /\ Continue(p, IF StrategyOf(p) \in References THEN "find" ELSE "build")
     \/ /\ InputOf(p) \notin DataFiles
        /\ Raise(p, "RunIdentityError")
        /\ UNCHANGED identity
  /\ UNCHANGED <<files, request, config, candles, code, result, report, bounds>>

(* Importing a module reads its text and that of the helper it imports. *)
Import(p) == code' = [code EXCEPT ![p] = [module |-> SourceOf(p), helper |-> helper]]

(* _hash_custom_strategy_source, find_spec.  It imports the parent package *)
(* of the module, and the __init__.py of a generated package imports the   *)
(* class: the strategy's code runs here.  Only some of the errors this may *)
(* raise are caught.                                                       *)
FindSource(p) ==
  LET packaged == StrategyOf(p) = Packaged
      absent == StrategyOf(p) = NoModule \/ SourceOf(p) = Absent
      fails == IF absent THEN "import error" ELSE IF packaged THEN Behaviour[SourceOf(p)] ELSE "runs"
  IN /\ At(p, "find")
     /\ \/ /\ fails \in {"import error", "no class"}
           /\ Raise(p, "RunIdentityError")
           /\ UNCHANGED code
        \/ /\ fails = "other import failure"
           /\ Raise(p, "another exception")
           /\ UNCHANGED code
        \/ /\ fails \notin {"import error", "no class", "other import failure"}
           /\ Continue(p, "hash")
           /\ IF packaged THEN Import(p) ELSE UNCHANGED code
     /\ UNCHANGED <<files, request, config, candles, identity, result, report, bounds>>

(* The text of the module is read to be hashed. *)
SourceUnhashed(p) ==  \* slip: only built-in strategies keep their fingerprint
  /\ At(p, "hash")
  /\ Continue(p, "build")
  /\ UNCHANGED <<files, locals, bounds>>

HashSource(p) ==
  /\ At(p, "hash")
  /\ \/ /\ SourceOf(p) # Absent
        /\ identity' = [identity EXCEPT ![p].source = SourceOf(p)]
        /\ Continue(p, "build")
     \/ /\ SourceOf(p) = Absent
        /\ Raise(p, "RunIdentityError")
        /\ UNCHANGED identity
  /\ UNCHANGED <<files, request, config, candles, code, result, report, bounds>>

(* build_risk_aware_session: the settings of broker and policy, then       *)
(* load_strategy.  A module that find_spec has imported is not read again. *)
PulseParameters == {"lookback", "threshold_pct", "stop_loss_pct", "take_profit_pct", "quantity"}

(* CandlePulseStrategy.__init__: only a look-back may exceed every float. *)
PulseAccepts(parameters) ==
  /\ DOMAIN parameters \subseteq PulseParameters
  /\ \A k \in DOMAIN parameters :
       \/ k = "lookback" /\ parameters[k].kind = "huge"
       \/ /\ parameters[k].kind = "number" /\ parameters[k].number > 0
          /\ k \in {"stop_loss_pct", "take_profit_pct"} => parameters[k].number < 100

StrategyLoads(p) ==
  /\ StrategyOf(p) \in {BuiltIn} \cup Modules
  /\ StrategyOf(p) = BuiltIn => PulseAccepts(config[p].parameters)
  /\ StrategyOf(p) \in Modules =>
       Behaviour[code'[p].module] \in {"runs", "callback raises", "invalid answer", "bar raises"}
  /\ \A k \in DOMAIN config[p].parameters : config[p].parameters[k].kind # "date"  \* freeze_parameters

BuildSession(p) ==
  /\ At(p, "build")
  /\ IF StrategyOf(p) = Plain /\ SettingsAdmissible(config[p]) /\ SourceOf(p) # Absent
     THEN Import(p) ELSE UNCHANGED code
  /\ \/ ~SettingsAdmissible(config[p]) /\ Raise(p, "DomainValidationError")
     \/ /\ SettingsAdmissible(config[p])
        /\ IF (StrategyOf(p) = Plain /\ SourceOf(p) = Absent) \/ ~StrategyLoads(p)
           THEN Raise(p, "StrategyValidationError")
           ELSE Continue(p, "run")
  /\ UNCHANGED <<files, request, config, candles, identity, result, report, bounds>>

(* The session of Session.tla, in which a callback may raise or answer     *)
(* with something else than an intent, and the broker may raise.  The      *)
(* built-in strategy gives no cause but where the next candle opens at its *)
(* stop, or prices are too large to reckon with.                           *)
Does(p) ==
  IF StrategyOf(p) # BuiltIn THEN {Behaviour[code[p].module]}
  ELSE IF <<candles[p], config[p]>> \in Failing THEN {"bar raises", "callback raises"}
  ELSE {"runs"}

RunSession(p) ==
  /\ At(p, "run")
  /\ \/ "callback raises" \in Does(p) /\ Raise(p, "StrategyExecutionError") /\ UNCHANGED result
     \/ "invalid answer" \in Does(p) /\ Raise(p, "StrategyValidationError") /\ UNCHANGED result
     \/ "bar raises" \in Does(p) /\ Raise(p, "DomainValidationError") /\ UNCHANGED result
     \/ /\ "runs" \in Does(p)
        /\ result' = [result EXCEPT ![p] =
                        [candles |-> candles[p], code |-> code[p], config |-> config[p]]]
        /\ Continue(p, "report")
  /\ UNCHANGED <<files, request, config, candles, identity, code, report, bounds>>

-----------------------------------------------------------------------------
(* The end of a backtest: calculate_metrics and write_artifacts, which     *)
(* publishes a whole report or none (ReportStore.tla), then the summary.   *)

NoFault == UNCHANGED bounds
Fault == faults < MaxFaults /\ faults' = faults + 1 /\ UNCHANGED <<disturbed, edits>>
Publication(p) == [identity |-> identity[p], result |-> result[p]]

ReportUnchecked(p) ==  \* slip: an error of the report is printed and forgotten
  /\ At(p, "report")
  /\ \/ NoFault /\ report' = [report EXCEPT ![p] = Publication(p)]
     \/ Fault /\ UNCHANGED report
  /\ Continue(p, "print")
  /\ UNCHANGED <<files, request, config, candles, identity, code, result>>

WriteReport(p) ==
  /\ At(p, "report")
  /\ \/ /\ NoFault
        /\ report' = [report EXCEPT ![p] = Publication(p)]
        /\ Continue(p, "print")
     \/ /\ Fault
        /\ \E class \in {"ReportingError", "another exception"} : Raise(p, class)
        /\ UNCHANGED report
  /\ UNCHANGED <<files, request, config, candles, identity, code, result>>

PrintSummary(p) ==
  /\ At(p, "print")
  /\ \/ NoFault /\ Continue(p, "done")
     \/ Fault /\ Raise(p, "OSError")
  /\ UNCHANGED <<files, locals>>

-----------------------------------------------------------------------------
(* The other two commands, each with one file to read. *)

Validate(p) ==
  /\ At(p, "validate")
  /\ IF Loadable(data["working directory"])
     THEN Continue(p, "print") ELSE Raise(p, DataError(data["working directory"]))
  /\ UNCHANGED <<files, locals, bounds>>

ListStrategies(p) ==
  /\ At(p, "list-strategies")
  /\ IF RegistryReadable THEN Continue(p, "print") ELSE Raise(p, RegistryError)
  /\ UNCHANGED <<files, locals, bounds>>

(* Somebody saves, adds or removes files. *)
Edit ==
  /\ edits < MaxEdits /\ edits' = edits + 1
  /\ \E v \in Versions :
       /\ data' = v.data /\ source' = v.source
       /\ helper' = v.helper /\ registry' = v.registry
  /\ files' # files
  /\ disturbed' = [p \in Procs |-> disturbed[p] \/ pc[p] \notin Ended \cup Commands]
  /\ UNCHANGED <<pc, locals, raised, faults>>

Backtest(p) ==
  \/ ResolveConfig(p) \/ ResolveAlias(p) \/ LoadData(p) \/ HashInput(p) \/ FindSource(p)
  \/ HashSource(p) \/ BuildSession(p) \/ RunSession(p) \/ WriteReport(p) \/ PrintSummary(p)

CommandNext == Edit \/ \E p \in Procs : Backtest(p) \/ Validate(p) \/ ListStrategies(p)
CommandSpec == CommandInit /\ [][CommandNext]_commandVars
=============================================================================
