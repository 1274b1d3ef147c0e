----------------------------- MODULE CommandSafety -----------------------------
(* What the reading commands guarantee about configuration, identity, exit *)
(* code and report.                                                        *)
EXTENDS CommandLine

(* USER_GUIDE.md, "Configuration": the values each setting may have. *)
Usable(key, value) ==
  CASE key \in {"data_path", "strategy"} -> value.kind = "text"
    [] key = "allow_short" -> value.kind = "boolean"
    [] key = "commission_bps" -> value.kind = "number" /\ value.number >= 0
    [] key = "slippage_bps" -> value.kind = "number" /\ value.number \in 0 .. MaxSlippageBps - 1
    [] key = "max_drawdown_pct" -> value = None \/ (value.kind = "number" /\ value.number > 0)
    [] OTHER -> value.kind = "number" /\ value.number > 0

Missing == Other("missing")
Documented(r) ==
  IF r.file = NoFile
  THEN Updated(Default, [initial_cash |-> Number(10000), default_quantity |-> Number(1)])
  ELSE Default

(* The option, else the value in the file, else the default. *)
Effective(r, key) ==
  IF key \in DOMAIN r.options THEN r.options[key]
  ELSE IF r.file # NoFile /\ key \in DOMAIN Entries(r.file.mapping, SectionOf(key))
       THEN r.file.mapping[SectionOf(key)].entries[key]
  ELSE IF key \in DOMAIN Documented(r) THEN Documented(r)[key]
  ELSE Missing

WellFormedFile(file) ==
  /\ file.status = "read"
  /\ \A s \in DOMAIN file.mapping :
       /\ s \in AllowedSections /\ file.mapping[s].table
       /\ \A k \in DOMAIN file.mapping[s].entries :
            IF s \in ClosedSections THEN k \in ClosedKeys[s]
            ELSE file.mapping[s].entries[k].kind # "infinite"

Acceptable(r) ==
  /\ r.file # NoFile => WellFormedFile(r.file)
  /\ \A k \in Keys : Usable(k, Effective(r, k))
  /\ Effective(r, "default_quantity").number <= Effective(r, "max_position_quantity").number

(* A request is accepted exactly when its effective values are usable,     *)
(* whatever the option or default they hide: loader and overrides validate *)
(* separately and must agree.  The run then has these values, None and     *)
(* FALSE included, and reads the data where its path was given.            *)
ConfigurationIsEffective ==
  \A p \in Procs :
    LET r == request[p]
    IN /\ raised[p] = "ConfigurationValidationError" => ~Acceptable(r)
       /\ config[p] # Unset =>
            /\ Acceptable(r)
            /\ \A k \in Keys \ {"strategy"} : config[p].settings[k] = Effective(r, k)
            /\ StrategyOf(p) # Effective(r, "strategy").text =>
                 <<Effective(r, "strategy").text, StrategyOf(p)>> = <<Alias, Packaged>>
            /\ InputPlace(r, config[p]) = "file directory" <=>
                 "data_path" \notin DOMAIN r.options /\ Effective(r, "data_path") # Text("absolute")

(* A configuration that was accepted satisfies what broker and risk policy *)
(* ask of their settings, which is what their modules assume: none is      *)
(* refused later, with an error of another class and another exit code.    *)
AcceptedSettingsAreAdmissible ==
  \A p \in Procs : config[p] # Unset => SettingsAdmissible(config[p])

Undisturbed(p) == report[p] # Unset /\ ~disturbed[p]

(* USER_GUIDE.md:207: "Repeated runs with identical input, strategy,       *)
(* effective configuration, engine, and runtime produce the same canonical *)
(* results."  Of two runs during which no file changed, those with one     *)
(* fingerprint have one result, if the modules their strategy imports are  *)
(* the same; and one that was given the alias of a strategy has the        *)
(* fingerprint of one that was given its reference.                        *)
FingerprintIdentifiesRun ==
  \A p, q \in {r \in Procs : Undisturbed(r)} :
    LET a == report[p]
        b == report[q]
    IN /\ a.identity = b.identity /\ a.result.code.helper = b.result.code.helper => a.result = b.result
       /\ a.result = b.result /\ a.identity.input = b.identity.input => a.identity = b.identity

(* USER_GUIDE.md:99: "Validation fails before strategy construction or     *)
(* report-directory creation."  The code of a strategy is only run, and be *)
(* it by looking for its source, for a configuration and data that were    *)
(* accepted.                                                               *)
CodeRunsOnlyOnValidInput ==
  \A p \in Procs : code[p] # NotImported \/ report[p] # Unset =>
                     config[p] # Unset /\ candles[p] # NoCandles

(* The causes of exit code 1 that lie in the files of a run. *)
StoppedByInput(p) ==
  \/ raised[p] = "another exception" /\ candles[p] = NoCandles
  \/ /\ config[p] # Unset
     /\ \/ StrategyOf(p) \in Modules
        \/ StrategyOf(p) = BuiltIn /\ <<candles[p], config[p]>> \in Failing

(* USER_GUIDE.md, "Exit codes": with 0 there is a report of this run; with *)
(* 2 none, and the simulation was not completed; with 1 there is one only  *)
(* if printing the summary failed.  Unless it was the report that failed,  *)
(* or its printing, a 1 means that the simulation was not completed, for   *)
(* one of three causes: a file could not be looked at or decoded, before   *)
(* the data was loaded; the strategy is a module of the user; or the       *)
(* built-in cannot be run with these candles and settings.                 *)
ExitMatchesReport ==
  \A p \in Procs :
    pc[p] \in Ended /\ request[p].command = "backtest" =>
      CASE ExitCode(p) = 0 -> report[p] = Publication(p) /\ result[p] # Unset
        [] ExitCode(p) = 2 -> report[p] = Unset /\ result[p] = Unset
        [] ExitCode(p) = 1 -> /\ report[p] # Unset => raised[p] = "OSError"
                              /\ faults = 0 => result[p] = Unset /\ StoppedByInput(p)

(* identity.py:95: "Build a deterministic identity from all material       *)
(* simulation inputs."  Two reports with one fingerprint have one result.  *)
IdentityCoversInputs ==
  \A p, q \in {r \in Procs : report[r] # Unset} :
    report[p].identity = report[q].identity => report[p].result = report[q].result
=============================================================================
