---------------------------- MODULE MCCommandLine ----------------------------
(* Bounded instances of the reading commands for TLC: every configuration  *)
(* that differs from a sound one in one place of the file and one option,  *)
(* or in two options, read in an undisturbed project; every way            *)
(* a file or a strategy may be broken; and two backtests among edits.      *)
EXTENDS CommandSafety

MCDataFiles == {"d1", "d1 reformatted", "d2", "d3", "rejected"}
MCCandlesIn ==
  ("d1" :> "c1") @@ ("d1 reformatted" :> "c1") @@ ("d2" :> "c2") @@ ("d3" :> "c3")
  @@ ("rejected" :> NoCandles)
MCSources == Behaviours \cup {"runs differently"}
MCBehaviour == [text \in MCSources |-> IF text = "runs differently" THEN "runs" ELSE text]
MCHelpers == {"h1", "h2"}

Version(bytes, text, h, r) ==
  [data |-> [place \in Places |-> IF place = "working directory" THEN bytes ELSE "d2"],
   source |-> [m \in Modules |-> text], helper |-> h, registry |-> r]
Base == Version("d1", "runs", "h1", "registered")
MCVersions ==
  {Base, Version("d2", "runs", "h1", "registered"),
   Version("d1 reformatted", "runs", "h1", "registered"),
   Version("d1", "runs differently", "h1", "registered"),
   Version("d1", "runs", "h2", "unregistered"), Version(Absent, Absent, "h1", "unregistered")}
BrokenVersions ==
  {Version("d1", text, "h1", r) : text \in MCSources \cup {Absent},
                                  r \in {"registered", "unregistered", "invalid", "undecodable"}}
  \cup {Version(bytes, "runs", "h1", "registered") : bytes \in {"rejected", "d3", Absent, Inaccessible}}

-----------------------------------------------------------------------------
BaseFile ==
  [run |-> Table([data_path |-> Text("relative"), strategy |-> Text(BuiltIn),
                  initial_cash |-> Number(5), default_quantity |-> Number(2),
                  allow_short |-> Boolean(FALSE)]),
   execution |-> Table([slippage_bps |-> Number(1)]),
   risk |-> Table([max_position_quantity |-> Number(3), max_drawdown_pct |-> Number(20)]),
   strategy |-> Table([lookback |-> Number(3)])]
Read(mapping) == [status |-> "read", mapping |-> mapping]

OptionValues(key) ==
  CASE key = "data_path" -> {Text("relative"), Text("absolute"), Other("blank")}
    [] key = "strategy" -> {Text(BuiltIn), Text("unknown"), Text(NoModule), Text(NotAName)}
    [] key = "allow_short" -> {Boolean(TRUE), Boolean(FALSE)}
    [] key = "max_drawdown_pct" -> {None, Number(0), Number(10)}
    [] key = "slippage_bps" -> {Number(0), Number(9), Number(10), Other("infinite")}
    [] OTHER -> {Number(-1), Number(0), Number(4), Other("infinite")}
FileValues(key) ==
  (OptionValues(key) \ {None}) \cup {Number(2), Text("5"), Boolean(TRUE), Other("array"), Other("huge")}

With(section, entries) == [BaseFile EXCEPT ![section] = Table(entries @@ BaseFile[section].entries)]
ConfigFiles ==
  {NoFile, [status |-> "CONFIGURATION_FILE_ERROR", mapping |-> <<>>],
   [status |-> "MALFORMED_TOML", mapping |-> <<>>],
   [status |-> "another exception", mapping |-> <<>>]}
  \cup {Read(m) : m \in
         {BaseFile, <<>>, ("orders" :> Table(<<>>)) @@ BaseFile,
          [BaseFile EXCEPT !["run"] = NotATable], [BaseFile EXCEPT !["execution"] = NotATable],
          [BaseFile EXCEPT !["strategy"] = NotATable],
          With("risk", [leverage |-> Number(1)]), With("run", [slippage_bps |-> Number(1)]),
          With("strategy", [since |-> Other("date")]), With("strategy", [factor |-> Other("infinite")]),
          With("strategy", [lookback |-> Number(0)]), With("strategy", [lookback |-> Other("huge")]),
          With("strategy", [stop_loss_pct |-> Number(100)]), With("strategy", [quantity |-> Number(1)]),
          With("strategy", [quantity |-> Other("huge")]), With("strategy", [factor |-> Number(1)]),
          ("metadata" :> Table([since |-> Other("date")])) @@ BaseFile,
          ("metadata" :> Table([serial |-> Other("huge")])) @@ BaseFile}
         \cup {[BaseFile EXCEPT !["run"] = Table([k \in DOMAIN BaseFile["run"].entries \ {key} |->
                                                    BaseFile["run"].entries[k]])] : key \in RunKeys}
         \cup UNION {{With(SectionOf(key), key :> v) : v \in FileValues(key)} : key \in Keys}}

OneOption == UNION {{k :> v : v \in OptionValues(k)} : k \in Keys}
TwoOptions == {o @@ other : o, other \in OneOption}
Named == ("data_path" :> Text("relative")) @@ ("strategy" :> Text(BuiltIn))

Request(file, options) == [command |-> "backtest", file |-> file, options |-> options]
Other_(command) == [command |-> command, file |-> NoFile, options |-> <<>>]
ConfigRequests ==
  {Request(file, options) : file \in ConfigFiles, options \in {<<>>} \cup OneOption}
  \cup {Request(Read(BaseFile), o) : o \in TwoOptions}
  \cup {Request(NoFile, o @@ Named) : o \in TwoOptions}

-----------------------------------------------------------------------------
Chosen(strategy) == [Named EXCEPT !["strategy"] = Text(strategy)]

(* The built-in, run as the command line's defaults say, meets an open at  *)
(* its stop in the candles c3.                                             *)
MCFailing == {<<"c3", ResolvedConfig(Request(NoFile, Chosen(BuiltIn)))>>}

EditRequests == {Request(NoFile, Chosen(s)) : s \in {Alias, Packaged, Plain, BuiltIn}}
BrokenRequests ==
  {Request(NoFile, Chosen(s)) : s \in {Alias, Packaged, Plain, NoModule, NotAName, "unknown", BuiltIn}}
  \cup {Other_("validate"), Other_("list-strategies")}

Workload(version, r, used) == [files |-> version, request |-> r, edits |-> used]
EditWorkloads == {Workload(Base, r, 0) : r \in [Procs -> EditRequests]}
MCWorkloads ==
  EditWorkloads
  \cup {Workload(Base, [p \in Procs |-> r], MaxEdits) : r \in ConfigRequests}
  \cup {Workload(v, [p \in Procs |-> r], MaxEdits) : v \in BrokenVersions, r \in BrokenRequests}

(* No request is bound to one of the processes. *)
Interchangeable == Permutations(Procs)
=============================================================================
