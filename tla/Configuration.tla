---------------------------- MODULE Configuration ----------------------------
(***************************************************************************)
(* The configuration of a backtest: a TOML file, the options given on the  *)
(* command line, and defaults (config/loader.py, config/overrides.py,      *)
(* config/schema.py, RunConfig, and the resolution in cli.py).             *)
(*                                                                         *)
(* A mapping of sections is a function from their names; a section is a    *)
(* table with its entries, or some other value.  A value is a number, a    *)
(* text, a boolean, None, or one of the others; an infinite one is also    *)
(* NaN, and a huge one is an integer that no float can hold, which is no   *)
(* number for a setting.  Numbers are whole.                               *)
(***************************************************************************)
EXTENDS Checks, FiniteSets, TLC

CONSTANT MaxSlippageBps  \* MAX_SLIPPAGE_BPS

Number(n) == [kind |-> "number", number |-> n]
Text(t) == [kind |-> "text", text |-> t]
Boolean(b) == [kind |-> "boolean", boolean |-> b]
Other(kind) == [kind |-> kind]  \* "none", "blank" text, "infinite", "huge", "date" or "array"
None == Other("none")
IsValue(value) ==
  /\ value.kind = "number" => value.number \in Int
  /\ value.kind = "text" => value = Text(value.text)
HoldsValues(entries) == \A k \in DOMAIN entries : IsValue(entries[k])

RunKeys == {"data_path", "strategy", "initial_cash", "default_quantity", "allow_short"}
ExecutionKeys == {"commission_bps", "slippage_bps"}
RiskKeys == {"max_position_quantity", "max_drawdown_pct"}
Keys == RunKeys \cup ExecutionKeys \cup RiskKeys
ClosedKeys == [run |-> RunKeys, execution |-> ExecutionKeys, risk |-> RiskKeys]
ClosedSections == DOMAIN ClosedKeys
AllowedSections == ClosedSections \cup {"strategy", "metadata"}
SectionOf(key) == CHOOSE s \in ClosedSections : key \in ClosedKeys[s]

Table(entries) == [table |-> TRUE, entries |-> entries]
NotATable == [table |-> FALSE, entries |-> <<>>]
Entries(mapping, section) == IF section \in DOMAIN mapping THEN mapping[section].entries ELSE <<>>

TextKeys == {"data_path", "strategy"}
BooleanKeys == {"allow_short"}
NonNegativeKeys == {"commission_bps", "slippage_bps"}
NumberKeys == Keys \ (TextKeys \cup BooleanKeys)

OutOfRange(key, n) ==
  \/ n < 0
  \/ n = 0 /\ key \notin NonNegativeKeys
  \/ key = "slippage_bps" /\ n >= MaxSlippageBps

NotANumber(key, value) ==
  \/ value.kind # "number"
  \/ value.kind = "number" /\ OutOfRange(key, value.number)

-----------------------------------------------------------------------------
(* apply_overrides: each option in turn is validated, its section found,   *)
(* and its value set there; the file's own mapping is not changed.         *)

OptionOrder ==
  << "data_path", "strategy", "initial_cash", "default_quantity", "allow_short",
     "commission_bps", "slippage_bps", "max_position_quantity", "max_drawdown_pct" >>

(* _validate_override. *)
OverrideInvalid(key, value) ==
  \/ key \in TextKeys /\ value.kind # "text"
  \/ key \in BooleanKeys /\ value.kind # "boolean"
  \/ /\ key \in NumberKeys
     /\ ~(key = "max_drawdown_pct" /\ value = None)
     /\ NotANumber(key, value)

OverrideChecks(mapping, options) ==
  LET upTo[i \in 0 .. Len(OptionOrder)] ==
        IF i = 0 THEN <<>>
        ELSE LET key == OptionOrder[i]
             IN upTo[i - 1] \o
                IF key \notin DOMAIN options THEN <<>>
                ELSE << Check("INVALID_CONFIGURATION_OVERRIDE", OverrideInvalid(key, options[key])),
                        Check("INVALID_CONFIGURATION_SECTION",
                              SectionOf(key) \in DOMAIN mapping /\ ~mapping[SectionOf(key)].table) >>
  IN upTo[Len(OptionOrder)]

(* A mapping after its entries in changes are set. *)
Updated(mapping, changes) ==
  [k \in DOMAIN mapping \cup DOMAIN changes |->
     IF k \in DOMAIN changes THEN changes[k] ELSE mapping[k]]

(* slip: an option that is None or False counts as not given *)
TruthyOnly(mapping, options) ==
  LET given == {k \in DOMAIN options : options[k] \notin {None, Boolean(FALSE)}}
      sections == {SectionOf(k) : k \in given}
      Set(s) == [k \in given \cap ClosedKeys[s] |-> options[k]]
  IN Updated(mapping, [s \in sections |-> Table(Updated(Entries(mapping, s), Set(s)))])

Overridden(mapping, options) ==
  LET sections == {SectionOf(k) : k \in DOMAIN options}
      Set(s) == [k \in DOMAIN options \cap ClosedKeys[s] |-> options[k]]
  IN Updated(mapping, [s \in sections |-> Table(Updated(Entries(mapping, s), Set(s)))])

-----------------------------------------------------------------------------
(* config_from_mapping. *)

RequiredKeys == {"data_path", "strategy", "initial_cash", "default_quantity"}
Default ==
  [allow_short |-> Boolean(TRUE), commission_bps |-> Number(0), slippage_bps |-> Number(0),
   max_position_quantity |-> Number(1), max_drawdown_pct |-> None]

(* The value of a key, its default when the mapping has none. *)
Setting(mapping, key) ==
  LET entries == Entries(mapping, SectionOf(key))
  IN IF key \in DOMAIN entries THEN entries[key] ELSE Default[key]

(* _text, _boolean, _positive_number and _non_negative_number.  A drawdown *)
(* of None is no lock; TOML has no None, so it comes from an option.       *)
SettingInvalid(key, value) ==
  \/ key \in TextKeys /\ value.kind # "text"
  \/ key \in BooleanKeys /\ value.kind # "boolean"
  \/ key \in NumberKeys /\ ~(key = "max_drawdown_pct" /\ value = None) /\ NotANumber(key, value)

(* RunConfig.__post_init__ checks each value again, and that the default   *)
(* quantity passes the limit of the risk policy.                           *)
LimitUnchecked(mapping) ==  \* slip: the two quantities are not compared
  \E k \in Keys : SettingInvalid(k, Setting(mapping, k))
RunConfigInvalid(mapping) ==
  \/ \E k \in Keys : SettingInvalid(k, Setting(mapping, k))
  \/ Setting(mapping, "default_quantity").number > Setting(mapping, "max_position_quantity").number

MappingChecks(mapping) ==
  LET sections == DOMAIN mapping
      Infinite(s) == \E k \in DOMAIN Entries(mapping, s) : mapping[s].entries[k].kind = "infinite"
      missing == RequiredKeys \ DOMAIN Entries(mapping, "run")
      invalid == {k \in Keys \ missing : SettingInvalid(k, Setting(mapping, k))}
  IN << Check("INVALID_CONFIGURATION_SECTION", sections \ AllowedSections # {}),
        Check("INVALID_CONFIGURATION_SECTION", "run" \notin sections),
        Check("INVALID_CONFIGURATION_SECTION", \E s \in sections : ~mapping[s].table),
        Check("UNKNOWN_CONFIGURATION_KEY",
              \E s \in ClosedSections : DOMAIN Entries(mapping, s) \ ClosedKeys[s] # {}),
        Check("INVALID_CONFIGURATION", \E s \in {"strategy", "metadata"} : Infinite(s)),
        Check("INVALID_CONFIGURATION", missing # {}),
        Check("INVALID_CONFIGURATION", invalid # {}),
        Check("INVALID_CONFIGURATION", missing \cup invalid = {} /\ RunConfigInvalid(mapping)) >>

(* The RunConfig, and the snapshot that effective_configuration takes of   *)
(* it for the identity of the run and the report.                          *)
RunConfig(mapping) ==
  [settings |-> [k \in Keys |-> Setting(mapping, k)],
   parameters |-> Entries(mapping, "strategy"), metadata |-> Entries(mapping, "metadata")]

-----------------------------------------------------------------------------
(* _resolve_backtest_config.  A request has the file given with --config,  *)
(* as reading it ends, and the options; without a file the settings that   *)
(* no option gives are those below.                                        *)

NoFile == [status |-> "none", mapping |-> <<>>]
(* How read_toml_mapping ends.  The error of a file that cannot even be    *)
(* looked at, or of an integer with too many digits, is not caught.        *)
ReadOutcomes == {"read", "CONFIGURATION_FILE_ERROR", "MALFORMED_TOML", "another exception"}
CommandLineTables(options) ==
  [run |-> Table([data_path |-> options["data_path"], strategy |-> options["strategy"],
                  initial_cash |-> Number(10000), default_quantity |-> Number(1),
                  allow_short |-> Boolean(TRUE)]),
   execution |-> Table([commission_bps |-> Number(0), slippage_bps |-> Number(0)]),
   risk |-> Table([max_position_quantity |-> Number(1), max_drawdown_pct |-> None])]

(* The two options that apply_overrides does not get without a file. *)
Popped(request) == IF request.file = NoFile THEN TextKeys ELSE {}
LeftOptions(request) ==
  [k \in DOMAIN request.options \ Popped(request) |-> request.options[k]]
Given(request) ==
  IF request.file = NoFile THEN CommandLineTables(request.options) ELSE request.file.mapping

ConfigurationError(request) ==
  IF request.file = NoFile /\ ~(TextKeys \subseteq DOMAIN request.options) THEN "INVALID_CONFIGURATION"
  ELSE IF request.file.status \in ReadOutcomes \ {"read"} THEN request.file.status
  ELSE LET overrides == FirstFailing(OverrideChecks(Given(request), LeftOptions(request)))
       IN IF overrides # "NONE" THEN overrides
          ELSE FirstFailing(MappingChecks(Overridden(Given(request), LeftOptions(request))))

ResolvedConfig(request) == RunConfig(Overridden(Given(request), LeftOptions(request)))

(* _resolve_backtest_input_path: where the path of the data is looked up.  *)
InputPlace(request, config) ==
  IF config.settings["data_path"].text = "absolute" THEN "absolute"
  ELSE IF "data_path" \in DOMAIN request.options \/ request.file = NoFile THEN "working directory"
  ELSE "file directory"

(* ExecutionSettings.__post_init__ and RiskSettings.__post_init__, which   *)
(* the session builder runs with an error of another class.                *)
SettingsAdmissible(config) ==
  LET n == [k \in NumberKeys |-> IF config.settings[k] = None THEN 1 ELSE config.settings[k].number]
  IN /\ config.settings["allow_short"].kind = "boolean"
     /\ \A k \in NumberKeys \ NonNegativeKeys : n[k] > 0
     /\ n["commission_bps"] >= 0
     /\ n["slippage_bps"] >= 0 /\ n["slippage_bps"] < MaxSlippageBps
     /\ n["default_quantity"] <= n["max_position_quantity"]
=============================================================================
