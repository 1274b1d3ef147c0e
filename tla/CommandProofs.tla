---------------------------- MODULE CommandProofs ----------------------------
(***************************************************************************)
(* Theorems about the reading commands, for any number of processes, any   *)
(* workload and any edits: where a strategy's code may run, what an exit   *)
(* code says of the report, what a fingerprint says of the result, that a  *)
(* request is refused exactly when its effective values are not usable, and*)
(* that settings which were accepted are admissible.                       *)
(***************************************************************************)
EXTENDS CommandSafety, SeriesProofs

Labels ==
  Commands \cup Ended \cup
  {"alias", "load", "identify", "find", "hash", "build", "run", "report", "print"}

(* Every process has its part of each variable. *)
Shape ==
  /\ pc \in [Procs -> Labels]
  /\ DOMAIN request = Procs /\ DOMAIN config = Procs /\ DOMAIN candles = Procs
  /\ DOMAIN identity = Procs /\ DOMAIN code = Procs /\ DOMAIN result = Procs
  /\ DOMAIN report = Procs /\ DOMAIN raised = Procs /\ DOMAIN disturbed = Procs
  /\ faults \in Nat

(* The steps of a backtest after which there is a configuration, candles,  *)
(* and nothing yet to report.                                              *)
Configured == {"alias", "load", "identify", "find", "hash", "build", "run", "report"}
Loaded == {"identify", "find", "hash", "build", "run", "report"}
Running == {"backtest", "alias", "load", "identify", "find", "hash", "build", "run"}

(* No process has done anything yet. *)
LEMMA InitShape == CommandInit => Shape
BY CommandLineAssumption DEF CommandInit, Shape, Labels, Ended, Commands

(* Every step keeps the types. *)
LEMMA ShapeStep ==
  ASSUME Shape, [CommandNext]_commandVars
  PROVE  Shape'
<1>1. CASE Edit
  BY <1>1 DEF Edit, locals, Shape
<1>2. ASSUME NEW p \in Procs, Backtest(p)
      PROVE  Shape'
  <2>1. CASE ResolveConfig(p)
    BY <2>1 DEF ResolveConfig, Continue, Raise, bounds, Shape, Labels, Ended
  <2>2. CASE ResolveAlias(p)
    BY <2>2 DEF ResolveAlias, AliasStep, Continue, Raise, bounds, Shape, Labels, Ended
  <2>3. CASE LoadData(p)
    BY <2>3 DEF LoadData, Continue, Raise, bounds, Shape, Labels, Ended
  <2>4. CASE HashInput(p)
    BY <2>4 DEF HashInput, Continue, Raise, bounds, Shape, Labels, Ended
  <2>5. CASE FindSource(p)
    BY <2>5 DEF FindSource, Import, Continue, Raise, bounds, Shape, Labels, Ended
  <2>6. CASE HashSource(p)
    BY <2>6 DEF HashSource, Continue, Raise, bounds, Shape, Labels, Ended
  <2>7. CASE BuildSession(p)
    BY <2>7 DEF BuildSession, Import, Continue, Raise, bounds, Shape, Labels, Ended
  <2>8. CASE RunSession(p)
    BY <2>8 DEF RunSession, Continue, Raise, bounds, Shape, Labels, Ended
  <2>9. CASE WriteReport(p)
    <3>1. pc' \in [Procs -> Labels] /\ DOMAIN raised' = Procs
      <4>1. CASE Continue(p, "print")
        BY <4>1 DEF Continue, Shape, Labels
      <4>2. CASE \E class \in {"ReportingError", "another exception"} : Raise(p, class)
        BY <4>2 DEF Raise, Shape, Labels, Ended
      <4> QED
        BY <2>9, <4>1, <4>2 DEF WriteReport
    <3>2. DOMAIN report' = Procs
      BY <2>9 DEF WriteReport, Shape
    <3>3. UNCHANGED <<disturbed, request, config, candles, identity, code, result>> /\ faults' \in Nat
      <4>1. NoFault \/ Fault
        BY <2>9 DEF WriteReport
      <4>2. UNCHANGED disturbed /\ faults' \in Nat
        BY <4>1 DEF NoFault, Fault, bounds, Shape
      <4> QED
        BY <2>9, <4>2 DEF WriteReport
    <3> QED
      BY <3>1, <3>2, <3>3 DEF Shape
  <2>10. CASE PrintSummary(p)
    BY <2>10 DEF PrintSummary, Fault, NoFault, Continue, Raise, locals, bounds, Shape, Labels, Ended
  <2> QED
    BY <1>2, <2>1, <2>2, <2>3, <2>4, <2>5, <2>6, <2>7, <2>8, <2>9, <2>10 DEF Backtest
<1>3. ASSUME NEW p \in Procs, Validate(p) \/ ListStrategies(p)
      PROVE  Shape'
  BY <1>3 DEF Validate, ListStrategies, Continue, Raise, locals, bounds, Shape, Labels, Ended
<1>4. CASE UNCHANGED commandVars
  BY <1>4 DEF commandVars, locals, bounds, Shape
<1> QED
  BY <1>1, <1>2, <1>3, <1>4 DEF CommandNext

-----------------------------------------------------------------------------
(* A step of one process leaves the others where they are. *)
SameAt(q) ==
  /\ pc'[q] = pc[q] /\ request'[q] = request[q] /\ config'[q] = config[q]
  /\ candles'[q] = candles[q] /\ identity'[q] = identity[q] /\ code'[q] = code[q]
  /\ result'[q] = result[q] /\ report'[q] = report[q] /\ raised'[q] = raised[q]

(* A step of one process leaves the others alone. *)
LEMMA OthersStay ==
  ASSUME Shape, NEW p \in Procs, Backtest(p) \/ Validate(p) \/ ListStrategies(p),
         NEW q \in Procs, q # p
  PROVE  SameAt(q)
<1>1. CASE ResolveConfig(p) \/ ResolveAlias(p) \/ LoadData(p) \/ HashInput(p) \/ HashSource(p)
  BY <1>1 DEF ResolveConfig, ResolveAlias, AliasStep, LoadData, HashInput, HashSource, Continue, Raise,
     Shape, SameAt
<1>2. CASE FindSource(p) \/ BuildSession(p) \/ RunSession(p)
  BY <1>2 DEF FindSource, BuildSession, RunSession, Import, Continue, Raise, Shape, SameAt
<1>3. CASE WriteReport(p) \/ PrintSummary(p) \/ Validate(p) \/ ListStrategies(p)
  BY <1>3 DEF WriteReport, PrintSummary, Validate, ListStrategies, Continue, Raise, locals, Shape,
     SameAt
<1> QED
  BY <1>1, <1>2, <1>3 DEF Backtest

-----------------------------------------------------------------------------
(* The validation of a configuration: loader, overrides and RunConfig      *)
(* together accept the requests whose effective values are usable.         *)

(* Every key has its section, and only that. *)
LEMMA KeyHasSection ==
  ASSUME NEW k \in Keys
  PROVE  /\ SectionOf(k) \in ClosedSections /\ k \in ClosedKeys[SectionOf(k)]
         /\ \A s \in ClosedSections : k \in ClosedKeys[s] => s = SectionOf(k)
         /\ k \in RequiredKeys \cup TextKeys => SectionOf(k) = "run"
<1>1. ClosedSections = {"run", "execution", "risk"} /\ ClosedKeys["run"] = RunKeys
      /\ ClosedKeys["execution"] = ExecutionKeys /\ ClosedKeys["risk"] = RiskKeys
  BY DEF ClosedSections, ClosedKeys
<1>2. CASE k \in RunKeys
  BY <1>1, <1>2 DEF SectionOf, RunKeys, ExecutionKeys, RiskKeys, RequiredKeys, TextKeys
<1>3. CASE k \in ExecutionKeys
  BY <1>1, <1>3 DEF SectionOf, RunKeys, ExecutionKeys, RiskKeys, RequiredKeys, TextKeys
<1>4. CASE k \in RiskKeys
  BY <1>1, <1>4 DEF SectionOf, RunKeys, ExecutionKeys, RiskKeys, RequiredKeys, TextKeys
<1> QED
  BY <1>2, <1>3, <1>4 DEF Keys

(* What a check of a configuration may raise with. *)
ConfigurationCodes ==
  {"INVALID_CONFIGURATION_OVERRIDE", "INVALID_CONFIGURATION_SECTION", "UNKNOWN_CONFIGURATION_KEY",
   "INVALID_CONFIGURATION"}

(* The checks that apply_overrides makes of one option. *)
OptionChecks(mapping, options, key) ==
  << Check("INVALID_CONFIGURATION_OVERRIDE", OverrideInvalid(key, options[key])),
     Check("INVALID_CONFIGURATION_SECTION",
           SectionOf(key) \in DOMAIN mapping /\ ~mapping[SectionOf(key)].table) >>
OptionSound(mapping, options, key) ==
  /\ ~OverrideInvalid(key, options[key])
  /\ ~(SectionOf(key) \in DOMAIN mapping /\ ~mapping[SectionOf(key)].table)

(* The checks of one option pass exactly when it is sound. *)
LEMMA OptionClean ==
  ASSUME NEW mapping, NEW options, NEW key
  PROVE  /\ OptionChecks(mapping, options, key) \in Seq(CheckType(ConfigurationCodes))
         /\ Clean(OptionChecks(mapping, options, key)) <=> OptionSound(mapping, options, key)
<1> DEFINE checks == OptionChecks(mapping, options, key)
           a == OverrideInvalid(key, options[key])
           b == SectionOf(key) \in DOMAIN mapping /\ ~mapping[SectionOf(key)].table
<1>1. a \in BOOLEAN /\ b \in BOOLEAN
  BY DEF OverrideInvalid
<1> HIDE DEF a, b
<1>2. checks = << [code |-> "INVALID_CONFIGURATION_OVERRIDE", fails |-> a],
                  [code |-> "INVALID_CONFIGURATION_SECTION", fails |-> b] >>
  BY DEF OptionChecks, Check, a, b
<1> HIDE DEF checks
<1>3. checks \in Seq(CheckType(ConfigurationCodes)) /\ Len(checks) = 2 /\ (checks[1].fails <=> a) /\ (checks[2].fails <=> b)
  <2>1. /\ [code |-> "INVALID_CONFIGURATION_OVERRIDE", fails |-> a] \in CheckType(ConfigurationCodes)
        /\ [code |-> "INVALID_CONFIGURATION_SECTION", fails |-> b] \in CheckType(ConfigurationCodes)
    BY <1>1 DEF CheckType, ConfigurationCodes
  <2> QED
    BY <1>2, <2>1
<1>4. Clean(checks) <=> ~a /\ ~b
  <2>1. 1 .. 2 = {1, 2}
    OBVIOUS
  <2> QED
    BY <1>3, <2>1 DEF Clean
<1> QED
  BY <1>3, <1>4 DEF checks, OptionSound, a, b

(* Every option is checked once: its value and its section. *)
LEMMA OverridesClean ==
  ASSUME NEW mapping, NEW options, DOMAIN options \subseteq Keys
  PROVE  FirstFailing(OverrideChecks(mapping, options)) = "NONE" <=>
           \A k \in DOMAIN options : OptionSound(mapping, options, k)
<1> DEFINE part(key) == IF key \notin DOMAIN options THEN <<>> ELSE OptionChecks(mapping, options, key)
           parts == [i \in 1 .. 9 |-> part(OptionOrder[i])]
           Loop(upTo) == upTo = [i \in 0 .. Len(OptionOrder) |->
                                   IF i = 0 THEN <<>>
                                   ELSE LET key == OptionOrder[i]
                                        IN upTo[i - 1] \o
                                           IF key \notin DOMAIN options THEN <<>>
                                           ELSE << Check("INVALID_CONFIGURATION_OVERRIDE",
                                                         OverrideInvalid(key, options[key])),
                                                   Check("INVALID_CONFIGURATION_SECTION",
                                                         SectionOf(key) \in DOMAIN mapping
                                                           /\ ~mapping[SectionOf(key)].table) >>]
           chosen == CHOOSE upTo : Loop(upTo)
<1>1. Len(OptionOrder) = 9 /\ \A k \in Keys : \E i \in 1 .. 9 : OptionOrder[i] = k
  BY DEF OptionOrder, Keys, RunKeys, ExecutionKeys, RiskKeys
<1>2. parts \in [1 .. 9 -> Seq(CheckType(ConfigurationCodes))]
  BY OptionClean
<1>3. \A upTo : Loop(upTo) <=> upTo = [i \in 0 .. 9 |-> IF i = 0 THEN <<>>
                                                       ELSE upTo[i - 1] \o part(OptionOrder[i])]
  BY <1>1 DEF OptionChecks
<1>4. OverrideChecks(mapping, options) = chosen[9]
  BY <1>1 DEF OverrideChecks
<1>14. \A i \in 1 .. 9 : parts[i] = part(OptionOrder[i])
  OBVIOUS
<1> HIDE DEF Loop, part, parts
<1>5. PICK f \in [0 .. 9 -> Seq(CheckType(ConfigurationCodes))] : Joins(9, f, parts)
  BY <1>2, JoinExists
<1>6. Loop(f)
  <2>1. f[0] = <<>> /\ \A i \in 1 .. 9 : f[i] = f[i - 1] \o part(OptionOrder[i])
    BY <1>5, <1>14 DEF Joins
  <2>2. \A i \in 0 .. 9 : f[i] = IF i = 0 THEN <<>> ELSE f[i - 1] \o part(OptionOrder[i])
    <3> SUFFICES ASSUME NEW i \in 0 .. 9
                 PROVE  f[i] = IF i = 0 THEN <<>> ELSE f[i - 1] \o part(OptionOrder[i])
      OBVIOUS
    <3>1. i = 0 \/ i \in 1 .. 9
      OBVIOUS
    <3> QED
      BY <2>1, <3>1
  <2>3. f = [i \in 0 .. 9 |-> IF i = 0 THEN <<>> ELSE f[i - 1] \o part(OptionOrder[i])]
    BY <1>5, <2>2
  <2> QED
    BY <1>3, <2>3
<1>7. Loop(chosen)
  BY <1>6
<1> HIDE DEF chosen
<1>8. Joins(9, chosen, parts)
  <2>1. chosen = [i \in 0 .. 9 |-> IF i = 0 THEN <<>> ELSE chosen[i - 1] \o part(OptionOrder[i])]
    BY <1>3, <1>7
  <2>2. \A i \in 0 .. 9 : chosen[i] = IF i = 0 THEN <<>> ELSE chosen[i - 1] \o part(OptionOrder[i])
    BY <2>1
  <2>3. chosen[0] = <<>> /\ \A i \in 1 .. 9 : chosen[i] = chosen[i - 1] \o part(OptionOrder[i])
    <3>1. chosen[0] = <<>>
      BY <2>2
    <3>2. ASSUME NEW i \in 1 .. 9
          PROVE  chosen[i] = chosen[i - 1] \o part(OptionOrder[i])
      <4>1. i \in 0 .. 9 /\ i # 0
        OBVIOUS
      <4> QED
        BY <2>2, <4>1
    <3> QED
      BY <3>1, <3>2
  <2> QED
    BY <1>14, <2>3 DEF Joins
<1>9. chosen[9] \in Seq(CheckType(ConfigurationCodes)) /\ (Clean(chosen[9]) <=> \A i \in 1 .. 9 : Clean(parts[i]))
  BY <1>2, <1>8, JoinIsClean
<1>10. \A k : Clean(part(k)) <=> (k \in DOMAIN options => OptionSound(mapping, options, k))
  <2>1. Clean(<<>>)
    BY DEF Clean
  <2> QED
    BY <2>1, OptionClean DEF part
<1>11. (\A i \in 1 .. 9 : Clean(parts[i])) <=> \A k \in DOMAIN options : OptionSound(mapping, options, k)
  <2>1. \A i \in 1 .. 9 : Clean(parts[i]) <=>
                            (OptionOrder[i] \in DOMAIN options => OptionSound(mapping, options, OptionOrder[i]))
    BY <1>10, <1>14
  <2> QED
    BY <1>1, <2>1
<1>12. FirstFailing(chosen[9]) = "NONE" <=> Clean(chosen[9])
  <2>1. "NONE" \notin ConfigurationCodes
    BY DEF ConfigurationCodes
  <2> QED
    BY <1>9, <2>1, FirstFailingIsFirst
<1> QED
  BY <1>4, <1>9, <1>11, <1>12

(* What config_from_mapping asks of a mapping, one part for each check. *)
Finite(mapping, s) ==
  ~ \E k \in DOMAIN Entries(mapping, s) : mapping[s].entries[k].kind = "infinite"
MappingSound(mapping) ==
  /\ DOMAIN mapping \subseteq AllowedSections
  /\ "run" \in DOMAIN mapping
  /\ \A s \in DOMAIN mapping : mapping[s].table
  /\ \A s \in ClosedSections : DOMAIN Entries(mapping, s) \subseteq ClosedKeys[s]
  /\ \A s \in {"strategy", "metadata"} : Finite(mapping, s)
  /\ RequiredKeys \subseteq DOMAIN Entries(mapping, "run")
  /\ ~RunConfigInvalid(mapping)

(* And those of the mapping when that is. *)
LEMMA MappingClean ==
  ASSUME NEW mapping
  PROVE  FirstFailing(MappingChecks(mapping)) = "NONE" <=> MappingSound(mapping)
<1> DEFINE checks == MappingChecks(mapping)
           missing == RequiredKeys \ DOMAIN Entries(mapping, "run")
           invalid == {k \in Keys \ missing : SettingInvalid(k, Setting(mapping, k))}
           a == DOMAIN mapping \ AllowedSections # {}
           b == "run" \notin DOMAIN mapping
           c == \E s \in DOMAIN mapping : ~mapping[s].table
           d == \E s \in ClosedSections : DOMAIN Entries(mapping, s) \ ClosedKeys[s] # {}
           e == \E s \in {"strategy", "metadata"} : ~Finite(mapping, s)
           f == missing # {}
           g == invalid # {}
           h == missing \cup invalid = {} /\ RunConfigInvalid(mapping)
<1>1. checks = << Check("INVALID_CONFIGURATION_SECTION", a), Check("INVALID_CONFIGURATION_SECTION", b),
                  Check("INVALID_CONFIGURATION_SECTION", c), Check("UNKNOWN_CONFIGURATION_KEY", d),
                  Check("INVALID_CONFIGURATION", e), Check("INVALID_CONFIGURATION", f),
                  Check("INVALID_CONFIGURATION", g), Check("INVALID_CONFIGURATION", h) >>
  BY DEF MappingChecks, Finite
<1>2. ~a /\ ~b /\ ~c /\ ~d /\ ~e /\ ~f /\ ~g /\ ~h <=> MappingSound(mapping)
  <2>1. f \/ g \/ (h <=> RunConfigInvalid(mapping))
    OBVIOUS
  <2>2. missing = {} /\ g => RunConfigInvalid(mapping)
    BY DEF RunConfigInvalid
  <2>3. ~f <=> RequiredKeys \subseteq DOMAIN Entries(mapping, "run")
    OBVIOUS
  <2>4. ~f /\ ~g /\ ~h <=> RequiredKeys \subseteq DOMAIN Entries(mapping, "run") /\ ~RunConfigInvalid(mapping)
    <3> HIDE DEF g, h
    <3> QED
      BY <2>1, <2>2, <2>3
  <2>5. ~a /\ ~b /\ ~c /\ ~d /\ ~e <=>
          /\ DOMAIN mapping \subseteq AllowedSections /\ "run" \in DOMAIN mapping
          /\ \A s \in DOMAIN mapping : mapping[s].table
          /\ \A s \in ClosedSections : DOMAIN Entries(mapping, s) \subseteq ClosedKeys[s]
          /\ \A s \in {"strategy", "metadata"} : Finite(mapping, s)
    BY DEF Finite
  <2> HIDE DEF a, b, c, d, e, f, g, h
  <2> QED
    BY <2>4, <2>5 DEF MappingSound
<1>3. /\ a \in BOOLEAN /\ b \in BOOLEAN /\ c \in BOOLEAN /\ d \in BOOLEAN /\ e \in BOOLEAN
      /\ f \in BOOLEAN /\ g \in BOOLEAN /\ h \in BOOLEAN
  BY DEF RunConfigInvalid
<1> HIDE DEF checks, a, b, c, d, e, f, g, h
<1>4. /\ checks \in Seq(CheckType(ConfigurationCodes)) /\ Len(checks) = 8
      /\ (checks[1].fails <=> a) /\ (checks[2].fails <=> b) /\ (checks[3].fails <=> c)
      /\ (checks[4].fails <=> d) /\ (checks[5].fails <=> e) /\ (checks[6].fails <=> f)
      /\ (checks[7].fails <=> g) /\ (checks[8].fails <=> h)
  <2>1. ASSUME NEW text \in ConfigurationCodes, NEW fails \in BOOLEAN
        PROVE  /\ Check(text, fails) \in CheckType(ConfigurationCodes)
               /\ Check(text, fails).fails <=> fails
    BY DEF Check, CheckType
  <2>2. /\ "INVALID_CONFIGURATION_SECTION" \in ConfigurationCodes
        /\ "UNKNOWN_CONFIGURATION_KEY" \in ConfigurationCodes
        /\ "INVALID_CONFIGURATION" \in ConfigurationCodes
    BY DEF ConfigurationCodes
  <2> QED
    BY <1>1, <1>3, <2>1, <2>2
<1>5. Clean(checks) <=> ~a /\ ~b /\ ~c /\ ~d /\ ~e /\ ~f /\ ~g /\ ~h
  <2>1. 1 .. 8 = {1, 2, 3, 4, 5, 6, 7, 8}
    OBVIOUS
  <2> QED
    BY <1>4, <2>1 DEF Clean
<1>6. FirstFailing(checks) = "NONE" <=> Clean(checks)
  <2>1. "NONE" \notin ConfigurationCodes
    BY DEF ConfigurationCodes
  <2> QED
    BY <1>4, <2>1, FirstFailingIsFirst
<1> QED
  BY <1>2, <1>5, <1>6 DEF checks

(* A mapping without a failing check. *)
LEMMA NoneFails ==
  ASSUME NEW mapping, FirstFailing(MappingChecks(mapping)) = "NONE"
  PROVE  /\ RequiredKeys \subseteq DOMAIN Entries(mapping, "run")
         /\ \A k \in Keys : ~SettingInvalid(k, Setting(mapping, k))
         /\ ~RunConfigInvalid(mapping)
BY MappingClean DEF MappingSound, RunConfigInvalid

(* What a mapping holds as a number is one, and stays one when the options *)
(* are set in it.                                                          *)
Holds(mapping) == \A s \in DOMAIN mapping : HoldsValues(mapping[s].entries)

(* The entries of a section hold values. *)
LEMMA EntriesHold ==
  ASSUME NEW mapping, Holds(mapping), NEW s
  PROVE  HoldsValues(Entries(mapping, s))
BY DEF Holds, HoldsValues, Entries

(* Options with values set values. *)
LEMMA OverriddenHolds ==
  ASSUME NEW mapping, Holds(mapping), NEW options, HoldsValues(options)
  PROVE  Holds(Overridden(mapping, options))
<1> DEFINE sections == {SectionOf(k) : k \in DOMAIN options}
           Set(s) == [k \in DOMAIN options \cap ClosedKeys[s] |-> options[k]]
           changed == [s \in sections |-> Table(Updated(Entries(mapping, s), Set(s)))]
<1>1. \A s \in sections : HoldsValues(changed[s].entries)
  <2> SUFFICES ASSUME NEW s \in sections
               PROVE  HoldsValues(Updated(Entries(mapping, s), Set(s)))
    BY DEF Table
  <2>1. HoldsValues(Set(s)) /\ HoldsValues(Entries(mapping, s))
    BY EntriesHold DEF HoldsValues
  <2> HIDE DEF Set
  <2> QED
    BY <2>1 DEF HoldsValues, Updated
<1>2. Overridden(mapping, options) = Updated(mapping, changed)
  BY DEF Overridden
<1> HIDE DEF changed
<1>3. DOMAIN changed = sections
  BY DEF changed
<1> QED
  BY <1>1, <1>2, <1>3 DEF Holds, Updated

(* A setting, read or default, is a value. *)
LEMMA SettingHolds ==
  ASSUME NEW mapping, Holds(mapping), RequiredKeys \subseteq DOMAIN Entries(mapping, "run"),
         NEW k \in Keys
  PROVE  IsValue(Setting(mapping, k))
<1>1. k \in RequiredKeys => SectionOf(k) = "run"
  BY DEF SectionOf, RequiredKeys, ClosedSections, ClosedKeys, RunKeys, ExecutionKeys, RiskKeys
<1>2. CASE k \in DOMAIN Entries(mapping, SectionOf(k))
  BY <1>2, EntriesHold DEF Setting, HoldsValues
<1>3. CASE k \notin DOMAIN Entries(mapping, SectionOf(k))
  <2>1. k \in Keys \ RequiredKeys
    BY <1>1, <1>3
  <2>2. IsValue(Default[k])
    BY <2>1 DEF Default, IsValue, Number, Text, Boolean, None, Other, Keys, RunKeys, ExecutionKeys, RiskKeys,
       RequiredKeys
  <2> QED
    BY <1>3, <2>2 DEF Setting
<1> QED
  BY <1>2, <1>3

(* A mapping whose checks all pass gives settings that broker and policy   *)
(* accept.                                                                 *)
LEMMA CheckedIsAdmissible ==
  ASSUME NEW mapping, Holds(mapping), FirstFailing(MappingChecks(mapping)) = "NONE"
  PROVE  SettingsAdmissible(RunConfig(mapping))
<1>1. /\ RequiredKeys \subseteq DOMAIN Entries(mapping, "run")
      /\ \A k \in Keys : ~SettingInvalid(k, Setting(mapping, k))
      /\ ~RunConfigInvalid(mapping)
  BY NoneFails
<1> DEFINE value(k) == Setting(mapping, k)
           n == [k \in NumberKeys |-> IF value(k) = None THEN 1 ELSE value(k).number]
<1>2. \A k \in Keys : IsValue(value(k)) /\ ~SettingInvalid(k, value(k))
  BY <1>1, SettingHolds
<1>3. ~(value("default_quantity").number > value("max_position_quantity").number)
  BY <1>1 DEF RunConfigInvalid
<1>4. RunConfig(mapping).settings = [k \in Keys |-> value(k)]
  BY DEF RunConfig
<1> HIDE DEF value
<1>5. value("allow_short").kind = "boolean"
  BY <1>2 DEF SettingInvalid, Keys, RunKeys, BooleanKeys
<1>6. ASSUME NEW k \in NumberKeys, k # "max_drawdown_pct"
      PROVE  /\ value(k) # None /\ value(k).number \in Int
             /\ value(k).number >= 0 /\ (k \notin NonNegativeKeys => value(k).number > 0)
             /\ k = "slippage_bps" => value(k).number < MaxSlippageBps
  <2>1. value(k).kind = "number" /\ ~OutOfRange(k, value(k).number)
    BY <1>2, <1>6 DEF SettingInvalid, NotANumber, NumberKeys
  <2>2. value(k).number \in Int
    BY <1>2, <2>1 DEF IsValue, NumberKeys
  <2>3. value(k) # None
    BY <2>1 DEF None, Other
  <2> QED
    BY <2>1, <2>2, <2>3, CommandLineAssumption DEF OutOfRange
<1>7. value("max_drawdown_pct") = None \/ value("max_drawdown_pct").number > 0
  <2> SUFFICES ASSUME value("max_drawdown_pct") # None
               PROVE  value("max_drawdown_pct").number > 0
    OBVIOUS
  <2>1. "max_drawdown_pct" \in NumberKeys /\ "max_drawdown_pct" \in Keys
    BY DEF NumberKeys, Keys, RiskKeys, TextKeys, BooleanKeys
  <2>2. ~NotANumber("max_drawdown_pct", value("max_drawdown_pct"))
    BY <1>2, <2>1 DEF SettingInvalid
  <2> QED
    BY <1>2, <2>1, <2>2 DEF NotANumber, OutOfRange, IsValue, NonNegativeKeys
<1>8. NumberKeys = {"initial_cash", "default_quantity", "commission_bps", "slippage_bps",
                    "max_position_quantity", "max_drawdown_pct"}
      /\ NumberKeys \subseteq Keys /\ "allow_short" \in Keys
  BY DEF NumberKeys, Keys, RunKeys, ExecutionKeys, RiskKeys, TextKeys, BooleanKeys
<1>9. \A k \in NumberKeys \ NonNegativeKeys : n[k] > 0
  BY <1>6, <1>7
<1>10. n["commission_bps"] >= 0 /\ n["slippage_bps"] >= 0 /\ n["slippage_bps"] < MaxSlippageBps
  BY <1>6, <1>8
<1>11. n["default_quantity"] <= n["max_position_quantity"]
  <2>1. n["default_quantity"] = value("default_quantity").number /\ n["default_quantity"] \in Int
    BY <1>6, <1>8
  <2>2. /\ n["max_position_quantity"] = value("max_position_quantity").number
        /\ n["max_position_quantity"] \in Int
    BY <1>6, <1>8
  <2> QED
    BY <1>3, <2>1, <2>2
<1>12. n = [k \in NumberKeys |-> IF RunConfig(mapping).settings[k] = None THEN 1
                                 ELSE RunConfig(mapping).settings[k].number]
  BY <1>4, <1>8
<1> HIDE DEF n
<1> QED
  BY <1>4, <1>5, <1>8, <1>9, <1>10, <1>11, <1>12 DEF SettingsAdmissible

-----------------------------------------------------------------------------
(* The order of a backtest: every step needs what an earlier one left.     *)

HasConfig(p) == "settings" \in DOMAIN config[p]
OrderedAt(p) ==
  /\ pc[p] \in Configured => HasConfig(p)
  /\ pc[p] \in Loaded => candles[p] # NoCandles
  /\ pc[p] \in {"backtest", "alias", "load"} => candles[p] = NoCandles
  /\ pc[p] \in {"backtest", "alias", "load", "identify"} => code[p] = NotImported /\ report[p] = Unset
  /\ code[p] # NotImported \/ report[p] # Unset => HasConfig(p) /\ candles[p] # NoCandles
Ordered == \A p \in Procs : OrderedAt(p)

(* Nothing happened yet. *)
LEMMA InitOrdered == CommandInit => Ordered
BY CommandLineAssumption DEF CommandInit, Ordered, OrderedAt, Configured, Loaded, Commands

(* Every step keeps the order of the stages. *)
LEMMA OrderedStep ==
  ASSUME Shape, Ordered, [CommandNext]_commandVars
  PROVE  Ordered'
<1>1. CASE Edit \/ UNCHANGED commandVars
  BY <1>1 DEF Edit, commandVars, locals, Ordered, OrderedAt, HasConfig
<1>2. ASSUME NEW p \in Procs, Backtest(p) \/ Validate(p) \/ ListStrategies(p), NEW q \in Procs, q # p
      PROVE  OrderedAt(q)'
  BY <1>2, OthersStay DEF SameAt, Ordered, OrderedAt, HasConfig
<1>3. ASSUME NEW p \in Procs, Backtest(p) \/ Validate(p) \/ ListStrategies(p)
      PROVE  OrderedAt(p)'
  <2> USE DEF Shape, Ordered, OrderedAt, HasConfig, Configured, Loaded, At, Continue, Raise
  <2>1. CASE ResolveConfig(p)
    <3>1. code'[p] = NotImported /\ report'[p] = Unset
      BY <2>1 DEF ResolveConfig
    <3>2. candles'[p] = NoCandles
      BY <2>1 DEF ResolveConfig
    <3>3. ("settings" \in DOMAIN config'[p] /\ pc'[p] = "alias") \/ pc'[p] = "failed"
      <4>1. CASE ConfigurationError(request[p]) = "NONE"
        <5>1. pc'[p] = "alias" /\ config'[p] = ResolvedConfig(request[p])
          BY <2>1, <4>1 DEF ResolveConfig
        <5> QED
          BY <5>1 DEF ResolvedConfig, RunConfig
      <4>2. CASE ConfigurationError(request[p]) # "NONE"
        BY <2>1, <4>2 DEF ResolveConfig
      <4> QED
        BY <4>1, <4>2
    <3> QED
      BY <3>1, <3>2, <3>3
  <2>2. CASE ResolveAlias(p)
    <3>1. HasConfig(p)'
      BY <2>2 DEF ResolveAlias, AliasStep, Resolved
    <3> QED
      BY <2>2, <3>1 DEF ResolveAlias, AliasStep
  <2>3. CASE LoadData(p)
    BY <2>3 DEF LoadData, Loadable
  <2>4. CASE HashInput(p)
    BY <2>4 DEF HashInput
  <2>5. CASE FindSource(p)
    <3>1. UNCHANGED <<config, candles, report>> /\ pc[p] = "find" /\ pc'[p] \in {"hash", "failed"}
      BY <2>5 DEF FindSource
    <3> QED
      BY <3>1
  <2>6. CASE HashSource(p)
    BY <2>6 DEF HashSource
  <2>7. CASE BuildSession(p)
    BY <2>7 DEF BuildSession, Import
  <2>8. CASE RunSession(p)
    <3>1. UNCHANGED <<config, candles, code, report>> /\ pc[p] = "run"
          /\ pc'[p] \in {"report", "failed"}
      BY <2>8 DEF RunSession
    <3> QED
      BY <3>1
  <2>9. CASE WriteReport(p)
    <3>1. UNCHANGED <<config, candles, code>> /\ pc[p] = "report" /\ pc'[p] \in {"print", "failed"}
      BY <2>9 DEF WriteReport
    <3> QED
      BY <3>1
  <2>10. CASE PrintSummary(p) \/ Validate(p) \/ ListStrategies(p)
    <3>1. UNCHANGED <<config, candles, code, report>> /\ pc'[p] \in {"print", "done", "failed"}
      BY <2>10 DEF PrintSummary, Validate, ListStrategies, locals
    <3> QED
      BY <3>1
  <2> QED
    BY <1>3, <2>1, <2>2, <2>3, <2>4, <2>5, <2>6, <2>7, <2>8, <2>9, <2>10 DEF Backtest
<1> QED
  BY <1>1, <1>2, <1>3 DEF CommandNext, Ordered

(* The order, always. *)
LEMMA OrderedAlways == CommandSpec => [](Shape /\ Ordered)
<1>1. CommandInit => Shape /\ Ordered
  BY InitShape, InitOrdered
<1>2. Shape /\ Ordered /\ [CommandNext]_commandVars => (Shape /\ Ordered)'
  BY ShapeStep, OrderedStep
<1> QED
  BY <1>1, <1>2, PTL DEF CommandSpec

(* USER_GUIDE.md:99, "Validation fails before strategy construction or     *)
(* report-directory creation": main resolves the configuration and loads   *)
(* the data before anything imports a strategy.                            *)
THEOREM CodeRunsCorrect == CommandSpec => []CodeRunsOnlyOnValidInput
<1>1. Shape /\ Ordered => CodeRunsOnlyOnValidInput
  BY DEF Ordered, OrderedAt, HasConfig, CodeRunsOnlyOnValidInput, Unset
<1> QED
  BY <1>1, OrderedAlways, PTL

-----------------------------------------------------------------------------
(* Accepted settings stay admissible, for any project alias.               *)

Admissible ==
  \A p \in Procs : /\ IsRequest(request[p])
                   /\ config[p] = Unset \/ (HasConfig(p) /\ SettingsAdmissible(config[p]))

(* A resolved configuration is admissible. *)
LEMMA ResolvedIsAdmissible ==
  ASSUME NEW r, IsRequest(r), ConfigurationError(r) = "NONE"
  PROVE  "settings" \in DOMAIN ResolvedConfig(r) /\ SettingsAdmissible(ResolvedConfig(r))
<1> DEFINE mapping == Overridden(Given(r), LeftOptions(r))
<1>1. FirstFailing(MappingChecks(mapping)) = "NONE"
  BY DEF ConfigurationError, ReadOutcomes
<1>2. r.file = NoFile => TextKeys \subseteq DOMAIN r.options
  BY DEF ConfigurationError
<1>3. HoldsValues(LeftOptions(r))
  BY DEF IsRequest, HoldsValues, LeftOptions
<1>4. Holds(Given(r))
  <2>1. CASE r.file = NoFile
    <3>1. IsValue(r.options["data_path"]) /\ IsValue(r.options["strategy"])
      BY <1>2, <2>1 DEF IsRequest, HoldsValues, TextKeys
    <3> QED
      BY <2>1, <3>1 DEF Given, CommandLineTables, Holds, HoldsValues, IsValue, Text, Table, Number, Boolean,
         None, Other
  <2>2. CASE r.file # NoFile
    BY <2>2 DEF Given, IsRequest, Holds
  <2> QED
    BY <2>1, <2>2
<1>5. Holds(mapping)
  BY <1>3, <1>4, OverriddenHolds
<1> HIDE DEF mapping
<1>6. "settings" \in DOMAIN RunConfig(mapping) /\ SettingsAdmissible(RunConfig(mapping))
  BY <1>1, <1>5, CheckedIsAdmissible DEF RunConfig
<1> QED
  BY <1>6 DEF mapping, ResolvedConfig

(* Only the strategy of a configuration is replaced. *)
LEMMA AliasStaysAdmissible ==
  ASSUME NEW c, "settings" \in DOMAIN c, SettingsAdmissible(c)
  PROVE  "settings" \in DOMAIN Resolved(c) /\ SettingsAdmissible(Resolved(c))
<1>1. /\ "settings" \in DOMAIN Resolved(c)
      /\ \A k \in NumberKeys \cup {"allow_short"} : Resolved(c).settings[k] = c.settings[k]
  BY DEF Resolved, NumberKeys, Keys, RunKeys, ExecutionKeys, RiskKeys, TextKeys, BooleanKeys
<1>2. "default_quantity" \in NumberKeys /\ "max_position_quantity" \in NumberKeys
      /\ "commission_bps" \in NumberKeys /\ "slippage_bps" \in NumberKeys
  BY DEF NumberKeys, Keys, RunKeys, ExecutionKeys, RiskKeys, TextKeys, BooleanKeys
<1> QED
  BY <1>1, <1>2 DEF SettingsAdmissible

(* Nothing is resolved yet. *)
LEMMA InitAdmissible == CommandInit => Admissible
BY CommandLineAssumption DEF CommandInit, Admissible

(* Every step keeps it. *)
LEMMA AdmissibleStep ==
  ASSUME Shape, Ordered, Admissible, [CommandNext]_commandVars
  PROVE  Admissible'
<1>1. CASE Edit \/ UNCHANGED commandVars
  BY <1>1 DEF Edit, commandVars, locals, Admissible, HasConfig
<1>2. ASSUME NEW p \in Procs, Backtest(p) \/ Validate(p) \/ ListStrategies(p), NEW q \in Procs
      PROVE  /\ IsRequest(request'[q])
             /\ config'[q] = Unset \/ ("settings" \in DOMAIN config'[q] /\ SettingsAdmissible(config'[q]))
  <2>0. request' = request
    BY <1>2 DEF Backtest, ResolveConfig, ResolveAlias, AliasStep, LoadData, HashInput, FindSource,
       HashSource, BuildSession, RunSession, WriteReport, PrintSummary, Validate, ListStrategies, locals
  <2>1. CASE q # p
    BY <1>2, <2>0, <2>1, OthersStay DEF SameAt, Admissible, HasConfig
  <2>2. CASE config' = config
    BY <2>0, <2>2 DEF Admissible, HasConfig
  <2>3. CASE q = p /\ ResolveConfig(p)
    <3>1. CASE config' = config
      BY <2>2, <3>1
    <3>2. CASE ConfigurationError(request[p]) = "NONE" /\ config'[p] = ResolvedConfig(request[p])
      BY <2>0, <2>3, <3>2, ResolvedIsAdmissible DEF Admissible
    <3> QED
      BY <2>3, <3>1, <3>2 DEF ResolveConfig, Shape
  <2>4. CASE q = p /\ ResolveAlias(p)
    <3>1. CASE config' = config
      BY <2>2, <3>1
    <3>2. CASE config[p] # Unset /\ config'[p] = Resolved(config[p])
      BY <2>0, <2>4, <3>2, AliasStaysAdmissible DEF Admissible, HasConfig
    <3>3. config[p] # Unset
      BY <2>4 DEF ResolveAlias, AliasStep, At, Ordered, OrderedAt, HasConfig, Configured, Unset
    <3> QED
      BY <2>4, <3>1, <3>2, <3>3 DEF ResolveAlias, AliasStep, Shape
  <2> QED
    BY <1>2, <2>1, <2>2, <2>3, <2>4 DEF Backtest, LoadData, HashInput, FindSource,
       HashSource, BuildSession, RunSession, WriteReport, PrintSummary, Validate, ListStrategies, locals
<1> QED
  BY <1>1, <1>2 DEF CommandNext, Admissible, HasConfig

(* Admissibility, always. *)
LEMMA AdmissibleAlways == CommandSpec => [](Shape /\ Ordered /\ Admissible)
<1>1. CommandInit => Admissible
  BY InitAdmissible
<1>2. Shape /\ Ordered /\ Admissible /\ [CommandNext]_commandVars => Admissible'
  BY AdmissibleStep
<1> QED
  BY <1>1, <1>2, OrderedAlways, PTL DEF CommandSpec

(* What config_from_mapping accepts, broker and risk policy accept.  The   *)
(* loader, RunConfig and the settings of the session check the same ranges *)
(* three times, and each project alias is resolved in between.             *)
THEOREM AcceptedCorrect == CommandSpec => []AcceptedSettingsAreAdmissible
<1>1. Admissible => AcceptedSettingsAreAdmissible
  BY DEF Admissible, AcceptedSettingsAreAdmissible
<1> QED
  BY <1>1, AdmissibleAlways, PTL

-----------------------------------------------------------------------------
(* What an exit code says.                                                 *)

FailedAt(p) ==
  /\ raised[p] \in InputErrors => report[p] = Unset /\ result[p] = Unset
  /\ raised[p] # "OSError" => report[p] = Unset
  /\ raised[p] \notin InputErrors /\ faults = 0 => result[p] = Unset /\ StoppedByInput(p)

ProgressAt(p) ==
  /\ pc[p] \in Commands => pc[p] = request[p].command
  /\ request[p].command = "backtest" =>
       /\ pc[p] \in Running => result[p] = Unset
       /\ pc[p] \in Running \cup {"report"} => report[p] = Unset
       /\ pc[p] = "run" => StrategyOf(p) \in {BuiltIn} \cup Modules
       /\ pc[p] \in {"report", "print", "done"} => result[p] # Unset
       /\ pc[p] \in {"print", "done"} => report[p] = Publication(p)
       /\ pc[p] = "failed" => FailedAt(p)
Progress == \A p \in Procs : ProgressAt(p)

(* No process has started. *)
LEMMA InitProgress == CommandInit => Progress
BY CommandLineAssumption DEF CommandInit, Progress, ProgressAt, Commands, Running

(* Faults are only ever added. *)
LEMMA FaultsGrow ==
  ASSUME Shape, [CommandNext]_commandVars
  PROVE  faults \in Nat /\ faults' \in Nat /\ faults <= faults'
<1>1. CASE faults' = faults
  BY <1>1 DEF Shape
<1>2. CASE faults' = faults + 1
  BY <1>2 DEF Shape
<1>3. faults' = faults \/ faults' = faults + 1
  <2>1. CASE Edit \/ UNCHANGED commandVars
    BY <2>1 DEF Edit, commandVars, bounds
  <2>2. ASSUME NEW p \in Procs, Validate(p) \/ ListStrategies(p) \/ WriteReport(p) \/ PrintSummary(p)
        PROVE  faults' = faults \/ faults' = faults + 1
    BY <2>2 DEF Validate, ListStrategies, WriteReport, PrintSummary, NoFault, Fault, bounds
  <2>3. ASSUME NEW p \in Procs, Backtest(p), ~WriteReport(p), ~PrintSummary(p)
        PROVE  faults' = faults
    BY <2>3 DEF Backtest, ResolveConfig, ResolveAlias, AliasStep, LoadData, HashInput, FindSource,
       HashSource, BuildSession, RunSession, bounds
  <2> QED
    BY <2>1, <2>2, <2>3 DEF CommandNext
<1> QED
  BY <1>1, <1>2, <1>3

(* What else the reading of registry and data may raise. *)
LEMMA ReadingRaises ==
  /\ RegistryError \in {"StrategyValidationError", "another exception"}
  /\ \A bytes : DataError(bytes) \in {"DataValidationError", "another exception"}
BY DEF RegistryError, DataError

(* A run that is stopped before the data was loaded, or by an error that   *)
(* main knows as one of the input.                                         *)
LEMMA StoppedEarly ==
  ASSUME Shape, Progress, NEW p \in Procs, pc[p] \in Running,
         result'[p] = result[p], report'[p] = report[p], request'[p] = request[p],
         pc'[p] = "failed",
         \/ raised'[p] \in InputErrors
         \/ raised'[p] = "another exception" /\ candles'[p] = NoCandles
  PROVE  ProgressAt(p)'
<1>1. raised'[p] = "another exception" => raised'[p] \notin InputErrors /\ raised'[p] # "OSError"
  BY DEF InputErrors
<1>2. "OSError" \notin InputErrors
  BY DEF InputErrors
<1>3. request[p].command = "backtest" => FailedAt(p)'
  BY <1>1, <1>2 DEF Progress, ProgressAt, FailedAt, StoppedByInput
<1> QED
  BY <1>3 DEF ProgressAt, Commands, Running

(* Every step makes progress or a fault. *)
LEMMA ProgressStep ==
  ASSUME Shape, Ordered, Admissible, Progress, [CommandNext]_commandVars
  PROVE  Progress'
<1>0. faults' = 0 => faults = 0
  BY FaultsGrow
<1>1. CASE Edit \/ UNCHANGED commandVars
  <2>1. UNCHANGED <<pc, request, config, candles, identity, result, report, raised>>
    BY <1>1 DEF Edit, commandVars, locals
  <2>2. \A q \in Procs : StoppedByInput(q)' <=> StoppedByInput(q)
    BY <2>1 DEF StoppedByInput, StrategyOf
  <2> QED
    BY <1>0, <2>1, <2>2 DEF Progress, ProgressAt, FailedAt, Publication, StrategyOf
<1>2. ASSUME NEW p \in Procs, Backtest(p) \/ Validate(p) \/ ListStrategies(p), NEW q \in Procs, q # p
      PROVE  ProgressAt(q)'
  <2>1. SameAt(q)
    BY <1>2, OthersStay
  <2>2. StoppedByInput(q)' <=> StoppedByInput(q)
    BY <2>1 DEF SameAt, StoppedByInput, StrategyOf
  <2> QED
    BY <1>0, <2>1, <2>2 DEF SameAt, Progress, ProgressAt, FailedAt, Publication, StrategyOf
<1>3. ASSUME NEW p \in Procs, Backtest(p) \/ Validate(p) \/ ListStrategies(p)
      PROVE  ProgressAt(p)'
  <2> USE DEF Shape, Progress, ProgressAt, At, Continue, Raise, Commands, Running
  <2>1. CASE ResolveConfig(p)
    <3>1. /\ UNCHANGED <<request, candles, result, report>> /\ pc[p] = "backtest"
          /\ candles[p] = NoCandles
      BY <2>1 DEF ResolveConfig, Ordered, OrderedAt
    <3>2. CASE pc'[p] = "alias"
      BY <3>1, <3>2
    <3>3. CASE pc'[p] = "failed" /\ raised'[p] \in {"another exception", "ConfigurationValidationError"}
      BY <3>1, <3>3, StoppedEarly DEF InputErrors
    <3> QED
      BY <2>1, <3>2, <3>3 DEF ResolveConfig
  <2>2. CASE ResolveAlias(p)
    <3>1. /\ UNCHANGED <<request, candles, result, report>> /\ pc[p] = "alias"
          /\ candles[p] = NoCandles
      BY <2>2 DEF ResolveAlias, AliasStep, Ordered, OrderedAt
    <3>2. CASE pc'[p] = "load"
      BY <3>1, <3>2
    <3>3. CASE pc'[p] = "failed" /\ raised'[p] = RegistryError
      BY <3>1, <3>3, StoppedEarly, ReadingRaises DEF InputErrors
    <3> QED
      BY <2>2, <3>2, <3>3 DEF ResolveAlias, AliasStep
  <2>3. CASE LoadData(p)
    <3>1. /\ UNCHANGED <<request, result, report>> /\ pc[p] = "load" /\ candles[p] = NoCandles
      BY <2>3 DEF LoadData, Ordered, OrderedAt
    <3>2. CASE pc'[p] = "identify"
      BY <3>1, <3>2
    <3>3. CASE pc'[p] = "failed" /\ raised'[p] = DataError(InputOf(p)) /\ candles' = candles
      BY <3>1, <3>3, StoppedEarly, ReadingRaises DEF InputErrors
    <3> QED
      BY <2>3, <3>2, <3>3 DEF LoadData
  <2>4. CASE HashInput(p)
    BY <2>4 DEF HashInput, FailedAt, InputErrors
  <2>5. CASE FindSource(p)
    <3>1. UNCHANGED <<request, config, candles, result, report, faults>> /\ pc[p] = "find"
      BY <2>5 DEF FindSource, bounds
    <3>2. CASE pc'[p] = "hash"
      BY <3>1, <3>2
    <3>3. CASE pc'[p] = "failed" /\ raised'[p] = "RunIdentityError"
      BY <3>1, <3>3, StoppedEarly DEF InputErrors
    <3>4. CASE pc'[p] = "failed" /\ raised'[p] = "another exception" /\ StrategyOf(p) \in Modules
      <4>1. config[p] # Unset /\ StrategyOf(p)' = StrategyOf(p)
        BY <3>1 DEF StrategyOf, Ordered, OrderedAt, HasConfig, Configured, Unset
      <4>2. request[p].command = "backtest" => FailedAt(p)'
        BY <3>1, <3>4, <4>1 DEF FailedAt, StoppedByInput, InputErrors
      <4> QED
        BY <3>1, <3>4, <4>2
    <3> QED
      <4> DEFINE absent == StrategyOf(p) = NoModule \/ SourceOf(p) = Absent
                 fails == IF absent THEN "import error"
                          ELSE IF StrategyOf(p) = Packaged THEN Behaviour[SourceOf(p)] ELSE "runs"
      <4>1. fails = "other import failure" => StrategyOf(p) \in Modules
        BY DEF Modules
      <4> HIDE DEF fails
      <4>2. \/ pc'[p] = "failed" /\ raised'[p] = "RunIdentityError"
            \/ fails = "other import failure" /\ pc'[p] = "failed" /\ raised'[p] = "another exception"
            \/ pc'[p] = "hash"
        BY <2>5 DEF FindSource, fails
      <4> QED
        BY <3>2, <3>3, <3>4, <4>1, <4>2
  <2>6. CASE HashSource(p)
    BY <2>6 DEF HashSource, FailedAt, InputErrors
  <2>7. CASE BuildSession(p)
    <3>1. SettingsAdmissible(config[p])
      <4>1. HasConfig(p)
        BY <2>7 DEF BuildSession, Ordered, OrderedAt, Configured
      <4>2. config[p] # Unset
        BY <4>1 DEF HasConfig, Unset
      <4> QED
        BY <4>2 DEF Admissible
    <3>2. UNCHANGED <<request, config, result, report, faults>> /\ pc[p] = "build"
      BY <2>7 DEF BuildSession, bounds
    <3>3. CASE Raise(p, "StrategyValidationError")
      BY <3>2, <3>3 DEF FailedAt, InputErrors
    <3>4. CASE StrategyLoads(p) /\ Continue(p, "run")
      <4>1. StrategyOf(p) \in {BuiltIn} \cup Modules
        BY <3>4 DEF StrategyLoads
      <4> QED
        BY <3>2, <3>4, <4>1 DEF StrategyOf
    <3> QED
      BY <2>7, <3>1, <3>3, <3>4 DEF BuildSession
  <2>8. CASE RunSession(p)
    <3>1. UNCHANGED <<request, config, candles, report, faults>> /\ pc[p] = "run"
      BY <2>8 DEF RunSession, bounds
    <3>2. CASE result' = result /\ Does(p) # {"runs"} /\ pc'[p] = "failed"
      <4>1. StrategyOf(p)' = StrategyOf(p) /\ config[p] # Unset
        BY <3>1 DEF StrategyOf, Ordered, OrderedAt, HasConfig, Configured, Unset
      <4>2. request[p].command = "backtest" => StoppedByInput(p)'
        BY <3>1, <3>2, <4>1 DEF StoppedByInput, Does
      <4>3. request[p].command = "backtest" => result'[p] = Unset /\ report'[p] = Unset
        BY <3>1, <3>2
      <4> QED
        BY <3>1, <3>2, <4>2, <4>3 DEF FailedAt
    <3>3. CASE pc'[p] = "report" /\ "candles" \in DOMAIN result'[p]
      <4>1. result'[p] # Unset
        BY <3>3 DEF Unset
      <4> QED
        BY <3>1, <3>3, <4>1
    <3>4. \/ result' = result /\ Does(p) # {"runs"} /\ pc'[p] = "failed"
          \/ pc'[p] = "report" /\ "candles" \in DOMAIN result'[p]
      <4>1. CASE Does(p) \cap {"callback raises", "invalid answer", "bar raises"} # {}
                 /\ result' = result /\ \E class : Raise(p, class)
        BY <4>1
      <4>2. CASE /\ Continue(p, "report")
                 /\ result' = [result EXCEPT ![p] =
                                 [candles |-> candles[p], code |-> code[p], config |-> config[p]]]
        <5>1. result'[p] = [candles |-> candles[p], code |-> code[p], config |-> config[p]]
          BY <4>2
        <5> QED
          BY <4>2, <5>1
      <4>3. \/ /\ Does(p) \cap {"callback raises", "invalid answer", "bar raises"} # {}
               /\ result' = result /\ \E class : Raise(p, class)
            \/ /\ Continue(p, "report")
               /\ result' = [result EXCEPT ![p] =
                               [candles |-> candles[p], code |-> code[p], config |-> config[p]]]
        BY <2>8 DEF RunSession
      <4> QED
        BY <4>1, <4>2, <4>3
    <3> QED
      BY <3>2, <3>3, <3>4
  <2>9. CASE WriteReport(p)
    <3>1. CASE NoFault /\ Continue(p, "print") /\ report' = [report EXCEPT ![p] = Publication(p)]
      BY <2>9, <3>1 DEF WriteReport, Publication
    <3>2. CASE Fault /\ report' = report
               /\ \E class \in {"ReportingError", "another exception"} : Raise(p, class)
      <4>1. faults' = faults + 1
        BY <3>2 DEF Fault
      <4>2. faults' # 0
        BY <4>1, FaultsGrow
      <4>3. PICK class \in {"ReportingError", "another exception"} : Raise(p, class)
        BY <3>2
      <4> QED
        <5>1. UNCHANGED <<request, result>> /\ report'[p] = report[p] /\ pc[p] = "report"
          BY <2>9, <3>2 DEF WriteReport
        <5>2. pc'[p] = "failed" /\ raised'[p] = class
          BY <4>3
        <5>3. request[p].command = "backtest" => FailedAt(p)'
          <6>1. request[p].command = "backtest" => report'[p] = Unset
            BY <5>1
          <6>2. raised'[p] \notin InputErrors
            BY <4>3, <5>2 DEF InputErrors
          <6> QED
            BY <4>2, <6>1, <6>2 DEF FailedAt
        <5> QED
          BY <5>1, <5>2, <5>3
    <3> QED
      BY <2>9, <3>1, <3>2 DEF WriteReport
  <2>10. CASE PrintSummary(p)
    <3>1. CASE NoFault /\ Continue(p, "done")
      BY <2>10, <3>1 DEF PrintSummary, Publication, locals
    <3>2. CASE Fault /\ Raise(p, "OSError")
      <4>1. faults' > 0
        BY <3>2 DEF Fault
      <4> QED
        BY <2>10, <3>2, <4>1 DEF PrintSummary, locals, FailedAt, InputErrors
    <3> QED
      BY <2>10, <3>1, <3>2 DEF PrintSummary
  <2>11. CASE Validate(p) \/ ListStrategies(p)
    BY <2>11 DEF Validate, ListStrategies, locals
  <2> QED
    BY <1>3, <2>1, <2>2, <2>3, <2>4, <2>5, <2>6, <2>7, <2>8, <2>9, <2>10, <2>11 DEF Backtest
<1> QED
  BY <1>1, <1>2, <1>3 DEF CommandNext, Progress

(* USER_GUIDE.md, "Exit codes": whether there is a report can be told from *)
(* the code main returns; and a run that ends with 1 although its report   *)
(* did not fail was stopped before the simulation was completed, by a file *)
(* that could not be looked at or decoded, by the user's module, or by     *)
(* candles and settings with which the built-in strategy cannot be run.    *)
THEOREM ExitCorrect == CommandSpec => []ExitMatchesReport
<1>1. CommandInit => Progress
  BY InitProgress
<1>2. Shape /\ Ordered /\ Admissible /\ Progress /\ [CommandNext]_commandVars => Progress'
  BY ProgressStep
<1>3. Progress => ExitMatchesReport
  <2> SUFFICES ASSUME Progress, NEW p \in Procs, pc[p] \in Ended, request[p].command = "backtest"
               PROVE  CASE ExitCode(p) = 0 -> report[p] = Publication(p) /\ result[p] # Unset
                        [] ExitCode(p) = 2 -> report[p] = Unset /\ result[p] = Unset
                        [] ExitCode(p) = 1 -> /\ report[p] # Unset => raised[p] = "OSError"
                                              /\ faults = 0 => result[p] = Unset /\ StoppedByInput(p)
    BY DEF ExitMatchesReport
  <2>1. CASE pc[p] = "done"
    <3>1. ExitCode(p) = 0 /\ report[p] = Publication(p) /\ result[p] # Unset
      BY <2>1 DEF Progress, ProgressAt, ExitCode, At
    <3> QED
      BY <3>1
  <2>2. CASE pc[p] = "failed" /\ raised[p] \in InputErrors
    <3>1. ExitCode(p) = 2 /\ report[p] = Unset /\ result[p] = Unset
      BY <2>2 DEF Progress, ProgressAt, FailedAt, ExitCode, At
    <3> QED
      BY <3>1
  <2>3. CASE pc[p] = "failed" /\ raised[p] \notin InputErrors
    <3>1. ExitCode(p) = 1
      BY <2>3 DEF ExitCode, At
    <3>2. /\ report[p] # Unset => raised[p] = "OSError"
          /\ faults = 0 => result[p] = Unset /\ StoppedByInput(p)
      BY <2>3 DEF Progress, ProgressAt, FailedAt
    <3> QED
      BY <3>1, <3>2
  <2> QED
    BY <2>1, <2>2, <2>3 DEF Ended
<1> QED
  BY <1>1, <1>2, <1>3, AdmissibleAlways, PTL DEF CommandSpec

-----------------------------------------------------------------------------
(* What a fingerprint says.                                                *)

(* The identity of an undisturbed run determines what the run was given,   *)
(* but for the helper.                                                     *)
Covered(p) ==
  /\ candles[p] = CandlesIn[identity[p].input]
  /\ StrategyOf(p) \in Modules => identity[p].source = code[p].module
  /\ StrategyOf(p) \notin Modules => identity[p].source = Absent /\ code[p] = NotImported

(* While no file changes, what was read is what the files hold. *)
FreshAt(p) ==
  /\ pc[p] \in {"identify", "find", "hash", "build"} => candles[p] = CandlesIn[InputOf(p)]
  /\ pc[p] \in {"find", "hash", "build"} => identity[p].input = InputOf(p)
  /\ pc[p] \in {"hash", "build"} =>
       IF StrategyOf(p) = Packaged THEN code[p].module = SourceOf(p) ELSE code[p] = NotImported
  /\ pc[p] = "build" =>
       identity[p].source = IF StrategyOf(p) \in Modules THEN SourceOf(p) ELSE Absent

(* How the records are filled, one field after the other. *)
FilledAt(p) ==
  /\ pc[p] \in {"backtest", "alias", "load", "identify"} => identity[p] = NoIdentity
  /\ pc[p] \in {"find", "hash"} =>
       identity[p] = [input |-> identity[p].input, source |-> Absent, config |-> config[p]]
  /\ pc[p] \in {"build", "run", "report"} \/ report[p] # Unset =>
       identity[p] = [input |-> identity[p].input, source |-> identity[p].source, config |-> config[p]]
  /\ code[p] = [module |-> code[p].module, helper |-> code[p].helper]
  /\ pc[p] = "find" => code[p] = NotImported /\ StrategyOf(p) \in References
  /\ pc[p] = "hash" => StrategyOf(p) \in Modules
  /\ pc[p] = "report" \/ report[p] # Unset =>
       result[p] = [candles |-> candles[p], code |-> code[p], config |-> config[p]]
  /\ pc[p] \in Running \cup {"report"} => report[p] = Unset
  /\ report[p] # Unset => report[p] = Publication(p)

CoveredWhen(p) == pc[p] \in {"run", "report"} \/ report[p] # Unset => Covered(p)
FilledFresh(p) == FilledAt(p) /\ (~disturbed[p] => FreshAt(p) /\ CoveredWhen(p))
Fingerprinted == \A p \in Procs : FilledFresh(p)

(* Nothing is hashed yet. *)
LEMMA InitFingerprinted == CommandInit => Fingerprinted
<1> SUFFICES ASSUME CommandInit, NEW p \in Procs PROVE FilledFresh(p)
  BY DEF Fingerprinted
<1>1. /\ pc[p] \in Commands /\ identity[p] = NoIdentity /\ report[p] = Unset
      /\ code[p] = [module |-> code[p].module, helper |-> code[p].helper]
  BY CommandLineAssumption DEF CommandInit, NotImported
<1> QED
  BY <1>1 DEF FilledFresh, FilledAt, FreshAt, CoveredWhen, Commands

(* HashInput fills two of the three fields. *)
LEMMA InputHashed ==
  ASSUME Shape, NEW p \in Procs, HashInput(p), identity[p] = NoIdentity, pc'[p] # "failed"
  PROVE  identity'[p] = [input |-> InputOf(p), source |-> Absent, config |-> config[p]]
<1> DEFINE g == [identity EXCEPT ![p].input = InputOf(p)]
<1>1. identity' = [g EXCEPT ![p].config = config[p]]
  BY DEF HashInput, Raise, Shape
<1>2. g[p] = [input |-> InputOf(p), source |-> Absent, config |-> Unset] /\ p \in DOMAIN g
  BY DEF NoIdentity, Shape
<1> HIDE DEF g
<1> QED
  BY <1>1, <1>2

(* Every step keeps the fingerprints. *)
LEMMA FingerprintedStep ==
  ASSUME Shape, Ordered, Fingerprinted, [CommandNext]_commandVars
  PROVE  Fingerprinted'
<1> USE DEF Fingerprinted, FilledFresh
<1>1. CASE UNCHANGED commandVars
  BY <1>1 DEF commandVars, files, locals, bounds, FilledAt, FreshAt, CoveredWhen, Covered, StrategyOf,
     InputOf, SourceOf, Publication
<1>2. CASE Edit
  <2> SUFFICES ASSUME NEW p \in Procs PROVE FilledFresh(p)'
    OBVIOUS
  <2>1. UNCHANGED <<pc, request, config, candles, identity, code, result, report>>
    BY <1>2 DEF Edit, locals
  <2>2. FilledAt(p)' /\ (CoveredWhen(p) => CoveredWhen(p)')
    BY <2>1 DEF FilledAt, CoveredWhen, Covered, StrategyOf, Publication
  <2>3. ~disturbed'[p] => ~disturbed[p] /\ pc[p] \in Ended \cup Commands
    BY <1>2 DEF Edit, Shape
  <2>4. pc[p] \in Ended \cup Commands => FreshAt(p)'
    BY <2>1 DEF FreshAt, Ended, Commands
  <2> QED
    BY <2>2, <2>3, <2>4
<1>3. ASSUME NEW p \in Procs, Backtest(p) \/ Validate(p) \/ ListStrategies(p)
      PROVE  Fingerprinted'
  <2>0. UNCHANGED files /\ UNCHANGED disturbed
    BY <1>3 DEF Backtest, ResolveConfig, ResolveAlias, AliasStep, LoadData, HashInput, FindSource,
       HashSource, BuildSession, RunSession, WriteReport, PrintSummary, Validate, ListStrategies, bounds,
       NoFault, Fault
  <2>1. ASSUME NEW q \in Procs, q # p
        PROVE  FilledFresh(q)'
    <3>1. SameAt(q) /\ disturbed' = disturbed
      BY <1>3, <2>0, <2>1, OthersStay
    <3>2. FilledAt(q)'
      BY <3>1, SMTT(20) DEF SameAt, FilledAt, StrategyOf, Publication
    <3>3. CoveredWhen(q) => CoveredWhen(q)'
      BY <3>1 DEF SameAt, CoveredWhen, Covered, StrategyOf
    <3>4. FreshAt(q) => FreshAt(q)'
      <4>1. InputOf(q)' = InputOf(q) /\ SourceOf(q)' = SourceOf(q) /\ StrategyOf(q)' = StrategyOf(q)
        BY <2>0, <3>1 DEF SameAt, files, InputOf, SourceOf, StrategyOf
      <4> QED
        BY <3>1, <4>1 DEF SameAt, FreshAt
    <3> QED
      BY <3>1, <3>2, <3>3, <3>4
  <2>2. FilledFresh(p)'
    <3> USE DEF Shape, FilledAt, FreshAt, CoveredWhen, At, Continue, Raise, Running
    <3>1. CASE ResolveConfig(p)
      BY <2>0, <3>1 DEF ResolveConfig
    <3>2. CASE ResolveAlias(p)
      BY <2>0, <3>2 DEF ResolveAlias, AliasStep
    <3>3. CASE LoadData(p)
      BY <2>0, <3>3 DEF LoadData, InputOf, files
    <3>4. CASE HashInput(p)
      <4>1. UNCHANGED <<request, config, candles, code, result, report>> /\ pc[p] = "identify"
        BY <3>4 DEF HashInput
      <4>2. InputOf(p)' = InputOf(p) /\ SourceOf(p)' = SourceOf(p) /\ StrategyOf(p)' = StrategyOf(p)
        BY <2>0, <4>1 DEF files, InputOf, SourceOf, StrategyOf
      <4>3. CASE pc'[p] = "failed"
        BY <4>1, <4>3
      <4>4. CASE /\ identity' = [identity EXCEPT ![p].input = InputOf(p), ![p].config = config[p]]
                 /\ pc'[p] = IF StrategyOf(p) \in References THEN "find" ELSE "build"
        <5>1. identity'[p] = [input |-> InputOf(p), source |-> Absent, config |-> config[p]]
          BY <3>4, <4>1, <4>4, InputHashed
        <5>2. code[p] = NotImported
          BY <4>1 DEF Ordered, OrderedAt
        <5>3. StrategyOf(p) \notin References => StrategyOf(p) \notin Modules /\ StrategyOf(p) # Packaged
          BY DEF References, Modules
        <5>4. report[p] = Unset /\ pc'[p] \in {"find", "build"} /\ UNCHANGED disturbed
          BY <2>0, <4>1, <4>4
        <5>5. FilledAt(p)'
          <6>1. pc'[p] = "find" => StrategyOf(p)' \in References
            BY <4>1, <4>2, <4>4
          <6>2. identity'[p] = [input |-> identity'[p].input, source |-> Absent, config |-> config'[p]]
            BY <4>1, <5>1
          <6> QED
            BY <4>1, <5>1, <5>2, <5>4, <6>1, <6>2
        <5>6. ~disturbed[p] => FreshAt(p)'
          <6>1. ~disturbed[p] => candles'[p] = CandlesIn[InputOf(p)']
            BY <4>1, <4>2
          <6>2. identity'[p].input = InputOf(p)' /\ identity'[p].source = Absent
            BY <4>2, <5>1
          <6>3. pc'[p] = "build" => StrategyOf(p)' \notin Modules /\ StrategyOf(p)' # Packaged
            BY <4>1, <4>2, <4>4, <5>3
          <6> QED
            BY <4>1, <5>2, <5>4, <6>1, <6>2, <6>3
        <5>7. CoveredWhen(p)'
          BY <4>1, <5>4
        <5> QED
          BY <5>4, <5>5, <5>6, <5>7
      <4> QED
        BY <3>4, <4>3, <4>4 DEF HashInput
    <3>5. CASE FindSource(p)
      <4>1. UNCHANGED <<request, config, candles, identity, result, report>> /\ pc[p] = "find"
        BY <3>5 DEF FindSource
      <4>2. InputOf(p)' = InputOf(p) /\ SourceOf(p)' = SourceOf(p) /\ StrategyOf(p)' = StrategyOf(p)
        BY <2>0, <4>1 DEF files, InputOf, SourceOf, StrategyOf
      <4>3. CASE pc'[p] = "failed" /\ code' = code
        BY <4>1, <4>3
      <4>4. CASE /\ pc'[p] = "hash" /\ StrategyOf(p) \in Modules
                 /\ IF StrategyOf(p) = Packaged THEN Import(p) ELSE UNCHANGED code
        <5>0. code[p] = NotImported
          BY <4>1
        <5>1. IF StrategyOf(p) = Packaged
              THEN code'[p] = [module |-> SourceOf(p), helper |-> helper] ELSE code'[p] = NotImported
          BY <4>4, <5>0 DEF Import
        <5>2. code'[p] = [module |-> code'[p].module, helper |-> code'[p].helper]
          BY <5>1 DEF NotImported
        <5> QED
          BY <2>0, <4>1, <4>2, <4>4, <5>1, <5>2
      <4>5. pc'[p] = "hash" => StrategyOf(p) \in Modules
        BY <3>5, <4>1 DEF FindSource, References
      <4> QED
        BY <3>5, <4>3, <4>4, <4>5 DEF FindSource
    <3>6. CASE HashSource(p)
      BY <2>0, <3>6 DEF HashSource, InputOf, StrategyOf, SourceOf, files
    <3>7. CASE BuildSession(p)
      <4>1. UNCHANGED <<request, config, candles, identity, result, report>> /\ pc[p] = "build"
            /\ StrategyOf(p)' = StrategyOf(p)
        BY <3>7 DEF BuildSession, StrategyOf
      <4>2. code'[p] = [module |-> code'[p].module, helper |-> code'[p].helper]
        BY <3>7 DEF BuildSession, Import
      <4>3. CASE pc'[p] = "failed"
        BY <4>1, <4>2, <4>3
      <4>4. CASE pc'[p] = "run" /\ StrategyLoads(p)
                 /\ IF StrategyOf(p) = Plain THEN Import(p) ELSE UNCHANGED code
        <5>1. ASSUME ~disturbed[p]
              PROVE  Covered(p)'
          <6>1. candles'[p] = CandlesIn[identity'[p].input]
            BY <4>1, <5>1
          <6>2. CASE StrategyOf(p) \in Modules
            <7>1. code'[p].module = SourceOf(p)
              BY <4>1, <4>4, <5>1, <6>2 DEF Import, Modules
            <7> QED
              BY <4>1, <5>1, <6>1, <6>2, <7>1 DEF Covered
          <6>3. CASE StrategyOf(p) \notin Modules
            <7>1. code'[p] = NotImported
              BY <4>1, <4>4, <5>1, <6>3 DEF Modules
            <7> QED
              BY <4>1, <5>1, <6>1, <6>3, <7>1 DEF Covered
          <6> QED
            BY <6>2, <6>3
        <5> QED
          BY <2>0, <4>1, <4>2, <4>4, <5>1
      <4> QED
        BY <3>7, <4>3, <4>4 DEF BuildSession, StrategyLoads, SourceOf, StrategyOf
    <3>8. CASE RunSession(p)
      <4>1. UNCHANGED <<request, config, candles, identity, code, report>> /\ pc[p] = "run"
        BY <3>8 DEF RunSession
      <4>2. \/ pc'[p] = "failed"
            \/ /\ pc'[p] = "report"
               /\ result'[p] = [candles |-> candles[p], code |-> code[p], config |-> config[p]]
        BY <3>8 DEF RunSession
      <4>3. FilledAt(p)'
        BY <4>1, <4>2
      <4>4. CoveredWhen(p) => CoveredWhen(p)'
        BY <4>1 DEF Covered, StrategyOf
      <4>5. FreshAt(p)'
        BY <4>2
      <4> QED
        BY <2>0, <4>3, <4>4, <4>5
    <3>9. CASE WriteReport(p)
      <4>1. UNCHANGED <<request, config, candles, identity, code, result>> /\ pc[p] = "report"
            /\ (report' = report \/ report'[p] = Publication(p)) /\ Publication(p)' = Publication(p)
        BY <3>9 DEF WriteReport, Publication
      <4>2. pc'[p] \in {"print", "failed"}
        BY <3>9 DEF WriteReport
      <4>3. FilledAt(p)'
        BY <4>1, <4>2
      <4>4. CoveredWhen(p) => CoveredWhen(p)'
        BY <4>1 DEF Covered, StrategyOf
      <4>5. FreshAt(p)'
        BY <4>2
      <4> QED
        BY <2>0, <4>3, <4>4, <4>5
    <3>10. CASE PrintSummary(p) \/ Validate(p) \/ ListStrategies(p)
      <4>1. UNCHANGED <<request, config, candles, identity, code, result, report>>
            /\ pc'[p] \in {"print", "done", "failed"}
        BY <3>10 DEF PrintSummary, Validate, ListStrategies, locals
      <4>2. CoveredWhen(p) => CoveredWhen(p)'
        BY <4>1 DEF Covered, StrategyOf
      <4> QED
        BY <2>0, <4>1, <4>2 DEF Publication
    <3> QED
      BY <1>3, <3>1, <3>2, <3>3, <3>4, <3>5, <3>6, <3>7, <3>8, <3>9, <3>10 DEF Backtest
  <2> QED
    BY <2>1, <2>2
<1> QED
  BY <1>1, <1>2, <1>3 DEF CommandNext

(* USER_GUIDE.md:207: two runs that no edit disturbed and that have one    *)
(* fingerprint have one result, provided that their strategies imported    *)
(* the same helper; and one result from one input has one fingerprint,     *)
(* however the strategy was named.  The proviso is needed: see the finding *)
(* of the run Identity.                                                    *)
THEOREM FingerprintCorrect == CommandSpec => []FingerprintIdentifiesRun
<1>1. Fingerprinted => FingerprintIdentifiesRun
  <2> SUFFICES ASSUME Fingerprinted, NEW p \in Procs, Undisturbed(p), NEW q \in Procs, Undisturbed(q)
               PROVE  LET a == report[p]
                          b == report[q]
                      IN /\ a.identity = b.identity /\ a.result.code.helper = b.result.code.helper =>
                              a.result = b.result
                         /\ a.result = b.result /\ a.identity.input = b.identity.input =>
                              a.identity = b.identity
    BY DEF FingerprintIdentifiesRun
  <2>1. ASSUME NEW r \in {p, q}
        PROVE  /\ report[r].identity = identity[r] /\ report[r].result = result[r]
               /\ identity[r] = [input |-> identity[r].input, source |-> identity[r].source,
                                 config |-> config[r]]
               /\ code[r] = [module |-> code[r].module, helper |-> code[r].helper]
               /\ result[r] = [candles |-> candles[r], code |-> code[r], config |-> config[r]]
               /\ Covered(r)
    <3>1. r \in Procs /\ report[r] # Unset /\ ~disturbed[r]
      BY <2>1 DEF Undisturbed
    <3>2. FilledAt(r) /\ Covered(r)
      BY <3>1 DEF Fingerprinted, FilledFresh, CoveredWhen
    <3>3. report[r] = Publication(r)
      BY <3>1, <3>2 DEF FilledAt
    <3>4. report[r].identity = identity[r] /\ report[r].result = result[r]
      BY <3>3 DEF Publication
    <3> QED
      BY <3>1, <3>2, <3>4 DEF FilledAt
  <2>2. config[p] = config[q] => StrategyOf(p) = StrategyOf(q)
    BY DEF StrategyOf
  <2>3. ASSUME identity[p] = identity[q], code[p].helper = code[q].helper
        PROVE  result[p] = result[q]
    <3>1. config[p] = config[q] /\ identity[p].source = identity[q].source
          /\ identity[p].input = identity[q].input
      BY <2>1, <2>3
    <3>2. candles[p] = candles[q] /\ code[p] = code[q]
      BY <2>1, <2>2, <2>3, <3>1 DEF Covered
    <3> QED
      BY <2>1, <3>1, <3>2
  <2>4. ASSUME result[p] = result[q], identity[p].input = identity[q].input
        PROVE  identity[p] = identity[q]
    <3>1. config[p] = config[q] /\ code[p] = code[q]
      BY <2>1, <2>4
    <3>2. identity[p].source = identity[q].source
      BY <2>1, <2>2, <3>1 DEF Covered
    <3> QED
      BY <2>1, <2>4, <3>1, <3>2
  <2> QED
    BY <2>1, <2>3, <2>4
<1>2. CommandInit => Fingerprinted
  BY InitFingerprinted
<1>3. Shape /\ Ordered /\ Fingerprinted /\ [CommandNext]_commandVars => Fingerprinted'
  BY FingerprintedStep
<1> QED
  BY <1>1, <1>2, <1>3, OrderedAlways, PTL DEF CommandSpec

-----------------------------------------------------------------------------
(* What a request asks for is what runs. *)

(* The mapping with the options set in it. *)
LEMMA OptionsAreSet ==
  ASSUME NEW mapping, NEW options, DOMAIN options \subseteq Keys
  PROVE  LET set == Overridden(mapping, options)
             touched == {SectionOf(k) : k \in DOMAIN options}
         IN /\ DOMAIN set = DOMAIN mapping \cup touched
            /\ \A s \in touched : set[s].table
            /\ \A s \in DOMAIN mapping \ touched : set[s] = mapping[s]
            /\ \A s \in ClosedSections :
                 DOMAIN Entries(set, s) = DOMAIN Entries(mapping, s) \cup (DOMAIN options \cap ClosedKeys[s])
            /\ \A k \in Keys : Setting(set, k) = IF k \in DOMAIN options THEN options[k]
                                                 ELSE Setting(mapping, k)
<1> DEFINE set == Overridden(mapping, options)
           touched == {SectionOf(k) : k \in DOMAIN options}
           given(s) == [k \in DOMAIN options \cap ClosedKeys[s] |-> options[k]]
           changes == [s \in touched |-> Table(Updated(Entries(mapping, s), given(s)))]
<1>1. set = Updated(mapping, changes)
  BY DEF Overridden
<1>2. DOMAIN changes = touched
  OBVIOUS
<1>3. \A s \in touched : changes[s].table /\ changes[s].entries = Updated(Entries(mapping, s), given(s))
  BY DEF Table
<1>4. \A s : /\ DOMAIN Updated(Entries(mapping, s), given(s)) =
                  DOMAIN Entries(mapping, s) \cup (DOMAIN options \cap ClosedKeys[s])
             /\ \A k \in DOMAIN Entries(mapping, s) \cup (DOMAIN options \cap ClosedKeys[s]) :
                  Updated(Entries(mapping, s), given(s))[k] =
                    IF k \in DOMAIN options \cap ClosedKeys[s] THEN options[k] ELSE Entries(mapping, s)[k]
  BY DEF Updated
<1> HIDE DEF set, changes
<1>5. /\ DOMAIN set = DOMAIN mapping \cup touched
      /\ \A s \in touched : set[s] = changes[s]
      /\ \A s \in DOMAIN mapping \ touched : set[s] = mapping[s]
  BY <1>1, <1>2 DEF Updated
<1>6. ASSUME NEW s \in ClosedSections
      PROVE  /\ DOMAIN Entries(set, s) = DOMAIN Entries(mapping, s) \cup (DOMAIN options \cap ClosedKeys[s])
             /\ \A k \in DOMAIN Entries(set, s) :
                  Entries(set, s)[k] = IF k \in DOMAIN options \cap ClosedKeys[s] THEN options[k]
                                       ELSE Entries(mapping, s)[k]
  <2>1. CASE s \in touched
    <3>1. Entries(set, s) = Updated(Entries(mapping, s), given(s))
      BY <1>3, <1>5, <2>1 DEF Entries
    <3> HIDE DEF given
    <3> QED
      BY <1>4, <3>1
  <2>2. CASE s \notin touched
    <3>1. Entries(set, s) = Entries(mapping, s)
      BY <1>5, <2>2 DEF Entries
    <3>2. DOMAIN options \cap ClosedKeys[s] = {}
      BY <2>2, KeyHasSection
    <3> QED
      BY <3>1, <3>2
  <2> QED
    BY <2>1, <2>2
<1>7. ASSUME NEW k \in Keys
      PROVE  Setting(set, k) = IF k \in DOMAIN options THEN options[k] ELSE Setting(mapping, k)
  <2> DEFINE s == SectionOf(k)
  <2>1. s \in ClosedSections /\ k \in ClosedKeys[s]
    BY KeyHasSection
  <2> HIDE DEF s
  <2>2. k \in DOMAIN Entries(set, s) <=> k \in DOMAIN options \/ k \in DOMAIN Entries(mapping, s)
    BY <1>6, <2>1
  <2>3. k \in DOMAIN Entries(set, s) =>
          Entries(set, s)[k] = IF k \in DOMAIN options THEN options[k] ELSE Entries(mapping, s)[k]
    BY <1>6, <2>1
  <2> QED
    BY <2>2, <2>3 DEF Setting, s
<1> HIDE DEF touched
<1>8. \A s \in touched : set[s].table
  BY <1>3, <1>5
<1> QED
  BY <1>5, <1>6, <1>7, <1>8 DEF set, touched

(* A mapping as the documentation of the file wants it. *)
WellFormed(mapping) ==
  \A s \in DOMAIN mapping :
    /\ s \in AllowedSections /\ mapping[s].table
    /\ \A k \in DOMAIN mapping[s].entries :
         IF s \in ClosedSections THEN k \in ClosedKeys[s]
         ELSE mapping[s].entries[k].kind # "infinite"

(* The checks of the options and those of the mapping they were set in     *)
(* come to this: the mapping is as documented, and so is every value that  *)
(* is left.                                                                *)
LEMMA ChecksPass ==
  ASSUME NEW mapping, NEW options, DOMAIN options \subseteq Keys
  PROVE  LET set == Overridden(mapping, options)
         IN (/\ FirstFailing(OverrideChecks(mapping, options)) = "NONE"
             /\ FirstFailing(MappingChecks(set)) = "NONE") <=>
              /\ WellFormed(mapping)
              /\ RequiredKeys \subseteq DOMAIN Entries(set, "run")
              /\ ~RunConfigInvalid(set)
<1> DEFINE set == Overridden(mapping, options)
           touched == {SectionOf(k) : k \in DOMAIN options}
           OptionsSound == \A k \in DOMAIN options : OptionSound(mapping, options, k)
<1>1. /\ DOMAIN set = DOMAIN mapping \cup touched
      /\ \A s \in touched : set[s].table
      /\ \A s \in DOMAIN mapping \ touched : set[s] = mapping[s]
      /\ \A s \in ClosedSections :
           DOMAIN Entries(set, s) = DOMAIN Entries(mapping, s) \cup (DOMAIN options \cap ClosedKeys[s])
      /\ \A k \in Keys : Setting(set, k) = IF k \in DOMAIN options THEN options[k]
                                           ELSE Setting(mapping, k)
  BY OptionsAreSet
<1>2. touched \subseteq ClosedSections
  BY KeyHasSection
<1>3. AllowedSections = ClosedSections \cup {"strategy", "metadata"} /\ "run" \in ClosedSections
      /\ "strategy" \notin ClosedSections /\ "metadata" \notin ClosedSections
  BY DEF AllowedSections, ClosedSections, ClosedKeys
<1>4. (/\ FirstFailing(OverrideChecks(mapping, options)) = "NONE"
       /\ FirstFailing(MappingChecks(set)) = "NONE") <=> OptionsSound /\ MappingSound(set)
  BY OverridesClean, MappingClean
<1> HIDE DEF set
<1>5. ASSUME OptionsSound, MappingSound(set)
      PROVE  WellFormed(mapping)
  <2> SUFFICES ASSUME NEW s \in DOMAIN mapping
               PROVE  /\ s \in AllowedSections /\ mapping[s].table
                      /\ \A k \in DOMAIN mapping[s].entries :
                           IF s \in ClosedSections THEN k \in ClosedKeys[s]
                           ELSE mapping[s].entries[k].kind # "infinite"
    BY DEF WellFormed
  <2>1. s \in AllowedSections
    BY <1>1, <1>5 DEF MappingSound
  <2>2. mapping[s].table
    <3>1. CASE s \in touched
      <4>1. PICK k \in DOMAIN options : s = SectionOf(k)
        BY <3>1
      <4> QED
        BY <1>5, <4>1 DEF OptionSound
    <3>2. CASE s \notin touched
      BY <1>1, <1>5, <3>2 DEF MappingSound
    <3> QED
      BY <3>1, <3>2
  <2>3. ASSUME NEW k \in DOMAIN mapping[s].entries, s \in ClosedSections
        PROVE  k \in ClosedKeys[s]
    BY <1>1, <1>5, <2>3 DEF MappingSound, Entries
  <2>4. ASSUME NEW k \in DOMAIN mapping[s].entries, s \notin ClosedSections
        PROVE  mapping[s].entries[k].kind # "infinite"
    <3>1. s \in {"strategy", "metadata"} /\ s \notin touched
      BY <1>2, <1>3, <2>1, <2>4
    <3>2. set[s] = mapping[s] /\ s \in DOMAIN set
      BY <1>1, <3>1
    <3>3. Finite(set, s)
      BY <1>5, <3>1 DEF MappingSound
    <3> QED
      BY <2>4, <3>2, <3>3 DEF Finite, Entries
  <2> QED
    BY <2>1, <2>2, <2>3, <2>4
<1>6. ASSUME WellFormed(mapping), RequiredKeys \subseteq DOMAIN Entries(set, "run"),
             ~RunConfigInvalid(set)
      PROVE  OptionsSound /\ MappingSound(set)
  <2>1. ASSUME NEW k \in DOMAIN options
        PROVE  OptionSound(mapping, options, k)
    <3>1. k \in Keys /\ Setting(set, k) = options[k]
      BY <1>1
    <3>2. ~SettingInvalid(k, options[k])
      BY <1>6, <3>1 DEF RunConfigInvalid
    <3> QED
      BY <1>6, <3>2 DEF OptionSound, OverrideInvalid, SettingInvalid, WellFormed
  <2>2. DOMAIN set \subseteq AllowedSections
    BY <1>1, <1>2, <1>3, <1>6 DEF WellFormed
  <2>3. "run" \in DOMAIN set
    BY <1>6 DEF RequiredKeys, Entries
  <2>4. \A s \in DOMAIN set : set[s].table
    BY <1>1, <1>6 DEF WellFormed
  <2>5. \A s \in ClosedSections : DOMAIN Entries(set, s) \subseteq ClosedKeys[s]
    <3>1. \A s \in ClosedSections : DOMAIN Entries(mapping, s) \subseteq ClosedKeys[s]
      BY <1>6 DEF WellFormed, Entries
    <3> QED
      BY <1>1, <3>1
  <2>6. ASSUME NEW s \in {"strategy", "metadata"}
        PROVE  Finite(set, s)
    <3>1. s \notin touched /\ s \notin ClosedSections
      BY <1>2, <1>3
    <3>2. s \in DOMAIN set => s \in DOMAIN mapping /\ set[s] = mapping[s]
      BY <1>1, <3>1
    <3> QED
      BY <1>6, <3>1, <3>2 DEF Finite, Entries, WellFormed
  <2> QED
    BY <1>6, <2>1, <2>2, <2>3, <2>4, <2>5, <2>6 DEF MappingSound
<1>7. MappingSound(set) => RequiredKeys \subseteq DOMAIN Entries(set, "run") /\ ~RunConfigInvalid(set)
  BY DEF MappingSound
<1> QED
  BY <1>4, <1>5, <1>6, <1>7 DEF set

(* What RunConfig refuses is what the guide does not allow. *)
LEMMA UsableIsValid ==
  ASSUME NEW k \in Keys, NEW value, IsValue(value)
  PROVE  Usable(k, value) <=> ~SettingInvalid(k, value)
<1>1. /\ MaxSlippageBps \in Nat
      /\ Keys = {"data_path", "strategy", "initial_cash", "default_quantity", "allow_short",
                 "commission_bps", "slippage_bps", "max_position_quantity", "max_drawdown_pct"}
      /\ NumberKeys = {"initial_cash", "default_quantity", "commission_bps", "slippage_bps",
                       "max_position_quantity", "max_drawdown_pct"}
  BY CommandLineAssumption
  DEF Keys, NumberKeys, RunKeys, ExecutionKeys, RiskKeys, TextKeys, BooleanKeys
<1> USE DEF Usable, SettingInvalid, TextKeys, BooleanKeys, NonNegativeKeys
<1>2. CASE k \in {"data_path", "strategy", "allow_short"}
  BY <1>1, <1>2
<1>3. ASSUME k \in NumberKeys
      PROVE  SettingInvalid(k, value) <=> /\ ~(k = "max_drawdown_pct" /\ value = None)
                                          /\ (value.kind # "number" \/ OutOfRange(k, value.number))
  BY <1>1, <1>3 DEF NotANumber
<1>4. value.kind = "number" => value.number \in Int
  BY DEF IsValue
<1> HIDE DEF SettingInvalid
<1>5. CASE k \in {"initial_cash", "default_quantity", "max_position_quantity"}
  BY <1>1, <1>3, <1>4, <1>5 DEF OutOfRange
<1>6. CASE k = "commission_bps"
  BY <1>1, <1>3, <1>4, <1>6 DEF OutOfRange
<1>7. CASE k = "slippage_bps"
  BY <1>1, <1>3, <1>4, <1>7 DEF OutOfRange
<1>8. CASE k = "max_drawdown_pct"
  BY <1>1, <1>3, <1>4, <1>8 DEF OutOfRange
<1> QED
  BY <1>1, <1>2, <1>5, <1>6, <1>7, <1>8

(* The mapping of a request with its options set, when there is one. *)
SettingsOf(r) == Overridden(Given(r), LeftOptions(r))

(* Their keys and values. *)
LEMMA OptionsLeft ==
  ASSUME NEW r, IsRequest(r)
  PROVE  /\ DOMAIN LeftOptions(r) = DOMAIN r.options \ Popped(r)
         /\ DOMAIN LeftOptions(r) \subseteq Keys
         /\ \A k \in DOMAIN LeftOptions(r) : LeftOptions(r)[k] = r.options[k]
BY DEF LeftOptions, IsRequest

(* Without a file, the options and the defaults of the command line. *)
LEMMA TablesOfCommandLine ==
  ASSUME NEW r, r.file = NoFile, TextKeys \subseteq DOMAIN r.options
  PROVE  /\ WellFormed(Given(r)) /\ RequiredKeys \subseteq DOMAIN Entries(Given(r), "run")
         /\ \A k \in TextKeys : Setting(Given(r), k) = r.options[k]
         /\ \A k \in Keys \ TextKeys : k \in DOMAIN Documented(r) /\ Setting(Given(r), k) = Documented(r)[k]
<1> DEFINE g == Given(r)
<1>1. g = CommandLineTables(r.options)
  BY DEF Given
<1>2. /\ DOMAIN g = {"run", "execution", "risk"}
      /\ g["run"].table /\ DOMAIN g["run"].entries = RunKeys
      /\ g["run"].entries["data_path"] = r.options["data_path"]
      /\ g["run"].entries["strategy"] = r.options["strategy"]
      /\ g["run"].entries["initial_cash"] = Number(10000)
      /\ g["run"].entries["default_quantity"] = Number(1)
      /\ g["run"].entries["allow_short"] = Default["allow_short"]
      /\ g["execution"].table /\ DOMAIN g["execution"].entries = ExecutionKeys
      /\ g["execution"].entries["commission_bps"] = Number(0)
      /\ g["execution"].entries["slippage_bps"] = Number(0)
      /\ g["risk"].table /\ DOMAIN g["risk"].entries = RiskKeys
      /\ g["risk"].entries["max_position_quantity"] = Number(1)
      /\ g["risk"].entries["max_drawdown_pct"] = None
  <2> DEFINE run == [data_path |-> r.options["data_path"], strategy |-> r.options["strategy"],
                     initial_cash |-> Number(10000), default_quantity |-> Number(1),
                     allow_short |-> Boolean(TRUE)]
             execution == [commission_bps |-> Number(0), slippage_bps |-> Number(0)]
             risk == [max_position_quantity |-> Number(1), max_drawdown_pct |-> None]
  <2>1. g = [run |-> Table(run), execution |-> Table(execution), risk |-> Table(risk)]
    BY <1>1 DEF CommandLineTables
  <2>2. DOMAIN run = RunKeys /\ DOMAIN execution = ExecutionKeys /\ DOMAIN risk = RiskKeys
    BY DEF RunKeys, ExecutionKeys, RiskKeys
  <2>3. /\ run["data_path"] = r.options["data_path"] /\ run["strategy"] = r.options["strategy"]
        /\ run["initial_cash"] = Number(10000) /\ run["default_quantity"] = Number(1)
        /\ run["allow_short"] = Default["allow_short"]
        /\ execution["commission_bps"] = Number(0) /\ execution["slippage_bps"] = Number(0)
        /\ risk["max_position_quantity"] = Number(1) /\ risk["max_drawdown_pct"] = None
    BY DEF Default
  <2> HIDE DEF run, execution, risk, g
  <2>4. DOMAIN g = {"run", "execution", "risk"}
    BY <2>1
  <2>5. g["run"] = Table(run) /\ g["execution"] = Table(execution) /\ g["risk"] = Table(risk)
    BY <2>1
  <2>6. \A e : Table(e).table /\ Table(e).entries = e
    BY DEF Table
  <2>7. /\ g["run"].table /\ g["run"].entries = run /\ g["execution"].table
        /\ g["execution"].entries = execution /\ g["risk"].table /\ g["risk"].entries = risk
    BY <2>5, <2>6
  <2>8. /\ DOMAIN g["run"].entries = RunKeys /\ DOMAIN g["execution"].entries = ExecutionKeys
        /\ DOMAIN g["risk"].entries = RiskKeys
    BY <2>2, <2>7
  <2>9. /\ g["run"].entries["data_path"] = r.options["data_path"]
        /\ g["run"].entries["strategy"] = r.options["strategy"]
        /\ g["run"].entries["initial_cash"] = Number(10000)
        /\ g["run"].entries["default_quantity"] = Number(1)
        /\ g["run"].entries["allow_short"] = Default["allow_short"]
    BY <2>3, <2>7
  <2>10. /\ g["execution"].entries["commission_bps"] = Number(0)
         /\ g["execution"].entries["slippage_bps"] = Number(0)
         /\ g["risk"].entries["max_position_quantity"] = Number(1)
         /\ g["risk"].entries["max_drawdown_pct"] = None
    BY <2>3, <2>7
  <2> QED
    BY <2>4, <2>7, <2>8, <2>9, <2>10
<1> HIDE DEF g
<1>3. /\ ClosedSections = {"run", "execution", "risk"} /\ ClosedKeys["run"] = RunKeys
      /\ ClosedKeys["execution"] = ExecutionKeys /\ ClosedKeys["risk"] = RiskKeys
  BY DEF ClosedSections, ClosedKeys
<1>4. WellFormed(g)
  BY <1>2, <1>3 DEF WellFormed, AllowedSections
<1>5. RequiredKeys \subseteq DOMAIN Entries(g, "run")
  BY <1>2 DEF Entries, RequiredKeys, RunKeys
<1>6. ASSUME NEW k \in Keys
      PROVE  Setting(g, k) = g[SectionOf(k)].entries[k]
  BY <1>2, <1>3, KeyHasSection DEF Setting, Entries
<1>7. /\ SectionOf("data_path") = "run" /\ SectionOf("strategy") = "run"
      /\ SectionOf("initial_cash") = "run" /\ SectionOf("default_quantity") = "run"
      /\ SectionOf("allow_short") = "run" /\ SectionOf("commission_bps") = "execution"
      /\ SectionOf("slippage_bps") = "execution" /\ SectionOf("max_position_quantity") = "risk"
      /\ SectionOf("max_drawdown_pct") = "risk"
  BY <1>3, KeyHasSection DEF Keys, RunKeys, ExecutionKeys, RiskKeys
<1>8. \A k \in TextKeys : Setting(g, k) = r.options[k]
  BY <1>2, <1>6, <1>7 DEF TextKeys, Keys, RunKeys
<1>9. /\ DOMAIN Documented(r) = Keys \ TextKeys
      /\ Documented(r)["initial_cash"] = Number(10000) /\ Documented(r)["default_quantity"] = Number(1)
      /\ Documented(r)["allow_short"] = Default["allow_short"] /\ Documented(r)["commission_bps"] = Number(0)
      /\ Documented(r)["slippage_bps"] = Number(0)
      /\ Documented(r)["max_position_quantity"] = Number(1) /\ Documented(r)["max_drawdown_pct"] = None
  <2> DEFINE sums == [initial_cash |-> Number(10000), default_quantity |-> Number(1)]
  <2>1. Documented(r) = [k \in DOMAIN Default \cup DOMAIN sums |->
                           IF k \in DOMAIN sums THEN sums[k] ELSE Default[k]]
    BY DEF Documented, Updated
  <2>2. /\ DOMAIN sums = {"initial_cash", "default_quantity"}
        /\ sums["initial_cash"] = Number(10000) /\ sums["default_quantity"] = Number(1)
    OBVIOUS
  <2>3. DOMAIN Default = {"allow_short", "commission_bps", "slippage_bps", "max_position_quantity",
                          "max_drawdown_pct"}
        /\ Default["commission_bps"] = Number(0)
        /\ Default["slippage_bps"] = Number(0) /\ Default["max_position_quantity"] = Number(1)
        /\ Default["max_drawdown_pct"] = None
    BY DEF Default
  <2> HIDE DEF sums
  <2>4. DOMAIN Documented(r) = Keys \ TextKeys
    BY <2>1, <2>2, <2>3 DEF Keys, RunKeys, ExecutionKeys, RiskKeys, TextKeys
  <2>5. /\ Documented(r)["initial_cash"] = sums["initial_cash"]
        /\ Documented(r)["default_quantity"] = sums["default_quantity"]
    BY <2>1, <2>2
  <2>6. \A k \in DOMAIN Default : Documented(r)[k] = Default[k]
    BY <2>1, <2>2, <2>3
  <2> QED
    BY <2>2, <2>3, <2>4, <2>5, <2>6
<1>10. Keys \ TextKeys = {"initial_cash", "default_quantity", "allow_short", "commission_bps",
                          "slippage_bps", "max_position_quantity", "max_drawdown_pct"}
  BY DEF Keys, RunKeys, ExecutionKeys, RiskKeys, TextKeys
<1>11. ASSUME NEW k \in Keys \ TextKeys
       PROVE  Setting(g, k) = Documented(r)[k]
  <2>1. Setting(g, k) = g[SectionOf(k)].entries[k]
    BY <1>6
  <2>2. CASE k \in {"initial_cash", "default_quantity", "allow_short"}
    <3>1. SectionOf(k) = "run"
      BY <1>7, <2>2
    <3>2. Setting(g, k) = g["run"].entries[k]
      BY <2>1, <3>1
    <3> QED
      BY <1>2, <1>9, <2>2, <3>2
  <2>3. CASE k \in {"commission_bps", "slippage_bps", "max_position_quantity", "max_drawdown_pct"}
    BY <1>2, <1>7, <1>9, <2>1, <2>3
  <2> QED
    BY <1>10, <2>2, <2>3
<1> QED
  BY <1>4, <1>5, <1>8, <1>9, <1>11 DEF g

(* What the options are set in holds numbers and texts. *)
LEMMA SettingsHold ==
  ASSUME NEW r, IsRequest(r), r.file = NoFile => TextKeys \subseteq DOMAIN r.options
  PROVE  Holds(SettingsOf(r))
<1>1. HoldsValues(LeftOptions(r))
  BY DEF IsRequest, HoldsValues, LeftOptions
<1>2. Holds(Given(r))
  <2>1. CASE r.file = NoFile
    <3>1. IsValue(r.options["data_path"]) /\ IsValue(r.options["strategy"])
      BY <2>1 DEF IsRequest, HoldsValues, TextKeys
    <3> QED
      BY <2>1, <3>1 DEF Given, CommandLineTables, Holds, HoldsValues, IsValue, Table, Number, Boolean,
         Text, None, Other
  <2>2. CASE r.file # NoFile
    BY <2>2 DEF Given, IsRequest, Holds
  <2> QED
    BY <2>1, <2>2
<1> QED
  BY <1>1, <1>2, OverriddenHolds DEF SettingsOf

(* The effective value of a key is the setting, and is missing only where  *)
(* the mapping lacks a required key.                                       *)
LEMMA EffectiveIsSetting ==
  ASSUME NEW r, IsRequest(r), r.file = NoFile => TextKeys \subseteq DOMAIN r.options, NEW k \in Keys
  PROVE  IF k \in RequiredKeys => k \in DOMAIN Entries(SettingsOf(r), "run")
         THEN Setting(SettingsOf(r), k) = Effective(r, k) ELSE Effective(r, k) = Missing
<1> DEFINE g == Given(r)
           o == LeftOptions(r)
           set == SettingsOf(r)
<1>1. DOMAIN o = DOMAIN r.options \ Popped(r) /\ DOMAIN o \subseteq Keys
      /\ \A j \in DOMAIN o : o[j] = r.options[j]
  BY OptionsLeft
<1>2. /\ Setting(set, k) = IF k \in DOMAIN o THEN o[k] ELSE Setting(g, k)
      /\ \A s \in ClosedSections :
           DOMAIN Entries(set, s) = DOMAIN Entries(g, s) \cup (DOMAIN o \cap ClosedKeys[s])
  BY <1>1, OptionsAreSet DEF SettingsOf
<1>3. /\ SectionOf(k) \in ClosedSections /\ k \in ClosedKeys[SectionOf(k)]
      /\ k \in RequiredKeys => SectionOf(k) = "run"
  BY KeyHasSection
<1>4. k \in DOMAIN Entries(set, SectionOf(k)) <=> k \in DOMAIN o \/ k \in DOMAIN Entries(g, SectionOf(k))
  BY <1>2, <1>3
<1> HIDE DEF g, o, set
<1>5. CASE r.file = NoFile
  <2>1. /\ Popped(r) = TextKeys /\ RequiredKeys \subseteq DOMAIN Entries(g, "run")
        /\ \A j \in TextKeys : Setting(g, j) = r.options[j] /\ j \in DOMAIN r.options
        /\ \A j \in Keys \ TextKeys : j \in DOMAIN Documented(r) /\ Setting(g, j) = Documented(r)[j]
    BY <1>5, TablesOfCommandLine DEF Popped, g
  <2>2. k \in RequiredKeys => k \in DOMAIN Entries(set, "run")
    BY <1>3, <1>4, <2>1
  <2>3. Setting(set, k) = Effective(r, k)
    BY <1>1, <1>2, <1>5, <2>1 DEF Effective
  <2> QED
    BY <2>2, <2>3 DEF set
<1>6. CASE r.file # NoFile
  <2>1. g = r.file.mapping /\ DOMAIN o = DOMAIN r.options /\ Documented(r) = Default
    BY <1>1, <1>6 DEF g, Given, Popped, Documented
  <2>2. DOMAIN Default = Keys \ RequiredKeys
    BY DEF Default, Keys, RunKeys, ExecutionKeys, RiskKeys, RequiredKeys
  <2>3. CASE k \in DOMAIN o
    BY <1>1, <1>2, <1>3, <1>4, <2>1, <2>3 DEF Effective, set
  <2>4. CASE k \notin DOMAIN o /\ k \in DOMAIN Entries(g, SectionOf(k))
    <3>1. Entries(g, SectionOf(k)) = g[SectionOf(k)].entries
      BY <2>4 DEF Entries
    <3>2. Setting(g, k) = Effective(r, k)
      BY <1>6, <2>1, <2>4, <3>1 DEF Setting, Effective
    <3> QED
      BY <1>2, <1>3, <1>4, <2>4, <3>2 DEF set
  <2>5. CASE k \notin DOMAIN o /\ k \notin DOMAIN Entries(g, SectionOf(k))
    <3>1. k \in RequiredKeys => k \notin DOMAIN Entries(set, "run")
      BY <1>3, <1>4, <2>5
    <3>2. Effective(r, k) = IF k \in RequiredKeys THEN Missing ELSE Default[k]
      BY <2>1, <2>2, <2>5 DEF Effective
    <3>3. Setting(set, k) = Default[k]
      BY <1>2, <2>5 DEF Setting
    <3> QED
      BY <3>1, <3>2, <3>3 DEF set
  <2> QED
    BY <2>3, <2>4, <2>5
<1> QED
  BY <1>5, <1>6

(* Loader, overrides and RunConfig together refuse what is not acceptable, *)
(* and that only.                                                          *)
LEMMA AcceptedIsAcceptable ==
  ASSUME NEW r, IsRequest(r)
  PROVE  /\ ConfigurationError(r) = "NONE" <=> Acceptable(r)
         /\ ConfigurationError(r) = "NONE" =>
              \A k \in Keys : /\ ResolvedConfig(r).settings[k] = Effective(r, k)
                              /\ IsValue(Effective(r, k))
<1> DEFINE set == SettingsOf(r)
           g == Given(r)
           o == LeftOptions(r)
           Passed == /\ FirstFailing(OverrideChecks(g, o)) = "NONE"
                     /\ FirstFailing(MappingChecks(set)) = "NONE"
           Complete == r.file = NoFile => TextKeys \subseteq DOMAIN r.options
           Reads == r.file # NoFile => r.file.status = "read"
<1>1. ConfigurationError(r) = "NONE" <=> Complete /\ Reads /\ Passed
  <2>1. NoFile.status = "none"
    BY DEF NoFile
  <2>2. r.file = NoFile \/ r.file.status \in ReadOutcomes
    BY DEF IsRequest
  <2>3. r.file.status \in ReadOutcomes \ {"read"} <=> ~Reads
    BY <2>1, <2>2 DEF ReadOutcomes
  <2>4. r.file.status \in ReadOutcomes \ {"read"} => r.file.status # "NONE"
    BY DEF ReadOutcomes
  <2> HIDE DEF Reads
  <2> QED
    BY <2>3, <2>4 DEF ConfigurationError, SettingsOf
<1>2. DOMAIN o \subseteq Keys
  BY OptionsLeft
<1>3. Passed <=> WellFormed(g) /\ RequiredKeys \subseteq DOMAIN Entries(set, "run") /\ ~RunConfigInvalid(set)
  BY <1>2, ChecksPass DEF SettingsOf
<1> HIDE DEF Passed
<1>4. Acceptable(r) => Complete
  <2> SUFFICES ASSUME Acceptable(r), r.file = NoFile, NEW k \in TextKeys, k \notin DOMAIN r.options
               PROVE  FALSE
    OBVIOUS
  <2>1. k \notin DOMAIN Documented(r)
    BY DEF Documented, Default, Updated, TextKeys
  <2>2. Effective(r, k) = Missing
    BY <2>1 DEF Effective
  <2>3. k \in Keys /\ ~Usable(k, Missing)
    BY DEF Keys, RunKeys, TextKeys, Usable, Missing, Other
  <2> QED
    BY <2>2, <2>3 DEF Acceptable
<1>5. ASSUME Complete
      PROVE  /\ Passed /\ Reads <=> Acceptable(r)
             /\ Passed => \A k \in Keys : Setting(set, k) = Effective(r, k) /\ IsValue(Effective(r, k))
  <2> DEFINE Required == RequiredKeys \subseteq DOMAIN Entries(set, "run")
  <2>1. \A k \in Keys : IF k \in RequiredKeys => k \in DOMAIN Entries(set, "run")
                        THEN Setting(set, k) = Effective(r, k) ELSE Effective(r, k) = Missing
    BY <1>5, EffectiveIsSetting
  <2>2. RequiredKeys \subseteq Keys
    BY DEF RequiredKeys, Keys, RunKeys
  <2> HIDE DEF set, Complete
  <2>3. ASSUME Required
        PROVE  \A k \in Keys : Setting(set, k) = Effective(r, k) /\ IsValue(Effective(r, k))
    <3>1. Holds(set)
      BY <1>5, SettingsHold DEF set, Complete
    <3>2. \A k \in Keys : IsValue(Setting(set, k))
      BY <2>3, <3>1, SettingHolds
    <3> QED
      BY <2>1, <2>3, <3>2
  <2>4. (\A k \in Keys : Usable(k, Effective(r, k))) => Required
    <3>1. \A k \in RequiredKeys : ~Usable(k, Missing)
      BY DEF RequiredKeys, Usable, Missing, Other, None
    <3> QED
      BY <2>1, <2>2, <3>1
  <2>5. (r.file # NoFile => WellFormedFile(r.file)) <=> Reads /\ WellFormed(g)
    <3>1. CASE r.file = NoFile
      BY <1>5, <3>1, TablesOfCommandLine DEF Complete
    <3>2. CASE r.file # NoFile
      BY <3>2 DEF Given, WellFormed, WellFormedFile
    <3> QED
      BY <3>1, <3>2
  <2>6. ASSUME Required
        PROVE  ~RunConfigInvalid(set) <=>
                 /\ \A k \in Keys : Usable(k, Effective(r, k))
                 /\ Effective(r, "default_quantity").number <= Effective(r, "max_position_quantity").number
    <3>2. \A k \in Keys : IsValue(Setting(set, k)) /\ Setting(set, k) = Effective(r, k)
      BY <2>3, <2>6
    <3>3. \A k \in Keys : Usable(k, Effective(r, k)) <=> ~SettingInvalid(k, Setting(set, k))
      BY <3>2, UsableIsValid
    <3>4. ASSUME \A k \in Keys : Usable(k, Effective(r, k)), NEW k \in {"default_quantity", "max_position_quantity"}
          PROVE  Setting(set, k) = Effective(r, k) /\ Effective(r, k).number \in Int
      <4>1. k \in Keys
        BY DEF Keys, RunKeys, RiskKeys
      <4>2. Effective(r, k).kind = "number"
        BY <3>4, <4>1 DEF Usable
      <4> QED
        BY <3>2, <4>1, <4>2 DEF IsValue
    <3> DEFINE valid == \A k \in Keys : Usable(k, Effective(r, k))
               a == Effective(r, "default_quantity").number
               b == Effective(r, "max_position_quantity").number
    <3>5. ~RunConfigInvalid(set) <=> valid /\ ~(Setting(set, "default_quantity").number > Setting(set, "max_position_quantity").number)
      BY <3>3 DEF RunConfigInvalid
    <3>6. valid => /\ Setting(set, "default_quantity").number = a /\ a \in Int
                   /\ Setting(set, "max_position_quantity").number = b /\ b \in Int
      BY <3>4
    <3> HIDE DEF valid, a, b
    <3>7. ~RunConfigInvalid(set) <=> valid /\ a <= b
      <4>1. valid => (~(a > b) <=> a <= b)
        BY <3>6
      <4> QED
        BY <3>5, <3>6, <4>1
    <3> QED
      BY <3>7 DEF valid, a, b
  <2> HIDE DEF Reads, g, Required
  <2> QED
    BY <1>3, <2>3, <2>4, <2>5, <2>6 DEF Acceptable, Required
<1>6. \A k \in Keys : ResolvedConfig(r).settings[k] = Setting(set, k)
  BY DEF ResolvedConfig, RunConfig, SettingsOf
<1> HIDE DEF set, Complete, Reads
<1> QED
  BY <1>1, <1>4, <1>5, <1>6

(* The configuration of a process is that of its request, but for the      *)
(* alias; and who was refused asked for something that is not acceptable.  *)
ConfiguredAt(p) ==
  LET r == request[p]
  IN /\ IsRequest(r)
     /\ raised[p] = "ConfigurationValidationError" => ConfigurationError(r) # "NONE"
     /\ config[p] # Unset =>
          /\ ConfigurationError(r) = "NONE"
          /\ \/ config[p] = ResolvedConfig(r)
             \/ /\ config[p] = Resolved(ResolvedConfig(r))
                /\ ResolvedConfig(r).settings["strategy"].text = Alias
AllConfigured == \A p \in Procs : ConfiguredAt(p)

(* Nothing is configured yet. *)
LEMMA InitConfigured == CommandInit => AllConfigured
BY CommandLineAssumption DEF CommandInit, AllConfigured, ConfiguredAt

(* Every step keeps the configurations. *)
LEMMA ConfiguredStep ==
  ASSUME Shape, Ordered, AllConfigured, [CommandNext]_commandVars
  PROVE  AllConfigured'
<1>1. CASE Edit \/ UNCHANGED commandVars
  BY <1>1 DEF Edit, commandVars, locals, AllConfigured, ConfiguredAt
<1>2. ASSUME NEW p \in Procs, Backtest(p) \/ Validate(p) \/ ListStrategies(p), NEW q \in Procs, q # p
      PROVE  ConfiguredAt(q)'
  <2>1. request'[q] = request[q] /\ config'[q] = config[q] /\ raised'[q] = raised[q] /\ ConfiguredAt(q)
    BY <1>2, OthersStay DEF SameAt, AllConfigured
  <2> QED
    BY <2>1 DEF ConfiguredAt
<1>3. ASSUME NEW p \in Procs, Backtest(p) \/ Validate(p) \/ ListStrategies(p)
      PROVE  ConfiguredAt(p)'
  <2>0. ConfiguredAt(p)
    BY DEF AllConfigured
  <2>1. request' = request
    BY <1>3 DEF Backtest, ResolveConfig, ResolveAlias, AliasStep, LoadData, HashInput, FindSource,
       HashSource, BuildSession, RunSession, WriteReport, PrintSummary, Validate, ListStrategies, locals
  <2>2. CASE ResolveConfig(p)
    <3>1. CASE ConfigurationError(request[p]) = "NONE" /\ config'[p] = ResolvedConfig(request[p])
               /\ raised' = raised
      BY <2>0, <2>1, <3>1 DEF ConfiguredAt
    <3>2. CASE ConfigurationError(request[p]) # "NONE" /\ config' = config
      BY <2>0, <2>1, <3>2 DEF ConfiguredAt
    <3> QED
      BY <2>2, <3>1, <3>2 DEF ResolveConfig, Continue, Shape
  <2>3. CASE ResolveAlias(p)
    <3>1. config[p] # Unset
      BY <2>3 DEF ResolveAlias, AliasStep, At, Ordered, OrderedAt, HasConfig, Configured, Unset
    <3>2. raised' = raised \/ raised'[p] \in {"StrategyValidationError", "another exception"}
      BY <2>3, ReadingRaises DEF ResolveAlias, AliasStep, Continue, Raise, Shape
    <3>3. CASE config' = config
      BY <2>0, <2>1, <3>2, <3>3 DEF ConfiguredAt
    <3>4. CASE StrategyOf(p) = Alias /\ config'[p] = Resolved(config[p])
      <4> DEFINE c == ResolvedConfig(request[p])
      <4>1. "strategy" \in DOMAIN c.settings /\ "settings" \in DOMAIN c
        BY DEF ResolvedConfig, RunConfig, Keys, RunKeys
      <4> HIDE DEF c
      <4>2. Resolved(c).settings["strategy"].text = Packaged
        BY <4>1 DEF Resolved, Text
      <4>3. Packaged # Alias
        BY DEF Packaged, Alias
      <4>4. config[p] = c /\ c.settings["strategy"].text = Alias
        BY <2>0, <3>1, <3>4, <4>2, <4>3 DEF ConfiguredAt, StrategyOf, c
      <4> QED
        BY <2>0, <2>1, <3>1, <3>2, <3>4, <4>4 DEF ConfiguredAt, c
    <3> QED
      BY <2>3, <3>3, <3>4 DEF ResolveAlias, AliasStep, Shape
  <2>4. ASSUME ~ResolveConfig(p), ~ResolveAlias(p)
        PROVE  config' = config /\ (raised' = raised \/ raised'[p] # "ConfigurationValidationError")
    <3>1. CASE LoadData(p) \/ HashInput(p) \/ FindSource(p) \/ HashSource(p)
      BY <3>1, ReadingRaises DEF LoadData, HashInput, FindSource, HashSource, Continue, Raise, Shape
    <3>2. CASE BuildSession(p) \/ RunSession(p)
      BY <3>2 DEF BuildSession, RunSession, Continue, Raise, Shape
    <3>3. CASE WriteReport(p) \/ PrintSummary(p) \/ Validate(p) \/ ListStrategies(p)
      BY <3>3, ReadingRaises
      DEF WriteReport, PrintSummary, Validate, ListStrategies, locals, Continue, Raise, Shape
    <3> QED
      BY <1>3, <2>4, <3>1, <3>2, <3>3 DEF Backtest
  <2> QED
    BY <2>0, <2>1, <2>2, <2>3, <2>4 DEF ConfiguredAt
<1> QED
  BY <1>1, <1>2, <1>3 DEF CommandNext, AllConfigured

(* USER_GUIDE.md, "Configuration": a request is refused exactly when some  *)
(* effective value of it is not usable, whichever of loader, overrides and *)
(* RunConfig finds it; and what runs has the effective values, None and    *)
(* FALSE included.                                                         *)
THEOREM EffectiveCorrect == CommandSpec => []ConfigurationIsEffective
<1>1. AllConfigured => ConfigurationIsEffective
  <2> SUFFICES ASSUME AllConfigured, NEW p \in Procs
               PROVE  LET r == request[p]
                      IN /\ raised[p] = "ConfigurationValidationError" => ~Acceptable(r)
                         /\ config[p] # Unset =>
                              /\ Acceptable(r)
                              /\ \A k \in Keys \ {"strategy"} : config[p].settings[k] = Effective(r, k)
                              /\ StrategyOf(p) # Effective(r, "strategy").text =>
                                   <<Effective(r, "strategy").text, StrategyOf(p)>> = <<Alias, Packaged>>
                              /\ InputPlace(r, config[p]) = "file directory" <=>
                                   /\ "data_path" \notin DOMAIN r.options
                                   /\ Effective(r, "data_path") # Text("absolute")
    BY DEF ConfigurationIsEffective
  <2> DEFINE r == request[p]
             c == ResolvedConfig(r)
  <2>1. ConfiguredAt(p) /\ IsRequest(r)
    BY DEF AllConfigured, ConfiguredAt
  <2>2. /\ ConfigurationError(r) = "NONE" <=> Acceptable(r)
        /\ ConfigurationError(r) = "NONE" =>
             \A k \in Keys : c.settings[k] = Effective(r, k) /\ IsValue(Effective(r, k))
    BY <2>1, AcceptedIsAcceptable
  <2>3. raised[p] = "ConfigurationValidationError" => ~Acceptable(r)
    BY <2>1, <2>2 DEF ConfiguredAt
  <2>4. ASSUME config[p] # Unset
        PROVE  /\ Acceptable(r)
               /\ \A k \in Keys \ {"strategy"} : config[p].settings[k] = Effective(r, k)
               /\ StrategyOf(p) # Effective(r, "strategy").text =>
                    <<Effective(r, "strategy").text, StrategyOf(p)>> = <<Alias, Packaged>>
               /\ InputPlace(r, config[p]) = "file directory" <=>
                    "data_path" \notin DOMAIN r.options /\ Effective(r, "data_path") # Text("absolute")
    <3>1. /\ ConfigurationError(r) = "NONE"
          /\ config[p] = c \/ (config[p] = Resolved(c) /\ c.settings["strategy"].text = Alias)
      BY <2>1, <2>4 DEF ConfiguredAt
    <3>2. "strategy" \in Keys /\ "data_path" \in Keys \ {"strategy"}
      BY DEF Keys, RunKeys
    <3>3. DOMAIN c.settings = Keys /\ "settings" \in DOMAIN c
      BY DEF ResolvedConfig, RunConfig
    <3> HIDE DEF c, r
    <3>4. /\ \A k \in Keys \ {"strategy"} : Resolved(c).settings[k] = c.settings[k]
          /\ Resolved(c).settings["strategy"].text = Packaged
      BY <3>2, <3>3 DEF Resolved, Text
    <3>5. \A k \in Keys \ {"strategy"} : config[p].settings[k] = Effective(r, k)
      BY <2>2, <3>1, <3>4
    <3>6. StrategyOf(p) # Effective(r, "strategy").text =>
            <<Effective(r, "strategy").text, StrategyOf(p)>> = <<Alias, Packaged>>
      BY <2>2, <3>1, <3>2, <3>4 DEF StrategyOf
    <3>7. InputPlace(r, config[p]) = "file directory" <=>
            "data_path" \notin DOMAIN r.options /\ Effective(r, "data_path") # Text("absolute")
      <4> DEFINE v == Effective(r, "data_path")
      <4>1. config[p].settings["data_path"] = v /\ IsValue(v)
        BY <2>2, <3>1, <3>2, <3>5
      <4>2. v.kind = "text"
        BY <2>2, <3>1, <3>2 DEF Acceptable, Usable
      <4>3. r.file = NoFile => "data_path" \in DOMAIN r.options
        BY <3>1 DEF ConfigurationError, TextKeys
      <4> HIDE DEF v
      <4>4. v.text = "absolute" <=> v = Text("absolute")
        BY <4>1, <4>2 DEF IsValue, Text
      <4>5. InputPlace(r, config[p]) = "file directory" <=>
              ~(v.text = "absolute") /\ ~("data_path" \in DOMAIN r.options \/ r.file = NoFile)
        BY <4>1 DEF InputPlace
      <4> QED
        BY <4>3, <4>4, <4>5 DEF v
    <3> QED
      BY <2>2, <3>1, <3>5, <3>6, <3>7
  <2> QED
    BY <2>3, <2>4
<1>2. CommandInit => AllConfigured
  BY InitConfigured
<1>3. Shape /\ Ordered /\ AllConfigured /\ [CommandNext]_commandVars => AllConfigured'
  BY ConfiguredStep
<1> QED
  BY <1>1, <1>2, <1>3, OrderedAlways, PTL DEF CommandSpec
=============================================================================
