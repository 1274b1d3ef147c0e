# A TLA+ model of Metrbot Lab

Metrbot Lab backtests one strategy over one CSV of candles, on a simulated
single-position broker, and publishes a report. This directory holds TLA+
modules for the parts of it that keep state, merge or scan data in ways that
are easy to get wrong, TLC configurations that check them on small instances,
and TLAPS proofs of what holds for every instance. Paths below are relative to
the package, `src/src/`.

## The system

| Component | State | Operations | Interacts with |
|---|---|---|---|
| Broker (`execution/`) | cash, peak, account, equity points, admissions, position, pending order, entry fill, fills, trades, last bar, finalized, result, three identifier counters | `submit`, `process_bar`, `finalize` | called by the session loop, once per bar |
| Risk policy (`risk/policy.py`) | settings, the drawdown lock | `evaluate`, `observe_account` | called by the adapter between strategy and broker |
| Session loop (`strategies/adapter.py`, `context.py`) | the bar reached, prior bars, risk decisions | `run` | calls strategy callbacks, the policy and the broker |
| Dataset (`data/`) | bars read, timestamps seen, symbol | `load_csv` | its bars are the session's input |
| Configuration (`config/`, `RunConfig`) | none that outlives a call | parse, override, default, check | its result settles broker, policy and identity |
| Runner, identity, builder (`engine/`, `session.py`) | none of its own | `run`, `build_run_identity`, `build_risk_aware_session` | opens the input twice and the strategy's module up to three times |
| Strategy loading (`strategies/loader.py`, `registry.py`) | Python's module cache | `load_strategy` | imports project code |
| Command line (`cli.py`) | none | `backtest`, `validate`, `list-strategies`, the strategy commands | all of the above; turns exceptions into exit codes |
| Metrics (`reporting/metrics.py`, `contracts.py`) | local to a scan of the result | `calculate_metrics`, `validate_report_input` | reads the result of a run |
| Report publication (`reporting/artifacts.py`) | the output directory | `write_artifacts` | other runs, through the file system |
| Project strategies (`strategies/scaffold.py`, `project_registry.py`) | `strategies/`: registry, packages, temporary files | `create`, `remove`, `remove --keep-files` | other commands, through the file system |
| Terminal report, errors, version | none | format | called by the above |

The engine is one thread, so nothing interleaves within a run. What is hard
there is the order of things: an order is checked on one bar and filled on the
next; one bar may fill an entry, gap over a stop and touch a target; the last
point of the curve is replaced at the end; an exception may leave an operation
half done; the drawdown lock depends on who looked at the account and when.
Commands and report writers do share state with other processes and with
whoever edits the files: their calls interleave, fail one by one, a process may
be killed between any two of them, and what was read once may be something else
when it is read again.

What makes each part correct, in short: the broker's records are all consistent
with its fills and the candles, and do what the guide says; the policy binds
every position the broker holds; a decision is filled on the next candle or
reported as cancelled; what is loaded is what a session takes, what is
configured is what was asked for; what a session returns is what the report
accepts; a command that reports an error changed nothing, but that a removal
whose deletion failed may have lost files of its strategy, and a successful one
changes only its own strategy; a report is whole or absent, its fingerprint
tells runs apart, and the exit code tells whether it is there.

## Modules

**Engine.** `Broker` is the core. One action per public call: `Submit`,
`ProcessBar`, `Finalize`. `ProcessBar` is the whole handler, in the code's
order: fill the pending order at the open, look for an exit, complete the
trade, record the equity point. It has three outcomes, `HoldBar` (nothing
closes), `ExitBar` (a position closes) and `RaiseInBar`
(`calculate_r_multiple` raises because the stop is at the entry price, after
identifiers were taken). `Finalize` likewise ends flat, by liquidation, or with
that exception. Prices and quantities are naturals and money is counted in
units in which the code's products are whole numbers, so costs and P&L are the
code's formulas without rounding. `None` is 0 or a record of zeros, which no
valid quantity, price or identifier is. `processed`, `bar` in a fill or point
and `seen` in an admission are history: they record which bar something belongs
to and no guard reads them. `BrokerSafety` states the broker's properties from
fills and bars alone.

`ExecutionSemantics` is the broker as the guide's "Execution semantics" shows
it to a user: one decision waits at most, one position is held at most, and a
candle decides what is filled at which price. It has no records, identifiers,
costs or money. `SemanticsImplemented` (`INSTANCE ... WITH` in `BrokerSafety`)
says that every step of `Broker` is one of it, or none.

`RiskPolicy` is `BasicRiskPolicy`; `Session` composes `Broker` and `RiskPolicy`
with the loop of `_run_session`, one action per statement that can raise or
call out. The strategy is external: any callback may raise and `on_bar` may
return nothing or any of `Answers`. `Intents` are the answers and what the
policy normalises them to, which is what the broker gets. `settings.aware =
FALSE` is the plain adapter without a policy. `Stopped` is where a session may
stop. `SessionSafety` states what a run guarantees and uses `Metrics` for what
the report layer demands of its result.

`Metrics` holds the one-pass loops of `reporting/metrics.py` as recursive
functions, and the checks that accept or refuse a result; `Sums` is the sum they
reconcile with. `Dataset` is
`load_csv`: the header, then one row per step until the file ends or a row is
refused. `Checks` is a function that raises at the first failing of a fixed
sequence of checks; rows and configurations are refused that way.

**Commands.** `Configuration` is the merge of file, options and defaults:
`apply_overrides`, `config_from_mapping`, `RunConfig` and the resolution in
`cli.py`, as operators on parsed mappings. `CommandLine` has processes that run
`backtest`, `validate` or `list-strategies` in one project directory, one
action per read of a file, and `Edit`, by which somebody saves, adds or removes
files. A backtest resolves its configuration and alias, loads the data, hashes
the input, finds, imports and hashes the strategy, builds the session, runs it,
writes the report and prints. The simulation is a function of what was imported
and loaded: `Session` is its inside, `Reports` the inside of writing. It may
raise under the built-in strategy, too: `Failing` are the candles and
configurations where it does, an open at the stop that `candle_pulse` sets or
prices too large to reckon with. Some errors of reading pass every `except`
clause for invalid input, and `main` returns 1 for them: a registry that is not
UTF-8 or a file in a directory that may not be searched (`"undecodable"`,
`Inaccessible`, `"another exception"`). A hash stands for what was hashed.
`disturbed` is history. `CommandSafety` states the properties.

`ProjectStrategies` and `Reports` model strategy commands and report writers as
processes with a program counter, one action per file-system call (calls on a
directory that no other process can see are one action). `Fault` is one failing
call, `Crash` a kill that runs no handler. `ProjectSafety` states the
properties of the former; those of the latter are in the module. `ReportStore`
is what `write_artifacts` promises: a run publishes a whole report in one step
or nothing, and owns it. `StoreImplemented` says that `Reports` does that,
through probing, staging, rename and withdrawal. The file system is external:
rename is atomic and replaces only an absent or empty directory, a failing
`rmtree` has deleted any part of the files. In `Reports` the staging directory
is filled in one step, for nobody else sees it before the rename.

`MCBroker`, `MCSession`, `MCMetrics`, `MCDataset`, `MCProject` and
`MCCommandLine` give TLC its instances. The `...Proofs` modules are below.

An operator marked `slip` is a plausible mistake in the definition that follows
it. No specification uses it; substituting it for that definition breaks the
property it is listed with in `PROJECT.json`, which shows that the property
notices such a mistake.

## Runs

| Run | Instance | Shows |
|---|---|---|
| `Broker` | 3 candles (calm, gap down, wide), 3 entries and a CLOSE, 2 timestamps, 3 submits of which one rejected, 3 bars | any order of calls keeps every record consistent and is a behaviour of `ExecutionSemantics` |
| `Session` | all 81 four-bar inputs, 4 answers, 4 policies, under fairness | the policy binds, decisions fill on the next bar, the result is reportable, no session gets stuck or runs on |
| `Dataset` | 7 headers, 18 rows with every defect, up to 4 rows | acceptance and error codes match a definition over all pairs of rows |
| `Metrics` | all series of up to 6 values in -2..2 | loops agree with declarative definitions |
| `CommandLine` | 2 processes; some 4,000 configurations, every broken file, registry and strategy, candles on which the built-in raises, two backtests among 2 edits; 1 failing write | what runs is what was asked for, nothing runs on rejected input, fingerprint, exit code and report agree |
| `ProjectCommands` | 3 commands, of which 2 may overlap, 3 names of which one built in, 1 fault, 1 kill | an error changes nothing but the files a failing deletion took, success changes one strategy, the rename decides who wins |
| `Reports` | 3 writers on one name, 4 suffixes, 1 fault, 1 kill, under fairness | reports are whole and kept as `ReportStore` says, all writers end |
| `Identity`, `BrokerGap`, `ProjectRollback`, `ProjectSameName`, `ProjectLostUpdate` | minimal | counterexamples, below |

Why the bounds suffice. Three bars let a position be decided on one bar, opened
on the next and closed or finalized on a third; the candles make every
combination of gap, stop, target and survival happen for both sides, the first
and the last included. Two timestamps are needed for a decision later than the
next bar. A rejected call changes nothing but the list of admissions
(`MaxRejections`; in `Session` it is no bound, every call of a session may be
rejected). A session with four bars can take a loss, be locked, recover and try
again. Four rows give every pairwise clash two rows apart. Two overlapping
commands show every race found, and a third one before, after or across them
(`MaxOverlaps`) shows that the survivors are right. Three writers need three
names and a fourth shows that none is skipped. A configuration differs from a
sound one in one place of the file and one option, or in two options: every
check of loader and overrides relates at most two values. Two edits put a
change between any two reads of one process and another between two processes.
A series of six values has room for two drawdowns and a recovery. `MaxTradeIds`
only bounds failing calls of `finalize`, which take an identifier each.
Interchangeable processes are a symmetry of `ProjectCommands` and `CommandLine`,
which check no liveness; no request is bound to one of them.

`Session` checks for deadlock: only a session that is over may stop. The other
runs say `CHECK_DEADLOCK FALSE`, for their calls are bounded, a file ends, or a
process is done with its command.

Fairness. `FairSession` has weak fairness of the loop's next step: it is one
thread, and a callback that never returns is outside the model (it would hang
the program). Every step moves the phase, and the deadlock check
shows that there always is one. `FairReports` has weak fairness of each
writer's next call, and none of a kill. Nothing else is assumed; the invariants
of these two runs do not depend on it.

## Where code and documentation disagree

* `Identity`: `build_run_identity` says "Build a deterministic identity from
  all material simulation inputs" (`engine/identity.py:95`). The input is read
  once for its bars and again for its hash (`engine/runner.py:31`), the
  strategy's text once by the import and again for its hash
  (`engine/identity.py:179`), and of what the strategy imports nothing is
  hashed (`engine/identity.py:154`): two different results may carry one
  fingerprint. In the run, the data file is saved within one of two backtests,
  after it loaded the candles and before it hashed them. What does hold,
  `FingerprintIdentifiesRun`, excludes runs that were disturbed by an edit and
  changed helpers, and is proved.
* `BrokerGap`: a position whose entry bar opens exactly at its stop is not
  closed at the open (USER_GUIDE.md:166). Building the trade divides by an
  initial risk of zero distance, `calculate_initial_risk` raises, and the
  exception leaves `process_bar` with the position open. No later call can
  close it: `finalize` raises as well, and the run fails. `candle_pulse` sets
  its stop 1% below the close (`strategy.py:102`), so an open exactly there
  ends a backtest of the built-in strategy with exit code 1.
* `ProjectRollback`: a removal whose `rmtree` fails half way re-registers the
  strategy, renames the remains back and says it "was rolled back"
  (`strategies/scaffold.py:161`).
* `ProjectSameName`: the loser of two creations of one name cleans up by
  removing the target directory, which is the winner's: that creation succeeds
  ("Create one importable strategy package and atomically register its alias",
  `strategies/scaffold.py:38`) and leaves an alias without a package.
* `ProjectLostUpdate`: `add` is "atomic" (`strategies/project_registry.py:116`)
  in its write, not in its read and write: two overlapping creations of
  different names both succeed, and one record is lost.

Smaller ones, visible in the models and without a run of their own: an answer
of `on_bar` that is no intent ends with exit code 2, which USER_GUIDE.md:212
gives to invalid input, and not with the 1 of a strategy failure; `[strategy]`
"accepts free-form TOML-compatible values" (USER_GUIDE.md:131) but
`freeze_parameters` refuses a date when the session is built; a project
strategy whose package cannot be imported for another reason than a missing
module ends with an internal error and code 1, because `find_spec` runs it
while its hash is sought, where a plain module is reported as an invalid
strategy with code 2; a `registry.toml` that is not UTF-8 raises
`UnicodeDecodeError` where only `OSError` and `TOMLDecodeError` are caught
(`strategies/project_registry.py:180`), and data or a configuration in a
directory that may not be searched raises where `exists()` is asked, outside
the `try` (`data/csv_loader.py:25`, `config/loader.py:38`): code 1, where
USER_GUIDE.md:216 gives 2 to invalid input; the drawdown percentage of the
report is that of the largest amount (`reporting/metrics.py:174`), which may be
lower than the largest percentage, on which the risk policy locks; when the
listing and the withdrawal of a report both fail, the run reports an error and
the report stays.

## Proofs

Every safety property and action property that a passing run checks is also a
theorem, for every value of the constants that satisfies the named assumptions
of the modules: a positive rate scale and initial cash, slippage below 100%,
candles whose high and low contain open and close (`Broker`, each a constructor
check of the code); inputs and answers the broker can take (`Session`); options
and files whose entries are values and whose numbers are numbers
(`CommandLine`); rows whose fields are what their texts may parse to
(`Dataset`); a series of numbers (`MCMetrics`). TLC evaluates them in the runs.
The inductive invariants named below were found by strengthening the property
until a step preserves it; in each paragraph the remark in parentheses says
what had to be added and why.

**Sequences and loops.** `SeriesProofs` has what the other modules need about
the recursive functions of the models. The induction theorems of the library
cannot be instantiated, so induction is an argument from the least number at
which a claim fails (`Least`). A function that is defined by recursion in a
`LET` is chosen by its equation; `LoopRuns` shows that one exists, so that what
the definition chooses satisfies it. From there: a sum is unchanged by entries
of 0 and grows with an appended entry; the run that is counted and the longest
run of a set of indices (`RunAt`); peak, deepest fall and longest stretch of a
drawdown scan after each point; a sequence of checks passes exactly when none
fails, joins of such sequences in order, and the code of a join is that of its
first part that fails.

**Broker.** `BrokerProofs`, in the order in which the theorems need each other:

* `TypeCorrect`, and `PeakCorrect`, the peak of every equity point is the
  largest equity up to it. The peak of a new point is computed from
  `peakEquity`, which therefore has to be the last point's, and `finalize`
  computes it from the peaks of the points before the last, for which running
  maxima must not decrease (`PeakBeforeLastIsPrevious`). `Inductive` is the
  conjunction with the types.
* `PendingAlwaysFits`, the errors "guarded during submit" cannot be raised one
  bar later; `HoldingsAlwaysAgree`, ledger and `_entry_fill` describe one
  position, exceptions included; `SettledCorrect`, a finalized session is flat,
  all cash, and complete. `Holding` adds that a pending order has a number;
  `Settlement` adds `Balanced`, which speaks of sessions that are still open: a
  flat account is all cash, the last point is the account, one point per bar
  unless the position is stuck. That a stuck position stays stuck needs
  `PendingStillFits`.
* `BrokerImplementsSemantics`: initial states map to initial states and every
  step to a step or a stutter. It uses `Holding`, for a position of the
  semantics is told by the ledger or by the entry fill.
* `OrdersCorrect`, no identifier is used twice (`Orders`: all are below the
  counter and a pending one has no fill); `PointsCorrect`, every bar has its
  point (`Points`); `PairsCorrect`, fills are entries and exits in turn and each
  pair is one trade with its prices, sides, times and net (`Pairing`: with an
  open position one entry is left over; the trade counter is the number of
  trades only while no session is stuck, for a failing exit takes an
  identifier).
* `LevelsCorrect`, no bar touches a level of a position that survives it
  (`Levels`: the intent of a pending order is that of the admission with its
  number, an open position has the levels of its own admission and no bar since
  its entry touched them, and every trade obeys the same of its own bars. That
  the admission is unique needs `Orders`, that a trade's fills stay where they
  are needs `Pairing`).
* `EquityCorrect`, every point is what the fills say (`Funded`: what the fills
  paid is what is missing of the cash, up to the value of the open position at
  its entry price and the costs of its entry; and the fills up to an earlier bar
  stay the same). `AlwaysBooked` is the same for the sums the report reconciles:
  costs of fills and trades differ by the open entry, and the cash is the
  initial cash plus the nets of the trades.

**Session.** `SessionDrivesBroker`: `SessionSpec => Spec`, a session is a legal
use of its broker, so all of the above holds in sessions; it needs `Loop`,
where in its input the loop is. On top of it:

* `LockCorrect` (no entry is opened under a lock; `Lock`: none waits under it
  either), `LockedCorrect` (the lock is on exactly after a drawdown; `Locking`
  adds that the account a callback sees is the last point), `ExposureCorrect`
  (`Approval`: an order that waits was approved, as the position it becomes will
  be) and `NextCandleCorrect` (`Timely`: what waits when the next bar comes was
  decided on the bar before).
* `AdmissionsFollow` (`Followed`: admissions are counted by the accepted
  decisions before them), `ContextCorrect` (`Told`: what a callback is told is
  what the loop has done so far) and `CountsCorrect` (`Accounted`: an accepted
  order without a fill is the one that waits, and what waits at the end was
  decided on the last bar).
* `ReportCorrect`, the report layer accepts the result: from `Booked`,
  `Holding`, `Points`, `Settlement` and `Clock`, by which timestamps are bar
  numbers. `DrawdownsAgree`, the drawdown that `calculate_metrics` finds is the
  largest amount the broker recorded, its percentage is of the peak that amount
  fell from, and when that percentage reaches the policy's limit before the
  last point the session is locked: from `PeakCorrect`, the drawdown scan,
  `Opening`, by which the first point is the initial cash, since no order can
  be filled on the first bar, and `Heeded`, by which the lock has seen every
  point but the last. It does not say that both percentages are equal, for they
  are not.

**Metrics.** `MetricsProofs`, for series of any length: `StreaksCorrect`,
`DrawdownCorrect` and `RecoveryCorrect`.

**Dataset.** `DatasetProofs`, for any headers and rows and files of any length:
`VerdictCorrect` and `UsableCorrect`. A row is compared with the last timestamp,
the timestamps seen, the mode of the first row and the symbol of the last one;
that this is as good as comparing it with every row before it is `TimeFits` and
`SymbolFits`, and needs that those rows fit together. `RowVerdict` puts the
parts in the order of the code, `HeaderVerdict` says what an accepted header
has. `Loading` is the invariant: while rows are read they fit together and
`bars` and `symbol` are theirs (`ReadSoFar`); once one is refused, the rows
before it are good, it does not fit, and the code is about it (`Refused`).

**Reports.** `PublishedCorrect`, `RacedCorrect`, `ReportsTypeCorrect` and
`StoreCorrect` (the refinement), for any number of writers, names and kills
and, `OneFault`, at most one failing call. The invariant, `Publication`, says
at every step of a writer which directory is its own and whole. `OneFault` is
needed: with two failing calls a withdrawal may fail.

**Strategy commands.** `ProjectProofs`, for any number of processes and names
and every bound on overlaps, failing calls and kills; the properties themselves
name the histories they speak of. `Inductive` says what each label of a command
has done: `OwnLabel` and `Staged` hold among any commands, `OnTrack` while one
runs at a time, and relates what a command changed so far to what it found.
`FailureIsContained` and `DoneCommandIsExact` follow for the last step of
each command (`EndsWell`). A command that ends as `failed` left everything as it
found it; one that ends as `rolled_back` did so up to files of its own
directory, which `DeleteStaged` may have lost, and the record is the one it
found. `QuietIsConsistent` (`StaysConsistent`) and
`KillsKeepFiles` (`FilesSurvive`) carry the property from the end of one
command to the snapshot the next starts from. `RenameDecides` speaks of
overlapping commands; `Winner` says that from the rename on one of two has the
directory and the other cannot get it, unless a third ran on that name.

**Commands.** `CommandProofs`, for any number of processes, edits, failing
writes and any requests: `CodeRunsCorrect` (`Ordered`: each step needs what an
earlier one left), `AcceptedCorrect` (`NoneFails` and `CheckedIsAdmissible`:
what passes the checks of the loader lies in the ranges of the settings;
`Admissible`: resolving an alias keeps it there), `ExitCorrect` (`Progress`:
what exists at each step and which exceptions are left to raise; it uses
`Ordered`, by which an error of reading comes before the candles, and
`Admissible`, by which the session's settings cannot fail),
`FingerprintCorrect` (`Fingerprinted`: while nothing is edited, what was read is
what the files hold; afterwards the hashes still name it) and
`EffectiveCorrect` (`AllConfigured`: what a process holds is what the resolution
of its request gives. The work is in the operators: `ConfigurationError` is
`NONE` exactly when the effective values are acceptable, although overrides and
loader check separately and in another order, and a setting of the result is
the option's value, else the file's, else the default's).

Only model-checked: the two liveness properties, `Terminates` and
`EveryRunEnds`, for temporal reasoning from fairness is out of the provers'
reach; and the five counterexamples. Proved and beyond what a run can show are
the lengths of inputs, files and curves, and the numbers of processes.

## Not modelled

Floating-point rounding (the reconciliation tolerances of 1e-9 are equalities
here); ratios and averages of the metrics; wording, serialization and layout of
reports and terminal output; argument parsing; TOML and CSV text below what it
parses to; the templates of a new strategy; symbolic links; descriptors of
strategies. A session is checked for all strategies over a small set of
answers, those of `candle_pulse` among them, and not for the formulas of
`candle_pulse`, of which only the accepted parameters are modelled. In
`CommandLine` the simulation is a function of its arguments; that a strategy
computes the same twice is the strategy's matter.

Two failing calls in one report, a kill between the rename and the registration
of a new strategy, and a temporary registry file that a failing write leaves
are reachable in the models but contradict no document; no property covers
them.

## Plan

Done: the engine, the commands, the two refinements, and a theorem for every
safety and action property above.

Left, in this order: an abstract store of strategies that `ProjectStrategies`
implements up to its three findings; the ratios of the metrics over exact
fractions; the strategy commands of the command line in front of
`ProjectStrategies`; two failing calls in one report.
