# Verification of the xut tools

xut runs unit tests of Xilinx primitives in several simulators, compares the
traces with golden Python models written from UG953, and records what was
measured in `status/`. This directory specifies the parts of it that are
concurrent, crash-prone or easy to get subtly wrong, checks them with TLC and
proves the most important facts with TLAPS. Line numbers below are of the
sources in `src/`; `PROJECT.json` has the same correspondence for every
definition (`map`), the runs, the mutants and the hazards.

- [How the system works](#how-the-system-works)
- [Inventory](#inventory)
- [The modules](#the-modules)
- [The runs](#the-runs)
- [The proofs](#the-proofs)
- [Where code and documentation disagree](#where-code-and-documentation-disagree)
- [Observations](#observations)
- [What is not modelled](#what-is-not-modelled)

## How the system works

One invocation of `xut run` takes tests (from `tests/**/test.yaml`) and runners
(python, iverilog, xsim, verilator, and iverilog-vz, the companion of
verilator). The python runner of a vector test generates a stimulus with
`stimgen`, has `validate` accept it, and replays it through the golden model of
the primitive (`golden` and `models/`), which gives the expected trace and the
coverage it reached. The simulator runners take the stimulus and the expected
trace from the python run's directory, build the generic testbench around the
wrapper `wrap` made, run the simulator in a container (`container`) or, for
Vivado, on the host (`slots`), and compare the traces. Each writes a
`result.json`, stamped with the state of the sources (`provenance`). Heavy
commands, container builds and full test runs among them, are admitted to the
host by `xut heavy` (`heavy`). `xut status record` turns the results into
status files, and `xut crosscheck` compares all traces of a test and classifies
what disagrees.

    stimgen -> validate -> golden replay -> expected trace --.
                  |             |                            v
                  |       golden models            runners -> result.json + stamp
                  v                                 |   |         |        |
             stimcompile -> testbench  -------------'   |         v        v
                                     container / slots -'   status     crosscheck
                                           |                record
                                         heavy

Three kinds of shared state connect the parts. The first is the file system:
run directories, lock files, status files and the git tree, which several
processes read and write without a lock between them, the lock files apart.
The second is a process's own memory, shared by the threads of `run_tests`'s
pool: the stop event, the set of live containers, the provenance cache. The
third is what outlives a process: containers (their parent is dockerd), Vivado
(in a session of its own) and the open file descriptions a scope inherits.

## Inventory

What each component keeps, does and meets, and what makes it correct. *Hard*
names what tests hardly reach.

### Processes and the host

**heavy** (`tools/xut/heavy.py`). State: `xut-heavy.lock` (the old mutex, now
shared), `gate.lock`, one lock file per token, and the descriptors that a
running scope inherited. Operations: parse and refuse a declaration, take the
gate, collect tokens one flock at a time, leave the gate, start the scope, give
everything back. Hard: death of the `xut heavy` process while the command runs
on, two commands that compete for tokens, old-style callers of the mutex,
nesting. Correct when tokens are exclusive and cover what runs, nobody holds
some and waits for others, and the one at the gate is never overtaken.

**slots** (`tools/xut/slots.py` with `runners/xsim.py` `run_script`). State: one
lock file per Vivado slot. Operations: scan, run Vivado, time out and kill its
process group, release. Hard: threads and processes scan together, processes
may allow different numbers, xut may die. Correct when no more Vivado runs
exist than slots.

**container** (`tools/xut/container.py`). State: `_LIVE` (containers of this
process), `_HALT`, the containers themselves. Operations: `run`, `_finish`
(kill, inspect, remove), `kill_live`, `sweep_orphans`; mount rules, size
parsing, the tool version cache. Hard: interrupts that race a start, docker
commands that fail, death of xut, pid reuse, the meaning of exit 137. Correct
when every container is removed by somebody, no container starts after the
halt unseen, and a log says OOM only of an OOM kill.

**run** (`tools/xut/run.py`). State: the list of futures, the stop event, the
results, `summary.json`. Operations: order and de-duplicate the runners, add
companions, run python first, submit, wait, and on KeyboardInterrupt cancel,
take a snapshot, kill, drain and summarise. Hard: the interrupt at any point.
Correct when the summary holds whole runs only, python precedes everything that
reads its output, and nothing runs when it returns.

### Evidence

**provenance** (`tools/xut/provenance.py`, `RunResult.stamp`). State: a cache
per invocation. Operations: read HEAD's tree hash of the primitive's inputs and
their cleanness, stamp a result. Hard: two git processes, edits meanwhile, the
stimuli of an older python run. Correct when what is stamped is what was
measured.

**status** (`tools/xut/status.py`). State: the status files. Operations:
`record`, stubs and their refresh, coverage, `TODO.md`, `PROGRESS.md`. Hard:
results that are missing, of different ages, unusable or declared out, over
tests, flows and runners; the Verilator guard. Correct when a recorded pass
hides nothing and coverage was earned.

**crosscheck** (`tools/xut/crosscheck.py`). No state but findings files.
Operations: gather results, compare every pair, classify (transform bug, model
divergence, golden bug, test bug and more), decide the exit code. Hard:
agreement by omission. Correct when only traces of one tree are compared and
every disagreement has a class.

**results, modelsrc, testspec, paths, errors, schemas, seeds**. Readers of
files and definitions of names, without state.

### Vectors

**stimgen, formats/xvec, validate** (`VecBuilder`; the format; port-class
rules). State: the builder's cursor and what it has emitted. Hard: which events
may share a time, separations around asynchronous events, free-running clocks.
Correct when every sequence of builder calls gives a stimulus that `validate`
accepts.

**golden** (`tools/xut/golden.py`). State: the model, the polarity, data and
class bins reached. Operations: replay of the events in time order, the
implicit release of GSR, sampling. Hard: the order of co-timed inputs, and the
agreement with the testbench.

**golden models** (`models/xut_models/`). State: Q with its provenance, the
pins, GSR, the claims hit. Operations: `power_on`, `glbl`, `set_input`,
`clock_edge`, `eval`. Hard: precedence between GSR, asynchronous controls and
edges; what may be called documented. Correct when Q is what UG953 says, and
a claim is credited only for what UG953 says.

**stimcompile and `hdl/xut_vector_tb.sv`**. State: the operation image, the
testbench's position. Correct when the testbench replays the stimulus's order.

**wrap, cocotb_dut, `hdl/cocotb_run.py`**. The DUT wrapper and its bit map; the
launcher and the handle of cocotb tests inside the container.

### Runners

**base, sim, reject, python, iverilog, xsim, verilator, sv_nets**. State: the
run directory, the outcome of each configuration. `Runner.run` is a template
that ends in a `result.json` on every path; `sim` has the ladder from compiler
output, exit code and output to an outcome, `reject` the rule for
configurations that must be refused. Hard: a failure at every rung, and a run
that fails for the wrong reason. Correct when no path gives a pass that was
not measured.

### Verilator's models

**verilatorize** (`analyze`, `rewrite`, `zcmp`, `driver`, `equiv`). State: the
transformed copies and `report.json`, keyed by hashes. Operations: the
shadow-register transform and the z-compare rewrite, the equivalence run, the
gate in front of every Verilator result. Hard: staleness of what is cached, and
equivalence of the transform under overlapping triggers. **portability** runs
every model on Icarus and Verilator and publishes the table by which lint judges
what a test may declare.

### Catalog and repository

**catalog** (`build`, `model`, `portclass`, `ug953`, `unisim`) extracts ports,
attributes and claims from UG953's text and Verilog headers. **lint, workunits,
ci_select** are functions of a tree and a list of patterns; ci_select decides
whether a pull request is tested at all, and lint also holds
every test against the portability table. **unitkit** is test
support; **cli, doctor, docs_fetch** are the command line, host probes and
downloads.

## The modules

Each component's module has its state as variables, one action per operation
or per step that others can come between, and its properties at the end;
`MC<module>` fixes a small instance; the theorems are in
`<name>_proofs`, which may cover several modules. A
definition named `x_Something` before `x` is `x` with a plausible bug in it:
substituted for `x`, it makes TLC find a property violated (`PROJECT.json`
pairs them). Definitions keep the names of the code where they model one
function.

| module | code | composes |
|---|---|---|
| HeavyAdmission, TokenPool | `heavy.py` | refines TokenPool |
| VivadoSlots | `slots.py`, `runners/xsim.py` `run_script` | |
| ContainerRuns | `container.py` | |
| TestRun | `run.py` | |
| RunCommand | `cli.py` `run_cmd`, `testspec.py` `select`, `ci_select.py` | extends TestRun |
| Provenance | `provenance.py`, stamps in `runners/base.py`, their checks in `status.py`, `crosscheck.py` | |
| StatusRecord | `status.py` `record`, `crosscheck.py` `verilator_unconfirmed` | |
| StatusFile | the rest of `status.py`, bins of `golden.py`, `catalog/model.py` | extends StatusRecord |
| SdrFlop, UG953Flop | `flops.py` under `golden.py`'s replay | refines UG953Flop |
| ModelGate | `verilatorize/driver.py`, `equiv.py` `check_model`, the gate in `runners/verilator.py` | |
| Portability | `portability.py` | extends ModelGate |
| PortabilityLint | `cli.py` `portability_cmd`, `lint.py` `check_portability` | extends Portability |
| Verdict | `runners/` (`base`, `sim`, `reject`, `python`, `iverilog`, `xsim`, `verilator`) | |
| Stimulus | `stimgen.py`, `formats/xvec.py`, `validate.py`, `stimcompile.py`, `hdl/xut_vector_tb.sv`, `golden.py` | |
| EquivStimulus | `verilatorize/equiv.py` | extends Stimulus |
| Crosscheck | `crosscheck.py`, `cli.py` `crosscheck_cmd` | |

### HeavyAdmission, TokenPool

One `xut heavy` per element of `Commands` and one old-style `flock` per element
of `OldCommands`. `proc` is where the process is, `scope` what is left of its
command, `tokenFd` and `scopeFd` the token files that the process and the scope
have open: one open file description in two file tables, so that a lock lives
until the last table drops it. `Start` is `run()` up to the first lock with
every refusal (`Accepted`: nesting, declared parallelism against
`--containers`, sizes, the budget), `ShareLegacy` and `TakeGate` its two waits,
`TryToken`, `Rescan` and `LeaveGate` the loop of `_take_tokens`, one flock per
step, `Launch` the `subprocess.run` with `pass_fds`, `Collect`, `CloseToken`
and `CloseLegacy` the ExitStack. `CommandExit` may leave background processes
behind. `Kill` and `Interrupt` come anywhere. A command line is the set of its
commands (`Line`), the scripts of `bash -c` opened up; finding the options in
the text is text processing. `TokenPool` is the promise: tokens are granted in
full and at once, and returned in full; `granted <- scopeFd` maps the protocol
to it.

### VivadoSlots

One element of `Runs` per call of `run_script`, by a thread of `Proc[r]`, whose
environment allows `Limit[p]` slots. `TrySlot` and `ScanAgain` are the polling
loop of `vivado_slot`, `LaunchVivado`, `VivadoExit`, `CollectRun` and `Timeout`
are `run_script`, where `Stubborn` are the calls whose process group is not gone
when the wait after `killpg` itself times out, and `KillProcess(p)` is the death
of a whole process, which drops its locks and leaves its Vivado runs. A run counts
as *attended* while somebody waits for it.

### ContainerRuns

One element of `Calls` per call of `DockerExecutor.run` of a process. `Register`
is the critical section (check the halt, register), `StartClient` the start of
`docker run` after it, `ClientExit`, `HostTimeout`, `KillAfterTimeout`, `Inspect`, `Remove` and
`Deregister` the rest of `run` and `_finish` in order, each docker command with
the possibility that it failed. `KillLive`, `KillOne` and `KillLiveReturns` are
`kill_live`, `Die` the death of xut, `PidReused` what then happens to its pid,
`Sweep` what `sweep_orphans` does to one container. The daemon creates a
container (`Create`) and it ends by itself, by OOM, or by its in-container
timeout. Assumptions about docker: a container comes up only while its
`docker run` client lives, and the in-container timeout does not fire before
the host's, which starts earlier and is shorter by 30 s (`_GUEST_GRACE_S`), as
long as xut lives.

### TestRun

The main thread of `run_tests` (`main`, with `todo` what its current loop has
left), the futures (`fut`), and a pool of `Jobs` workers. `Names` is the
de-duplicated selection with its companions, `First` the python runs of vector
tests, `Rest` everything else in order. A future is queued, taken (before the
stop event is looked at), running, written (the result is there, the future
not yet done), done, refused, interrupted (`RunCancelled`) or cancelled.
`Interrupt` is the KeyboardInterrupt, which Python delivers to the main thread
only; `CancelOne`, `Snapshot`, `KillLive` and `Interrupted` are the handler in
order, between whose steps the workers go on, with `write_summary` in the
normal end and in the handler. A run under `kill_live` may produce a result
that is an artefact of the kill. One interrupt is modelled.

### RunCommand

An invocation is a command line (selectors, filters, runners, `--jobs`), the
state of the tree that can refuse it, and, when CI runs it, the change that was
made (`ci`). `Parse` is everything before `run_tests`: `ci_select`'s `select` on
the files that `changed_files` lists, the cap on `--jobs` (`max_jobs`), unknown
runners, `discover`, the selectors (`Unmatched`), the filters (`Cases`) and the
model source, in the code's order, each with its exit code. Then every step is
one of `TestRun`, in which a run that ends gets a status (`Statuses`), and
`Finish` is the rest of `run_cmd`. `CallAssumption` says that the invocations
that get through call `run_tests` as the constants of `TestRun` say.

### Provenance

A *version* is the contents of a primitive's inputs and stands for its tree
hash too, so two contents never share a hash. A developer edits, commits and
checks out; `StartRun` starts an invocation on some of the runners, whose jobs
go through `Reset` (the run directory is removed), `StampCached` or `ReadHead`
and `ReadStatus` (two git processes, and a cache that two jobs may fill at
once), `GenerateStimuli` or `Simulate`, and `WriteResult`; `Abort` ends the
invocation anywhere. `RecordHead`, `RecordStatus` and `RecordResults` are `status record`,
`Crosscheck` the check in `crosscheck.py` that results are of one clean tree. Each
result carries in `of` the versions it was really measured on, which no code
sees: the properties compare the stamps with it.

Nobody is assumed to be careful: the tree is edited, committed and checked out at
any time, between the two git processes and between a stamp and the measurement
too, and any runners are re-run without python. Some of the results so made
carry a false stamp, and no check of the code can tell. Two more fields that no
code reads say which: `still`, that the tree has stood still since HEAD was read
for a stamp (`MoveTree` ends it in every stamp and in the cache), and `sure`, that
it did so until the measurement, and that a simulator's stimuli were made as
surely, on a clean tree and under the same hash. The properties are about a
record or a comparison whose every result is `sure`: of such results each stamp
is right, however their runs interleaved with edits, aborts, other runs and the
recorder, and what else lies on disk does not matter (see
[Observations](#observations) for the others).

### StatusRecord, StatusFile

`StatusRecord` is one record at one level against the reference model source.
`Run` makes any result that the declarations, the styles and the scenario
allow, `Commit` changes the primitive's inputs and declarations or something
else, `Record` is `record`, with all of its reading, refusing, aggregating,
guarding and crediting in one action, because it runs alone. `companion_gap`
and `verilator_unconfirmed` are crosscheck's comparison of iverilog with
iverilog-vz; `worst_result` and `RECORD_PRECEDENCE` the aggregation over tests;
`runner_mark` the display's over flows; `Credited` the configurations whose
bins count. A trace is one of two model values, and a configuration to be
rejected has none.

`StatusFile` extends it to the life of the file. The catalog entry is data
(ports with class, width and polarity, attributes, crosses, claims) under
overrides that a commit may change (`merge`, `load_entry_ok`); `coverage_bins`
names its bins, and a stimulus, a sequence of sets, edges and samples, reaches
them through `coverage_reach` in the golden replay. What a test's
configurations apply depends on the inputs and, for a generator, on the seed
(`inputs.stim`: one way for each). `FileRun` remembers of a golden run which
stimuli it made and what the replay reached (`replay`): all that the code reads
later (`_config_attrs`; `InTestYaml` for a test that is no vector test).
`StatusInit` is the stub with `--refresh-bins`, `FileRecord` and `RecordOther`
the two halves that records write, and `_source_suffix` the mark of a level on
which another model source disagrees. `touched` are the commits that changed
the inputs; a tree hash is the last of them.

### SdrFlop, UG953Flop

`SdrFlop` is the golden model of FDRE, FDSE, FDCE and FDPE under the replay of
a stimulus. `attrs` fixes the primitive (asynchronous or not, the value its
control forces) and its configuration; the operations of the model are
operators from a model to the next one (`Glbl`, `SetInput`, `ClockEdge`), with
the output's provenance and the claims hit. The actions are the events that
`validate` lets happen: `Initialise` (the sets of time 0), `Release` (the
implicit release of GSR at `ROC_WIDTH`), `Set`, `Edge`, `GlblGsr`. Citations are
kept to what matters: an attribute page, a page, one of the two inferences.

`UG953Flop` says what the catalog's claims C1 to C7 promise, without any order
of evaluation: at each event every rule in force dictates a value of Q; Q
takes one of them, and is documented when there is no doubt.

### ModelGate

On disk, and kept from one process to the next: the sources' versions (`tree`,
which stands for every hash of a model's key), the copies (`copy`) and the
manifest (`manifest`: per model the version, the linked hierarchy and a verdict
per configuration). A process (`up`) has the loaded manifest (`entries`), the
pairs it checked (`checkedBy`) and threads: one job per configuration of a
model that `xut run` builds, for verilator or its companion (`Guards`), or the
single job of `xut verilatorize --check`. `Lock`, `Load`, `TransformBegins`,
`Write`, `TransformEnds`, `Save` are `ensure_model` around `verilatorize`, under
the model's lock and the manifest's. A copy is removed, then truncated (`Torn`),
then whole: `write_text` opens the file and writes it, and a kill may come
between. A transform may crash and leave part of its work (`vz`); a job of
`xut run` transforms one model at a time, the command as many as it has workers.
`Prepared`, `Gate`, `Skip`, `CheckBegins`, `CheckEnds`, `Record`,
`Decide` are the gate: which pairs of the hierarchy need a verdict, which
verdicts stand (`Kept`), `check_model`'s ladder over everything two simulations
may end in (`Worlds`, `Verdict`), and its answer for the build. `CompareOne`
and `SaveVerdicts` are `--check`. `Stop` kills the process anywhere,
`Interrupt` is Ctrl-C in the command, whose `finally` saves what was loaded,
and `Edit` changes a model or the simulators, or removes a copy (of `Removals`),
while no process runs.

### Portability

After the command of `ModelGate` has ended, `Begin` lays out the scripts of the
models that can be built; `Take`, `Launch`, `ContainerEnds` and `RunOne` are the
pool of `--jobs` threads and the executor, where `Left` is everything a script
killed between two of its lines can leave (its `rc` file, log lines, an OOM
note, the host's timeout, an error of docker); `Cancel` is the interrupt.
`Category` classifies a script, `WriteTable` makes the rows.

### PortabilityLint

`page` is what is in `status/PORTABILITY.md`: nothing, or the set of the tables of
each model source. `Publish` is the end of the command, which renders the table
just made together with another source's (`OtherTables`) if `--write` was given.
`check_portability` is lint on any test (`Tests`: every primitive of `ModelOf`,
every declaration) as a set of issues: `YesIssue` for a `yes` that a row
contradicts, the rule on the equivalence verdict, `Unexplained` for an
`unsupported` without a row behind it, `Unverified` for a gated row without a
verdict. `LintFollowsTheRun` holds the issues against the scripts' ends and the
kept verdicts, not against the rows.

### Verdict

One test, of any style, first by python and then by one simulator's runner.
What a build and a run really do is chosen freely among what their exit codes,
logs and files can show (`Builds`, `Runs`, `VectorRuns`, `SvRuns`,
`CocotbRuns`); `classify_run`, `vector_check`, `sv_check`, `_cocotb_verdict`,
`reject_result` and Verilator's combination of two X seeds turn each into a
status. `Skip`, `Begin`, `Configs`, `RunConfig`, `Finish`, `Raise` and
`error_result` are `Runner.run`. A simulation that times out raises, of one seed too,
and so is among the refusals of its configuration (`TimedOut` is what a cocotb run can
leave of a trace then). A build of xsim may run although its output counts as a failed
compilation (`Builds`). Every result carries `truth`, what the
simulations did ("good", "seen" when something went wrong before our eyes,
"neither"), which no code reads.

### Stimulus, EquivStimulus

The life of one stimulus: built by a generator call by call, or read from a
file with a free clock; validated; compiled to an image; replayed by the
testbench. The builder is a record (`NewBuilder`) and each public call of
`VecBuilder` an operator on it and an action (`InitPort`, `Set`, `Async`,
`Glbl`, `Edge`, `Sample`, `Cycle`, `Wait`, `Open`, `Close`, `Build`).
`validate` is the conjunction of its named rules, over events merged with
`free_clock_edges`; `hw_renderable` the reasons against a stepped harness.
`compile_vec` gives the words with END, and `Replay`, `Generate`, `Tick`,
`FinishReplay` are the testbench with its clock generator, against `replay`, the
golden order. One unit of time is 1 ns of the validator; ports are one bit wide.

`EquivStimulus` adds the generator of the equivalence check: `Phases` are
functions of the triggers to builder calls, each phase an action (`Phase`) that
fails at the first call that the builder refuses.

### Crosscheck

The results on disk per model source, flow and runner; the author's
`expected_divergence` entries and the files in `findings/`. `Run` writes a
result, `Commit` moves HEAD, `List` edits the entries, `Close` closes a
finding, and `CrossCheck` is the whole command in one action, because it runs
alone: `gather`, pairing, `DiffPoints`, the classes with their precedence, the
issues, the verdict, the exit code and `record_finding`. A trace shows one bit
of one port in each configuration, or that the port is missing or of another width;
the order of samples is left out. A finding of the board has no model source
(`model_source`).

## The runs

| run | module, instance | properties | shows |
|---|---|---|---|
| `heavy_admission` | MCHeavyAdmission: commands of one and two tokens out of two, one repeated for ever, one started in another's scope, one old-style command | BudgetKept, OldRunsAlone, NeverOvertaken, PoolSpec, GateHolderIsAdmitted | the budget holds, kills included; the protocol implements the pool; the gate holder does not starve and no nested command deadlocks |
| `vivado_slots` | MCVivadoSlots: two calls of a process with two slots, two of one with one slot | AttendedWithinLimit, EveryCallEnds | the runs somebody waits for keep within both limits |
| `container_runs` | MCContainerRuns: two calls | NoneUnseen, OomLineIsReal, ContainersEnd, InterruptDrains | no container starts unseen or runs for ever |
| `test_run` | MCTestRun: two tests of three, python, verilator, its companion; two workers; 58 invocations | SummaryIsGenuine, PythonFirst, EveryCommandAnswers | the interrupt is handled at every point, and the exit code can be believed |
| `provenance` | MCProvenance: two versions, python, two simulators, edits and re-runs at any time | EvidenceIsOfTheTree, OneTreePerComparison | what is recorded or compared was measured on one clean tree, but for a result under which the tree moved or that had another tree's stimuli |
| `status_record` | MCStatusFile: two tests, flows and configurations, two commits, six scenarios | VerilatorIsConfirmed, NothingIsHidden, CoverageIsShown, MarksCompareLikeForLike | records are confirmed, fresh and hide nothing; every covered bin was shown by the stimulus of a golden run that passed; sources are compared on one tree |
| `sdr_flop` | MCSdrFlop: every primitive and configuration, stimuli of any length | OrderIsIrrelevant, ImplementsUG953 | the golden model implements the documented rules |
| `model_gate` | MCPortability: a model over a helper, three versions each, two versions of the simulators, three jobs, three scripts | NeverStaleOrMissing, GateHolds, EveryJobEnds, TableIsTrue, EveryScriptCounts, LintFollowsTheRun | builds read the right copies, only proved ones; the table says what was run, and lint asks of a test what was seen |
| `model_gate_reverted` | MCModelGate, `Reverts` TRUE | NeverStaleOrMissing (violated) | a copy of a version that came and went is used |
| `verdict` | MCVerdict: an ordinary, an excluded and a rejected configuration, every style and simulator | PassIsEarned, FailIsSeen, MatrixIsWhole, EveryRunnerReports | a pass and a fail are earned, no configuration is lost |
| `stimulus` | MCStimulus: every generator of four calls, 7000 frozen files, the equivalence stimulus of one or two triggers | NoGeneratorBug, EveryTriggerIsShown, ValidByConstruction, SameReplay, EveryReplayEnds | what is built is valid and replayed as predicted |
| `crosscheck` | MCCrosscheck: two configurations, six scenarios | NothingMasked, AgreementIsEvidence, RecordIsKept | divergence is neither masked nor lost; agreement is evidence |

**Bounds, and why they are enough.** *Heavy*: two tokens are the least where one
command fits beside another and a larger one does not; `a` and `b` differ in
size and rounding, `w` needs the whole budget, `n` is nested, and `b`'s line has
options that must be counted and one (`tail -50`) that must not. Nothing in the
protocol depends on how many more there are, which the proofs confirm for the
safety properties. *Slots*: two processes with different limits and two threads
each give every combination of same or different process and limit.
*Containers*: calls share only `_LIVE` and the halt, so two of them meet in
every way a pair can. *TestRun*: two tests, one with a python run before and
one with python in the pool, and two workers: one goes on while another is
queued, taken or done. *RunCommand*: a third test
for the filters to leave out; every refusal alone and, where their order matters,
with another; `MayEnd` gives one golden run and one simulator bad ends. *Provenance*: two versions are enough for "the same" and
"another"; going back to an old version is included. `Unread` lets
nothing happen while a status file or a comparison is looked at, which no step
reads. *Status*: two of each kind
is the least where one can hide the other; `MaxHead = 2` gives results before,
at and after a change, and dirty ones; the scenarios (`MCStatusFile`) bound
which results are made, with the same actions in each. One more bound is
named in a guard: `Remade` (of one record, a result is made again at a later
commit only, unless the tree was dirty). The generator has two seeds in
`Coverage`, and under one of the overrides in `Life`. *SdrFlop*: no bound, its state space is finite. *ModelGate*: a
model and its helper are the least hierarchy; three versions make each model
rewritten, unchanged or (the upper one) refused; `MaxSims = 2` is an upgrade;
`top`, `guard` and `command` are the three kinds of job. `Reverts` FALSE
excludes the case of `model_gate_reverted`. `Removals` has the upper model: its
copy may be removed beside its entry and then be read torn (see
[Observations](#observations)), while the helper's is never torn. *Portability*: the first script may
end in all fourteen ways `Anything` lists, the others in those that combine
with it in one row. *PortabilityLint*: one other source, whose row of the upper
model contradicts the run's for Icarus and agrees for Verilator; tests of a model
with rows of its own, of a retargeted one, and of one without a row. *Verdict*: configurations of a runner meet only in its
result, so one of each kind shows what more would. *Stimulus*: `MaxCalls = 4`
allows a call before, inside, and after a simultaneous block and every two
separations to meet; the numbers are the smallest where the gap of the
primitive (3) exceeds the asynchronous separation (2), the wait (1) is shorter
than both, and the settle time covers the release of GSR (`StartsClear`, as the
default settings do); the files place a
set, starts and stops of the clock at every offset to two periods' edges, also
of a clock that runs. *Crosscheck*: two
configurations are the least where one agrees while the other does not; each
scenario varies what its name says.

**Symmetry** is used for versions and simulators (Provenance) and for traces
(StatusFile), whose values the modules only compare for equality, and only in
runs without liveness properties.

**Deadlock** is checked in `heavy_admission`, `provenance` and `sdr_flop`, which
never stop. The others stop when all calls or jobs are over, the table or the
results are written, the stimulus was replayed or refused, or the commits are
used up, which is what the program does.

**Fairness.** Every fairness condition is weak and on one thread's own next step:
the kernel schedules runnable processes and Python runnable threads. Nobody is
forced to start, edit, interrupt or kill.

- *HeavyAdmission*: a process that can go on does, and every command ends, since
  heavy commands are finite jobs. Nobody is promised the gate against
  competitors, because flock wakes its waiters in no order; so
  `GateHolderIsAdmitted` is about the holder of the gate only.
- *VivadoSlots*: scans go on and Vivado ends, which its timeout enforces. A poll
  may always come too late, but there are only finitely many calls.
- *ContainerRuns*: clients, timers and the calls' threads go on. A container need
  not end, no docker command need succeed, and nobody need sweep: termination
  rests on the timers alone.
- *RunCommand*: threads run and every run ends, because each has a timeout and
  `kill_live`'s containers go (`InterruptDrains`).
- *ModelGate, Portability*: each job's next step (`WF_vars(Step(j))`); the smoke
  run itself has no liveness property, because a container may end when it
  likes.
- *Verdict*: `WF_vars(Next)`, one thread going through a template; each build
  and run ends, by its timeout if by nothing else.
- *Stimulus*: the testbench's steps; a generator need not go on calling.

Provenance, StatusFile, SdrFlop and Crosscheck state safety only: nothing in
their code promises that something will happen.

## The proofs

Everything proved is a theorem of a specification's safety part, for every value of
the constants that the named assumptions allow; no fairness is used. TLC checked
each formula on the run's instance first. Theorems that state a property of a
run are listed with it in `PROJECT.json`; the others (types, `Exclusive`,
`RunningIsCovered`, `RemovedOnEveryPath`, `QuietAtEnd`, `CancelledNeverEscapes`,
`CleanStampIsTrue`, `NoHoldAndWait`, `TickIsWhole`, `CoverageIsEarned`, `ClaimsAreDocumented`,
`ExitCanBeBelieved`, `RecordsStayTrue`, `HoldsUnderTheCommand`) need no run beside
their proof.

**HostLimits_proofs** has three independent parts, on what xut processes keep to on
the host they share.

*The budget* (any commands, command lines, sizes and number of tokens;
`CommandsAssumption`, `BudgetAssumption`). The invariant goes in layers. `Places`
says what the place of a process tells about its file table and its scope: the
gate is held exactly by who collects (`GateOwner`), outside the section no token
file is open, an admitted command holds all of its tokens, whoever passed the
first wait has the old mutex shared, and no scope exists before the launch. On
top of it come `Exclusive` (the only step that gains a token, `TryToken`, tests
that it is free, and `Launch` copies within one invocation), `RunningIsCovered`,
and `OldExcludesShared` for the old callers. None of them is inductive alone:
exclusiveness needs nothing but types, but coverage needs that an admitted command
has all, which needs that nobody else empties its table. From them follow
no-hold-and-wait, the never-overtaken action property (`TokensGrowAtTheGate`), and
the refinement `ImplementsPool`: `Launch` is `Grant`, the end of the scope
`Return`, every other step a stutter. `MemoryCovered` says that rounding up makes
the tokens of one scope stand for at least its memory, and `BudgetIsKept` that all
running scopes together declare no more than the budget: each declared unit gets a
place of its own in a token its scope holds (`UnitsFitTokens`), so the set of
declared units injects into the units of all tokens.

*The slots* (any processes, limits and calls; `SlotsAssumption`). `LimitKept`
counts: by `SlotsInv`, `slot` is an injection of attended runs into slots, and the
runs of processes that allow at most n use slots below n.

*The containers* (any set of calls). `NobodyIsOverlooked` needs `Registered` (whoever
is on the way is in `_LIVE`, and whoever is dead is not a thread of a living xut)
and `ClientsSeen`; `EveryPathRemoves` needs `Removed`, that a container gone after
`docker rm` does not come back, which rests on the client being gone. The OOM line
has an invariant of its own, `OomInv`: what can have ended a container and what
`docker inspect` can then show.

**TestRun_proofs** (any tests, selection and number of workers;
`SelectionAssumption`). `Phases` says what each place of the main thread tells
about the pool, `Refusals` that jobs are refused and interrupted only after an
interrupt, `Genuine` that what settled before the kill has a result of its own,
`PythonRuns` that a python run is on disk from its end on and that the pool has no
job before all have ended, `Summarised` what the summary says at each end. Then the
command (`CSpec`, any command lines and changes; `CallAssumption`,
`ReadAssumption`): a step of `run_tests` preserves all of it, `ParseStep` goes
through the refusals in the code's order, `FinishStep` through the ends.
`ExitCanBeBelieved` is the safety half of `EveryCommandAnswers`: when the command is
over, its exit code means what `ExitIsTrue` says; that it comes to be over is
liveness.

**StatusRecord_proofs** (any tests, flows, configurations, runners, declarations
and scenarios; `StatusAssumption`). First `StatusRecord!Spec`, one record after any
results. `disk` and the counters have a small inductive invariant (`Inv`); a status
is written once and by one step, so each property is proved of `Record`
(`RecordStep`, `OnlyRecord`). The substance is in lemmas about operators: `Ranks`
and `WorstResult` (a CHOOSE by precedence that exists and is least), `WorstOfTests`,
`PassHidesNothing`, `Tick`. Then the life of the file, `FileSpec` (any catalog
entry, overrides, stimuli and commits; `FileAssumption`), whose steps are those
of one record or leave what it reads alone, so that what a record says stays true
(`RecordsStayTrue`). `SourcesMade` ties each hash in the file to the commit that
made the inputs of the results beside it, which gives `MarksAreFair`.
`CoverageWasShown` has two halves. `StimuliMade` is the inductive one: a golden run
of the current inputs replayed the stimuli of one of their seeds and reached exactly
what `coverage_reach` computes for them. `ReachIsShown` is about operators: what
`coverage_reach` counts, along the port's class, level and inversion, is what the
bin's name says that the stimulus does. A record then covers only what the stimulus
of a passing golden run shows, in a configuration whose name a simulator passed on
the same inputs (`CoveredIsShown`); that the simulator applied that stimulus is not
proved, because it need not be so.

**SdrFlop_proofs** (stimuli of any length). The invariant adds to the types
`HeldBy`: what GSR and an asynchronous control hold Q at. Without it a `set` that
leaves the level rules in force unchanged would not be a step of `UG953Flop`. One
lemma per operation says what it makes of the model (`SetControlIs`, `GlblIs`,
`ClockEdgeIs`, ...), two say what the abstract rules decide
(`LevelsDecide`, `EdgeDecides`), and the refinement puts them together by action.

**ModelGate_proofs** (any models, hierarchies, versions, simulators, jobs and
configurations; `ModelGateAssumption`, `UsesAreBelow`). The hierarchy is the least
set closed under use (`Reached`), so no recursion is needed to reason about it.
`Base` is what holds whatever is edited: types, `Places` and `Hands` (what a job at
a place has in hand), `OneWriter`, `Transforming` (what a transform has found and
done so far), `AllCurrent` and `EntriesCurrent`: what a process relies on is on
disk, which is `_current` of the whole hierarchy. `IInv` adds what makes a verdict
worth something: `Disk` (a copy is never newer than its source, nor older than an
entry, and an entry of the present version is beside a whole copy), `SeenIsCorrect`
(a comparison reads the copies of the present versions), `BuiltIsCorrect` (so does a
build), `VerdictsEarned` (a pass is of the copies of the entry's versions), `Locks`,
`Checked`, `Progress` and `Granted` (what the gate has let through has a standing
pass for every pair below it). That a torn copy is never beside an entry of the
present version rests on the order of removal and write: a model that is transformed
has no current entry (`Firm`), until the copy is whole. Only the removal of a copy
from outside breaks this, so the invariant takes the set of models whose copies are
removed. `Disk` is also the part that a reverted model breaks: an entry may then be of
a version older than its copy. So `CopiesAreNeverStale` and `TheGateHolds` assume
`~ Reverts`, and the run `model_gate_reverted` shows that they must.

The same module has the smoke run beside them (`PortabilityAssumption`,
`LintAssumption`; any order of scripts, any ends, any number of workers).
`SmokeInv` says that the models are prepared when the scripts start
(`AllPrepared`), where a script can be (`ScriptPlaces`), that each is counted once
(`Counted`), that the logs read are what the containers left (`LogsAreNotes`), and
that table and page are made of rows of exactly these (`TableOfRows`,
`PageOfTables`). What a row then says is operators: `WhatCategorySays`,
`WhatCellSays`, `WhatEquivSays`, and for lint `WhatLintSays` with a lemma per issue.
`TheTableIsTrue`, `EveryScriptIsCounted` and `LintFollows` need no hypothesis on
`Reverts`: the command makes everything current in the process that runs the
scripts. `GateHoldsBesideTheRun` is the gate under the composed specification.

**Crosscheck_proofs** (any model sources, flows, configurations, results, entries
and findings; `CrosscheckAssumption`). The invariant is what can be on disk. The
proofs are about `CrossCheck`, one action: `ConflictIsFound` says that two results
which show different values are among the pairs or have a class,
`DisagreementIsReported` that what has a class is in the report and so in the exit
code, and `AgreementHasEvidence` goes the other way, from the verdict "agree" back
to two results of one tree that show the same. `TheRecordIsKept` is an action
property of the files.

**Stimulus_proofs** is about the stimulus that every runner is given, whichever
generator made it. Two parts.

*The builder* (any gaps, periods, settling times and waits that the
constructor accepts; generators of any length; `StimulusAssumption`). `ValidByConstruction` is about the whole list of
events, and none of the rules of `validate` is inductive: what makes the next
event fit is what the builder remembers. `BInv` says how: distinct times are a
gap apart (`Ordered`); every event is initial or past `settle_ps` (`Cleared`);
the times in `change`, `edge` and `at` are the last of their kinds, and no
sample or lonely asynchronous event is still at the cursor (`Past`); what is at
the cursor may share its time (`Cursor`); any two events may share a time or are
far enough apart (`AllApart`); a marked event has company (`Marked`); the edges
alternate up to the level (`Levels`). `AddsEvent` is the heart: an event put at
the cursor keeps all of it if it is a data set, or in a block, or starts after
the last change and the cursor then moves past it. One lemma per call
(`SetKeeps`, `AsyncedKeeps`, `GlbledKeeps`, `EdgedKeeps`, `SampledKeeps`,
`CycleKeeps`, `OpenedKeeps`, `ClosedKeeps`, `InitKeeps`) shows that the call meets
the condition; `BuiltIsWhole` adds the end, and `WholeIsValid` derives each rule.
The proof uses of the constructor's refusals that the gaps and the separation are
at least `MIN_SEP_PS` and that `settle_ps` is past the release of GSR by as much; it
does not use `3 * gap <= period // 2`, which concerns the length of a cycle and not the
validity of its events. One rule of `validate` does not follow, the distance of events
from the release of GSR (`ClearOfRelease`): it is proved where `settle_ps` covers
`async_sep_ps` (`StartsClear`), and every other rule (`ValidButRelease`) without that
(see *A builder that is refused* below).

*The replay* (any files and any built stimulus; `FilesAssumption`: what the parser
accepts). `SimulatorSeesTheGolden` compares two very different computations: the
golden model lays out the edges of a free clock by division and applies the events
of each time together; the testbench runs words one time step at a time, beside a
process that waits for its phases to end. `Replays` says how far the second has
come. All of it is relative to the cut, the time before which all words have run:
that is `now` while words of this time are pending, and `now + 1` otherwise. The
inputs are the last sets before the cut (`Inputs`), the clock is enabled if a run of
it spans the cut (`EnIs`), the generator is in a phase after a rise (`GenIs`), and
the device has been shown the events before the cut and the clock's edges up to
`now`, no other (`SeenOnly`), and all of them except what is due at this very time
(`SeenAll`, `EdgesSeen`). That the two agree on each edge rests on the runs of the
clock: of a file that `validate` accepts and whose clock starts at rest they come
one after the other (`RunsInTurn`), each stops inside a low phase that ends before
the next start (`StopsLow`), so that two rises are a period apart whichever runs
they belong to (`RisesApart`), each is followed by its fall (`FallFollows`) and, if
the clock is still enabled a period later, by another rise (`RisesNext`). One lemma
per step of the testbench (`NewTbReplays`, `ReplayedKeeps`, `GeneratedKeeps`,
`TickedKeeps`) keeps `Replays`; `CompiledIsImage` says of the compiler that its words
are the file's events in order, with its own start and END; `DoneAgrees` concludes.
The least of a set of times is found by well-founded induction (`Smallest`).

**Evidence_proofs** extends it with the one generator whose calls are modelled, and
goes on to what a run leaves behind. Three parts.

*The equivalence stimulus* (any triggers, each listed once, in any order, any random
moves and rounds; `EquivStimulusAssumption`: `analyze.py` sorts a set of them).
`NoAnalysisFailsTheGenerator` says that no phase ever fails: no trigger is driven to
the level it has, no clock is cycled that is held high, no call is made that the
builder refuses, and `validate` takes the result. `EveryTriggerShown` says that the
result is worth comparing on: its samples show every two triggers in their four
combinations, each trigger so with an asynchronous input that is none, and every value
of a data trigger, and each trigger but the clock changes both ways at the very time of
a rising clock edge. One
invariant, `EquivInv`, gives both. Between two phases nothing is driven, the clock is
low, a data trigger is zero, the builder is fit for its next call, and for each phase
that is over the events already contain what it is there to show (`SaysOf`). The
stimulus begins under `StartsClear`, since `equiv.py` makes its builder with the default
settings. To speak
of what events contain, `LogIs` reads the value of an input off a prefix of them; that
the builder's own values are the last ones logged (`Tallied`) is part of the invariant,
and so is that no two edges and no two changes of GSR share a time (`Twinless`), on which
the reading by time in `Level` depends.

Inside a phase `EquivInv` is too weak, and the phase is a fold over as many commands
as the analysis makes; so the fold itself is opened. `FoldIs` and `FlattenIs` give the
function that each CHOOSE of the library's definitions stands for, step by step
(`RunSteps`, `RunConcat`, `RunFlat`). A block of commands is `Safe` if it leads from a
calm builder to a calm builder, and `Reveals` a set of event lists if its end is in it;
the sets used (`Sights`: a sample at given levels; `Mets`: a change at a rising edge)
last while events are only added (`Lasting`), which is why showing one thing does not
undo another. One lemma per command (`LookCalm`, `ActCalm`, `DriveCalm`, `CycleCalm`,
`ToggleCalm`, `ShowCalm`, ...) says what it leaves of the values, the level, what is
driven and what is known of the inputs; one per block (`PulseSafe`, `CoincidentSafe`,
`PairSafe`, `BesideSafe`, `ShowSafe`, `ToggleSafe`) chains them, and `PhaseTells` adds
the blocks up; that `_pairs` reaches every pair uses that `SetToSeq` enumerates its set
(`PairsEnumerated`). Within `simultaneous()` a weaker state holds (`Inner`): which ports
were set at this time, that the block's events are all after those it opened on, and that
at least as many were made as commands were given; that is why two different triggers
never put the same port twice, why a block is never left with fewer than the two events
it needs (`CloseCalm`), and why the clock's edge and the trigger's change in it are at
one time with the old value just before (`MetIs`). `ValueIs` goes from the log to the
finished file: the value at a time is the one logged at the last event of that time;
`SightShows` and `MetShows` conclude for a sample, alone at its time, and for an edge.

*The verdict* (any configurations, rejections, exclusions and simulators;
`VerdictAssumption`). `Sound` says what a status tells of the simulations behind
it; one lemma per rung of the ladder shows that the rung gives sound results
(`VectorIsSound`, `RejectIsSound`, `CocotbIsSound`, `PairIsSound`, ...). The invariant
carries it through the template: `OnTheWay`, no configuration is lost while a run
is on, and `Written`, what the written result of a whole run tells (`Honest`), on
the exception paths too.

*The provenance* (any versions and runners, edits at any time;
`ProvenanceAssumption`). `Stamped` says, of each job and of the cache, that as long as
the tree has stood still a stamp is current (`Current`), and that a sure measurement
beside a clean stamp is of that stamp's tree alone, of a simulator because sure
stimuli are of the tree they are stamped with. An edit ends `still` and leaves the rest
(`TreeMoved`); a second job may take the first one's stamp from the cache, with the
first one's `still`. From it follows that a clean and sure result is of its stamp's
tree (`CleanStampIsTrue`), and then records and comparisons, which take clean results
of one hash only (`OfOneTree`). `TypeInv` adds to `TypeOK` that a job past the stamp
has one (`StampThere`).

**Model-checked only**: every liveness property (`GateHolderIsAdmitted`,
`EveryCallEnds`, `ContainersEnd`, `InterruptDrains`, `EveryCommandAnswers`,
`EveryJobEnds`, `EveryRunnerReports`, `EveryReplayEnds`), because liveness under
fairness and ENABLED are outside the prover's reach. Every safety invariant and
action property that a passing run checks is the property of a theorem.

## Where code and documentation disagree

**A reverted model** (`model_gate_reverted`). `driver.py:29` says that a copy in
`vz_dir` "is never used stale or missing". `_current` (`driver.py:414`) compares
the manifest's entry with the key of the sources and asks whether the copy is
there, not what it was made from. A transform that is stopped between its copy
and the save of the manifest (a kill, or Ctrl-C in `xut verilatorize`, whose
`finally` saves the entries as loaded) leaves the copy of the new version beside
the entry of the old one; when the old version comes back, as it does when a
branch is switched back, the copy is used with the old verdict. TLC finds the
shortest such behaviour; `model_gate` shows that without a reversion nothing like
it happens.

## Observations

These came up in modelling. Where a model excludes the case, the constant,
guard or assumption that does so is named; lifting it makes the named property
fail.

- *Vivado's limit.* `slots.py:2` promises a host-wide limit. The slot is xut's
  descriptor, which Vivado, in a session of its own, does not inherit: when xut is
  killed, Vivado runs on without a slot. `AttendedWithinLimit` is therefore about
  runs that somebody waits for. `heavy` passes its descriptors on for this reason.
- *OOM lines.* `container.py:330` argues that xut kills only on its own timeout, so
  that exit 137 without one is an OOM kill. `kill_live` kills without a timeout too,
  and an interrupted run's log says OOM. `OomLineIsReal` leaves halted processes
  out.
- *An interrupt during submission.* `run.py:70` says that the summary records what
  completed before the interrupt; `futures` is bound only after the last
  submission, so what has finished by then is left out. `SummaryIsGenuine` is about
  what the summary holds, not about what it lacks.
- *Simulators re-run alone* (`sure`). A simulator re-run without python
  uses the stimuli on disk and carries the new tree's stamp; a python run made
  after it makes all stamps agree on results of two trees. The stimuli carry no
  stamp that a runner compares with its own. With `sure` blind to the
  stimuli TLC finds `OneTreePerComparison` violated by such a simulator.
- *Edits during a run* (`still`, `sure`). The stamp is taken once; what is edited
  after it, or committed between its two git processes, is measured under it; without
  `sure` that is what TLC finds first.
- *A builder that is refused* (`StartsClear`). `stimgen.py:14` says that the
  output is valid by construction. With `async_sep_ps` larger than
  `settle_ps - ROC_WIDTH` the first asynchronous event can follow the release of
  GSR by less than the separation that the header then asks for.
- *Restarted clocks* (`StartsAtRest`). A frozen file that starts a free clock while it
  runs, or stops it before its implicit start, is accepted by `validate`, but the
  testbench's edges then differ from those of golden replay, which
  `stimcompile.py:17` calls exactly the same.
- *Coverage.* Credit joins golden and simulator results by the configuration's name;
  the stimulus's hash is in both but not compared, and another `--seed` only warns.
  A simulator may therefore have passed the stimulus of another seed, or, re-run
  before python, the one of an older tree. A Verilator pass that the same record
  refuses to believe still covers bins (`status.py:665`); the design document
  (515-516) says that a trace difference "blocks the Verilator results".
  `CoverageIsShown` denies neither, and the run excludes neither (a simulator may run
  before python, Verilator without its companion): it says that the golden run's own
  stimulus, of whatever seed, shows the bin.
  `attr:A=v` bins need the literal's own spelling in the configuration, whereas
  crosses take any notation of the value. Unusable results are recorded as errors
  whatever their age.
- *The guard's overlap.* When an iverilog-vz run has a pass or a fail on a
  configuration that iverilog did not run, the guard still confirms: it compares
  the configurations that both ran.
- *A removed copy* (`Removals`). A copy that is removed while its entry is current is
  made again; when that process is killed inside the write (`rewrite.py:398`, which
  truncates and then writes), a torn file is left beside the entry, which nothing
  removed. `_current` (`driver.py:415`) asks for the key and a file, so the next
  process takes the torn file for the copy, and the entry's verdicts for verdicts of
  it. `NeverStaleOrMissing` and `GateHolds` allow this for the models of `Removals`
  and for no other.
- *Crosscheck.* A trace that no rule pairs is not reported when other pairs compare.
  Findings of the board have no model source (`crosscheck.py:575`, `583`, `596`) and
  are recorded as `<flow> / n/a` (`crosscheck.py:680`): a mismatch with the silicon
  that a second source shows shares the first one's line, and no entry that is scoped
  to sources covers either. `RecordIsKept` asks for that line only. An unusable result
  that has kept its stamp counts among the trees (`crosscheck.py:985`), so that it can
  keep findings of the others from being written.
  A new findings file is stamped with HEAD, not with the tree of the results, and a
  closed finding that is seen again is noted but not reopened.
- *Claims.* `ce_hold` (C2) is credited also while Q shows an inferred value. The
  playbook (`docs/superpowers/plans/2026-09-28-unit-playbook.md:97`) says since S52
  that an output whose value depends on an inferred detail never hits a claim; the
  flops unit is older than that ruling, and `ClaimsAreDocumented` excepts it.
- *What python leaves behind.* When the python run's directory cannot be removed
  (`base.py:331`), its runner reports an error and the simulators that follow find an
  older `configs.json` and older expected traces, which they run with. `Verdict`
  starts with any such leftovers, of the same configurations or of none: an older
  list of other configurations is assumed away.
- *Lint's table.* The page carries no hash of the models: lint believes the table
  whatever versions it was made from, and `LintFollowsTheRun` is therefore about
  the page right after its run. For a model that several sources hold, one
  contradicting row is enough to forbid a `yes`, and one is enough to justify an
  `unsupported`.
- *Skipped by CI* (`ReadAssumption`). `ci_select` is right as long as no step of the
  CI job reads a document that `DOC_ONLY` names, which only its comment says.
  The job tolerates exit 1 of `xut run`, because `xut crosscheck --strict` follows.
- *Nested admission.* The refusal at `heavy.py:312` is needed: with it dropped,
  `GateHolderIsAdmitted` fails, because the nested command holds the gate and waits
  for tokens of the scope it runs in.

## What is not modelled

- *Text*: catalog extraction from UG953 and Verilog headers, wrapper and testbench
  generation, the grammars of `.xvec` and `.xtr`, command lines of the simulators,
  the rendering of reports, metadata and status pages, the command line. Their
  correctness is in the wording, which unit tests reach.
- *The rewrites of Verilog* (`analyze`, `rewrite`, `zcmp`) and *`sv_nets`*: functions of
  a parse tree from a library. To state that the shadow-register transform is right
  needs a semantics of Verilog; the repository leaves this to the simulators of the
  equivalence check, and what that check shows them (`EquivStimulus`), what its
  verdict is worth (`ModelGate`) and where it is used (`Portability`,
  `PortabilityLint`) is modelled.
- *Functions of one tree or one list*: `lint`'s other rules, `unitkit`, `modelsrc`,
  `testspec`'s discovery, the schemas. They keep no state and meet nothing.
- *One-shot probes and downloads*: `doctor`, `docs_fetch`, `paths`, the Dockerfile.
- *Other people's schedulers*: cocotb inside the container, the simulators, dockerd.
- Of the modelled components: `runtime_dir` and `vivado_reserved` (heavy); mount
  rules, `max_jobs`, `NativeExecutor` and the cache of tool versions (container);
  contract errors of a golden model, which end a replay; a torn write of a status
  file, which is under git, and which `load_status` refuses when it does not
  validate; x and z values in stimuli; `--models` runs of the smoke table, its
  rendering and a page that does not parse; coverage notes and the matrix of crosscheck.
- *Two processes on one build directory*: two `xut run` invocations reset and write
  the same run directories, and two `verilatorize` processes the same manifest,
  without a lock between processes. The code does not claim to allow it; all
  modules run processes one after the other where they share a directory.
- *Hazards without a property*, for this reason or by documentation: the containers
  of a killed command outlive its tokens (`heavy.py:34`, documented); a second
  KeyboardInterrupt inside the handler leaves `run_tests` without a summary
  (`run.py:126`); a pid that the kernel reuses between `ps` and `docker rm` in a
  sweep; a `result.json` of a killed run that stays on disk although the summary
  leaves it out, which the next run of that test removes.
