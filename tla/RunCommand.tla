----------------------------- MODULE RunCommand -----------------------------
(***************************************************************************)
(* `xut run` from its command line to its exit code (run_cmd in            *)
(* tools/xut/cli.py) around run_tests, by hand or as the CI job that       *)
(* tools/xut/ci_select.py may find unnecessary.                            *)
(***************************************************************************)
EXTENDS TestRun

CONSTANTS
    TestCount,                 \* the tests of the tree are 1 .. TestCount, in order
    Prim, Unit, Level, Style,  \* what test.yaml says of each
    Glob,                      \* the tests that a selector matches as a glob of ids
    WorkUnits,                 \* the names in docs/work-units.yaml
    RUNNERS,                   \* the registry, in order
    DocOnly,                   \* the paths that match DOC_ONLY
    Read,                      \* the paths that the CI job's steps read
    NoPath,                    \* the other side of an added or deleted file
    MayEnd,                    \* the statuses each run may have
    Invocations                \* command lines and where they are given

(* "No container test or flops run reads any of them": so says ci_select.  *)
ASSUME ReadAssumption == Read \cap DocOnly = {} /\ NoPath \notin Read \cup DocOnly

VARIABLES
    line,     \* the invocation
    stage,    \* where the command is
    exit,     \* what it ends with
    verdict   \* the status of each result

cvars == <<vars, line, stage, exit, verdict>>

Bad == {"fail", "error"}

-----------------------------------------------------------------------------
(* ci_select                                                               *)

(* Mutant: git's default, which lists a rename by its new name.            *)
changed_files_Renames(edits) ==
    {e.new : e \in {x \in edits : x.new # NoPath}} \cup {e.old : e \in {x \in edits : x.new = NoPath}}

(* git diff --name-only --no-renames: both sides.                          *)
changed_files(edits) == ({e.old : e \in edits} \cup {e.new : e \in edits}) \ {NoPath}

(* Whether the job's steps run; a diff that fails lists nothing.           *)
select(ci) ==
    LET files == changed_files(ci.edits)
    IN  \/ ci.event # "pull_request"
        \/ ~ ci.listed
        \/ files = {}
        \/ ~ files \subseteq DocOnly

-----------------------------------------------------------------------------
(* The command line                                                        *)

_matches(c, s) == IF s.unit THEN Unit[c] = s.name ELSE Prim[c] = s.name \/ c \in Glob[s.name]

Matching(ss) == {c \in 1 .. TestCount : \E s \in ss : _matches(c, s)}

(* A map of units that is not there knows none.                            *)
load_units(l) == IF l.units = "missing" THEN {} ELSE WorkUnits

(* Mutant: it is enough that one of the selectors matches.                 *)
Unmatched_Any(l) ==
    IF Matching(l.selectors) # {} THEN {}
    ELSE {s \in l.selectors : ~ (s.unit /\ s.name \in load_units(l))}

(* The selectors of no test, but for units that have no tests yet.         *)
Unmatched(l) ==
    {s \in l.selectors : Matching({s}) = {} /\ ~ (s.unit /\ s.name \in load_units(l))}

(* A map that lists a primitive twice is refused, when it is read at all.  *)
UnitsRefused(l) ==
    l.units = "doubled" /\ \E s \in l.selectors : s.unit /\ Matching({s}) = {}

_select_cases(l) == IF l.selectors = {} THEN 1 .. TestCount ELSE Matching(l.selectors)

Cases(l) ==
    {c \in _select_cases(l) :
        (l.levels # {} => Level[c] \in l.levels) /\ (l.styles # {} => Style[c] \in l.styles)}

(* A test.yaml that is no YAML, breaks the schema or repeats an id.        *)
NotDiscovered(l) == l.tree = "invalid test"

(* Every runner by default, but for the companion.                         *)
Default ==
    LET all == Deduplicated(RUNNERS)
    IN  [names |-> all.names \ {"iverilog-vz"},
         before |-> {p \in all.before : p[1] # "iverilog-vz" /\ p[2] # "iverilog-vz"}]

RunnerNames(l) == with_companions(IF l.runners = <<>> THEN Default ELSE Deduplicated(l.runners))

max_jobs(l) == l.budget \div l.cap

(* The registry; what click makes of a command line; and that what         *)
(* run_tests is called with is what TestRun is about.                      *)
ASSUME CallAssumption ==
    /\ RUNNERS \in Seq(STRING) /\ {"verilator", "iverilog-vz"} \subseteq Named(RUNNERS)
    /\ \A l \in Invocations :
          /\ l.runners \in Seq(STRING)
          /\ l.jobs \in Nat /\ l.budget \in Nat /\ l.cap \in Nat \ {0}
          /\ l.tree \in {"sound", "no models", "invalid test"}
          /\ l.units \in {"listed", "missing", "doubled"}
          /\ \A a, b \in l.ci : a = b
          /\ Cases(l) # {} /\ Named(l.runners) \subseteq Named(RUNNERS) =>
                /\ Cases(l) = 1 .. CaseCount
                /\ RunnerNames(l) = Names
                /\ l.jobs <= max_jobs(l) => l.jobs = Jobs
                /\ Vector = {c \in 1 .. CaseCount : Style[c] = "vector"}

-----------------------------------------------------------------------------
CInit ==
    /\ Init
    /\ line \in Invocations
    /\ stage = "parsing" /\ exit = "none"
    /\ verdict = [p \in Pairs |-> "none"]

Exit(code) == stage' = "over" /\ exit' = code

(* Mutant: the filters come before the selectors are looked at.            *)
Parsed_FiltersFirst(l) ==
    IF max_jobs(l) = 0 THEN Exit("1")
    ELSE IF l.jobs > max_jobs(l) THEN Exit("2")
    ELSE IF \/ ~ Named(l.runners) \subseteq Named(RUNNERS)
            \/ NotDiscovered(l)
            \/ UnitsRefused(l)
            \/ l.selectors # {} /\ Cases(l) = {} THEN Exit("1")
    ELSE IF l.tree = "no models" THEN Exit("1")
    ELSE stage' = "running" /\ exit' = exit

(* The refusals in their order; a filter may leave nothing, a selector     *)
(* must not.                                                               *)
Parsed(l) ==
    IF max_jobs(l) = 0 THEN Exit("1")
    ELSE IF l.jobs > max_jobs(l) THEN Exit("2")
    ELSE IF \/ ~ Named(l.runners) \subseteq Named(RUNNERS)
            \/ NotDiscovered(l)
            \/ UnitsRefused(l) \/ Unmatched(l) # {} THEN Exit("1")
    ELSE IF Cases(l) = {} THEN Exit("0")
    ELSE IF l.tree = "no models" THEN Exit("1")
    ELSE stage' = "running" /\ exit' = exit

(* The CI job skips its steps, or the command line is read.                *)
Parse ==
    /\ stage = "parsing"
    /\ IF \E ci \in line.ci : ~ select(ci) THEN Exit("skipped") ELSE Parsed(line)
    /\ UNCHANGED <<vars, line, verdict>>

(* The pairs whose run gets its status in this step.                       *)
Judged ==
    {p \in First : main = "in python" /\ main' = "python" /\ p \in todo \ todo'}
    \cup {j \in Rest : fut[j] = "running" /\ fut'[j] = "written"}

Statuses ==
    /\ stage = "running"
    /\ IF Judged = {} THEN verdict' = verdict
       ELSE \E p \in Judged : \E s \in MayEnd[p] : verdict' = [verdict EXCEPT ![p] = s]
    /\ UNCHANGED <<line, stage, exit>>

CommandMain == Main /\ Statuses
CommandWorker(j) == Worker(j) /\ Statuses
CtrlC == Interrupt /\ Statuses

(* Mutant: only the pool's results are looked at.                          *)
BadResults_Pool == {r \in results : r[1] \in Rest /\ verdict[r[1]] \in Bad}

BadResults == {r \in results : verdict[r[1]] \in Bad}

(* Mutant: an interrupt of run_tests ends like a run.                      *)
Finish_NoInterrupt ==
    /\ stage = "running" /\ main \in Ended
    /\ Exit(IF BadResults # {} THEN "1" ELSE "0")
    /\ UNCHANGED <<vars, line, verdict>>

(* An exception that is no KeyboardInterrupt ends Python with 1.           *)
Finish ==
    /\ stage = "running" /\ main \in Ended
    /\ Exit(IF main = "interrupted" THEN "130"
            ELSE IF main = "escaped" \/ BadResults # {} THEN "1" ELSE "0")
    /\ UNCHANGED <<vars, line, verdict>>

CNext == Parse \/ CommandMain \/ CtrlC \/ Finish \/ \E j \in Rest : CommandWorker(j)

(* Threads run, and every run ends: each has a timeout, and kill_live's    *)
(* containers go (ContainerRuns).  Nobody need interrupt.                  *)
CSpec ==
    /\ CInit /\ [][CNext]_cvars
    /\ WF_cvars(Parse) /\ WF_cvars(CommandMain) /\ WF_cvars(Finish)
    /\ \A j \in Rest : WF_cvars(CommandWorker(j))

-----------------------------------------------------------------------------
(* Properties                                                              *)

(* What was asked for: every test that a selector matches and the filters  *)
(* keep, on every runner named, and on iverilog-vz beside verilator.       *)
Asked ==
    {c \in 1 .. TestCount :
        /\ line.selectors = {} \/ \E s \in line.selectors : _matches(c, s)
        /\ line.levels = {} \/ Level[c] \in line.levels
        /\ line.styles = {} \/ Style[c] \in line.styles}
    \X {n \in Named(RUNNERS) :
          \/ n \in Named(line.runners)
          \/ line.runners = <<>> /\ n # "iverilog-vz"
          \/ n = "iverilog-vz" /\ (line.runners = <<>> \/ "verilator" \in Named(line.runners))}

(* A selector means something: a test, or a unit of the map.               *)
Meaningful(s) ==
    \/ \E c \in 1 .. TestCount : _matches(c, s)
    \/ s.unit /\ s.name \in WorkUnits /\ line.units = "listed"

ExitIsTrue ==
    CASE exit = "skipped" ->
            \A e \in UNION {ci.edits : ci \in line.ci} : {e.old, e.new} \cap Read = {}
      [] exit = "0" ->
            /\ \A s \in line.selectors : Meaningful(s)
            /\ Asked = {} \/ summary = "complete"
            /\ \A p \in Asked : <<p, "own">> \in results /\ verdict[p] \notin Bad
      [] exit = "1" ->
            \/ summary = "complete" /\ \E r \in results : verdict[r[1]] \in Bad
            \/ /\ summary = "old" /\ results = {}
               /\ \/ \E s \in line.selectors : ~ Meaningful(s)
                  \/ ~ Named(line.runners) \subseteq Named(RUNNERS)
                  \/ line.tree # "sound" \/ line.cap > line.budget
      [] exit = "2" -> line.jobs * line.cap > line.budget
      [] exit = "130" -> summary = "interrupted"

(* Every `xut run` ends, and its exit code can be believed: 0 is of every  *)
(* test that was asked for, on every runner, with no fail and no error in  *)
(* a complete summary ("a typo must not pass in CI"); 1 has a bad result   *)
(* or a request that cannot be met behind it; 130 leaves the summary of an *)
(* interrupted run; and what CI skips no test would have read.             *)
EveryCommandAnswers == <>(stage = "over" /\ ExitIsTrue)
=============================================================================
