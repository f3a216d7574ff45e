------------------------------- MODULE Verdict -------------------------------
(***************************************************************************)
(* runners/: the template Runner.run and what each runner makes of a       *)
(* configuration.  One test is run by python (the golden model, which      *)
(* writes the stimuli and what is expected of them) and then by one        *)
(* simulator's runner.  What a build and a run really did is chosen freely *)
(* from what their logs and files can show; each ladder of the code turns  *)
(* it into a status.  A result carries, beside the status and the trace    *)
(* that the code records, what the simulations did (`truth`): no code      *)
(* reads it, the properties do.                                            *)
(***************************************************************************)
EXTENDS Naturals, FiniteSets

CONSTANTS
    Cfgs,       \* the test's configurations
    Rejects,    \* those that expect a rejection (vector tests only)
    Excluded,   \* those that test.yaml excludes for the simulator
    Simulators  \* the runners of simulators

Styles == {"vector", "sv", "cocotb"}
None == "none"

ASSUME VerdictAssumption ==
    /\ IsFiniteSet(Cfgs) /\ Rejects \subseteq Cfgs /\ Excluded \subseteq Cfgs
    /\ Simulators \subseteq {"iverilog", "iverilog-vz", "verilator", "xsim"}

VARIABLES
    style, sim,     \* the test's style; the simulator's runner
    step,           \* where the run is
    listed,         \* configs.json of the python run (none lists nothing)
    expected,       \* its expected.xtr per configuration
    todo,           \* configurations the runner has still to run
    results,        \* the runner's configurations so far
    final           \* result.json of each runner that ended
vars == <<style, sim, step, listed, expected, todo, results, final>>

Runner == IF step[1] = "python" THEN "python" ELSE sim

(* worst: the status of a whole from its parts.                            *)
Rank == [fail |-> 3, error |-> 2, pass |-> 1, skip |-> 0]
worst(S) == IF S = {} THEN "skip" ELSE CHOOSE s \in S : \A t \in S : Rank[s] >= Rank[t]

(* Of a configuration: its status, its trace.xtr, and the truth: "good"    *)
(* when every simulation did what was expected, "seen" when one that ran   *)
(* to its end did not, "neither" when there is no telling.                 *)
Result(status, trace, truth) == [status |-> status, trace |-> trace, truth |-> truth]
Error(trace) == Result("error", trace, "neither")

-----------------------------------------------------------------------------
(* What a build and a run of a simulator leave behind.                     *)

(* Who builds well runs what was built; xsim's script may also run after   *)
(* compiler output that counts as a failure (split_log).                   *)
Builds(r) ==
    {b \in [ok : BOOLEAN, ran : BOOLEAN, infra : BOOLEAN, named : BOOLEAN] :
        (b.ok => b.ran) /\ (b.ran /\ ~b.ok => r = "xsim")}

(* `named`: an error line names the illegal attribute; `raw`: raw.txt, and *)
(* whether its samples are the expected ones.                              *)
Runs ==
    [exit : {"zero", "nonzero"}, done : BOOLEAN, fatal : BOOLEAN,
     tbError : BOOLEAN, error : BOOLEAN, named : BOOLEAN, infra : BOOLEAN,
     raw : {"none", "bad", "same", "differs"}]

(* classify_run, of what was built: may the run's output be judged.        *)
classify_run(run, needDone) ==
    run.exit = "zero" /\ ~run.fatal /\ (needDone => run.done)

Completed(run) == run.exit = "zero" /\ ~run.fatal

(* vector_check: the samples against the expected ones (python never       *)
(* leaves an expected trace without samples), and any diagnostic of the    *)
(* model.                                                                  *)
vector_check(run) ==
    LET bad == run.error \/ run.raw = "differs" IN
    IF run.raw \in {"none", "bad"} THEN Error(None)
    ELSE Result(IF bad THEN "fail" ELSE "pass", "some",
                IF ~Completed(run) \/ ~run.done THEN "neither" ELSE IF bad THEN "seen" ELSE "good")

(* One run of a vector stimulus: whether it may be judged, and the verdict.*)
VectorRuns ==
    {[judged |-> classify_run(r, TRUE), res |-> vector_check(r)] : r \in Runs}

(* Mutant: any failed build is a rejection.                                *)
reject_result_AnyFailure(b, run) ==
    IF b.ran /\ run.done THEN "fail"
    ELSE IF ~b.ok THEN "pass"
    ELSE IF run.tbError \/ b.infra \/ run.infra THEN "error"
    ELSE IF run.exit = "zero" /\ run.named THEN "pass" ELSE "error"

(* reject_result: a refusal is a pass on positive evidence alone.          *)
reject_result(b, run) ==
    IF b.ran /\ run.done THEN "fail"
    ELSE IF b.infra \/ (b.ran /\ (run.tbError \/ run.infra)) THEN "error"
    ELSE IF ~b.ok THEN (IF b.named THEN "pass" ELSE "error")
    ELSE IF run.exit = "zero" /\ run.named THEN "pass" ELSE "error"

(* The model refused: it said so, naming the attribute, and nothing else   *)
(* stands in the way of believing it; it accepted when it ran to the end.  *)
RejectTruth(b, run) ==
    LET says == IF b.ok THEN run.named /\ run.exit = "zero" ELSE b.named
        broken == b.infra \/ (b.ran /\ (run.infra \/ run.tbError))
    IN IF b.ran /\ run.done THEN "seen" ELSE IF says /\ ~broken THEN "good" ELSE "neither"

(* reject_check leaves a trace of its header, whatever it decided.         *)
RejectResults(runner) ==
    {Result(reject_result(b, r), "some", RejectTruth(b, r)) : b \in Builds(runner), r \in Runs}

(* sv_check, on what a testbench printed.                                  *)
SvRuns ==
    [exit : {"zero", "nonzero"}, fatal : BOOLEAN, body : {"bad", "empty", "some"},
     fails : BOOLEAN, passes : BOOLEAN, checks : {"unknown", "none", "some"}, seed : BOOLEAN]

(* Mutant: a testbench that checked nothing passes.                        *)
sv_check_NoEvidence(run) ==
    IF run.fails THEN "fail" ELSE IF run.passes /\ run.seed THEN "pass" ELSE "error"

sv_check(run) ==
    IF run.fails THEN "fail"
    ELSE IF run.passes /\ run.checks = "some" /\ run.body = "some" /\ run.seed THEN "pass"
    ELSE "error"

SvRun(run) ==
    IF ~classify_run(run, FALSE) \/ run.body = "bad" THEN Error(None)
    ELSE Result(sv_check(run), "some",
                IF run.fails THEN "seen"
                ELSE IF run.passes /\ run.checks = "some" /\ run.body = "some" THEN "good"
                ELSE "neither")
SvResults == {SvRun(r) : r \in SvRuns}

(* _cocotb_verdict, on results.xml, trace.xtr and the log.                 *)
CocotbRuns ==
    [z : BOOLEAN, exit : {"zero", "nonzero", "build failed"}, xml : {"none", "bad", "some"},
     seed : BOOLEAN, ran : BOOLEAN, trace : {"none", "bad", "foreign", "empty", "some"},
     crash : BOOLEAN, assertion : BOOLEAN, error : BOOLEAN]

(* Mutant: a failed assertion is looked for first.                         *)
cocotb_verdict_AssertionFirst(run) ==
    IF \/ run.z \/ run.xml # "some" \/ ~run.seed \/ ~run.ran
       \/ run.trace \in {"bad", "foreign"}
    THEN "error"
    ELSE IF run.assertion \/ run.error THEN "fail"
    ELSE IF run.crash \/ run.trace # "some" \/ run.exit # "zero" THEN "error" ELSE "pass"

cocotb_verdict(run) ==
    IF \/ run.z \/ run.xml # "some" \/ ~run.seed \/ ~run.ran
       \/ run.trace \in {"bad", "foreign"} \/ run.crash
    THEN "error"
    ELSE IF run.assertion \/ run.error THEN "fail"
    ELSE IF run.trace # "some" \/ run.exit # "zero" THEN "error" ELSE "pass"

CocotbRun(run) ==
    LET trace == IF run.trace \in {"none", "bad"} THEN run.trace ELSE "some"
        over == run.xml = "some" /\ run.ran /\ ~run.crash /\ ~run.z
    IN Result(cocotb_verdict(run), trace,
              IF ~over THEN "neither"
              ELSE IF run.assertion \/ run.error THEN "seen"
              ELSE IF run.trace = "some" /\ run.exit = "zero" THEN "good" ELSE "neither")
CocotbResults == {CocotbRun(r) : r \in CocotbRuns}

-----------------------------------------------------------------------------
(* The runners                                                             *)

(* The truth of two runs of one build.                                     *)
BothTruths(a, b) ==
    IF "seen" \in {a, b} THEN "seen" ELSE IF {a, b} = {"good"} THEN "good" ELSE "neither"

(* Mutant: the second seed is not looked at.                               *)
pair_First(a, b) == a.status

(* _pair: the first seed's result, made worse by the second's.             *)
pair(a, b) == worst({a.status, b.status})

(* verilator, sv and cocotb: two X seeds, whose traces are compared for    *)
(* x-dependence when both are there, an unreadable one being an error.     *)
seeds_done(S) ==
    {IF a.trace # None /\ b.trace # None /\ "bad" \in {a.trace, b.trace}
     THEN Error(a.trace)
     ELSE Result(pair(a, b), a.trace, BothTruths(a.truth, b.truth)) : a, b \in S}

(* verilator, vector: both seeds must run to the end before either is      *)
(* compared with the expected trace.                                       *)
vector_seeds ==
    {IF ~(a.judged /\ b.judged) THEN Error(None)
     ELSE IF None \in {a.res.trace, b.res.trace} THEN Error(a.res.trace)
     ELSE Result(pair(a.res, b.res), "some", BothTruths(a.res.truth, b.res.truth)) :
        a, b \in VectorRuns}

(* One simulation of a vector configuration.                               *)
vector_once == {IF v.judged THEN v.res ELSE Error(None) : v \in VectorRuns}

(* What cannot be expressed, is refused or does not build is an error; so  *)
(* is any exception, of one seed too: a simulation that times out raises.  *)
Refusals(r) == {Error(None)} \cup (IF r = "iverilog-vz" THEN {Result("skip", None, "neither")} ELSE {})

(* Of a cocotb run that timed out a trace may be left where it is looked   *)
(* for; Verilator's seeds leave theirs in directories of their own.        *)
TimedOut(r) == IF r = "verilator" THEN {} ELSE {Error(t) : t \in {"bad", "some"}}

Seeds(r, S) == IF r = "verilator" THEN seeds_done(S) ELSE S

(* What each runner can make of a configuration.                           *)
Vector == [r \in Simulators |->
             Refusals(r) \cup (IF r = "verilator" THEN vector_seeds ELSE vector_once)]
Reject == [r \in Simulators |-> Refusals(r) \cup RejectResults(r)]
Sv == [r \in Simulators |-> Refusals(r) \cup Seeds(r, SvResults)]
Cocotb == [r \in Simulators |-> Refusals(r) \cup TimedOut(r) \cup Seeds(r, CocotbResults)]

(* prepare_vector: no expected trace, no run.                              *)
run_vector(c) ==
    IF expected[c] = None THEN Refusals(sim)
    ELSE IF expected[c] = "reject" THEN Reject[sim] ELSE Vector[sim]

run_config(c) ==
    IF style = "vector" THEN run_vector(c) ELSE IF style = "sv" THEN Sv[sim] ELSE Cocotb[sim]

(* python, with the expected.xtr it leaves: rules broken, no golden model  *)
(* or an unsupported configuration, a failed or endless replay, or a trace *)
(* (never one without samples).                                            *)
golden(c) ==
    {<<Error(None), None>>, <<Result("skip", None, "neither"), None>>,
     <<Result("pass", "some", "good"), IF c \in Rejects THEN "reject" ELSE "trace">>}

-----------------------------------------------------------------------------
(* The template                                                            *)

NoConfigs == [c \in {} |-> None]

NoTraces == [c \in Cfgs |-> None]

(* python_dir may hold what an earlier run of python left there.           *)
Init ==
    /\ style \in Styles /\ sim \in Simulators
    /\ step = <<"python", "start">>
    /\ listed \in {Cfgs, {}}
    /\ expected \in {[c \in Cfgs |-> IF c \notin S THEN None ELSE IF c \in Rejects THEN "reject" ELSE "trace"] :
                        S \in SUBSET Cfgs}
    /\ todo = {} /\ results = NoConfigs /\ final = [r \in {} |-> None]

Goto(p) == step' = <<step[1], p>>

(* The result is written, and the next runner starts.                      *)
Write(status, configs) ==
    /\ final' = [r \in (DOMAIN final) \cup {Runner} |->
                    IF r = Runner THEN [status |-> status, configs |-> configs] ELSE final[r]]
    /\ step' = <<"simulator", IF step[1] = "python" THEN "start" ELSE "ended">>
    /\ results' = NoConfigs /\ todo' = {}
    /\ UNCHANGED <<style, sim>>

(* The run directory is emptied: the simulators read python's.             *)
Emptied ==
    IF Runner = "python" THEN listed' = {} /\ expected' = NoTraces ELSE UNCHANGED <<listed, expected>>

(* An exception outside a configuration, resetting the run directory and   *)
(* writing the result included, loses every configuration.  What was not   *)
(* removed stays.                                                          *)
Raise ==
    /\ step[2] \in {"start", "configs", "running"} /\ Goto("raised")
    /\ UNCHANGED <<style, sim, listed, expected, todo, results, final>>

(* Mutant: only an exception of the configurations' loop is caught.        *)
error_result_InLoop ==
    step[2] = "raised" /\ todo # {} /\ Write("error", NoConfigs) /\ UNCHANGED <<listed, expected>>

error_result ==
    step[2] = "raised" /\ Write("error", NoConfigs) /\ UNCHANGED <<listed, expected>>

(* The styles of a runner.                                                 *)
RunsStyle(r) ==
    IF r = "python" THEN style = "vector" ELSE r = "xsim" => style # "cocotb"

(* A runner that is declared out, does not run the style or is not         *)
(* available writes a skip.                                                *)
Skip == step[2] = "start" /\ Emptied /\ Write("skip", NoConfigs)

(* The run directory is emptied and the tools answer.                      *)
Begin ==
    /\ step[2] = "start" /\ RunsStyle(Runner) /\ Emptied
    /\ Goto("configs")
    /\ UNCHANGED <<style, sim, todo, results, final>>

(* Mutant: a configuration without an expectation is dropped.              *)
generated_Expected == {c \in listed : expected[c] # None}

(* load_generated: every configuration that python listed.                 *)
generated == listed

(* configs: python's generator lists them before any runs; a simulator     *)
(* takes python's for a vector test (without them it ends in an error, as  *)
(* with none), and test.yaml's for the others.                             *)
Configs ==
    /\ step[2] = "configs"
    /\ IF Runner = "python" THEN listed' \in {Cfgs, {}} /\ todo' = listed'
       ELSE /\ todo' = IF style = "vector" THEN generated ELSE Cfgs
            /\ UNCHANGED listed
    /\ Goto("running")
    /\ UNCHANGED <<style, sim, expected, results, final>>

(* An unreadable trace is an error, and so is a pass without one.          *)
Checked(res) ==
    IF res.trace = "bad" \/ (res.status = "pass" /\ res.trace = None)
    THEN [res EXCEPT !.status = "error"] ELSE res

RunConfig ==
    /\ step[2] = "running"
    /\ \E c \in todo :
         /\ \E got \in IF Runner = "python" THEN golden(c)
                       ELSE {<<r, expected[c]>> :
                                r \in IF c \in Excluded THEN {Result("skip", None, "neither")}
                                      ELSE run_config(c)} :
              /\ results' = [x \in (DOMAIN results) \cup {c} |->
                                IF x = c THEN Checked(got[1]) ELSE results[x]]
              /\ expected' = [expected EXCEPT ![c] = got[2]]
         /\ todo' = todo \ {c}
    /\ UNCHANGED <<style, sim, step, listed, final>>

(* The whole's status is the worst of its parts; no parts are an error.    *)
Finish ==
    /\ step[2] = "running" /\ todo = {}
    /\ Write(IF results = NoConfigs THEN "error"
             ELSE worst({results[c].status : c \in DOMAIN results}), results)
    /\ UNCHANGED <<listed, expected>>

Next == Skip \/ Begin \/ Configs \/ RunConfig \/ Finish \/ Raise \/ error_result

Spec == Init /\ [][Next]_vars /\ WF_vars(Next)

-----------------------------------------------------------------------------
(* Properties                                                              *)

(* read_result: a result that ran must show a configuration that ran.      *)
Usable(r) == r.status \in {"pass", "fail"} =>
    \E c \in DOMAIN r.configs : r.configs[c].status \in {"pass", "fail"}

(* A pass is earned: each simulation of the configuration (each X seed of  *)
(* Verilator's two) built, ran to its end, left its samples and did what   *)
(* was expected; a rejection was the model's own, naming the attribute;    *)
(* and a test that passes has such a configuration, and beside those only  *)
(* skipped ones (runners/sim.py and reject.py: zero evidence is never a    *)
(* pass; base.py's summarize: a partial run is never a bare pass).         *)
PassIsEarned ==
    \A r \in (DOMAIN final) \ {"python"} :
        LET configs == final[r].configs
            status(c) == configs[c].status
        IN /\ \A c \in DOMAIN configs :
                status(c) = "pass" =>
                    configs[c].truth = "good" /\ configs[c].trace = "some" /\ c \notin Excluded
           /\ final[r].status = "pass" =>
                 /\ \E c \in DOMAIN configs : status(c) = "pass"
                 /\ \A c \in DOMAIN configs : status(c) \in {"pass", "skip"}

(* A crash or a timeout is an error, never a fail (runners/base.py): a     *)
(* fail comes from a simulation that ran to its end and went wrong, and    *)
(* what went wrong in a whole run is never a pass.                         *)
FailIsSeen ==
    \A r \in (DOMAIN final) \ {"python"} :
        /\ \A c \in DOMAIN final[r].configs :
             LET res == final[r].configs[c] IN
             /\ res.status = "fail" => res.truth = "seen"
             /\ res.truth = "seen" => res.status # "pass"
        /\ final[r].status = "fail" => \E c \in DOMAIN final[r].configs : final[r].configs[c].truth = "seen"

(* A python failure never shrinks another runner's matrix: a simulator     *)
(* that took python's configurations reports every one of them, in error   *)
(* where python left no expectation, and a run of it that has a verdict    *)
(* has a usable result.                                                    *)
MatrixIsWhole ==
    \A r \in (DOMAIN final) \ {"python"} :
        LET res == final[r] IN
        /\ res.configs # NoConfigs => DOMAIN res.configs = Cfgs
        /\ Usable(res)
        /\ style = "vector" => \A c \in DOMAIN res.configs :
               expected[c] = None => res.configs[c].status \notin {"pass", "fail"}

(* Every run of a test ends with a result of each runner.                  *)
EveryRunnerReports == <>(DOMAIN final = {"python", sim})
=============================================================================
