---------------------------- MODULE StatusRecord ----------------------------
(***************************************************************************)
(* `xut status record` (tools/xut/status.py): what it makes of the         *)
(* result.json files of one primitive's tests at one level against the     *)
(* reference model source, with the guard of the Verilator passes          *)
(* (crosscheck.verilator_unconfirmed) and the coverage it credits.         *)
(*                                                                         *)
(* One status file is written; a later record replaces all of it.          *)
(***************************************************************************)
EXTENDS Naturals

CONSTANTS
    Tests, Flows, Cfgs,
    RejectCfgs,    \* the configurations a model must reject (no samples)
    VectorTests,
    Recorded,      \* RECORDED_RUNNERS
    Traces,        \* what a configuration's trace may show
    NotOfStyle,    \* the tests in a style that the runner does not run
    Scenarios,     \* bound: which results are made, how they end, what is declared
    MaxHead        \* bound: commits

ASSUME StatusAssumption ==
    /\ "rtl" \in Flows
    /\ RejectCfgs \subseteq Cfgs
    /\ VectorTests \subseteq Tests
    /\ Recorded \subseteq {"python", "xsim", "iverilog", "verilator", "hw"}
    /\ NotOfStyle \subseteq Tests \X Recorded
    /\ \A s \in Scenarios :
          /\ s.outcomes \subseteq {"pass", "fail", "error", "skip"}
          /\ s.kinds \subseteq {"unavailable", "unusable"}
          /\ s.declarations \subseteq [Tests \X Recorded -> {"yes", "no", "unsupported"}]
    /\ MaxHead \in Nat

VARIABLES
    scenario,  \* the one of the behaviour
    declares,  \* the declarations of the committed test.yaml
    disk,      \* the result.json of each test, flow and runner
    head,      \* the number of commits
    changed,   \* the last one that touched the primitive's inputs
    status     \* the status file

vars == <<scenario, declares, disk, head, changed, status>>

None == [kind |-> "none"]

runners == Recorded \cup (IF "verilator" \in Recorded THEN {"iverilog-vz"} ELSE {})

SIMULATORS == {"xsim", "iverilog", "verilator"}

(* DECLARATION_OF *)
DeclaredAs(t, r) == declares[<<t, IF r = "iverilog-vz" THEN "verilator" ELSE r>>]

runner_flows(r) ==
    CASE r = "python" -> {"rtl"}
      [] r = "hw" -> Flows \ {"rtl"}
      [] OTHER -> Flows

Keys == {k \in Flows \X runners : k[1] \in runner_flows(k[2])}

RecordedKeys == {k \in Keys : k[2] \in Recorded}

Init ==
    /\ scenario \in Scenarios
    /\ declares \in scenario.declarations
    /\ disk = [t \in Tests |-> [k \in Keys |-> None]]
    /\ head = 1 /\ changed = 1
    /\ status = None

-----------------------------------------------------------------------------
(* xut run: a result stamped with HEAD, or with 0 when the tree is dirty;  *)
(* unusable when xut is killed while it writes it.                         *)

(* How a configuration ends: with its samples when it was run, unless it   *)
(* is one that the model must reject.                                      *)
Ended(c) ==
    {e \in {"pass", "fail", "error", "skip"} \X (Traces \cup {"none"}) :
        e[2] # "none" <=> e[1] \in {"pass", "fail"} /\ c \notin RejectCfgs}

RunsOf ==
    {g \in [Cfgs -> UNION {Ended(c) : c \in Cfgs}] : \A c \in Cfgs : g[c] \in Ended(c)}

Made == {g \in RunsOf : \A c \in Cfgs : g[c][1] \in scenario.outcomes}

Results(t, r) ==
    IF DeclaredAs(t, r) # "yes" THEN [kind : {"undeclared"}, at : {0, head}]
    ELSE IF <<t, r>> \in NotOfStyle THEN [kind : {"style"}, at : {0, head}]
    ELSE [kind : {"ran"}, cfg : Made, at : {0, head}]
            \cup [kind : scenario.kinds, at : {0, head}]

Run(t, k) ==
    /\ status = None
    /\ <<t, k>> \in scenario.selected
    /\ \E res \in Results(t, k[2]) : disk' = [disk EXCEPT ![t][k] = res]
    /\ UNCHANGED <<scenario, declares, head, changed, status>>

(* A commit, of the primitive's inputs or of something else.               *)
Commit ==
    /\ status = None
    /\ head < MaxHead
    /\ head' = head + 1
    /\ \/ UNCHANGED <<changed, declares>>
       \/ changed' = head + 1 /\ declares' \in scenario.declarations
    /\ UNCHANGED <<scenario, disk, status>>

-----------------------------------------------------------------------------
(* Reading a result                                                        *)

Outcome(res, c) == res.cfg[c][1]

Trace(res, c) == res.cfg[c][2]

Ran(res) ==
    IF res.kind = "ran" THEN {c \in Cfgs : Outcome(res, c) \in {"pass", "fail"}} ELSE {}

PassedCfgs(res) == {c \in Ran(res) : Outcome(res, c) = "pass"}

(* base.worst: fail > error > pass > skip                                  *)
Ends(res, o) == res.kind = "ran" /\ \E c \in Cfgs : Outcome(res, c) = o

Status(res) ==
    IF Ends(res, "fail") THEN "fail"
    ELSE IF res.kind = "unusable" \/ Ends(res, "error") THEN "error"
    ELSE IF Ends(res, "pass") THEN "pass" ELSE "skip"

(* Measured at the primitive's current inputs, on a clean tree.            *)
Fresh(res) == res.at >= changed /\ res.at # 0

-----------------------------------------------------------------------------
(* The guard of the Verilator passes                                       *)

(* Some configuration that both ran shows different samples, or, when it   *)
(* has none, one accepts what the other rejects.                           *)
Differ(a, b) ==
    \E c \in Ran(a) \cap Ran(b) :
        IF c \in RejectCfgs THEN Outcome(a, c) # Outcome(b, c) ELSE Trace(a, c) # Trace(b, c)

companion_gap(vz, iv) ==
    IF Status(vz) \notin {"pass", "fail"} THEN "error"
    ELSE IF Ran(iv) # {}
           THEN IF Differ(iv, vz) THEN "transform-bug" ELSE "none"
           ELSE IF Status(vz) = "pass" THEN "none" ELSE "error"

Stale(v, ref) == v.at = 0 \/ ref.at = 0 \/ v.at # ref.at

result(t, f, r) == IF <<f, r>> \in Keys THEN disk[t][<<f, r>>] ELSE None

(* Mutant: only the tree hash is compared, and only of iverilog-vz.        *)
verilator_unconfirmed_VzOnly(t, f) ==
    LET vl == result(t, f, "verilator")
        iv == result(t, f, "iverilog")
        vz == result(t, f, "iverilog-vz")
    IN  IF vz = None THEN "missing"
        ELSE IF Stale(vz, vl) THEN "stale"
        ELSE companion_gap(vz, iv)

verilator_unconfirmed(t, f) ==
    LET vl == result(t, f, "verilator")
        iv == result(t, f, "iverilog")
        vz == result(t, f, "iverilog-vz")
    IN  IF vz = None THEN "missing"
        ELSE IF Stale(vz, vl) \/ (iv # None /\ Stale(iv, vl)) THEN "stale"
        ELSE companion_gap(vz, iv)

-----------------------------------------------------------------------------
(* The cells of the status file                                            *)

ResultCell(t, k) ==
    LET res == disk[t][k] IN
    IF DeclaredAs(t, k[2]) = "unsupported" THEN "unsupported"
    ELSE IF DeclaredAs(t, k[2]) = "no" \/ res.kind = "style" THEN "n/a"
    ELSE IF res.kind \in {"none", "unavailable", "undeclared"} THEN "not-run"
    ELSE Status(res)

Cell(t, k) ==
    IF k[2] = "verilator" /\ ResultCell(t, k) = "pass" /\ verilator_unconfirmed(t, k[1]) # "none"
      THEN "error"
      ELSE ResultCell(t, k)

RESULT_VALUES == {"pass", "fail", "error", "skip", "not-run", "unsupported", "n/a"}

(* Mutant: a test that was not run ranks below a pass, as in the display.  *)
RECORD_PRECEDENCE_Display ==
    [v \in RESULT_VALUES |->
        CASE v = "fail" -> 1 [] v = "error" -> 2 [] v = "pass" -> 3 [] v = "skip" -> 4
          [] v = "not-run" -> 5 [] v = "unsupported" -> 6 [] v = "n/a" -> 7]

RECORD_PRECEDENCE ==
    [v \in RESULT_VALUES |->
        CASE v = "fail" -> 1 [] v = "error" -> 2 [] v = "not-run" -> 3 [] v = "pass" -> 4
          [] v = "skip" -> 5 [] v = "unsupported" -> 6 [] v = "n/a" -> 7]

worst_result(S) ==
    CHOOSE v \in S : \A w \in S : RECORD_PRECEDENCE[v] <= RECORD_PRECEDENCE[w]

-----------------------------------------------------------------------------
(* The coverage                                                            *)

SimKeys == {k \in Keys : k[2] \in SIMULATORS}

SimPassedCfgs(t) == UNION {PassedCfgs(disk[t][k]) : k \in SimKeys}

(* The configurations of a test whose bins count: of a vector test those   *)
(* that the golden model and a simulator passed, of another test all of    *)
(* them once a simulator passed it.                                        *)
Credited(t) ==
    IF t \in VectorTests
      THEN PassedCfgs(result(t, "rtl", "python")) \cap SimPassedCfgs(t)
      ELSE IF \E k \in SimKeys : disk[t][k] # None /\ Status(disk[t][k]) = "pass"
             THEN Cfgs ELSE {}

(* RecordError without any result, StaleResultError when a usable one is   *)
(* not fresh.                                                              *)
Recordable ==
    /\ \E t \in Tests, k \in RecordedKeys : disk[t][k] # None
    /\ \A t \in Tests, k \in RecordedKeys :
          disk[t][k].kind \notin {"none", "unusable"} => Fresh(disk[t][k])

Record ==
    /\ status = None
    /\ Recordable
    /\ status' = [kind |-> "recorded",
                  results |-> [k \in RecordedKeys |-> worst_result({Cell(t, k) : t \in Tests})],
                  covered |-> [t \in Tests |-> Credited(t)]]
    /\ UNCHANGED <<scenario, declares, disk, head, changed>>

-----------------------------------------------------------------------------
Next ==
    \/ \E t \in Tests, k \in Keys : Run(t, k)
    \/ Commit
    \/ Record

Spec == Init /\ [][Next]_vars

-----------------------------------------------------------------------------
(* The display: status.runner_mark                                        *)

PRECEDENCE ==
    [v \in RESULT_VALUES |->
        CASE v = "fail" -> 1 [] v = "error" -> 2 [] v = "pass" -> 3 [] v = "skip" -> 4
          [] v = "not-run" -> 5 [] v = "unsupported" -> 6 [] v = "n/a" -> 7]

runner_mark(r) ==
    LET values == {status.results[k] : k \in {k \in RecordedKeys : k[2] = r}} IN
    IF values = {} THEN "not-run"
    ELSE IF values \cap {"fail", "error"} = {} /\ "pass" \in values
            /\ values \cap {"not-run", "skip"} # {}
           THEN "partial"
    ELSE CHOOSE v \in values : \A w \in values : PRECEDENCE[v] <= PRECEDENCE[w]

-----------------------------------------------------------------------------
Recording == status # None

TypeOK ==
    /\ scenario \in Scenarios /\ declares \in scenario.declarations
    /\ \A t \in Tests, k \in Keys :
          /\ disk[t][k].kind \in {"none", "ran", "undeclared", "style", "unavailable", "unusable"}
          /\ disk[t][k] # None => disk[t][k].at \in 0 .. head
    /\ 1 <= changed /\ changed <= head /\ head \in Nat
    /\ Recording => /\ \A k \in DOMAIN status.results :
                          k[2] \in Recorded /\ status.results[k] \in RESULT_VALUES
                    /\ \A t \in Tests : status.covered[t] \subseteq Cfgs

(* iverilog-vz passed, or failed beside an iverilog run, at the commit of  *)
(* the Verilator run, and differs nowhere from an iverilog run of it.      *)
Confirmed(t, f) ==
    LET vl == result(t, f, "verilator")
        vz == result(t, f, "iverilog-vz")
        iv == result(t, f, "iverilog")
    IN  /\ vz # None /\ vz.at = vl.at /\ Status(vz) \in {"pass", "fail"}
        /\ iv # None => iv.at = vl.at
        /\ Status(vz) = "fail" => Ran(iv) # {}
        /\ \A c \in Ran(iv) \cap Ran(vz) :
              IF c \in RejectCfgs THEN Outcome(iv, c) = Outcome(vz, c)
                                  ELSE Trace(iv, c) = Trace(vz, c)

(* "A Verilator pass, unless its iverilog-vz companion does not confirm    *)
(* it": when a Verilator key is recorded as a pass, the companion confirms *)
(* every test that passed.                                                 *)
VerilatorIsConfirmed ==
    Recording =>
        \A f \in Flows, t \in Tests :
            /\ <<f, "verilator">> \in RecordedKeys
            /\ status.results[<<f, "verilator">>] = "pass"
            /\ ResultCell(t, <<f, "verilator">>) = "pass"
            => Confirmed(t, f)

(* "A declared test not run is never hidden by another test's pass", nor   *)
(* is a failure, a stale result or one that was never there: a recorded    *)
(* pass means that every test declared for the runner was run on these     *)
(* inputs and did not fail, unless the runner does not do its style.       *)
NothingIsHidden ==
    Recording =>
        \A k \in RecordedKeys, t \in Tests :
            status.results[k] = "pass" /\ DeclaredAs(t, k[2]) = "yes" =>
                /\ disk[t][k].kind \in {"ran", "style"}
                /\ Fresh(disk[t][k])
                /\ ~ Ends(disk[t][k], "fail") /\ ~ Ends(disk[t][k], "error")

(* A plain tick means that no flow failed, was skipped or was not run.     *)
TickIsWhole ==
    Recording =>
        \A r \in Recorded, k \in RecordedKeys :
            runner_mark(r) = "pass" /\ k[2] = r =>
                status.results[k] \in {"pass", "unsupported", "n/a"}

(* "Passed on the golden model AND on at least one simulator": a covered   *)
(* configuration of a vector test was passed by both on these inputs.      *)
CoverageIsEarned ==
    Recording =>
        \A t \in VectorTests : \A c \in status.covered[t] :
            /\ c \in PassedCfgs(result(t, "rtl", "python")) /\ Fresh(result(t, "rtl", "python"))
            /\ \E k \in SimKeys : c \in PassedCfgs(disk[t][k]) /\ Fresh(disk[t][k])

=============================================================================
