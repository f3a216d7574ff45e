--------------------------- MODULE PortabilityLint ---------------------------
(***************************************************************************)
(* What becomes of the smoke run's table: `xut portability --write`        *)
(* publishes it in status/PORTABILITY.md beside the other model sources'   *)
(* (cli.portability_cmd), and `xut lint` (tools/xut/lint.py) judges every  *)
(* test's declarations by it.                                              *)
(***************************************************************************)
EXTENDS Portability

CONSTANTS
    ModelOf,     \* the model each primitive's catalog entry runs
    OtherTables  \* what full runs of another model source left

Declarations == {"yes", "no", "unsupported"}

ASSUME LintAssumption ==
    OtherTables \subseteq
        UNION {[ms -> [iverilog : {"yes", "config", "other", "infra-error"},
                       verilator : {"yes", "config", "other", "infra-error", "refused", "blocked"},
                       equiv : {"pass", "fail", "error", "blocked", "none"},
                       gated : BOOLEAN]] : ms \in SUBSET Models}

VARIABLE page   \* the tables in status/PORTABILITY.md, {} when there is none

(* A test.yaml entry, as far as lint reads it here.                        *)
Tests == [prim : DOMAIN ModelOf, runners : [TOOLS -> Declarations]]

(* Every full run's results are rendered, the other sources' as they are.  *)
load_results(other) == {table, other}

(* The page is rendered into status/ with --write only.                    *)
Publish ==
    /\ smoke = "done"
    /\ \E other \in OtherTables, write \in BOOLEAN :
          page' = IF write THEN load_results(other) ELSE page
    /\ smoke' = "rendered"
    /\ UNCHANGED <<vars, queue, at, left, log, done, table>>

LInit == PInit /\ page = {}
LNext == (PNext /\ UNCHANGED page) \/ Publish
LSpec == LInit /\ [][LNext]_<<vars, pvars, page>> /\ \A j \in Jobs : WF_vars(Step(j))

-----------------------------------------------------------------------------
(* xut lint                                                                *)

Issue(severity, rule, tool) == [severity |-> severity, rule |-> rule, tool |-> tool]

Ok(r, tool) == r[tool] = "yes"

(* Mutant: a comparison that ended in an error is let through.             *)
Blocks_FailOnly(r) == r.equiv = "fail"

(* The equivalence check blocks the model's Verilator results.             *)
Blocks(r) == r.equiv \in {"fail", "error"}

(* The rows that give a test a reason not to declare a simulator.          *)
Blocked(rows, tool) == {r \in rows : ~ Ok(r, tool) \/ (tool = "verilator" /\ Blocks(r))}

(* Mutant: every no is the model's.                                        *)
YesIssue_NoInfra(r, tool) ==
    IF r[tool] = "config" THEN Issue("warning", "illegal configuration", tool)
    ELSE Issue("error", "declare unsupported", tool)

(* A `yes` where a row says no. A row that an infrastructure failure made  *)
(* asks for another table, not for another test.                           *)
YesIssue(r, tool) ==
    IF r[tool] = "config" THEN Issue("warning", "illegal configuration", tool)
    ELSE IF r[tool] = "infra-error" THEN Issue("error", "regenerate", tool)
    ELSE Issue("error", "declare unsupported", tool)

(* Mutant: one row that runs the model is enough.                          *)
Contradicted_AnyRow(t, rows) ==
    {x \in rows \X TOOLS : t.runners[x[2]] = "yes" /\ \A r \in rows : ~ Ok(r, x[2])}

(* The rows that say no, in any section, where the test says yes.          *)
Contradicted(t, rows) == {x \in rows \X TOOLS : t.runners[x[2]] = "yes" /\ ~ Ok(x[1], x[2])}

(* The simulators that every row runs and the test calls unsupported.      *)
Unexplained(t, rows) ==
    {tool \in TOOLS : t.runners[tool] = "unsupported" /\ Blocked(rows, tool) = {}}

_test_portability(t, rows) ==
    IF rows = {} THEN {Issue("warning", "no row", "")}
    ELSE {YesIssue(x[1], x[2]) : x \in Contradicted(t, rows)}
         \cup (IF t.runners["verilator"] = "yes" /\ \E r \in rows : Blocks(r)
                 THEN {Issue("error", "equivalence", "verilator")} ELSE {})
         \cup {Issue("warning", "matches no row", tool) : tool \in Unexplained(t, rows)}

RowsOf(m) == {x[m] : x \in {y \in page : m \in DOMAIN y}}

(* Every gated row needs a verdict, whatever the tests say.                *)
Unverified == \E x \in page : \E m \in DOMAIN x : x[m].gated /\ x[m].equiv = "none"

check_portability(t) ==
    IF page = {} THEN {Issue("warning", "no table", "")}
    ELSE _test_portability(t, RowsOf(ModelOf[t.prim]))
         \cup (IF Unverified THEN {Issue("error", "no verdict", "verilator")} ELSE {})

-----------------------------------------------------------------------------
(* Properties                                                              *)

Shown(s) == left[s].wrote # "nothing" /\ left[s].rc = 0 /\ "ok" \in left[s].lines

(* The script ran, and it failed.                                          *)
Failed(s) == ~ Shown(s) /\ ~ infra(left[s])

(* "Test declarations of `unsupported` must match this table". Of the      *)
(* source that was just run: a test that lint lets declare `yes` is of a   *)
(* model that no script saw fail outright there and, on Verilator, that    *)
(* was compared in all its configurations if it is gated; a declaration of *)
(* `unsupported` that lint is silent about has a script without OK, a      *)
(* model that is not built, a failed comparison or the other source's word *)
(* behind it; and a test is told to change only when a script of its own   *)
(* ran and failed or the model is not built.                               *)
LintFollowsTheRun ==
    smoke = "rendered" /\ page # {} =>
        \A t \in {x \in Tests : ModelOf[x.prim] \in SmokeModels} :
            LET m == ModelOf[t.prim]
                issues == check_portability(t)
                about(tool, rule) == \E i \in issues : i.tool = tool /\ i.rule = rule
                others == RowsOf(m) \ {table[m]}
                unbuilt(tool) == tool = "verilator" /\ gate(m) # ""
            IN  \A tool \in TOOLS :
                  /\ t.runners[tool] = "yes" /\ (\A i \in issues : i.severity # "error") =>
                        /\ ~ unbuilt(tool)
                        /\ \A s \in Own(m, tool) :
                              ~ Shown(s) => left[s].rc < 124 /\ "error" \notin left[s].lines
                        /\ tool = "verilator"
                           /\ (\E x \in hierarchy({m}) : Kind[x][tree[x]] = "transformed") =>
                              \A q \in Pairs : q[1] = m => verdict(q) = "pass"
                  /\ t.runners[tool] = "unsupported" /\ ~ about(tool, "matches no row") =>
                        \/ unbuilt(tool)
                        \/ \E s \in Own(m, tool) : ~ Shown(s)
                        \/ \E q \in Pairs : q[1] \in hierarchy({m}) /\ verdict(q) \in {"fail", "error"}
                        \/ \E r \in others : ~ Ok(r, tool) \/ Blocks(r)
                  /\ about(tool, "declare unsupported") /\ others = {} =>
                        unbuilt(tool) \/ \E s \in Own(m, tool) : Failed(s)
=============================================================================
