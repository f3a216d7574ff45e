----------------------------- MODULE Portability -----------------------------
(***************************************************************************)
(* `xut portability` (tools/xut/portability.py): it transforms and checks  *)
(* the models as `xut verilatorize --check` does (the command of           *)
(* ModelGate), runs a smoke script per model, configuration and simulator, *)
(* each in a container of its own and several at a time, and writes a row  *)
(* per model.                                                              *)
(*                                                                         *)
(* A script may be killed anywhere; what it left, and what the executor    *)
(* says of its container, is chosen when the container ends.               *)
(***************************************************************************)
EXTENDS ModelGate, Sequences

CONSTANTS
    Command,       \* the job of ModelGate that is the command
    Order,         \* jobs.txt of everything: <<model, key, tool>>, the slowest first
    CanEnd,        \* bound: what each script's container may leave
    jobs           \* --jobs

TOOLS == {"iverilog", "verilator"}

(* What a container left: how far the script came, its exit, the lines of  *)
(* its log, whether the kernel killed something at the memory cap, and     *)
(* what the executor says.  Without an rc file the exit is 0, for none.    *)
Left ==
    {l \in [wrote : {"nothing", "rc", "all"}, rc : {0, 1, 124, 139},
            lines : SUBSET {"ok", "config", "error"}, oom : BOOLEAN,
            host : {"returns", "timeout", "error", "docker failed"}] :
        l.wrote = "nothing" => l.rc = 0}

Scripts == {Order[i] : i \in DOMAIN Order}

ASSUME PortabilityAssumption ==
    /\ Command \in Jobs /\ Pair[Command] = None
    /\ jobs \in Nat \ {0}
    /\ Order \in Seq(Models \X Keys \X TOOLS)
    /\ \A i, k \in DOMAIN Order : Order[i] = Order[k] => i = k
    /\ CanEnd \in [Scripts -> SUBSET Left]

VARIABLES
    smoke,    \* "off": xut portability is not what runs
    queue,    \* the places in Order of the scripts not yet started
    at,       \* where each script is
    left,     \* what its container left
    log,      \* <tool>.rc and the marks in <tool>.log
    done,     \* how often done.txt names it
    table     \* build/portability/<model-source>.json

pvars == <<smoke, queue, at, left, log, done, table>>

Unseen == [rc |-> "none", marks |-> {}]

Blank == [wrote |-> "nothing", rc |-> 0, lines |-> {}, oom |-> FALSE, host |-> "returns"]

-----------------------------------------------------------------------------
(* The run                                                                 *)

(* The Verilator cell of a model that is not built, or "".                 *)
gate(m) ==
    IF status(m, manifest[m]) = "unsupported" THEN "refused"
    ELSE IF DependsOn(manifest[m], "unsupported") # {} THEN "blocked" ELSE ""

(* _write_scripts: no Verilator script for a model that is not built.      *)
write_scripts ==
    {i \in DOMAIN Order : Order[i][3] = "iverilog" \/ gate(Order[i][1]) = ""}

(* verilatorize has returned; the work directory is made anew.             *)
Begin ==
    /\ smoke = "transform" /\ pc[Command] = "built"
    /\ smoke' = "run"
    /\ queue' = write_scripts
    /\ at' = [s \in Scripts |-> "waits"]
    /\ left' = [s \in Scripts |-> Blank]
    /\ log' = [s \in Scripts |-> Unseen]
    /\ done' = [s \in Scripts |-> 0]
    /\ UNCHANGED <<vars, table>>

Busy == {s \in Scripts : at[s] \in {"taken", "up"}}

(* A worker takes the next script, unless the run was interrupted, ...     *)
Take ==
    /\ smoke = "run" /\ Cardinality(Busy) < jobs
    /\ \E i \in queue :
          /\ \A k \in queue : i <= k
          /\ at' = [at EXCEPT ![Order[i]] = "taken"]
          /\ queue' = queue \ {i}
    /\ UNCHANGED <<vars, smoke, left, log, done, table>>

(* ... and calls the executor.  After kill_live that raises RunCancelled,   *)
(* which is none of the errors _run_one takes notes of.                    *)
Launch(s) ==
    /\ at[s] = "taken"
    /\ at' = [at EXCEPT ![s] = IF smoke = "interrupted" THEN "cancelled" ELSE "up"]
    /\ UNCHANGED <<vars, smoke, queue, left, log, done, table>>

(* The container ends: by itself, or killed by kill_live, which the        *)
(* executor takes for an OOM kill.                                         *)
ContainerEnds(s) ==
    /\ at[s] = "up"
    /\ \E l \in CanEnd[s] \cup (IF smoke = "interrupted" THEN {[Blank EXCEPT !.oom = TRUE]} ELSE {}) :
          /\ left' = [left EXCEPT ![s] = l]
          /\ done' = IF l.wrote = "all" THEN [done EXCEPT ![s] = @ + 1] ELSE done
    /\ at' = [at EXCEPT ![s] = "left"]
    /\ UNCHANGED <<vars, smoke, queue, log, table>>

(* Mutant: what docker run says of itself is the script's exit.            *)
infra_HostOnly(l) == l.host = "error"

(* An infrastructure failure: the model never ran.                         *)
infra(l) == l.host = "error" \/ (l.host = "docker failed" /\ l.wrote = "nothing" /\ ~ l.oom)

(* _run_one writes what the script could not.                              *)
Notes(l) ==
    [rc |-> IF l.wrote # "nothing" THEN "rc"
            ELSE IF l.oom \/ l.host = "timeout" THEN "killed" ELSE "none",
     marks |-> (IF infra(l) THEN {"infra"} ELSE {})
               \cup (IF l.oom THEN {"oom"} ELSE {})
               \cup (IF l.host = "timeout" \/ (l.wrote # "nothing" /\ l.rc = 124)
                       THEN {"timeout"} ELSE {})]

(* Mutant: the host counts every script that it saw end.                   *)
counted_Always(s) == done[s] + 1

(* Every script counts once, the one killed before its last line, too.     *)
counted(s) == IF done[s] = 0 THEN 1 ELSE done[s]

RunOne(s) ==
    /\ at[s] = "left"
    /\ log' = [log EXCEPT ![s] = Notes(left[s])]
    /\ done' = [done EXCEPT ![s] = counted(s)]
    /\ at' = [at EXCEPT ![s] = "over"]
    /\ UNCHANGED <<vars, smoke, queue, left, table>>

(* Ctrl-C: the queue is cancelled and the containers are killed; the pool  *)
(* is waited for, and there is no table.                                   *)
Cancel ==
    /\ smoke = "run"
    /\ smoke' = "interrupted"
    /\ queue' = {}
    /\ UNCHANGED <<vars, at, left, log, done, table>>

-----------------------------------------------------------------------------
(* The rows                                                                *)

(* _outcome and classify of one script, from what is on disk               *)
Category(s) ==
    LET l == left[s]
        marks == log[s].marks
    IN  IF log[s].rc = "rc" /\ l.rc = 0 /\ "ok" \in l.lines THEN "yes"
        ELSE IF "infra" \in marks THEN "infra-error"
        ELSE IF "oom" \in marks THEN "oom"
        ELSE IF "timeout" \in marks THEN "timeout"
        ELSE IF l.lines \cap {"config", "error"} = {"config"} /\ l.rc < 128 THEN "config"
        ELSE "other"

(* Mutant: the first configuration that does not run says why.             *)
tool_cell_First(m, t) ==
    LET bad == {i \in DOMAIN Order : Order[i][1] = m /\ Order[i][3] = t
                                     /\ Category(Order[i]) # "yes"}
    IN  IF bad = {} THEN "yes" ELSE Category(Order[CHOOSE i \in bad : \A j \in bad : i <= j])

(* A real failure in any configuration is never hidden behind one that the *)
(* model refused; the reason is the first one's.                           *)
tool_cell(m, t) ==
    LET bad == {i \in DOMAIN Order : Order[i][1] = m /\ Order[i][3] = t
                                     /\ Category(Order[i]) # "yes"}
        real == {i \in bad : Category(Order[i]) # "config"}
    IN  IF bad = {} THEN "yes"
        ELSE IF real = {} THEN "config"
        ELSE Category(Order[CHOOSE i \in real : \A j \in real : i <= j])

(* The configurations a verdict is needed for: the default and the generate *)
(* ones.                                                                    *)
needed(m) == {q \in Pairs : q[1] = m}

verdict(q) == manifest[q[1]].equiv[q[2]].status

(* descendants_blocked: the first descendant that did not pass.            *)
descendants_blocked(q) == {verdict(d) : d \in descendant_configs(q, manifest[q[1]])} \ {"pass"}

(* Mutant: only the model's own verdicts count.                            *)
equiv_Own(m) ==
    LET need == needed(m) IN
    IF ~ gated(m, manifest[m]) THEN {"none"}
    ELSE IF refused(m, manifest[m]) THEN {"blocked"}
    ELSE IF \E q \in need : verdict(q) = "fail" THEN {"fail"}
    ELSE IF \E q \in need : verdict(q) = "error" THEN {"error"}
    ELSE IF \E q \in need : verdict(q) = "" THEN {"none"}
    ELSE {"pass"}

(* _equiv: a pass needs one of every configuration, and of every           *)
(* descendant for the parameters it gets; of several that did not pass the *)
(* cell names one.                                                         *)
equiv(m) ==
    LET need == needed(m)
        below == UNION {descendants_blocked(q) : q \in need}
    IN  IF ~ gated(m, manifest[m]) THEN {"none"}
        ELSE IF refused(m, manifest[m]) THEN {"blocked"}
        ELSE IF \E q \in need : verdict(q) = "fail" THEN {"fail"}
        ELSE IF \E q \in need : verdict(q) = "error" THEN {"error"}
        ELSE IF \E q \in need : verdict(q) = "" THEN {"none"}
        ELSE IF below # {} THEN {IF v = "" THEN "none" ELSE v : v \in below}
        ELSE {"pass"}

(* _row                                                                    *)
row(m, eq) ==
    [iverilog |-> tool_cell(m, "iverilog"),
     verilator |-> IF gate(m) # "" THEN gate(m) ELSE tool_cell(m, "verilator"),
     equiv |-> eq,
     gated |-> gated(m, manifest[m])]

SmokeModels == {s[1] : s \in Scripts}

WriteTable ==
    /\ smoke = "run" /\ queue = {} /\ Busy = {}
    /\ \A s \in Scripts : at[s] \in {"waits", "over"}
    /\ \E eq \in [SmokeModels -> {"pass", "fail", "error", "blocked", "none"}] :
          /\ \A m \in SmokeModels : eq[m] \in equiv(m)
          /\ table' = [m \in SmokeModels |-> row(m, eq[m])]
    /\ smoke' = "done"
    /\ UNCHANGED <<vars, queue, at, left, log, done>>

-----------------------------------------------------------------------------
POff ==
    /\ queue = {} /\ at = [s \in Scripts |-> "waits"]
    /\ left = [s \in Scripts |-> Blank] /\ log = [s \in Scripts |-> Unseen]
    /\ done = [s \in Scripts |-> 0] /\ table = None

(* Either the processes of ModelGate, or one xut portability over a source *)
(* in any state.                                                           *)
PInit ==
    /\ POff
    /\ \/ smoke = "off" /\ Init
       \/ /\ smoke = "transform"
          /\ tree \in [Models -> Versions] /\ up = "command" /\ Unstarted

Smoke ==
    \/ Begin \/ Take \/ Cancel \/ WriteTable
    \/ \E s \in Scripts : Launch(s) \/ ContainerEnds(s) \/ RunOne(s)

PNext ==
    \/ smoke = "off" /\ Next /\ UNCHANGED pvars
    \/ smoke = "transform" /\ Step(Command) /\ UNCHANGED pvars
    \/ Smoke

PSpec == PInit /\ [][PNext]_<<vars, pvars>> /\ \A j \in Jobs : WF_vars(Step(j))

-----------------------------------------------------------------------------
(* Properties                                                              *)

Own(m, t) == {s \in Scripts : s[1] = m /\ s[3] = t}

(* "A model is yes on a simulator only if every configuration compiles and *)
(* runs to XUT_SMOKE_OK": each of its scripts ended by itself, with OK; on *)
(* Verilator it read the copies of the present versions, and an equiv of   *)
(* pass says that the model in all configurations, and what it             *)
(* instantiates, was compared as these copies.                             *)
YesIsEarned ==
    smoke = "done" => \A m \in SmokeModels :
        /\ \A t \in TOOLS : table[m][t] = "yes" =>
              \A s \in Own(m, t) :
                  /\ at[s] = "over" /\ left[s].wrote # "nothing"
                  /\ left[s].rc = 0 /\ "ok" \in left[s].lines
        /\ table[m].verilator = "yes" =>
              \A x \in hierarchy({m}) :
                  /\ Kind[x][tree[x]] # "unsupported"
                  /\ Kind[x][tree[x]] = "transformed" => copy[x] = tree[x]
        /\ table[m].equiv = "pass" =>
              \A q \in Pairs : q[1] = m =>
                  \A p \in {q} \cup {d \in Uses[q] : Kind[d[1]][tree[d[1]]] = "transformed"} :
                      /\ verdict(p) = "pass"
                      /\ \A x \in hierarchy({p[1]}) : Kind[x][tree[x]] = "transformed" =>
                            manifest[p[1]].equiv[p[2]].of[x] = copy[x]

(* A no that blames the model (lint then asks for the tests to declare the *)
(* simulator unsupported) is about a script that ran: config only when all *)
(* that failed were refused by the model's own check, other only when one  *)
(* failed outright; an infrastructure failure, a timeout and an OOM kill   *)
(* are never taken for either.                                             *)
NoIsTheModels ==
    smoke = "done" => \A m \in SmokeModels, t \in TOOLS :
        LET mine(s) ==
                /\ ~ left[s].oom
                /\ \/ left[s].host = "returns"
                   \/ left[s].host = "docker failed" /\ left[s].wrote # "nothing"
            failed == {s \in Own(m, t) : at[s] = "over" /\ ~ (left[s].wrote # "nothing"
                                           /\ left[s].rc = 0 /\ "ok" \in left[s].lines)}
        IN  /\ table[m][t] = "config" =>
                  \A s \in failed : mine(s) /\ "error" \notin left[s].lines /\ left[s].rc < 124
            /\ table[m][t] = "other" => \E s \in failed : mine(s) /\ left[s].rc # 124

(* Neither a yes nor a no of the table says more than what was run.        *)
TableIsTrue == YesIsEarned /\ NoIsTheModels

(* Every script that was started counts once in done.txt, whoever was      *)
(* killed; one that was not never does, nor is a container started or a    *)
(* table written after an interrupt.                                       *)
EveryScriptCounts ==
    [][/\ smoke' = "done" => \A s \in Scripts : done'[s] = (IF at[s] = "over" THEN 1 ELSE 0)
       /\ \A s \in Scripts : at'[s] = "over" => done'[s] = 1
       /\ smoke = "interrupted" =>
             /\ table' = table
             /\ \A s \in Scripts : at[s] # "up" => at'[s] # "up"]_<<vars, pvars>>
=============================================================================
