------------------------------ MODULE MCTestRun ------------------------------
(* Two tests, one of them a vector test, on python, verilator and the      *)
(* companion it brings; two workers.  A third test is of another level.    *)
(* The lines select the two, or nothing, or are refused, each for one      *)
(* reason or two; CI runs the first line, after changes of every kind.     *)
EXTENDS RunCommand

MCVector == {1}
MCSelected == <<"python", "verilator", "iverilog-vz">>

MCPrim == <<"FDRE", "FDRE", "FDCE">>
MCUnit == <<"flops", "flops", "flops">>
MCLevel == <<"L0", "L1", "L3">>
MCStyle == <<"vector", "cocotb", "sv">>
MCGlob == [FDRE |-> {}, both |-> {1, 2}, typo |-> {}]

MCMayEnd ==
    [p \in Pairs |-> IF p = <<1, "python">> THEN {"pass", "error"}
                     ELSE IF p = <<2, "verilator">> THEN {"pass", "fail", "skip"}
                     ELSE {"pass"}]

Name(n) == [unit |-> FALSE, name |-> n]
OfUnit(n) == [unit |-> TRUE, name |-> n]

Line1 ==
    [selectors |-> {OfUnit("flops")}, levels |-> {"L0", "L1"}, styles |-> {},
     runners |-> <<"python", "verilator", "python">>, jobs |-> 2, budget |-> 5, cap |-> 2,
     tree |-> "sound", units |-> "listed", ci |-> {}]
Line2 ==
    [Line1 EXCEPT !.selectors = {Name("FDRE"), Name("both")}, !.levels = {}, !.runners = <<>>]

Change(event, edits, listed) == [event |-> event, edits |-> edits, listed |-> listed]
Edit(a, b) == [old |-> a, new |-> b]
Edits == {Edit("log", "log"), Edit(NoPath, "plan"), Edit("plan", NoPath), Edit("plan", "log")}
Changes ==
    {Change("pull_request", es, TRUE) : es \in SUBSET Edits}
    \cup {Change("pull_request", {Edit("tool", "plan")}, TRUE),
          Change("pull_request", {Edit("log", "log"), Edit("tool", NoPath)}, FALSE),
          Change("push", {Edit("log", "log")}, TRUE)}

Selections ==
    {{Name("typo")}, {Name("FDRE"), Name("typo")}, {OfUnit("later")}, {OfUnit("never")},
     {OfUnit("flops"), OfUnit("never")}}
NotRun ==
    {[Line1 EXCEPT !.selectors = ss, !.units = u, !.tree = t] :
        ss \in Selections, u \in {"listed", "missing", "doubled"}, t \in {"sound", "no models"}}
    \cup {[Line1 EXCEPT !.levels = {"L2"}, !.tree = t] : t \in {"sound", "invalid test", "no models"}}
    \cup {[Line1 EXCEPT !.runners = <<"python", "typo">>], [Line1 EXCEPT !.tree = "no models"],
          [Line1 EXCEPT !.jobs = 3], [Line1 EXCEPT !.cap = 6]}

MCInvocations ==
    {Line1, Line2} \cup NotRun
    \cup {[Line1 EXCEPT !.ci = {c}] : c \in Changes}
MCRunners == <<"python", "verilator", "iverilog-vz">>
=============================================================================
