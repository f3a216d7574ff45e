-------------------------- MODULE MCHeavyAdmission --------------------------
(***************************************************************************)
(* Two tokens of 4G: a needs one, b (rounded up) and w need both, so that  *)
(* every pair competes; n is started in the scope of a.                    *)
(***************************************************************************)
EXTENDS HeavyAdmission

CONSTANTS a, b, w, n, o1

Cmd(tool, jobs) == [tool |-> tool, auto |-> FALSE, jobs |-> jobs]

MCMem == [c \in Commands |-> IF c = w THEN 8 ELSE 4]
MCContainers == [c \in Commands |-> IF c = b THEN 1 ELSE 0]
MCVivado == [c \in Commands |-> 0]
MCLine ==
    [c \in Commands |->
        IF c = b THEN {Cmd("xut", {1}), Cmd("make", {1}), Cmd("tail", {50})} ELSE {Cmd("pytest", {})}]
MCOuter == [c \in Commands |-> IF c = n THEN a ELSE NoCommand]
=============================================================================
