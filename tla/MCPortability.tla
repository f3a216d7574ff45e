--------------------------- MODULE MCPortability ---------------------------
(* The models of MCModelGate.  TOP is smoked on Verilator in two           *)
(* configurations, of which the first may end in every way, and its helper *)
(* on Icarus.  Another model source may have a row of TOP; tests are of    *)
(* TOP's primitive, of one retargeted to the helper, and of one that no    *)
(* table knows.                                                            *)
EXTENDS PortabilityLint, MCModelGate

MCOrder == << <<"TOP", "k1", "verilator">>, <<"TOP", "k2", "verilator">>,
              <<"SUB", "k2", "iverilog">> >>

End(w, r, ls, o, h) == [wrote |-> w, rc |-> r, lines |-> ls, oom |-> o, host |-> h]
Passes == End("all", 0, {"ok"}, FALSE, "returns")
Refuses == End("all", 1, {"config"}, FALSE, "returns")
Fails == End("all", 1, {"error"}, FALSE, "returns")
Anything ==
    {Passes, Refuses, Fails,
     End("all", 1, {"config", "error"}, FALSE, "returns"),
     End("all", 0, {"config"}, FALSE, "returns"),
     End("all", 139, {"config"}, FALSE, "returns"),
     End("all", 124, {}, FALSE, "returns"),
     End("all", 1, {"error"}, TRUE, "returns"),
     End("rc", 0, {"ok"}, FALSE, "timeout"),
     End("nothing", 0, {"config"}, TRUE, "returns"),
     End("nothing", 0, {"ok"}, FALSE, "timeout"),
     End("nothing", 0, {}, FALSE, "error"),
     End("nothing", 0, {}, FALSE, "docker failed"), End("rc", 1, {"error"}, FALSE, "docker failed"),
     End("nothing", 0, {"error"}, FALSE, "returns")}
MCCanEnd ==
    [s \in {MCOrder[i] : i \in 1 .. 3} |->
        IF s = MCOrder[1] THEN Anything
        ELSE IF s = MCOrder[2] THEN {Passes, Refuses, Fails}
        ELSE {Passes, Refuses}]

MCModelOf == [FDPE |-> "TOP", RETARGETED |-> "SUB", LATE |-> "ABSENT"]
MCOtherTables ==
    {[m \in {} |-> ""],
     [m \in {"TOP"} |-> [iverilog |-> "other", verilator |-> "yes", equiv |-> "pass", gated |-> TRUE]]}
=============================================================================
