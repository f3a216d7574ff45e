---------------------------- MODULE MCStatusFile ----------------------------
(***************************************************************************)
(* A primitive with a port of each kind, two enumerated attributes that    *)
(* are crossed, an inversion and a free one, in six scenarios:             *)
(*   GuardOf    verilator, its companion and iverilog, which pass and fail *)
(*              or pass and break;                                         *)
(*   Coverage   python with two seeds, and two simulators;                 *)
(*   TwoTests   two tests on iverilog, with every declaration;             *)
(*   TwoFlows   one test on iverilog in both flows;                        *)
(*   Life       python and iverilog, another model source, commits of the  *)
(*              overrides and the stimuli, stubs and several records.      *)
(* What a scenario does not run is declared out, unless it says otherwise. *)
(***************************************************************************)
EXTENDS StatusFile

CONSTANTS t1, t2, a, b, x, y

Symmetry == Permutations({x, y})

MCRunners == {"python", "iverilog", "verilator"}
MCNotOfStyle == {<<t2, "python">>}

Port(name, direction, cls, width) ==
    [name |-> name, direction |-> direction, cls |-> cls, width |-> width, active |-> "none"]

MCGenerated ==
    [ports |-> {Port("C", "input", "clock", 1), Port("R", "input", "async", 1),
                Port("D", "input", "data", 2), Port("T", "inout", "inout", 1),
                Port("Q", "output", "data", 1)},
     attributes |-> {[name |-> "IS_R_INVERTED", allowed |-> {<<0, "1'b0">>, <<1, "1'b1">>}, default |-> <<1, "1'b1">>],
                     [name |-> "MODE", allowed |-> {<<0, "A">>, <<1, "B">>}, default |-> <<0, "A">>],
                     [name |-> "INIT", allowed |-> {}, default |-> <<0, "0">>]},
     crosses |-> {},
     claims |-> {"C1"}]

Plain == [active |-> [p \in {} |-> ""], crosses |-> {}]
High == [active |-> [p \in {"R"} |-> "high"], crosses |-> {{"MODE", "IS_R_INVERTED"}}]
Low == [active |-> [p \in {"R"} |-> "low"], crosses |-> {{"MODE", "IS_R_INVERTED"}}]
Unknown == [active |-> [p \in {"R"} |-> "high"], crosses |-> {{"MODE", "WIDTH"}}]

Set(pins) == [op |-> "set", pins |-> pins]

Quiet == [attrs |-> [p \in {} |-> <<0, "">>], claims |-> {}, steps |-> <<>>]

Rising ==
    [attrs |-> [p \in {"MODE"} |-> <<1, "1">>], claims |-> {"C1"},
     steps |-> <<Set([p \in {<<"D", 0>>, <<"R">>} |-> "1"]), [op |-> "edge", port |-> "C"], [op |-> "sample"]>>]

Driving ==
    [attrs |-> [p \in {"IS_R_INVERTED"} |-> <<0, "1'b0">>] @@ [p \in {"INIT"} |-> <<7, "7">>], claims |-> {},
     steps |-> <<Set([p \in {<<"T", "en">>} |-> "1"]), Set([p \in {<<"R">>, <<"T", "val">>} |-> "1"]),
                 Set([p \in {<<"R">>, <<"T", "en">>} |-> "0"]), [op |-> "sample"]>>]

MCStimulus == [quiet |-> Quiet, rising |-> Rising, driving |-> Driving]

(* Every bin there may be.                                                 *)
MCExercises ==
    [t \in Tests |->
        LET bins == UNION {coverage_bins(merge(o)) : o \in {Plain, High, Low}} IN
        IF t = t1 THEN bins ELSE {<<"claim", "C1">>} \cup {p \in bins : p[1] = "cross"}]

(* The stimuli `S` of the seeds of the generator of t1; t2 is no vector    *)
(* test.                                                                   *)
Inputs(o, S) ==
    LET of(n) == [c \in Cfgs |-> IF c = a THEN n ELSE "quiet"] IN
    [overrides |-> o,
     stim |-> [t \in Tests |-> IF t = t1 THEN {of(n) : n \in S} ELSE {of(CHOOSE n \in S : TRUE)}]]

Declare(yes) == [p \in Tests \X MCRunners |-> IF p \in yes THEN "yes" ELSE "no"]

GuardOf(outcomes) ==
    [selected |-> {<<t1, <<"rtl", r>>>> : r \in {"iverilog", "verilator", "iverilog-vz"}},
     outcomes |-> outcomes,
     kinds |-> {},
     declarations |-> {Declare({<<t1, "iverilog">>, <<t1, "verilator">>})},
     inputs |-> {Inputs(High, {"quiet"})}, others |-> {}]

Coverage ==
    [selected |-> {<<t1, <<"rtl", r>>>> : r \in MCRunners},
     outcomes |-> {"pass", "fail"},
     kinds |-> {"unusable"},
     declarations |-> {Declare({t1} \X MCRunners)},
     inputs |-> {Inputs(High, {"rising", "driving"})}, others |-> {}]

TwoTests ==
    [selected |-> Tests \X {<<"rtl", "iverilog">>},
     outcomes |-> {"pass", "fail", "skip"},
     kinds |-> {"unavailable", "unusable"},
     declarations |-> {[Declare(Tests \X {"iverilog", "python"}) EXCEPT ![<<t2, "iverilog">>] = d] :
                          d \in {"yes", "no", "unsupported"}},
     inputs |-> {Inputs(High, {"driving"})}, others |-> {}]

TwoFlows ==
    [selected |-> {t1} \X {<<"rtl", "iverilog">>, <<"synth", "iverilog">>},
     outcomes |-> {"pass", "fail", "error", "skip"},
     kinds |-> {},
     declarations |-> {Declare({<<t1, "iverilog">>})},
     inputs |-> {Inputs(High, {"quiet"})}, others |-> {}]

Life ==
    [selected |-> {t1} \X {<<"rtl", "python">>, <<"rtl", "iverilog">>},
     outcomes |-> {"pass"},
     kinds |-> {},
     declarations |-> {Declare({<<t1, "python">>, <<t1, "iverilog">>})},
     inputs |-> {Inputs(High, {"rising"}), Inputs(Low, {"driving"}), Inputs(Plain, {"driving", "rising"}), Inputs(Unknown, {"quiet"})},
     others |-> {<<"rtl", "iverilog">>}]

MCScenarios == {GuardOf({"pass", "fail"}), GuardOf({"pass", "error"}), Coverage, TwoTests, TwoFlows, Life}
=============================================================================
