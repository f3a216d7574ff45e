---------------------------- MODULE MCCrosscheck ----------------------------
(***************************************************************************)
(* One test with two configurations, in six scenarios:                     *)
(*   Bits      the golden model and three simulators on one bit, with the  *)
(*             companion of Verilator;                                     *)
(*   Rejects   a configuration that is to be rejected;                     *)
(*   Endings   what a run may leave besides a pass and a fail;             *)
(*   Netlists  RTL and a netlist;                                          *)
(*   Trees     two model sources, two trees and dirty ones;                *)
(*   Board     a board beside the golden model, for two model sources.     *)
(***************************************************************************)
EXTENDS Crosscheck

Cfg(s, v) == [status |-> s, sample |-> v]

Absent == Cfg("absent", "none")

Skipped == Cfg("skip", "none")

Failed == Cfg("error", "none")

Result(kind, a, b, flag) ==
    [kind |-> kind, cfg |-> [c \in Cfgs |-> IF c = "a" THEN a ELSE b], at |-> 1, flag |-> flag]

Only(A) == {Result("ran", a, Absent, "") : a \in A}

Unusable(stamped, flag) == [kind |-> "unusable", stamped |-> stamped, at |-> 1, flag |-> flag]

Dirty(S) == {[v EXCEPT !.at = 0] : v \in S}

Pass(V) == {Cfg("pass", v) : v \in V}

Fail(V) == {Cfg("fail", v) : v \in V}

NoResults == [k \in Keys |-> {}]

Entry(finding, cls, rs, flows) ==
    [finding |-> finding, cls |-> cls, runners |-> rs, flows |-> flows, sources |-> Sources \cup {"n/a"}]

S == "unisim"

Rtl(rs) == {<<S, <<"rtl", r>>>> : r \in rs}

Bits ==
    [selected |-> Rtl({"python", "iverilog", "verilator", "iverilog-vz", "xsim"}),
     trees |-> 1, prov |-> [c \in Cfgs |-> "doc"],
     results |-> [NoResults EXCEPT
        ![<<"rtl", "python">>] = Only(Pass({"0", "x", "-"})),
        ![<<"rtl", "iverilog">>] = Only(Pass({"0", "x"}) \cup Fail({"1"})),
        ![<<"rtl", "verilator">>] = Only(Pass({"0"}) \cup Fail({"1"})),
        ![<<"rtl", "iverilog-vz">>] = Only(Pass({"0"}) \cup Fail({"1"})),
        ![<<"rtl", "xsim">>] = Only(Pass({"0"}) \cup Fail({"1"}))],
     entries |-> {<<>>, <<Entry("sim-divergence", "sim-divergence", SIMULATORS, Flows)>>,
                  <<Entry("sim-divergence", "doc-vs-model", SIMULATORS, Flows)>>,
                  <<Entry("sim-divergence", "doc-vs-model", SIMULATORS, Flows),
                    Entry("doc-vs-model", "doc-vs-model", SIMULATORS, Flows)>>}]

Rejects ==
    [selected |-> Rtl({"python", "iverilog", "iverilog-vz", "xsim"}),
     trees |-> 1, prov |-> [c \in Cfgs |-> "inferred"],
     results |-> [NoResults EXCEPT
        ![<<"rtl", "python">>] = {Result("ran", a, Cfg("pass", "none"), "") : a \in Pass({"0"}) \cup {Absent}},
        ![<<"rtl", "iverilog">>] = {Result("ran", a, b, "") : a \in Pass({"0"}) \cup Fail({"1"}),
                                                          b \in Pass({"none"}) \cup Fail({"none"})},
        ![<<"rtl", "iverilog-vz">>] = {Result("ran", a, b, "") : a \in Pass({"0"}) \cup Fail({"1"}),
                                                          b \in Pass({"none"}) \cup Fail({"none"})},
        ![<<"rtl", "xsim">>] = {Result("ran", a, b, "") : a \in Pass({"0"}),
                                                          b \in Pass({"none"}) \cup Fail({"none"})}],
     entries |-> {<<>>, <<Entry("doc-gap", "doc-gap", SIMULATORS, Flows)>>,
                  <<Entry("doc-gap", "doc-gap", {"xsim"}, Flows)>>}]

Endings ==
    [selected |-> Rtl({"python", "iverilog", "xsim", "verilator"}),
     trees |-> 1, prov |-> [c \in Cfgs |-> IF c = "a" THEN "inferred" ELSE "other"],
     results |-> [NoResults EXCEPT
        ![<<"rtl", "python">>] = {Result("ran", a, b, "") : a \in Pass({"0", "missing"}),
                                                         b \in Pass({"0"}) \cup {Failed}},
        ![<<"rtl", "iverilog">>] = {Result(kind, a, b, "") : kind \in {"ran", "traceless"},
                                      a \in Pass({"0"}) \cup Fail({"1", "none"}),
                                      b \in Pass({"0", "1"}) \cup {Failed, Skipped, Absent}}
                                   \cup {[kind |-> "orphan", at |-> 1], Unusable(FALSE, "")},
        ![<<"rtl", "xsim">>] = {Result("unavailable", Absent, Absent, ""),
                                Result("ran", Cfg("fail", "1"), Skipped, "")}
                               \cup {Result("ran", a, Cfg("pass", "1"), "") :
                                       a \in Pass({"0"}) \cup Fail({"1", "missing", "wide"})},
        ![<<"rtl", "verilator">>] = {Result("ran", a, Skipped, f) : a \in Pass({"0"}), f \in {"", "x_dependence"}}
                                    \cup {Unusable(TRUE, "x_dependence")}],
     entries |-> {<<>>, <<Entry("doc-gap", "doc-gap", SIMULATORS, Flows)>>}]

Netlists ==
    [selected |-> {<<S, <<f, r>>>> : f \in Flows, r \in {"iverilog", "xsim"}} \cup Rtl({"python"}),
     trees |-> 1, prov |-> [c \in Cfgs |-> "inferred"],
     results |-> [k \in Keys |->
        IF k[2] = "python" THEN Only(Pass({"0"})) ELSE Only(Pass({"0"}) \cup Fail({"1"}))],
     entries |-> {<<>>} \cup {<<Entry(c, c, {"iverilog", "xsim"}, fs)>> :
                                c \in {"flow-mismatch", "sim-divergence"}, fs \in {Flows, {"rtl"}}}]

Trees ==
    [selected |-> {<<ms, <<"rtl", r>>>> : ms \in Sources, r \in {"iverilog", "xsim"}},
     trees |-> 2, prov |-> [c \in Cfgs |-> "doc"],
     results |-> [NoResults EXCEPT
        ![<<"rtl", "iverilog">>] =
            LET Good == Only(Pass({"0"})) IN Good \cup Dirty(Good) \cup {Unusable(TRUE, "")},
        ![<<"rtl", "xsim">>] = Only(Pass({"0"}) \cup Fail({"1"}))],
     entries |-> {<<>>, <<[Entry("sim-divergence", "sim-divergence", SIMULATORS, Flows) EXCEPT !.sources = {S}]>>}]

Silicon == Entry("silicon-mismatch", "silicon-mismatch", {"hw"}, {"synth"})

Board ==
    [selected |-> {<<ms, k>> : ms \in Sources, k \in {<<"rtl", "python">>, <<"synth", "hw">>}}
                  \cup Rtl({"iverilog"}),
     trees |-> 1, prov |-> [c \in Cfgs |-> "doc"],
     results |-> [NoResults EXCEPT
        ![<<"rtl", "python">>] = Only(Pass({"0", "x"})),
        ![<<"rtl", "iverilog">>] = Only(Pass({"0"}) \cup Fail({"1"})),
        ![<<"synth", "hw">>] = Only(Pass({"0"}) \cup Fail({"1"}))
                               \cup {Unusable(TRUE, f) : f \in {"selftest", "repeats"}}],
     entries |-> {<<>>, <<Silicon>>, <<[Silicon EXCEPT !.sources = {S}]>>}]

MCScenarios ==
    [Bits |-> Bits, Rejects |-> Rejects, Endings |-> Endings, Netlists |-> Netlists,
     Trees |-> Trees, Board |-> Board]
=============================================================================
