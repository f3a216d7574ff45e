------------------------- MODULE Crosscheck_proofs -------------------------
(***************************************************************************)
(* What the exit code, the verdict and the files of `xut crosscheck` say,  *)
(* for any model sources, flows, configurations, results and entries.      *)
(***************************************************************************)
EXTENDS Crosscheck, TLAPS

(* The results of one model source.                                        *)
Typed(V) == \A k \in Keys : V[k] = None \/ V[k] \in Results(k)

Statuses == {"pass", "fail", "error", "skip", "absent"}

Shown == {"0", "1", "x", "wide", "missing", "none", "-"}

KindOf(v) == v.kind \in {"none", "orphan", "unusable", "unavailable", "ran", "traceless"}

(* What a result with configurations shows.                                *)
CfgsOf(k, v) ==
    \A c \in Cfgs :
        /\ v.cfg[c].status \in Statuses /\ v.cfg[c].sample \in Shown
        /\ v.cfg[c].sample = "-" => k[2] = "python"
        /\ v.cfg[c].status = "fail" => k[2] # "python"

Lists(v) == \E c \in Cfgs : v.cfg[c].status # "absent"

LEMMA ResultIs ==
    ASSUME NEW k \in Keys, NEW v, v = None \/ v \in Results(k)
    PROVE  /\ KindOf(v) /\ (v.kind = "none" <=> v = None)
           /\ v.kind \in {"ran", "traceless"} =>
                CfgsOf(k, v) /\ Lists(v) /\ v.flag # "selftest"
<1>1. CASE v = None
  BY <1>1 DEF None, KindOf
<1> DEFINE Samples == Values \cup {"wide", "missing", "none"} \cup (IF k[2] = "python" THEN {"-"} ELSE {})
           Ends == {"pass", "error", "skip", "absent"} \cup (IF k[2] = "python" THEN {} ELSE {"fail"})
           Flags == IF k[2] = "verilator" THEN {"", "x_dependence"} ELSE {""}
           Kept == IF k[2] = "hw" THEN {"", "selftest", "repeats"} ELSE Flags
           Bad == [kind : {"orphan"}, at : Nat] \cup [kind : {"unusable"}, stamped : BOOLEAN, at : Nat, flag : Kept]
<1>2. CASE v \in Bad
  <2>1. v.kind \in {"orphan", "unusable"}
    BY <1>2
  <2>2. v # None
    BY <2>1 DEF None
  <2>3. QED
    BY <2>1, <2>2 DEF KindOf
<1>s. /\ Ends \subseteq Statuses /\ ("fail" \in Ends => k[2] # "python")
      /\ Samples \subseteq Shown /\ ("-" \in Samples => k[2] = "python")
      /\ "selftest" \notin Flags
  BY DEF Statuses, Values, Shown
<1> HIDE DEF Ends, Samples, Flags, Bad
<1>3. CASE v \in [kind : {"unavailable"}, cfg : [Cfgs -> [status : Ends, sample : Samples]], at : Nat, flag : Flags]
  <2>1. v.kind = "unavailable"
    BY <1>3
  <2>2. v # None
    BY <2>1 DEF None
  <2>3. QED
    BY <2>1, <2>2 DEF KindOf
<1>4. CASE /\ v \in [kind : {"ran", "traceless"}, cfg : [Cfgs -> [status : Ends, sample : Samples]], at : Nat, flag : Flags]
           /\ \E c \in Cfgs : v.cfg[c].status # "absent"
  <2>1. v.kind \in {"ran", "traceless"} /\ v.flag \in Flags
    BY <1>4
  <2>2. ASSUME NEW c \in Cfgs PROVE v.cfg[c].status \in Ends /\ v.cfg[c].sample \in Samples
    BY <1>4
  <2>3. CfgsOf(k, v)
    BY <1>s, <2>2 DEF CfgsOf
  <2>4. v # None
    BY <2>1 DEF None
  <2>5. KindOf(v) /\ v.kind # "none"
    BY <2>1 DEF KindOf
  <2>6. v.flag # "selftest"
    BY <1>s, <2>1
  <2>7. Lists(v)
    BY <1>4 DEF Lists
  <2>9. QED
    BY <2>3, <2>4, <2>5, <2>6, <2>7
<1>5. QED
  BY <1>1, <1>2, <1>3, <1>4 DEF Results, Ends, Samples, Flags, Bad

LEMMA RanIs ==
    ASSUME NEW V, Typed(V), NEW k \in Keys
    PROVE  /\ Ran(V[k]) \subseteq Cfgs
           /\ \A c \in Cfgs : V[k].kind = "ran" /\ c \in Ran(V[k]) =>
                 /\ HasTrace(V[k])
                 /\ V[k].cfg[c].status \in {"pass", "fail"}
                 /\ V[k].cfg[c].status = "fail" => k[2] # "python"
                 /\ Sample(V[k], c) \in Shown
                 /\ Sample(V[k], c) = "-" => k[2] = "python"
  BY ResultIs DEF Typed, Ran, HasTrace, Sample, CfgsOf

-----------------------------------------------------------------------------
(* Every disagreement that a rule pairs is found, under a class that is    *)
(* about values, for the flow and the runner of the later result.          *)

Names(V, l) ==
    \E f \in classify(V) :
        /\ f.cls \in VALUE_CLASSES /\ l[2] \in f.runners /\ f.flow = l[1]
        /\ f.cls = "silicon-mismatch" <=> l[2] = "hw"

(* The two kinds of disagreement.                                          *)
ValuesDiffer(V, k, l, c) ==
    /\ {Sample(V[k], c), Sample(V[l], c)} \subseteq Values
    /\ Sample(V[k], c) # Sample(V[l], c)
    /\ (Sample(V[k], c) = "x" => Observes(l)) /\ (Sample(V[l], c) = "x" => Observes(k))

OneRejects(V, k, l, c) ==
    /\ \A m \in Keys : V[m].kind = "ran" => Sample(V[m], c) = "none"
    /\ l[2] # "hw" /\ V[k].cfg[c].status # V[l].cfg[c].status

LEMMA ObservesIs ==
    ASSUME NEW k \in Keys
    PROVE  Observes(k) <=> k[2] \in X_OBSERVABLE
  BY DEF Observes, X_OBSERVABLE, Keys

(* A difference of values is a point of the trace comparison, a rejection  *)
(* by one of them of the other.                                            *)
LEMMA ValuesArePoints ==
    ASSUME NEW v, NEW w, NEW c \in Common(v, w), NEW ax, NEW bx,
           {Sample(v, c), Sample(w, c)} \subseteq Values, Sample(v, c) # Sample(w, c),
           Sample(v, c) = "x" => bx, Sample(w, c) = "x" => ax
    PROVE  DiffPoints(v, w, ax, bx) # {}
<1>1. diff(Sample(v, c), Sample(w, c), ax, bx) = "value"
  BY DEF diff, Values
<1>2. c \in Cfgs
  BY DEF Common, Ran
<1>3. QED
  BY <1>1, <1>2 DEF DiffPoints

LEMMA RejectIsFound ==
    ASSUME NEW V, Typed(V), NEW k \in Keys, NEW l \in Keys, NEW c \in Common(V[k], V[l]),
           V[k].kind = "ran", OneRejects(V, k, l, c)
    PROVE  c \in reject_cfgs(V) /\ c \in rejection_diff(V[k], V[l], reject_cfgs(V))
<1>1. c \in Cfgs /\ c \in Ran(V[k]) /\ HasTrace(V[k])
  BY RanIs DEF Common
<1>2. \A m \in Keys : HasTrace(V[m]) => Sample(V[m], c) = "none"
  BY DEF OneRejects, HasTrace
<1>3. c \in reject_cfgs(V)
  <2> DEFINE traced == {V[m] : m \in {m \in Keys : HasTrace(V[m])}}
             run == UNION {Ran(v) : v \in traced}
             sampled == {d \in Cfgs : \E v \in traced : Sample(v, d) # "none"}
  <2>1. V[k] \in traced
    BY <1>1
  <2>2. c \in run
    BY <1>1, <2>1
  <2>3. \A v \in traced : Sample(v, c) = "none"
    BY <1>2
  <2>4. reject_cfgs(V) = run \ sampled
    BY DEF reject_cfgs
  <2> HIDE DEF traced
  <2>5. c \notin sampled
    BY <2>3
  <2> HIDE DEF run, sampled
  <2>6. QED
    BY <2>2, <2>4, <2>5
<1>4. QED
  BY <1>3 DEF rejection_diff, OneRejects

(* Two simulators of one flow.                                             *)
LEMMA SimsAreFound ==
    ASSUME NEW V, Typed(V), NEW f \in Flows, NEW r \in SIMULATORS, NEW s \in SIMULATORS, r # s,
           Conflict(V, <<f, r>>, <<f, s>>)
    PROVE  Names(V, <<f, s>>)
<1> DEFINE k == <<f, r>>
           l == <<f, s>>
<1>1. k \in Keys /\ l \in Keys /\ k[1] = f /\ k[2] = r /\ l[1] = f /\ l[2] = s
  BY DEF Keys, Runners
<1>2. PICK c \in Common(V[k], V[l]) : ValuesDiffer(V, k, l, c) \/ OneRejects(V, k, l, c)
  BY DEF Conflict, ValuesDiffer, OneRejects
<1>3. V[k].kind = "ran" /\ V[l].kind = "ran"
  BY DEF Conflict
<1>4. r \in sims(V, f) /\ s \in sims(V, f)
  <2>1. HasTrace(V[k]) /\ HasTrace(V[l])
    BY <1>1, <1>2, <1>3, RanIs DEF Common
  <2>2. QED
    BY <2>1 DEF sims
<1>5. diverged(V, f) # {} \/ rej_split(V, f) # {}
  <2>1. <<r, s>> \in {p \in sims(V, f) \X sims(V, f) : p[1] # p[2]} /\ <<r, s>> \in sims(V, f) \X sims(V, f)
    BY <1>4
  <2>2. CASE ValuesDiffer(V, k, l, c)
    <3>1. DiffPoints(V[k], V[l], r \in X_OBSERVABLE, s \in X_OBSERVABLE) # {}
      BY <1>1, <1>2, <2>2, ValuesArePoints, ObservesIs DEF ValuesDiffer
    <3> DEFINE P == {p \in sims(V, f) \X sims(V, f) : p[1] # p[2]}
               D(p) == DiffPoints(V[<<f, p[1]>>], V[<<f, p[2]>>], p[1] \in X_OBSERVABLE, p[2] \in X_OBSERVABLE)
    <3>2. D(<<r, s>>) # {} /\ <<r, s>> \in P
      BY <2>1, <3>1
    <3>3. diverged(V, f) = UNION {D(p) : p \in P}
      BY DEF diverged
    <3> HIDE DEF P, D
    <3>4. QED
      BY <3>2, <3>3
  <2>3. CASE OneRejects(V, k, l, c)
    <3>1. rejection_diff(V[k], V[l], reject_cfgs(V)) # {}
      BY <1>1, <1>2, <1>3, <2>3, RejectIsFound
    <3> DEFINE P == sims(V, f) \X sims(V, f)
               D(p) == rejection_diff(V[<<f, p[1]>>], V[<<f, p[2]>>], reject_cfgs(V))
    <3>2. D(<<r, s>>) # {} /\ <<r, s>> \in P
      BY <2>1, <3>1
    <3>3. rej_split(V, f) = UNION {D(p) : p \in P}
      BY DEF rej_split
    <3> HIDE DEF P, D
    <3>4. QED
      BY <3>2, <3>3
  <2>4. QED
    BY <1>2, <2>2, <2>3
<1>6. Found("sim-divergence", f, sims(V, f)) \in classify(V)
  BY <1>5 DEF classify, sim_divergence
<1>7. QED
  BY <1>1, <1>4, <1>6 DEF Names, Found, VALUE_CLASSES, SIMULATORS

(* RTL and another flow, by one simulator.                                 *)
LEMMA FlowsAreFound ==
    ASSUME NEW V, Typed(V), NEW f \in Flows \ {"rtl"}, NEW r \in SIMULATORS,
           Conflict(V, <<"rtl", r>>, <<f, r>>)
    PROVE  Names(V, <<f, r>>)
<1> DEFINE k == <<"rtl", r>>
           l == <<f, r>>
<1>1. k \in Keys /\ l \in Keys /\ k[1] = "rtl" /\ k[2] = r /\ l[1] = f /\ l[2] = r
  BY CrosscheckAssumption DEF Keys, Runners
<1>2. PICK c \in Common(V[k], V[l]) : ValuesDiffer(V, k, l, c) \/ OneRejects(V, k, l, c)
  BY DEF Conflict, ValuesDiffer, OneRejects
<1>3. V[k].kind = "ran" /\ V[l].kind = "ran"
  BY DEF Conflict
<1>4. HasTrace(V[k]) /\ HasTrace(V[l])
  BY <1>1, <1>2, <1>3, RanIs DEF Common
<1>5. Differ(V[k], V[l], reject_cfgs(V), r \in X_OBSERVABLE, r \in X_OBSERVABLE)
  <2>1. CASE ValuesDiffer(V, k, l, c)
    BY <1>1, <1>2, <2>1, ValuesArePoints, ObservesIs DEF ValuesDiffer, Differ
  <2>2. CASE OneRejects(V, k, l, c)
    BY <1>1, <1>2, <1>3, <2>2, RejectIsFound DEF Differ
  <2>3. QED
    BY <1>2, <2>1, <2>2
<1>6. Found("flow-mismatch", f, {r}) \in flow_mismatch(V)
  <2>1. l \in (Flows \ {"rtl"}) \X SIMULATORS
    OBVIOUS
  <2>2. Found("flow-mismatch", l[1], {l[2]}) \in flow_mismatch(V)
    BY <1>1, <1>4, <1>5, <2>1 DEF flow_mismatch
  <2>3. QED
    BY <1>1, <2>2
<1>7. QED
  BY <1>1, <1>6 DEF Names, Found, VALUE_CLASSES, SIMULATORS, classify

(* The model and its transformed copy, by Icarus.                          *)
LEMMA CompanionIsFound ==
    ASSUME NEW V, Typed(V), NEW f \in Flows, Conflict(V, <<f, "iverilog">>, <<f, "iverilog-vz">>)
    PROVE  Names(V, <<f, "iverilog-vz">>)
<1> DEFINE k == <<f, "iverilog">>
           l == <<f, "iverilog-vz">>
<1>1. k \in Keys /\ l \in Keys /\ k[2] = "iverilog" /\ l[1] = f /\ l[2] = "iverilog-vz"
  BY DEF Keys, Runners, SIMULATORS
<1>2. PICK c \in Common(V[k], V[l]) : ValuesDiffer(V, k, l, c) \/ OneRejects(V, k, l, c)
  BY DEF Conflict, ValuesDiffer, OneRejects
<1>3. V[k].kind = "ran" /\ V[l].kind = "ran"
  BY DEF Conflict
<1>4. HasTrace(V[k]) /\ HasTrace(V[l])
  BY <1>1, <1>2, <1>3, RanIs DEF Common
<1>5. Differ(V[k], V[l], reject_cfgs(V), TRUE, TRUE)
  <2>1. CASE ValuesDiffer(V, k, l, c)
    BY <1>1, <1>2, <2>1, ValuesArePoints DEF ValuesDiffer, Differ
  <2>2. CASE OneRejects(V, k, l, c)
    BY <1>1, <1>2, <1>3, <2>2, RejectIsFound DEF Differ
  <2>3. QED
    BY <1>2, <2>1, <2>2
<1>6. Found("transform-bug", f, {"iverilog", "iverilog-vz"}) \in transform_bug(V)
  BY <1>4, <1>5 DEF transform_bug
<1>7. QED
  BY <1>1, <1>6 DEF Names, Found, VALUE_CLASSES, SIMULATORS, classify

(* The golden model and a simulator: unless the simulators differ among    *)
(* themselves, the source of the golden value names the class.             *)
LEMMA GoldenIsFound ==
    ASSUME NEW V, Typed(V), NEW r \in SIMULATORS,
           Conflict(V, <<"rtl", "python">>, <<"rtl", r>>), SourcesKnown \/ ~ Structural(V)
    PROVE  Names(V, <<"rtl", r>>)
<1> DEFINE k == <<"rtl", "python">>
           l == <<"rtl", r>>
<1>1. /\ k \in Keys /\ l \in Keys /\ k[1] = "rtl" /\ k[2] = "python" /\ l[1] = "rtl" /\ l[2] = r
      /\ "rtl" \in Flows /\ Golden(V) = V[k]
  BY CrosscheckAssumption DEF Keys, Runners, Golden
<1>2. PICK c \in Common(V[k], V[l]) : ValuesDiffer(V, k, l, c) \/ OneRejects(V, k, l, c)
  BY DEF Conflict, ValuesDiffer, OneRejects
<1>3. V[k].kind = "ran" /\ V[l].kind = "ran"
  BY DEF Conflict
<1>4. c \in Cfgs /\ c \in Ran(V[k]) /\ c \in Ran(V[l])
  BY DEF Common, Ran
<1>5. HasTrace(V[k]) /\ HasTrace(V[l])
  BY <1>1, <1>3, <1>4, RanIs
<1>6. r \in sims(V, "rtl")
  BY <1>5 DEF sims
<1>7. ASSUME diverged(V, "rtl") # {} \/ rej_split(V, "rtl") # {} \/ Partial(V) # {} PROVE Names(V, l)
  <2>1. Found("sim-divergence", "rtl", sims(V, "rtl")) \in classify(V)
    BY <1>1, <1>7 DEF classify, sim_divergence
  <2>2. QED
    BY <1>1, <1>6, <2>1 DEF Names, Found, VALUE_CLASSES, SIMULATORS
<1>8. CASE ValuesDiffer(V, k, l, c) /\ diverged(V, "rtl") = {} /\ Partial(V) = {}
  <2> DEFINE p == <<c, "value">>
  <2>1. compare(Sample(V[k], c), Sample(V[l], c), r \in X_OBSERVABLE) = "value"
    BY <1>1, <1>8, ObservesIs DEF ValuesDiffer, compare, Values
  <2>2. r \in by_runner(V, c, "value")
    BY <1>1, <1>2, <1>6, <2>1 DEF by_runner
  <2>3. p \in GoldenPoints(V) /\ p \notin Partial(V)
    BY <1>1, <1>4, <1>5, <1>8, <2>2 DEF GoldenPoints
  <2>4. bit_prov(c) \in {"doc", "inferred"}
    <3>1. CASE SourcesKnown
      BY <1>4, <3>1 DEF SourcesKnown
    <3>2. CASE ~ Structural(V)
      <4>1. ~ (p[2] # "value" \/ bit_prov(p[1]) \notin {"doc", "inferred"})
        BY <2>3, <3>2 DEF Structural
      <4>2. QED
        BY <4>1
    <3>3. QED
      BY <3>1, <3>2
  <2>5. r \in observers(V, p[1], p[2])
    BY <1>1, <1>4, <1>6, <1>8, ObservesIs DEF observers, ValuesDiffer, PortKinds
  <2>6. \A prov \in {"doc", "inferred"} : bit_prov(c) = prov => p \in Unanimous(V, prov)
    BY <2>3 DEF Unanimous
  <2>7. CASE bit_prov(c) = "doc"
    <3> DEFINE rs == UNION {observers(V, q[1], q[2]) : q \in Unanimous(V, "doc")}
    <3>1. p \in Unanimous(V, "doc")
      BY <2>6, <2>7
    <3>2. r \in rs
      BY <2>5, <3>1
    <3>3. Found("doc-vs-model", "rtl", rs) \in golden_vs_sims(V)
      BY DEF golden_vs_sims
    <3> HIDE DEF rs
    <3>4. Found("doc-vs-model", "rtl", rs) \in classify(V)
      BY <3>2, <3>3 DEF classify, Found
    <3>5. QED
      BY <1>1, <3>2, <3>4 DEF Names, Found, VALUE_CLASSES, SIMULATORS
  <2>8. CASE bit_prov(c) = "inferred"
    <3> DEFINE rs == accepting(V) \cup UNION {observers(V, q[1], q[2]) : q \in Unanimous(V, "inferred")}
    <3>1. p \in Unanimous(V, "inferred")
      BY <2>6, <2>8
    <3>2. r \in rs
      BY <2>5, <3>1
    <3>3. Found("doc-gap", "rtl", rs) \in golden_vs_sims(V)
      BY DEF golden_vs_sims
    <3> HIDE DEF rs
    <3>4. Found("doc-gap", "rtl", rs) \in classify(V)
      BY <3>2, <3>3 DEF classify, Found
    <3>5. QED
      BY <1>1, <3>2, <3>4 DEF Names, Found, VALUE_CLASSES, SIMULATORS
  <2>9. QED
    BY <2>4, <2>7, <2>8
<1>9. CASE OneRejects(V, k, l, c) /\ rej_split(V, "rtl") = {}
  <2> DEFINE rs == accepting(V) \cup UNION {observers(V, q[1], q[2]) : q \in Unanimous(V, "inferred")}
  <2>1. c \in reject_cfgs(V)
    BY <1>1, <1>2, <1>3, <1>9, RejectIsFound
  <2>2. V[k].cfg[c].status = "pass" /\ V[l].cfg[c].status = "fail"
    BY <1>1, <1>3, <1>4, <1>9, RanIs DEF OneRejects
  <2>3. r \in accepting(V)
    BY <1>1, <1>4, <1>5, <1>6, <1>9, <2>1, <2>2 DEF accepting
  <2>4. r \in rs
    BY <2>3
  <2>5. Found("doc-gap", "rtl", rs) \in golden_vs_sims(V)
    BY DEF golden_vs_sims
  <2> HIDE DEF rs
  <2>6. Found("doc-gap", "rtl", rs) \in classify(V)
    BY <2>4, <2>5 DEF classify, Found
  <2>7. QED
    BY <1>1, <2>4, <2>6 DEF Names, Found, VALUE_CLASSES, SIMULATORS
<1>10. QED
  BY <1>2, <1>7, <1>8, <1>9

(* The golden model and the board.                                         *)
LEMMA BoardIsFound ==
    ASSUME NEW V, Typed(V), NEW f \in Flows, Conflict(V, <<"rtl", "python">>, <<f, "hw">>)
    PROVE  Names(V, <<f, "hw">>)
<1> DEFINE k == <<"rtl", "python">>
           l == <<f, "hw">>
<1>1. /\ k \in Keys /\ l \in Keys /\ l[1] = f /\ l[2] = "hw" /\ Golden(V) = V[k]
  BY CrosscheckAssumption DEF Keys, Runners, Golden
<1>2. PICK c \in Common(V[k], V[l]) : ValuesDiffer(V, k, l, c)
  BY <1>1 DEF Conflict, ValuesDiffer
<1>3. V[k].kind = "ran" /\ V[l].kind = "ran" /\ V[l].flag # "selftest"
  <2>1. V[k].kind = "ran" /\ V[l].kind = "ran"
    BY DEF Conflict
  <2>2. QED
    BY <1>1, <2>1, ResultIs DEF Typed
<1>4. HasTrace(V[k]) /\ HasTrace(V[l])
  BY <1>1, <1>2, <1>3, RanIs DEF Common
<1>5. compare(Sample(V[k], c), Sample(V[l], c), FALSE) # "same"
  BY <1>1, <1>2 DEF ValuesDiffer, compare, Values, Observes
<1>6. Found("silicon-mismatch", f, {"hw"}) \in silicon_mismatch(V)
  BY <1>1, <1>2, <1>3, <1>4, <1>5 DEF silicon_mismatch
<1>7. QED
  BY <1>1, <1>6 DEF Names, Found, VALUE_CLASSES, SIMULATORS, classify

LEMMA ConflictIsFound ==
    ASSUME NEW V, Typed(V), NEW k \in Keys, NEW l \in Keys, Conflict(V, k, l),
           k[2] = "python" => SourcesKnown \/ ~ Structural(V)
    PROVE  Names(V, l)
<1>1. k = <<k[1], k[2]>> /\ l = <<l[1], l[2]>> /\ k[1] \in Flows /\ l[1] \in Flows /\ k # l
  BY DEF Keys, Conflict
<1>2. CASE k[1] = l[1] /\ {k[2], l[2]} \subseteq SIMULATORS
  BY <1>1, <1>2, SimsAreFound
<1>3. CASE k = <<"rtl", "python">> /\ l \in {"rtl"} \X SIMULATORS
  BY <1>1, <1>3, GoldenIsFound
<1>4. CASE k = <<"rtl", "python">> /\ l[2] = "hw"
  BY <1>1, <1>4, BoardIsFound
<1>5. CASE k[1] = "rtl" /\ k[2] = l[2] /\ l[2] \in SIMULATORS
  <2>1. k = <<"rtl", l[2]>> /\ l = <<l[1], l[2]>> /\ l[1] \in Flows \ {"rtl"}
    BY <1>1, <1>5
  <2>2. Conflict(V, <<"rtl", l[2]>>, <<l[1], l[2]>>)
    BY <2>1
  <2>3. Names(V, <<l[1], l[2]>>)
    BY <1>5, <2>1, <2>2, FlowsAreFound
  <2>4. QED
    BY <2>1, <2>3
<1>6. CASE k[1] = l[1] /\ k[2] = "iverilog" /\ l[2] = "iverilog-vz"
  BY <1>1, <1>6, CompanionIsFound
<1>7. QED
  BY <1>2, <1>3, <1>4, <1>5, <1>6 DEF Conflict, Paired

-----------------------------------------------------------------------------
(* What every state has.                                                   *)
DiskTyped ==
    /\ DOMAIN disk = Sources
    /\ \A ms \in Sources : disk[ms] = [k \in Keys |-> disk[ms][k]] /\ Typed(disk[ms])

EntriesTyped == \A i \in DOMAIN entries : entries[i].finding \in FINDING_CLASSES

FileIs(file) ==
    /\ file = [status |-> file.status, seen |-> file.seen]
    /\ file.status \in {"absent", "open", "closed"}

FilesTyped ==
    /\ files = [c \in FINDING_CLASSES |-> files[c]]
    /\ \A c \in FINDING_CLASSES : FileIs(files[c])

Inv == scenario \in DOMAIN Scenarios /\ tree \in Nat /\ DiskTyped /\ EntriesTyped /\ FilesTyped

LEMMA RunIsTyped ==
    ASSUME NEW k \in Keys, NEW v \in Results(k), NEW t \in Nat
    PROVE  [v EXCEPT !.at = t] \in Results(k)
<1> DEFINE Samples == Values \cup {"wide", "missing", "none"} \cup (IF k[2] = "python" THEN {"-"} ELSE {})
           Ends == {"pass", "error", "skip", "absent"} \cup (IF k[2] = "python" THEN {} ELSE {"fail"})
           Flags == IF k[2] = "verilator" THEN {"", "x_dependence"} ELSE {""}
           Kept == IF k[2] = "hw" THEN {"", "selftest", "repeats"} ELSE Flags
           R(kinds) == [kind : kinds, cfg : [Cfgs -> [status : Ends, sample : Samples]], at : Nat, flag : Flags]
           Orphans == [kind : {"orphan"}, at : Nat]
           Unusable == [kind : {"unusable"}, stamped : BOOLEAN, at : Nat, flag : Kept]
           Some == {w \in R({"ran", "traceless"}) : \E c \in Cfgs : w.cfg[c].status # "absent"}
<1>1. Results(k) = Orphans \cup Unusable \cup R({"unavailable"}) \cup Some
  BY DEF Results
<1> DEFINE w == [v EXCEPT !.at = t]
<1> HIDE DEF Samples, Ends, Flags, Kept
<1>2. CASE v \in Orphans \/ v \in Unusable
  <2>1. CASE v \in Orphans
    <3>1. w \in Orphans
      BY <2>1
    <3>2. QED
      BY <1>1, <3>1
  <2>2. CASE v \in Unusable
    <3>1. w \in Unusable
      BY <2>2
    <3>2. QED
      BY <1>1, <3>1
  <2>3. QED
    BY <1>2, <2>1, <2>2
<1>3. ASSUME NEW kinds, v \in R(kinds) PROVE w \in R(kinds) /\ w.cfg = v.cfg
  BY <1>3
<1>4. CASE v \in R({"unavailable"})
  <2>1. w \in R({"unavailable"})
    BY <1>3, <1>4
  <2>2. QED
    BY <1>1, <2>1
<1>5. CASE v \in Some
  <2>1. w \in R({"ran", "traceless"}) /\ w.cfg = v.cfg
    BY <1>3, <1>5
  <2>2. \E c \in Cfgs : w.cfg[c].status # "absent"
    BY <1>5, <2>1
  <2>3. w \in Some
    BY <2>1, <2>2
  <2>4. QED
    BY <1>1, <2>3
<1>6. QED
  BY <1>1, <1>2, <1>4, <1>5

LEMMA Inductive == Spec => []Inv
<1>1. Init => Inv
  <2> SUFFICES ASSUME Init PROVE Inv
    OBVIOUS
  <2>1. DiskTyped
    BY DEF Init, DiskTyped, Typed
  <2>2. EntriesTyped
    BY DEF Init, EntriesTyped
  <2>3. FilesTyped
    BY DEF Init, FilesTyped, FileIs
  <2>4. QED
    BY <2>1, <2>2, <2>3 DEF Inv, Init
<1>2. Inv /\ [Next]_vars => Inv'
  <2> SUFFICES ASSUME Inv, [Next]_vars PROVE Inv'
    OBVIOUS
  <2>1. CASE CrossCheck
    <3>1. UNCHANGED <<scenario, disk, tree, entries>>
      BY <2>1 DEF CrossCheck
    <3>2. ASSUME NEW c \in FINDING_CLASSES PROVE FileIs(files'[c])
      <4>1. files'[c] = IF Recorded(c) = {} THEN files[c] ELSE record_finding(files[c], Recorded(c))
        BY <2>1 DEF CrossCheck, Inv, FilesTyped
      <4>2. FileIs(files[c])
        BY DEF Inv, FilesTyped
      <4>3. FileIs(record_finding(files[c], Recorded(c)))
        BY <4>2 DEF FileIs, record_finding
      <4>4. QED
        BY <4>1, <4>2, <4>3
    <3>3. FilesTyped'
      <4>1. files' = [c \in FINDING_CLASSES |-> files'[c]]
        BY <2>1 DEF CrossCheck, Inv, FilesTyped
      <4>2. QED
        BY <3>2, <4>1 DEF FilesTyped, FileIs
    <3>4. DiskTyped' /\ EntriesTyped'
      BY <3>1 DEF Inv, DiskTyped, EntriesTyped, Typed
    <3>5. QED
      BY <3>1, <3>3, <3>4 DEF Inv
  <2>2. ASSUME NEW p \in Scenarios[scenario].selected, Run(p[1], p[2]) PROVE Inv'
    <3>1. UNCHANGED <<scenario, tree, entries, files>>
      BY <2>2 DEF Run
    <3> DEFINE m == p[1]
               l == p[2]
    <3>2. m \in Sources /\ l \in Keys
      BY CrosscheckAssumption DEF Inv
    <3>3. PICK v \in Scenarios[scenario].results[l] :
             disk' = [disk EXCEPT ![m][l] = IF v.at = 0 THEN v ELSE [v EXCEPT !.at = tree]]
      BY <2>2 DEF Run
    <3>4. v \in Results(l)
      BY <3>2, CrosscheckAssumption DEF Inv
    <3> DEFINE w == IF v.at = 0 THEN v ELSE [v EXCEPT !.at = tree]
    <3>5. w \in Results(l)
      BY <3>2, <3>4, RunIsTyped DEF Inv
    <3>6. disk' = [disk EXCEPT ![m][l] = w]
      BY <3>3
    <3> HIDE DEF m, l, w
    <3>7. DiskTyped'
      <4>1. DOMAIN disk' = Sources
        BY <3>6 DEF Inv, DiskTyped
      <4>2. ASSUME NEW ms \in Sources
            PROVE  disk'[ms] = [k \in Keys |-> IF ms = m /\ k = l THEN w ELSE disk[ms][k]]
        <5>1. disk[ms] = [k \in Keys |-> disk[ms][k]] /\ DOMAIN disk = Sources
          BY DEF Inv, DiskTyped
        <5>2. CASE ms = m
          <6>1. disk'[ms] = [disk[ms] EXCEPT ![l] = w]
            BY <3>2, <3>6, <5>1, <5>2
          <6>2. QED
            BY <3>2, <5>1, <5>2, <6>1
        <5>3. CASE ms # m
          <6>1. disk'[ms] = disk[ms]
            BY <3>6, <5>1, <5>3
          <6>2. QED
            BY <5>1, <5>3, <6>1
        <5>4. QED
          BY <5>2, <5>3
      <4>3. ASSUME NEW ms \in Sources
            PROVE  disk'[ms] = [k \in Keys |-> disk'[ms][k]] /\ Typed(disk'[ms])
        <5>1. disk'[ms] = [k \in Keys |-> disk'[ms][k]]
          BY <4>2
        <5>2. Typed(disk[ms])
          BY DEF Inv, DiskTyped
        <5>3. \A k \in Keys : disk'[ms][k] = IF ms = m /\ k = l THEN w ELSE disk[ms][k]
          BY <4>2
        <5>4. Typed(disk'[ms])
          BY <3>5, <5>2, <5>3 DEF Typed
        <5>5. QED
          BY <5>1, <5>4
      <4>4. QED
        BY <4>1, <4>3 DEF DiskTyped, Typed
    <3>8. EntriesTyped' /\ FilesTyped'
      BY <3>1 DEF Inv, EntriesTyped, FilesTyped, FileIs
    <3>9. QED
      BY <3>1, <3>7, <3>8 DEF Inv
  <2>3. CASE Commit
    <3>1. UNCHANGED <<scenario, disk, entries, files>> /\ tree' \in Nat
      BY <2>3 DEF Commit, Inv
    <3>2. QED
      BY <3>1 DEF Inv, DiskTyped, Typed, EntriesTyped, FilesTyped, FileIs
  <2>4. CASE List
    <3>1. UNCHANGED <<scenario, disk, tree, files>> /\ entries' \in Scenarios[scenario].entries
      BY <2>4 DEF List
    <3>2. EntriesTyped'
      BY <3>1, CrosscheckAssumption DEF Inv, EntriesTyped
    <3>3. QED
      BY <3>1, <3>2 DEF Inv, DiskTyped, Typed, FilesTyped, FileIs
  <2>5. CASE Close
    <3>1. UNCHANGED <<scenario, disk, tree, entries>>
      BY <2>5 DEF Close
    <3>2. PICK c \in DOMAIN files : files' = [files EXCEPT ![c].status = IF @ = "open" THEN "closed" ELSE "open"]
      BY <2>5 DEF Close
    <3>3. c \in FINDING_CLASSES /\ FileIs(files[c])
      BY DEF Inv, FilesTyped
    <3>4. FilesTyped'
      BY <3>2, <3>3 DEF Inv, FilesTyped, FileIs
    <3>5. QED
      BY <3>1, <3>4 DEF Inv, DiskTyped, Typed, EntriesTyped
  <2>6. CASE UNCHANGED vars
    BY <2>6 DEF vars, Inv, DiskTyped, Typed, EntriesTyped, FilesTyped, FileIs
  <2>7. QED
    BY <2>1, <2>2, <2>3, <2>4, <2>5, <2>6 DEF Next
<1>3. QED
  BY <1>1, <1>2, PTL DEF Spec

-----------------------------------------------------------------------------
(* From a disagreement to the list and the record                          *)

(* An entry lists it.                                                      *)
ListedAt(i, ms, l) ==
    /\ entries[i].finding = entries[i].cls /\ entries[i].cls \in VALUE_CLASSES
    /\ l[2] \in entries[i].runners /\ l[1] \in entries[i].flows
    /\ SourceOf(l, ms) \in entries[i].sources

Unlisted(ms, l) ==
    \E f \in unlisted : f.cls \in FINDING_CLASSES /\ f.flow = l[1] /\ f.source = SourceOf(l, ms)

(* A model source with a result is looked at.                              *)
LEMMA GatherIs ==
    ASSUME NEW ms \in Sources
    PROVE  /\ ms \in DOMAIN gather <=> \E k \in Keys : disk[ms][k] # None
           /\ ms \in DOMAIN gather => gather[ms] = disk[ms]
  BY DEF gather

LEMMA DisagreementIsReported ==
    ASSUME Inv, NEW ms \in Sources, NEW k \in Keys, NEW l \in Keys, Conflict(disk[ms], k, l),
           ~ stale(disk[ms]), k[2] = "python" => SourcesKnown \/ ~ Structural(disk[ms])
    PROVE  /\ Findings # {}
           /\ Unlisted(ms, l) \/ \E i \in DOMAIN entries : ListedAt(i, ms, l)
<1>1. Names(disk[ms], l)
  BY ConflictIsFound DEF Inv, DiskTyped
<1>2. PICK f \in classify(disk[ms]) :
         /\ f.cls \in VALUE_CLASSES /\ l[2] \in f.runners /\ f.flow = l[1]
         /\ f.cls = "silicon-mismatch" <=> l[2] = "hw"
  BY <1>1 DEF Names
<1>s. model_source(f, ms) = SourceOf(l, ms)
  BY <1>2 DEF model_source, SourceOf, VALUE_CLASSES
<1>3. ms \in DOMAIN gather /\ gather[ms] = disk[ms]
  <2>1. disk[ms][k] # None
    BY DEF Conflict, None
  <2>2. QED
    BY <2>1, GatherIs
<1> DEFINE g == [cls |-> f.cls, flow |-> f.flow, source |-> model_source(f, ms), known |-> Known(f, ms)]
<1>4. g \in Findings
  <2> DEFINE Of(s) == {[cls |-> h.cls, flow |-> h.flow, source |-> model_source(h, s), known |-> Known(h, s)] :
                          h \in IF stale(gather[s]) THEN {} ELSE classify(gather[s])}
  <2>1. g \in Of(ms)
    BY <1>2, <1>3
  <2>2. Findings = UNION {Of(s) : s \in DOMAIN gather}
    BY DEF Findings
  <2> HIDE DEF g, Of
  <2>3. QED
    BY <1>3, <2>1, <2>2
<1>5. CASE Known(f, ms)
  <2>1. PICK i \in DOMAIN entries : covers(entries[i], f, ms) /\ named(entries[i], f)
    BY <1>5 DEF Known
  <2>2. ListedAt(i, ms, l)
    BY <1>2, <1>s, <2>1 DEF ListedAt, covers, named
  <2>3. QED
    BY <1>4, <2>2
<1>6. CASE ~ Known(f, ms)
  <2>1. g \in unlisted
    BY <1>4, <1>6 DEF unlisted
  <2>2. g.cls \in FINDING_CLASSES /\ g.flow = l[1] /\ g.source = SourceOf(l, ms)
    BY <1>2, <1>s DEF VALUE_CLASSES, FINDING_CLASSES
  <2> HIDE DEF g
  <2>3. Unlisted(ms, l)
    BY <2>1, <2>2 DEF Unlisted
  <2>4. QED
    BY <1>4, <2>3
<1>7. QED
  BY <1>5, <1>6

(* What is left of a report without an issue.                              *)
LEMMA NoIssue ==
    ASSUME Inv, ~ Issue, NEW ms \in Sources, NEW k \in Keys
    PROVE  ~ stale(disk[ms]) /\ ~ result_issue(disk[ms], k)
<1>1. CASE ms \in DOMAIN gather
  BY <1>1, GatherIs DEF Issue, SourceIssue
<1>2. CASE ms \notin DOMAIN gather
  <2>1. \A m \in Keys : disk[ms][m].kind = "none"
    BY <1>2, GatherIs DEF None
  <2>2. Stamped(disk[ms]) = {}
    BY <2>1 DEF Stamped, IsStamped
  <2>3. ~ stale(disk[ms])
    BY <2>2 DEF stale
  <2>4. ~ result_issue(disk[ms], k)
    BY <2>1 DEF result_issue, Ended, Status
  <2>5. QED
    BY <2>3, <2>4
<1>3. QED
  BY <1>1, <1>2

LEMMA NoStructure ==
    ASSUME Inv, ~ Issue, NEW ms \in Sources, NEW k \in Keys, disk[ms][k] # None
    PROVE  ~ Structural(disk[ms]) /\ ~ Unconfirmed(disk[ms]) /\ ~ config_issue(disk[ms])
  BY GatherIs, NoIssue DEF Issue, SourceIssue

LEMMA ExitIs ==
    /\ ExitCode = 0 => unlisted = {} /\ ~ Issue
    /\ verdict = "agree" => Findings = {} /\ ~ Issue /\ compared
<1>1. ASSUME ExitCode = 0 PROVE unlisted = {} /\ ~ Issue
  <2>1. exit_code = 0
    BY <1>1 DEF ExitCode, EXIT_INCOMPLETE
  <2>2. QED
    BY <2>1 DEF exit_code, EXIT_FINDING, EXIT_INCOMPLETE
<1>2. ASSUME verdict = "agree" PROVE Findings = {} /\ ~ Issue /\ compared
  BY <1>2 DEF verdict
<1>3. QED
  BY <1>1, <1>2

-----------------------------------------------------------------------------
(* What a report of exit code 0 rests on.                                  *)
LEMMA ZeroIsListed ==
    ASSUME Inv, unlisted = {}, ~ Issue, NEW ms \in Sources, NEW k \in Keys
    PROVE  /\ ~ Ended(disk[ms][k], "error")
           /\ \A l \in Keys : Conflict(disk[ms], k, l) => OnList(ms, l, {"open"})
<1>1. ~ Ended(disk[ms][k], "error")
  BY NoIssue DEF result_issue
<1>2. ASSUME NEW l \in Keys, Conflict(disk[ms], k, l) PROVE OnList(ms, l, {"open"})
  <2>1. disk[ms][k] # None
    BY <1>2 DEF Conflict, None
  <2>2. ~ stale(disk[ms]) /\ ~ Structural(disk[ms])
    BY <2>1, NoIssue, NoStructure
  <2>3. Unlisted(ms, l) \/ \E i \in DOMAIN entries : ListedAt(i, ms, l)
    BY <1>2, <2>2, DisagreementIsReported
  <2>4. PICK i \in DOMAIN entries : ListedAt(i, ms, l)
    BY <2>3 DEF Unlisted
  <2>5. files[entries[i].finding].status = "open"
    BY <2>4 DEF Issue, Dead
  <2>6. QED
    BY <2>4, <2>5 DEF OnList, ListedAt
<1>3. QED
  BY <1>1, <1>2

(* The report says nothing that is hidden: for every model source, flow,   *)
(* runner, configuration, result and entry, an exit code of 0 means that   *)
(* every disagreement is listed under an open finding of its own and that  *)
(* no configuration ended in an error (report, result_issue, _mark).       *)
THEOREM NothingIsMasked == Spec => []NothingMasked
<1> DEFINE Good == Inv /\ NothingMasked
<1>1. Init => NothingMasked
  BY DEF Init, NothingMasked
<1>2. Inv /\ NothingMasked /\ [Next]_vars => NothingMasked'
  <2> SUFFICES ASSUME Inv, NothingMasked, [Next]_vars PROVE NothingMasked'
    OBVIOUS
  <2>1. CASE CrossCheck
    <3> SUFFICES ASSUME report'.exit = 0, NEW ms \in Sources, NEW k \in Keys
                 PROVE  /\ ~ Ended(disk'[ms][k], "error")
                        /\ \A l \in Keys : Conflict(disk'[ms], k, l) => OnList(ms, l, {"open"})'
      BY DEF NothingMasked
    <3>1. ExitCode = 0
      BY <2>1 DEF CrossCheck
    <3>2. unlisted = {} /\ ~ Issue
      BY <3>1, ExitIs
    <3>3. disk' = disk /\ entries' = entries
      BY <2>1 DEF CrossCheck
    <3>4. files' = files
      <4>1. \A c \in DOMAIN files : Recorded(c) = {}
        BY <3>2 DEF Recorded
      <4>2. files' = [c \in DOMAIN files |-> files[c]]
        BY <2>1, <4>1 DEF CrossCheck
      <4>3. QED
        BY <4>2 DEF Inv, FilesTyped
    <3>5. \A l \in Keys : OnList(ms, l, {"open"}) => OnList(ms, l, {"open"})'
      BY <3>3, <3>4 DEF OnList
    <3>6. QED
      BY <3>2, <3>3, <3>5, ZeroIsListed
  <2>2. CASE \E p \in Scenarios[scenario].selected : Run(p[1], p[2])
    BY <2>2 DEF Run, NothingMasked
  <2>3. CASE Commit
    BY <2>3 DEF Commit, NothingMasked
  <2>4. CASE List
    BY <2>4 DEF List, NothingMasked
  <2>5. CASE Close
    BY <2>5 DEF Close, NothingMasked
  <2>6. CASE UNCHANGED vars
    BY <2>6 DEF vars, NothingMasked, OnList
  <2>7. QED
    BY <2>1, <2>2, <2>3, <2>4, <2>5, <2>6 DEF Next
<1>3. QED
  BY <1>1, <1>2, Inductive, PTL DEF Spec

-----------------------------------------------------------------------------
(* What the verdict "agree" rests on: first, that two results that were    *)
(* compared and about which nothing was found showed the same.             *)
Same(v, w, c) ==
    /\ v.cfg[c].status = "pass" /\ w.cfg[c].status = "pass"
    /\ Sample(v, c) = Sample(w, c) /\ Sample(v, c) \in Values \cup {"wide", "none"}

LEMMA PairIs ==
    ASSUME NEW V, Typed(V), NEW p \in pairs(V), p[3]
    PROVE  \E k, l \in Keys :
              /\ k # l /\ HasTrace(V[k]) /\ HasTrace(V[l]) /\ Paired(k, l) /\ V[l].flag # "selftest"
              /\ \E expected \in BOOLEAN, ax \in BOOLEAN, bx \in BOOLEAN :
                    /\ evidence(V[k], V[l], expected, ax, bx)
                    /\ bx = (l[2] \in X_OBSERVABLE) /\ ax = (k[2] \in X_OBSERVABLE)
                    /\ l[2] # "python" /\ (k[2] = "python" <=> expected)
<1> DEFINE traced == {k \in Keys : HasTrace(V[k])}
           both(P) == {q \in P : q[1] # q[2] /\ {q[1], q[2]} \subseteq traced}
           sim(f) == {<<f, r>> : r \in SIMULATORS}
           P1 == UNION {sim(f) \X sim(f) : f \in Flows}
           P2 == {<<<<"rtl", k[2]>>, k>> : k \in Flows \X SIMULATORS}
           P3 == {<<<<f, "iverilog">>, <<f, "iverilog-vz">>>> : f \in Flows}
           P4 == {<<<<"rtl", "python">>, k>> :
                    k \in sim("rtl") \cup {k \in traced : k[2] = "hw" /\ V[k].flag # "selftest"}}
           Goal == \E k, l \in Keys :
              /\ k # l /\ HasTrace(V[k]) /\ HasTrace(V[l]) /\ Paired(k, l) /\ V[l].flag # "selftest"
              /\ \E expected \in BOOLEAN, ax \in BOOLEAN, bx \in BOOLEAN :
                    /\ evidence(V[k], V[l], expected, ax, bx)
                    /\ bx = (l[2] \in X_OBSERVABLE) /\ ax = (k[2] \in X_OBSERVABLE)
                    /\ l[2] # "python" /\ (k[2] = "python" <=> expected)
<1>1. /\ \A k \in Keys : HasTrace(V[k]) /\ k[2] # "hw" => V[k].flag # "selftest"
      /\ SIMULATORS \subseteq Runners \ {"python", "hw"}
  BY ResultIs DEF Typed, HasTrace, SIMULATORS, Runners
<1>2. ASSUME NEW k \in Keys, NEW l \in Keys, k # l, HasTrace(V[k]), HasTrace(V[l]), Paired(k, l),
             V[l].flag # "selftest", l[2] # "python", NEW e \in BOOLEAN, k[2] = "python" <=> e,
             evidence(V[k], V[l], e, k[2] \in X_OBSERVABLE, l[2] \in X_OBSERVABLE)
      PROVE  Goal
  <2>1. (k[2] \in X_OBSERVABLE) \in BOOLEAN /\ (l[2] \in X_OBSERVABLE) \in BOOLEAN
    OBVIOUS
  <2>2. QED
    BY <1>2, <2>1
<1>3. ASSUME NEW q \in both(P1), p = SimPair(V, q[1], q[2]) PROVE Goal
  <2>1. PICK f \in Flows : q \in sim(f) \X sim(f)
    BY <1>3
  <2>2. PICK r \in SIMULATORS, s \in SIMULATORS : q = <<<<f, r>>, <<f, s>>>>
    BY <2>1
  <2> DEFINE k == <<f, r>>
             l == <<f, s>>
  <2>3. k \in Keys /\ l \in Keys /\ k # l /\ HasTrace(V[k]) /\ HasTrace(V[l])
    BY <2>2, <1>3
  <2>4. k[2] = r /\ l[2] = s /\ Paired(k, l) /\ k[2] # "python" /\ l[2] # "python" /\ l[2] # "hw"
    BY <1>1 DEF Paired
  <2>5. p[3] = evidence(V[k], V[l], FALSE, k[2] \in X_OBSERVABLE, l[2] \in X_OBSERVABLE)
    BY <1>3, <2>2 DEF SimPair
  <2> HIDE DEF k, l, Goal
  <2>6. QED
    BY <1>1, <1>2, <2>3, <2>4, <2>5
<1>4. ASSUME NEW q \in both(P2), p = SimPair(V, q[1], q[2]) PROVE Goal
  <2>1. PICK f \in Flows, r \in SIMULATORS : q = <<<<"rtl", r>>, <<f, r>>>>
    BY <1>4
  <2> DEFINE k == <<"rtl", r>>
             l == <<f, r>>
  <2>3. k \in Keys /\ l \in Keys /\ k # l /\ HasTrace(V[k]) /\ HasTrace(V[l])
    BY <2>1, <1>4
  <2>4. k[2] = r /\ l[2] = r /\ Paired(k, l) /\ k[2] # "python" /\ l[2] # "python" /\ l[2] # "hw"
    BY <1>1 DEF Paired
  <2>5. p[3] = evidence(V[k], V[l], FALSE, k[2] \in X_OBSERVABLE, l[2] \in X_OBSERVABLE)
    BY <1>4, <2>1 DEF SimPair
  <2> HIDE DEF k, l, Goal
  <2>6. QED
    BY <1>1, <1>2, <2>3, <2>4, <2>5
<1>5. ASSUME NEW q \in both(P3), p = <<q[1], q[2], evidence(V[q[1]], V[q[2]], FALSE, TRUE, TRUE)>> PROVE Goal
  <2>1. PICK f \in Flows : q = <<<<f, "iverilog">>, <<f, "iverilog-vz">>>>
    BY <1>5
  <2> DEFINE k == <<f, "iverilog">>
             l == <<f, "iverilog-vz">>
  <2>3. k \in Keys /\ l \in Keys /\ k # l /\ HasTrace(V[k]) /\ HasTrace(V[l])
    BY <2>1, <1>5
  <2>4. /\ k[2] = "iverilog" /\ l[2] = "iverilog-vz" /\ Paired(k, l)
        /\ k[2] # "python" /\ l[2] # "python" /\ l[2] # "hw"
    BY DEF Paired
  <2>5. /\ (k[2] \in X_OBSERVABLE) = TRUE /\ (l[2] \in X_OBSERVABLE) = TRUE
        /\ p[3] = evidence(V[k], V[l], FALSE, TRUE, TRUE)
    BY <1>5, <2>1 DEF X_OBSERVABLE, Runners, SIMULATORS
  <2> HIDE DEF k, l, Goal
  <2>6. evidence(V[k], V[l], FALSE, k[2] \in X_OBSERVABLE, l[2] \in X_OBSERVABLE)
    BY <2>5
  <2>7. QED
    BY <1>1, <1>2, <2>3, <2>4, <2>6
<1>6. ASSUME NEW q \in both(P4), p = GoldenPair(V, q[2], q[2][2] \in X_OBSERVABLE) PROVE Goal
  <2> DEFINE k == <<"rtl", "python">>
             l == q[2]
  <2>1. q = <<k, l>>
    BY <1>6
  <2>2. k \in Keys /\ l \in Keys /\ k # l /\ HasTrace(V[k]) /\ HasTrace(V[l]) /\ Golden(V) = V[k]
    BY <2>1, <1>6 DEF Golden
  <2>3. \/ l \in sim("rtl")
        \/ l[2] = "hw" /\ V[l].flag # "selftest"
    BY <1>6
  <2>4. l \in {"rtl"} \X SIMULATORS \/ (l[2] = "hw" /\ V[l].flag # "selftest")
    BY <2>3
  <2>5. Paired(k, l) /\ l[2] # "python" /\ V[l].flag # "selftest"
    BY <1>1, <2>2, <2>4 DEF Paired
  <2>6. k[2] = "python" /\ (k[2] \in X_OBSERVABLE) = TRUE
    BY DEF X_OBSERVABLE, Runners
  <2>7. p[3] = evidence(V[k], V[l], TRUE, TRUE, l[2] \in X_OBSERVABLE)
    BY <1>6, <2>1, <2>2 DEF GoldenPair
  <2> HIDE DEF k, l, Goal
  <2>8. evidence(V[k], V[l], TRUE, k[2] \in X_OBSERVABLE, l[2] \in X_OBSERVABLE)
    BY <2>6, <2>7
  <2>9. TRUE \in BOOLEAN /\ (k[2] = "python" <=> TRUE)
    BY <2>6
  <2>10. QED
    BY <1>2, <2>2, <2>5, <2>8, <2>9
<1>7. \/ \E q \in both(P1) : p = SimPair(V, q[1], q[2])
      \/ \E q \in both(P2) : p = SimPair(V, q[1], q[2])
      \/ \E q \in both(P3) : p = <<q[1], q[2], evidence(V[q[1]], V[q[2]], FALSE, TRUE, TRUE)>>
      \/ \E q \in both(P4) : p = GoldenPair(V, q[2], q[2][2] \in X_OBSERVABLE)
  BY Zenon DEF pairs
<1> HIDE DEF both, P1, P2, P3, P4, Goal
<1>8. Goal
  BY <1>3, <1>4, <1>5, <1>6, <1>7
<1>9. QED
  BY <1>8 DEF Goal

(* Where nothing is found and nothing is an issue every result is one of   *)
(* a run, whose configurations all passed or were skipped.                 *)
LEMMA NothingExplains ==
    ASSUME Inv, Findings = {}, ~ Issue, NEW ms \in Sources, NEW k \in Keys, disk[ms][k] # None
    PROVE  classify(disk[ms]) = {}
<1>1. ms \in DOMAIN gather /\ gather[ms] = disk[ms]
  BY GatherIs
<1>2. ~ stale(disk[ms])
  BY NoIssue
<1> DEFINE Of(s) == {[cls |-> h.cls, flow |-> h.flow, source |-> model_source(h, s), known |-> Known(h, s)] :
                        h \in IF stale(gather[s]) THEN {} ELSE classify(gather[s])}
<1>3. Findings = UNION {Of(s) : s \in DOMAIN gather}
  BY DEF Findings
<1>4. ASSUME NEW f \in classify(disk[ms]) PROVE Of(ms) # {}
  BY <1>1, <1>2, <1>4
<1> HIDE DEF Of
<1>5. Of(ms) = {}
  BY <1>1, <1>3
<1>6. QED
  BY <1>4, <1>5

LEMMA AgreedResult ==
    ASSUME Inv, Findings = {}, ~ Issue, NEW ms \in Sources, NEW k \in Keys
    PROVE  /\ disk[ms][k].kind \in {"none", "unavailable", "ran", "traceless"}
           /\ disk[ms][k].kind \in {"ran", "traceless"} =>
                 \A c \in Cfgs : disk[ms][k].cfg[c].status \in {"pass", "skip", "absent"}
           /\ Status(disk[ms][k]) # "fail"
<1> DEFINE V == disk[ms]
<1>1. Typed(V)
  BY DEF Inv, DiskTyped
<1>2. ~ result_issue(V, k)
  BY NoIssue
<1>3. ~ Ended(V[k], "error") /\ Status(V[k]) # "error"
  BY <1>2 DEF result_issue
<1>4. KindOf(V[k]) /\ (V[k].kind = "none" <=> V[k] = None)
  BY <1>1, ResultIs DEF Typed
<1>5. V[k].kind \in {"none", "unavailable", "ran", "traceless"}
  BY <1>3, <1>4 DEF KindOf, Status
<1>6. Status(V[k]) # "fail"
  <2>1. CASE V[k] = None
    BY <2>1 DEF None, Status
  <2>2. CASE V[k] # None
    <3>1. classify(V) = {}
      BY <2>2, NothingExplains
    <3>2. ~ explained(V, k) /\ ~ companion_explained(V, k)
      BY <3>1 DEF explained, companion_explained
    <3>3. QED
      BY <1>2, <3>2 DEF result_issue
  <2>3. QED
    BY <2>1, <2>2
<1>7. ASSUME V[k].kind \in {"ran", "traceless"}, NEW c \in Cfgs
      PROVE  V[k].cfg[c].status \in {"pass", "skip", "absent"}
  <2>1. V[k].cfg[c].status \in Statuses
    BY <1>1, <1>7, ResultIs DEF Typed, CfgsOf
  <2>2. ~ Ended(V[k], "fail")
    BY <1>3, <1>6, <1>7 DEF Status, worst
  <2>3. V[k].cfg[c].status # "error" /\ V[k].cfg[c].status # "fail"
    BY <1>3, <1>7, <2>2 DEF Ended
  <2>4. QED
    BY <2>1, <2>3 DEF Statuses
<1>8. QED
  BY <1>5, <1>6, <1>7

LEMMA EvidenceIsSame ==
    ASSUME Inv, Findings = {}, ~ Issue, NEW ms \in Sources, NEW p \in pairs(disk[ms]), p[3]
    PROVE  \E k, l \in Keys :
              /\ k # l /\ disk[ms][k].kind = "ran" /\ disk[ms][l].kind = "ran"
              /\ \E c \in Cfgs : Same(disk[ms][k], disk[ms][l], c)
<1> DEFINE V == disk[ms]
<1>1. Typed(V)
  BY DEF Inv, DiskTyped
<1> HIDE DEF V
<1>2. PICK k \in Keys, l \in Keys, e \in BOOLEAN, ax \in BOOLEAN, bx \in BOOLEAN :
         /\ k # l /\ HasTrace(V[k]) /\ HasTrace(V[l]) /\ Paired(k, l) /\ V[l].flag # "selftest"
         /\ evidence(V[k], V[l], e, ax, bx)
         /\ bx = (l[2] \in X_OBSERVABLE) /\ ax = (k[2] \in X_OBSERVABLE)
         /\ l[2] # "python" /\ (k[2] = "python" <=> e)
  BY <1>1, PairIs DEF V
<1>3. V[k].kind = "ran" /\ V[l].kind = "ran"
  BY <1>2 DEF HasTrace
<1>4. V[k] # None /\ ~ stale(V) /\ ~ Structural(V) /\ ~ result_issue(V, k) /\ ~ result_issue(V, l)
  <2>1. V[k] # None
    BY <1>3 DEF None
  <2>2. QED
    BY <2>1, NoIssue, NoStructure DEF V
<1>5. ~ Conflict(V, k, l)
  <2>1. Conflict(V, k, l) => Findings # {}
    BY <1>4, DisagreementIsReported DEF V
  <2>2. QED
    BY <2>1
<1>6. \A m \in {k, l} : \A c \in Ran(V[m]) : V[m].cfg[c].status = "pass"
  BY <1>3, AgreedResult DEF V, Ran
<1>7. ASSUME NEW c \in Common(V[k], V[l]), Sample(V[k], c) = Sample(V[l], c),
             Sample(V[k], c) \in Values \cup {"wide", "none"}
      PROVE  \E d \in Cfgs : Same(V[k], V[l], d)
  <2>1. c \in Cfgs /\ c \in Ran(V[k]) /\ c \in Ran(V[l])
    BY <1>1, RanIs DEF Common
  <2>2. QED
    BY <1>6, <1>7, <2>1 DEF Same
<1>8. CASE reject_agreement(V[k], V[l])
  <2>1. PICK c \in Common(V[k], V[l]) : {Sample(V[k], c), Sample(V[l], c)} = {"none"}
    BY <1>8 DEF reject_agreement
  <2>2. Sample(V[k], c) = "none" /\ Sample(V[l], c) = "none"
    BY <2>1
  <2>3. QED
    BY <1>3, <1>2, <1>7, <2>2 DEF V
<1>9. CASE compared_bits(V[k], V[l], e, ax, bx)
  <2> DEFINE a(c) == Sample(V[k], c)
             b(c) == Sample(V[l], c)
  <2>1. PICK c \in Common(V[k], V[l]) :
           /\ {a(c), b(c)} \cap {"none", "missing"} = {} /\ (a(c) = "wide") = (b(c) = "wide")
           /\ IF e THEN a(c) # "-" /\ (bx \/ a(c) # "x") ELSE (a(c) = "x" => bx) /\ (b(c) = "x" => ax)
    BY <1>9 DEF compared_bits
  <2>2. c \in Cfgs /\ c \in Ran(V[k]) /\ c \in Ran(V[l])
    BY <1>1, RanIs DEF Common
  <2>3. /\ a(c) \in Shown /\ b(c) \in Shown
        /\ a(c) = "-" => k[2] = "python"
        /\ b(c) # "-"
    BY <1>1, <1>2, <1>3, <2>2, RanIs
  <2>4. a(c) # "-"
    BY <1>2, <2>1, <2>3
  <2>5. (a(c) \in Values /\ b(c) \in Values) \/ (a(c) = "wide" /\ b(c) = "wide")
    BY <2>1, <2>3, <2>4 DEF Values, Shown
  <2>6. a(c) = "x" => Observes(l)
    BY <1>2, <2>1, ObservesIs
  <2>7. b(c) = "x" => Observes(k)
    <3>1. CASE e
      <4>1. k[2] = "python"
        BY <1>2, <3>1, Zenon
      <4>2. QED
        BY <4>1 DEF Observes
    <3>2. CASE ~ e
      BY <1>2, <2>1, <3>2, ObservesIs
    <3>3. QED
      BY <3>1, <3>2
  <2>8. a(c) = b(c)
    <3>1. ASSUME a(c) # b(c) PROVE Conflict(V, k, l)
      BY <1>2, <1>3, <2>5, <2>6, <2>7, <3>1 DEF Conflict
    <3>2. QED
      BY <1>5, <3>1
  <2>9. \E d \in Cfgs : Same(V[k], V[l], d)
    BY <1>7, <2>5, <2>8
  <2>10. QED
    BY <1>2, <1>3, <2>9 DEF V
<1>10. QED
  BY <1>2, <1>8, <1>9 DEF evidence

(* Then, what it says of each result.                                      *)
Accounts(v, g) ==
    v.kind \in {"ran", "traceless"} =>
        \A c \in Cfgs :
            /\ v.cfg[c].status \in {"pass", "skip", "absent"}
            /\ v.cfg[c].status = "absent" /\ g.kind = "ran" => g.cfg[c].status # "pass"

Confirmed(V, k) ==
    k[2] = "verilator" /\ V[k].kind = "ran" =>
        \/ \A c \in Cfgs : V[k].cfg[c].status # "pass"
        \/ Status(V[<<k[1], "iverilog-vz">>]) = "pass"

LEMMA AgreedAccounts ==
    ASSUME Inv, Findings = {}, ~ Issue, NEW ms \in Sources, NEW k \in Keys
    PROVE  Accounts(disk[ms][k], disk[ms][<<"rtl", "python">>])
<1> DEFINE V == disk[ms]
           g == V[<<"rtl", "python">>]
<1>1. Typed(V) /\ <<"rtl", "python">> \in Keys
  BY CrosscheckAssumption DEF Inv, DiskTyped, Keys, Runners
<1> HIDE DEF V
<1> SUFFICES ASSUME V[k].kind \in {"ran", "traceless"}, NEW c \in Cfgs,
                    V[k].cfg[c].status = "absent", g.kind = "ran", g.cfg[c].status = "pass"
             PROVE  FALSE
  BY AgreedResult DEF Accounts, V
<1>2. V[k] # None /\ Lists(V[k])
  BY <1>1, ResultIs DEF Typed, None
<1>3. ~ config_issue(V)
  BY <1>2, NoStructure DEF V
<1>4. ~ Ended(g, "fail") /\ ~ Ended(g, "error")
  BY <1>1, AgreedResult DEF Ended, V
<1>5. Status(Golden(V)) = "pass"
  <2>1. Ended(g, "pass")
    BY DEF Ended
  <2>2. QED
    BY <1>4, <2>1 DEF Status, worst, Golden
<1>6. c \in Ran(Golden(V)) /\ c \notin Listed(V[k]) /\ Listed(V[k]) # {}
  BY <1>2 DEF Ran, Listed, Golden, Lists
<1>7. QED
  BY <1>3, <1>5, <1>6 DEF config_issue

LEMMA AgreedConfirmed ==
    ASSUME Inv, Findings = {}, ~ Issue, NEW ms \in Sources, NEW k \in Keys
    PROVE  Confirmed(disk[ms], k)
<1> DEFINE V == disk[ms]
           vz == V[<<k[1], "iverilog-vz">>]
           iv == V[<<k[1], "iverilog">>]
<1> SUFFICES ASSUME k[2] = "verilator", V[k].kind = "ran", NEW c \in Cfgs, V[k].cfg[c].status = "pass"
             PROVE  Status(vz) = "pass"
  BY DEF Confirmed
<1>1. /\ k = <<k[1], "verilator">> /\ k[1] \in Flows
      /\ <<k[1], "iverilog-vz">> \in Keys /\ V[k] # None
  BY DEF Keys, Runners, SIMULATORS, None
<1>2. Status(V[k]) = "pass"
  <2>1. ~ Ended(V[k], "fail") /\ ~ Ended(V[k], "error")
    BY AgreedResult DEF Ended
  <2>2. Ended(V[k], "pass")
    BY DEF Ended
  <2>3. QED
    BY <2>1, <2>2 DEF Status, worst
<1>3. ~ Unconfirmed(V)
  BY <1>1, NoStructure
<1>4. PICK R : ~ companion_gap(vz, iv, R)
  <2>1. \A f \in Flows : Status(V[<<f, "verilator">>]) = "pass" =>
           \E R : ~ companion_gap(V[<<f, "iverilog-vz">>], V[<<f, "iverilog">>], R)
    BY <1>3 DEF Unconfirmed
  <2>2. QED
    BY <1>1, <1>2, <2>1
<1>5. Status(vz) \in {"pass", "fail"}
  BY <1>4 DEF companion_gap
<1>6. Status(vz) # "fail"
  BY <1>1, AgreedResult
<1>7. QED
  BY <1>5, <1>6

LEMMA RtlIsKey == <<"rtl", "python">> \in Keys
  BY CrosscheckAssumption DEF Keys, Runners

LEMMA AgreeRests ==
    ASSUME Inv, verdict = "agree"
    PROVE  /\ \E ms \in Sources, k, l \in Keys :
                 /\ k # l /\ disk[ms][k].kind = "ran" /\ disk[ms][l].kind = "ran"
                 /\ \E c \in Cfgs : Same(disk[ms][k], disk[ms][l], c)
           /\ \A ms \in Sources : Clean(ms)
           /\ \A ms \in Sources, k \in Keys :
                 /\ disk[ms][k].kind \in {"none", "unavailable", "ran", "traceless"}
                 /\ Accounts(disk[ms][k], disk[ms][<<"rtl", "python">>])
                 /\ Confirmed(disk[ms], k)
<1>1. Findings = {} /\ ~ Issue /\ compared
  BY ExitIs
<1>2. PICK ms \in DOMAIN gather : \E p \in pairs(gather[ms]) : p[3]
  BY <1>1 DEF compared
<1>3. ms \in Sources /\ gather[ms] = disk[ms]
  BY GatherIs DEF gather
<1>4. PICK p \in pairs(disk[ms]) : p[3]
  BY <1>2, <1>3
<1>5. \E k, l \in Keys :
         /\ k # l /\ disk[ms][k].kind = "ran" /\ disk[ms][l].kind = "ran"
         /\ \E c \in Cfgs : Same(disk[ms][k], disk[ms][l], c)
  BY <1>1, <1>3, <1>4, EvidenceIsSame
<1>6. ASSUME NEW s \in Sources PROVE Clean(s)
  <2>1. ~ stale(disk[s])
    BY <1>1, NoIssue, RtlIsKey
  <2>2. QED
    BY <2>1 DEF stale, Clean
<1>7. QED
  BY <1>1, <1>3, <1>5, <1>6, AgreedResult, AgreedAccounts, AgreedConfirmed

(* The verdict "agree" is never by omission, for any number of model       *)
(* sources, flows, runners and configurations: it names a bit or a         *)
(* rejection that two results of one clean tree share, and nothing that    *)
(* was run failed, was left out or passed Verilator alone (verdict,        *)
(* _evidence, _config_issues, _provenance_issues, cross-check.md).         *)
THEOREM AgreementHasEvidence == Spec => []AgreementIsEvidence
<1>1. Init => AgreementIsEvidence
  BY DEF Init, AgreementIsEvidence
<1>2. Inv /\ AgreementIsEvidence /\ [Next]_vars => AgreementIsEvidence'
  <2> SUFFICES ASSUME Inv, AgreementIsEvidence, [Next]_vars PROVE AgreementIsEvidence'
    OBVIOUS
  <2>1. CASE CrossCheck
    <3>1. disk' = disk /\ report'.verdict = verdict
      BY <2>1 DEF CrossCheck
    <3>2. SUFFICES ASSUME verdict = "agree" PROVE AgreementIsEvidence'
      BY <3>1 DEF AgreementIsEvidence
    <3>3. /\ \E ms \in Sources, k, l \in Keys :
                /\ k # l /\ disk[ms][k].kind = "ran" /\ disk[ms][l].kind = "ran"
                /\ \E c \in Cfgs : Same(disk[ms][k], disk[ms][l], c)
          /\ \A ms \in Sources : Clean(ms)
          /\ \A ms \in Sources, k \in Keys :
                /\ disk[ms][k].kind \in {"none", "unavailable", "ran", "traceless"}
                /\ Accounts(disk[ms][k], disk[ms][<<"rtl", "python">>])
                /\ Confirmed(disk[ms], k)
      BY <3>2, AgreeRests
    <3>4. \A ms \in Sources : Clean(ms)'
      BY <3>1, <3>3 DEF Clean
    <3>5. QED
      BY <3>1, <3>3, <3>4 DEF AgreementIsEvidence, Same, Accounts, Confirmed
  <2>2. CASE \E p \in Scenarios[scenario].selected : Run(p[1], p[2])
    BY <2>2 DEF Run, AgreementIsEvidence
  <2>3. CASE Commit
    BY <2>3 DEF Commit, AgreementIsEvidence
  <2>4. CASE List
    BY <2>4 DEF List, AgreementIsEvidence
  <2>5. CASE Close
    BY <2>5 DEF Close, AgreementIsEvidence
  <2>6. CASE UNCHANGED vars
    BY <2>6 DEF vars, AgreementIsEvidence, Clean
  <2>7. QED
    BY <2>1, <2>2, <2>3, <2>4, <2>5, <2>6 DEF Next
<1>3. QED
  BY <1>1, <1>2, Inductive, PTL DEF Spec

-----------------------------------------------------------------------------
LEMMA RecordAdds ==
    ASSUME NEW file, NEW seen
    PROVE  /\ file.seen \subseteq record_finding(file, seen).seen
           /\ seen \subseteq record_finding(file, seen).seen
<1>1. record_finding(file, seen).seen = file.seen \cup seen
  BY DEF record_finding
<1>2. QED
  BY <1>1

LEMMA CleanIs ==
    ASSUME NEW ms \in Sources
    PROVE  /\ Clean(ms) <=> ~ stale(disk[ms])
           /\ ~ Clean(ms) => ms \in DOMAIN gather
<1>1. Clean(ms) <=> ~ stale(disk[ms])
  BY DEF Clean, stale
<1>2. ASSUME ms \notin DOMAIN gather PROVE Clean(ms)
  <2>1. \A k \in Keys : disk[ms][k].kind = "none"
    BY <1>2, GatherIs DEF None
  <2>2. Stamped(disk[ms]) = {}
    BY <2>1 DEF Stamped, IsStamped
  <2>3. QED
    BY <2>2 DEF Clean
<1>3. QED
  BY <1>1, <1>2

LEMMA ProvenanceIs == provenance_ok <=> \A ms \in Sources : Clean(ms)
<1>1. \A ms \in DOMAIN gather : ms \in Sources /\ gather[ms] = disk[ms]
  BY GatherIs DEF gather
<1>2. QED
  BY <1>1, CleanIs DEF provenance_ok

(* Every disagreement between results of clean trees is listed or written  *)
(* to a findings file in the same step, and no file ever loses a flow and  *)
(* source it names (record_finding, write_findings, Report.provenance_ok). *)
THEOREM TheRecordIsKept == Spec => RecordIsKept
<1> DEFINE Kept ==
        /\ report' # None =>
             IF \A ms \in Sources : Clean(ms)
               THEN \A ms \in Sources, k, l \in Keys :
                       Conflict(disk[ms], k, l) /\ (k[2] = "python" => SourcesKnown) =>
                          \/ OnList(ms, l, {"open", "closed", "absent"})
                          \/ \E c \in DOMAIN files : <<l[1], SourceOf(l, ms)>> \in files'[c].seen
               ELSE files' = files
        /\ \A c \in DOMAIN files : files[c].seen \subseteq files'[c].seen
<1>1. Inv /\ [Next]_vars => [Kept]_vars
  <2> SUFFICES ASSUME Inv, Next PROVE Kept
    OBVIOUS
  <2>1. CASE CrossCheck
    <3>1. ASSUME NEW c \in DOMAIN files
          PROVE  files'[c] = IF Recorded(c) = {} THEN files[c] ELSE record_finding(files[c], Recorded(c))
      BY <2>1 DEF CrossCheck
    <3>2. \A c \in DOMAIN files : files[c].seen \subseteq files'[c].seen /\ Recorded(c) \subseteq files'[c].seen
      <4>1. ASSUME NEW c \in DOMAIN files
            PROVE  files[c].seen \subseteq files'[c].seen /\ Recorded(c) \subseteq files'[c].seen
        <5>1. CASE Recorded(c) = {}
          BY <3>1, <5>1
        <5>2. CASE Recorded(c) # {}
          <6>1. files'[c] = record_finding(files[c], Recorded(c))
            BY <3>1, <5>2
          <6>2. QED
            BY <6>1, RecordAdds
        <5>3. QED
          BY <5>1, <5>2
      <4>2. QED
        BY <4>1
    <3>3. CASE \A ms \in Sources : Clean(ms)
      <4>1. ASSUME NEW ms \in Sources, NEW k \in Keys, NEW l \in Keys,
                   Conflict(disk[ms], k, l), k[2] = "python" => SourcesKnown
            PROVE  \/ OnList(ms, l, {"open", "closed", "absent"})
                   \/ \E c \in DOMAIN files : <<l[1], SourceOf(l, ms)>> \in files'[c].seen
        <5>1. Unlisted(ms, l) \/ \E i \in DOMAIN entries : ListedAt(i, ms, l)
          BY <3>3, <4>1, CleanIs, DisagreementIsReported
        <5>2. CASE \E i \in DOMAIN entries : ListedAt(i, ms, l)
          <6>1. PICK i \in DOMAIN entries : ListedAt(i, ms, l)
            BY <5>2
          <6>2. files[entries[i].finding].status \in {"open", "closed", "absent"}
            BY DEF Inv, EntriesTyped, FilesTyped, FileIs
          <6>3. QED
            BY <6>1, <6>2 DEF OnList, ListedAt
        <5>3. CASE Unlisted(ms, l)
          <6>1. PICK f \in unlisted : f.cls \in FINDING_CLASSES /\ f.flow = l[1] /\ f.source = SourceOf(l, ms)
            BY <5>3 DEF Unlisted
          <6>2. <<l[1], SourceOf(l, ms)>> \in Recorded(f.cls)
            BY <3>3, <6>1, ProvenanceIs DEF Recorded
          <6>3. f.cls \in DOMAIN files
            BY <6>1 DEF Inv, FilesTyped
          <6>4. QED
            BY <3>2, <6>2, <6>3
        <5>4. QED
          BY <5>1, <5>2, <5>3
      <4>2. QED
        BY <3>2, <3>3, <4>1
    <3>4. CASE ~ \A ms \in Sources : Clean(ms)
      <4>1. \A c \in DOMAIN files : Recorded(c) = {}
        BY <3>4, ProvenanceIs DEF Recorded
      <4>2. files' = [c \in DOMAIN files |-> files[c]]
        BY <2>1, <4>1 DEF CrossCheck
      <4>3. files' = files
        BY <4>2 DEF Inv, FilesTyped
      <4>4. QED
        BY <3>4, <4>3
    <3>5. QED
      BY <3>3, <3>4
  <2>2. ASSUME \E p \in Scenarios[scenario].selected : Run(p[1], p[2]) PROVE Kept
    BY <2>2 DEF Run
  <2>3. CASE Commit
    BY <2>3 DEF Commit
  <2>4. CASE List
    BY <2>4 DEF List
  <2>5. CASE Close
    BY <2>5 DEF Close, Inv, FilesTyped, FileIs
  <2>6. QED
    BY <2>1, <2>2, <2>3, <2>4, <2>5 DEF Next
<1>2. QED
  BY <1>1, Inductive, PTL DEF Spec, RecordIsKept
=============================================================================
