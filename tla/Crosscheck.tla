----------------------------- MODULE Crosscheck -----------------------------
(***************************************************************************)
(* `xut crosscheck --write-findings` of one test (tools/xut/crosscheck.py, *)
(* cli.crosscheck_cmd): the results of its runners are paired, compared    *)
(* and classified, the report is judged, and the findings that test.yaml   *)
(* does not list are recorded in findings/.                                *)
(*                                                                         *)
(* Around it the author runs the runners again, at any commit, edits the   *)
(* expected_divergence entries and closes findings.                        *)
(*                                                                         *)
(* A trace shows one bit of one port in every configuration, which stands  *)
(* for all of them: a value, "wide" (the port has another width, the same  *)
(* in all that show it), "missing" (the sample is there, the port is not)  *)
(* or "none" (no sample).  The order of samples is left out.               *)
(***************************************************************************)
EXTENDS Naturals, FiniteSets

CONSTANTS
    Sources, Flows, Cfgs,
    Scenarios    \* bound: which runners write which results, what may be listed

VARIABLES
    scenario,  \* the one of the behaviour
    disk,      \* the result directory of each model source, flow and runner
    tree,      \* the checked out tree
    entries,   \* expected_divergence
    files,     \* findings/: the file of each class, and that of another test
    report     \* of the last cross-check, until something changes

vars == <<scenario, disk, tree, entries, files, report>>

None == [kind |-> "none"]

SIMULATORS == {"xsim", "iverilog", "verilator"}

Runners == SIMULATORS \cup {"python", "iverilog-vz", "hw"}

X_OBSERVABLE == Runners \ {"verilator", "hw"}

Keys == Flows \X Runners

FINDING_CLASSES ==
    {"doc-vs-model", "doc-gap", "sim-divergence", "x-dependence", "transform-bug",
     "flow-mismatch", "silicon-mismatch", "nondeterminism", "harness-error"}

Values == {"0", "1", "x"}

(* What a run may leave: a trace without a result; a result that cannot be *)
(* used, of which the stamp and what it says of itself may remain (that of *)
(* the board has no place in a usable result); or one with its             *)
(* configurations, none of them when it could not run.  "-" is golden's    *)
(* "do not compare", and golden itself never fails.                        *)
Results(k) ==
    LET Shown == Values \cup {"wide", "missing", "none"} \cup (IF k[2] = "python" THEN {"-"} ELSE {})
        Ends == {"pass", "error", "skip", "absent"} \cup (IF k[2] = "python" THEN {} ELSE {"fail"})
        Flags == IF k[2] = "verilator" THEN {"", "x_dependence"} ELSE {""}
        Kept == IF k[2] = "hw" THEN {"", "selftest", "repeats"} ELSE Flags
    IN  [kind : {"orphan"}, at : Nat]
        \cup [kind : {"unusable"}, stamped : BOOLEAN, at : Nat, flag : Kept]
        \cup [kind : {"unavailable"}, cfg : [Cfgs -> [status : Ends, sample : Shown]], at : Nat, flag : Flags]
        \cup {v \in [kind : {"ran", "traceless"}, cfg : [Cfgs -> [status : Ends, sample : Shown]],
                     at : Nat, flag : Flags] : \E c \in Cfgs : v.cfg[c].status # "absent"}

ASSUME CrosscheckAssumption ==
    /\ "rtl" \in Flows
    /\ \A s \in DOMAIN Scenarios :
          /\ Scenarios[s].trees \in Nat
          /\ Scenarios[s].selected \subseteq Sources \X Keys
          /\ \A k \in Keys : Scenarios[s].results[k] \subseteq Results(k)
          /\ \A e \in Scenarios[s].entries : \A i \in DOMAIN e : e[i].finding \in FINDING_CLASSES

-----------------------------------------------------------------------------
(* Reading the results                                                     *)

Ended(v, s) == v.kind \in {"ran", "traceless"} /\ \E c \in Cfgs : v.cfg[c].status = s

(* View.ran                                                                *)
Ran(v) ==
    IF v.kind \in {"ran", "traceless"}
      THEN {c \in Cfgs : v.cfg[c].status \in {"pass", "fail"}} ELSE {}

Listed(v) ==
    IF v.kind \in {"ran", "traceless"} THEN {c \in Cfgs : v.cfg[c].status # "absent"} ELSE {}

worst(v) ==
    IF Ended(v, "fail") THEN "fail" ELSE IF Ended(v, "error") THEN "error"
    ELSE IF Ended(v, "pass") THEN "pass" ELSE "skip"

(* _view: a trace without a result, a result that cannot be read and a     *)
(* pass or a fail without its trace are errors.                            *)
Status(v) ==
    CASE v.kind = "none" -> "not-run"
      [] v.kind = "unavailable" -> "skip"
      [] v.kind \in {"orphan", "unusable"} -> "error"
      [] v.kind = "traceless" -> IF worst(v) = "skip" THEN "skip" ELSE "error"
      [] v.kind = "ran" -> worst(v)

HasTrace(v) == v.kind = "ran" /\ Ran(v) # {}

Sample(v, c) == v.cfg[c].sample

gather == [ms \in {ms \in Sources : \E k \in Keys : disk[ms][k] # None} |-> disk[ms]]

-----------------------------------------------------------------------------
(* Comparing two samples: how they differ, and what that is a point of     *)

(* xtr.diff                                                                *)
diff(a, b, ax, bx) ==
    IF a = b THEN "same"
    ELSE IF "none" \in {a, b} THEN "missing-sample"
    ELSE IF "missing" \in {a, b} THEN "missing-port"
    ELSE IF "wide" \in {a, b} THEN "port-width"
    ELSE IF (a = "x" /\ ~ bx) \/ (b = "x" /\ ~ ax) THEN "same" ELSE "value"

(* xtr.compare: the golden trace says what is compared.                    *)
compare(e, a, x) ==
    IF e = "none" THEN IF a = "none" THEN "same" ELSE "extra-sample"
    ELSE IF a = "none" THEN "missing-sample"
    ELSE IF e = "missing" THEN "same"
    ELSE IF a = "missing" THEN "missing-port"
    ELSE IF "wide" \in {e, a} /\ e # a THEN "port-width"
    ELSE IF e \in {"-", a} \/ (e = "x" /\ ~ x) THEN "same" ELSE "value"

PortKinds == {"missing-port", "port-width"}

Place(kind) ==
    CASE kind = "value" -> "bit" [] kind \in PortKinds -> "port" [] OTHER -> "sample"

Common(a, b) == Ran(a) \cap Ran(b)

DiffPoints(a, b, ax, bx) ==
    {<<c, Place(diff(Sample(a, c), Sample(b, c), ax, bx))>> :
        c \in {c \in Common(a, b) : diff(Sample(a, c), Sample(b, c), ax, bx) # "same"}}

(* _reject_cfgs: run by some result, and without a sample in any trace     *)
reject_cfgs(V) ==
    LET traced == {V[k] : k \in {k \in Keys : HasTrace(V[k])}}
    IN  (UNION {Ran(v) : v \in traced}) \ {c \in Cfgs : \E v \in traced : Sample(v, c) # "none"}

(* One rejects what the other accepts.                                     *)
rejection_diff(a, b, reject) ==
    {c \in reject \cap Common(a, b) : a.cfg[c].status # b.cfg[c].status}

compared_bits(a, b, expected, ax, bx) ==
    \E c \in Common(a, b) :
        LET va == Sample(a, c)
            vb == Sample(b, c)
        IN  /\ {va, vb} \cap {"none", "missing"} = {} /\ (va = "wide") = (vb = "wide")
            /\ IF expected THEN va # "-" /\ (bx \/ va # "x")
               ELSE (va = "x" => bx) /\ (vb = "x" => ax)

reject_agreement(a, b) == \E c \in Common(a, b) : {Sample(a, c), Sample(b, c)} = {"none"}

(* Mutant: a shared configuration is enough.                               *)
evidence_Shared(a, b, expected, ax, bx) == Common(a, b) # {}

evidence(a, b, expected, ax, bx) ==
    compared_bits(a, b, expected, ax, bx) \/ reject_agreement(a, b)

-----------------------------------------------------------------------------
(* Classification of one model source: V gives the result of each key      *)

Golden(V) == V[<<"rtl", "python">>]

sims(V, f) == {r \in SIMULATORS : HasTrace(V[<<f, r>>])}

diverged(V, f) ==
    UNION {DiffPoints(V[<<f, p[1]>>], V[<<f, p[2]>>], p[1] \in X_OBSERVABLE, p[2] \in X_OBSERVABLE) :
              p \in {p \in sims(V, f) \X sims(V, f) : p[1] # p[2]}}

rej_split(V, f) ==
    UNION {rejection_diff(V[<<f, p[1]>>], V[<<f, p[2]>>], reject_cfgs(V)) :
              p \in sims(V, f) \X sims(V, f)}

(* The simulators that differ from the golden model in this way.           *)
by_runner(V, c, kind) ==
    {r \in sims(V, "rtl") :
        /\ c \in Common(Golden(V), V[<<"rtl", r>>])
        /\ compare(Sample(Golden(V), c), Sample(V[<<"rtl", r>>], c), r \in X_OBSERVABLE) = kind}

(* _observes                                                               *)
observers(V, c, kind) ==
    {r \in sims(V, "rtl") :
        /\ c \in Ran(V[<<"rtl", r>>])
        /\ kind \in {"value"} \cup PortKinds /\ Sample(Golden(V), c) = "x" => r \in X_OBSERVABLE}

GoldenPoints(V) ==
    IF ~ HasTrace(Golden(V)) THEN {}
    ELSE {p \in Cfgs \X ({"value", "missing-sample", "extra-sample"} \cup PortKinds) :
             /\ by_runner(V, p[1], p[2]) # {}
             /\ <<p[1], Place(p[2])>> \notin diverged(V, "rtl")}

(* Some simulators that could see it agree with the golden model.          *)
Partial(V) == {p \in GoldenPoints(V) : by_runner(V, p[1], p[2]) # observers(V, p[1], p[2])}

(* Where the golden model has the bit from: the documentation, an          *)
(* inference, or neither.                                                  *)
bit_prov(c) == Scenarios[scenario].prov[c]

Unanimous(V, prov) ==
    {p \in GoldenPoints(V) \ Partial(V) : p[2] = "value" /\ bit_prov(p[1]) = prov}

(* Who accepts what the golden model rejects, where the simulators agree.  *)
accepting(V) ==
    IF ~ HasTrace(Golden(V)) THEN {}
    ELSE {r \in sims(V, "rtl") :
            \E c \in reject_cfgs(V) \ rej_split(V, "rtl") :
                /\ c \in Ran(Golden(V)) /\ Golden(V).cfg[c].status = "pass"
                /\ c \in Ran(V[<<"rtl", r>>]) /\ V[<<"rtl", r>>].cfg[c].status = "fail"}

Found(cls, f, rs) == [cls |-> cls, flow |-> f, runners |-> rs]

golden_vs_sims(V) ==
    {Found("doc-vs-model", "rtl", UNION {observers(V, p[1], p[2]) : p \in Unanimous(V, "doc")}),
     Found("doc-gap", "rtl",
           accepting(V) \cup UNION {observers(V, p[1], p[2]) : p \in Unanimous(V, "inferred")})}

sim_divergence(V) ==
    {Found("sim-divergence", f, sims(V, f)) :
        f \in {f \in Flows : \/ diverged(V, f) # {} \/ rej_split(V, f) # {}
                             \/ f = "rtl" /\ Partial(V) # {}}}

Differ(a, b, reject, ax, bx) ==
    DiffPoints(a, b, ax, bx) # {} \/ rejection_diff(a, b, reject) # {}

transform_bug(V) ==
    {Found("transform-bug", f, {"iverilog", "iverilog-vz"}) :
        f \in {f \in Flows :
                  LET iv == V[<<f, "iverilog">>]
                      vz == V[<<f, "iverilog-vz">>]
                  IN  /\ HasTrace(iv) /\ HasTrace(vz)
                      /\ Differ(iv, vz, reject_cfgs(V), TRUE, TRUE)}}

flow_mismatch(V) ==
    {Found("flow-mismatch", k[1], {k[2]}) :
        k \in {k \in (Flows \ {"rtl"}) \X SIMULATORS :
                  /\ HasTrace(V[k]) /\ HasTrace(V[<<"rtl", k[2]>>])
                  /\ LET x == k[2] \in X_OBSERVABLE
                     IN  Differ(V[<<"rtl", k[2]>>], V[k], reject_cfgs(V), x, x)}}

(* What a result says of itself, usable or not: the X seeds disagree, the  *)
(* self-test of the board failed, its repeated runs disagree.              *)
Flagged(V, r, flag, cls) ==
    {Found(cls, f, {r}) :
        f \in {f \in Flows : V[<<f, r>>].kind \notin {"none", "orphan"} /\ V[<<f, r>>].flag = flag}}

silicon_mismatch(V) ==
    {Found("silicon-mismatch", f, {"hw"}) :
        f \in {f \in Flows :
                  LET hw == V[<<f, "hw">>]
                  IN  /\ HasTrace(hw) /\ HasTrace(Golden(V)) /\ hw.flag # "selftest"
                      /\ \E c \in Common(Golden(V), hw) :
                            compare(Sample(Golden(V), c), Sample(hw, c), FALSE) # "same"}}

(* The findings of classify, before the listed ones are marked.            *)
classify(V) ==
    {f \in golden_vs_sims(V) : f.runners # {}}
    \cup sim_divergence(V) \cup transform_bug(V) \cup flow_mismatch(V)
    \cup Flagged(V, "verilator", "x_dependence", "x-dependence")
    \cup Flagged(V, "hw", "selftest", "harness-error")
    \cup Flagged(V, "hw", "repeats", "nondeterminism") \cup silicon_mismatch(V)

(* The comparisons that classify makes, as <<key, key, evidence>>          *)
SimPair(V, k, l) ==
    <<k, l, evidence(V[k], V[l], FALSE, k[2] \in X_OBSERVABLE, l[2] \in X_OBSERVABLE)>>

GoldenPair(V, k, x) == <<<<"rtl", "python">>, k, evidence(Golden(V), V[k], TRUE, TRUE, x)>>

pairs(V) ==
    LET traced == {k \in Keys : HasTrace(V[k])}
        both(P) == {p \in P : p[1] # p[2] /\ {p[1], p[2]} \subseteq traced}
        sim(f) == {<<f, r>> : r \in SIMULATORS}
    IN  {SimPair(V, p[1], p[2]) : p \in both(UNION {sim(f) \X sim(f) : f \in Flows})}
        \cup {SimPair(V, p[1], p[2]) : p \in both({<<<<"rtl", k[2]>>, k>> : k \in Flows \X SIMULATORS})}
        \cup {<<p[1], p[2], evidence(V[p[1]], V[p[2]], FALSE, TRUE, TRUE)>> :
                p \in both({<<<<f, "iverilog">>, <<f, "iverilog-vz">>>> : f \in Flows})}
        \cup {GoldenPair(V, p[2], p[2][2] \in X_OBSERVABLE) :
                p \in both({<<<<"rtl", "python">>, k>> :
                              k \in sim("rtl") \cup {k \in traced : k[2] = "hw" /\ V[k].flag # "selftest"}})}

-----------------------------------------------------------------------------
(* The entries of test.yaml                                                *)

(* Mutant: a finding of the board has the source it was found at.          *)
model_source_Its(f, ms) == ms

(* A finding of the board has no model source.                             *)
model_source(f, ms) ==
    IF f.cls \in {"silicon-mismatch", "nondeterminism", "harness-error"} THEN "n/a" ELSE ms

(* An entry that is not scoped to sources has all of them, and "n/a".      *)
covers(e, f, ms) ==
    /\ e.cls = f.cls /\ f.runners \subseteq e.runners
    /\ f.flow \in e.flows /\ model_source(f, ms) \in e.sources

(* Its file is that of the finding: the class, of this test.               *)
named(e, f) == e.finding = f.cls

Known(f, ms) == \E i \in DOMAIN entries : covers(entries[i], f, ms) /\ named(entries[i], f)

(* _mark: an entry that would cover it under another id comes first        *)
Misnamed(f, ms) ==
    \E i \in DOMAIN entries :
        /\ covers(entries[i], f, ms) /\ ~ named(entries[i], f)
        /\ \A j \in 1 .. i - 1 : ~ (covers(entries[j], f, ms) /\ named(entries[j], f))

(* Mutant: whether the finding is still open is not asked.                 *)
Dead_Closed(e) == files[e.finding].status = "absent"

Dead(e) == files[e.finding].status # "open"

-----------------------------------------------------------------------------
(* What cannot be explained                                                *)

VALUE_CLASSES ==
    {"sim-divergence", "doc-vs-model", "doc-gap", "transform-bug", "flow-mismatch",
     "silicon-mismatch"}

explained(V, k) ==
    \E f \in classify(V) : f.cls \in VALUE_CLASSES /\ k[2] \in f.runners /\ f.flow = k[1]

failed_cfgs(v) == {c \in Ran(v) : v.cfg[c].status = "fail"}

companion_explained(V, k) ==
    LET iv == V[<<k[1], "iverilog">>]
    IN  /\ k[2] = "iverilog-vz"
        /\ Status(iv) = "fail" /\ explained(V, <<k[1], "iverilog">>)
        /\ failed_cfgs(V[k]) # {} /\ failed_cfgs(V[k]) \subseteq failed_cfgs(iv)
        /\ ~ \E f \in classify(V) : f.cls = "transform-bug" /\ f.flow = k[1]

(* Mutant: the configurations that ended in an error are not looked at     *)
(* when the result is a fail that something explains.                      *)
result_issue_Worst(V, k) ==
    \/ Status(V[k]) = "error"
    \/ /\ Status(V[k]) = "fail"
       /\ ~ explained(V, k) /\ ~ companion_explained(V, k)

result_issue(V, k) ==
    \/ Ended(V[k], "error")
    \/ Status(V[k]) = "error"
    \/ /\ Status(V[k]) = "fail"
       /\ ~ explained(V, k) /\ ~ companion_explained(V, k)

(* _evidence: two traces and nothing compared, or a result all comparisons *)
(* of which compared nothing                                               *)
evidence_issue(V) ==
    /\ Cardinality({k \in Keys : HasTrace(V[k])}) > 1
    /\ \/ ~ \E p \in pairs(V) : p[3]
       \/ \E p \in pairs(V) : \E k \in {p[1], p[2]} :
             \A q \in pairs(V) : k \in {q[1], q[2]} => ~ q[3]

(* A configuration that the golden model ran and a result does not list.   *)
config_issue(V) ==
    /\ Status(Golden(V)) \in {"pass", "fail"}
    /\ \E k \in Keys : Listed(V[k]) # {} /\ ~ Ran(Golden(V)) \subseteq Listed(V[k])

companion_gap(vz, iv, reject) ==
    IF Status(vz) \notin {"pass", "fail"} THEN TRUE
    ELSE IF HasTrace(vz) /\ HasTrace(iv) THEN Differ(iv, vz, reject, TRUE, TRUE)
    ELSE Status(vz) # "pass"

Unconfirmed(V) ==
    \E f \in Flows :
        /\ Status(V[<<f, "verilator">>]) = "pass"
        /\ LET iv == V[<<f, "iverilog">>]
               vz == V[<<f, "iverilog-vz">>]
               W == [k \in Keys |-> IF k \in {<<f, "iverilog">>, <<f, "iverilog-vz">>} THEN V[k] ELSE None]
           IN  companion_gap(vz, iv, reject_cfgs(W))

Structural(V) ==
    \E p \in GoldenPoints(V) \ Partial(V) :
        p[2] # "value" \/ bit_prov(p[1]) \notin {"doc", "inferred"}

-----------------------------------------------------------------------------
(* The report                                                              *)

(* Every result with a tree hash, that of an unusable one included.        *)
IsStamped(v) ==
    v.kind \in {"ran", "traceless", "unavailable"} \/ (v.kind = "unusable" /\ v.stamped)
Stamped(V) == {V[k] : k \in {k \in Keys : IsStamped(V[k])}}

(* Mutant: a dirty result is not stale when it is the only tree.           *)
stale_Mixed(V) == Cardinality({v.at : v \in Stamped(V)}) > 1

(* _provenance_issues                                                      *)
stale(V) == \E v, w \in Stamped(V) : v.at = 0 \/ v.at # w.at

SourceIssue(V, ms) ==
    IF stale(V) THEN TRUE
    ELSE \/ \E f \in classify(V) : Misnamed(f, ms)
         \/ Structural(V) \/ evidence_issue(V) \/ Unconfirmed(V) \/ config_issue(V)
         \/ \E k \in Keys : result_issue(V, k)

Findings ==
    UNION {{[cls |-> f.cls, flow |-> f.flow, source |-> model_source(f, ms), known |-> Known(f, ms)] :
               f \in IF stale(gather[ms]) THEN {} ELSE classify(gather[ms])} :
              ms \in DOMAIN gather}

Issue ==
    \/ \E ms \in DOMAIN gather : SourceIssue(gather[ms], ms)
    \/ \E i \in DOMAIN entries : Dead(entries[i])

unlisted == {f \in Findings : ~ f.known}

provenance_ok == \A ms \in DOMAIN gather : ~ stale(gather[ms])

compared ==
    \E ms \in DOMAIN gather : ~ stale(gather[ms]) /\ \E p \in pairs(gather[ms]) : p[3]

verdict ==
    IF unlisted # {} THEN "divergence"
    ELSE IF Issue THEN "incomplete"
    ELSE IF Findings # {} THEN "known-divergence"
    ELSE IF compared THEN "agree"
    ELSE IF DOMAIN gather # {} THEN "uncompared" ELSE "not-run"

EXIT_FINDING == 3

EXIT_INCOMPLETE == 4

exit_code ==
    IF unlisted # {} THEN EXIT_FINDING ELSE IF Issue THEN EXIT_INCOMPLETE ELSE 0

(* crosscheck_cmd, with one test selected: no evidence is never clean.     *)
ExitCode ==
    IF exit_code = 0 /\ verdict \in {"not-run", "uncompared"} THEN EXIT_INCOMPLETE ELSE exit_code

-----------------------------------------------------------------------------
(* Mutant: an existing file is left alone.                                 *)
record_finding_Exists(file, seen) ==
    IF file.status = "absent" THEN [status |-> "open", seen |-> seen] ELSE file

(* A stub for a new finding, a line for a flow and source it does not name. *)
record_finding(file, seen) ==
    [status |-> IF file.status = "absent" THEN "open" ELSE file.status,
     seen |-> file.seen \cup seen]

(* Mutant: the findings of the sources that were compared are written.     *)
Recorded_Any(cls) == {<<f.flow, f.source>> : f \in {f \in unlisted : f.cls = cls}}

Recorded(cls) ==
    IF provenance_ok THEN {<<f.flow, f.source>> : f \in {f \in unlisted : f.cls = cls}} ELSE {}

(* --write-findings writes while it goes; the report is printed before.    *)
CrossCheck ==
    /\ report = None
    /\ report' = [kind |-> "report", verdict |-> verdict, exit |-> ExitCode]
    /\ files' = [c \in DOMAIN files |->
                    IF Recorded(c) = {} THEN files[c] ELSE record_finding(files[c], Recorded(c))]
    /\ UNCHANGED <<scenario, disk, tree, entries>>

(* The author: a result, of a clean (tree) or a dirty (0) tree, once at    *)
(* each tree (bound); a commit; the entries; a finding closed or reopened  *)
Run(ms, k) ==
    /\ disk[ms][k] # None => disk[ms][k].at # tree
    /\ \E v \in Scenarios[scenario].results[k] :
          disk' = [disk EXCEPT ![ms][k] = IF v.at = 0 THEN v ELSE [v EXCEPT !.at = tree]]
    /\ report' = None
    /\ UNCHANGED <<scenario, tree, entries, files>>

Commit ==
    /\ tree < Scenarios[scenario].trees
    /\ tree' = tree + 1
    /\ report' = None
    /\ UNCHANGED <<scenario, disk, entries, files>>

List ==
    /\ entries' \in Scenarios[scenario].entries \ {entries}
    /\ report' = None
    /\ UNCHANGED <<scenario, disk, tree, files>>

Close ==
    /\ \E c \in DOMAIN files :
          /\ files[c].status # "absent"
          /\ files' = [files EXCEPT ![c].status = IF @ = "open" THEN "closed" ELSE "open"]
    /\ report' = None
    /\ UNCHANGED <<scenario, disk, tree, entries>>

Init ==
    /\ scenario \in DOMAIN Scenarios
    /\ disk = [ms \in Sources |-> [k \in Keys |-> None]]
    /\ tree = 1
    /\ entries = <<>>
    /\ files = [c \in FINDING_CLASSES |-> [status |-> "absent", seen |-> {}]]
    /\ report = None

Next ==
    \/ CrossCheck
    \/ \E p \in Scenarios[scenario].selected : Run(p[1], p[2])
    \/ Commit
    \/ List
    \/ Close

Spec == Init /\ [][Next]_vars

-----------------------------------------------------------------------------
(* Two results show different values of a bit that both can observe, or    *)
(* one rejects and the other accepts a configuration without samples, and  *)
(* a rule pairs them: two simulators of a flow, the golden model with a    *)
(* simulator or the board, a flow with RTL, iverilog with iverilog-vz.     *)
Observes(k) == k[2] \notin {"verilator", "hw"}

Paired(k, l) ==
    \/ k[1] = l[1] /\ {k[2], l[2]} \subseteq SIMULATORS
    \/ k = <<"rtl", "python">> /\ (l \in {"rtl"} \X SIMULATORS \/ l[2] = "hw")
    \/ k[1] = "rtl" /\ k[2] = l[2] /\ l[2] \in SIMULATORS
    \/ k[1] = l[1] /\ k[2] = "iverilog" /\ l[2] = "iverilog-vz"

Conflict(V, k, l) ==
    LET v == V[k]
        w == V[l]
        unsampled(c) == \A m \in Keys : V[m].kind = "ran" => Sample(V[m], c) = "none"
    IN  /\ k # l /\ Paired(k, l) /\ v.kind = "ran" /\ w.kind = "ran"
        /\ \E c \in Common(v, w) :
              \/ /\ {Sample(v, c), Sample(w, c)} \subseteq Values
                 /\ Sample(v, c) # Sample(w, c)
                 /\ (Sample(v, c) = "x" => Observes(l)) /\ (Sample(w, c) = "x" => Observes(k))
              \/ unsampled(c) /\ l[2] # "hw" /\ v.cfg[c].status # w.cfg[c].status

(* The source that a disagreement is listed and recorded under: one with   *)
(* the board under none.                                                   *)
SourceOf(l, ms) == IF l[2] = "hw" THEN "n/a" ELSE ms

(* A finding of this test and class, listed for the later of the two.      *)
OnList(ms, l, statuses) ==
    \E i \in DOMAIN entries :
        LET e == entries[i] IN
        /\ files[e.finding].status \in statuses
        /\ e.finding = e.cls /\ e.cls \in VALUE_CLASSES
        /\ l[2] \in e.runners /\ l[1] \in e.flows /\ SourceOf(l, ms) \in e.sources

Clean(ms) == \A v, w \in Stamped(disk[ms]) : v.at # 0 /\ v.at = w.at

(* "An expected divergence never masks": when the cross-check ends with 0, *)
(* every disagreement between two results that can be compared is listed   *)
(* under the id of an open finding of its own, for the runner, the flow    *)
(* and the model source that show it, and no configuration ended in an     *)
(* error that a listed failure beside it hides.                            *)
NothingMasked ==
    report # None /\ report.exit = 0 =>
        \A ms \in Sources, k \in Keys :
            /\ ~ Ended(disk[ms][k], "error")
            /\ \A l \in Keys : Conflict(disk[ms], k, l) => OnList(ms, l, {"open"})

(* "Never agreement by omission": the verdict is agree only when two       *)
(* results of one clean tree showed the same bit or rejected the same      *)
(* configuration, nothing failed, in whole or in one configuration, every  *)
(* result accounts for what the golden model ran, and iverilog-vz passed   *)
(* beside every Verilator pass.                                            *)
AgreementIsEvidence ==
    report # None /\ report.verdict = "agree" =>
        /\ \E ms \in Sources, k, l \in Keys :
              LET v == disk[ms][k]
                  w == disk[ms][l]
              IN  /\ k # l /\ v.kind = "ran" /\ w.kind = "ran"
                  /\ \E c \in Cfgs :
                        /\ v.cfg[c].status = "pass" /\ w.cfg[c].status = "pass"
                        /\ Sample(v, c) = Sample(w, c) /\ Sample(v, c) \in Values \cup {"wide", "none"}
        /\ \A ms \in Sources : Clean(ms)
        /\ \A ms \in Sources, k \in Keys :
              LET v == disk[ms][k]
                  g == disk[ms][<<"rtl", "python">>]
              IN  /\ v.kind \in {"none", "unavailable", "ran", "traceless"}
                  /\ v.kind \in {"ran", "traceless"} =>
                        \A c \in Cfgs :
                            /\ v.cfg[c].status \in {"pass", "skip", "absent"}
                            /\ v.cfg[c].status = "absent" /\ g.kind = "ran" =>
                                  g.cfg[c].status # "pass"
                  /\ k[2] = "verilator" /\ v.kind = "ran" =>
                        \/ \A c \in Cfgs : v.cfg[c].status # "pass"
                        \/ Status(disk[ms][<<k[1], "iverilog-vz">>]) = "pass"

SourcesKnown == \A c \in Cfgs : bit_prov(c) \in {"doc", "inferred"}

(* A cross-check that writes findings leaves no disagreement off the       *)
(* record: with every model source at one clean tree each is listed or     *)
(* named, with its flow and source, in a findings file, a disagreement     *)
(* with the board with its flow alone (but not one with a golden value     *)
(* that has no source, which is an issue); with one that is not, nothing   *)
(* is recorded at all. What a file names stays.                            *)
RecordIsKept ==
    [][/\ report' # None =>
             IF \A ms \in Sources : Clean(ms)
               THEN \A ms \in Sources, k, l \in Keys :
                       Conflict(disk[ms], k, l) /\ (k[2] = "python" => SourcesKnown) =>
                          \/ OnList(ms, l, {"open", "closed", "absent"})
                          \/ \E c \in DOMAIN files : <<l[1], SourceOf(l, ms)>> \in files'[c].seen
               ELSE files' = files
       /\ \A c \in DOMAIN files : files[c].seen \subseteq files'[c].seen]_vars
=============================================================================
