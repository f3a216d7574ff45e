----------------------------- MODULE StatusFile -----------------------------
(***************************************************************************)
(* The life of one status/<family>/<PRIM>.yaml (tools/xut/status.py): the  *)
(* stub of `xut status init`, its refreshed bins, and what `xut status     *)
(* record` writes of the reference model source and of another one, while  *)
(* the catalog entry that names the bins changes between runs and records. *)
(*                                                                         *)
(* A bin is a tuple: <<"port", n>>, <<"port", n, event>>, <<"attr", A>>,   *)
(* <<"attr", A, v>>, <<"cross", pairs>> or <<"claim", id>>; n is <<P>> or, *)
(* of one bit of a wider port, <<P, i>>.                                   *)
(***************************************************************************)
EXTENDS StatusRecord, Sequences, TLC

CONSTANTS
    Generated,  \* the generated catalog entry
    Stimulus,   \* what the generators may have a configuration apply, by name
    Exercises   \* the bins that each test declares

Classes == {"clock", "async", "gate", "data", "inout", "clock_out", "pad", "drp"}

(* What the schema and default_class promise of a generated entry, and     *)
(* validate of a stimulus without x and z.                                 *)
ASSUME FileAssumption ==
    /\ Generated.ports \subseteq [name : STRING, direction : {"input", "output", "inout"},
                                  cls : Classes, width : Nat, active : {"none", "high", "low"}]
    /\ \A p, q \in Generated.ports : p.name = q.name => p = q
    /\ \A p \in Generated.ports : p.cls \in {"async", "gate"} => p.direction = "input"
    /\ \A n \in DOMAIN Stimulus :
          /\ Len(Stimulus[n].steps) \in Nat
          /\ \A i \in 1 .. Len(Stimulus[n].steps) :
                Stimulus[n].steps[i].op = "set" =>
                    \A pin \in DOMAIN Stimulus[n].steps[i].pins : Stimulus[n].steps[i].pins[pin] \in {"0", "1"}
    /\ \A s \in Scenarios :
          /\ s.others \subseteq RecordedKeys
          /\ \A i \in s.inputs, t \in Tests :
                /\ \A m \in i.stim[t], c \in Cfgs : m[c] \in DOMAIN Stimulus
                /\ i.stim[t] # {} /\ (t \in VectorTests \/ \E m \in i.stim[t] : i.stim[t] = {m})

VARIABLES
    inputs,   \* the committed overrides, and of each test what its
              \* configurations apply: one way for each seed of a generator
    touched,  \* the commits that touched the inputs
    replay,   \* the golden run of each test: its stimuli and bins_reached
    other,    \* the result of another model source, and its age
    file      \* the status file

fileVars == <<inputs, touched, replay, other, file>>

-----------------------------------------------------------------------------
(* The catalog entry: the generated one under its overrides.               *)

Over(o, f, n, default) == IF n \in DOMAIN o[f] THEN o[f][n] ELSE default

merge(o) ==
    [Generated EXCEPT
        !.ports = {[p EXCEPT !.active = Over(o, "active", p.name, @)] : p \in @},
        !.crosses = o.crosses]

(* OverrideError: a name that the generated entry does not have.           *)
load_entry_ok(o) ==
    /\ DOMAIN o.active \subseteq {p.name : p \in Generated.ports}
    /\ (UNION o.crosses) \subseteq {a.name : a \in Generated.attributes}

Entry == merge(inputs.overrides)

is_enumerated(a) == a.allowed # {}

Names(p) == IF p.width = 1 THEN {<<p.name>>} ELSE {<<p.name, i>> : i \in 0 .. p.width - 1}

port_class_bins(p) ==
    LET of(names, events) == {<<"port", n, e>> : n \in names, e \in events} IN
    IF p.direction = "output" THEN {}
    ELSE IF p.cls = "data" /\ p.direction = "input" THEN of(Names(p), {"0", "1"})
    ELSE IF p.cls = "clock" THEN of({<<p.name>>}, {"edge"})
    ELSE IF p.cls \in {"async", "gate"}
      THEN of(Names(p), IF p.active # "none" THEN {"assert", "release"} ELSE {"rise", "fall"})
    ELSE IF p.cls = "inout" THEN of({<<p.name>>}, {"drive0", "drive1", "release"})
    ELSE {}

(* Two different attributes of one cross.                                  *)
CrossedPairs(e) == UNION {{s \in SUBSET c : \E a, b \in s : a # b /\ s = {a, b}} : c \in e.crosses}

Attribute(e, name) == CHOOSE a \in e.attributes : a.name = name

cross_bins(e) ==
    UNION {IF \E a \in s : ~is_enumerated(Attribute(e, a)) THEN {}
           ELSE {<<"cross", {<<a, v[a]>> : a \in s}>> :
                    v \in {v \in [s -> UNION {Attribute(e, a).allowed : a \in s}] :
                              \A a \in s : v[a] \in Attribute(e, a).allowed}}
           : s \in CrossedPairs(e)}

coverage_bins(e) ==
    {<<"port", <<p.name>>>> : p \in e.ports}
    \cup (UNION {port_class_bins(p) : p \in e.ports})
    \cup (UNION {IF is_enumerated(a) THEN {<<"attr", a.name, v>> : v \in a.allowed}
                 ELSE {<<"attr", a.name>>} : a \in e.attributes})
    \cup cross_bins(e)
    \cup {<<"claim", c>> : c \in e.claims}

-----------------------------------------------------------------------------
(* What a replayed stimulus reaches.  It is its explicit attributes, the   *)
(* claims that the model hit, and steps: one writes pins, or is an edge of *)
(* a clock, or a sample of the outputs.  The pins of an inout port (of one *)
(* bit) are <<P, "en">> and <<P, "val">>; every pin starts at 0.           *)

Pins(e) ==
    (UNION {Names(p) : p \in {p \in e.ports : p.direction = "input" /\ p.cls # "clock"}})
    \cup (UNION {{<<p.name, "en">>, <<p.name, "val">>} : p \in {p \in e.ports : p.cls = "inout"}})

Writes(step, n) == step.op = "set" /\ n \in DOMAIN step.pins

(* The level of each pin after each step: that of its last write.          *)
Levels(e, s) ==
    [i \in 0 .. Len(s.steps) |-> [n \in Pins(e) |->
        IF \E j \in 1 .. i : /\ Writes(s.steps[j], n) /\ s.steps[j].pins[n] = "1"
                             /\ \A k \in j + 1 .. i : ~ Writes(s.steps[k], n)
          THEN "1" ELSE "0"]]

_data_events(e, step) ==
    {<<"port", n, step.pins[n]>> :
        n \in (DOMAIN step.pins) \cap (UNION {Names(p) : p \in {p \in e.ports : p.cls = "data"}})}

_polarity_events(e, old, new) ==
    {<<"port", n, IF new[n] = "1" THEN "rise" ELSE "fall">> :
        n \in {n \in UNION {Names(p) : p \in {p \in e.ports : p.cls \in {"async", "gate"}}} :
                  old[n] # new[n]}}

_inout_events(p, old, new) ==
    LET en == <<p.name, "en">>
        val == <<p.name, "val">>
    IN  IF new[en] = "1" /\ (old[en] # "1" \/ old[val] # new[val])
          THEN {<<"port", <<p.name>>, IF new[val] = "1" THEN "drive1" ELSE "drive0">>}
        ELSE IF old[en] = "1" /\ new[en] = "0" THEN {<<"port", <<p.name>>, "release">>}
        ELSE {}

_stimulus_events(e, old, new) ==
    _polarity_events(e, old, new)
    \cup (UNION {_inout_events(p, old, new) : p \in {p \in e.ports : p.cls = "inout"}})

(* A port counts once it was clocked, sampled or given another value.      *)
PortsReached(e, s) ==
    LET at == Levels(e, s)
        ops == {s.steps[i].op : i \in 1 .. Len(s.steps)}
    IN  {p.name : p \in {p \in e.ports :
            \/ p.cls = "clock" /\ \E i \in 1 .. Len(s.steps) :
                                     s.steps[i].op = "edge" /\ s.steps[i].port = p.name
            \/ p.direction # "input" /\ "sample" \in ops
            \/ p.direction = "input" /\ p.cls # "clock"
                  /\ \E i \in 1 .. Len(s.steps) : \E n \in Names(p) : at[i][n] # at[i - 1][n]}}

StepReach(e, s, i) ==
    LET at == Levels(e, s) IN
    IF s.steps[i].op = "set"
      THEN _data_events(e, s.steps[i]) \cup _stimulus_events(e, at[i - 1], at[i])
    ELSE IF s.steps[i].op = "edge" THEN {<<"port", <<s.steps[i].port>>, "edge">>}
    ELSE {}

Reach(e, s) ==
    {<<"port", <<p>>>> : p \in PortsReached(e, s)}
    \cup (UNION {StepReach(e, s, i) : i \in 1 .. Len(s.steps)})
    \cup {<<"attr", a, s.attrs[a]>> : a \in DOMAIN s.attrs}
    \cup {<<"claim", c>> : c \in s.claims}

(* An attribute's value: the configuration's, else the catalog default.    *)
Values(e, s) == s.attrs @@ [a \in {a.name : a \in e.attributes} |-> Attribute(e, a).default]

(* A literal is written one way or another: <<value, notation>>.           *)
Same(v, w) == v[1] = w[1]
Inverted(p) == "IS_" \o p \o "_INVERTED"
_is_one(v) == v[1] = 1

PinInverted(e, s, p) == Inverted(p) \in DOMAIN Values(e, s) /\ _is_one(Values(e, s)[Inverted(p)])

PortOf(e, name) == CHOOSE p \in e.ports : p.name = name

(* Mutant: the catalog default of the inversion is not considered.         *)
polarity_bins_Explicit(e, s, bins) ==
    LET level(p) == PortOf(e, p).active
        high(p) == (level(p) = "high") # (Inverted(p) \in DOMAIN s.attrs /\ _is_one(s.attrs[Inverted(p)]))
    IN  {IF Len(b) = 3 /\ b[1] = "port" /\ b[3] \in {"rise", "fall"} /\ level(b[2][1]) # "none"
           THEN <<"port", b[2], IF (b[3] = "rise") = high(b[2][1]) THEN "assert" ELSE "release">>
           ELSE b : b \in bins}

(* A rise or fall of a port whose active level is declared, as the         *)
(* primitive sees it behind its inversion.                                 *)
Polarised(e, s, b) ==
    LET level == PortOf(e, b[2][1]).active
        high == (level = "high") # PinInverted(e, s, b[2][1])
    IN  IF b[3] \in {"rise", "fall"} /\ level # "none"
          THEN <<"port", b[2], IF (b[3] = "rise") = high THEN "assert" ELSE "release">>
          ELSE b

polarity_bins(e, s, bins) ==
    {IF Len(b) = 3 /\ b[1] = "port" THEN Polarised(e, s, b) ELSE b : b \in bins}

attr_bins(e, s) ==
    {<<"attr", a.name>> : a \in {a \in e.attributes : a.name \in DOMAIN s.attrs /\ ~is_enumerated(a)}}

coverage_reach(e, s) == polarity_bins(e, s, Reach(e, s)) \cup attr_bins(e, s)

-----------------------------------------------------------------------------
(* The coverage of a record                                                *)

(* enum_value: the allowed literal that a value denotes.                   *)
enum_value(v, allowed) ==
    IF v \in allowed THEN {v} ELSE IF \E w \in allowed : Same(v, w)
      THEN {CHOOSE w \in allowed : Same(v, w)} ELSE {}

(* The explicit attributes of a configuration: a vector test's from the    *)
(* golden run's stim.xvec, another test's from test.yaml.                  *)
InTestYaml(t) == CHOOSE m \in inputs.stim[t] : TRUE

_config_attrs(t, c) == Stimulus[IF t \in VectorTests THEN replay[t].stim[c] ELSE InTestYaml(t)[c]]

_crosses_reached(t, cfgs) ==
    LET literals(c, a) == enum_value(Values(Entry, _config_attrs(t, c))[a], Attribute(Entry, a).allowed)
    IN  UNION {{<<"cross", {<<a, CHOOSE v \in literals(c, a) : TRUE>> : a \in s}>> :
                    c \in {c \in cfgs : \A a \in s : literals(c, a) # {}}} : s \in CrossedPairs(Entry)}

IsCross(b) == b[1] = "cross"

(* The bins that one test covers: those it declares that a credited        *)
(* configuration reached or realises; of a test without reach, all but the *)
(* crosses.                                                                *)
CoveredBy(t) ==
    LET cfgs == IF t \in VectorTests THEN Credited(t) ELSE SimPassedCfgs(t)
        reached == IF t \in VectorTests THEN UNION {replay[t].bins[c] : c \in Credited(t)}
                   ELSE IF Credited(t) # {} THEN Exercises[t] ELSE {}
    IN  {b \in Exercises[t] : IF IsCross(b) THEN b \in _crosses_reached(t, cfgs) ELSE b \in reached}

_coverage == coverage_bins(Entry) \cap (UNION {CoveredBy(t) : t \in Tests})

-----------------------------------------------------------------------------
(* The file.  A tree hash is the last commit that touched the inputs, 0    *)
(* when there is none; a key without results stands as not-run.            *)

NoCells == [k \in RecordedKeys |-> "not-run"]

new_stub ==
    [hash |-> 0, results |-> NoCells, otherHash |-> 0, others |-> NoCells,
     covered |-> {}, bins |-> coverage_bins(Entry), ages |-> {}, otherAge |-> 0]

NoFile == [hash |-> 0, none |-> TRUE]
OnDisk == file # NoFile

never_recorded(f) == f.hash = 0 /\ f.otherHash = 0

FileInit ==
    /\ Init
    /\ inputs \in scenario.inputs
    /\ touched = {1}
    /\ replay = [t \in Tests |-> None]
    /\ other = None
    /\ file = NoFile

(* Bound: of one record, a result is made again at a later commit alone,   *)
(* unless the tree was dirty.                                              *)
Remade(t, k) == scenario.others = {} /\ disk[t][k] # None => disk[t][k].at < head

(* xut run: the golden run generates the stimuli, of the default seed or   *)
(* of another (--seed), and replays all but those to be rejected.          *)
FileRun(t, k) ==
    /\ Remade(t, k)
    /\ IF k[2] = "python"
         THEN /\ load_entry_ok(inputs.overrides)
              /\ \E m \in inputs.stim[t] :
                    replay' = [replay EXCEPT ![t] =
                       [stim |-> m, bins |-> [c \in Cfgs |-> IF c \in RejectCfgs THEN {}
                                                            ELSE coverage_reach(Entry, Stimulus[m[c]])]]]
         ELSE UNCHANGED replay
    /\ Run(t, k)
    /\ UNCHANGED <<inputs, touched, other, file>>

FileCommit ==
    /\ Commit
    /\ IF changed' = head' THEN inputs' \in scenario.inputs /\ touched' = touched \cup {head'}
       ELSE UNCHANGED <<inputs, touched>>
    /\ UNCHANGED <<replay, other, file>>

(* The same test against another model source: one key is enough.          *)
RunOther ==
    /\ status = None
    /\ \E k \in scenario.others, v \in {"pass", "fail"}, at \in {0, head} :
          other' = [kind |-> "ran", at |-> at, cells |-> [NoCells EXCEPT ![k] = v]]
    /\ UNCHANGED <<vars, inputs, touched, replay, file>>

(* The bins of a file that no record wrote follow the catalog.             *)
refresh_bins(f) ==
    IF ~never_recorded(f) THEN f ELSE [f EXCEPT !.covered = {}, !.bins = coverage_bins(Entry)]

(* xut status init, with --refresh-bins when there is a file.              *)
StatusInit ==
    /\ status = None /\ scenario.others # {}
    /\ load_entry_ok(inputs.overrides)
    /\ file' = IF OnDisk THEN refresh_bins(file) ELSE new_stub
    /\ file' # file
    /\ UNCHANGED <<vars, inputs, touched, replay, other>>

(* The results a record rests on.                                          *)
Measured == {p \in Tests \X RecordedKeys : disk[p[1]][p[2]].kind \notin {"none", "unusable"}}

Before == IF OnDisk THEN file ELSE new_stub

(* What a record of the reference source writes.                           *)
FileRecord ==
    /\ Record
    /\ load_entry_ok(inputs.overrides)
    /\ file' = [Before EXCEPT
                   !.hash = changed, !.results = status'.results,
                   !.covered = _coverage, !.bins = coverage_bins(Entry),
                   !.ages = {disk[p[1]][p[2]].at : p \in Measured}]
    /\ UNCHANGED <<inputs, touched, replay, other>>

(* Mutant: the hash of an earlier record is kept.                          *)
RecordOther_Merged ==
    /\ status = None /\ other # None /\ Fresh(other)
    /\ load_entry_ok(inputs.overrides)
    /\ file' = [Before EXCEPT !.otherHash = IF @ = 0 THEN changed ELSE @,
                              !.others = other.cells, !.otherAge = other.at]
    /\ UNCHANGED <<vars, inputs, touched, replay, other>>

(* A record of the other source leaves the reference's results, hash and   *)
(* coverage alone.                                                         *)
RecordOther ==
    /\ status = None /\ other # None /\ Fresh(other)
    /\ load_entry_ok(inputs.overrides)
    /\ file' = [Before EXCEPT !.otherHash = changed, !.others = other.cells, !.otherAge = other.at]
    /\ UNCHANGED <<vars, inputs, touched, replay, other>>

(* Work goes on after a record.                                            *)
Reopen ==
    /\ status # None /\ scenario.others # {}
    /\ status' = None
    /\ UNCHANGED <<scenario, declares, disk, head, changed, fileVars>>

FileNext ==
    \/ \E t \in Tests, k \in Keys : FileRun(t, k)
    \/ FileCommit \/ RunOther \/ StatusInit \/ FileRecord \/ RecordOther \/ Reopen

FileSpec == FileInit /\ [][FileNext]_<<vars, fileVars>>

-----------------------------------------------------------------------------
(* The display: the mark of a level on which the other source disagrees    *)

_disagrees(v, w) ==
    \/ v = "pass" /\ w \in {"fail", "error"}
    \/ w = "pass" /\ v \in {"fail", "error"}

_source_suffix ==
    IF \A k \in RecordedKeys : file.others[k] = "not-run" THEN ""
    ELSE IF file.otherHash # file.hash THEN "~gh"
    ELSE IF \E k \in RecordedKeys : _disagrees(file.results[k], file.others[k]) THEN "+gh" ELSE ""

-----------------------------------------------------------------------------
(* The commit that made the inputs that a result of this age measured.     *)
TreeOf(age) == CHOOSE n \in touched : n <= age /\ \A m \in touched : m <= age => m <= n

(* "`+gh` flags a level where" one source "passes what" the other "fails   *)
(* (or errors)"; "`~gh` means the" results "were recorded at another tree  *)
(* hash": the sources are compared, and told apart, when their results     *)
(* were measured on the same inputs, and only then.                        *)
MarksCompareLikeForLike ==
    OnDisk =>
        LET same == \A a \in file.ages : TreeOf(a) = TreeOf(file.otherAge)
            differ == \E k \in RecordedKeys : _disagrees(file.results[k], file.others[k])
        IN  file.otherAge # 0 /\ file.ages # {} =>
                                 /\ _source_suffix = "~gh" <=> ~same
                                 /\ _source_suffix = "+gh" <=> same /\ differ

(* The level that the primitive sees on an active port, behind the pin and *)
(* its inversion.                                                          *)
Asserted(s, p, level) ==
    ((level = "1") # PinInverted(Entry, s, p.name)) = (p.active = "high")

EdgeOf(step, port) == step.op = "edge" /\ step.port = port.name

(* What the stimulus `s` shows of a bin, by what the design says of it.    *)
Shows(s, b) ==
    LET at == Levels(Entry, s)
        N == 1 .. Len(s.steps)
        port == PortOf(Entry, b[2][1])
        on(i) == Asserted(s, port, at[i][b[2]])
        en(i) == at[i][<<port.name, "en">>]
        val(i) == at[i][<<port.name, "val">>]
    IN  IF b[1] = "cross" THEN \A pair \in b[2] : Same(Values(Entry, s)[pair[1]], pair[2])
        ELSE IF b[1] = "attr" THEN b[2] \in DOMAIN s.attrs /\ (Len(b) = 3 => Same(s.attrs[b[2]], b[3]))
        ELSE IF b[1] = "claim" THEN b[2] \in s.claims
        ELSE IF Len(b) = 3
               THEN \E i \in N :
                       CASE b[3] = "edge" -> EdgeOf(s.steps[i], port)
                         [] b[3] \in {"0", "1"} -> Writes(s.steps[i], b[2]) /\ at[i][b[2]] = b[3]
                         [] b[3] = "assert" -> ~on(i - 1) /\ on(i)
                         [] b[3] = "release" /\ port.cls # "inout" -> on(i - 1) /\ ~on(i)
                         [] b[3] = "release" /\ port.cls = "inout" -> en(i - 1) = "1" /\ en(i) = "0"
                         [] b[3] = "drive0" -> en(i) = "1" /\ val(i) = "0"
                         [] b[3] = "drive1" -> en(i) = "1" /\ val(i) = "1"
                         [] b[3] = "rise" -> at[i - 1][b[2]] = "0" /\ at[i][b[2]] = "1"
                         [] b[3] = "fall" -> at[i - 1][b[2]] = "1" /\ at[i][b[2]] = "0"
        ELSE \E i \in N :
                \/ port.cls = "clock" /\ EdgeOf(s.steps[i], port)
                \/ port.direction # "input" /\ s.steps[i].op = "sample"
                \/ port.direction = "input" /\ port.cls # "clock" /\ \E n \in Names(port) : at[i][n] = "1"

(* Of a vector test, by the stimulus of a configuration that the golden    *)
(* model passed, and a simulator passed the configuration of that name; of *)
(* another test, the test passed on a simulator, and a configuration that  *)
(* passed has a cross's values.                                            *)
IsShown(b) ==
    \E t \in Tests :
        /\ b \in Exercises[t]
        /\ \E k \in SimKeys, c \in Cfgs :
              /\ c \in PassedCfgs(disk[t][k]) /\ Fresh(disk[t][k])
              /\ IF t \in VectorTests
                   THEN /\ c \in PassedCfgs(result(t, "rtl", "python"))
                        /\ Fresh(result(t, "rtl", "python"))
                        /\ Shows(Stimulus[replay[t].stim[c]], b)
                   ELSE IF IsCross(b) THEN Shows(Stimulus[InTestYaml(t)[c]], b)
                   ELSE Status(disk[t][k]) = "pass"

(* "A configuration is credited only when it passed on the golden model    *)
(* and on at least one UNISIM simulator.  Only the bins that this          *)
(* configuration reached count": a covered bin was shown, as the catalog   *)
(* now names it, by the stimulus of a passing golden run on these inputs.  *)
(* That the simulator applied the same stimulus, or that its pass, if it   *)
(* is Verilator's, was confirmed, is not said: the code asks for neither.  *)
CoverageIsShown == Recording => \A b \in file.covered : IsShown(b)

=============================================================================
