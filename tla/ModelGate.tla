------------------------------ MODULE ModelGate ------------------------------
(***************************************************************************)
(* verilatorize/driver.py and equiv.py, with the model gate of the         *)
(* verilator and iverilog-vz runners: UNISIM models are rewritten into     *)
(* copies, a manifest records from what each copy was made and what the    *)
(* equivalence check said of it, and a configuration is built only from    *)
(* copies that were compared with their originals.                         *)
(*                                                                         *)
(* The copies and the manifest stay on disk from one process to the next;  *)
(* the caches and the locks belong to a process, whose threads are jobs:   *)
(* one for each configuration of one model that xut run builds, or the     *)
(* one of xut verilatorize --check.  A pair is <<model, key>>: a model     *)
(* under the parameters that key stands for.                               *)
(***************************************************************************)
EXTENDS Naturals, FiniteSets

CONSTANTS
    Models, Keys,       \* UNISIM models, and configuration keys
    Inst,               \* the models a model's file instantiates
    Pairs,              \* the pairs that occur
    Uses,               \* the pairs the elaborated hierarchy of a pair holds
    Kind,               \* what the transform makes of a version of a model
    Zcmp,               \* models that the z-compare rewrite applies to
    Jobs, Pair,         \* a process's jobs, and their configurations
    Guards,             \* the jobs of iverilog-vz, which ask for no verdict
    Open,               \* jobs whose DUT leaves an input undriven
    MaxVersion,         \* bound: versions of a model's key
    MaxSims,            \* bound: versions of the simulators
    Reverts,            \* whether an edit may bring an old version back
    Removals            \* the models whose copy may be removed beside its entry

Versions == 1 .. MaxVersion

(* A copy that was not written to its end, of any version.                 *)
Torn == MaxVersion + 1

None == <<>>

ASSUME ModelGateAssumption ==
    /\ Inst \in [Models -> SUBSET Models]
    /\ Pairs \subseteq Models \X Keys
    /\ Uses \in [Pairs -> SUBSET Pairs]
    /\ Kind \in [Models -> [Versions -> {"transformed", "unchanged", "unsupported"}]]
    /\ Pair \in [Jobs -> Pairs \cup {None}]    \* None: xut verilatorize --check
    /\ MaxVersion \in Nat \ {0} /\ MaxSims \in Nat \ {0} /\ Reverts \in BOOLEAN /\ Removals \subseteq Models
    /\ None \notin Pairs
    /\ \A i, j \in Jobs : Pair[i] = None /\ Pair[j] = None => i = j

VARIABLES
    tree,       \* the version of each model's key: source, glbl, tool, choices
    sims,       \* the version of the simulators
    copy,       \* vz_dir/<MODEL>.v: the version it was made from, Torn, or 0: no file
    manifest,   \* manifest.json: an entry or None per model
    up,         \* the process: "down", "run" or "command"
    entries,    \* _ENTRIES
    checkedBy,  \* _CHECKED
    pc, cur,    \* where a job is, and the pair it works on
    todo,       \* the pairs a job has still to ensure
    vz,         \* the locals of verilatorize, of the job that transforms
    seen,       \* the copies a job's equivalence check compiled
    built       \* the copies a job's simulation was built from

disk == <<copy, manifest>>
process == <<up, entries, checkedBy>>
thread == <<pc, cur, todo, vz, seen, built>>
vars == <<tree, sims, disk, process, thread>>

Nothing == [m \in Models |-> None]
NoCopies == [m \in Models |-> 0]
Idle == [man |-> Nothing, stale |-> {}, cut |-> {}, crash |-> {}]
Model(j) == cur[j][1]
Key(j) == cur[j][2]

(* What instantiation reaches from S without leaving W.                    *)
Reached(S, W) ==
    LET closed(T) == S \cap W \subseteq T /\ \A x \in T : Inst[x] \cap W \subseteq T
    IN {m \in W : \A T \in SUBSET W : closed(T) => m \in T}

(* `models` and every model their files reach by instantiation.            *)
hierarchy(S) == Reached(S, Models)
Below(m) == hierarchy(Inst[m])

(* A pair's elaborated hierarchy is of models that its file reaches.       *)
ASSUME UsesAreBelow == \A q \in Pairs : \A d \in Uses[q] : d[1] \in Below(q[1])

-----------------------------------------------------------------------------
(* The manifest.  A verdict carries, beside the simulators it was computed *)
(* with, the copies it compared: no code reads `of`, the properties do.    *)

NoVerdict == [status |-> "", sims |-> 0, of |-> NoCopies]

(* A re-transform resets the equivalence results.                          *)
Fresh(m) == [ver |-> tree[m], deps |-> {}, equiv |-> [k \in Keys |-> NoVerdict]]

(* Mutant: a copy that was removed goes unnoticed.                         *)
current_KeyOnly(m, e) == e # None /\ e.ver = tree[m]

(* _current: the incremental key is the same and the copy is there.        *)
current(m, e) ==
    /\ e # None
    /\ e.ver = tree[m]
    /\ Kind[m][e.ver] = "transformed" => copy[m] # 0

(* Mutant: only the models at hand lose their verdicts.                    *)
Link_Kept(man) == man

(* _link: every entry whose hierarchy changed loses its verdicts.          *)
Link(man) ==
    LET deps(m) == {<<x, man[x].ver>> : x \in Reached(Inst[m], {y \in Models : man[y] # None})}
    IN [m \in Models |->
          IF man[m] = None \/ man[m].deps = deps(m) THEN man[m]
          ELSE [ver |-> man[m].ver, deps |-> deps(m), equiv |-> [k \in Keys |-> NoVerdict]]]

(* depends_on_transformed and depends_on_unsupported of an entry.          *)
DependsOn(e, status) == {d[1] : d \in {x \in e.deps : Kind[x[1]][x[2]] = status}}
status(m, e) == Kind[m][e.ver]
gated(m, e) == status(m, e) = "transformed" \/ DependsOn(e, "transformed") # {}
refused(m, e) == status(m, e) = "unsupported" \/ DependsOn(e, "unsupported") # {}

(* dep_configs: the transformed descendants that the pair instantiates.    *)
descendant_configs(q, e) == {d \in Uses[q] : d[1] \in DependsOn(e, "transformed")}

(* lib_models: the copies that a check compares and a build may read.      *)
lib_models(m, e) ==
    DependsOn(e, "transformed") \cup (IF status(m, e) = "transformed" THEN {m} ELSE {})

-----------------------------------------------------------------------------
(* The equivalence check.  What the simulators make of the two models: a   *)
(* run is clean, or stops before XUT_DONE, or is unclean.                  *)
Ends == {"done", "early", "bad"}
Worlds ==
    [open : BOOLEAN, z : BOOLEAN, nonconstant : BOOLEAN, xsim : BOOLEAN, same : BOOLEAN,
     vz : Ends, icarus : Ends, oracle : Ends, differ : BOOLEAN, written : BOOLEAN]

(* _check: the ladder to a verdict.  The original's oracle is Icarus, or   *)
(* xsim when an override is not constant or Icarus does not run it cleanly.*)
Verdict(zcmp, missing, w) ==
    LET needXsim == w.nonconstant \/ w.icarus # "done"
        orig == IF needXsim THEN w.oracle ELSE w.icarus
    IN IF \/ zcmp /\ (w.open \/ w.z)
          \/ missing \/ w.same    \* no copy, or one that equals the original
          \/ needXsim /\ ~w.xsim
          \/ w.vz # "done" \/ orig # "done"
          \/ ~w.written
       THEN "error"
       ELSE IF w.differ THEN "fail" ELSE "pass"

(* check_model: what the check may say.                                    *)
Verdicts == [a \in BOOLEAN \X BOOLEAN |-> {Verdict(a[1], a[2], w) : w \in Worlds}]
check_model(m, e, found) ==
    Verdicts[<<lib_models(m, e) \cap Zcmp # {}, \E x \in lib_models(m, e) : found[x] = 0>>]

(* A verdict is kept while the simulators are the same.                    *)
Kept(v) == v.status \in {"pass", "fail"} /\ v.sims = sims

-----------------------------------------------------------------------------
(* One job                                                                 *)

Running(j) == up = IF Pair[j] = None THEN "command" ELSE "run"
Goto(j, l) == pc' = [pc EXCEPT ![j] = l]

(* Mutant: a crash keeps the lock.                                         *)
HoldsModel_Crashed(j) ==
    pc[j] \in {"locked", "transforming", "comparing", "record", "error"} /\ cur[j] # None

(* _model_lock: held while one job makes sure of a model.                  *)
HoldsModel(j) == pc[j] \in {"locked", "transforming", "comparing", "record"}

(* _MANIFEST_LOCK: held by the one job that transforms.                    *)
ManifestIsFree == \A j \in Jobs : pc[j] # "transforming"

(* ensure_model and _ensure_one: take the lock of a pair's model, first    *)
(* for the transform alone (todo is empty), then for each pair to check.   *)
Lock(j) ==
    /\ Running(j) /\ Pair[j] # None
    /\ pc[j] \in {"start", "ensure"}
    /\ \E q \in IF pc[j] = "start" THEN {Pair[j]} ELSE todo[j] :
         /\ \A i \in Jobs \ {j} : HoldsModel(i) => Model(i) # q[1]
         /\ cur' = [cur EXCEPT ![j] = q]
    /\ Goto(j, "locked")
    /\ UNCHANGED <<tree, sims, disk, process, todo, vz, seen, built>>

(* The models a job's call of verilatorize is about.                       *)
Asked(j) == IF Pair[j] = None THEN Models ELSE hierarchy({Model(j)})

(* verilatorize: read the manifest, find what is not current.              *)
Load(j) ==
    /\ Running(j) /\ ManifestIsFree
    /\ \/ pc[j] = "locked" /\ entries[Model(j)] = None
       \/ pc[j] = "start" /\ Pair[j] = None
    /\ vz' = [Idle EXCEPT !.man = manifest,
                          !.stale = {m \in Asked(j) : ~current(m, manifest[m])}]
    /\ Goto(j, "transforming")
    /\ UNCHANGED <<tree, sims, disk, process, cur, todo, seen, built>>

(* Mutant: the old copy stays until a new one is written.                  *)
Unlink_Late(m) == copy

(* A worker removes the old copy first.                                    *)
Unlink(m) == [copy EXCEPT ![m] = 0]

(* transform_one begins: one at a time for a job of xut run, which asks    *)
(* for one worker; the command has as many as it likes.                    *)
TransformBegins(j) ==
    /\ Running(j) /\ pc[j] = "transforming"
    /\ Pair[j] # None => vz.cut = {}
    /\ \E m \in vz.stale \ vz.cut :
         /\ copy' = Unlink(m)
         /\ vz' = [vz EXCEPT !.cut = @ \cup {m}]
    /\ UNCHANGED <<tree, sims, manifest, process, pc, cur, todo, seen, built>>

(* write_text: the file is opened, which truncates it, and then written.   *)
Write(j) ==
    /\ Running(j) /\ pc[j] = "transforming"
    /\ \E m \in vz.cut :
         /\ Kind[m][tree[m]] = "transformed" /\ copy[m] # tree[m]
         /\ copy' = [copy EXCEPT ![m] = IF @ = Torn THEN tree[m] ELSE Torn]
    /\ UNCHANGED <<tree, sims, manifest, process, pc, cur, todo, vz, seen, built>>

(* transform_one returns a fresh entry, beside the whole copy of a model   *)
(* that it transforms; a crash anywhere leaves no entry.                   *)
TransformEnds(j) ==
    /\ Running(j) /\ pc[j] = "transforming"
    /\ \E m \in vz.cut :
         LET left == [vz EXCEPT !.stale = @ \ {m}, !.cut = @ \ {m}] IN
         \/ /\ Kind[m][tree[m]] = "transformed" => copy[m] = tree[m]
            /\ vz' = [left EXCEPT !.man[m] = Fresh(m)]
         \/ vz' = [left EXCEPT !.man[m] = None, !.crash = @ \cup {m}]
    /\ UNCHANGED <<tree, sims, copy, manifest, process, pc, cur, todo, seen, built>>

(* The pairs xut verilatorize --check compares: every configuration of a   *)
(* gated model, and the pairs of its descendants, without a kept verdict.  *)
CheckAll(man) ==
    LET all == {q \in Pairs : man[q[1]] # None /\ gated(q[1], man[q[1]])
                              /\ DependsOn(man[q[1]], "unsupported") = {}}
    IN {q \in all \cup UNION {descendant_configs(p, man[p[1]]) : p \in all} :
            ~Kept(man[q[1]].equiv[q[2]])}

(* The entries are linked and saved, crash or not; a crash is the caller's *)
(* error.                                                                  *)
Save(j) ==
    /\ Running(j) /\ pc[j] = "transforming" /\ vz.stale = {}
    /\ LET man == Link(vz.man) IN
         /\ manifest' = man
         /\ IF Pair[j] = None
            THEN /\ vz' = [Idle EXCEPT !.man = man]
                 /\ todo' = [todo EXCEPT ![j] = CheckAll(man)]
                 /\ UNCHANGED entries
            ELSE /\ vz' = Idle
                 /\ entries' = IF vz.crash # {} THEN entries
                               ELSE [entries EXCEPT ![Model(j)] = man[Model(j)]]
                 /\ UNCHANGED todo
    /\ Goto(j, IF vz.crash # {} THEN "error" ELSE IF Pair[j] = None THEN "compare all" ELSE "locked")
    /\ UNCHANGED <<tree, sims, copy, up, checkedBy, cur, seen, built>>

(* check=False: the lock is given back, and the gate looks at the entry.   *)
Prepared(j) ==
    /\ Running(j) /\ pc[j] = "locked" /\ entries[Model(j)] # None /\ todo[j] = {}
    /\ Goto(j, "gate")
    /\ UNCHANGED <<tree, sims, disk, process, cur, todo, vz, seen, built>>

(* gate_config: a refused model ends the configuration, one that is not    *)
(* gated is built at once.                                                 *)
Gate(j) ==
    /\ Running(j) /\ pc[j] = "gate"
    /\ LET m == Pair[j][1]
           e == entries[m]
       IN IF refused(m, e)
          THEN Goto(j, IF j \in Guards THEN "skip" ELSE "error") /\ UNCHANGED todo
          ELSE IF ~gated(m, e) THEN Goto(j, "build") /\ UNCHANGED todo
          ELSE Goto(j, "ensure") /\ todo' = [todo EXCEPT ![j] = {Pair[j]}]
    /\ UNCHANGED <<tree, sims, disk, process, cur, vz, seen, built>>

(* A pair that is ensured makes room for its descendants' pairs.           *)
Ensured(j, e) == [todo EXCEPT ![j] = (@ \ {cur[j]}) \cup descendant_configs(cur[j], e)]

(* _ensure_one with a verdict that stands: the process checked the pair,   *)
(* or the simulators are those of the verdict.                             *)
Stands(j) ==
    LET e == entries[Model(j)] IN
    cur[j] \in checkedBy \/ Kept(e.equiv[Key(j)])

Skip(j) ==
    /\ Running(j) /\ pc[j] = "locked" /\ entries[Model(j)] # None /\ todo[j] # {}
    /\ Stands(j)
    /\ todo' = Ensured(j, entries[Model(j)])
    /\ Goto(j, "ensure")
    /\ UNCHANGED <<tree, sims, disk, process, cur, vz, seen, built>>

(* The check compiles the original and the copies it finds.                *)
CheckBegins(j) ==
    /\ Running(j) /\ pc[j] = "locked" /\ entries[Model(j)] # None /\ todo[j] # {}
    /\ ~Stands(j)
    /\ seen' = [seen EXCEPT ![j] = copy]
    /\ Goto(j, "comparing")
    /\ UNCHANGED <<tree, sims, disk, process, cur, todo, vz, built>>

(* Only the copies of the pair's hierarchy are part of its verdict.        *)
Compared(m, e, found) == [x \in Models |-> IF x \in lib_models(m, e) THEN found[x] ELSE 0]

WithVerdict(e, k, v) == [ver |-> e.ver, deps |-> e.deps, equiv |-> [e.equiv EXCEPT ![k] = v]]

CheckEnds(j) ==
    /\ Running(j) /\ pc[j] = "comparing"
    /\ LET m == Model(j)
           e == entries[m]
       IN \E r \in check_model(m, e, seen[j]) :
            entries' = [entries EXCEPT ![m] =
                WithVerdict(e, Key(j), [status |-> r, sims |-> sims, of |-> Compared(m, e, seen[j])])]
    /\ checkedBy' = checkedBy \cup {cur[j]}
    /\ seen' = [seen EXCEPT ![j] = NoCopies]
    /\ Goto(j, "record")
    /\ UNCHANGED <<tree, sims, disk, up, cur, todo, vz, built>>

(* _record: into the manifest as it is now, unless the entry moved on.     *)
Record(j) ==
    /\ Running(j) /\ pc[j] = "record" /\ ManifestIsFree
    /\ LET m == Model(j)
           e == entries[m]
           now == manifest[m]
       IN /\ manifest' = IF now = None \/ <<now.ver, now.deps>> # <<e.ver, e.deps>> THEN manifest
                         ELSE [manifest EXCEPT ![m] = WithVerdict(now, Key(j), e.equiv[Key(j)])]
          /\ todo' = Ensured(j, e)
    /\ Goto(j, "ensure")
    /\ UNCHANGED <<tree, sims, copy, process, cur, vz, seen, built>>

(* blocked and descendants_blocked: every verdict must be a pass.          *)
blocked(q, e) ==
    \/ e.equiv[q[2]].status # "pass"
    \/ \E d \in descendant_configs(q, e) :
         entries[d[1]] = None \/ entries[d[1]].equiv[d[2]].status # "pass"

(* Mutant: only a model's own rewrite needs its inputs driven.             *)
effective_zcmp_Own(m, e) == status(m, e) = "transformed" /\ m \in Zcmp

(* effective_rewrites hold zcmp.                                           *)
effective_zcmp(m, e) == lib_models(m, e) \cap Zcmp # {}

(* The gate's answer, once every pair is ensured.                          *)
Decide(j) ==
    /\ Running(j) /\ pc[j] = "ensure" /\ todo[j] = {}
    /\ LET m == Pair[j][1]
           e == entries[m]
       IN Goto(j, IF \/ j \notin Guards /\ blocked(Pair[j], e)
                     \/ effective_zcmp(m, e) /\ j \in Open
                  THEN "error" ELSE "build")
    /\ UNCHANGED <<tree, sims, disk, process, cur, todo, vz, seen, built>>

(* The build: -y reads the copies first, then the originals.               *)
Build(j) ==
    /\ Running(j) /\ pc[j] = "build"
    /\ built' = [built EXCEPT ![j] = copy]
    /\ Goto(j, "built")
    /\ UNCHANGED <<tree, sims, disk, process, cur, todo, vz, seen>>

(* _check_all: the command compares its pairs in any order, in its own     *)
(* manifest, which it saves at the end.                                    *)
CompareOne(j) ==
    /\ Running(j) /\ pc[j] = "compare all"
    /\ \E q \in todo[j] :
         LET m == q[1]
             e == vz.man[m]
         IN \E r \in check_model(m, e, copy) :
              /\ vz' = [vz EXCEPT !.man[m] =
                    WithVerdict(e, q[2], [status |-> r, sims |-> sims, of |-> Compared(m, e, copy)])]
              /\ todo' = [todo EXCEPT ![j] = @ \ {q}]
    /\ UNCHANGED <<tree, sims, disk, process, pc, cur, seen, built>>

SaveVerdicts(j) ==
    /\ Running(j) /\ pc[j] = "compare all" /\ todo[j] = {}
    /\ manifest' = vz.man /\ vz' = Idle
    /\ Goto(j, "built")
    /\ UNCHANGED <<tree, sims, copy, process, cur, todo, seen, built>>

Step(j) ==
    \/ Lock(j) \/ Load(j) \/ TransformBegins(j) \/ Write(j) \/ TransformEnds(j) \/ Save(j)
    \/ Prepared(j) \/ Gate(j) \/ Skip(j) \/ CheckBegins(j) \/ CheckEnds(j) \/ Record(j)
    \/ Decide(j) \/ Build(j) \/ CompareOne(j) \/ SaveVerdicts(j)

-----------------------------------------------------------------------------
(* The process and what happens between two of them                        *)

Ended(j) == pc[j] \in {"built", "error", "skip"}

Threads ==
    /\ pc' = [j \in Jobs |-> "start"]
    /\ cur' = [j \in Jobs |-> None]
    /\ todo' = [j \in Jobs |-> {}]
    /\ vz' = Idle
    /\ seen' = [j \in Jobs |-> NoCopies]
    /\ built' = [j \in Jobs |-> NoCopies]

(* A process begins with empty caches.                                     *)
Start ==
    /\ up = "down" /\ up' \in {"run", "command"}
    /\ entries' = Nothing /\ checkedBy' = {}
    /\ UNCHANGED <<tree, sims, disk, thread>>

(* A process ends when its jobs did, or is killed at any point: what it    *)
(* had not written is lost.                                                *)
Stop ==
    /\ up # "down" /\ up' = "down"
    /\ entries' = Nothing /\ checkedBy' = {}
    /\ Threads
    /\ UNCHANGED <<tree, sims, disk>>

(* Ctrl-C reaches xut verilatorize in its main thread: it saves what it    *)
(* has, not linked when it was transforming, and ends.                     *)
Interrupt ==
    /\ up = "command"
    /\ \E j \in Jobs : Running(j) /\ pc[j] \in {"transforming", "compare all"}
    /\ manifest' = vz.man
    /\ up' = "down" /\ Threads
    /\ UNCHANGED <<tree, sims, copy, entries, checkedBy>>

(* Between two processes a model, the tool or the simulators change, or a  *)
(* copy is removed.                                                        *)
Edit ==
    /\ up = "down"
    /\ \/ \E m \in Models, v \in Versions :
            /\ v # tree[m] /\ (Reverts \/ v > tree[m])
            /\ tree' = [tree EXCEPT ![m] = v]
            /\ UNCHANGED <<sims, copy>>
       \/ sims < MaxSims /\ sims' = sims + 1 /\ UNCHANGED <<tree, copy>>
       \/ \E m \in Removals : copy[m] # 0 /\ copy' = [copy EXCEPT ![m] = 0] /\ UNCHANGED <<tree, sims>>
    /\ UNCHANGED <<manifest, process, thread>>

(* Nothing is transformed yet, and no thread has begun.                    *)
Unstarted ==
    /\ sims = 1 /\ copy = NoCopies /\ manifest = Nothing
    /\ entries = Nothing /\ checkedBy = {}
    /\ pc = [j \in Jobs |-> "start"]
    /\ cur = [j \in Jobs |-> None]
    /\ todo = [j \in Jobs |-> {}]
    /\ vz = Idle
    /\ seen = [j \in Jobs |-> NoCopies]
    /\ built = [j \in Jobs |-> NoCopies]

Init == tree = [m \in Models |-> 1] /\ up = "down" /\ Unstarted

Next == Start \/ Stop \/ Interrupt \/ Edit \/ \E j \in Jobs : Step(j)

(* A thread that can go on does; nothing makes a process stop.             *)
Spec == Init /\ [][Next]_vars /\ \A j \in Jobs : WF_vars(Step(j))

-----------------------------------------------------------------------------
(* Properties                                                              *)

(* What a simulation is built from (driver.py's "a copy in vz_dir is never *)
(* used stale or missing"): every model of the hierarchy is read from the  *)
(* copy made of its present version, and from its original exactly when it *)
(* needs none, whatever was edited or killed half-way before.  Where a     *)
(* copy is removed by hand a torn one may be read: the entry of a removed  *)
(* copy stays, and passes for that of a rewrite that was killed.           *)
NeverStaleOrMissing ==
    \A j \in Jobs : pc[j] = "built" /\ Pair[j] # None =>
        \A m \in hierarchy({Pair[j][1]}) :
            IF Kind[m][tree[m]] = "transformed"
            THEN built[j][m] = tree[m] \/ (m \in Removals /\ built[j][m] = Torn)
            ELSE built[j][m] = 0

(* The model gate: a Verilator result over a rewritten hierarchy is built  *)
(* only after the pair, and each pair it instantiates, passed a check that *)
(* compared these very copies with these very simulators, and never with   *)
(* an input undriven below a z-compare rewrite.  Of a copy that was torn,  *)
(* after a removal, the check may have seen other bytes.                   *)
GateHolds ==
    \A j \in Jobs : pc[j] = "built" /\ Pair[j] # None =>
        LET rewritten(m) == {x \in hierarchy({m}) : Kind[x][tree[x]] = "transformed"}
            proved(q) ==
                LET v == entries[q[1]].equiv[q[2]] IN
                /\ v.status = "pass" /\ v.sims = sims
                /\ \A x \in rewritten(q[1]) :
                      v.of[x] = built[j][x] \/ (x \in Removals /\ Torn \in {v.of[x], built[j][x]})
            m == Pair[j][1]
        IN rewritten(m) # {} =>
             /\ j \notin Guards =>
                  /\ proved(Pair[j])
                  /\ \A d \in Uses[Pair[j]] : d[1] \in rewritten(m) => proved(d)
             /\ rewritten(m) \cap Zcmp # {} => j \notin Open

(* Every job of a process that is not killed ends: no job waits for ever   *)
(* on a model's lock or on the manifest's, whoever crashed under it.       *)
EveryJobEnds ==
    up # "down" ~> (up = "down" \/ \A j \in Jobs : Running(j) => Ended(j))
=============================================================================
