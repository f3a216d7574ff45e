-------------------------- MODULE ModelGate_proofs --------------------------
(***************************************************************************)
(* Proofs about ModelGate, for any set of models, configurations and jobs, *)
(* and about the smoke run, its table and lint's judgement, which follow   *)
(* the model gate's command (Portability, PortabilityLint).                *)
(***************************************************************************)
EXTENDS PortabilityLint, WellFoundedInduction, TLAPS

(* The inductive invariant, part by part.                                  *)

Copies == [Models -> 0 .. Torn]
Entry == [ver : Versions, deps : SUBSET (Models \X Versions),
          equiv : [Keys -> [status : {"", "pass", "fail", "error"}, sims : Nat, of : Copies]]]
Manifests == [Models -> Entry \cup {None}]
Locals == [man : Manifests, stale : SUBSET Models, cut : SUBSET Models, crash : SUBSET Models]

TypeOK ==
    /\ tree \in [Models -> Versions] /\ sims \in 1 .. MaxSims
    /\ copy \in Copies /\ manifest \in Manifests
    /\ up \in {"down", "run", "command"}
    /\ entries \in Manifests /\ checkedBy \subseteq Pairs
    /\ pc \in [Jobs -> {"start", "locked", "transforming", "gate", "ensure", "comparing", "record",
                        "build", "compare all", "built", "error", "skip"}]
    /\ cur \in [Jobs -> Pairs \cup {None}]
    /\ todo \in [Jobs -> SUBSET Pairs]
    /\ vz \in Locals
    /\ seen \in [Jobs -> Copies] /\ built \in [Jobs -> Copies]

(* Who moves in which process.                                             *)
Places ==
    /\ up # "run" => entries = Nothing /\ checkedBy = {}
    /\ \A j \in Jobs :
          /\ ~ Running(j) => pc[j] = "start"
          /\ pc[j] = "start" => todo[j] = {}
          /\ Pair[j] = None => pc[j] \in {"start", "transforming", "compare all", "built", "error"}
          /\ Pair[j] # None => pc[j] # "compare all"

(* What a job of xut run works on, and the entries it relies on.           *)
Hands ==
    \A j \in Jobs : Pair[j] # None =>
        /\ HoldsModel(j) => (cur[j] = Pair[j] /\ todo[j] = {}) \/ cur[j] \in todo[j]
        /\ todo[j] # {} \/ pc[j] \in {"gate", "ensure", "build", "built"} =>
              entries[Pair[j][1]] # None
        /\ pc[j] \in {"comparing", "record"} => entries[Model(j)] # None /\ todo[j] # {}
        /\ pc[j] = "transforming" => entries[Model(j)] = None

OneWriter ==
    \A i, j \in Jobs : pc[i] = "transforming" /\ pc[j] = "transforming" => i = j

(* A model that no transform is at, nor crashed on, with a current entry.  *)
Firm(m) == current(m, manifest[m]) /\ m \notin vz.cut \cup vz.crash

(* What verilatorize has found and done so far: a copy that is current is  *)
(* left alone, and what it is done with is current unless it crashed.      *)
Transforming ==
    \A j \in Jobs : pc[j] = "transforming" =>
        /\ vz.cut \subseteq vz.stale /\ vz.crash \cap vz.stale = {}
        /\ \A m \in vz.cut :
              copy[m] = 0 \/ (Kind[m][tree[m]] = "transformed" /\ copy[m] \in {tree[m], Torn})
        /\ \A m \in vz.stale : vz.man[m] = manifest[m]
        /\ \A m \in Models : Firm(m) =>
              m \notin vz.stale /\ vz.man[m] # None /\ vz.man[m].ver = tree[m]
        /\ vz.crash = {} => \A m \in Asked(j) \ vz.stale : current(m, vz.man[m])

DepsNow(m) == {<<x, tree[x]>> : x \in Below(m)}

AllCurrent ==
    \A j \in Jobs : pc[j] = "compare all" =>
        \A m \in Models : current(m, vz.man[m]) /\ vz.man[m].deps = DepsNow(m)

(* What a process relies on is on disk: the copies of a model's hierarchy. *)
EntriesCurrent ==
    \A m \in Models : entries[m] # None =>
        /\ \A x \in hierarchy({m}) : Firm(x)
        /\ entries[m].ver = tree[m] /\ entries[m].deps = DepsNow(m)

Base == TypeOK /\ Places /\ Hands /\ OneWriter /\ Transforming /\ AllCurrent /\ EntriesCurrent

(* The copy that the present version of a model needs, 0 for none.         *)
Correct(m) == IF Kind[m][tree[m]] = "transformed" THEN tree[m] ELSE 0

(* T is of the models that may be read torn.                               *)
Right(T, m, c) ==
    c = Correct(m) \/ (m \in T /\ Kind[m][tree[m]] = "transformed" /\ c = Torn)

(* A copy is never newer than the source, nor older than an entry of it,   *)
(* and torn only for an older entry or one that asks for a copy, ...       *)
NotBefore(m, e) ==
    e # None =>
        /\ e.ver <= tree[m]
        /\ copy[m] \in {0, Torn} \/ e.ver <= copy[m]
        /\ copy[m] = Torn /\ e.ver = tree[m] => Kind[m][tree[m]] = "transformed"

(* ... and an entry of the present version is beside its copy.             *)
Whole(m, e) ==
    e # None /\ e.ver = tree[m] /\ Kind[m][tree[m]] = "transformed" => copy[m] = tree[m]

Disk(T) ==
    \A m \in Models :
        /\ copy[m] = Torn \/ copy[m] <= tree[m]
        /\ copy[m] \notin {0, Torn} => Kind[m][copy[m]] = "transformed"
        /\ NotBefore(m, manifest[m])
        /\ NotBefore(m, vz.man[m])
        /\ m \notin T => Whole(m, manifest[m]) /\ Whole(m, vz.man[m])

(* A pass is of the copies of the entry's versions.                        *)
IsOf(T, m, c, v) == c = v \/ (m \in T /\ c = Torn)

Earned(T, m, e) ==
    e # None => \A k \in Keys : e.equiv[k].status = "pass" =>
        /\ Kind[m][e.ver] = "transformed" => IsOf(T, m, e.equiv[k].of[m], e.ver)
        /\ \A d \in e.deps :
              Kind[d[1]][d[2]] = "transformed" => IsOf(T, d[1], e.equiv[k].of[d[1]], d[2])

SeenIsCorrect(T) ==
    \A j \in Jobs : pc[j] = "comparing" =>
        \A x \in hierarchy({Model(j)}) : Right(T, x, seen[j][x])

BuiltIsCorrect(T) ==
    \A j \in Jobs : pc[j] = "built" /\ Pair[j] # None =>
        \A m \in hierarchy({Pair[j][1]}) : Right(T, m, built[j][m])

VerdictsEarned(T) ==
    \A m \in Models :
        Earned(T, m, manifest[m]) /\ Earned(T, m, vz.man[m]) /\ Earned(T, m, entries[m])

(* One job at a time makes sure of a model.                                *)
Locks ==
    \A i, j \in Jobs : i # j /\ Pair[i] # None /\ Pair[j] # None /\ HoldsModel(i) /\ HoldsModel(j)
        => Model(i) # Model(j)

Standing(q) ==
    entries[q[1]] # None /\ (q \in checkedBy \/ Kept(entries[q[1]].equiv[q[2]]))

Checked ==
    /\ \A q \in checkedBy : entries[q[1]] # None /\ entries[q[1]].equiv[q[2]].sims = sims
    /\ \A j \in Jobs :
          /\ pc[j] = "comparing" => ~ Standing(cur[j])
          /\ pc[j] = "record" => cur[j] \in checkedBy

Descendants(j) == descendant_configs(Pair[j], entries[Pair[j][1]])

Progress ==
    \A j \in Jobs : Pair[j] # None /\ (pc[j] = "ensure" \/ todo[j] # {}) =>
        \/ Pair[j] \in todo[j]
        \/ Standing(Pair[j]) /\ \A d \in Descendants(j) : d \in todo[j] \/ Standing(d)

Passed(q) ==
    /\ entries[q[1]] # None
    /\ entries[q[1]].equiv[q[2]].status = "pass" /\ entries[q[1]].equiv[q[2]].sims = sims

Granted ==
    \A j \in Jobs : Pair[j] # None /\ pc[j] \in {"build", "built"} =>
        LET m == Pair[j][1]
            e == entries[m]
        IN gated(m, e) =>
             /\ j \notin Guards => Passed(Pair[j]) /\ \A d \in Descendants(j) : Passed(d)
             /\ effective_zcmp(m, e) => j \notin Open

-----------------------------------------------------------------------------
(* What is reached is inside W, holds what is asked for, and is closed.    *)
LEMMA ReachedIsClosed ==
    ASSUME NEW S, NEW W
    PROVE  /\ Reached(S, W) \subseteq W
           /\ S \cap W \subseteq Reached(S, W)
           /\ \A x \in Reached(S, W) : Inst[x] \cap W \subseteq Reached(S, W)
  <1>1. Reached(S, W) \subseteq W /\ S \cap W \subseteq Reached(S, W)
    BY DEF Reached
  <1>2. ASSUME NEW x \in Reached(S, W), NEW y \in Inst[x] \cap W
        PROVE  y \in Reached(S, W)
    BY <1>2 DEF Reached
  <1>3. QED
    BY <1>1, <1>2

(* It is the least such set.                                               *)
LEMMA ReachedIsLeast ==
    ASSUME NEW S, NEW W, NEW T, T \subseteq W,
           S \cap W \subseteq T, \A x \in T : Inst[x] \cap W \subseteq T
    PROVE  Reached(S, W) \subseteq T
  BY DEF Reached

LEMMA HierarchyIsClosed ==
    ASSUME NEW S, S \subseteq Models
    PROVE  /\ hierarchy(S) \subseteq Models
           /\ S \subseteq hierarchy(S)
           /\ \A x \in hierarchy(S) : Inst[x] \subseteq hierarchy(S)
  <1>1. \A x \in Models : Inst[x] \subseteq Models
    BY ModelGateAssumption
  <1>2. QED
    BY <1>1, ReachedIsClosed DEF hierarchy

(* A model's hierarchy is the model and what is below it, ...              *)
LEMMA HierarchyIsBelow ==
    ASSUME NEW m \in Models
    PROVE  /\ hierarchy({m}) = {m} \cup Below(m)
           /\ Below(m) \subseteq Models
  <1>1. Inst[m] \subseteq Models /\ \A x \in Models : Inst[x] \subseteq Models
    BY ModelGateAssumption
  <1>2. /\ Below(m) \subseteq Models /\ Inst[m] \subseteq Below(m)
        /\ \A x \in Below(m) : Inst[x] \subseteq Below(m)
    BY <1>1, HierarchyIsClosed DEF Below
  <1>3. hierarchy({m}) \subseteq {m} \cup Below(m)
    <2>1. /\ {m} \cup Below(m) \subseteq Models
          /\ \A x \in {m} \cup Below(m) : Inst[x] \cap Models \subseteq {m} \cup Below(m)
      BY <1>2
    <2>2. QED
      BY <2>1, ReachedIsLeast DEF hierarchy
  <1>4. /\ m \in hierarchy({m}) /\ hierarchy({m}) \subseteq Models
        /\ \A x \in hierarchy({m}) : Inst[x] \subseteq hierarchy({m})
    BY HierarchyIsClosed
  <1>5. Below(m) \subseteq hierarchy({m})
    BY <1>4, ReachedIsLeast DEF Below, hierarchy
  <1>6. QED
    BY <1>2, <1>3, <1>4, <1>5

(* ... and it holds the hierarchy of each of them.                         *)
LEMMA HierarchyIsTransitive ==
    ASSUME NEW m \in Models, NEW d \in hierarchy({m})
    PROVE  hierarchy({d}) \subseteq hierarchy({m})
  <1>1. /\ hierarchy({m}) \subseteq Models
        /\ \A x \in hierarchy({m}) : Inst[x] \subseteq hierarchy({m})
    BY HierarchyIsClosed
  <1>2. QED
    BY <1>1, ReachedIsLeast DEF hierarchy

(* When every model below m is in W, W does not hide any of them.          *)
LEMMA ReachedWithin ==
    ASSUME NEW m \in Models, NEW W \in SUBSET Models, Below(m) \subseteq W
    PROVE  Reached(Inst[m], W) = Below(m)
  <1>1. Inst[m] \subseteq Models
    BY ModelGateAssumption
  <1>2. /\ Inst[m] \subseteq Below(m)
        /\ \A x \in Below(m) : Inst[x] \subseteq Below(m)
    BY <1>1, HierarchyIsClosed DEF Below
  <1>3. Reached(Inst[m], W) \subseteq Below(m)
    BY <1>2, ReachedIsLeast
  <1> DEFINE R == Reached(Inst[m], W)
  <1>4. /\ R \subseteq W /\ Inst[m] \cap W \subseteq R
        /\ \A x \in R : Inst[x] \cap W \subseteq R
    BY ReachedIsClosed
  <1>5. Inst[m] \subseteq R /\ \A x \in R : Inst[x] \subseteq R
    BY <1>2, <1>3, <1>4
  <1>6. Below(m) \subseteq R
    BY <1>4, <1>5, ReachedIsLeast DEF Below, hierarchy
  <1>7. QED
    BY <1>3, <1>6

(* <<>> is no record.                                                      *)
LEMMA RecordIsNotNone ==
    ASSUME NEW a, NEW b, NEW c
    PROVE  [ver |-> a, deps |-> b, equiv |-> c] # None
  <1> DEFINE e == [ver |-> a, deps |-> b, equiv |-> c]
  <1>1. DOMAIN None = {}
    BY DEF None
  <1>2. DOMAIN e = {"ver", "deps", "equiv"}
    OBVIOUS
  <1>3. QED
    BY <1>1, <1>2

LEMMA NoVerdictIsTyped ==
    [k \in Keys |-> NoVerdict] \in [Keys -> [status : {"", "pass", "fail", "error"}, sims : Nat, of : Copies]]
  <1>1. NoCopies \in Copies
    BY ModelGateAssumption DEF NoCopies, Copies, Torn
  <1>2. NoVerdict \in [status : {"", "pass", "fail", "error"}, sims : Nat, of : Copies]
    BY <1>1 DEF NoVerdict
  <1>3. QED
    BY <1>2

LEMMA FreshIsEntry ==
    ASSUME TypeOK, NEW m \in Models
    PROVE  /\ Fresh(m) \in Entry /\ Fresh(m) # None
           /\ Fresh(m).ver = tree[m]
           /\ \A k \in Keys : Fresh(m).equiv[k].status = ""
  <1>1. tree[m] \in Versions
    BY DEF TypeOK
  <1>2. Fresh(m) \in Entry
    BY <1>1, NoVerdictIsTyped DEF Fresh, Entry
  <1>3. QED
    BY <1>2, RecordIsNotNone DEF Fresh, NoVerdict

LEMMA WithVerdictIsEntry ==
    ASSUME NEW e \in Entry, NEW k,
           NEW v \in [status : {"", "pass", "fail", "error"}, sims : Nat, of : Copies]
    PROVE  /\ WithVerdict(e, k, v) \in Entry /\ WithVerdict(e, k, v) # None
           /\ WithVerdict(e, k, v).ver = e.ver /\ WithVerdict(e, k, v).deps = e.deps
           /\ WithVerdict(e, k, v).equiv = [e.equiv EXCEPT ![k] = v]
  BY RecordIsNotNone DEF WithVerdict, Entry

(* What an entry is linked to: the versions of the entries below it.       *)
LinkedTo(man, m) == {<<x, man[x].ver>> : x \in Reached(Inst[m], {y \in Models : man[y] # None})}

(* Linking changes no version, and keeps the verdicts of an entry only     *)
(* with what it was linked to.                                             *)
LEMMA LinkSteps ==
    ASSUME NEW man \in Manifests, NEW m \in Models
    PROVE  /\ Link(man)[m] \in Entry \cup {None}
           /\ Link(man)[m] = None <=> man[m] = None
           /\ man[m] # None =>
                /\ Link(man)[m].ver = man[m].ver
                /\ Link(man)[m].deps = LinkedTo(man, m)
                /\ \/ Link(man)[m] = man[m]
                   \/ \A k \in Keys : Link(man)[m].equiv[k].status = ""
  <1> DEFINE e == [ver |-> man[m].ver, deps |-> LinkedTo(man, m),
                   equiv |-> [k \in Keys |-> NoVerdict]]
  <1>1. Link(man)[m] = IF man[m] = None \/ man[m].deps = LinkedTo(man, m) THEN man[m] ELSE e
    BY DEF Link, LinkedTo
  <1>2. CASE man[m] = None \/ man[m].deps = LinkedTo(man, m)
    BY <1>1, <1>2 DEF Manifests
  <1>3. CASE ~ (man[m] = None \/ man[m].deps = LinkedTo(man, m))
    <2>1. man[m] \in Entry
      BY <1>3 DEF Manifests
    <2>2. LinkedTo(man, m) \subseteq Models \X Versions
      <3>1. Reached(Inst[m], {y \in Models : man[y] # None}) \subseteq {y \in Models : man[y] # None}
        BY ReachedIsClosed
      <3>2. \A x \in Models : man[x] # None => man[x].ver \in Versions
        BY DEF Manifests, Entry
      <3> DEFINE R == Reached(Inst[m], {y \in Models : man[y] # None})
      <3>3. \A x \in R : <<x, man[x].ver>> \in Models \X Versions
        BY <3>1, <3>2
      <3>4. LinkedTo(man, m) = {<<x, man[x].ver>> : x \in R}
        BY DEF LinkedTo
      <3> HIDE DEF R
      <3>5. QED
        BY <3>3, <3>4
    <2>3. e \in Entry
      BY <2>1, <2>2, NoVerdictIsTyped DEF Entry
    <2>4. e # None
      BY RecordIsNotNone
    <2>5. Link(man)[m] = e
      BY <1>1, <1>3
    <2>6. e.ver = man[m].ver /\ e.deps = LinkedTo(man, m) /\ \A k \in Keys : e.equiv[k].status = ""
      BY DEF NoVerdict
    <2> HIDE DEF e
    <2>7. QED
      BY <2>3, <2>4, <2>5, <2>6, <1>3
  <1>4. QED
    BY <1>2, <1>3

LEMMA LinkIsManifest ==
    ASSUME NEW man \in Manifests
    PROVE  Link(man) \in Manifests
  <1>1. \A m \in Models : Link(man)[m] \in Entry \cup {None}
    BY LinkSteps
  <1>2. Link(man) = [m \in Models |-> Link(man)[m]]
    BY DEF Link
  <1>3. QED
    BY <1>1, <1>2 DEF Manifests

(* A check says pass, fail or error.                                       *)
LEMMA CheckSays ==
    ASSUME NEW m, NEW e, NEW found, NEW r \in check_model(m, e, found)
    PROVE  r \in {"pass", "fail", "error"}
  <1>1. \A z, missing, w : Verdict(z, missing, w) \in {"pass", "fail", "error"}
    BY DEF Verdict
  <1>2. \A a \in BOOLEAN \X BOOLEAN : Verdicts[a] \subseteq {"pass", "fail", "error"}
    BY <1>1 DEF Verdicts
  <1> DEFINE a == <<lib_models(m, e) \cap Zcmp # {}, \E x \in lib_models(m, e) : found[x] = 0>>
  <1>3. a \in BOOLEAN \X BOOLEAN
    OBVIOUS
  <1>4. r \in Verdicts[a]
    BY DEF check_model
  <1> HIDE DEF a
  <1>5. QED
    BY <1>2, <1>3, <1>4

(* What a check compared, as a verdict.                                    *)
LEMMA ComparedIsTyped ==
    ASSUME NEW m, NEW e, NEW found \in Copies, NEW r \in check_model(m, e, found), sims \in Nat
    PROVE  [status |-> r, sims |-> sims, of |-> Compared(m, e, found)]
             \in [status : {"", "pass", "fail", "error"}, sims : Nat, of : Copies]
  <1>1. Compared(m, e, found) \in Copies
    BY ModelGateAssumption DEF Compared, Copies, Torn
  <1>2. r \in {"pass", "fail", "error"}
    BY CheckSays
  <1>3. QED
    BY <1>1, <1>2

LEMMA VersionsAreNumbers ==
    Versions \subseteq Nat /\ 0 \notin Versions /\ Torn \in Nat /\ \A v \in Versions : v < Torn
  <1>1. MaxVersion \in Nat
    BY ModelGateAssumption
  <1>2. QED
    BY <1>1 DEF Versions, Torn

LEMMA CopiesAreNumbers == ASSUME NEW f \in Copies, NEW m \in Models PROVE f[m] \in Nat
  <1>1. Torn \in Nat
    BY VersionsAreNumbers
  <1>2. f[m] \in 0 .. Torn
    BY DEF Copies
  <1>3. QED
    BY <1>1, <1>2

LEMMA TreeIsNumbers == ASSUME TypeOK, NEW m \in Models PROVE tree[m] \in Nat /\ tree[m] # 0
  <1>1. tree[m] \in Versions
    BY DEF TypeOK
  <1>2. QED
    BY <1>1, VersionsAreNumbers

LEMMA PairParts == \A q \in Pairs : q[1] \in Models /\ q[2] \in Keys /\ q # None
  BY ModelGateAssumption

(* A job that holds a model's lock has a pair in hand.                     *)
LEMMA ModelInHand ==
    ASSUME TypeOK, Hands, NEW j \in Jobs, Pair[j] # None, HoldsModel(j)
    PROVE  cur[j] \in Pairs /\ Model(j) \in Models /\ Key(j) \in Keys
  <1>1. Pair[j] \in Pairs /\ todo[j] \subseteq Pairs
    BY ModelGateAssumption DEF TypeOK
  <1>2. cur[j] \in Pairs
    BY <1>1 DEF Hands
  <1>3. QED
    BY <1>2, PairParts DEF Model, Key

(* In a process only its own jobs are past the start.                      *)
LEMMA WhoRuns ==
    ASSUME Places, NEW j \in Jobs
    PROVE  /\ pc[j] \in {"locked", "gate", "ensure", "comparing", "record", "build", "skip"} =>
                Pair[j] # None
           /\ pc[j] = "compare all" => Pair[j] = None
           /\ pc[j] # "start" => Running(j)
           /\ up = "run" /\ pc[j] # "start" => Pair[j] # None
           /\ up = "command" /\ pc[j] # "start" => Pair[j] = None
           /\ up = "down" => pc[j] = "start"
  BY DEF Places, Running

(* The descendants of a pair are pairs.                                    *)
LEMMA DescendantsArePairs ==
    ASSUME NEW q \in Pairs, NEW e
    PROVE  descendant_configs(q, e) \subseteq Pairs
  BY ModelGateAssumption DEF descendant_configs

LEMMA CheckAllArePairs == \A man : CheckAll(man) \subseteq Pairs
  BY DescendantsArePairs DEF CheckAll

LEMMA NothingIsTyped == Nothing \in Manifests /\ NoCopies \in Copies
  BY ModelGateAssumption DEF Nothing, Manifests, NoCopies, Copies, Torn

LEMMA IdleIsTyped == Idle \in Locals
  BY NothingIsTyped DEF Idle, Locals

(* The first process begins, over a source in any state.                   *)
Beginning == tree \in [Models -> Versions] /\ up \in {"down", "command"} /\ Unstarted

LEMMA InitBegins == Init => Beginning
  BY ModelGateAssumption DEF Init, Beginning, Versions

LEMMA TypeOKInit == Beginning => TypeOK
  <1> SUFFICES ASSUME Beginning PROVE TypeOK
    OBVIOUS
  <1>1. sims \in 1 .. MaxSims
    BY ModelGateAssumption DEF Beginning, Unstarted
  <1>2. QED
    BY <1>1, NothingIsTyped, IdleIsTyped DEF Beginning, Unstarted, TypeOK

(* Every variable keeps its type: the steps of one job.                    *)
LEMMA TypeOKJobStep ==
    ASSUME TypeOK, Places, Hands, AllCurrent, NEW j \in Jobs, Step(j)
    PROVE  TypeOK'
  <1> USE DEF disk, process, thread
  <1>0. /\ vz \in Locals /\ tree \in [Models -> Versions]
        /\ todo \in [Jobs -> SUBSET Pairs]
        /\ Pair[j] # None => Pair[j] \in Pairs
    BY ModelGateAssumption DEF TypeOK
  <1>a. /\ copy \in Copies /\ seen[j] \in Copies /\ sims \in Nat
        /\ \A m \in Models, v \in 0 .. Torn : [copy EXCEPT ![m] = v] \in Copies
    <2>1. copy \in Copies /\ seen[j] \in Copies /\ sims \in 1 .. MaxSims
      BY DEF TypeOK
    <2>2. MaxSims \in Nat
      BY ModelGateAssumption
    <2>3. \A m \in Models, v \in 0 .. Torn : [copy EXCEPT ![m] = v] \in Copies
      BY <2>1 DEF Copies
    <2>4. QED
      BY <2>1, <2>2, <2>3
  <1>1. CASE Lock(j)
    <2>1. Pair[j] \in Pairs /\ todo[j] \subseteq Pairs
      BY <1>0, <1>1 DEF Lock, TypeOK
    <2>2. cur' \in [Jobs -> Pairs \cup {None}]
      BY <1>1, <2>1 DEF Lock, TypeOK
    <2>3. QED
      BY <1>1, <2>2 DEF Lock, TypeOK, Goto
  <1>2. CASE Load(j)
    <2>1. vz' \in Locals
      <3>1. Asked(j) \subseteq Models
        BY ReachedIsClosed DEF Asked, hierarchy
      <3> DEFINE S == {m \in Asked(j) : ~ current(m, manifest[m])}
      <3>2. S \in SUBSET Models
        BY <3>1
      <3>3. vz' = [man |-> manifest, stale |-> S, cut |-> {}, crash |-> {}]
        BY <1>2 DEF Load, Idle
      <3>4. manifest \in Manifests
        BY DEF TypeOK
      <3> HIDE DEF S
      <3>5. QED
        BY <3>2, <3>3, <3>4 DEF Locals
    <2>2. QED
      BY <1>2, <2>1 DEF Load, TypeOK, Goto
  <1>3. CASE TransformBegins(j)
    <2>1. PICK m \in vz.stale \ vz.cut :
            copy' = Unlink(m) /\ vz' = [vz EXCEPT !.cut = @ \cup {m}]
      BY <1>3 DEF TransformBegins
    <2>2. m \in Models
      BY <1>0 DEF Locals
    <2>3. vz' \in Locals
      BY <1>0, <2>1, <2>2 DEF Locals
    <2>4. copy' \in Copies
      <3>1. 0 \in 0 .. Torn
        BY VersionsAreNumbers
      <3>2. QED
        BY <1>a, <2>1, <2>2, <3>1 DEF Unlink
    <2>5. QED
      BY <1>3, <2>3, <2>4 DEF TransformBegins, TypeOK
  <1>4. CASE TransformEnds(j)
    <2> DEFINE rest(m) == [vz EXCEPT !.stale = @ \ {m}, !.cut = @ \ {m}]
    <2>1. PICK m \in vz.cut :
            \/ vz' = [rest(m) EXCEPT !.man[m] = Fresh(m)]
            \/ vz' = [rest(m) EXCEPT !.man[m] = None, !.crash = @ \cup {m}]
      BY <1>4 DEF TransformEnds
    <2>2. m \in Models
      BY <1>0 DEF Locals
    <2>3. rest(m) \in Locals
      BY <1>0 DEF Locals
    <2>4. /\ [rest(m) EXCEPT !.man[m] = Fresh(m)] \in Locals
          /\ [rest(m) EXCEPT !.man[m] = None, !.crash = @ \cup {m}] \in Locals
      <3> HIDE DEF rest
      <3>1. [rest(m).man EXCEPT ![m] = Fresh(m)] \in Manifests /\ [rest(m).man EXCEPT ![m] = None] \in Manifests
        BY <2>2, <2>3, FreshIsEntry DEF Manifests, Locals
      <3>2. rest(m).crash \cup {m} \in SUBSET Models
        BY <2>2, <2>3 DEF Locals
      <3>3. QED
        BY <2>3, <3>1, <3>2 DEF Locals
    <2>5. vz' \in Locals
      BY <2>1, <2>4
    <2>6. QED
      BY <1>4, <2>5 DEF TransformEnds, TypeOK
  <1>4w. CASE Write(j)
    <2>1. PICK m \in vz.cut :
            /\ copy' = [copy EXCEPT ![m] = IF @ = Torn THEN tree[m] ELSE Torn]
      BY <1>4w DEF Write
    <2>2. m \in Models
      BY <1>0 DEF Locals
    <2>3. tree[m] \in 0 .. Torn /\ Torn \in 0 .. Torn
      BY <1>0, <2>2, VersionsAreNumbers DEF Versions
    <2>4. copy' \in Copies
      BY <1>a, <2>1, <2>2, <2>3
    <2>5. QED
      BY <1>4w, <2>4 DEF Write, TypeOK
  <1>5. CASE Save(j)
    <2> DEFINE man == Link(vz.man)
    <2>1. man \in Manifests
      BY <1>0, LinkIsManifest DEF Locals
    <2>2. vz' \in Locals /\ manifest' \in Manifests
      <3> HIDE DEF man
      <3>1. [Idle EXCEPT !.man = man] \in Locals
        BY <2>1, IdleIsTyped DEF Locals
      <3>2. QED
        BY <1>5, <2>1, <3>1, IdleIsTyped DEF Save, man
    <2>3. entries' \in Manifests
      <3>1. CASE Pair[j] # None
        <4>1. HoldsModel(j)
          BY <1>5 DEF Save, HoldsModel
        <4>2. Model(j) \in Models
          BY <3>1, <4>1, ModelInHand
        <4>3. man[Model(j)] \in Entry \cup {None}
          BY <2>1, <4>2 DEF Manifests
        <4>4. entries' = entries \/ entries' = [entries EXCEPT ![Model(j)] = man[Model(j)]]
          BY <1>5, <3>1 DEF Save
        <4> HIDE DEF man
        <4>5. QED
          BY <4>2, <4>3, <4>4 DEF TypeOK, Manifests
      <3>2. CASE Pair[j] = None
        BY <1>5, <3>2 DEF Save, TypeOK
      <3>3. QED
        BY <3>1, <3>2
    <2>4. todo' \in [Jobs -> SUBSET Pairs]
      <3>1. CheckAll(man) \subseteq Pairs
        BY CheckAllArePairs
      <3>2. todo' = todo \/ todo' = [todo EXCEPT ![j] = CheckAll(man)]
        BY <1>5 DEF Save
      <3>3. QED
        BY <1>0, <3>1, <3>2
    <2>5. pc' \in [Jobs -> {"start", "locked", "transforming", "gate", "ensure", "comparing", "record",
                            "build", "compare all", "built", "error", "skip"}]
      BY <1>5 DEF Save, TypeOK, Goto
    <2>6. QED
      BY <1>5, <2>2, <2>3, <2>4, <2>5 DEF Save, TypeOK
  <1>6. CASE Prepared(j)
    BY <1>6 DEF Prepared, TypeOK, Goto
  <1>7. CASE Gate(j)
    <2>1. Pair[j] \in Pairs
      BY <1>0, <1>7, WhoRuns DEF Gate
    <2>2. todo' \in [Jobs -> SUBSET Pairs]
      <3>1. todo' = todo \/ todo' = [todo EXCEPT ![j] = {Pair[j]}]
        BY <1>7 DEF Gate
      <3>2. QED
        BY <1>0, <2>1, <3>1
    <2>3. QED
      BY <1>7, <2>2 DEF Gate, TypeOK, Goto
  <1>8. CASE Skip(j) \/ Record(j)
    <2>1. Pair[j] # None /\ HoldsModel(j)
      BY <1>8, WhoRuns DEF Skip, Record, HoldsModel
    <2>2. cur[j] \in Pairs /\ Model(j) \in Models /\ Key(j) \in Keys
      BY <2>1, ModelInHand
    <2>3. todo' \in [Jobs -> SUBSET Pairs]
      <3>1. Ensured(j, entries[Model(j)]) \in [Jobs -> SUBSET Pairs]
        BY <2>2, DescendantsArePairs DEF Ensured, TypeOK
      <3>2. QED
        BY <1>8, <3>1 DEF Skip, Record
    <2>4. manifest' \in Manifests
      <3>1. CASE manifest' = manifest
        BY <3>1 DEF TypeOK
      <3>2. CASE manifest' # manifest
        <4> DEFINE e == entries[Model(j)]  now == manifest[Model(j)]
                   new == WithVerdict(now, Key(j), e.equiv[Key(j)])
        <4>1. Record(j) /\ now # None /\ manifest' = [manifest EXCEPT ![Model(j)] = new]
          BY <1>8, <3>2 DEF Skip, Record
        <4>2. e # None
          BY <2>1, <4>1 DEF Hands, Record
        <4>3. e \in Entry /\ now \in Entry
          BY <2>2, <4>1, <4>2 DEF TypeOK, Manifests
        <4>4. new \in Entry
          <5>1. e.equiv[Key(j)] \in [status : {"", "pass", "fail", "error"}, sims : Nat, of : Copies]
            BY <2>2, <4>3 DEF Entry
          <5>2. QED
            BY <4>3, <5>1, WithVerdictIsEntry
        <4> HIDE DEF new
        <4>5. QED
          BY <2>2, <4>1, <4>4 DEF TypeOK, Manifests
      <3>3. QED
        BY <3>1, <3>2
    <2>5. pc' \in [Jobs -> {"start", "locked", "transforming", "gate", "ensure", "comparing", "record",
                            "build", "compare all", "built", "error", "skip"}]
      BY <1>8 DEF Skip, Record, TypeOK, Goto
    <2>6. QED
      BY <1>8, <2>3, <2>4, <2>5 DEF Skip, Record, TypeOK
  <1>9. CASE CheckBegins(j)
    BY <1>9 DEF CheckBegins, TypeOK, Goto
  <1>10. CASE CheckEnds(j)
    <2>1. Pair[j] # None /\ HoldsModel(j)
      BY <1>10, WhoRuns DEF CheckEnds, HoldsModel
    <2>2. cur[j] \in Pairs /\ Model(j) \in Models /\ Key(j) \in Keys
      BY <2>1, ModelInHand
    <2>3. checkedBy' \subseteq Pairs
      BY <1>10, <2>2 DEF CheckEnds, TypeOK
    <2> DEFINE e == entries[Model(j)]
    <2>4. PICK r \in check_model(Model(j), e, seen[j]) :
             entries' = [entries EXCEPT ![Model(j)] =
                WithVerdict(e, Key(j), [status |-> r, sims |-> sims,
                                        of |-> Compared(Model(j), e, seen[j])])]
      BY <1>10 DEF CheckEnds
    <2>5. e \in Entry
      BY <1>10, <2>1, <2>2 DEF CheckEnds, Hands, TypeOK, Manifests
    <2> DEFINE new == WithVerdict(e, Key(j), [status |-> r, sims |-> sims,
                                              of |-> Compared(Model(j), e, seen[j])])
    <2>6. new \in Entry
      BY <1>a, <2>5, ComparedIsTyped, WithVerdictIsEntry
    <2>7. entries' = [entries EXCEPT ![Model(j)] = new]
      BY <2>4
    <2> HIDE DEF new
    <2>8. entries' \in Manifests
      BY <2>2, <2>6, <2>7 DEF TypeOK, Manifests
    <2>9. seen' \in [Jobs -> Copies]
      BY <1>10, NothingIsTyped DEF CheckEnds, TypeOK
    <2>10. QED
      BY <1>10, <2>3, <2>8, <2>9 DEF CheckEnds, TypeOK, Goto
  <1>11. CASE Decide(j)
    BY <1>11 DEF Decide, TypeOK, Goto
  <1>12. CASE Build(j)
    BY <1>12 DEF Build, TypeOK, Goto
  <1>13. CASE CompareOne(j)
    <2>1. PICK q \in todo[j] : \E r \in check_model(q[1], vz.man[q[1]], copy) :
             /\ vz' = [vz EXCEPT !.man[q[1]] =
                   WithVerdict(vz.man[q[1]], q[2], [status |-> r, sims |-> sims,
                        of |-> Compared(q[1], vz.man[q[1]], copy)])]
             /\ todo' = [todo EXCEPT ![j] = @ \ {q}]
      BY <1>13 DEF CompareOne
    <2> DEFINE e == vz.man[q[1]]
    <2>2. PICK r \in check_model(q[1], e, copy) :
             vz' = [vz EXCEPT !.man[q[1]] =
                WithVerdict(e, q[2], [status |-> r, sims |-> sims, of |-> Compared(q[1], e, copy)])]
      BY <2>1
    <2>3. q \in Pairs
      BY <2>1 DEF TypeOK
    <2>4. q[1] \in Models
      BY <2>3, PairParts
    <2>5. e \in Entry
      <3>1. e # None
        BY <1>13, <2>4 DEF CompareOne, AllCurrent, current
      <3>2. QED
        BY <1>0, <2>4, <3>1 DEF Locals, Manifests
    <2> DEFINE new == WithVerdict(e, q[2], [status |-> r, sims |-> sims, of |-> Compared(q[1], e, copy)])
    <2>6. new \in Entry
      BY <1>a, <2>5, ComparedIsTyped, WithVerdictIsEntry
    <2>7. vz' = [vz EXCEPT !.man[q[1]] = new]
      BY <2>2
    <2> HIDE DEF new, e
    <2>8. vz' \in Locals
      <3>1. [vz.man EXCEPT ![q[1]] = new] \in Manifests
        BY <1>0, <2>4, <2>6 DEF Locals, Manifests
      <3>2. QED
        BY <1>0, <2>7, <3>1 DEF Locals
    <2>9. todo' \in [Jobs -> SUBSET Pairs]
      BY <1>0, <2>1
    <2>10. QED
      BY <1>13, <2>8, <2>9 DEF CompareOne, TypeOK
  <1>14. CASE SaveVerdicts(j)
    <2>1. vz.man \in Manifests
      BY <1>0 DEF Locals
    <2>2. manifest' \in Manifests /\ vz' \in Locals
      BY <1>14, <2>1, IdleIsTyped DEF SaveVerdicts
    <2>3. QED
      BY <1>14, <2>2 DEF SaveVerdicts, TypeOK, Goto
  <1>15. QED
    BY <1>1, <1>2, <1>3, <1>4, <1>4w, <1>5, <1>6, <1>7, <1>8, <1>9, <1>10, <1>11, <1>12, <1>13,
       <1>14 DEF Step

(* A process that ends leaves its threads as they began.                   *)
LEMMA ThreadsAreTyped ==
    ASSUME Threads
    PROVE  /\ pc' \in [Jobs -> {"start"}]
           /\ cur' \in [Jobs -> Pairs \cup {None}] /\ todo' \in [Jobs -> SUBSET Pairs]
           /\ vz' \in Locals /\ seen' \in [Jobs -> Copies] /\ built' \in [Jobs -> Copies]
  <1>1. seen' \in [Jobs -> Copies] /\ built' \in [Jobs -> Copies]
    BY NothingIsTyped DEF Threads
  <1>2. QED
    BY <1>1, IdleIsTyped DEF Threads

(* Every variable keeps its type.                                          *)
LEMMA TypeOKStep ==
    TypeOK /\ Places /\ Hands /\ AllCurrent /\ [Next]_vars => TypeOK'
  <1> SUFFICES ASSUME TypeOK, Places, Hands, AllCurrent, [Next]_vars PROVE TypeOK'
    OBVIOUS
  <1> USE DEF disk, process, thread
  <1>1. CASE Start
    BY <1>1, NothingIsTyped DEF Start, TypeOK
  <1>2. CASE Stop
    BY <1>2, NothingIsTyped, ThreadsAreTyped DEF Stop, TypeOK
  <1>3. CASE Interrupt
    <2>1. vz.man \in Manifests
      BY DEF TypeOK, Locals
    <2>2. QED
      BY <1>3, <2>1, ThreadsAreTyped DEF Interrupt, TypeOK
  <1>4. CASE Edit
    <2>1. tree' \in [Models -> Versions]
      BY <1>4 DEF Edit, TypeOK
    <2>2. sims' \in 1 .. MaxSims
      <3>1. sims' = sims \/ (sims < MaxSims /\ sims' = sims + 1)
        BY <1>4 DEF Edit
      <3>2. sims \in 1 .. MaxSims /\ MaxSims \in Nat
        BY ModelGateAssumption DEF TypeOK
      <3>3. QED
        BY <3>1, <3>2
    <2>3. copy' \in Copies
      <3>1. 0 \in 0 .. Torn
        BY VersionsAreNumbers
      <3>2. copy' = copy \/ \E m \in Models : copy' = [copy EXCEPT ![m] = 0]
        BY <1>4, ModelGateAssumption DEF Edit
      <3>3. QED
        BY <3>1, <3>2 DEF TypeOK, Copies
    <2>4. QED
      BY <1>4, <2>1, <2>2, <2>3 DEF Edit, TypeOK
  <1>5. ASSUME NEW j \in Jobs, Step(j) PROVE TypeOK'
    BY <1>5, TypeOKJobStep
  <1>6. CASE UNCHANGED vars
    BY <1>6 DEF vars, TypeOK
  <1>7. QED
    BY <1>1, <1>2, <1>3, <1>4, <1>5, <1>6 DEF Next

(* A job's step is its own, while its process runs and nothing is edited.  *)
LEMMA JobFrame ==
    ASSUME TypeOK, NEW j \in Jobs, Step(j)
    PROVE  /\ Running(j) /\ tree' = tree /\ sims' = sims /\ up' = up
           /\ \A i \in Jobs \ {j} :
                 /\ pc'[i] = pc[i] /\ cur'[i] = cur[i] /\ todo'[i] = todo[i]
                 /\ seen'[i] = seen[i] /\ built'[i] = built[i]
  <1> USE DEF disk, process, thread, Goto, TypeOK
  <1>1. CASE Lock(j)             BY <1>1 DEF Lock
  <1>2. CASE Load(j)             BY <1>2 DEF Load
  <1>3. CASE TransformBegins(j)  BY <1>3 DEF TransformBegins
  <1>4. CASE TransformEnds(j) \/ Write(j)
    BY <1>4 DEF TransformEnds, Write
  <1>5. CASE Save(j)             BY <1>5 DEF Save
  <1>6. CASE Prepared(j)         BY <1>6 DEF Prepared
  <1>7. CASE Gate(j)             BY <1>7 DEF Gate
  <1>8. CASE Skip(j)             BY <1>8 DEF Skip, Ensured
  <1>9. CASE CheckBegins(j)      BY <1>9 DEF CheckBegins
  <1>10. CASE CheckEnds(j)       BY <1>10 DEF CheckEnds
  <1>11. CASE Record(j)          BY <1>11 DEF Record, Ensured
  <1>12. CASE Decide(j)          BY <1>12 DEF Decide
  <1>13. CASE Build(j)           BY <1>13 DEF Build
  <1>14. CASE CompareOne(j)      BY <1>14 DEF CompareOne
  <1>15. CASE SaveVerdicts(j)    BY <1>15 DEF SaveVerdicts
  <1>16. QED
    BY <1>1, <1>2, <1>3, <1>4, <1>5, <1>6, <1>7, <1>8, <1>9, <1>10, <1>11, <1>12, <1>13,
       <1>14, <1>15 DEF Step

(* What a check adds to the entry it is about.                             *)
LEMMA CheckEndsAdds ==
    ASSUME TypeOK, Places, Hands, NEW j \in Jobs, CheckEnds(j)
    PROVE  /\ Pair[j] # None /\ HoldsModel(j)
           /\ cur[j] \in Pairs /\ Model(j) \in Models /\ Key(j) \in Keys
           /\ entries[Model(j)] \in Entry /\ entries[Model(j)] # None
           /\ \E r \in check_model(Model(j), entries[Model(j)], seen[j]) :
                 LET v == [status |-> r, sims |-> sims,
                           of |-> Compared(Model(j), entries[Model(j)], seen[j])]
                 IN entries' = [entries EXCEPT ![Model(j)] =
                                  WithVerdict(entries[Model(j)], Key(j), v)]
           /\ entries'[Model(j)] # None
           /\ entries'[Model(j)].ver = entries[Model(j)].ver
           /\ entries'[Model(j)].deps = entries[Model(j)].deps
           /\ \A m \in Models \ {Model(j)} : entries'[m] = entries[m]
  <1>1. Pair[j] # None /\ HoldsModel(j)
    BY WhoRuns DEF CheckEnds, HoldsModel
  <1>2. cur[j] \in Pairs /\ Model(j) \in Models /\ Key(j) \in Keys
    BY <1>1, ModelInHand
  <1>3. entries[Model(j)] # None
    BY <1>1 DEF CheckEnds, Hands
  <1>4. entries[Model(j)] \in Entry
    BY <1>2, <1>3 DEF TypeOK, Manifests
  <1> DEFINE e == entries[Model(j)]
  <1>5. PICK r \in check_model(Model(j), e, seen[j]) :
           entries' = [entries EXCEPT ![Model(j)] =
              WithVerdict(e, Key(j), [status |-> r, sims |-> sims,
                                      of |-> Compared(Model(j), e, seen[j])])]
    BY DEF CheckEnds
  <1> DEFINE new == WithVerdict(e, Key(j), [status |-> r, sims |-> sims,
                                            of |-> Compared(Model(j), e, seen[j])])
  <1>6. new # None /\ new.ver = e.ver /\ new.deps = e.deps
    BY RecordIsNotNone DEF WithVerdict
  <1>7. entries \in [Models -> Entry \cup {None}]
    BY DEF TypeOK, Manifests
  <1>8. entries' = [entries EXCEPT ![Model(j)] = new]
    BY <1>5
  <1>9. entries'[Model(j)] = new /\ \A m \in Models \ {Model(j)} : entries'[m] = entries[m]
    <2> HIDE DEF new
    <2>1. QED
      BY <1>2, <1>7, <1>8
  <1>10. \E s \in check_model(Model(j), e, seen[j]) :
            LET v == [status |-> s, sims |-> sims, of |-> Compared(Model(j), e, seen[j])]
            IN entries' = [entries EXCEPT ![Model(j)] = WithVerdict(e, Key(j), v)]
    BY <1>5
  <1> HIDE DEF new
  <1>11. QED
    BY <1>1, <1>2, <1>3, <1>4, <1>6, <1>9, <1>10

(* What a save adds to the cache: the entry of the model in hand.          *)
LEMMA SaveAdds ==
    ASSUME TypeOK, Places, Hands, NEW j \in Jobs, Save(j)
    PROVE  \/ entries' = entries
           \/ /\ Pair[j] # None /\ vz.crash = {} /\ pc'[j] = "locked"
              /\ cur[j] \in Pairs /\ Model(j) \in Models
              /\ entries[Model(j)] = None
              /\ entries'[Model(j)] = Link(vz.man)[Model(j)]
              /\ \A m \in Models \ {Model(j)} : entries'[m] = entries[m]
  <1>1. CASE Pair[j] # None /\ vz.crash = {}
    <2>1. HoldsModel(j) /\ entries[Model(j)] = None
      BY <1>1 DEF Save, HoldsModel, Hands
    <2>2. cur[j] \in Pairs /\ Model(j) \in Models
      BY <1>1, <2>1, ModelInHand
    <2>3. entries' = [entries EXCEPT ![Model(j)] = Link(vz.man)[Model(j)]] /\ pc'[j] = "locked"
      BY <1>1 DEF Save, Goto, TypeOK
    <2>4. QED
      BY <1>1, <2>1, <2>2, <2>3 DEF TypeOK, Manifests
  <1>2. CASE ~ (Pair[j] # None /\ vz.crash = {})
    BY <1>2 DEF Save
  <1>3. QED
    BY <1>1, <1>2

(* The other steps of a job leave the cache as it is.                      *)
LEMMA EntriesFrame ==
    ASSUME NEW j \in Jobs, Step(j), ~ Save(j), ~ CheckEnds(j)
    PROVE  entries' = entries /\ checkedBy' = checkedBy
  BY DEF Step, Lock, Load, TransformBegins, Write, TransformEnds, Prepared, Gate, Skip, CheckBegins,
         Record, Decide, Build, CompareOne, SaveVerdicts, process

(* An entry of the cache stays, of the same version and hierarchy; a new   *)
(* one is of the model that was transformed.                               *)
LEMMA EntriesStay ==
    ASSUME TypeOK, Places, Hands, NEW j \in Jobs, Step(j), NEW m \in Models
    PROVE  /\ entries[m] # None =>
                 entries'[m] # None /\ entries'[m].ver = entries[m].ver
                                    /\ entries'[m].deps = entries[m].deps
           /\ entries[m] = None /\ entries'[m] # None =>
                 Save(j) /\ pc[j] = "transforming" /\ pc'[j] = "locked" /\ m = Model(j)
  <1>1. CASE Save(j)
    BY <1>1, SaveAdds DEF Save
  <1>2. CASE CheckEnds(j)
    BY <1>2, CheckEndsAdds
  <1>3. CASE ~ Save(j) /\ ~ CheckEnds(j)
    BY <1>3, EntriesFrame
  <1>4. QED
    BY <1>1, <1>2, <1>3

(* What a process holds begins and ends empty.                             *)
LEMMA PlacesStep ==
    TypeOK /\ Places /\ Hands /\ [Next]_vars => Places'
  <1> SUFFICES ASSUME TypeOK, Places, Hands, [Next]_vars PROVE Places'
    OBVIOUS
  <1>1. ASSUME NEW j \in Jobs, Step(j) PROVE Places'
    <2>1. /\ Running(j) /\ up' = up
          /\ \A i \in Jobs \ {j} : pc'[i] = pc[i] /\ todo'[i] = todo[i]
      BY <1>1, JobFrame
    <2>2. /\ pc'[j] # "start"
          /\ Pair[j] = None => pc'[j] \in {"transforming", "compare all", "built", "error"}
          /\ Pair[j] # None => pc'[j] # "compare all"
      <3> USE DEF TypeOK, Goto
      <3>1. CASE Lock(j)             BY <3>1 DEF Lock
      <3>2. CASE Load(j)             BY <3>2 DEF Load
      <3>3. CASE TransformBegins(j)  BY <3>3 DEF TransformBegins
      <3>4. CASE TransformEnds(j) \/ Write(j)
        BY <3>4 DEF TransformEnds, Write
      <3>5. CASE Save(j)             BY <3>5 DEF Save
      <3>6. CASE Prepared(j)         BY <3>6 DEF Prepared, Places
      <3>7. CASE Gate(j)             BY <3>7 DEF Gate, Places
      <3>8. CASE Skip(j)             BY <3>8 DEF Skip, Places
      <3>9. CASE CheckBegins(j)      BY <3>9 DEF CheckBegins, Places
      <3>10. CASE CheckEnds(j)       BY <3>10 DEF CheckEnds, Places
      <3>11. CASE Record(j)          BY <3>11 DEF Record, Places
      <3>12. CASE Decide(j)          BY <3>12 DEF Decide, Places
      <3>13. CASE Build(j)           BY <3>13 DEF Build, Places
      <3>14. CASE CompareOne(j)      BY <3>14 DEF CompareOne, Places
      <3>15. CASE SaveVerdicts(j)    BY <3>15 DEF SaveVerdicts, Places
      <3>16. QED
        BY <1>1, <3>1, <3>2, <3>3, <3>4, <3>5, <3>6, <3>7, <3>8, <3>9, <3>10, <3>11, <3>12,
           <3>13, <3>14, <3>15 DEF Step
    <2>3. up # "run" => entries' = entries /\ checkedBy' = checkedBy
      <3>1. up # "run" => Pair[j] = None
        BY <2>1 DEF Running
      <3>2. CASE Save(j)
        BY <3>1, <3>2 DEF Save, process
      <3>3. CASE CheckEnds(j)
        BY <3>1, <3>3 DEF CheckEnds, Places
      <3>4. QED
        BY <1>1, <3>2, <3>3, EntriesFrame
    <2>4. up' # "run" => entries' = Nothing' /\ checkedBy' = {}
      BY <2>1, <2>3 DEF Places, Nothing
    <2>5. ASSUME NEW i \in Jobs
          PROVE  /\ ~ Running(i)' => pc'[i] = "start"
                 /\ pc'[i] = "start" => todo'[i] = {}
                 /\ Pair[i] = None => pc'[i] \in {"start", "transforming", "compare all", "built", "error"}
                 /\ Pair[i] # None => pc'[i] # "compare all"
      <3>1. Running(i)' = Running(i)
        BY <2>1 DEF Running
      <3>2. CASE i = j
        BY <2>1, <2>2, <3>1, <3>2
      <3>3. CASE i # j
        BY <2>1, <3>1, <3>3 DEF Places
      <3>4. QED
        BY <3>2, <3>3
    <2>6. QED
      BY <2>4, <2>5 DEF Places
  <1>2. CASE Start
    BY <1>2 DEF Start, Places, Running, thread
  <1>3. CASE Stop \/ Interrupt
    BY <1>3 DEF Stop, Interrupt, Threads, Places, Running
  <1>4. CASE Edit
    BY <1>4 DEF Edit, Places, Running, thread, process
  <1>5. CASE UNCHANGED vars
    BY <1>5 DEF vars, Places, Running, thread, process
  <1>6. QED
    BY <1>1, <1>2, <1>3, <1>4, <1>5 DEF Next

LEMMA OneWriterStep ==
    TypeOK /\ Places /\ OneWriter /\ [Next]_vars => OneWriter'
  <1> SUFFICES ASSUME TypeOK, Places, OneWriter, [Next]_vars PROVE OneWriter'
    OBVIOUS
  <1>1. ASSUME NEW j \in Jobs, Step(j) PROVE OneWriter'
    <2>1. \A i \in Jobs \ {j} : pc'[i] = pc[i]
      BY <1>1, JobFrame
    <2>2. CASE Load(j)
      BY <2>1, <2>2 DEF Load, ManifestIsFree, OneWriter
    <2>3. CASE ~ Load(j)
      <3>1. pc'[j] = "transforming" => pc[j] = "transforming"
        BY <1>1, <2>3 DEF Step, Lock, TransformBegins, Write, TransformEnds, Save, Prepared, Gate, Skip,
           CheckBegins, CheckEnds, Record, Decide, Build, CompareOne, SaveVerdicts, Goto, TypeOK
      <3>2. QED
        BY <2>1, <3>1 DEF OneWriter
    <2>4. QED
      BY <2>2, <2>3
  <1>2. CASE Start
    BY <1>2 DEF Start, OneWriter, thread
  <1>3. CASE Stop \/ Interrupt
    BY <1>3 DEF Stop, Interrupt, Threads, OneWriter
  <1>4. CASE Edit
    BY <1>4 DEF Edit, OneWriter, thread
  <1>5. CASE UNCHANGED vars
    BY <1>5 DEF vars, OneWriter, thread
  <1>6. QED
    BY <1>1, <1>2, <1>3, <1>4, <1>5 DEF Next

(* What job i has in hand.                                                 *)
HandsOf(i) ==
    /\ HoldsModel(i) => (cur[i] = Pair[i] /\ todo[i] = {}) \/ cur[i] \in todo[i]
    /\ todo[i] # {} \/ pc[i] \in {"gate", "ensure", "build", "built"} =>
          entries[Pair[i][1]] # None
    /\ pc[i] \in {"comparing", "record"} => entries[Model(i)] # None /\ todo[i] # {}
    /\ pc[i] = "transforming" => entries[Model(i)] = None

LEMMA HandsStep ==
    TypeOK /\ Places /\ Hands /\ OneWriter /\ [Next]_vars => Hands'
  <1> SUFFICES ASSUME TypeOK, Places, Hands, OneWriter, [Next]_vars PROVE Hands'
    OBVIOUS
  <1>a. \A i \in Jobs : Pair[i] # None => HandsOf(i)
    BY DEF Hands, HandsOf
  <1>b. (\A i \in Jobs : Pair[i] # None => HandsOf(i)') => Hands'
    BY DEF Hands, HandsOf, HoldsModel, Model
  <1>1. ASSUME NEW j \in Jobs, Step(j), NEW i \in Jobs, Pair[i] # None PROVE HandsOf(i)'
    <2>a. Pair[i] \in Pairs /\ Pair[i][1] \in Models
      BY <1>1, PairParts, ModelGateAssumption
    <2>b. HandsOf(i)
      BY <1>1, <1>a
    <2>c. entries[Pair[i][1]] # None => entries'[Pair[i][1]] # None
      BY <1>1, <2>a, EntriesStay
    <2>1. CASE i # j
      <3>1. pc'[i] = pc[i] /\ cur'[i] = cur[i] /\ todo'[i] = todo[i]
        BY <1>1, <2>1, JobFrame
      <3>2. HoldsModel(i) => Model(i) \in Models
        BY <1>1, ModelInHand
      <3>3. pc[i] \in {"comparing", "record"} => entries'[Model(i)] # None
        BY <1>1, <2>b, <3>2, EntriesStay DEF HandsOf, HoldsModel
      <3>4. pc[i] = "transforming" => entries'[Model(i)] = None
        <4>1. pc[i] = "transforming" => pc[j] # "transforming"
          BY <2>1 DEF OneWriter
        <4>2. QED
          BY <1>1, <2>b, <3>2, <4>1, EntriesStay DEF HandsOf, HoldsModel
      <3>5. QED
        BY <2>b, <2>c, <3>1, <3>3, <3>4 DEF HandsOf, HoldsModel, Model
    <2>2. CASE i = j
      <3> USE DEF TypeOK, Goto, HandsOf, HoldsModel, Model
      <3>0. Pair[j] # None /\ Pair[j] \in Pairs
        BY <1>1, <2>2, <2>a
      <3>1. CASE Lock(j)
        BY <3>0, <3>1, <2>2, <2>b DEF Lock, process, Places
      <3>2. CASE Load(j)
        BY <3>0, <3>2, <2>2, <2>b DEF Load, process
      <3>3. CASE TransformBegins(j) \/ Write(j) \/ TransformEnds(j)
        BY <3>0, <3>3, <2>2, <2>b DEF TransformBegins, Write, TransformEnds, process
      <3>4. CASE Save(j)
        BY <3>0, <3>4, <2>2, <2>b, <2>c DEF Save
      <3>5. CASE Prepared(j)
        BY <3>0, <3>5, <2>2, <2>b DEF Prepared, process
      <3>6. CASE Gate(j)
        BY <3>0, <3>6, <2>2, <2>b DEF Gate, process
      <3>7. CASE Skip(j)
        BY <3>0, <3>7, <2>2, <2>b DEF Skip, process
      <3>8. CASE CheckBegins(j)
        BY <3>0, <3>8, <2>2, <2>b DEF CheckBegins, process
      <3>9. CASE CheckEnds(j)
        <4>1. entries'[Model(j)] # None
          BY <1>1, <3>9, CheckEndsAdds
        <4>2. cur' = cur /\ todo' = todo /\ pc'[j] = "record" /\ pc[j] = "comparing"
          BY <3>9 DEF CheckEnds
        <4>3. QED
          BY <2>2, <2>b, <2>c, <4>1, <4>2
      <3>10. CASE Record(j)
        BY <3>0, <3>10, <2>2, <2>b DEF Record, process
      <3>11. CASE Decide(j)
        BY <3>0, <3>11, <2>2, <2>b DEF Decide, process
      <3>12. CASE Build(j)
        BY <3>0, <3>12, <2>2, <2>b DEF Build, process
      <3>13. CASE CompareOne(j) \/ SaveVerdicts(j)
        BY <3>0, <3>13, WhoRuns DEF CompareOne, SaveVerdicts
      <3>14. QED
        BY <1>1, <3>1, <3>2, <3>3, <3>4, <3>5, <3>6, <3>7, <3>8, <3>9, <3>10, <3>11, <3>12,
           <3>13 DEF Step
    <2>3. QED
      BY <2>1, <2>2
  <1>2. CASE Start
    <2>1. \A i \in Jobs : pc[i] = "start" /\ todo[i] = {}
      BY <1>2, WhoRuns DEF Start, Places
    <2>2. QED
      BY <1>2, <2>1 DEF Start, thread, Hands, HoldsModel
  <1>3. CASE Stop \/ Interrupt
    BY <1>3 DEF Stop, Interrupt, Threads, Hands, HoldsModel
  <1>4. CASE Edit
    BY <1>4 DEF Edit, Hands, HoldsModel, Model, thread, process
  <1>5. CASE UNCHANGED vars
    BY <1>5 DEF vars, Hands, HoldsModel, Model, thread, process
  <1>6. QED
    BY <1>1, <1>b, <1>2, <1>3, <1>4, <1>5 DEF Next

(* While a job transforms nobody else writes a copy or the manifest.       *)
LEMMA WriterAlone ==
    ASSUME TypeOK, Places, OneWriter, NEW j \in Jobs, pc[j] = "transforming",
           NEW k \in Jobs \ {j}, Step(k)
    PROVE  vz' = vz /\ copy' = copy /\ manifest' = manifest
  <1>1. pc[k] # "transforming" /\ ~ ManifestIsFree
    BY DEF OneWriter, ManifestIsFree
  <1>2. pc[k] # "compare all"
    <2>1. SUFFICES ASSUME pc[k] = "compare all" PROVE FALSE
      OBVIOUS
    <2>2. Pair[k] = None /\ Running(k) /\ Running(j)
      BY <2>1, WhoRuns
    <2>3. Pair[j] = None
      BY <2>2 DEF Running
    <2>4. QED
      BY <2>2, <2>3, ModelGateAssumption
  <1>3. \/ Lock(k) \/ Prepared(k) \/ Gate(k) \/ Skip(k) \/ CheckBegins(k) \/ CheckEnds(k)
        \/ Decide(k) \/ Build(k)
    BY <1>1, <1>2 DEF Step, Load, Record, TransformBegins, Write, TransformEnds, Save, CompareOne,
                      SaveVerdicts
  <1>4. QED
    BY <1>3 DEF Lock, Prepared, Gate, Skip, CheckBegins, CheckEnds, Decide, Build, disk

(* What transform_one's two ends do.                                       *)
LEMMA BeginsSteps ==
    ASSUME TypeOK, NEW j \in Jobs, TransformBegins(j)
    PROVE  \E m \in Models :
              /\ m \in vz.stale \ vz.cut /\ copy'[m] = 0
              /\ \A x \in Models \ {m} : copy'[x] = copy[x]
              /\ vz'.man = vz.man /\ vz'.stale = vz.stale /\ vz'.crash = vz.crash
              /\ vz'.cut = vz.cut \cup {m}
              /\ manifest' = manifest /\ pc' = pc /\ cur' = cur
  <1>1. PICK m \in vz.stale \ vz.cut : copy' = Unlink(m) /\ vz' = [vz EXCEPT !.cut = @ \cup {m}]
    BY DEF TransformBegins
  <1>2. m \in Models /\ vz \in Locals
    BY DEF TypeOK, Locals
  <1>3. vz'.man = vz.man /\ vz'.stale = vz.stale /\ vz'.crash = vz.crash /\ vz'.cut = vz.cut \cup {m}
    BY <1>1, <1>2 DEF Locals
  <1>4. copy'[m] = 0 /\ \A x \in Models \ {m} : copy'[x] = copy[x]
    BY <1>1, <1>2 DEF Unlink, TypeOK, Copies
  <1>5. QED
    BY <1>1, <1>2, <1>3, <1>4 DEF TransformBegins

LEMMA WriteSteps ==
    ASSUME TypeOK, NEW j \in Jobs, Write(j)
    PROVE  \E m \in Models :
              /\ m \in vz.cut /\ Kind[m][tree[m]] = "transformed" /\ copy[m] # tree[m]
              /\ copy'[m] = IF copy[m] = Torn THEN tree[m] ELSE Torn
              /\ \A x \in Models \ {m} : copy'[x] = copy[x]
              /\ vz' = vz /\ manifest' = manifest /\ pc' = pc /\ cur' = cur
  <1>1. PICK m \in vz.cut :
            /\ Kind[m][tree[m]] = "transformed" /\ copy[m] # tree[m]
            /\ copy' = [copy EXCEPT ![m] = IF @ = Torn THEN tree[m] ELSE Torn]
    BY DEF Write
  <1>2. m \in Models
    BY DEF TypeOK, Locals
  <1>3. /\ copy'[m] = IF copy[m] = Torn THEN tree[m] ELSE Torn
        /\ \A x \in Models \ {m} : copy'[x] = copy[x]
    BY <1>1, <1>2 DEF TypeOK, Copies
  <1>4. QED
    BY <1>1, <1>2, <1>3 DEF Write

LEMMA EndsSteps ==
    ASSUME TypeOK, NEW j \in Jobs, TransformEnds(j)
    PROVE  \E m \in Models :
              /\ m \in vz.cut
              /\ vz'.stale = vz.stale \ {m} /\ vz'.cut = vz.cut \ {m}
              /\ \A x \in Models \ {m} : vz'.man[x] = vz.man[x]
              /\ \/ /\ vz'.man[m] = Fresh(m) /\ vz'.crash = vz.crash
                    /\ Kind[m][tree[m]] = "transformed" => copy[m] = tree[m]
                 \/ vz'.man[m] = None /\ vz'.crash = vz.crash \cup {m}
              /\ copy' = copy /\ manifest' = manifest /\ pc' = pc /\ cur' = cur
  <1> DEFINE L(m) == [vz EXCEPT !.stale = @ \ {m}, !.cut = @ \ {m}]
  <1>1. PICK m \in vz.cut :
            \/ /\ Kind[m][tree[m]] = "transformed" => copy[m] = tree[m]
               /\ vz' = [L(m) EXCEPT !.man[m] = Fresh(m)]
            \/ vz' = [L(m) EXCEPT !.man[m] = None, !.crash = @ \cup {m}]
    BY DEF TransformEnds
  <1>2. m \in Models /\ vz \in Locals
    BY DEF TypeOK, Locals
  <1>3. /\ L(m) \in Locals /\ L(m).stale = vz.stale \ {m} /\ L(m).cut = vz.cut \ {m}
        /\ L(m).man = vz.man /\ L(m).crash = vz.crash
    BY <1>2 DEF Locals
  <1> HIDE DEF L
  <1>4. /\ vz'.stale = vz.stale \ {m} /\ vz'.cut = vz.cut \ {m}
        /\ \/ /\ vz'.man = [vz.man EXCEPT ![m] = Fresh(m)] /\ vz'.crash = vz.crash
              /\ Kind[m][tree[m]] = "transformed" => copy[m] = tree[m]
           \/ vz'.man = [vz.man EXCEPT ![m] = None] /\ vz'.crash = vz.crash \cup {m}
    BY <1>1, <1>3 DEF Locals
  <1>5. vz.man \in Manifests
    BY DEF TypeOK, Locals
  <1>6. /\ \A x \in Models \ {m} : vz'.man[x] = vz.man[x]
        /\ \/ /\ vz'.man[m] = Fresh(m) /\ vz'.crash = vz.crash
              /\ Kind[m][tree[m]] = "transformed" => copy[m] = tree[m]
           \/ vz'.man[m] = None /\ vz'.crash = vz.crash \cup {m}
    BY <1>2, <1>4, <1>5 DEF Manifests
  <1>7. QED
    BY <1>1, <1>2, <1>4, <1>6 DEF TransformEnds

TransformingOf(j) ==
    /\ vz.cut \subseteq vz.stale /\ vz.crash \cap vz.stale = {}
    /\ \A m \in vz.cut :
          copy[m] = 0 \/ (Kind[m][tree[m]] = "transformed" /\ copy[m] \in {tree[m], Torn})
    /\ \A m \in vz.stale : vz.man[m] = manifest[m]
    /\ \A m \in Models : Firm(m) =>
          m \notin vz.stale /\ vz.man[m] # None /\ vz.man[m].ver = tree[m]
    /\ vz.crash = {} => \A m \in Asked(j) \ vz.stale : current(m, vz.man[m])

LEMMA AskedAreModels == ASSUME NEW j \in Jobs PROVE Asked(j) \subseteq Models
  BY ReachedIsClosed DEF Asked, hierarchy

LEMMA TransformingStep ==
    TypeOK /\ Places /\ OneWriter /\ Transforming /\ [Next]_vars => Transforming'
  <1> SUFFICES ASSUME TypeOK, Places, OneWriter, Transforming, [Next]_vars PROVE Transforming'
    OBVIOUS
  <1>a. Transforming = (\A j \in Jobs : pc[j] = "transforming" => TransformingOf(j))
    BY DEF Transforming, TransformingOf
  <1>b. Transforming' = (\A j \in Jobs : pc'[j] = "transforming" => TransformingOf(j)')
    BY DEF Transforming, TransformingOf
  <1>1. ASSUME NEW k \in Jobs, Step(k), NEW j \in Jobs, pc'[j] = "transforming"
        PROVE  TransformingOf(j)'
    <2>0. tree' = tree
      BY <1>1, JobFrame
    <2>1. CASE k # j
      <3>1. pc[j] = "transforming" /\ cur'[j] = cur[j]
        BY <1>1, <2>1, JobFrame
      <3>2. vz' = vz /\ copy' = copy /\ manifest' = manifest
        BY <1>1, <2>1, <3>1, WriterAlone
      <3>3. TransformingOf(j)
        BY <1>a, <3>1
      <3>4. QED
        BY <2>0, <3>1, <3>2, <3>3 DEF TransformingOf, Firm, current, Asked, Model
    <2>2. CASE Load(j)
      <3>1. /\ vz'.man = manifest /\ vz'.cut = {} /\ vz'.crash = {}
            /\ vz'.stale = {m \in Asked(j) : ~ current(m, manifest[m])}
        BY <2>2 DEF Load, Idle
      <3>2. manifest' = manifest /\ copy' = copy /\ cur' = cur
        BY <2>2 DEF Load, disk
      <3>3. \A m \in Models : current(m, manifest[m]) =>
               m \notin vz'.stale /\ vz'.man[m] # None /\ vz'.man[m].ver = tree[m]
        BY <3>1 DEF current
      <3>4. \A m \in Asked(j) \ vz'.stale : current(m, vz'.man[m])
        BY <3>1
      <3>5. QED
        BY <2>0, <3>1, <3>2, <3>3, <3>4 DEF TransformingOf, Firm, current, Asked, Model
    <2>3. CASE TransformBegins(j)
      <3>0. pc[j] = "transforming" /\ TransformingOf(j)
        BY <1>a, <2>3 DEF TransformBegins
      <3>1. PICK m \in Models :
              /\ m \in vz.stale /\ copy'[m] = 0
              /\ \A x \in Models \ {m} : copy'[x] = copy[x]
              /\ vz'.man = vz.man /\ vz'.stale = vz.stale /\ vz'.crash = vz.crash
              /\ vz'.cut = vz.cut \cup {m}
              /\ manifest' = manifest /\ pc' = pc /\ cur' = cur
        BY <2>3, BeginsSteps
      <3>2. vz.stale \subseteq Models /\ vz.cut \subseteq Models /\ m \notin vz.crash
        BY <3>0, <3>1 DEF TypeOK, Locals, TransformingOf
      <3>3. \A x \in Models : Firm(x)' => x # m /\ Firm(x)
        BY <2>0, <3>1 DEF Firm, current
      <3>4. \A x \in Models \ {m} : current(x, vz.man[x]) => current(x, vz.man[x])'
        BY <2>0, <3>1 DEF current
      <3>5. Asked(j)' = Asked(j) /\ Asked(j) \subseteq Models
        BY <3>1, AskedAreModels DEF Asked, Model
      <3>6. /\ vz'.cut \subseteq vz'.stale /\ vz'.crash \cap vz'.stale = {}
            /\ \A x \in vz'.stale : vz'.man[x] = manifest'[x]
        BY <3>0, <3>1, <3>2 DEF TransformingOf
      <3>6a. ASSUME NEW x \in vz'.cut
             PROVE  copy'[x] = 0 \/ (Kind[x][tree'[x]] = "transformed" /\ copy'[x] \in {tree'[x], Torn})
        <4>1. CASE x = m
          BY <3>1, <4>1
        <4>2. CASE x # m
          BY <2>0, <3>0, <3>1, <3>2, <3>6a, <4>2 DEF TransformingOf
        <4>3. QED
          BY <4>1, <4>2
      <3>7. \A x \in Models : Firm(x)' =>
               x \notin vz'.stale /\ vz'.man[x] # None /\ vz'.man[x].ver = tree'[x]
        BY <2>0, <3>0, <3>1, <3>3 DEF TransformingOf
      <3>8. vz'.crash = {} => \A x \in Asked(j)' \ vz'.stale : current(x, vz.man[x])'
        BY <3>0, <3>1, <3>4, <3>5 DEF TransformingOf
      <3>9. QED
        BY <3>6, <3>6a, <3>7, <3>8 DEF TransformingOf
    <2>w. CASE Write(j)
      <3>0. pc[j] = "transforming" /\ TransformingOf(j)
        BY <1>a, <2>w DEF Write
      <3>1. PICK m \in Models :
              /\ m \in vz.cut /\ Kind[m][tree[m]] = "transformed" /\ copy[m] # tree[m]
              /\ copy'[m] = IF copy[m] = Torn THEN tree[m] ELSE Torn
              /\ \A x \in Models \ {m} : copy'[x] = copy[x]
              /\ vz' = vz /\ manifest' = manifest /\ pc' = pc /\ cur' = cur
        BY <2>w, WriteSteps
      <3>2. vz.cut \subseteq Models /\ m \in vz.stale
        BY <3>0, <3>1 DEF TypeOK, Locals, TransformingOf
      <3>3. \A x \in Models : Firm(x)' => x # m /\ Firm(x)
        BY <2>0, <3>1 DEF Firm, current
      <3>4. \A x \in Models \ {m} : current(x, vz.man[x]) => current(x, vz.man[x])'
        BY <2>0, <3>1 DEF current
      <3>5. Asked(j)' = Asked(j) /\ Asked(j) \subseteq Models
        BY <3>1, AskedAreModels DEF Asked, Model
      <3>6. ASSUME NEW x \in vz'.cut
            PROVE  copy'[x] = 0 \/ (Kind[x][tree'[x]] = "transformed" /\ copy'[x] \in {tree'[x], Torn})
        <4>1. CASE x = m
          BY <2>0, <3>1, <4>1
        <4>2. CASE x # m
          BY <2>0, <3>0, <3>1, <3>2, <3>6, <4>2 DEF TransformingOf
        <4>3. QED
          BY <4>1, <4>2
      <3>7. \A x \in Models : Firm(x)' =>
               x \notin vz'.stale /\ vz'.man[x] # None /\ vz'.man[x].ver = tree'[x]
        BY <2>0, <3>0, <3>1, <3>3 DEF TransformingOf
      <3>8. vz'.crash = {} => \A x \in Asked(j)' \ vz'.stale : current(x, vz.man[x])'
        BY <3>0, <3>1, <3>2, <3>4, <3>5 DEF TransformingOf
      <3>9. QED
        BY <3>0, <3>1, <3>6, <3>7, <3>8 DEF TransformingOf
    <2>4. CASE TransformEnds(j)
      <3>0. pc[j] = "transforming" /\ TransformingOf(j)
        BY <1>a, <2>4 DEF TransformEnds
      <3>1. PICK m \in Models :
              /\ m \in vz.cut
              /\ vz'.stale = vz.stale \ {m} /\ vz'.cut = vz.cut \ {m}
              /\ \A x \in Models \ {m} : vz'.man[x] = vz.man[x]
              /\ \/ /\ vz'.man[m] = Fresh(m) /\ vz'.crash = vz.crash
                    /\ Kind[m][tree[m]] = "transformed" => copy[m] = tree[m]
                 \/ vz'.man[m] = None /\ vz'.crash = vz.crash \cup {m}
              /\ copy' = copy /\ manifest' = manifest /\ pc' = pc /\ cur' = cur
        BY <2>4, EndsSteps
      <3>2. /\ vz.stale \subseteq Models /\ vz.cut \subseteq Models /\ m \in vz.stale
            /\ tree[m] \in Versions /\ tree[m] # 0
        <4>1. vz.stale \subseteq Models /\ vz.cut \subseteq Models
          BY DEF TypeOK, Locals
        <4>2. tree[m] \in Versions
          BY <3>1, <4>1 DEF TypeOK
        <4>3. QED
          BY <3>0, <3>1, <4>1, <4>2, VersionsAreNumbers DEF TransformingOf
      <3>3. Fresh(m) # None /\ Fresh(m).ver = tree[m]
        BY FreshIsEntry
      <3>4. Asked(j)' = Asked(j) /\ Asked(j) \subseteq Models
        BY <3>1, AskedAreModels DEF Asked, Model
      <3>5. /\ vz'.cut \subseteq vz'.stale /\ vz'.crash \cap vz'.stale = {}
            /\ \A x \in vz'.stale : vz'.man[x] = manifest'[x]
        BY <3>0, <3>1, <3>2 DEF TransformingOf
      <3>5a. \A x \in vz'.cut :
                copy'[x] = 0 \/ (Kind[x][tree'[x]] = "transformed" /\ copy'[x] \in {tree'[x], Torn})
        BY <2>0, <3>0, <3>1 DEF TransformingOf
      <3>6. ASSUME NEW x \in Models, Firm(x)'
            PROVE  x \notin vz'.stale /\ vz'.man[x] # None /\ vz'.man[x].ver = tree'[x]
        <4>1. CASE x # m
          <5>1. Firm(x)
            BY <2>0, <3>1, <3>6, <4>1 DEF Firm, current
          <5>2. QED
            BY <2>0, <3>0, <3>1, <4>1, <5>1 DEF TransformingOf
        <4>2. CASE x = m
          <5>1. vz'.man[m] = Fresh(m)
            BY <3>1, <3>6, <4>2 DEF Firm
          <5>2. QED
            BY <2>0, <3>1, <3>3, <4>2, <5>1
        <4>3. QED
          BY <4>1, <4>2
      <3>7. ASSUME vz'.crash = {}, NEW x \in Asked(j)' \ vz'.stale
            PROVE  current(x, vz.man[x])'
        <4>1. vz'.man[m] = Fresh(m) /\ vz.crash = {} /\ x \in Models
              /\ (Kind[m][tree[m]] = "transformed" => copy[m] = tree[m])
          BY <3>1, <3>4, <3>7
        <4>2. CASE x = m
          BY <2>0, <3>1, <3>2, <3>3, <4>1, <4>2 DEF current
        <4>3. CASE x # m
          <5>1. current(x, vz.man[x])
            BY <3>0, <3>1, <3>4, <3>7, <4>1, <4>3 DEF TransformingOf
          <5>2. QED
            BY <2>0, <3>1, <4>1, <4>3, <5>1 DEF current
        <4>4. QED
          BY <4>2, <4>3
      <3>8. QED
        BY <3>5, <3>5a, <3>6, <3>7 DEF TransformingOf
    <2>5. CASE k = j /\ ~ Load(j) /\ ~ TransformBegins(j) /\ ~ Write(j) /\ ~ TransformEnds(j)
      <3>1. pc'[j] # "transforming"
        BY <1>1, <2>5 DEF Step, Lock, Save, Prepared, Gate, Skip, CheckBegins, CheckEnds, Record,
                          Decide, Build, CompareOne, SaveVerdicts, Goto, TypeOK
      <3>2. QED
        BY <1>1, <3>1
    <2>6. QED
      BY <2>1, <2>2, <2>3, <2>w, <2>4, <2>5
  <1>2. CASE Start
    <2>1. \A j \in Jobs : pc'[j] = "start"
      BY <1>2, WhoRuns DEF Start, thread
    <2>2. QED
      BY <1>b, <2>1
  <1>3. CASE Stop \/ Interrupt
    <2>1. \A j \in Jobs : pc'[j] = "start"
      BY <1>3 DEF Stop, Interrupt, Threads
    <2>2. QED
      BY <1>b, <2>1
  <1>4. CASE Edit
    <2>1. \A j \in Jobs : pc'[j] = "start"
      BY <1>4, WhoRuns DEF Edit, thread
    <2>2. QED
      BY <1>b, <2>1
  <1>5. CASE UNCHANGED vars
    <2>1. /\ tree' = tree /\ copy' = copy /\ manifest' = manifest
          /\ pc' = pc /\ cur' = cur /\ vz' = vz
      BY <1>5 DEF vars, disk, thread
    <2>2. \A j : Asked(j)' = Asked(j)
      BY <2>1 DEF Asked, Model
    <2>3. \A m : Firm(m)' = Firm(m)
      BY <2>1 DEF Firm, current
    <2>4. QED
      BY <2>1, <2>2, <2>3 DEF Transforming, current
  <1>6. QED
    BY <1>1, <1>b, <1>2, <1>3, <1>4, <1>5 DEF Next

(* Linked to entries that are all there and of the present versions.       *)
LEMMA LinkedNow ==
    ASSUME NEW man \in Manifests, NEW m \in Models,
           \A x \in Below(m) : man[x] # None /\ man[x].ver = tree[x]
    PROVE  LinkedTo(man, m) = DepsNow(m)
  <1> DEFINE W == {y \in Models : man[y] # None}
  <1>1. Below(m) \subseteq W /\ W \in SUBSET Models
    BY HierarchyIsBelow
  <1>2. Reached(Inst[m], W) = Below(m)
    BY <1>1, ReachedWithin
  <1>3. LinkedTo(man, m) = {<<x, man[x].ver>> : x \in Below(m)}
    BY <1>2 DEF LinkedTo
  <1>4. {<<x, man[x].ver>> : x \in Below(m)} = {<<x, tree[x]>> : x \in Below(m)}
    OBVIOUS
  <1>5. QED
    BY <1>3, <1>4 DEF DepsNow

(* Only the command's job compares all, and it is then the only one.       *)
LEMMA CommandAlone ==
    ASSUME Places, NEW j \in Jobs, pc[j] = "compare all", NEW k \in Jobs, Running(k)
    PROVE  k = j
  <1>1. Pair[j] = None /\ Running(j)
    BY WhoRuns
  <1>2. Pair[k] = None
    BY <1>1, ModelGateAssumption DEF Running
  <1>3. QED
    BY <1>1, <1>2, ModelGateAssumption

(* A comparison of the command changes one entry's verdict.                *)
LEMMA CompareSteps ==
    ASSUME TypeOK, AllCurrent, NEW j \in Jobs, CompareOne(j)
    PROVE  \E q \in Pairs : \E r \in check_model(q[1], vz.man[q[1]], copy) :
              LET v == [status |-> r, sims |-> sims, of |-> Compared(q[1], vz.man[q[1]], copy)]
              IN /\ q[1] \in Models /\ q[2] \in Keys
                 /\ vz.man[q[1]] \in Entry
                 /\ vz'.man[q[1]] = WithVerdict(vz.man[q[1]], q[2], v)
                 /\ vz'.man[q[1]] # None
                 /\ vz'.man[q[1]].ver = vz.man[q[1]].ver
                 /\ vz'.man[q[1]].deps = vz.man[q[1]].deps
                 /\ \A x \in Models \ {q[1]} : vz'.man[x] = vz.man[x]
  <1>1. PICK q \in todo[j] : \E r \in check_model(q[1], vz.man[q[1]], copy) :
           /\ vz' = [vz EXCEPT !.man[q[1]] =
                 WithVerdict(vz.man[q[1]], q[2], [status |-> r, sims |-> sims,
                      of |-> Compared(q[1], vz.man[q[1]], copy)])]
           /\ todo' = [todo EXCEPT ![j] = @ \ {q}]
    BY DEF CompareOne
  <1> DEFINE e == vz.man[q[1]]
             V(r) == [status |-> r, sims |-> sims, of |-> Compared(q[1], e, copy)]
  <1>2. PICK r \in check_model(q[1], e, copy) : vz' = [vz EXCEPT !.man[q[1]] = WithVerdict(e, q[2], V(r))]
    BY <1>1
  <1>3. q \in Pairs
    BY <1>1 DEF TypeOK
  <1>4. q[1] \in Models /\ q[2] \in Keys
    BY <1>3, PairParts
  <1>5. vz.man \in Manifests /\ vz \in Locals
    BY DEF TypeOK, Locals
  <1>6. e \in Entry
    <2>1. e # None
      BY <1>4 DEF CompareOne, AllCurrent, current
    <2>2. QED
      BY <1>4, <1>5, <2>1 DEF Manifests
  <1> DEFINE new == WithVerdict(e, q[2], V(r))
  <1>7. new # None /\ new.ver = e.ver /\ new.deps = e.deps
    BY RecordIsNotNone DEF WithVerdict
  <1>8. vz' = [vz EXCEPT !.man[q[1]] = new]
    BY <1>2
  <1>9. vz'.man[q[1]] = new /\ \A x \in Models \ {q[1]} : vz'.man[x] = vz.man[x]
    <2> HIDE DEF new
    <2>1. vz'.man = [vz.man EXCEPT ![q[1]] = new]
      BY <1>5, <1>8 DEF Locals
    <2>2. QED
      BY <1>4, <1>5, <2>1 DEF Manifests
  <1>10. /\ vz'.man[q[1]] # None /\ vz'.man[q[1]].ver = e.ver /\ vz'.man[q[1]].deps = e.deps
    <2> HIDE DEF new
    <2>1. QED
      BY <1>7, <1>9
  <1>11. QED
    BY <1>2, <1>3, <1>4, <1>6, <1>9, <1>10

(* What Save links is linked to the present versions.                      *)
LEMMA SaveLinks ==
    ASSUME TypeOK, Places, Hands, Transforming, NEW j \in Jobs, Save(j), vz.crash = {}, NEW m \in Models,
           hierarchy({m}) \subseteq Asked(j)
    PROVE  /\ Link(vz.man)[m] # None
           /\ Link(vz.man)[m].ver = tree[m] /\ Link(vz.man)[m].deps = DepsNow(m)
           /\ \A x \in hierarchy({m}) : current(x, Link(vz.man)[x])
  <1>1. vz.stale = {} /\ \A x \in Asked(j) : current(x, vz.man[x])
    BY DEF Save, Transforming
  <1>2. hierarchy({m}) \subseteq Models /\ hierarchy({m}) = {m} \cup Below(m)
    BY HierarchyIsBelow
  <1>3. vz.man \in Manifests
    BY DEF TypeOK, Locals
  <1>4. \A x \in hierarchy({m}) : Link(vz.man)[x] # None /\ Link(vz.man)[x].ver = vz.man[x].ver
    BY <1>1, <1>2, <1>3, LinkSteps DEF current
  <1>5. \A x \in hierarchy({m}) : current(x, Link(vz.man)[x])
    BY <1>1, <1>4 DEF current
  <1>6. LinkedTo(vz.man, m) = DepsNow(m)
    BY <1>1, <1>2, <1>3, LinkedNow DEF current
  <1>7. QED
    BY <1>1, <1>2, <1>3, <1>4, <1>5, <1>6, LinkSteps DEF current

LEMMA AllCurrentStep ==
    TypeOK /\ Places /\ Hands /\ Transforming /\ AllCurrent /\ [Next]_vars => AllCurrent'
  <1> SUFFICES ASSUME TypeOK, Places, Hands, Transforming, AllCurrent, [Next]_vars PROVE AllCurrent'
    OBVIOUS
  <1>1. ASSUME NEW k \in Jobs, Step(k), NEW j \in Jobs, pc'[j] = "compare all", NEW m \in Models
        PROVE  current(m, vz.man[m])' /\ vz'.man[m].deps = DepsNow(m)'
    <2>0. tree' = tree /\ DepsNow(m)' = DepsNow(m)
      BY <1>1, JobFrame DEF DepsNow
    <2>1. k = j
      BY <1>1, CommandAlone, JobFrame
    <2>2. CASE Save(j)
      <3>1. Pair[j] = None /\ vz.crash = {} /\ copy' = copy
        BY <1>1, <2>2 DEF Save, Goto, TypeOK
      <3>2. vz' = [Idle EXCEPT !.man = Link(vz.man)]
        BY <2>2, <3>1 DEF Save
      <3>3. vz'.man = Link(vz.man)
        BY <3>2 DEF Idle
      <3>4. hierarchy({m}) \subseteq Asked(j) /\ m \in hierarchy({m})
        BY <3>1, HierarchyIsClosed DEF Asked
      <3>5. /\ Link(vz.man)[m] # None
            /\ Link(vz.man)[m].ver = tree[m] /\ Link(vz.man)[m].deps = DepsNow(m)
            /\ \A x \in hierarchy({m}) : current(x, Link(vz.man)[x])
        BY <2>2, <3>1, <3>4, SaveLinks
      <3>6. QED
        BY <2>0, <3>1, <3>3, <3>4, <3>5 DEF current
    <2>3. CASE CompareOne(j)
      <3>1. pc[j] = "compare all" /\ copy' = copy
        BY <2>3 DEF CompareOne, disk
      <3>2. current(m, vz.man[m]) /\ vz.man[m].deps = DepsNow(m)
        BY <3>1 DEF AllCurrent
      <3>3. vz'.man[m] # None /\ vz'.man[m].ver = vz.man[m].ver /\ vz'.man[m].deps = vz.man[m].deps
        BY <2>3, <3>2, CompareSteps DEF current
      <3>4. QED
        BY <2>0, <3>1, <3>2, <3>3 DEF current
    <2>4. CASE ~ Save(j) /\ ~ CompareOne(j)
      <3>1. pc'[j] # "compare all"
        BY <1>1, <2>1, <2>4 DEF Step, Lock, Load, TransformBegins, Write, TransformEnds, Prepared, Gate,
           Skip, CheckBegins, CheckEnds, Record, Decide, Build, SaveVerdicts, Goto, TypeOK
      <3>2. QED
        BY <1>1, <3>1
    <2>5. QED
      BY <2>2, <2>3, <2>4
  <1>2. CASE Start \/ Edit
    <2>1. \A j \in Jobs : pc'[j] = "start"
      BY <1>2, WhoRuns DEF Start, Edit, thread
    <2>2. QED
      BY <2>1 DEF AllCurrent
  <1>3. CASE Stop \/ Interrupt
    <2>1. \A j \in Jobs : pc'[j] = "start"
      BY <1>3 DEF Stop, Interrupt, Threads
    <2>2. QED
      BY <2>1 DEF AllCurrent
  <1>4. CASE UNCHANGED vars
    <2>1. pc' = pc /\ vz' = vz /\ copy' = copy /\ tree' = tree
      BY <1>4 DEF vars, disk, thread
    <2>2. ASSUME NEW m \in Models
          PROVE  /\ current(m, vz.man[m])' = current(m, vz.man[m])
                 /\ DepsNow(m)' = DepsNow(m)
      BY <2>1 DEF current, DepsNow
    <2>3. QED
      BY <2>1, <2>2 DEF AllCurrent
  <1>5. QED
    <2>1. ASSUME NEW k \in Jobs, Step(k) PROVE AllCurrent'
      BY <1>1, <2>1 DEF AllCurrent
    <2>2. QED
      BY <2>1, <1>2, <1>3, <1>4 DEF Next

(* What xut run found current stays so until the process ends.             *)
LEMMA FirmStays ==
    ASSUME TypeOK, Places, OneWriter, Transforming, NEW j \in Jobs, Step(j), up = "run",
           NEW x \in Models, Firm(x)
    PROVE  Firm(x)'
  <1>0. tree' = tree /\ Running(j) /\ Pair[j] # None /\ current(x, manifest[x])
    BY JobFrame DEF Running, Firm
  <1>1. CASE TransformBegins(j)
    <2>1. PICK m \in Models :
            /\ m \in vz.stale
            /\ \A y \in Models \ {m} : copy'[y] = copy[y]
            /\ vz'.crash = vz.crash /\ vz'.cut = vz.cut \cup {m}
            /\ manifest' = manifest
      BY <1>1, BeginsSteps
    <2>2. x \notin vz.stale
      BY <1>1 DEF TransformBegins, Transforming
    <2>3. QED
      BY <1>0, <2>1, <2>2 DEF Firm, current
  <1>w. CASE Write(j)
    <2>1. PICK m \in Models :
            /\ m \in vz.cut
            /\ \A y \in Models \ {m} : copy'[y] = copy[y]
            /\ vz' = vz /\ manifest' = manifest
      BY <1>w, WriteSteps
    <2>2. QED
      BY <1>0, <2>1 DEF Firm, current
  <1>2. CASE TransformEnds(j)
    <2>1. PICK m \in Models :
            /\ m \in vz.cut /\ vz'.cut = vz.cut \ {m}
            /\ vz'.crash = vz.crash \/ vz'.crash = vz.crash \cup {m}
            /\ copy' = copy /\ manifest' = manifest
      BY <1>2, EndsSteps
    <2>2. QED
      BY <1>0, <2>1 DEF Firm, current
  <1>3. CASE Save(j)
    <2>1. vz.man[x] # None /\ vz.man[x].ver = tree[x]
      BY <1>3 DEF Save, Transforming
    <2>2. vz.man \in Manifests
      BY DEF TypeOK, Locals
    <2>3. Link(vz.man)[x] # None /\ Link(vz.man)[x].ver = tree[x]
      BY <2>1, <2>2, LinkSteps
    <2>4. /\ manifest' = Link(vz.man) /\ copy' = copy
          /\ vz' = Idle \/ vz' = [Idle EXCEPT !.man = Link(vz.man)]
      BY <1>3 DEF Save
    <2>5. vz'.cut = {} /\ vz'.crash = {}
      BY <2>4 DEF Idle
    <2>6. QED
      BY <1>0, <2>3, <2>4, <2>5 DEF Firm, current
  <1>4. CASE Record(j)
    <2>1. copy' = copy /\ vz' = vz
      BY <1>4 DEF Record
    <2>2. manifest'[x] # None /\ manifest'[x].ver = manifest[x].ver
      <3>1. CASE manifest' = manifest
        BY <1>0, <3>1 DEF current
      <3>2. CASE manifest' # manifest
        <4> DEFINE new == WithVerdict(manifest[Model(j)], Key(j), entries[Model(j)].equiv[Key(j)])
        <4>1. manifest' = [manifest EXCEPT ![Model(j)] = new]
          BY <1>4, <3>2 DEF Record
        <4>2. new # None /\ new.ver = manifest[Model(j)].ver
          BY RecordIsNotNone DEF WithVerdict
        <4> HIDE DEF new
        <4>3. QED
          BY <1>0, <4>1, <4>2 DEF TypeOK, Manifests, current
      <3>3. QED
        BY <3>1, <3>2
    <2>3. QED
      BY <1>0, <2>1, <2>2 DEF Firm, current
  <1>l. CASE Load(j)
    <2>1. copy' = copy /\ manifest' = manifest /\ vz'.cut = {} /\ vz'.crash = {}
      BY <1>l DEF Load, Idle, disk
    <2>2. QED
      BY <1>0, <2>1 DEF Firm, current
  <1>5. CASE ~ (TransformBegins(j) \/ Write(j) \/ TransformEnds(j) \/ Save(j) \/ Record(j) \/ Load(j))
    <2>1. copy' = copy /\ manifest' = manifest /\ vz' = vz
      BY <1>0, <1>5 DEF Step, Lock, Prepared, Gate, Skip, CheckBegins, CheckEnds, Decide,
                        Build, CompareOne, SaveVerdicts, Places, disk
    <2>2. QED
      BY <1>0, <2>1 DEF Firm, current
  <1>6. QED
    BY <1>1, <1>w, <1>2, <1>3, <1>4, <1>l, <1>5

LEMMA EntriesCurrentStep ==
    /\ TypeOK /\ Places /\ Hands /\ OneWriter /\ Transforming /\ EntriesCurrent /\ [Next]_vars
    => EntriesCurrent'
  <1> SUFFICES ASSUME TypeOK, Places, Hands, OneWriter, Transforming, EntriesCurrent, [Next]_vars
               PROVE  EntriesCurrent'
    OBVIOUS
  <1>1. ASSUME NEW j \in Jobs, Step(j), NEW m \in Models, entries'[m] # None
        PROVE  /\ \A x \in hierarchy({m}) : Firm(x)'
               /\ entries'[m].ver = tree'[m] /\ entries'[m].deps = DepsNow(m)'
    <2>0. tree' = tree /\ DepsNow(m)' = DepsNow(m) /\ hierarchy({m}) \subseteq Models
      BY <1>1, JobFrame, HierarchyIsBelow DEF DepsNow
    <2>1. CASE entries[m] # None
      <3>1. up = "run"
        BY <2>1 DEF Places, Nothing
      <3>2. /\ \A x \in hierarchy({m}) : Firm(x)
            /\ entries[m].ver = tree[m] /\ entries[m].deps = DepsNow(m)
        BY <2>1 DEF EntriesCurrent
      <3>3. \A x \in hierarchy({m}) : Firm(x)'
        BY <1>1, <2>0, <3>1, <3>2, FirmStays
      <3>4. QED
        BY <1>1, <2>0, <2>1, <3>2, <3>3, EntriesStay
    <2>2. CASE entries[m] = None
      <3>1. Save(j) /\ pc'[j] = "locked" /\ m = Model(j)
        BY <1>1, <2>2, EntriesStay
      <3>2. /\ Pair[j] # None /\ vz.crash = {}
            /\ entries'[m] = Link(vz.man)[m]
        BY <1>1, <2>2, <3>1, SaveAdds
      <3>3. hierarchy({m}) \subseteq Asked(j)
        BY <3>1, <3>2 DEF Asked
      <3>4. /\ Link(vz.man)[m].ver = tree[m] /\ Link(vz.man)[m].deps = DepsNow(m)
            /\ \A x \in hierarchy({m}) : current(x, Link(vz.man)[x])
        BY <3>1, <3>2, <3>3, SaveLinks
      <3>5. manifest' = Link(vz.man) /\ copy' = copy /\ vz' = Idle
        BY <3>1, <3>2 DEF Save
      <3>6. vz'.cut = {} /\ vz'.crash = {}
        BY <3>5 DEF Idle
      <3>7. QED
        BY <2>0, <3>2, <3>4, <3>5, <3>6 DEF Firm, current
    <2>3. QED
      BY <2>1, <2>2
  <1>2. CASE Start \/ Stop
    BY <1>2 DEF Start, Stop, EntriesCurrent, Nothing
  <1>3. CASE Interrupt
    <2>1. entries = Nothing /\ entries' = entries
      BY <1>3 DEF Interrupt, Places
    <2>2. QED
      BY <2>1 DEF EntriesCurrent, Nothing
  <1>4. CASE Edit
    <2>1. entries = Nothing /\ entries' = entries
      BY <1>4 DEF Edit, Places, process
    <2>2. QED
      BY <2>1 DEF EntriesCurrent, Nothing
  <1>5. CASE UNCHANGED vars
    <2>1. entries' = entries /\ manifest' = manifest /\ copy' = copy /\ tree' = tree /\ vz' = vz
      BY <1>5 DEF vars, disk, process, thread
    <2>2. ASSUME NEW m \in Models
          PROVE  /\ Firm(m)' = Firm(m)
                 /\ DepsNow(m)' = DepsNow(m) /\ hierarchy({m}) \subseteq Models
      BY <2>1, HierarchyIsBelow DEF Firm, current, DepsNow
    <2>3. QED
      BY <2>1, <2>2 DEF EntriesCurrent
  <1>6. QED
    <2>1. ASSUME NEW j \in Jobs, Step(j) PROVE EntriesCurrent'
      BY <1>1, <2>1 DEF EntriesCurrent
    <2>2. QED
      BY <2>1, <1>2, <1>3, <1>4, <1>5 DEF Next

(* What holds whatever was edited.                                         *)
LEMMA BaseInit == Beginning => Base
  <1> SUFFICES ASSUME Beginning PROVE Base
    OBVIOUS
  <1>1. TypeOK
    BY TypeOKInit
  <1>2. Places /\ Hands /\ OneWriter /\ Transforming /\ AllCurrent /\ EntriesCurrent
    BY DEF Beginning, Unstarted, Places, Hands, OneWriter, Transforming, AllCurrent,
           EntriesCurrent, Nothing, HoldsModel
  <1>3. QED
    BY <1>1, <1>2 DEF Base

LEMMA BaseStep == Base /\ [Next]_vars => Base'
  BY TypeOKStep, PlacesStep, HandsStep, OneWriterStep, TransformingStep, AllCurrentStep,
     EntriesCurrentStep DEF Base

-----------------------------------------------------------------------------
(* With versions that never come back: a copy that is there for a current  *)
(* entry is the copy of the present version.                               *)
LEMMA CurrentIsCorrect ==
    ASSUME TypeOK, NEW T, Disk(T), NEW m \in Models, NEW e, e \in {manifest[m], vz.man[m]}, current(m, e)
    PROVE  Right(T, m, copy[m]) /\ e.ver = tree[m]
  <1>1. /\ copy[m] \in Nat /\ tree[m] \in Nat /\ tree[m] # 0 /\ Torn \in Nat
    BY CopiesAreNumbers, TreeIsNumbers, VersionsAreNumbers DEF TypeOK
  <1>2. /\ copy[m] = Torn \/ copy[m] <= tree[m]
        /\ copy[m] \notin {0, Torn} => Kind[m][copy[m]] = "transformed"
        /\ copy[m] \in {0, Torn} \/ e.ver <= copy[m]
        /\ copy[m] = Torn /\ e.ver = tree[m] => Kind[m][tree[m]] = "transformed"
        /\ m \notin T /\ Kind[m][tree[m]] = "transformed" /\ e.ver = tree[m] => copy[m] = tree[m]
    BY DEF Disk, NotBefore, Whole, current
  <1>3. e.ver = tree[m] /\ (Kind[m][e.ver] = "transformed" => copy[m] # 0)
    BY DEF current
  <1>4. CASE copy[m] = Torn
    <2>1. Kind[m][tree[m]] = "transformed"
      BY <1>2, <1>3, <1>4
    <2>2. QED
      BY <1>2, <1>3, <1>4, <2>1 DEF Right, Correct
  <1>5. CASE copy[m] # Torn
    <2>1. copy[m] # 0 => copy[m] = tree[m]
      BY <1>1, <1>2, <1>3, <1>5
    <2>2. QED
      BY <1>1, <1>2, <1>3, <1>5, <2>1 DEF Right, Correct
  <1>6. QED
    BY <1>3, <1>4, <1>5

(* Which entries a job may leave in the manifest and in its locals.        *)
LEMMA EntryVersions ==
    ASSUME Base, NEW j \in Jobs, Step(j), NEW m \in Models
    PROVE  /\ \/ manifest'[m] = None
              \/ manifest[m] # None /\ manifest'[m].ver = manifest[m].ver
              \/ vz.man[m] # None /\ manifest'[m].ver = vz.man[m].ver
           /\ \/ vz'.man[m] = None
              \/ manifest[m] # None /\ vz'.man[m].ver = manifest[m].ver
              \/ vz.man[m] # None /\ vz'.man[m].ver = vz.man[m].ver
              \/ TransformEnds(j) /\ m \in vz.cut /\ vz'.man[m] = Fresh(m)
  <1> USE DEF Base
  <1>a. vz.man \in Manifests /\ Idle.man[m] = None
    BY DEF TypeOK, Locals, Idle, Nothing
  <1>1. CASE Load(j)
    BY <1>1 DEF Load, Idle, disk
  <1>2. CASE TransformBegins(j)
    BY <1>2, BeginsSteps
  <1>3. CASE TransformEnds(j)
    BY <1>3, EndsSteps
  <1>w. CASE Write(j)
    BY <1>w, WriteSteps
  <1>4. CASE Save(j)
    <2>1. manifest' = Link(vz.man)
      BY <1>4 DEF Save
    <2>2. vz' = Idle \/ vz' = [Idle EXCEPT !.man = Link(vz.man)]
      BY <1>4 DEF Save
    <2>3. vz'.man[m] = None \/ vz'.man = Link(vz.man)
      BY <1>a, <2>2 DEF Idle
    <2>4. Link(vz.man)[m] = None \/ (vz.man[m] # None /\ Link(vz.man)[m].ver = vz.man[m].ver)
      BY <1>a, LinkSteps
    <2>5. QED
      BY <2>1, <2>3, <2>4
  <1>5. CASE Record(j)
    <2>1. vz' = vz
      BY <1>5 DEF Record
    <2>2. CASE manifest' = manifest
      BY <2>1, <2>2
    <2>3. CASE manifest' # manifest
      <3> DEFINE new == WithVerdict(manifest[Model(j)], Key(j), entries[Model(j)].equiv[Key(j)])
      <3>1. manifest[Model(j)] # None /\ manifest' = [manifest EXCEPT ![Model(j)] = new]
        BY <1>5, <2>3 DEF Record
      <3>2. new.ver = manifest[Model(j)].ver
        BY DEF WithVerdict
      <3> HIDE DEF new
      <3>3. QED
        BY <2>1, <3>1, <3>2 DEF TypeOK, Manifests
    <2>4. QED
      BY <2>2, <2>3
  <1>6. CASE CompareOne(j)
    <2>1. manifest' = manifest
      BY <1>6 DEF CompareOne, disk
    <2>2. PICK q \in Pairs :
             /\ vz.man[q[1]] \in Entry /\ vz'.man[q[1]].ver = vz.man[q[1]].ver
             /\ \A x \in Models \ {q[1]} : vz'.man[x] = vz.man[x]
      BY <1>6, CompareSteps
    <2>3. vz.man[m] # None
      BY <1>6 DEF CompareOne, AllCurrent, current
    <2>4. QED
      BY <2>1, <2>2, <2>3
  <1>7. CASE SaveVerdicts(j)
    BY <1>7, <1>a DEF SaveVerdicts
  <1>8. CASE Lock(j) \/ Prepared(j) \/ Gate(j) \/ Skip(j) \/ CheckBegins(j) \/ CheckEnds(j)
             \/ Decide(j) \/ Build(j)
    <2>1. vz' = vz /\ manifest' = manifest
      BY <1>8 DEF Lock, Prepared, Gate, Skip, CheckBegins, CheckEnds, Decide, Build, disk
    <2>2. QED
      BY <2>1
  <1>9. QED
    BY <1>1, <1>2, <1>3, <1>w, <1>4, <1>5, <1>6, <1>7, <1>8 DEF Step

(* What a job may do to a copy.                                            *)
LEMMA CopySteps ==
    ASSUME TypeOK, NEW j \in Jobs, Step(j), NEW m \in Models
    PROVE  \/ copy'[m] = copy[m]
           \/ /\ pc[j] = "transforming" /\ manifest' = manifest /\ vz'.man = vz.man
              /\ \/ copy'[m] = 0 /\ m \in vz.stale \ vz.cut
                 \/ /\ m \in vz.cut /\ Kind[m][tree[m]] = "transformed" /\ copy[m] # tree[m]
                    /\ copy'[m] = IF copy[m] = Torn THEN tree[m] ELSE Torn
  <1>1. CASE TransformBegins(j)
    BY <1>1, BeginsSteps DEF TransformBegins
  <1>2. CASE Write(j)
    BY <1>2, WriteSteps DEF Write
  <1>3. CASE ~ TransformBegins(j) /\ ~ Write(j)
    BY <1>3 DEF Step, Lock, Load, TransformEnds, Save, Prepared, Gate, Skip, CheckBegins, CheckEnds,
                Record, Decide, Build, CompareOne, SaveVerdicts, disk
  <1>4. QED
    BY <1>1, <1>2, <1>3

(* A copy beside an entry of the model's version.                          *)
Beside(T, m, c, e) ==
    e # None =>
        /\ e.ver <= tree[m]
        /\ c \in {0, Torn} \/ e.ver <= c
        /\ c = Torn /\ e.ver = tree[m] => Kind[m][tree[m]] = "transformed"
        /\ m \notin T /\ e.ver = tree[m] /\ Kind[m][tree[m]] = "transformed" => c = tree[m]

LEMMA DiskAsBeside ==
    ASSUME NEW T
    PROVE  Disk(T) <=>
             \A m \in Models :
                /\ copy[m] = Torn \/ copy[m] <= tree[m]
                /\ copy[m] \notin {0, Torn} => Kind[m][copy[m]] = "transformed"
                /\ Beside(T, m, copy[m], manifest[m]) /\ Beside(T, m, copy[m], vz.man[m])
  BY DEF Disk, Beside, NotBefore, Whole

LEMMA DiskJobStep ==
    ASSUME NEW T, Base, Disk(T), NEW j \in Jobs, Step(j), NEW m \in Models
    PROVE  /\ copy'[m] = Torn \/ copy'[m] <= tree[m]
           /\ copy'[m] \notin {0, Torn} => Kind[m][copy'[m]] = "transformed"
           /\ Beside(T, m, copy'[m], manifest'[m]) /\ Beside(T, m, copy'[m], vz'.man[m])
  <1>a. /\ copy[m] \in Nat /\ tree[m] \in Nat /\ tree[m] # 0 /\ Torn \in Nat /\ tree[m] < Torn
    <2>1. tree[m] \in Versions /\ copy \in Copies
      BY DEF Base, TypeOK
    <2>2. QED
      BY <2>1, CopiesAreNumbers, VersionsAreNumbers
  <1>b. /\ copy[m] = Torn \/ copy[m] <= tree[m]
        /\ copy[m] \notin {0, Torn} => Kind[m][copy[m]] = "transformed"
        /\ Beside(T, m, copy[m], manifest[m]) /\ Beside(T, m, copy[m], vz.man[m])
    BY DiskAsBeside
  <1>1. /\ Beside(T, m, copy'[m], manifest[m]) /\ Beside(T, m, copy'[m], vz.man[m])
        /\ copy'[m] = Torn \/ copy'[m] <= tree[m]
        /\ copy'[m] \notin {0, Torn} => Kind[m][copy'[m]] = "transformed"
    <2>1. CASE copy'[m] = copy[m]
      BY <1>b, <2>1
    <2>2. CASE pc[j] = "transforming" /\ copy'[m] = 0 /\ m \in vz.stale \ vz.cut
      <3>1. /\ m \notin vz.crash /\ vz.man[m] = manifest[m]
            /\ Firm(m) => m \notin vz.stale
        BY <2>2 DEF Base, Transforming
      <3>2. ~ current(m, manifest[m])
        BY <2>2, <3>1 DEF Firm
      <3>3. ASSUME manifest[m] # None, m \notin T, manifest[m].ver = tree[m], Kind[m][tree[m]] = "transformed"
            PROVE  FALSE
        <4>1. copy[m] = tree[m]
          BY <1>b, <3>3 DEF Beside
        <4>2. QED
          BY <1>a, <3>2, <3>3, <4>1 DEF current
      <3>4. Beside(T, m, 0, manifest[m])
        BY <1>a, <1>b, <3>3 DEF Beside
      <3>5. QED
        BY <1>a, <2>2, <3>1, <3>4
    <2>3. CASE /\ pc[j] = "transforming"
               /\ m \in vz.cut /\ Kind[m][tree[m]] = "transformed" /\ copy[m] # tree[m]
               /\ copy'[m] = IF copy[m] = Torn THEN tree[m] ELSE Torn
      <3>1. copy'[m] = tree[m] \/ copy'[m] = Torn
        BY <2>3
      <3>2. \A e \in {manifest[m], vz.man[m]} : Beside(T, m, copy'[m], e)
        BY <1>a, <1>b, <2>3, <3>1 DEF Beside
      <3>3. QED
        BY <1>a, <2>3, <3>1, <3>2
    <2>4. QED
      BY <2>1, <2>2, <2>3, CopySteps DEF Base
  <1>2. Beside(T, m, copy'[m], manifest'[m])
    BY <1>1, EntryVersions DEF Beside
  <1>3. CASE TransformEnds(j) /\ m \in vz.cut /\ vz'.man[m] = Fresh(m)
    <2>1. Fresh(m).ver = tree[m] /\ Fresh(m) # None
      BY FreshIsEntry DEF Base
    <2>2. pc[j] = "transforming" /\ copy' = copy
      BY <1>3 DEF TransformEnds
    <2>3. copy[m] = 0 \/ (Kind[m][tree[m]] = "transformed" /\ copy[m] \in {tree[m], Torn})
      BY <1>3, <2>2 DEF Base, Transforming
    <2>4. m \notin T /\ Kind[m][tree[m]] = "transformed" => copy[m] = tree[m]
      <3>1. PICK x \in Models :
              /\ x \in vz.cut
              /\ vz'.cut = vz.cut \ {x}
              /\ \A y \in Models \ {x} : vz'.man[y] = vz.man[y]
              /\ \/ /\ vz'.man[x] = Fresh(x)
                    /\ Kind[x][tree[x]] = "transformed" => copy[x] = tree[x]
                 \/ vz'.man[x] = None
        BY <1>3, EndsSteps DEF Base
      <3>2. CASE x = m
        BY <1>3, <2>1, <3>1, <3>2
      <3>3. CASE x # m
        <4>1. vz.man[m] = Fresh(m)
          BY <1>3, <3>1, <3>3
        <4>2. QED
          BY <1>b, <2>1, <4>1 DEF Beside
      <3>4. QED
        BY <3>2, <3>3
    <2>5. Beside(T, m, copy[m], Fresh(m))
      BY <1>a, <2>1, <2>3, <2>4 DEF Beside
    <2>6. QED
      BY <1>1, <1>2, <1>3, <2>2, <2>5
  <1>4. CASE ~ (TransformEnds(j) /\ m \in vz.cut /\ vz'.man[m] = Fresh(m))
    <2>1. Beside(T, m, copy'[m], vz'.man[m])
      BY <1>1, <1>4, EntryVersions DEF Beside
    <2>2. QED
      BY <1>1, <1>2, <2>1
  <1>5. QED
    BY <1>3, <1>4

(* Only edits can take from what the disk holds: those that bring an old   *)
(* version back, and those that remove a copy of a model not in T.         *)
LEMMA DiskStep ==
    ASSUME NEW T, Edit => ~ Reverts /\ Removals \subseteq T, Base, Disk(T), [Next]_vars
    PROVE  Disk(T)'
  <1>a. \A m \in Models : copy[m] \in Nat /\ tree[m] \in Versions /\ tree[m] \in Nat /\ tree[m] # 0
    BY CopiesAreNumbers, TreeIsNumbers DEF Base, TypeOK
  <1>b. \A m \in Models :
            /\ copy[m] = Torn \/ copy[m] <= tree[m]
            /\ copy[m] \notin {0, Torn} => Kind[m][copy[m]] = "transformed"
            /\ Beside(T, m, copy[m], manifest[m]) /\ Beside(T, m, copy[m], vz.man[m])
    BY DiskAsBeside
  <1>c. \A m \in Models : \A e \in {manifest[m], vz.man[m]} : e # None => e.ver \in Nat
    <2>1. ASSUME NEW man \in Manifests, NEW m \in Models, man[m] # None PROVE man[m].ver \in Nat
      <3>1. man[m].ver \in Versions
        BY <2>1 DEF Manifests, Entry
      <3>2. QED
        BY <3>1, VersionsAreNumbers
    <2>2. manifest \in Manifests /\ vz.man \in Manifests
      BY DEF Base, TypeOK, Locals
    <2>3. QED
      BY <2>1, <2>2
  <1>1. CASE tree' = tree
    <2>1. SUFFICES ASSUME NEW m \in Models
                   PROVE  /\ copy'[m] = Torn \/ copy'[m] <= tree[m]
                          /\ copy'[m] \notin {0, Torn} => Kind[m][copy'[m]] = "transformed"
                          /\ Beside(T, m, copy'[m], manifest'[m]) /\ Beside(T, m, copy'[m], vz'.man[m])
      BY <1>1 DEF Disk, Beside, NotBefore, Whole
    <2>2. CASE \E j \in Jobs : Step(j)
      BY <2>2, DiskJobStep
    <2>3. CASE Start \/ UNCHANGED vars
      <3>1. copy' = copy /\ manifest' = manifest /\ vz' = vz
        BY <2>3 DEF Start, vars, disk, thread
      <3>2. QED
        BY <1>b, <3>1
    <2>4. CASE Stop \/ Interrupt
      <3>0. copy' = copy /\ vz' = Idle /\ (manifest' = manifest \/ manifest' = vz.man)
        BY <2>4 DEF Stop, Interrupt, Threads, disk
      <3>1. copy' = copy /\ vz'.man[m] = None /\ (manifest' = manifest \/ manifest' = vz.man)
        BY <3>0 DEF Idle, Nothing
      <3>2. Beside(T, m, copy'[m], vz'.man[m])
        BY <3>1 DEF Beside
      <3>3. QED
        BY <1>b, <3>1, <3>2
    <2>5. CASE Edit
      <3>1. manifest' = manifest /\ vz' = vz
        BY <2>5 DEF Edit, thread
      <3>2. copy'[m] = copy[m] \/ (copy'[m] = 0 /\ m \in T)
        <4>1. copy' = copy \/ \E x \in Removals : copy' = [copy EXCEPT ![x] = 0]
          BY <2>5 DEF Edit
        <4>2. QED
          BY <2>5, <4>1 DEF Base, TypeOK, Copies
      <3>3. CASE copy'[m] = copy[m]
        BY <1>b, <3>1, <3>3
      <3>4. CASE copy'[m] = 0 /\ m \in T
        BY <1>a, <1>b, <3>1, <3>4, VersionsAreNumbers DEF Beside
      <3>5. QED
        BY <3>2, <3>3, <3>4
    <2>6. QED
      BY <2>2, <2>3, <2>4, <2>5 DEF Next
  <1>2. CASE tree' # tree
    <2>1. Edit
      <3>1. \A j \in Jobs : ~ Step(j)
        BY <1>2, JobFrame DEF Base
      <3>2. QED
        BY <1>2, <3>1 DEF Next, Start, Stop, Interrupt, vars
    <2>2. PICK x \in Models, v \in Versions :
              v > tree[x] /\ tree' = [tree EXCEPT ![x] = v] /\ copy' = copy
      BY <1>2, <2>1 DEF Edit
    <2>3. manifest' = manifest /\ vz' = vz
      BY <2>1 DEF Edit, thread
    <2>4. ASSUME NEW m \in Models
          PROVE  /\ copy[m] = Torn \/ copy[m] <= tree'[m]
                 /\ copy[m] \notin {0, Torn} => Kind[m][copy[m]] = "transformed"
                 /\ \A e \in {manifest[m], vz.man[m]} :
                      e # None =>
                        /\ e.ver <= tree'[m]
                        /\ copy[m] \in {0, Torn} \/ e.ver <= copy[m]
                        /\ copy[m] = Torn /\ e.ver = tree'[m] => Kind[m][tree'[m]] = "transformed"
                        /\ m \notin T /\ e.ver = tree'[m] /\ Kind[m][tree'[m]] = "transformed"
                              => copy[m] = tree'[m]
      <3>1. tree'[m] = IF m = x THEN v ELSE tree[m]
        BY <2>2 DEF Base, TypeOK
      <3>2. v \in Nat /\ tree[x] < v /\ tree[x] \in Nat
        BY <1>a, <2>2, VersionsAreNumbers
      <3>3. CASE m # x
        BY <1>b, <3>1, <3>3 DEF Beside
      <3>4. CASE m = x
        <4>1. \A e \in {manifest[m], vz.man[m]} : e # None => e.ver \in Nat /\ e.ver <= tree[m] /\ e.ver < v
          BY <1>b, <1>c, <3>2, <3>4 DEF Beside
        <4>2. QED
          BY <1>a, <1>b, <3>1, <3>2, <3>4, <4>1 DEF Beside
      <3>5. QED
        BY <3>3, <3>4
    <2>5. QED
      BY <2>2, <2>3, <2>4 DEF Disk, NotBefore, Whole
  <1>3. QED
    BY <1>1, <1>2

(* What a check compiles are the copies of the present versions.           *)
LEMMA EnteredIsCorrect ==
    ASSUME NEW T, Base, Disk(T), NEW m \in Models, entries[m] # None, NEW x \in hierarchy({m})
    PROVE  Right(T, x, copy[x])
  <1>1. current(x, manifest[x]) /\ x \in Models
    BY HierarchyIsBelow DEF Base, EntriesCurrent, Firm
  <1>2. QED
    BY <1>1, CurrentIsCorrect DEF Base

LEMMA SeenIsCorrectStep ==
    ASSUME NEW T, Base, Disk(T), SeenIsCorrect(T), [Next]_vars
    PROVE  SeenIsCorrect(T)'
  <1>1. ASSUME NEW k \in Jobs, Step(k), NEW j \in Jobs, pc'[j] = "comparing",
               NEW x \in hierarchy({Model(j)})'
        PROVE  Right(T, x, seen[j][x])'
    <2>0. Right(T, x, seen[j][x])' <=> Right(T, x, seen'[j][x])
      <3>1. tree' = tree
        BY <1>1, JobFrame DEF Base
      <3>2. QED
        BY <3>1 DEF Right, Correct
    <2>1. CASE k # j
      <3>1. pc[j] = "comparing" /\ cur'[j] = cur[j] /\ seen'[j] = seen[j]
        BY <1>1, <2>1, JobFrame DEF Base
      <3>2. x \in hierarchy({Model(j)})
        BY <1>1, <3>1 DEF Model
      <3>3. QED
        BY <2>0, <3>1, <3>2 DEF SeenIsCorrect
    <2>2. CASE CheckBegins(j)
      <3>1. /\ pc[j] = "locked" /\ entries[Model(j)] # None
            /\ seen' = [seen EXCEPT ![j] = copy] /\ cur' = cur
        BY <2>2 DEF CheckBegins
      <3>2. seen'[j] = copy /\ x \in hierarchy({Model(j)})
        BY <1>1, <3>1 DEF Base, TypeOK, Model
      <3>3. Model(j) \in Models
        BY <3>1, ModelInHand, WhoRuns DEF Base, HoldsModel
      <3>4. QED
        BY <2>0, <3>1, <3>2, <3>3, EnteredIsCorrect
    <2>3. CASE k = j /\ ~ CheckBegins(j)
      <3>1. pc'[j] # "comparing"
        BY <1>1, <2>3 DEF Step, Lock, Load, TransformBegins, Write, TransformEnds, Save, Prepared, Gate,
           Skip, CheckEnds, Record, Decide, Build, CompareOne, SaveVerdicts, Goto, Base, TypeOK
      <3>2. QED
        BY <1>1, <3>1
    <2>4. QED
      BY <2>1, <2>2, <2>3
  <1>2. CASE Start \/ Edit
    <2>1. \A j \in Jobs : pc'[j] = "start"
      BY <1>2, WhoRuns DEF Start, Edit, thread, Base
    <2>2. QED
      BY <2>1 DEF SeenIsCorrect
  <1>3. CASE Stop \/ Interrupt
    BY <1>3 DEF Stop, Interrupt, Threads, SeenIsCorrect
  <1>4. CASE UNCHANGED vars
    BY <1>4 DEF vars, thread, SeenIsCorrect, Right, Correct, Model
  <1>5. QED
    <2>1. ASSUME NEW k \in Jobs, Step(k) PROVE SeenIsCorrect(T)'
      BY <1>1, <2>1 DEF SeenIsCorrect
    <2>2. QED
      BY <2>1, <1>2, <1>3, <1>4 DEF Next

(* A check's verdict is of the copies it compiled, ...                     *)
LEMMA CheckEarns ==
    ASSUME NEW T, NEW m \in Models, NEW e \in Entry, Earned(T, m, e), NEW k \in Keys,
           e.ver = tree[m], e.deps = DepsNow(m),
           NEW found, \A x \in hierarchy({m}) : Right(T, x, found[x]),
           NEW r
    PROVE  Earned(T, m, WithVerdict(e, k, [status |-> r, sims |-> sims, of |-> Compared(m, e, found)]))
  <1> DEFINE v == [status |-> r, sims |-> sims, of |-> Compared(m, e, found)]
             new == WithVerdict(e, k, v)
  <1>1. new.ver = e.ver /\ new.deps = e.deps /\ new.equiv = [e.equiv EXCEPT ![k] = v]
    BY DEF WithVerdict
  <1>2. e # None
    <2>1. e = [ver |-> e.ver, deps |-> e.deps, equiv |-> e.equiv]
      BY DEF Entry
    <2>2. QED
      BY <2>1, RecordIsNotNone
  <1>3. \A x \in lib_models(m, e) \cap Models : v.of[x] = found[x]
    BY DEF Compared
  <1>4. Kind[m][e.ver] = "transformed" => IsOf(T, m, v.of[m], e.ver)
    <2>1. SUFFICES ASSUME Kind[m][e.ver] = "transformed" PROVE IsOf(T, m, v.of[m], e.ver)
      OBVIOUS
    <2>2. m \in lib_models(m, e) /\ m \in hierarchy({m})
      BY <2>1, HierarchyIsBelow DEF lib_models, status
    <2>3. v.of[m] = found[m]
      BY <1>3, <2>2
    <2>4. IsOf(T, m, found[m], tree[m])
      BY <2>1, <2>2 DEF Right, Correct, IsOf
    <2>5. QED
      BY <2>3, <2>4
  <1>5. ASSUME NEW d \in e.deps, Kind[d[1]][d[2]] = "transformed" PROVE IsOf(T, d[1], v.of[d[1]], d[2])
    <2>1. PICK x \in Below(m) : d = <<x, tree[x]>>
      BY <1>5 DEF DepsNow
    <2>2. x \in Models /\ x \in hierarchy({m})
      BY HierarchyIsBelow
    <2>3. x \in DependsOn(e, "transformed")
      BY <1>5, <2>1 DEF DependsOn
    <2>4. v.of[x] = found[x]
      BY <1>3, <2>2, <2>3 DEF lib_models
    <2>5. IsOf(T, x, found[x], tree[x])
      BY <1>5, <2>1, <2>2 DEF Right, Correct, IsOf
    <2>6. QED
      BY <2>1, <2>4, <2>5
  <1>6. \A l \in Keys : new.equiv[l] = IF l = k THEN v ELSE e.equiv[l]
    <2> HIDE DEF v
    <2>1. QED
      BY <1>1 DEF Entry
  <1> HIDE DEF new, v
  <1>7. QED
    BY <1>1, <1>2, <1>4, <1>5, <1>6 DEF Earned, new, v

(* ... and it is of the same copies in an entry of the same versions.      *)
LEMMA RecordEarns ==
    ASSUME NEW T, NEW m, NEW e \in Entry, NEW now \in Entry, NEW k \in Keys, Earned(T, m, e), Earned(T, m, now),
           e # None, now # None, now.ver = e.ver, now.deps = e.deps
    PROVE  Earned(T, m, WithVerdict(now, k, e.equiv[k]))
  <1> DEFINE new == WithVerdict(now, k, e.equiv[k])
  <1>1. new.ver = now.ver /\ new.deps = now.deps /\ new.equiv = [now.equiv EXCEPT ![k] = e.equiv[k]]
    BY DEF WithVerdict
  <1>2. \A l \in Keys : new.equiv[l] = IF l = k THEN e.equiv[k] ELSE now.equiv[l]
    BY <1>1 DEF Entry
  <1> HIDE DEF new
  <1>3. QED
    BY <1>1, <1>2 DEF Earned, new

LEMMA NoPassIsEarned ==
    ASSUME NEW T, NEW m, NEW e, e = None \/ \A k \in Keys : e.equiv[k].status = ""
    PROVE  Earned(T, m, e)
  BY DEF Earned

LEMMA VerdictsEarnedJobStep ==
    ASSUME NEW T, Base, Disk(T), SeenIsCorrect(T), VerdictsEarned(T), NEW j \in Jobs, Step(j), NEW m \in Models
    PROVE  Earned(T, m, manifest'[m]) /\ Earned(T, m, vz'.man[m]) /\ Earned(T, m, entries'[m])
  <1>a. TypeOK /\ Places /\ Hands /\ AllCurrent /\ EntriesCurrent
    BY DEF Base
  <1>b. /\ \A x \in Models : /\ Earned(T, x, manifest[x]) /\ Earned(T, x, vz.man[x])
                             /\ Earned(T, x, entries[x])
        /\ vz.man \in Manifests
    BY DEF VerdictsEarned, Base, TypeOK, Locals
  <1>c. Earned(T, m, Idle.man[m])
    BY NoPassIsEarned DEF Idle, Nothing
  <1>1. CASE Load(j)
    <2>1. vz'.man = manifest /\ manifest' = manifest /\ entries' = entries
      BY <1>1 DEF Load, Idle, disk, process
    <2>2. QED
      BY <1>b, <2>1
  <1>2. CASE TransformBegins(j)
    <2>1. vz'.man = vz.man /\ manifest' = manifest /\ entries' = entries
      BY <1>a, <1>2, BeginsSteps DEF TransformBegins, process
    <2>2. QED
      BY <1>b, <2>1
  <1>w. CASE Write(j)
    <2>1. vz' = vz /\ manifest' = manifest /\ entries' = entries
      BY <1>w DEF Write, process
    <2>2. QED
      BY <1>b, <2>1
  <1>3. CASE TransformEnds(j)
    <2>1. /\ vz'.man[m] \in {vz.man[m], Fresh(m), None}
          /\ manifest' = manifest /\ entries' = entries
      BY <1>a, <1>3, EndsSteps DEF TransformEnds, process
    <2>2. Earned(T, m, Fresh(m)) /\ Earned(T, m, None)
      BY <1>a, FreshIsEntry, NoPassIsEarned
    <2>3. QED
      BY <1>b, <2>1, <2>2
  <1>4. CASE Save(j)
    <2>1. manifest' = Link(vz.man)
      BY <1>4 DEF Save
    <2>2. Earned(T, m, Link(vz.man)[m])
      <3>1. \/ Link(vz.man)[m] = None \/ Link(vz.man)[m] = vz.man[m]
            \/ \A k \in Keys : Link(vz.man)[m].equiv[k].status = ""
        BY <1>b, LinkSteps
      <3>2. CASE Link(vz.man)[m] = vz.man[m]
        BY <1>b, <3>2
      <3>3. CASE Link(vz.man)[m] # vz.man[m]
        BY <3>1, <3>3, NoPassIsEarned
      <3>4. QED
        BY <3>2, <3>3
    <2>3. vz'.man[m] \in {Idle.man[m], Link(vz.man)[m]}
      <3>1. vz' = Idle \/ vz' = [Idle EXCEPT !.man = Link(vz.man)]
        BY <1>4 DEF Save
      <3>2. QED
        BY <3>1 DEF Idle
    <2>4. entries'[m] \in {entries[m], Link(vz.man)[m]}
      BY <1>a, <1>4, SaveAdds
    <2>5. QED
      BY <1>b, <1>c, <2>1, <2>2, <2>3, <2>4
  <1>5. CASE Record(j)
    <2>1. vz' = vz /\ entries' = entries
      BY <1>5 DEF Record, process
    <2>2. CASE manifest' = manifest
      BY <1>b, <2>1, <2>2
    <2>3. CASE manifest' # manifest
      <3> DEFINE now == manifest[Model(j)]  e == entries[Model(j)]
                 new == WithVerdict(now, Key(j), e.equiv[Key(j)])
      <3>1. /\ now # None /\ <<now.ver, now.deps>> = <<e.ver, e.deps>>
            /\ manifest' = [manifest EXCEPT ![Model(j)] = new]
        BY <1>5, <2>3 DEF Record
      <3>2. Pair[j] # None /\ HoldsModel(j) /\ e # None
        BY <1>a, <1>5, WhoRuns DEF Record, HoldsModel, Hands
      <3>3. Model(j) \in Models /\ Key(j) \in Keys
        BY <1>a, <3>2, ModelInHand
      <3>4. now \in Entry /\ e \in Entry
        BY <1>a, <3>1, <3>2, <3>3 DEF TypeOK, Manifests
      <3>5. Earned(T, Model(j), new)
        BY <1>b, <3>1, <3>2, <3>3, <3>4, RecordEarns
      <3> HIDE DEF new
      <3>6. manifest'[m] = IF m = Model(j) THEN new ELSE manifest[m]
        BY <1>a, <3>1 DEF TypeOK, Manifests
      <3>7. QED
        BY <1>b, <2>1, <3>5, <3>6
    <2>4. QED
      BY <2>2, <2>3
  <1>6. CASE CheckEnds(j)
    <2>1. vz' = vz /\ manifest' = manifest
      BY <1>6 DEF CheckEnds, disk
    <2> DEFINE e == entries[Model(j)]
    <2>2. /\ Model(j) \in Models /\ Key(j) \in Keys /\ e \in Entry /\ e # None
          /\ \A x \in Models \ {Model(j)} : entries'[x] = entries[x]
      BY <1>a, <1>6, CheckEndsAdds
    <2>3. PICK r \in check_model(Model(j), e, seen[j]) :
             entries' = [entries EXCEPT ![Model(j)] = WithVerdict(e, Key(j),
                [status |-> r, sims |-> sims, of |-> Compared(Model(j), e, seen[j])])]
      BY <1>a, <1>6, CheckEndsAdds
    <2> DEFINE new == WithVerdict(e, Key(j), [status |-> r, sims |-> sims,
                                              of |-> Compared(Model(j), e, seen[j])])
    <2>4. e.ver = tree[Model(j)] /\ e.deps = DepsNow(Model(j))
      BY <1>a, <2>2 DEF EntriesCurrent
    <2>5. \A x \in hierarchy({Model(j)}) : Right(T, x, seen[j][x])
      BY <1>6 DEF CheckEnds, SeenIsCorrect
    <2>6. Earned(T, Model(j), new)
      BY <1>b, <2>2, <2>4, <2>5, CheckEarns
    <2>7. entries' = [entries EXCEPT ![Model(j)] = new]
      BY <2>3
    <2> HIDE DEF new
    <2>8. entries'[m] = IF m = Model(j) THEN new ELSE entries[m]
      BY <1>a, <2>2, <2>7 DEF TypeOK, Manifests
    <2>9. QED
      BY <1>b, <2>1, <2>6, <2>8
  <1>7. CASE CompareOne(j)
    <2>1. manifest' = manifest /\ entries' = entries
      BY <1>7 DEF CompareOne, disk, process
    <2>2. PICK q \in Pairs : \E r \in check_model(q[1], vz.man[q[1]], copy) :
              LET v == [status |-> r, sims |-> sims, of |-> Compared(q[1], vz.man[q[1]], copy)]
              IN /\ q[1] \in Models /\ q[2] \in Keys
                 /\ vz.man[q[1]] \in Entry
                 /\ vz'.man[q[1]] = WithVerdict(vz.man[q[1]], q[2], v)
                 /\ \A x \in Models \ {q[1]} : vz'.man[x] = vz.man[x]
      BY <1>a, <1>7, CompareSteps
    <2>3. /\ q[1] \in Models /\ q[2] \in Keys /\ vz.man[q[1]] \in Entry
          /\ \A x \in Models \ {q[1]} : vz'.man[x] = vz.man[x]
      BY <2>2
    <2>4. \A x \in Models : current(x, vz.man[x]) /\ vz.man[x].deps = DepsNow(x)
      BY <1>a, <1>7 DEF CompareOne, AllCurrent
    <2>5. \A x \in Models : Right(T, x, copy[x]) /\ vz.man[x].ver = tree[x]
      BY <1>a, <2>4, CurrentIsCorrect
    <2>6. \A x \in hierarchy({q[1]}) : Right(T, x, copy[x])
      BY <2>3, <2>5, HierarchyIsBelow
    <2>7. Earned(T, q[1], vz'.man[q[1]])
      BY <1>b, <2>2, <2>3, <2>4, <2>5, <2>6, CheckEarns
    <2>8. QED
      BY <1>b, <2>1, <2>3, <2>7
  <1>8. CASE SaveVerdicts(j)
    <2>1. manifest' = vz.man /\ vz' = Idle /\ entries' = entries
      BY <1>8 DEF SaveVerdicts, process
    <2>2. QED
      BY <1>b, <1>c, <2>1
  <1>9. CASE Lock(j) \/ Prepared(j) \/ Gate(j) \/ Skip(j) \/ CheckBegins(j) \/ Decide(j) \/ Build(j)
    <2>1. vz' = vz /\ manifest' = manifest /\ entries' = entries
      BY <1>9 DEF Lock, Prepared, Gate, Skip, CheckBegins, Decide, Build, disk, process
    <2>2. QED
      BY <1>b, <2>1
  <1>10. QED
    BY <1>1, <1>2, <1>w, <1>3, <1>4, <1>5, <1>6, <1>7, <1>8, <1>9 DEF Step

(* No entry, on disk or in a process, passes with other copies than those  *)
(* of its versions.                                                        *)
LEMMA VerdictsEarnedStep ==
    ASSUME NEW T, Base, Disk(T), SeenIsCorrect(T), VerdictsEarned(T), [Next]_vars
    PROVE  VerdictsEarned(T)'
  <1>b. \A x \in Models : /\ Earned(T, x, manifest[x]) /\ Earned(T, x, vz.man[x])
                          /\ Earned(T, x, entries[x]) /\ Earned(T, x, Nothing[x])
    BY NoPassIsEarned DEF VerdictsEarned, Nothing
  <1>1. ASSUME NEW j \in Jobs, Step(j) PROVE VerdictsEarned(T)'
    <2>1. \A m \in Models :
             Earned(T, m, manifest'[m]) /\ Earned(T, m, vz'.man[m]) /\ Earned(T, m, entries'[m])
      BY <1>1, VerdictsEarnedJobStep
    <2>2. QED
      BY <2>1 DEF VerdictsEarned, Earned
  <1>2. CASE Start
    <2>1. manifest' = manifest /\ vz' = vz /\ entries' = Nothing
      BY <1>2 DEF Start, disk, thread
    <2>2. QED
      BY <1>b, <2>1 DEF VerdictsEarned, Earned
  <1>3. CASE Stop
    <2>1. manifest' = manifest /\ vz'.man = Nothing /\ entries' = Nothing
      BY <1>3 DEF Stop, Threads, Idle, disk
    <2>2. QED
      BY <1>b, <2>1 DEF VerdictsEarned, Earned
  <1>4. CASE Interrupt
    <2>1. manifest' = vz.man /\ vz'.man = Nothing /\ entries' = entries
      BY <1>4 DEF Interrupt, Threads, Idle
    <2>2. QED
      BY <1>b, <2>1 DEF VerdictsEarned, Earned
  <1>5. CASE Edit \/ UNCHANGED vars
    <2>1. manifest' = manifest /\ vz' = vz /\ entries' = entries
      BY <1>5 DEF Edit, vars, disk, thread, process
    <2>2. QED
      BY <1>b, <2>1 DEF VerdictsEarned, Earned
  <1>6. QED
    BY <1>1, <1>2, <1>3, <1>4, <1>5 DEF Next

(* A simulation is built from the copies of the present versions.          *)
LEMMA BuiltIsCorrectStep ==
    ASSUME NEW T, Base, Disk(T), BuiltIsCorrect(T), [Next]_vars
    PROVE  BuiltIsCorrect(T)'
  <1>1. ASSUME NEW k \in Jobs, Step(k), NEW j \in Jobs, pc'[j] = "built", Pair[j] # None,
               NEW m \in hierarchy({Pair[j][1]})
        PROVE  Right(T, m, built[j][m])'
    <2>0. Right(T, m, built[j][m])' <=> Right(T, m, built'[j][m])
      <3>1. tree' = tree
        BY <1>1, JobFrame DEF Base
      <3>2. QED
        BY <3>1 DEF Right, Correct
    <2>1. CASE k # j
      BY <1>1, <2>0, <2>1, JobFrame DEF Base, BuiltIsCorrect
    <2>2. CASE Build(j)
      <3>1. pc[j] = "build" /\ built'[j] = copy
        BY <2>2 DEF Build, Base, TypeOK
      <3>2. entries[Pair[j][1]] # None /\ Pair[j][1] \in Models
        BY <1>1, <3>1, PairParts, ModelGateAssumption DEF Base, Hands
      <3>3. Right(T, m, copy[m])
        BY <1>1, <3>2, EnteredIsCorrect
      <3>4. QED
        BY <2>0, <3>1, <3>3
    <2>3. CASE k = j /\ ~ Build(j)
      <3>1. pc'[j] # "built"
        <4>1. pc[j] # "compare all"
          BY <1>1 DEF Base, Places
        <4>2. QED
          BY <1>1, <2>3, <4>1 DEF Step, Lock, Load, TransformBegins, Write, TransformEnds, Save, Prepared,
             Gate, Skip, CheckBegins, CheckEnds, Record, Decide, CompareOne, SaveVerdicts, Goto,
             Base, TypeOK
      <3>2. QED
        BY <1>1, <3>1
    <2>4. QED
      BY <2>1, <2>2, <2>3
  <1>2. CASE Start \/ Edit
    <2>1. \A j \in Jobs : pc'[j] = "start"
      BY <1>2, WhoRuns DEF Start, Edit, thread, Base
    <2>2. QED
      BY <2>1 DEF BuiltIsCorrect
  <1>3. CASE Stop \/ Interrupt
    BY <1>3 DEF Stop, Interrupt, Threads, BuiltIsCorrect
  <1>4. CASE UNCHANGED vars
    BY <1>4 DEF vars, thread, BuiltIsCorrect, Right, Correct
  <1>5. QED
    <2>1. ASSUME NEW k \in Jobs, Step(k) PROVE BuiltIsCorrect(T)'
      BY <1>1, <2>1 DEF BuiltIsCorrect
    <2>2. QED
      BY <2>1, <1>2, <1>3, <1>4 DEF Next

-----------------------------------------------------------------------------
(* A model's lock is held once.                                            *)
LEMMA LocksStep ==
    ASSUME Base, Locks, [Next]_vars
    PROVE  Locks'
  <1>1. ASSUME NEW k \in Jobs, Step(k) PROVE Locks'
    <2>1. \A i \in Jobs \ {k} : pc'[i] = pc[i] /\ cur'[i] = cur[i]
      BY <1>1, JobFrame DEF Base
    <2>2. CASE Lock(k)
      <3>1. PICK q \in Pairs \cup todo[k] :
               /\ \A i \in Jobs \ {k} : HoldsModel(i) => Model(i) # q[1]
               /\ cur' = [cur EXCEPT ![k] = q]
        BY <2>2, ModelGateAssumption DEF Lock
      <3>2. cur'[k] = q
        BY <3>1 DEF Base, TypeOK
      <3>3. QED
        BY <2>1, <3>1, <3>2 DEF Locks, HoldsModel, Model
    <2>3. CASE ~ Lock(k)
      <3>1. Pair[k] # None /\ HoldsModel(k)' => HoldsModel(k) /\ cur'[k] = cur[k]
        BY <1>1, <2>3 DEF Step, Load, TransformBegins, Write, TransformEnds, Save, Prepared, Gate, Skip,
           CheckBegins, CheckEnds, Record, Decide, Build, CompareOne, SaveVerdicts, Goto,
           HoldsModel, Base, TypeOK
      <3>2. QED
        BY <2>1, <3>1 DEF Locks, HoldsModel, Model
    <2>4. QED
      BY <2>2, <2>3
  <1>2. CASE Start \/ Edit \/ UNCHANGED vars
    BY <1>2 DEF Start, Edit, vars, thread, Locks, HoldsModel, Model
  <1>3. CASE Stop \/ Interrupt
    BY <1>3 DEF Stop, Interrupt, Threads, Locks, HoldsModel
  <1>4. QED
    BY <1>1, <1>2, <1>3 DEF Next

LEMMA PairsAreTheirParts == \A p, q \in Pairs : p[1] = q[1] /\ p[2] = q[2] => p = q
  BY ModelGateAssumption

(* A check's verdict is the pair's own, of these simulators.               *)
LEMMA CheckEndsAt ==
    ASSUME Base, NEW k \in Jobs, CheckEnds(k), NEW q \in Pairs, entries[q[1]] # None
    PROVE  /\ checkedBy' = checkedBy \cup {cur[k]}
           /\ q # cur[k] => entries'[q[1]].equiv[q[2]] = entries[q[1]].equiv[q[2]]
           /\ q = cur[k] => entries'[q[1]].equiv[q[2]].sims = sims
  <1> DEFINE e == entries[Model(k)]
  <1>1. /\ cur[k] \in Pairs /\ Model(k) \in Models /\ Key(k) \in Keys /\ e \in Entry
        /\ \A m \in Models \ {Model(k)} : entries'[m] = entries[m]
    BY CheckEndsAdds DEF Base
  <1>2. PICK r \in check_model(Model(k), e, seen[k]) :
           entries' = [entries EXCEPT ![Model(k)] = WithVerdict(e, Key(k),
              [status |-> r, sims |-> sims, of |-> Compared(Model(k), e, seen[k])])]
    BY CheckEndsAdds DEF Base
  <1> DEFINE v == [status |-> r, sims |-> sims, of |-> Compared(Model(k), e, seen[k])]
  <1>3. entries'[Model(k)] = WithVerdict(e, Key(k), v) /\ v.sims = sims
    BY <1>1, <1>2 DEF Base, TypeOK, Manifests
  <1>4. entries'[Model(k)].equiv = [e.equiv EXCEPT ![Key(k)] = v]
    BY <1>3 DEF WithVerdict
  <1> HIDE DEF v
  <1>5. \A l \in Keys : entries'[Model(k)].equiv[l] = IF l = Key(k) THEN v ELSE e.equiv[l]
    BY <1>1, <1>4 DEF Entry
  <1>6. q[1] \in Models /\ q[2] \in Keys
    BY PairParts
  <1>7. q = cur[k] <=> q[1] = Model(k) /\ q[2] = Key(k)
    BY <1>1, PairsAreTheirParts DEF Model, Key
  <1>8. checkedBy' = checkedBy \cup {cur[k]}
    BY DEF CheckEnds
  <1>9. QED
    BY <1>1, <1>3, <1>5, <1>6, <1>7, <1>8

(* A verdict that stands is not computed again, nor lost, in its process.  *)
LEMMA StandingStays ==
    ASSUME Base, Checked, NEW k \in Jobs, Step(k), NEW q \in Pairs, Standing(q)
    PROVE  /\ Standing(q)'
           /\ entries'[q[1]] # None
           /\ entries'[q[1]].equiv[q[2]] = entries[q[1]].equiv[q[2]]
  <1>0. entries[q[1]] # None /\ q[1] \in Models /\ sims' = sims
    BY PairParts, JobFrame DEF Standing, Base
  <1>1. entries'[q[1]] # None
    BY <1>0, EntriesStay DEF Base
  <1>2. /\ checkedBy \subseteq checkedBy'
        /\ entries'[q[1]].equiv[q[2]] = entries[q[1]].equiv[q[2]]
    <2>1. CASE CheckEnds(k)
      <3>1. pc[k] = "comparing"
        BY <2>1 DEF CheckEnds
      <3>2. q # cur[k]
        BY <3>1 DEF Checked
      <3>3. QED
        BY <1>0, <2>1, <3>2, CheckEndsAt
    <2>2. CASE Save(k)
      <3>1. checkedBy' = checkedBy /\ entries'[q[1]] = entries[q[1]]
        BY <1>0, <2>2, SaveAdds DEF Save, Base
      <3>2. QED
        BY <3>1
    <2>3. CASE ~ Save(k) /\ ~ CheckEnds(k)
      BY <2>3, EntriesFrame
    <2>4. QED
      BY <2>1, <2>2, <2>3
  <1>3. QED
    BY <1>0, <1>1, <1>2 DEF Standing, Kept

(* A pair that is being compared does not stand: its model's lock keeps    *)
(* every other job from it.                                                *)
LEMMA CheckedStep ==
    ASSUME Base, Locks, Checked, [Next]_vars
    PROVE  Checked'
  <1>a. TypeOK /\ Places /\ Hands /\ checkedBy \subseteq Pairs
    BY DEF Base, TypeOK
  <1>1. ASSUME NEW k \in Jobs, Step(k) PROVE Checked'
    <2>0. sims' = sims
      BY <1>a, <1>1, JobFrame
    <2>1. ASSUME NEW q \in checkedBy'
          PROVE  entries'[q[1]] # None /\ entries'[q[1]].equiv[q[2]].sims = sims'
      <3>1. CASE q \in checkedBy
        <4>1. q \in Pairs /\ Standing(q) /\ entries[q[1]].equiv[q[2]].sims = sims
          BY <1>a, <3>1 DEF Checked, Standing
        <4>2. QED
          BY <1>1, <2>0, <4>1, StandingStays
      <3>2. CASE q \notin checkedBy
        <4>1. CheckEnds(k)
          BY <1>1, <2>1, <3>2, EntriesFrame DEF Save
        <4>2. cur[k] \in Pairs /\ entries[Model(k)] # None
          BY <1>a, <4>1, CheckEndsAdds
        <4>3. q = cur[k]
          BY <2>1, <3>2, <4>1 DEF CheckEnds
        <4>4. q \in Pairs /\ entries[q[1]] # None /\ entries'[q[1]] # None
          BY <1>a, <4>1, <4>2, <4>3, CheckEndsAdds DEF Model
        <4>5. QED
          BY <2>0, <4>1, <4>3, <4>4, CheckEndsAt
      <3>3. QED
        BY <3>1, <3>2
    <2>2. ASSUME NEW j \in Jobs, pc'[j] = "comparing" PROVE ~ Standing(cur[j])'
      <3>1. CASE k # j
        <4>1. pc[j] = "comparing" /\ cur'[j] = cur[j]
          BY <1>a, <1>1, <2>2, <3>1, JobFrame
        <4>2. Pair[j] # None /\ HoldsModel(j) /\ entries[Model(j)] # None /\ ~ Standing(cur[j])
          BY <1>a, <4>1, WhoRuns DEF HoldsModel, Hands, Checked
        <4>3. Model(j) \in Models /\ cur[j] \in Pairs
          BY <1>a, <4>2, ModelInHand
        <4>4. entries'[Model(j)] = entries[Model(j)] /\ (cur[j] \in checkedBy' => cur[j] \in checkedBy)
          <5>1. CASE CheckEnds(k)
            <6>1. /\ Pair[k] # None /\ HoldsModel(k) /\ checkedBy' = checkedBy \cup {cur[k]}
                  /\ \A m \in Models \ {Model(k)} : entries'[m] = entries[m]
              BY <1>a, <5>1, CheckEndsAdds DEF CheckEnds
            <6>2. Model(k) # Model(j)
              BY <3>1, <4>2, <6>1 DEF Locks
            <6>3. cur[k] # cur[j]
              BY <6>2 DEF Model
            <6>4. QED
              BY <4>3, <6>1, <6>2, <6>3
          <5>2. CASE Save(k)
            BY <1>a, <4>2, <4>3, <5>2, SaveAdds DEF Save
          <5>3. CASE ~ Save(k) /\ ~ CheckEnds(k)
            BY <1>1, <5>3, EntriesFrame
          <5>4. QED
            BY <5>1, <5>2, <5>3
        <4>5. QED
          BY <2>0, <4>1, <4>2, <4>4 DEF Standing, Kept, Model
      <3>2. CASE CheckBegins(j)
        <4>1. entries' = entries /\ checkedBy' = checkedBy /\ cur' = cur /\ ~ Stands(j)
          BY <3>2 DEF CheckBegins, process
        <4>2. QED
          BY <2>0, <4>1 DEF Stands, Standing, Kept, Model, Key
      <3>3. CASE k = j /\ ~ CheckBegins(j)
        <4>1. pc'[j] # "comparing"
          BY <1>1, <1>a, <3>3 DEF Step, Lock, Load, TransformBegins, Write, TransformEnds, Save, Prepared,
             Gate, Skip, CheckEnds, Record, Decide, Build, CompareOne, SaveVerdicts, Goto, TypeOK
        <4>2. QED
          BY <2>2, <4>1
      <3>4. QED
        BY <3>1, <3>2, <3>3
    <2>3. ASSUME NEW j \in Jobs, pc'[j] = "record" PROVE cur'[j] \in checkedBy'
      <3>1. CASE k # j
        <4>1. pc[j] = "record" /\ cur'[j] = cur[j]
          BY <1>a, <1>1, <2>3, <3>1, JobFrame
        <4>2. checkedBy \subseteq checkedBy'
          BY <1>1, EntriesFrame DEF Save, CheckEnds
        <4>3. QED
          BY <4>1, <4>2 DEF Checked
      <3>2. CASE CheckEnds(j)
        BY <3>2 DEF CheckEnds
      <3>3. CASE k = j /\ ~ CheckEnds(j)
        <4>1. pc'[j] # "record"
          BY <1>1, <1>a, <3>3 DEF Step, Lock, Load, TransformBegins, Write, TransformEnds, Save, Prepared,
             Gate, Skip, CheckBegins, Record, Decide, Build, CompareOne, SaveVerdicts, Goto, TypeOK
        <4>2. QED
          BY <2>3, <4>1
      <3>4. QED
        BY <3>1, <3>2, <3>3
    <2>4. QED
      BY <2>1, <2>2, <2>3 DEF Checked
  <1>2. CASE Start
    <2>1. checkedBy' = {} /\ \A j \in Jobs : pc'[j] = "start"
      BY <1>2, <1>a, WhoRuns DEF Start, thread
    <2>2. QED
      BY <2>1 DEF Checked
  <1>3. CASE Stop \/ Interrupt
    <2>1. checkedBy' = {} /\ \A j \in Jobs : pc'[j] = "start"
      BY <1>3, <1>a DEF Stop, Interrupt, Threads, Places
    <2>2. QED
      BY <2>1 DEF Checked
  <1>4. CASE Edit
    <2>1. checkedBy' = {} /\ \A j \in Jobs : pc'[j] = "start"
      BY <1>4, <1>a, WhoRuns DEF Edit, Places, process, thread
    <2>2. QED
      BY <2>1 DEF Checked
  <1>5. CASE UNCHANGED vars
    BY <1>5 DEF vars, thread, process, Checked, Standing, Kept
  <1>6. QED
    BY <1>1, <1>2, <1>3, <1>4, <1>5 DEF Next

(* What job j is still to see to, or what stands.                          *)
ProgressOf(j) ==
    \/ Pair[j] \in todo[j]
    \/ Standing(Pair[j]) /\ \A d \in Descendants(j) : d \in todo[j] \/ Standing(d)

(* What a gated job relies on is unaffected by the others' steps.          *)
LEMMA DescendantsStay ==
    ASSUME Base, NEW k \in Jobs, Step(k), NEW j \in Jobs, Pair[j] # None,
           entries[Pair[j][1]] # None
    PROVE  /\ Descendants(j)' = Descendants(j) /\ Descendants(j) \subseteq Pairs
           /\ Pair[j] \in Pairs
           /\ entries'[Pair[j][1]] # None
           /\ entries'[Pair[j][1]].ver = entries[Pair[j][1]].ver
           /\ entries'[Pair[j][1]].deps = entries[Pair[j][1]].deps
  <1>1. Pair[j] \in Pairs /\ Pair[j][1] \in Models
    BY PairParts, ModelGateAssumption
  <1>2. /\ entries'[Pair[j][1]] # None
        /\ entries'[Pair[j][1]].ver = entries[Pair[j][1]].ver
        /\ entries'[Pair[j][1]].deps = entries[Pair[j][1]].deps
    BY <1>1, EntriesStay DEF Base
  <1>3. Descendants(j)' = Descendants(j)
    BY <1>2 DEF Descendants, descendant_configs, DependsOn
  <1>4. QED
    BY <1>1, <1>2, <1>3, DescendantsArePairs DEF Descendants

LEMMA ProgressStays ==
    ASSUME Base, Checked, NEW k \in Jobs, Step(k), NEW j \in Jobs, Pair[j] # None,
           entries[Pair[j][1]] # None, ProgressOf(j), todo[j] \subseteq todo'[j]
    PROVE  ProgressOf(j)'
  <1>1. /\ Descendants(j)' = Descendants(j) /\ Descendants(j) \subseteq Pairs
        /\ Pair[j] \in Pairs
    BY DescendantsStay
  <1>2. \A q \in Pairs : Standing(q) => Standing(q)'
    BY StandingStays
  <1>3. QED
    BY <1>1, <1>2 DEF ProgressOf

(* A pair that stands is replaced by its descendants.                      *)
LEMMA ProgressEnsured ==
    ASSUME Base, Checked, NEW j \in Jobs, Step(j), Pair[j] # None,
           entries[Pair[j][1]] # None, ProgressOf(j),
           Standing(cur[j]), cur[j] \in Pairs, todo' = Ensured(j, entries[Model(j)])
    PROVE  ProgressOf(j)'
  <1>1. /\ Descendants(j)' = Descendants(j) /\ Descendants(j) \subseteq Pairs
        /\ Pair[j] \in Pairs
    BY DescendantsStay
  <1>2. \A q \in Pairs : Standing(q) => Standing(q)'
    BY StandingStays
  <1>3. todo'[j] = (todo[j] \ {cur[j]}) \cup descendant_configs(cur[j], entries[Model(j)])
    BY DEF Ensured, Base, TypeOK
  <1>4. cur[j] = Pair[j] => Descendants(j) \subseteq todo'[j]
    BY <1>3 DEF Descendants, Model
  <1>5. QED
    BY <1>1, <1>2, <1>3, <1>4 DEF ProgressOf

LEMMA ProgressStep ==
    ASSUME Base, Checked, Progress, [Next]_vars
    PROVE  Progress'
  <1>a. TypeOK /\ Places /\ Hands
    BY DEF Base
  <1>b. Progress = (\A j \in Jobs : Pair[j] # None /\ (pc[j] = "ensure" \/ todo[j] # {}) => ProgressOf(j))
    BY DEF Progress, ProgressOf
  <1>c. Progress' = (\A j \in Jobs : Pair[j] # None /\ (pc'[j] = "ensure" \/ todo'[j] # {})
                                       => ProgressOf(j)')
    BY DEF Progress, ProgressOf
  <1>1. ASSUME NEW k \in Jobs, Step(k), NEW j \in Jobs, Pair[j] # None,
               pc'[j] = "ensure" \/ todo'[j] # {}
        PROVE  ProgressOf(j)'
    <2>a. pc[j] = "ensure" \/ todo[j] # {} => entries[Pair[j][1]] # None /\ ProgressOf(j)
      BY <1>a, <1>b, <1>1 DEF Hands
    <2>1. CASE k # j
      <3>1. pc'[j] = pc[j] /\ todo'[j] = todo[j]
        BY <1>a, <1>1, <2>1, JobFrame
      <3>2. QED
        BY <1>1, <2>a, <3>1, ProgressStays
    <2>2. CASE k = j /\ (Skip(j) \/ Record(j))
      <3>1. todo' = Ensured(j, entries[Model(j)]) /\ todo[j] # {} /\ HoldsModel(j)
        BY <1>a, <1>1, <2>2 DEF Skip, Record, Hands, HoldsModel
      <3>2. Standing(cur[j])
        BY <1>a, <1>1, <2>2 DEF Skip, Record, Stands, Standing, Hands, Checked, Model, Key
      <3>3. cur[j] \in Pairs
        BY <1>a, <1>1, <3>1, ModelInHand
      <3>4. QED
        BY <1>1, <2>2, <2>a, <3>1, <3>2, <3>3, ProgressEnsured
    <2>3. CASE Gate(j)
      <3>1. CASE todo' = [todo EXCEPT ![j] = {Pair[j]}]
        BY <1>a, <3>1 DEF ProgressOf, TypeOK
      <3>2. CASE todo' # [todo EXCEPT ![j] = {Pair[j]}]
        <4>1. todo' = todo /\ pc'[j] # "ensure"
          BY <1>a, <2>3, <3>2 DEF Gate, Goto, TypeOK
        <4>2. QED
          BY <1>1, <2>3, <2>a, <4>1, ProgressStays DEF Step
      <3>3. QED
        BY <3>1, <3>2
    <2>4. CASE k = j /\ ~ (Skip(j) \/ Record(j) \/ Gate(j))
      <3>1. pc[j] # "compare all"
        BY <1>a, <1>1 DEF Places
      <3>2. todo' = todo /\ pc'[j] # "ensure"
        BY <1>a, <1>1, <2>4, <3>1 DEF Step, Lock, Load, TransformBegins, Write, TransformEnds, Save,
           Prepared, CheckBegins, CheckEnds, Decide, Build, CompareOne, SaveVerdicts, Goto, TypeOK
      <3>3. QED
        BY <1>1, <2>a, <3>2, ProgressStays
    <2>5. QED
      BY <1>1, <2>1, <2>2, <2>3, <2>4
  <1>2. CASE Start \/ Edit
    <2>1. \A j \in Jobs : pc'[j] = "start" /\ todo'[j] = {}
      BY <1>2, <1>a, WhoRuns DEF Start, Edit, thread, Places
    <2>2. QED
      BY <1>c, <2>1
  <1>3. CASE Stop \/ Interrupt
    <2>1. \A j \in Jobs : pc'[j] = "start" /\ todo'[j] = {}
      BY <1>3 DEF Stop, Interrupt, Threads
    <2>2. QED
      BY <1>c, <2>1
  <1>4. CASE UNCHANGED vars
    <2>1. /\ pc' = pc /\ todo' = todo /\ entries' = entries /\ checkedBy' = checkedBy
          /\ sims' = sims
      BY <1>4 DEF vars, thread, process
    <2>2. \A j \in Jobs : ProgressOf(j)' = ProgressOf(j)
      BY <2>1 DEF ProgressOf, Standing, Kept, Descendants, descendant_configs, DependsOn
    <2>3. QED
      BY <1>b, <1>c, <2>1, <2>2
  <1>5. QED
    BY <1>1, <1>c, <1>2, <1>3, <1>4 DEF Next

(* What the gate granted to job j.                                         *)
GrantedTo(j) ==
    LET m == Pair[j][1]
        e == entries[m]
    IN gated(m, e) =>
         /\ j \notin Guards => Passed(Pair[j]) /\ \A d \in Descendants(j) : Passed(d)
         /\ effective_zcmp(m, e) => j \notin Open

LEMMA PassedStays ==
    ASSUME Base, Checked, NEW k \in Jobs, Step(k), NEW q \in Pairs, Passed(q)
    PROVE  Passed(q)'
  <1>1. Standing(q) /\ sims' = sims
    BY JobFrame DEF Passed, Standing, Kept, Base
  <1>2. entries'[q[1]] # None /\ entries'[q[1]].equiv[q[2]] = entries[q[1]].equiv[q[2]]
    BY <1>1, StandingStays
  <1>3. QED
    BY <1>1, <1>2 DEF Passed

LEMMA GrantedStays ==
    ASSUME Base, Checked, NEW k \in Jobs, Step(k), NEW j \in Jobs, Pair[j] # None,
           entries[Pair[j][1]] # None, GrantedTo(j)
    PROVE  GrantedTo(j)'
  <1> DEFINE m == Pair[j][1]
  <1>1. /\ Descendants(j)' = Descendants(j) /\ Descendants(j) \subseteq Pairs
        /\ Pair[j] \in Pairs
        /\ entries'[m].ver = entries[m].ver /\ entries'[m].deps = entries[m].deps
    BY DescendantsStay
  <1>2. \A q \in Pairs : Passed(q) => Passed(q)'
    BY PassedStays
  <1>3. /\ gated(m, entries'[m]) = gated(m, entries[m])
        /\ effective_zcmp(m, entries'[m]) = effective_zcmp(m, entries[m])
    BY <1>1 DEF gated, effective_zcmp, lib_models, DependsOn, status
  <1>4. QED
    BY <1>1, <1>2, <1>3 DEF GrantedTo

LEMMA DecideGrants ==
    ASSUME Base, Checked, Progress, NEW j \in Jobs, Pair[j] # None, Decide(j), pc'[j] = "build"
    PROVE  GrantedTo(j)
  <1> DEFINE m == Pair[j][1]  e == entries[m]
  <1>1. /\ pc[j] = "ensure" /\ todo[j] = {}
        /\ ~ (j \notin Guards /\ blocked(Pair[j], e))
        /\ ~ (effective_zcmp(m, e) /\ j \in Open)
    BY DEF Decide, Goto, Base, TypeOK
  <1>2. Standing(Pair[j]) /\ \A d \in Descendants(j) : Standing(d)
    BY <1>1 DEF Progress
  <1>3. \A q : Standing(q) => entries[q[1]] # None /\ entries[q[1]].equiv[q[2]].sims = sims
    BY DEF Standing, Checked, Kept
  <1>4. j \notin Guards =>
          /\ e.equiv[Pair[j][2]].status = "pass"
          /\ \A d \in Descendants(j) : entries[d[1]].equiv[d[2]].status = "pass"
    BY <1>1 DEF blocked, Descendants
  <1>5. QED
    BY <1>1, <1>2, <1>3, <1>4 DEF GrantedTo, Passed

LEMMA GrantedStep ==
    ASSUME Base, Checked, Progress, Granted, [Next]_vars
    PROVE  Granted'
  <1>a. TypeOK /\ Places /\ Hands
    BY DEF Base
  <1>b. Granted = (\A j \in Jobs : Pair[j] # None /\ pc[j] \in {"build", "built"} => GrantedTo(j))
    BY DEF Granted, GrantedTo
  <1>c. Granted' = (\A j \in Jobs : Pair[j] # None /\ pc'[j] \in {"build", "built"} => GrantedTo(j)')
    BY DEF Granted, GrantedTo
  <1>1. ASSUME NEW k \in Jobs, Step(k), NEW j \in Jobs, Pair[j] # None, pc'[j] \in {"build", "built"}
        PROVE  GrantedTo(j)'
    <2>1. entries[Pair[j][1]] # None
      <3>1. CASE k # j
        <4>1. pc'[j] = pc[j]
          BY <1>a, <1>1, <3>1, JobFrame
        <4>2. QED
          BY <1>a, <1>1, <4>1 DEF Hands
      <3>2. CASE k = j
        <4>1. pc[j] \in {"gate", "ensure", "build"}
          <5>1. pc[j] # "compare all"
            BY <1>a, <1>1 DEF Places
          <5>2. QED
            BY <1>a, <1>1, <3>2, <5>1 DEF Step, Lock, Load, TransformBegins, Write, TransformEnds, Save,
               Prepared, Gate, Skip, CheckBegins, CheckEnds, Record, Decide, Build, CompareOne,
               SaveVerdicts, Goto, TypeOK
        <4>2. QED
          BY <1>a, <1>1, <4>1 DEF Hands
      <3>3. QED
        BY <3>1, <3>2
    <2>2. GrantedTo(j)
      <3>1. CASE k # j
        <4>1. pc'[j] = pc[j]
          BY <1>a, <1>1, <3>1, JobFrame
        <4>2. QED
          BY <1>b, <1>1, <4>1
      <3>2. CASE Gate(j)
        <4>1. ~ gated(Pair[j][1], entries[Pair[j][1]])
          BY <1>a, <1>1, <3>2 DEF Gate, Goto, TypeOK
        <4>2. QED
          BY <4>1 DEF GrantedTo
      <3>3. CASE Decide(j)
        <4>1. pc'[j] = "build"
          BY <1>a, <1>1, <3>3 DEF Decide, Goto, TypeOK
        <4>2. QED
          BY <1>1, <3>3, <4>1, DecideGrants
      <3>4. CASE Build(j)
        BY <1>b, <1>1, <3>4 DEF Build
      <3>5. CASE k = j /\ ~ (Gate(j) \/ Decide(j) \/ Build(j))
        <4>1. pc[j] # "compare all"
          BY <1>a, <1>1 DEF Places
        <4>2. pc'[j] \notin {"build", "built"}
          BY <1>a, <1>1, <3>5, <4>1 DEF Step, Lock, Load, TransformBegins, Write, TransformEnds, Save,
             Prepared, Skip, CheckBegins, CheckEnds, Record, CompareOne, SaveVerdicts, Goto, TypeOK
        <4>3. QED
          BY <1>1, <4>2
      <3>6. QED
        BY <3>1, <3>2, <3>3, <3>4, <3>5
    <2>3. QED
      BY <1>1, <2>1, <2>2, GrantedStays
  <1>2. CASE Start \/ Edit
    <2>1. \A j \in Jobs : pc'[j] = "start"
      BY <1>2, <1>a, WhoRuns DEF Start, Edit, thread
    <2>2. QED
      BY <1>c, <2>1
  <1>3. CASE Stop \/ Interrupt
    <2>1. \A j \in Jobs : pc'[j] = "start"
      BY <1>3 DEF Stop, Interrupt, Threads
    <2>2. QED
      BY <1>c, <2>1
  <1>4. CASE UNCHANGED vars
    <2>1. pc' = pc /\ entries' = entries /\ sims' = sims
      BY <1>4 DEF vars, thread, process
    <2>2. \A j \in Jobs : GrantedTo(j)' = GrantedTo(j)
      BY <2>1 DEF GrantedTo, Passed, Descendants
    <2>3. QED
      BY <1>b, <1>c, <2>1, <2>2
  <1>5. QED
    BY <1>1, <1>c, <1>2, <1>3, <1>4 DEF Next

-----------------------------------------------------------------------------
(* The inductive invariant: what is on disk is of the present versions or  *)
(* older, or torn; what a process relies on is current; a verdict is of    *)
(* its entry's copies; and the gate's answer rests on verdicts that stand. *)
(* T is of the models whose torn copy may pass for a whole one.            *)
IInv(T) ==
    /\ Base /\ Disk(T) /\ SeenIsCorrect(T) /\ VerdictsEarned(T) /\ BuiltIsCorrect(T)
    /\ Locks /\ Checked /\ Progress /\ Granted

LEMMA IInvInit == ASSUME NEW T PROVE Beginning => IInv(T)
  <1> SUFFICES ASSUME Beginning PROVE IInv(T)
    OBVIOUS
  <1>1. Base
    BY BaseInit
  <1>2. Disk(T)
    <2>1. \A m \in Models : tree[m] \in Nat /\ copy[m] = 0
      BY <1>1, TreeIsNumbers DEF Base, Beginning, Unstarted, NoCopies
    <2>2. QED
      BY <2>1 DEF Beginning, Unstarted, Disk, NotBefore, Whole, Nothing, Idle
  <1>3. VerdictsEarned(T)
    BY NoPassIsEarned DEF Beginning, Unstarted, VerdictsEarned, Nothing, Idle
  <1>4. SeenIsCorrect(T) /\ BuiltIsCorrect(T) /\ Locks /\ Checked /\ Progress /\ Granted
    BY DEF Beginning, Unstarted, SeenIsCorrect, BuiltIsCorrect, Locks, HoldsModel, Checked, Progress, Granted
  <1>5. QED
    BY <1>1, <1>2, <1>3, <1>4 DEF IInv

LEMMA IInvStep ==
    ASSUME NEW T, Edit => ~ Reverts /\ Removals \subseteq T, IInv(T), [Next]_vars
    PROVE  IInv(T)'
  <1>1. Base'
    BY BaseStep DEF IInv
  <1>2. Disk(T)' /\ SeenIsCorrect(T)' /\ VerdictsEarned(T)' /\ BuiltIsCorrect(T)'
    BY DiskStep, SeenIsCorrectStep, VerdictsEarnedStep, BuiltIsCorrectStep DEF IInv
  <1>3. Locks' /\ Checked' /\ Progress' /\ Granted'
    BY LocksStep, CheckedStep, ProgressStep, GrantedStep DEF IInv
  <1>4. QED
    BY <1>1, <1>2, <1>3 DEF IInv

(* A rewritten hierarchy is gated by its model's entry.                    *)
LEMMA RewrittenIsGated ==
    ASSUME Base, NEW m \in Models, entries[m] # None, NEW x \in hierarchy({m}),
           Kind[x][tree[x]] = "transformed"
    PROVE  /\ gated(m, entries[m]) /\ x \in lib_models(m, entries[m])
           /\ x \in Below(m) => x \in DependsOn(entries[m], "transformed")
  <1> DEFINE e == entries[m]
  <1>1. e.ver = tree[m] /\ e.deps = DepsNow(m) /\ hierarchy({m}) = {m} \cup Below(m)
    BY HierarchyIsBelow DEF Base, EntriesCurrent
  <1>2. x \in Below(m) => x \in DependsOn(e, "transformed")
    <2>1. SUFFICES ASSUME x \in Below(m) PROVE x \in DependsOn(e, "transformed")
      OBVIOUS
    <2>2. <<x, tree[x]>> \in e.deps
      BY <1>1, <2>1 DEF DepsNow
    <2>3. QED
      BY <2>2 DEF DependsOn
  <1>3. x = m => status(m, e) = "transformed"
    BY <1>1 DEF status
  <1>4. QED
    BY <1>1, <1>2, <1>3 DEF gated, lib_models

(* A pass in the cache is of the copies of the present versions.           *)
LEMMA PassIsOfThese ==
    ASSUME NEW T, Base, VerdictsEarned(T), NEW q \in Pairs, Passed(q),
           NEW x \in hierarchy({q[1]}), Kind[x][tree[x]] = "transformed"
    PROVE  IsOf(T, x, entries[q[1]].equiv[q[2]].of[x], tree[x])
  <1> DEFINE m == q[1]  e == entries[m]
  <1>1. m \in Models /\ q[2] \in Keys /\ e # None /\ e.equiv[q[2]].status = "pass"
    BY PairParts DEF Passed
  <1>2. e.ver = tree[m] /\ e.deps = DepsNow(m) /\ hierarchy({m}) = {m} \cup Below(m)
    BY <1>1, HierarchyIsBelow DEF Base, EntriesCurrent
  <1>3. Earned(T, m, e)
    BY <1>1 DEF VerdictsEarned
  <1>4. CASE x = m
    BY <1>1, <1>2, <1>3, <1>4 DEF Earned
  <1>5. CASE x \in Below(m)
    <2>1. <<x, tree[x]>> \in e.deps
      BY <1>2, <1>5 DEF DepsNow
    <2>2. Kind[<<x, tree[x]>>[1]][<<x, tree[x]>>[2]] = "transformed"
      OBVIOUS
    <2>3. IsOf(T, <<x, tree[x]>>[1], e.equiv[q[2]].of[<<x, tree[x]>>[1]], <<x, tree[x]>>[2])
      BY <1>1, <1>3, <2>1, <2>2 DEF Earned
    <2>4. QED
      BY <2>3
  <1>6. QED
    BY <1>2, <1>4, <1>5

LEMMA NeverStaleFromIInv == IInv(Removals) => NeverStaleOrMissing
  <1> SUFFICES ASSUME IInv(Removals), NEW j \in Jobs, pc[j] = "built", Pair[j] # None,
                      NEW m \in hierarchy({Pair[j][1]})
               PROVE  IF Kind[m][tree[m]] = "transformed"
                      THEN built[j][m] = tree[m] \/ (m \in Removals /\ built[j][m] = Torn)
                      ELSE built[j][m] = 0
    BY DEF NeverStaleOrMissing
  <1>1. Right(Removals, m, built[j][m])
    BY DEF IInv, BuiltIsCorrect
  <1>2. QED
    BY <1>1 DEF Right, Correct

LEMMA GateHoldsFromIInv == IInv(Removals) => GateHolds
  <1> SUFFICES ASSUME IInv(Removals), NEW j \in Jobs, pc[j] = "built", Pair[j] # None
               PROVE  LET rewritten(m) == {x \in hierarchy({m}) : Kind[x][tree[x]] = "transformed"}
                          proved(q) ==
                              LET v == entries[q[1]].equiv[q[2]] IN
                              /\ v.status = "pass" /\ v.sims = sims
                              /\ \A x \in rewritten(q[1]) :
                                    \/ v.of[x] = built[j][x]
                                    \/ x \in Removals /\ Torn \in {v.of[x], built[j][x]}
                          m == Pair[j][1]
                      IN rewritten(m) # {} =>
                           /\ j \notin Guards =>
                                /\ proved(Pair[j])
                                /\ \A d \in Uses[Pair[j]] : d[1] \in rewritten(m) => proved(d)
                           /\ rewritten(m) \cap Zcmp # {} => j \notin Open
    BY DEF GateHolds
  <1> DEFINE rewritten(n) == {x \in hierarchy({n}) : Kind[x][tree[x]] = "transformed"}
             m == Pair[j][1]
  <1>0. Base /\ VerdictsEarned(Removals) /\ NeverStaleOrMissing /\ Granted
    BY NeverStaleFromIInv DEF IInv
  <1>1. Pair[j] \in Pairs /\ m \in Models /\ entries[m] # None
    BY <1>0, PairParts, ModelGateAssumption DEF Base, Hands
  <1>2. SUFFICES ASSUME rewritten(m) # {}
                 PROVE  /\ j \notin Guards =>
                             /\ Passed(Pair[j])
                             /\ \A d \in Uses[Pair[j]] : d[1] \in rewritten(m) => Passed(d)
                        /\ rewritten(m) \cap Zcmp # {} => j \notin Open
    <2>1. ASSUME NEW q \in Pairs, Passed(q), q[1] \in hierarchy({m}), NEW x \in rewritten(q[1])
          PROVE  \/ entries[q[1]].equiv[q[2]].of[x] = built[j][x]
                 \/ x \in Removals /\ Torn \in {entries[q[1]].equiv[q[2]].of[x], built[j][x]}
      <3>1. x \in hierarchy({m})
        BY <1>1, <2>1, HierarchyIsTransitive
      <3>2. built[j][x] = tree[x] \/ (x \in Removals /\ built[j][x] = Torn)
        BY <1>0, <2>1, <3>1 DEF NeverStaleOrMissing
      <3>3. IsOf(Removals, x, entries[q[1]].equiv[q[2]].of[x], tree[x])
        BY <1>0, <2>1, PassIsOfThese
      <3>4. QED
        BY <3>2, <3>3 DEF IsOf
    <2>2. /\ m \in hierarchy({m}) /\ Uses[Pair[j]] \subseteq Pairs
          /\ \A d \in Uses[Pair[j]] : d[1] \in rewritten(m) => d[1] \in hierarchy({m})
      BY <1>1, HierarchyIsBelow, ModelGateAssumption
    <2>3. QED
      BY <1>1, <1>2, <2>1, <2>2 DEF Passed
  <1>3. gated(m, entries[m])
    BY <1>0, <1>1, <1>2, RewrittenIsGated
  <1>4. /\ j \notin Guards => Passed(Pair[j]) /\ \A d \in Descendants(j) : Passed(d)
        /\ effective_zcmp(m, entries[m]) => j \notin Open
    BY <1>0, <1>3 DEF Granted
  <1>5. ASSUME NEW d \in Uses[Pair[j]], d[1] \in rewritten(m) PROVE d \in Descendants(j)
    <2>1. d[1] \in Below(m)
      BY <1>1, UsesAreBelow
    <2>2. d[1] \in DependsOn(entries[m], "transformed")
      BY <1>0, <1>1, <1>5, <2>1, RewrittenIsGated
    <2>3. QED
      BY <1>5, <2>2 DEF Descendants, descendant_configs
  <1>6. rewritten(m) \cap Zcmp # {} => effective_zcmp(m, entries[m])
    BY <1>0, <1>1, RewrittenIsGated DEF effective_zcmp
  <1>7. QED
    BY <1>4, <1>5, <1>6

-----------------------------------------------------------------------------
(* The types, the locks and what a process relies on, whatever is edited.  *)
THEOREM ModelGateTypes == Spec => []TypeOK
  <1>1. Base => TypeOK
    BY DEF Base
  <1>2. QED
    BY InitBegins, BaseInit, BaseStep, <1>1, PTL DEF Spec

THEOREM ModelGateInductive == ASSUME ~ Reverts PROVE Spec => []IInv(Removals)
  <1>1. IInv(Removals) /\ [Next]_vars => IInv(Removals)'
    BY IInvStep
  <1>2. Beginning => IInv(Removals)
    BY IInvInit
  <1>3. QED
    BY InitBegins, <1>1, <1>2, PTL DEF Spec

(* A simulation never reads a copy that is stale or missing, whatever was  *)
(* killed: a torn one only where copies are removed beside their entries,  *)
(* ...                                                                     *)
THEOREM CopiesAreNeverStale == ASSUME ~ Reverts PROVE Spec => []NeverStaleOrMissing
  BY ModelGateInductive, NeverStaleFromIInv, PTL

(* ... nor one that its gate did not grant.                                *)
THEOREM TheGateHolds == ASSUME ~ Reverts PROVE Spec => []GateHolds
  BY ModelGateInductive, GateHoldsFromIInv, PTL

-----------------------------------------------------------------------------
(* The smoke run.  The command of xut portability is the process, and its  *)
(* models are made sure of once it was.                                    *)
CommandRuns ==
    /\ smoke # "off" => up = "command"
    /\ smoke \notin {"off", "transform"} => pc[Command] = "built"

AllPrepared ==
    smoke # "off" /\ pc[Command] = "built" =>
        \A m \in Models : current(m, manifest[m]) /\ manifest[m].deps = DepsNow(m)

CommandInv == (smoke # "off" => IInv({})) /\ CommandRuns /\ AllPrepared

SmokeTypes ==
    /\ smoke \in {"off", "transform", "run", "interrupted", "done", "rendered"}
    /\ queue \subseteq DOMAIN Order
    /\ at \in [Scripts -> {"waits", "taken", "up", "left", "over", "cancelled"}]
    /\ left \in [Scripts -> Left]
    /\ done \in [Scripts -> Nat]

(* A script that is laid out is in the queue or was taken from it.         *)
ScriptPlaces ==
    /\ smoke \in {"off", "transform"} => queue = {} /\ \A s \in Scripts : at[s] = "waits"
    /\ \A i \in queue : at[Order[i]] = "waits"
    /\ smoke = "run" => \A i \in write_scripts \ queue : at[Order[i]] # "waits"
    /\ smoke \in {"done", "rendered"} =>
          /\ queue = {} /\ \A s \in Scripts : at[s] \in {"waits", "over"}
          /\ \A i \in write_scripts : at[Order[i]] = "over"

Counted ==
    \A s \in Scripts :
        /\ at[s] \in {"waits", "taken", "up", "cancelled"} => done[s] = 0
        /\ at[s] = "left" => done[s] \in {0, 1}
        /\ at[s] = "over" => done[s] = 1

(* What is on disk of a script, once the host has taken note of it.        *)
LogsAreNotes ==
    log = [s \in Scripts |-> IF at[s] = "over" THEN Notes(left[s]) ELSE Unseen]

IsTable(x) ==
    \E eq \in [SmokeModels -> {"pass", "fail", "error", "blocked", "none"}] :
        /\ \A m \in SmokeModels : eq[m] \in equiv(m)
        /\ x = [m \in SmokeModels |-> row(m, eq[m])]

TableOfRows == smoke \in {"done", "rendered"} => IsTable(table)

PageOfTables ==
    /\ smoke # "rendered" => page = {}
    /\ smoke = "rendered" /\ page # {} => \E other \in OtherTables : page = {table, other}

SmokeInv ==
    /\ CommandInv /\ SmokeTypes /\ ScriptPlaces /\ Counted /\ LogsAreNotes
    /\ TableOfRows /\ PageOfTables

-----------------------------------------------------------------------------
(* What a step of the command and its table is.                            *)
allvars == <<vars, pvars, page>>

LEMMA CommandIsJob == Command \in Jobs /\ Pair[Command] = None
  BY PortabilityAssumption

(* The processes move, and nothing of the smoke run does; or one of the    *)
(* smoke run's steps is taken, and no process moves.                       *)
LEMMA WhichSteps ==
    ASSUME [LNext]_allvars
    PROVE  \/ smoke = "off" /\ Next /\ UNCHANGED <<pvars, page>>
           \/ smoke = "transform" /\ Step(Command) /\ UNCHANGED <<pvars, page>>
           \/ Smoke /\ UNCHANGED <<vars, page>>
           \/ Publish /\ UNCHANGED vars
           \/ UNCHANGED allvars
  <1>1. CASE PNext /\ UNCHANGED page
    <2>1. Smoke => UNCHANGED vars
      BY DEF Smoke, Begin, Take, Cancel, WriteTable, Launch, ContainerEnds, RunOne
    <2>2. QED
      BY <1>1, <2>1 DEF PNext
  <1>2. CASE Publish
    BY <1>2 DEF Publish
  <1>3. CASE UNCHANGED allvars
    BY <1>3
  <1>4. QED
    BY <1>1, <1>2, <1>3 DEF LNext

(* The command alone moves in its process, and what it made sure of stays. *)
LEMMA CommandStep ==
    ASSUME IInv({}), AllPrepared, up = "command", Step(Command)
    PROVE  /\ up' = "command" /\ pc[Command] # "built"
           /\ pc'[Command] = "built" =>
                \A m \in Models : current(m, manifest[m])' /\ manifest'[m].deps = DepsNow(m)'
  <1> USE CommandIsJob
  <1>0. /\ pc \in [Jobs -> {"start", "locked", "transforming", "gate", "ensure", "comparing", "record",
                            "build", "compare all", "built", "error", "skip"}]
        /\ pc[Command] \in {"start", "transforming", "compare all", "built", "error"}
        /\ AllCurrent
    BY DEF IInv, Base, TypeOK, Places
  <1>1. ASSUME pc'[Command] = "built" PROVE SaveVerdicts(Command)
    <2>1. /\ ~ Lock(Command) /\ ~ Prepared(Command) /\ ~ Gate(Command) /\ ~ Skip(Command)
          /\ ~ CheckBegins(Command) /\ ~ CheckEnds(Command) /\ ~ Record(Command)
          /\ ~ Decide(Command) /\ ~ Build(Command)
      BY <1>0 DEF Lock, Prepared, Gate, Skip, CheckBegins, CheckEnds, Record, Decide, Build
    <2>2. /\ ~ Load(Command) /\ ~ TransformBegins(Command) /\ ~ Write(Command) /\ ~ TransformEnds(Command)
          /\ ~ Save(Command) /\ ~ CompareOne(Command)
      BY <1>0, <1>1 DEF Load, TransformBegins, Write, TransformEnds, Save, CompareOne, Goto
    <2>3. QED
      BY <2>1, <2>2 DEF Step
  <1>2. ASSUME SaveVerdicts(Command), NEW m \in Models
        PROVE  current(m, manifest[m])' /\ manifest'[m].deps = DepsNow(m)'
    <2>1. manifest' = vz.man /\ tree' = tree /\ copy' = copy /\ pc[Command] = "compare all"
      BY <1>2 DEF SaveVerdicts
    <2>2. current(m, vz.man[m]) /\ vz.man[m].deps = DepsNow(m)
      BY <1>0, <2>1 DEF AllCurrent
    <2>3. QED
      BY <2>1, <2>2 DEF current, DepsNow
  <1>3. up' = up
    BY DEF Step, Lock, Load, TransformBegins, Write, TransformEnds, Save, Prepared, Gate, Skip, CheckBegins,
           CheckEnds, Record, Decide, Build, CompareOne, SaveVerdicts, process
  <1>4. pc[Command] # "built"
    BY <1>0 DEF Step, Lock, Load, TransformBegins, Write, TransformEnds, Save, Prepared, Gate, Skip, CheckBegins,
           CheckEnds, Record, Decide, Build, CompareOne, SaveVerdicts
  <1>5. QED
    BY <1>1, <1>2, <1>3, <1>4

(* Only the edits between two processes may bring an old version back.     *)
LEMMA IInvStays ==
    ASSUME NEW T, IInv(T), (UNCHANGED vars) \/ (up # "down" /\ Next)
    PROVE  IInv(T)'
  <1>1. tree \in [Models -> Versions] /\ sims \in Nat /\ copy \in [Models -> 0 .. Torn]
    <2>1. tree \in [Models -> Versions] /\ sims \in 1 .. MaxSims /\ copy \in Copies
      BY DEF IInv, Base, TypeOK
    <2>2. QED
      BY <2>1, ModelGateAssumption DEF Copies
  <1>2. ASSUME Edit PROVE ~ UNCHANGED vars
    <2>1. CASE \E m \in Models, v \in Versions : v # tree[m] /\ tree' = [tree EXCEPT ![m] = v]
      BY <1>1, <2>1 DEF vars
    <2>2. CASE sims' = sims + 1
      BY <1>1, <2>2 DEF vars
    <2>3. CASE \E m \in Removals : copy[m] # 0 /\ copy' = [copy EXCEPT ![m] = 0]
      BY <1>1, <2>3, ModelGateAssumption DEF vars, disk
    <2>4. QED
      BY <1>2, <2>1, <2>2, <2>3 DEF Edit
  <1>3. up # "down" => ~ Edit
    BY DEF Edit
  <1>4. QED
    BY <1>2, <1>3, IInvStep

LEMMA CommandInvStep ==
    ASSUME CommandInv, [LNext]_allvars
    PROVE  CommandInv'
  <1>1. CASE smoke = "off" /\ Next /\ UNCHANGED <<pvars, page>>
    BY <1>1 DEF CommandInv, CommandRuns, AllPrepared, pvars
  <1>2. CASE smoke = "transform" /\ Step(Command) /\ UNCHANGED <<pvars, page>>
    <2>1. IInv({}) /\ AllPrepared /\ up = "command" /\ smoke' = "transform"
      BY <1>2 DEF CommandInv, CommandRuns, pvars
    <2>2. IInv({})'
      BY <1>2, <2>1, CommandIsJob, IInvStays DEF Next
    <2>3. QED
      BY <1>2, <2>1, <2>2, CommandStep DEF CommandInv, CommandRuns, AllPrepared
  <1>3. ASSUME UNCHANGED vars, smoke' = smoke \/ (smoke # "off" /\ smoke' # "off" /\ pc[Command] = "built")
        PROVE  CommandInv'
    <2>1. smoke # "off" => IInv({})'
      BY <1>3, IInvStays DEF CommandInv
    <2>2. CommandRuns' /\ AllPrepared'
      BY <1>3 DEF CommandInv, CommandRuns, AllPrepared, vars, disk, process, thread, current, DepsNow
    <2>3. QED
      BY <1>3, <2>1, <2>2 DEF CommandInv
  <1>4. CASE Smoke /\ UNCHANGED <<vars, page>>
    <2>1. smoke' = smoke \/ (smoke # "off" /\ smoke' # "off" /\ pc[Command] = "built")
      BY <1>4 DEF CommandInv, CommandRuns, Smoke, Begin, Take, Cancel, WriteTable, Launch, ContainerEnds,
                  RunOne
    <2>2. QED
      BY <1>3, <1>4, <2>1
  <1>5. CASE Publish /\ UNCHANGED vars
    <2>1. smoke # "off" /\ smoke' # "off" /\ pc[Command] = "built"
      BY <1>5 DEF CommandInv, CommandRuns, Publish
    <2>2. QED
      BY <1>3, <1>5, <2>1
  <1>6. CASE UNCHANGED allvars
    BY <1>3, <1>6 DEF allvars, pvars
  <1>7. QED
    BY <1>1, <1>2, <1>4, <1>5, <1>6, WhichSteps

-----------------------------------------------------------------------------
(* The scripts.                                                            *)
LEMMA PlacesAreScripts == \A i \in DOMAIN Order : Order[i] \in Scripts
  BY DEF Scripts

LEMMA BlankIsLeft == Blank \in Left /\ [Blank EXCEPT !.oom = TRUE] \in Left
  BY DEF Blank, Left

LEMMA SmokeTypesStep ==
    ASSUME SmokeTypes, [LNext]_allvars
    PROVE  SmokeTypes'
  <1>1. CASE UNCHANGED pvars
    BY <1>1 DEF SmokeTypes, pvars
  <1>2. CASE Begin
    BY <1>2, BlankIsLeft DEF Begin, SmokeTypes, write_scripts
  <1>3. CASE Take
    BY <1>3, PlacesAreScripts DEF Take, SmokeTypes
  <1>4. CASE Cancel \/ WriteTable \/ Publish
    BY <1>4 DEF Cancel, WriteTable, Publish, SmokeTypes
  <1>5. ASSUME NEW s \in Scripts, Launch(s) PROVE SmokeTypes'
    BY <1>5 DEF Launch, SmokeTypes
  <1>6. ASSUME NEW s \in Scripts, ContainerEnds(s) PROVE SmokeTypes'
    <2>1. PICK l \in CanEnd[s] \cup {[Blank EXCEPT !.oom = TRUE]} :
              /\ left' = [left EXCEPT ![s] = l]
              /\ done' = IF l.wrote = "all" THEN [done EXCEPT ![s] = @ + 1] ELSE done
      BY <1>6 DEF ContainerEnds
    <2>2. l \in Left
      BY <2>1, BlankIsLeft, PortabilityAssumption
    <2>3. left' \in [Scripts -> Left]
      BY <2>1, <2>2 DEF SmokeTypes
    <2>4. done' \in [Scripts -> Nat]
      BY <2>1 DEF SmokeTypes
    <2>5. QED
      BY <1>6, <2>3, <2>4 DEF ContainerEnds, SmokeTypes
  <1>7. ASSUME NEW s \in Scripts, RunOne(s) PROVE SmokeTypes'
    BY <1>7 DEF RunOne, SmokeTypes, counted
  <1>8. QED
    BY <1>1, <1>2, <1>3, <1>4, <1>5, <1>6, <1>7, WhichSteps DEF Smoke, allvars

(* What the rows read of the models does not change while scripts run.     *)
LEMMA ModelsStay ==
    ASSUME UNCHANGED vars
    PROVE  /\ write_scripts' = write_scripts
           /\ \A m : gate(m)' = gate(m) /\ equiv(m)' = equiv(m) /\ gated(m, manifest[m])' = gated(m, manifest[m])
  <1>1. manifest' = manifest
    BY DEF vars, disk
  <1>2. QED
    BY <1>1 DEF write_scripts, gate, equiv, gated, refused, status, verdict, descendants_blocked,
                descendant_configs

(* A script moves only while the run is on.                                *)
LEMMA ScriptMoves ==
    ASSUME SmokeTypes, ScriptPlaces, NEW s \in Scripts, at[s] \in {"taken", "up", "left"},
           UNCHANGED <<vars, smoke, queue>>,
           NEW w \in {"taken", "up", "left", "over", "cancelled"}, at' = [at EXCEPT ![s] = w]
    PROVE  ScriptPlaces' /\ smoke \in {"run", "interrupted"}
  <1>1. smoke \in {"run", "interrupted"}
    BY DEF SmokeTypes, ScriptPlaces
  <1>2. \A x \in Scripts : at'[x] = IF x = s THEN w ELSE at[x]
    BY DEF SmokeTypes
  <1>3. \A i \in queue : Order[i] \in Scripts /\ Order[i] # s
    BY PlacesAreScripts DEF SmokeTypes, ScriptPlaces
  <1>4. write_scripts' = write_scripts /\ write_scripts \subseteq DOMAIN Order
    BY ModelsStay DEF write_scripts
  <1>5. \A i \in write_scripts : Order[i] \in Scripts
    BY <1>4, PlacesAreScripts
  <1>6. QED
    BY <1>1, <1>2, <1>3, <1>4, <1>5 DEF ScriptPlaces

LEMMA ScriptPlacesStep ==
    ASSUME SmokeTypes, ScriptPlaces, [LNext]_allvars
    PROVE  ScriptPlaces'
  <1>1. CASE smoke \in {"off", "transform"} /\ UNCHANGED pvars
    BY <1>1 DEF ScriptPlaces, pvars
  <1>2. CASE UNCHANGED <<vars, pvars>>
    BY <1>2, ModelsStay DEF ScriptPlaces, pvars
  <1>3. CASE Begin
    <2>1. /\ smoke' = "run" /\ queue' = write_scripts /\ write_scripts' = write_scripts
          /\ at' = [s \in Scripts |-> "waits"]
      BY <1>3, ModelsStay DEF Begin
    <2>2. \A i \in write_scripts : Order[i] \in Scripts
      BY PlacesAreScripts DEF write_scripts
    <2>3. QED
      BY <2>1, <2>2 DEF ScriptPlaces
  <1>4. CASE Take
    <2>1. PICK i \in queue : at' = [at EXCEPT ![Order[i]] = "taken"] /\ queue' = queue \ {i}
      BY <1>4 DEF Take
    <2>2. smoke = "run" /\ smoke' = "run" /\ write_scripts' = write_scripts
      BY <1>4, ModelsStay DEF Take
    <2>3. \A k \in DOMAIN Order : at'[Order[k]] = IF k = i THEN "taken" ELSE at[Order[k]]
      BY <2>1, PlacesAreScripts, PortabilityAssumption DEF SmokeTypes
    <2>4. write_scripts \subseteq DOMAIN Order /\ queue \subseteq DOMAIN Order
      BY DEF write_scripts, SmokeTypes
    <2>5. QED
      BY <2>1, <2>2, <2>3, <2>4 DEF ScriptPlaces
  <1>5. CASE Cancel
    BY <1>5 DEF Cancel, ScriptPlaces
  <1>6. CASE WriteTable
    <2>1. /\ smoke = "run" /\ smoke' = "done" /\ queue = {} /\ queue' = {} /\ at' = at
          /\ \A s \in Scripts : at[s] \in {"waits", "over"}
      BY <1>6 DEF WriteTable
    <2>2. write_scripts' = write_scripts /\ \A i \in write_scripts : Order[i] \in Scripts
      BY <1>6, ModelsStay, PlacesAreScripts DEF WriteTable, write_scripts
    <2>3. \A i \in write_scripts : at[Order[i]] # "waits"
      BY <2>1 DEF ScriptPlaces
    <2>4. QED
      BY <2>1, <2>2, <2>3 DEF ScriptPlaces
  <1>7. CASE Publish
    BY <1>7, ModelsStay DEF Publish, ScriptPlaces
  <1>8. ASSUME NEW s \in Scripts, Launch(s) \/ ContainerEnds(s) \/ RunOne(s) PROVE ScriptPlaces'
    BY <1>8, ScriptMoves DEF Launch, ContainerEnds, RunOne
  <1>9. QED
    BY <1>1, <1>2, <1>3, <1>4, <1>5, <1>6, <1>7, <1>8, WhichSteps DEF Smoke, allvars, pvars

(* Done.txt names a script once it is over, and only one that ran before.  *)
LEMMA CountedStep ==
    ASSUME SmokeTypes, ScriptPlaces, Counted, [LNext]_allvars
    PROVE  Counted'
  <1>1. CASE UNCHANGED <<at, done>>
    BY <1>1 DEF Counted
  <1>2. CASE Begin
    BY <1>2 DEF Begin, Counted
  <1>3. CASE Take
    <2>1. PICK i \in queue : at' = [at EXCEPT ![Order[i]] = "taken"] /\ done' = done
      BY <1>3 DEF Take
    <2>2. Order[i] \in Scripts /\ at[Order[i]] = "waits"
      BY PlacesAreScripts DEF SmokeTypes, ScriptPlaces
    <2>3. QED
      BY <2>1, <2>2 DEF SmokeTypes, Counted
  <1>4. ASSUME NEW s \in Scripts, Launch(s) PROVE Counted'
    BY <1>4 DEF Launch, SmokeTypes, Counted
  <1>5. ASSUME NEW s \in Scripts, ContainerEnds(s) PROVE Counted'
    <2>1. /\ at[s] = "up" /\ at' = [at EXCEPT ![s] = "left"]
          /\ done' = [done EXCEPT ![s] = @ + 1] \/ done' = done
      BY <1>5 DEF ContainerEnds
    <2>2. done[s] = 0
      BY <2>1 DEF Counted
    <2>3. \A x \in Scripts : /\ at'[x] = IF x = s THEN "left" ELSE at[x]
                             /\ x # s => done'[x] = done[x]
                             /\ done'[s] \in {0, 1}
      BY <2>1, <2>2 DEF SmokeTypes
    <2>4. QED
      BY <2>3 DEF Counted
  <1>6. ASSUME NEW s \in Scripts, RunOne(s) PROVE Counted'
    <2>1. at[s] = "left" /\ at' = [at EXCEPT ![s] = "over"] /\ done' = [done EXCEPT ![s] = counted(s)]
      BY <1>6 DEF RunOne
    <2>2. counted(s) = 1
      BY <2>1 DEF Counted, counted
    <2>3. QED
      BY <2>1, <2>2 DEF SmokeTypes, Counted
  <1>7. CASE Cancel \/ WriteTable \/ Publish
    BY <1>1, <1>7 DEF Cancel, WriteTable, Publish
  <1>8. QED
    BY <1>1, <1>2, <1>3, <1>4, <1>5, <1>6, <1>7, WhichSteps DEF Smoke, allvars, pvars

LEMMA LogsAreNotesStep ==
    ASSUME SmokeTypes, ScriptPlaces, LogsAreNotes, [LNext]_allvars
    PROVE  LogsAreNotes'
  <1>0. \A l : Notes(l)' = Notes(l)
    BY DEF Notes, infra
  <1>1. ASSUME UNCHANGED log, \A s \in Scripts : at'[s] = "over" <=> at[s] = "over",
               \A s \in Scripts : at[s] = "over" => left'[s] = left[s]
        PROVE  LogsAreNotes'
    BY <1>0, <1>1 DEF LogsAreNotes
  <1>2. CASE UNCHANGED pvars
    BY <1>1, <1>2 DEF pvars
  <1>3. CASE Begin
    BY <1>3 DEF Begin, LogsAreNotes
  <1>4. CASE Take
    <2>1. PICK i \in queue : at' = [at EXCEPT ![Order[i]] = "taken"]
      BY <1>4 DEF Take
    <2>2. Order[i] \in Scripts /\ at[Order[i]] = "waits"
      BY PlacesAreScripts DEF SmokeTypes, ScriptPlaces
    <2>3. QED
      BY <1>1, <1>4, <2>1, <2>2 DEF Take, SmokeTypes
  <1>5. ASSUME NEW s \in Scripts, Launch(s) PROVE LogsAreNotes'
    BY <1>1, <1>5 DEF Launch, SmokeTypes
  <1>6. ASSUME NEW s \in Scripts, ContainerEnds(s) PROVE LogsAreNotes'
    BY <1>1, <1>6 DEF ContainerEnds, SmokeTypes
  <1>7. ASSUME NEW s \in Scripts, RunOne(s) PROVE LogsAreNotes'
    <2>1. /\ at' = [at EXCEPT ![s] = "over"] /\ log' = [log EXCEPT ![s] = Notes(left[s])]
          /\ left' = left
      BY <1>7 DEF RunOne
    <2>2. QED
      BY <1>0, <2>1 DEF LogsAreNotes, SmokeTypes
  <1>8. CASE Cancel \/ WriteTable \/ Publish
    BY <1>1, <1>8 DEF Cancel, WriteTable, Publish
  <1>9. QED
    BY <1>2, <1>3, <1>4, <1>5, <1>6, <1>7, <1>8, WhichSteps DEF Smoke, allvars

-----------------------------------------------------------------------------
(* The table and its page.                                                 *)
LEMMA RowsStay ==
    ASSUME UNCHANGED <<vars, left, log>>
    PROVE  \A m, eq : row(m, eq)' = row(m, eq) /\ equiv(m)' = equiv(m)
  <1>1. left' = left /\ log' = log
    OBVIOUS
  <1>2. ASSUME NEW m, NEW t PROVE tool_cell(m, t)' = tool_cell(m, t)
    BY <1>1, SMT DEF tool_cell, Category
  <1>3. QED
    BY <1>2, ModelsStay DEF row

LEMMA TableOfRowsStep ==
    ASSUME SmokeTypes, ScriptPlaces, TableOfRows, [LNext]_allvars
    PROVE  TableOfRows'
  <1> SUFFICES ASSUME smoke' \in {"done", "rendered"} PROVE IsTable(table)'
    BY DEF TableOfRows
  <1>1. CASE WriteTable
    <2>1. PICK eq \in [SmokeModels -> {"pass", "fail", "error", "blocked", "none"}] :
              /\ \A m \in SmokeModels : eq[m] \in equiv(m)
              /\ table' = [m \in SmokeModels |-> row(m, eq[m])]
      BY <1>1 DEF WriteTable
    <2>2. \A m, x : row(m, x)' = row(m, x) /\ equiv(m)' = equiv(m)
      BY <1>1, RowsStay DEF WriteTable
    <2>3. QED
      BY <2>1, <2>2 DEF IsTable
  <1>2. ASSUME smoke \in {"done", "rendered"}, UNCHANGED <<vars, left, log, table>>
        PROVE  IsTable(table)'
    <2>1. \A m, x : row(m, x)' = row(m, x) /\ equiv(m)' = equiv(m)
      BY <1>2, RowsStay
    <2>2. PICK eq \in [SmokeModels -> {"pass", "fail", "error", "blocked", "none"}] :
              /\ \A m \in SmokeModels : eq[m] \in equiv(m)
              /\ table = [m \in SmokeModels |-> row(m, eq[m])]
      BY <1>2 DEF TableOfRows, IsTable
    <2>3. QED
      BY <1>2, <2>1, <2>2 DEF IsTable
  <1>3. CASE Publish
    BY <1>2, <1>3 DEF Publish
  <1>4. CASE UNCHANGED <<vars, pvars>>
    BY <1>2, <1>4 DEF pvars
  <1>5. CASE smoke \in {"off", "transform"} /\ UNCHANGED pvars
    BY <1>5 DEF pvars
  <1>6. ASSUME NEW s \in Scripts, Launch(s) \/ ContainerEnds(s) \/ RunOne(s) PROVE FALSE
    BY <1>6 DEF Launch, ContainerEnds, RunOne, ScriptPlaces
  <1>7. ~ Begin /\ ~ Take /\ ~ Cancel
    BY DEF Begin, Take, Cancel
  <1>8. QED
    BY <1>1, <1>3, <1>4, <1>5, <1>6, <1>7, WhichSteps DEF Smoke, allvars

LEMMA PageOfTablesStep ==
    ASSUME SmokeTypes, ScriptPlaces, PageOfTables, [LNext]_allvars
    PROVE  PageOfTables'
  <1>1. CASE Publish
    BY <1>1 DEF Publish, PageOfTables, load_results
  <1>2. ASSUME UNCHANGED page, smoke # "rendered", smoke' # "rendered" PROVE PageOfTables'
    BY <1>2 DEF PageOfTables
  <1>3. CASE UNCHANGED <<smoke, table, page>>
    BY <1>3 DEF PageOfTables
  <1>4. CASE (Begin \/ Take \/ Cancel \/ WriteTable) /\ UNCHANGED page
    BY <1>2, <1>4 DEF Begin, Take, Cancel, WriteTable
  <1>5. ASSUME NEW s \in Scripts, Launch(s) \/ ContainerEnds(s) \/ RunOne(s), UNCHANGED page
        PROVE  PageOfTables'
    BY <1>3, <1>5 DEF Launch, ContainerEnds, RunOne
  <1>6. QED
    BY <1>1, <1>3, <1>4, <1>5, WhichSteps DEF Smoke, allvars, pvars

LEMMA PInitBegins == PInit => (smoke = "off" \/ (smoke = "transform" /\ up = "command")) /\ Beginning
  BY InitBegins DEF PInit, Beginning

LEMMA SmokeInvInit == LInit => SmokeInv
  <1> SUFFICES ASSUME LInit PROVE SmokeInv
    OBVIOUS
  <1>1. PInit /\ page = {} /\ IInv({}) /\ POff /\ (smoke = "off" \/ (smoke = "transform" /\ up = "command"))
    BY PInitBegins, IInvInit DEF LInit, PInit
  <1>2. Beginning
    BY <1>1, PInitBegins
  <1>3. CommandInv
    BY <1>1, <1>2, CommandIsJob DEF Beginning, Unstarted, CommandInv, CommandRuns, AllPrepared
  <1>4. SmokeTypes
    BY <1>1, BlankIsLeft DEF SmokeTypes, POff
  <1>5. ScriptPlaces /\ Counted /\ LogsAreNotes /\ TableOfRows /\ PageOfTables
    BY <1>1 DEF POff, ScriptPlaces, Counted, LogsAreNotes, TableOfRows, PageOfTables
  <1>6. QED
    BY <1>3, <1>4, <1>5 DEF SmokeInv

LEMMA SmokeInvStep == SmokeInv /\ [LNext]_allvars => SmokeInv'
  BY CommandInvStep, SmokeTypesStep, ScriptPlacesStep, CountedStep, LogsAreNotesStep, TableOfRowsStep,
     PageOfTablesStep DEF SmokeInv

(* The invariant of the smoke run, whatever edits bring back before it.    *)
THEOREM SmokeInductive == LSpec => []SmokeInv
  BY SmokeInvInit, SmokeInvStep, PTL DEF LSpec, allvars

(* Each step that ends a script counts it, and none starts a container     *)
(* after an interrupt.                                                     *)
LEMMA InterruptedStep ==
    ASSUME SmokeTypes, smoke = "interrupted", [LNext]_allvars
    PROVE  table' = table /\ \A s \in Scripts : at[s] # "up" => at'[s] # "up"
  <1>1. CASE UNCHANGED <<at, table>>
    BY <1>1
  <1>2. ASSUME NEW s \in Scripts, Launch(s) \/ ContainerEnds(s) \/ RunOne(s)
        PROVE  /\ table' = table
               /\ \E w \in {"cancelled", "left", "over"} : at' = [at EXCEPT ![s] = w]
    BY <1>2 DEF Launch, ContainerEnds, RunOne
  <1>3. ASSUME NEW s \in Scripts, NEW w \in {"cancelled", "left", "over"}, at' = [at EXCEPT ![s] = w]
        PROVE  \A x \in Scripts : at[x] # "up" => at'[x] # "up"
    BY <1>3 DEF SmokeTypes
  <1>4. ~ Begin /\ ~ Take /\ ~ Cancel /\ ~ WriteTable /\ ~ Publish
    BY DEF Begin, Take, Cancel, WriteTable, Publish
  <1>5. QED
    BY <1>1, <1>2, <1>3, <1>4, WhichSteps DEF Smoke, allvars, pvars

THEOREM EveryScriptIsCounted == LSpec => EveryScriptCounts
  <1> DEFINE A == /\ smoke' = "done" => \A s \in Scripts : done'[s] = (IF at[s] = "over" THEN 1 ELSE 0)
                  /\ \A s \in Scripts : at'[s] = "over" => done'[s] = 1
                  /\ smoke = "interrupted" =>
                        /\ table' = table
                        /\ \A s \in Scripts : at[s] # "up" => at'[s] # "up"
  <1>1. SmokeInv /\ SmokeInv' /\ [LNext]_allvars => [A]_<<vars, pvars>>
    <2> SUFFICES ASSUME SmokeInv, SmokeInv', [LNext]_allvars, ~ UNCHANGED <<vars, pvars>> PROVE A
      OBVIOUS
    <2>1. SmokeTypes /\ ScriptPlaces /\ Counted'
      BY DEF SmokeInv
    <2>2. \A s \in Scripts : at'[s] = "over" => done'[s] = 1
      BY <2>1 DEF Counted
    <2>3. ASSUME smoke' = "done", NEW s \in Scripts PROVE done'[s] = IF at[s] = "over" THEN 1 ELSE 0
      <3>1. at'[s] \in {"waits", "over"}
        BY <2>3 DEF SmokeInv, ScriptPlaces
      <3>2. done'[s] = IF at'[s] = "over" THEN 1 ELSE 0
        BY <2>1, <3>1 DEF Counted
      <3>3. at' = at
        <4>1. ASSUME NEW x \in Scripts, Launch(x) \/ ContainerEnds(x) \/ RunOne(x) PROVE FALSE
          BY <2>1, <2>3, <4>1 DEF Launch, ContainerEnds, RunOne, ScriptPlaces
        <4>2. ~ Begin /\ ~ Take /\ ~ Cancel /\ ~ Publish
          BY <2>3 DEF Begin, Take, Cancel, Publish
        <4>3. WriteTable => at' = at
          BY DEF WriteTable
        <4>4. QED
          BY <4>1, <4>2, <4>3, WhichSteps DEF Smoke, allvars, pvars
      <3>4. QED
        BY <3>2, <3>3
    <2>4. QED
      BY <2>1, <2>2, <2>3, InterruptedStep
  <1>2. QED
    BY <1>1, SmokeInductive, PTL DEF LSpec, EveryScriptCounts, allvars

-----------------------------------------------------------------------------
(* What the log of a script says of it, and the cell of its scripts.       *)
LEMMA LeastPlace ==
    ASSUME NEW R, R \subseteq DOMAIN Order, R # {}
    PROVE  \E i \in R : \A k \in R : i <= k
  <1>1. DOMAIN Order \subseteq Nat
    BY PortabilityAssumption
  <1>2. PICK i \in R : \A k \in R : ~ (<<k, i>> \in OpToRel(<, Nat))
    BY <1>1, NatLessThanWellFounded, WFMin
  <1>3. \A k \in R : k \in Nat /\ i \in Nat /\ ~ (k < i)
    BY <1>1, <1>2 DEF OpToRel
  <1>4. QED
    BY <1>3

(* The script ended by itself: nothing killed it, and it was started.      *)
Mine(s) ==
    /\ ~ left[s].oom
    /\ \/ left[s].host = "returns"
       \/ left[s].host = "docker failed" /\ left[s].wrote # "nothing"

LEMMA WhatCategorySays ==
    ASSUME SmokeTypes, LogsAreNotes, NEW s \in Scripts, at[s] = "over"
    PROVE  /\ Category(s) \in {"yes", "infra-error", "oom", "timeout", "config", "other"}
           /\ Category(s) = "yes" <=> Shown(s)
           /\ Category(s) = "config" => Mine(s) /\ left[s].rc < 124 /\ "error" \notin left[s].lines
           /\ Category(s) = "other" => Mine(s) /\ left[s].rc # 124
           /\ infra(left[s]) => Category(s) \in {"yes", "infra-error"}
  <1> DEFINE l == left[s]
  <1>1. /\ l.wrote \in {"nothing", "rc", "all"} /\ l.rc \in {0, 1, 124, 139} /\ l.oom \in BOOLEAN
        /\ l.host \in {"returns", "timeout", "error", "docker failed"}
        /\ l.wrote = "nothing" => l.rc = 0
    BY DEF SmokeTypes, Left
  <1>r. l.rc \in {0, 1, 124, 139} /\ (l.wrote = "nothing" => l.rc = 0)
    BY <1>1
  <1>2. log[s] = Notes(l)
    BY DEF LogsAreNotes
  <1>3. /\ log[s].rc = "rc" <=> l.wrote # "nothing"
        /\ "infra" \in log[s].marks <=> infra(l)
        /\ "oom" \in log[s].marks <=> l.oom
        /\ "timeout" \in log[s].marks <=> (l.host = "timeout" \/ (l.wrote # "nothing" /\ l.rc = 124))
    <2>1. /\ log[s].rc = IF l.wrote # "nothing" THEN "rc"
                          ELSE IF l.oom \/ l.host = "timeout" THEN "killed" ELSE "none"
          /\ log[s].marks = (IF infra(l) THEN {"infra"} ELSE {}) \cup (IF l.oom THEN {"oom"} ELSE {})
                \cup (IF l.host = "timeout" \/ (l.wrote # "nothing" /\ l.rc = 124) THEN {"timeout"} ELSE {})
      BY <1>2 DEF Notes
    <2> HIDE DEF l
    <2>2. infra(l) \in BOOLEAN
      BY DEF infra
    <2>3. "oom" \in log[s].marks <=> l.oom
      BY <1>1, <2>1
    <2>4. "infra" \in log[s].marks <=> infra(l)
      BY <2>1, <2>2
    <2>5. QED
      BY <2>1, <2>3, <2>4
  <1>4. Category(s) = "yes" <=> Shown(s)
    BY <1>3 DEF Category, Shown
  <1>5. ASSUME ~ Shown(s)
        PROVE  Category(s) = IF infra(l) THEN "infra-error"
                             ELSE IF l.oom THEN "oom"
                             ELSE IF l.host = "timeout" \/ (l.wrote # "nothing" /\ l.rc = 124) THEN "timeout"
                             ELSE IF l.lines \cap {"config", "error"} = {"config"} /\ l.rc < 128 THEN "config"
                             ELSE "other"
    BY <1>1, <1>3, <1>5 DEF Category, Shown
  <1>6. ASSUME ~ Shown(s), Category(s) \in {"config", "other"}
        PROVE  Mine(s) /\ l.rc # 124
    <2>1. ~ infra(l)
      BY <1>5, <1>6
    <2>2. ~ l.oom
      BY <1>5, <1>6, <2>1
    <2>3. ~ (l.host = "timeout" \/ (l.wrote # "nothing" /\ l.rc = 124))
      BY <1>5, <1>6, <2>1, <2>2
    <2>4. l.host # "error" /\ ~ (l.host = "docker failed" /\ l.wrote = "nothing")
      BY <2>1, <2>2 DEF infra
    <2>5. Mine(s)
      BY <1>1, <2>2, <2>3, <2>4 DEF Mine
    <2>6. l.rc # 124
      <3> HIDE DEF l
      <3>1. CASE l.wrote = "nothing"
        BY <1>r, <3>1
      <3>2. CASE l.wrote # "nothing"
        BY <2>3, <3>2
      <3>3. QED
        BY <3>1, <3>2
    <2>7. QED
      BY <2>5, <2>6
  <1>7. ASSUME ~ Shown(s), Category(s) = "config"
        PROVE  l.rc < 124 /\ "error" \notin l.lines
    <2>1. l.lines \cap {"config", "error"} = {"config"} /\ l.rc < 128
      <3>1. ~ infra(l) /\ ~ l.oom
        BY <1>5, <1>7
      <3>2. QED
        BY <1>5, <1>7, <3>1
    <2>2. l.rc # 124
      BY <1>6, <1>7
    <2>4. l.rc < 124
      <3> HIDE DEF l
      <3>1. l.rc \in {0, 1}
        BY <1>r, <2>1, <2>2
      <3>2. QED
        BY <3>1
    <2>3. "error" \notin l.lines
      <3> HIDE DEF l
      <3>1. "error" \notin l.lines \cap {"config", "error"}
        BY <2>1
      <3>2. QED
        BY <3>1
    <2>6. QED
      BY <2>3, <2>4
  <1>8. QED
    BY <1>4, <1>5, <1>6, <1>7

(* A tool's cell speaks for all its scripts or for one that failed.        *)
LEMMA WhatCellSays ==
    ASSUME NEW m, NEW t
    PROVE  /\ tool_cell(m, t) = "yes" => \A s \in Own(m, t) : Category(s) = "yes"
           /\ tool_cell(m, t) = "config" => \A s \in Own(m, t) : Category(s) \in {"yes", "config"}
           /\ tool_cell(m, t) # "yes" =>
                \E s \in Own(m, t) : Category(s) # "yes" /\ Category(s) = tool_cell(m, t)
  <1> DEFINE bad == {i \in DOMAIN Order : Order[i][1] = m /\ Order[i][3] = t /\ Category(Order[i]) # "yes"}
             real == {i \in bad : Category(Order[i]) # "config"}
             first == CHOOSE i \in real : \A j \in real : i <= j
  <1>1. tool_cell(m, t) = IF bad = {} THEN "yes" ELSE IF real = {} THEN "config" ELSE Category(Order[first])
    BY DEF tool_cell
  <1>2. \A s \in Own(m, t) : \E i \in DOMAIN Order : s = Order[i] /\ Order[i][1] = m /\ Order[i][3] = t
    BY DEF Own, Scripts
  <1>3. \A i \in bad : Order[i] \in Own(m, t)
    BY PlacesAreScripts DEF Own
  <1>4. real # {} => first \in real
    <2>1. real # {} => \E i \in real : \A j \in real : i <= j
      BY LeastPlace
    <2>2. QED
      BY <2>1
  <1>5. CASE bad = {}
    BY <1>1, <1>2, <1>5
  <1>6. CASE bad # {} /\ real = {}
    <2>1. \A i \in bad : Category(Order[i]) = "config"
      BY <1>6
    <2>2. tool_cell(m, t) = "config"
      BY <1>1, <1>6
    <2>3. \A s \in Own(m, t) : Category(s) \in {"yes", "config"}
      BY <1>2, <2>1
    <2>4. QED
      BY <1>3, <1>6, <2>1, <2>2, <2>3
  <1>7. CASE real # {}
    <2>1. /\ Order[first] \in Own(m, t) /\ tool_cell(m, t) = Category(Order[first])
          /\ Category(Order[first]) # "yes" /\ Category(Order[first]) # "config"
      BY <1>1, <1>3, <1>4, <1>7
    <2>2. QED
      BY <2>1
  <1>8. QED
    BY <1>5, <1>6, <1>7

-----------------------------------------------------------------------------
(* What the table reads of the models, once all of them are made sure of.  *)
LEMMA PreparedModel ==
    ASSUME CommandInv, smoke \in {"done", "rendered"}, NEW m \in Models
    PROVE  /\ manifest[m] # None /\ manifest[m].ver = tree[m] /\ manifest[m].deps = DepsNow(m)
           /\ copy[m] = Correct(m) /\ Earned({}, m, manifest[m])
           /\ hierarchy({m}) = {m} \cup Below(m) /\ Below(m) \subseteq Models
  <1>1. IInv({}) /\ current(m, manifest[m]) /\ manifest[m].deps = DepsNow(m)
    BY DEF CommandInv, CommandRuns, AllPrepared
  <1>2. TypeOK /\ Disk({}) /\ Earned({}, m, manifest[m])
    BY <1>1 DEF IInv, Base, VerdictsEarned
  <1>3. copy[m] = Correct(m) /\ manifest[m].ver = tree[m]
    <2>1. Right({}, m, copy[m]) /\ manifest[m].ver = tree[m]
      BY <1>1, <1>2, CurrentIsCorrect
    <2>2. QED
      BY <2>1 DEF Right
  <1>4. QED
    BY <1>1, <1>2, <1>3, HierarchyIsBelow DEF current

Holds(m, kind) == \E x \in hierarchy({m}) : Kind[x][tree[x]] = kind

LEMMA DependsOnTree ==
    ASSUME CommandInv, smoke \in {"done", "rendered"}, NEW m \in Models, NEW kind
    PROVE  /\ DependsOn(manifest[m], kind) = {x \in Below(m) : Kind[x][tree[x]] = kind}
           /\ status(m, manifest[m]) = Kind[m][tree[m]]
           /\ Holds(m, kind) <=> status(m, manifest[m]) = kind \/ DependsOn(manifest[m], kind) # {}
  <1>1. /\ manifest[m].ver = tree[m] /\ manifest[m].deps = {<<x, tree[x]>> : x \in Below(m)}
        /\ hierarchy({m}) = {m} \cup Below(m)
    BY PreparedModel DEF DepsNow
  <1>2. DependsOn(manifest[m], kind) = {x \in Below(m) : Kind[x][tree[x]] = kind}
    <2>1. ASSUME NEW x \in Below(m), Kind[x][tree[x]] = kind PROVE x \in DependsOn(manifest[m], kind)
      <3>1. <<x, tree[x]>> \in manifest[m].deps
        BY <1>1, <2>1
      <3>2. QED
        BY <2>1, <3>1 DEF DependsOn
    <2>2. ASSUME NEW x \in DependsOn(manifest[m], kind) PROVE x \in Below(m) /\ Kind[x][tree[x]] = kind
      <3>1. PICK d \in manifest[m].deps : x = d[1] /\ Kind[d[1]][d[2]] = kind
        BY DEF DependsOn
      <3>2. QED
        BY <1>1, <3>1
    <2>3. QED
      BY <2>1, <2>2
  <1>3. status(m, manifest[m]) = Kind[m][tree[m]]
    BY <1>1 DEF status
  <1>4. QED
    BY <1>1, <1>2, <1>3 DEF Holds

LEMMA GateOfTree ==
    ASSUME CommandInv, smoke \in {"done", "rendered"}, NEW m \in Models
    PROVE  /\ gated(m, manifest[m]) <=> Holds(m, "transformed")
           /\ refused(m, manifest[m]) <=> Holds(m, "unsupported")
           /\ gate(m) \in {"", "refused", "blocked"}
           /\ gate(m) = "" <=> ~ Holds(m, "unsupported")
  <1>1. gated(m, manifest[m]) <=> Holds(m, "transformed")
    BY DependsOnTree DEF gated
  <1>2. refused(m, manifest[m]) <=> Holds(m, "unsupported")
    BY DependsOnTree DEF refused
  <1>3. gate(m) \in {"", "refused", "blocked"} /\ (gate(m) = "" <=> ~ Holds(m, "unsupported"))
    BY DependsOnTree DEF gate
  <1>4. QED
    BY <1>1, <1>2, <1>3

LEMMA VerdictTypes ==
    ASSUME CommandInv, smoke \in {"done", "rendered"}, NEW q \in Pairs
    PROVE  verdict(q) \in {"", "pass", "fail", "error"}
  <1>1. q[1] \in Models /\ q[2] \in Keys
    BY PairParts
  <1>2. manifest[q[1]] \in Entry
    BY <1>1, PreparedModel DEF CommandInv, IInv, Base, TypeOK, Manifests
  <1>3. QED
    BY <1>1, <1>2 DEF verdict, Entry

(* The pairs a model's cell is about: its own, and their descendants'.     *)
About(m) == needed(m) \cup UNION {descendant_configs(q, manifest[q[1]]) : q \in needed(m)}

LEMMA WhatEquivSays ==
    ASSUME CommandInv, smoke \in {"done", "rendered"}, NEW m \in Models, NEW eq \in equiv(m)
    PROVE  /\ About(m) \subseteq Pairs
           /\ eq = "pass" => \A q \in About(m) : verdict(q) = "pass"
           /\ eq \in {"fail", "error"} => \E q \in About(m) : verdict(q) = eq
           /\ gated(m, manifest[m]) /\ ~ refused(m, manifest[m]) => eq \in {"pass", "fail", "error", "none"}
           /\ eq = "pass" => gated(m, manifest[m])
  <1> DEFINE need == needed(m)
             below == UNION {descendants_blocked(q) : q \in need}
  <1>1. need \subseteq About(m) /\ About(m) \subseteq Pairs
    BY DescendantsArePairs DEF About, needed
  <1>2. \A q \in About(m) : verdict(q) \in {"", "pass", "fail", "error"}
    BY <1>1, VerdictTypes
  <1>3. \A v \in below : v # "pass" /\ \E q \in About(m) : verdict(q) = v
    BY DEF descendants_blocked, About
  <1>4. \A q \in About(m) : q \in need \/ verdict(q) = "pass" \/ verdict(q) \in below
    BY DEF descendants_blocked, About
  <1>5. CASE ~ gated(m, manifest[m]) \/ refused(m, manifest[m])
    <2>1. eq \in {"none", "blocked"}
      BY <1>5 DEF equiv
    <2>2. QED
      BY <1>1, <1>5, <2>1
  <1>6. CASE gated(m, manifest[m]) /\ ~ refused(m, manifest[m])
    <2>1. CASE \E q \in need : verdict(q) = "fail"
      <3>1. eq = "fail"
        BY <1>6, <2>1 DEF equiv
      <3>2. QED
        BY <1>1, <1>6, <2>1, <3>1
    <2>2. CASE ~ (\E q \in need : verdict(q) = "fail") /\ \E q \in need : verdict(q) = "error"
      <3>1. eq = "error"
        BY <1>6, <2>2 DEF equiv
      <3>2. QED
        BY <1>1, <1>6, <2>2, <3>1
    <2>3. CASE ~ (\E q \in need : verdict(q) \in {"fail", "error"}) /\ \E q \in need : verdict(q) = ""
      <3>1. eq = "none"
        BY <1>6, <2>3 DEF equiv
      <3>2. QED
        BY <1>1, <1>6, <3>1
    <2>4. CASE (\A q \in need : verdict(q) \notin {"fail", "error", ""}) /\ below # {}
      <3>1. eq \in {IF v = "" THEN "none" ELSE v : v \in below}
        BY <1>6, <2>4 DEF equiv
      <3>2. PICK v \in below : eq = IF v = "" THEN "none" ELSE v
        BY <3>1
      <3>3. v \in {"", "fail", "error"} /\ \E q \in About(m) : verdict(q) = v
        BY <1>2, <1>3
      <3>4. QED
        BY <1>1, <1>6, <3>2, <3>3
    <2>5. CASE (\A q \in need : verdict(q) \notin {"fail", "error", ""}) /\ below = {}
      <3>1. eq = "pass"
        BY <1>6, <2>5 DEF equiv
      <3>2. \A q \in About(m) : verdict(q) = "pass"
        BY <1>1, <1>2, <1>4, <2>5
      <3>3. QED
        BY <1>1, <1>6, <3>1, <3>2
    <2>6. QED
      BY <2>1, <2>2, <2>3, <2>4, <2>5
  <1>7. QED
    BY <1>5, <1>6

-----------------------------------------------------------------------------
(* What a row says, and of which scripts.                                  *)
Unbuilt(m, t) == t = "verilator" /\ gate(m) # ""

LEMMA RowIsCells ==
    \A m, eq : /\ row(m, eq).iverilog = tool_cell(m, "iverilog")
               /\ row(m, eq).verilator = IF gate(m) # "" THEN gate(m) ELSE tool_cell(m, "verilator")
               /\ row(m, eq).equiv = eq /\ row(m, eq).gated = gated(m, manifest[m])
  BY DEF row

LEMMA WhatRowSays ==
    ASSUME SmokeInv, smoke \in {"done", "rendered"}, NEW m \in SmokeModels, NEW t \in TOOLS
    PROVE  /\ m \in Models /\ DOMAIN table = SmokeModels
           /\ table[m].equiv \in equiv(m) /\ table[m].gated = gated(m, manifest[m])
           /\ Unbuilt(m, t) => table[m][t] \in {"refused", "blocked"}
           /\ ~ Unbuilt(m, t) => table[m][t] = tool_cell(m, t) /\ \A s \in Own(m, t) : at[s] = "over"
  <1>1. PICK eq \in [SmokeModels -> {"pass", "fail", "error", "blocked", "none"}] :
            /\ \A x \in SmokeModels : eq[x] \in equiv(x)
            /\ table = [x \in SmokeModels |-> row(x, eq[x])]
    BY DEF SmokeInv, TableOfRows, IsTable
  <1>2. m \in Models
    BY PortabilityAssumption DEF SmokeModels, Scripts
  <1>3. table[m] = row(m, eq[m])
    BY <1>1
  <1>4. gate(m) \in {"", "refused", "blocked"}
    BY <1>2, GateOfTree DEF SmokeInv
  <1>5. table[m][t] = IF Unbuilt(m, t) THEN gate(m) ELSE tool_cell(m, t)
    <2>1. CASE t = "iverilog"
      <3>1. table[m].iverilog = tool_cell(m, "iverilog")
        BY <1>3, RowIsCells
      <3>2. table[m][t] = table[m].iverilog
        BY <2>1
      <3>3. QED
        BY <2>1, <3>1, <3>2 DEF Unbuilt
    <2>2. CASE t = "verilator"
      <3>1. table[m].verilator = IF gate(m) # "" THEN gate(m) ELSE tool_cell(m, "verilator")
        BY <1>3, RowIsCells
      <3>2. table[m][t] = table[m].verilator
        BY <2>2
      <3>3. QED
        BY <2>2, <3>1, <3>2 DEF Unbuilt
    <2>3. QED
      BY <2>1, <2>2 DEF TOOLS
  <1>6. ASSUME ~ Unbuilt(m, t), NEW s \in Own(m, t) PROVE at[s] = "over"
    <2>1. PICK i \in DOMAIN Order : s = Order[i] /\ Order[i][1] = m /\ Order[i][3] = t
      BY DEF Own, Scripts
    <2>2. i \in write_scripts
      BY <1>6, <2>1 DEF write_scripts, Unbuilt, TOOLS
    <2>3. QED
      BY <2>1, <2>2 DEF SmokeInv, ScriptPlaces
  <1>7. /\ DOMAIN table = SmokeModels
        /\ table[m].equiv \in equiv(m) /\ table[m].gated = gated(m, manifest[m])
    BY <1>1, <1>3, RowIsCells
  <1>8. Unbuilt(m, t) => table[m][t] \in {"refused", "blocked"}
    BY <1>4, <1>5 DEF Unbuilt
  <1>9. QED
    BY <1>2, <1>5, <1>6, <1>7, <1>8

(* An equiv of pass is about the present copies.                           *)
LEMMA PassIsOfCopies ==
    ASSUME CommandInv, smoke \in {"done", "rendered"}, NEW q \in Pairs, verdict(q) = "pass",
           NEW x \in hierarchy({q[1]}), Kind[x][tree[x]] = "transformed"
    PROVE  manifest[q[1]].equiv[q[2]].of[x] = copy[x]
  <1> DEFINE m == q[1]  e == manifest[m]
  <1>1. m \in Models /\ q[2] \in Keys
    BY PairParts
  <1>2. /\ e # None /\ e.ver = tree[m] /\ e.deps = DepsNow(m) /\ Earned({}, m, e)
        /\ hierarchy({m}) = {m} \cup Below(m) /\ Below(m) \subseteq Models
    BY <1>1, PreparedModel
  <1>3. copy[x] = tree[x]
    BY <1>1, <1>2, PreparedModel DEF Correct
  <1>4. e.equiv[q[2]].status = "pass"
    BY DEF verdict
  <1>5. CASE x = m
    BY <1>1, <1>2, <1>3, <1>4, <1>5 DEF Earned, IsOf
  <1>6. CASE x \in Below(m)
    <2>1. <<x, tree[x]>> \in e.deps
      BY <1>2, <1>6 DEF DepsNow
    <2>2. Kind[<<x, tree[x]>>[1]][<<x, tree[x]>>[2]] = "transformed"
      OBVIOUS
    <2>3. IsOf({}, <<x, tree[x]>>[1], e.equiv[q[2]].of[<<x, tree[x]>>[1]], <<x, tree[x]>>[2])
      BY <1>1, <1>2, <1>4, <2>1, <2>2 DEF Earned
    <2>4. QED
      BY <1>3, <2>3 DEF IsOf
  <1>7. QED
    BY <1>2, <1>5, <1>6

LEMMA YesIsEarnedFromInv == SmokeInv => YesIsEarned
  <1> SUFFICES ASSUME SmokeInv, smoke = "done", NEW m \in SmokeModels
               PROVE  /\ \A t \in TOOLS : table[m][t] = "yes" =>
                            \A s \in Own(m, t) :
                                /\ at[s] = "over" /\ left[s].wrote # "nothing"
                                /\ left[s].rc = 0 /\ "ok" \in left[s].lines
                      /\ table[m].verilator = "yes" =>
                            \A x \in hierarchy({m}) :
                                /\ Kind[x][tree[x]] # "unsupported"
                                /\ Kind[x][tree[x]] = "transformed" => copy[x] = tree[x]
                      /\ table[m].equiv = "pass" =>
                            \A q \in Pairs : q[1] = m =>
                                \A p \in {q} \cup {d \in Uses[q] : Kind[d[1]][tree[d[1]]] = "transformed"} :
                                    /\ verdict(p) = "pass"
                                    /\ \A x \in hierarchy({p[1]}) : Kind[x][tree[x]] = "transformed" =>
                                          manifest[p[1]].equiv[p[2]].of[x] = copy[x]
    BY DEF YesIsEarned
  <1>0. CommandInv /\ SmokeTypes /\ LogsAreNotes
    BY DEF SmokeInv
  <1>1. ASSUME NEW t \in TOOLS, table[m][t] = "yes", NEW s \in Own(m, t)
        PROVE  at[s] = "over" /\ Shown(s)
    <2>1. tool_cell(m, t) = "yes" /\ at[s] = "over" /\ s \in Scripts
      BY <1>1, WhatRowSays DEF Own
    <2>2. QED
      BY <1>0, <2>1, WhatCellSays, WhatCategorySays
  <1>2. m \in Models /\ hierarchy({m}) \subseteq Models
    BY <1>0, WhatRowSays, PreparedModel DEF TOOLS
  <1>3. ASSUME table[m].verilator = "yes", NEW x \in hierarchy({m})
        PROVE  /\ Kind[x][tree[x]] # "unsupported"
               /\ Kind[x][tree[x]] = "transformed" => copy[x] = tree[x]
    <2>1. ~ Unbuilt(m, "verilator")
      BY <1>3, WhatRowSays DEF TOOLS
    <2>2. ~ Holds(m, "unsupported")
      BY <1>0, <1>2, <2>1, GateOfTree DEF Unbuilt
    <2>3. QED
      BY <1>0, <1>2, <2>2, PreparedModel DEF Holds, Correct
  <1>4. ASSUME table[m].equiv = "pass", NEW q \in Pairs, q[1] = m,
               NEW p \in {q} \cup {d \in Uses[q] : Kind[d[1]][tree[d[1]]] = "transformed"}
        PROVE  p \in Pairs /\ verdict(p) = "pass"
    <2>1. \A x \in About(m) : verdict(x) = "pass" /\ x \in Pairs
      <3>1. table[m].equiv \in equiv(m)
        BY WhatRowSays DEF TOOLS
      <3>2. QED
        BY <1>0, <1>2, <1>4, <3>1, WhatEquivSays
    <2>2. q \in needed(m)
      BY <1>4 DEF needed
    <2>3. ASSUME p # q PROVE p \in descendant_configs(q, manifest[q[1]])
      <3>1. p[1] \in Below(m) /\ Kind[p[1]][tree[p[1]]] = "transformed" /\ p \in Uses[q]
        BY <1>4, <2>3, UsesAreBelow
      <3>2. p[1] \in DependsOn(manifest[m], "transformed")
        BY <1>0, <1>2, <3>1, DependsOnTree
      <3>3. QED
        BY <1>4, <3>1, <3>2 DEF descendant_configs
    <2>4. p \in About(m)
      BY <2>2, <2>3 DEF About
    <2>5. QED
      BY <2>1, <2>4
  <1>5. ASSUME NEW p \in Pairs, verdict(p) = "pass", NEW x \in hierarchy({p[1]}),
               Kind[x][tree[x]] = "transformed"
        PROVE  manifest[p[1]].equiv[p[2]].of[x] = copy[x]
    BY <1>0, <1>5, PassIsOfCopies
  <1>6. QED
    BY <1>1, <1>3, <1>4, <1>5 DEF Shown

LEMMA NoIsTheModelsFromInv == SmokeInv => NoIsTheModels
  <1> SUFFICES ASSUME SmokeInv, smoke = "done", NEW m \in SmokeModels, NEW t \in TOOLS
               PROVE  LET failed == {s \in Own(m, t) : at[s] = "over" /\ ~ Shown(s)}
                      IN  /\ table[m][t] = "config" =>
                                \A s \in failed : Mine(s) /\ "error" \notin left[s].lines /\ left[s].rc < 124
                          /\ table[m][t] = "other" => \E s \in failed : Mine(s) /\ left[s].rc # 124
    BY DEF NoIsTheModels, Mine, Shown
  <1>0. SmokeTypes /\ LogsAreNotes
    BY DEF SmokeInv
  <1>1. CASE Unbuilt(m, t)
    BY <1>1, WhatRowSays
  <1>2. CASE ~ Unbuilt(m, t)
    <2>1. table[m][t] = tool_cell(m, t) /\ \A s \in Own(m, t) : at[s] = "over" /\ s \in Scripts
      BY <1>2, WhatRowSays DEF Own
    <2>2. ASSUME table[m][t] = "config", NEW s \in Own(m, t), ~ Shown(s)
          PROVE  Mine(s) /\ "error" \notin left[s].lines /\ left[s].rc < 124
      <3>1. Category(s) = "config"
        BY <1>0, <2>1, <2>2, WhatCellSays, WhatCategorySays
      <3>2. QED
        BY <1>0, <2>1, <2>2, <3>1, WhatCategorySays
    <2>3. ASSUME table[m][t] = "other"
          PROVE  \E s \in Own(m, t) : ~ Shown(s) /\ Mine(s) /\ left[s].rc # 124
      <3>1. PICK s \in Own(m, t) : Category(s) = "other"
        BY <2>1, <2>3, WhatCellSays
      <3>2. QED
        BY <1>0, <2>1, <3>1, WhatCategorySays
    <2>4. QED
      BY <2>1, <2>2, <2>3
  <1>3. QED
    BY <1>1, <1>2

(* Neither a yes nor a no of the table says more than what was run.        *)
THEOREM TheTableIsTrue == LSpec => []TableIsTrue
  <1>1. SmokeInv => TableIsTrue
    BY YesIsEarnedFromInv, NoIsTheModelsFromInv DEF TableIsTrue
  <1>2. QED
    BY <1>1, SmokeInductive, PTL

-----------------------------------------------------------------------------
(* What lint says of a test of a model of this table.                      *)
LEMMA RowIsShown ==
    ASSUME SmokeInv, smoke = "rendered", page # {}, NEW m \in SmokeModels
    PROVE  table[m] \in RowsOf(m) /\ RowsOf(m) # {}
  <1>1. table \in page
    BY DEF SmokeInv, PageOfTables
  <1>2. m \in DOMAIN table
    BY WhatRowSays DEF TOOLS
  <1>3. QED
    BY <1>1, <1>2 DEF RowsOf

LEMMA WhatLintSays ==
    ASSUME SmokeInv, smoke = "rendered", page # {}, NEW t \in Tests, ModelOf[t.prim] \in SmokeModels
    PROVE  LET rows == RowsOf(ModelOf[t.prim])
               issues == check_portability(t)
           IN  /\ \A x \in Contradicted(t, rows) : YesIssue(x[1], x[2]) \in issues
               /\ t.runners["verilator"] = "yes" /\ (\E r \in rows : Blocks(r)) =>
                     Issue("error", "equivalence", "verilator") \in issues
               /\ \A tool \in Unexplained(t, rows) : Issue("warning", "matches no row", tool) \in issues
               /\ Unverified => Issue("error", "no verdict", "verilator") \in issues
               /\ \A i \in issues : \/ \E x \in Contradicted(t, rows) : i = YesIssue(x[1], x[2])
                                    \/ i = Issue("error", "equivalence", "verilator")
                                    \/ \E tool \in TOOLS : i = Issue("warning", "matches no row", tool)
                                    \/ i = Issue("error", "no verdict", "verilator")
  <1> DEFINE rows == RowsOf(ModelOf[t.prim])
             yes == {YesIssue(x[1], x[2]) : x \in Contradicted(t, rows)}
             blocks == IF t.runners["verilator"] = "yes" /\ \E r \in rows : Blocks(r)
                         THEN {Issue("error", "equivalence", "verilator")} ELSE {}
             none == {Issue("warning", "matches no row", tool) : tool \in Unexplained(t, rows)}
             late == IF Unverified THEN {Issue("error", "no verdict", "verilator")} ELSE {}
  <1>1. rows # {}
    BY RowIsShown
  <1>2. check_portability(t) = yes \cup blocks \cup none \cup late
    BY <1>1 DEF check_portability, _test_portability
  <1>3. Unexplained(t, rows) \subseteq TOOLS
    BY DEF Unexplained
  <1>4. \A i \in yes : i \in check_portability(t) /\ \E x \in Contradicted(t, rows) : i = YesIssue(x[1], x[2])
    BY <1>2
  <1>5. \A i \in none : i \in check_portability(t) /\ \E tool \in TOOLS : i = Issue("warning", "matches no row", tool)
    BY <1>2, <1>3
  <1>6. /\ \A i \in blocks : i = Issue("error", "equivalence", "verilator")
        /\ \A i \in late : i = Issue("error", "no verdict", "verilator")
        /\ blocks \subseteq check_portability(t) /\ late \subseteq check_portability(t)
    BY <1>2
  <1>7. \A x \in Contradicted(t, rows) : YesIssue(x[1], x[2]) \in check_portability(t)
    BY <1>2
  <1>8. \A tool \in Unexplained(t, rows) : Issue("warning", "matches no row", tool) \in check_portability(t)
    BY <1>2
  <1>9. t.runners["verilator"] = "yes" /\ (\E r \in rows : Blocks(r)) =>
            Issue("error", "equivalence", "verilator") \in check_portability(t)
    BY <1>6
  <1>10. Unverified => Issue("error", "no verdict", "verilator") \in check_portability(t)
    BY <1>6
  <1>11. \A i \in check_portability(t) : i \in yes \/ i \in blocks \/ i \in none \/ i \in late
    BY <1>2
  <1> HIDE DEF rows, yes, blocks, none, late
  <1>12. QED
    BY <1>4, <1>5, <1>6, <1>7, <1>8, <1>9, <1>10, <1>11 DEF rows

(* The fields of the issues that matter here.                              *)
LEMMA IssuesDiffer ==
    /\ \A rule, tool : Issue("error", rule, tool).severity = "error"
    /\ \A tool : Issue("warning", "matches no row", tool).tool = tool
    /\ \A tool : Issue("warning", "matches no row", tool).rule = "matches no row"
    /\ Issue("error", "equivalence", "verilator").rule = "equivalence"
    /\ Issue("error", "no verdict", "verilator").rule = "no verdict"
  BY DEF Issue

LEMMA YesIssues ==
    ASSUME NEW r, NEW tool
    PROVE  /\ YesIssue(r, tool).tool = tool
           /\ YesIssue(r, tool).rule = "declare unsupported" => r[tool] \notin {"config", "infra-error"}
           /\ YesIssue(r, tool).severity # "error" => r[tool] = "config"
  BY DEF YesIssue, Issue

(* A test that lint lets say yes.                                          *)
LEMMA YesFollows ==
    ASSUME SmokeInv, smoke = "rendered", page # {}, NEW t \in Tests, ModelOf[t.prim] \in SmokeModels,
           NEW tool \in TOOLS, t.runners[tool] = "yes",
           \A i \in check_portability(t) : i.severity # "error"
    PROVE  LET m == ModelOf[t.prim] IN
           /\ ~ Unbuilt(m, tool)
           /\ \A s \in Own(m, tool) : ~ Shown(s) => left[s].rc < 124 /\ "error" \notin left[s].lines
           /\ tool = "verilator" /\ (\E x \in hierarchy({m}) : Kind[x][tree[x]] = "transformed") =>
                 \A q \in Pairs : q[1] = m => verdict(q) = "pass"
  <1> DEFINE m == ModelOf[t.prim]
  <1>0. CommandInv /\ SmokeTypes /\ LogsAreNotes
    BY DEF SmokeInv
  <1>1. table[m][tool] \in {"yes", "config"}
    <2>1. SUFFICES ASSUME table[m][tool] # "yes" PROVE table[m][tool] = "config"
      OBVIOUS
    <2>2. <<table[m], tool>> \in Contradicted(t, RowsOf(m))
      BY <2>1, RowIsShown DEF Contradicted, Ok
    <2>3. YesIssue(table[m], tool) \in check_portability(t)
      BY <2>2, WhatLintSays
    <2>4. YesIssue(table[m], tool).severity # "error"
      BY <2>3
    <2>5. QED
      BY <2>4, YesIssues
  <1>2. ~ Unbuilt(m, tool)
    BY <1>1, WhatRowSays
  <1>3. table[m][tool] = tool_cell(m, tool) /\ \A s \in Own(m, tool) : at[s] = "over" /\ s \in Scripts
    BY <1>2, WhatRowSays DEF Own
  <1>4. ASSUME NEW s \in Own(m, tool), ~ Shown(s)
        PROVE  left[s].rc < 124 /\ "error" \notin left[s].lines
    <2>1. Category(s) \in {"yes", "config"}
      BY <1>1, <1>3, WhatCellSays
    <2>2. QED
      BY <1>0, <1>3, <1>4, <2>1, WhatCategorySays
  <1>5. ASSUME tool = "verilator", NEW x \in hierarchy({m}), Kind[x][tree[x]] = "transformed",
               NEW q \in Pairs, q[1] = m
        PROVE  verdict(q) = "pass"
    <2>1. m \in Models /\ table[m].equiv \in equiv(m) /\ table[m].gated = gated(m, manifest[m])
      BY WhatRowSays
    <2>2. gated(m, manifest[m]) /\ ~ refused(m, manifest[m])
      BY <1>0, <1>2, <1>5, <2>1, GateOfTree DEF Holds, Unbuilt
    <2>3. table[m].equiv \in {"pass", "fail", "error", "none"}
      BY <1>0, <2>1, <2>2, WhatEquivSays
    <2>4. table[m].equiv \notin {"fail", "error"}
      <3>1. SUFFICES ASSUME Blocks(table[m]) PROVE FALSE
        BY DEF Blocks
      <3>2. Issue("error", "equivalence", "verilator") \in check_portability(t)
        BY <1>5, <3>1, RowIsShown, WhatLintSays
      <3>3. QED
        BY <3>2, IssuesDiffer
    <2>5. table[m].equiv # "none"
      <3>1. SUFFICES ASSUME table[m].equiv = "none" PROVE FALSE
        OBVIOUS
      <3>2. table \in page /\ m \in DOMAIN table /\ table[m].gated
        BY <2>1, <2>2, WhatRowSays DEF SmokeInv, PageOfTables
      <3>3. Unverified
        BY <3>1, <3>2 DEF Unverified
      <3>4. Issue("error", "no verdict", "verilator") \in check_portability(t)
        BY <3>3, WhatLintSays
      <3>5. QED
        BY <3>4, IssuesDiffer
    <2>6. q \in About(m)
      BY <1>5 DEF About, needed
    <2>7. QED
      BY <1>0, <2>1, <2>3, <2>4, <2>5, <2>6, WhatEquivSays
  <1>6. QED
    BY <1>2, <1>4, <1>5

(* A declaration of unsupported that lint is silent about.                 *)
LEMMA UnsupportedFollows ==
    ASSUME SmokeInv, smoke = "rendered", page # {}, NEW t \in Tests, ModelOf[t.prim] \in SmokeModels,
           NEW tool \in TOOLS, t.runners[tool] = "unsupported",
           ~ \E i \in check_portability(t) : i.tool = tool /\ i.rule = "matches no row"
    PROVE  LET m == ModelOf[t.prim] IN
           \/ Unbuilt(m, tool)
           \/ \E s \in Own(m, tool) : ~ Shown(s)
           \/ \E q \in Pairs : q[1] \in hierarchy({m}) /\ verdict(q) \in {"fail", "error"}
           \/ \E r \in RowsOf(m) \ {table[m]} : ~ Ok(r, tool) \/ Blocks(r)
  <1> DEFINE m == ModelOf[t.prim]
  <1>0. CommandInv /\ SmokeTypes /\ LogsAreNotes
    BY DEF SmokeInv
  <1>1. PICK r \in RowsOf(m) : ~ Ok(r, tool) \/ (tool = "verilator" /\ Blocks(r))
    <2>1. tool \notin Unexplained(t, RowsOf(m))
      <3>1. SUFFICES ASSUME tool \in Unexplained(t, RowsOf(m)) PROVE FALSE
        OBVIOUS
      <3>2. Issue("warning", "matches no row", tool) \in check_portability(t)
        BY <3>1, WhatLintSays
      <3>3. QED
        BY <3>2, IssuesDiffer
    <2>2. QED
      BY <2>1 DEF Unexplained, Blocked
  <1>2. CASE r # table[m]
    BY <1>1, <1>2
  <1>3. CASE r = table[m] /\ ~ Ok(r, tool) /\ ~ Unbuilt(m, tool)
    <2>1. tool_cell(m, tool) # "yes" /\ \A s \in Own(m, tool) : at[s] = "over" /\ s \in Scripts
      <3>1. table[m][tool] # "yes" /\ table[m][tool] = tool_cell(m, tool)
        BY <1>3, WhatRowSays DEF Ok
      <3>2. \A s \in Own(m, tool) : at[s] = "over"
        BY <1>3, WhatRowSays
      <3>3. QED
        BY <3>1, <3>2 DEF Own
    <2>2. PICK s \in Own(m, tool) : Category(s) # "yes"
      BY <2>1, WhatCellSays
    <2>3. ~ Shown(s)
      BY <1>0, <2>1, <2>2, WhatCategorySays
    <2>4. QED
      BY <2>3
  <1>4. CASE r = table[m] /\ Blocks(r)
    <2>1. m \in Models /\ table[m].equiv \in equiv(m) /\ table[m].equiv \in {"fail", "error"}
      BY <1>4, WhatRowSays DEF Blocks
    <2>2. PICK q \in About(m) : verdict(q) \in {"fail", "error"} /\ q \in Pairs
      BY <1>0, <2>1, WhatEquivSays
    <2>3. q[1] \in {m} \cup Below(m)
      <3>1. CASE q \in needed(m)
        BY <3>1 DEF needed
      <3>2. ASSUME NEW p \in needed(m), q \in descendant_configs(p, manifest[p[1]]) PROVE q[1] \in Below(m)
        BY <3>2, UsesAreBelow DEF needed, descendant_configs
      <3>3. QED
        BY <2>2, <3>1, <3>2 DEF About
    <2>4. QED
      BY <1>0, <2>1, <2>2, <2>3, PreparedModel
  <1>5. QED
    BY <1>1, <1>2, <1>3, <1>4

(* A test that is told to declare a simulator unsupported.                 *)
LEMMA ToldFollows ==
    ASSUME SmokeInv, smoke = "rendered", page # {}, NEW t \in Tests, ModelOf[t.prim] \in SmokeModels,
           NEW tool \in TOOLS, RowsOf(ModelOf[t.prim]) \subseteq {table[ModelOf[t.prim]]},
           NEW i \in check_portability(t), i.tool = tool, i.rule = "declare unsupported"
    PROVE  LET m == ModelOf[t.prim] IN Unbuilt(m, tool) \/ \E s \in Own(m, tool) : Failed(s)
  <1> DEFINE m == ModelOf[t.prim]
  <1>0. SmokeTypes /\ LogsAreNotes
    BY DEF SmokeInv
  <1>1. PICK x \in Contradicted(t, RowsOf(m)) : i = YesIssue(x[1], x[2])
    BY WhatLintSays, IssuesDiffer
  <1>2. x[1] = table[m] /\ ~ Ok(x[1], x[2])
    BY <1>1 DEF Contradicted
  <1>3. x[2] = tool /\ x[1][x[2]] \notin {"config", "infra-error"}
    <2>1. /\ YesIssue(x[1], x[2]).tool = x[2]
          /\ YesIssue(x[1], x[2]).rule = "declare unsupported" =>
                x[1][x[2]] \notin {"config", "infra-error"}
      BY YesIssues
    <2>2. i.tool = x[2]
      BY <1>1, <2>1, Zenon
    <2>3. x[1][x[2]] \notin {"config", "infra-error"}
      BY <1>1, <2>1, Zenon
    <2>4. QED
      BY <2>2, <2>3
  <1>4. CASE ~ Unbuilt(m, tool)
    <2>1. /\ tool_cell(m, tool) \notin {"yes", "config", "infra-error"}
          /\ \A s \in Own(m, tool) : at[s] = "over" /\ s \in Scripts
      <3>1. table[m][tool] \notin {"yes", "config", "infra-error"}
        BY <1>2, <1>3 DEF Ok
      <3>2. table[m][tool] = tool_cell(m, tool) /\ \A s \in Own(m, tool) : at[s] = "over"
        BY <1>4, WhatRowSays
      <3>3. QED
        BY <3>1, <3>2 DEF Own
    <2>2. PICK s \in Own(m, tool) : Category(s) \notin {"yes", "config", "infra-error"}
      <3>1. PICK s \in Own(m, tool) : Category(s) = tool_cell(m, tool)
        <4>1. tool_cell(m, tool) # "yes"
          BY <2>1
        <4>2. QED
          BY <4>1, WhatCellSays
      <3>2. QED
        BY <2>1, <3>1
    <2>3. ~ Shown(s) /\ ~ infra(left[s])
      BY <1>0, <2>1, <2>2, WhatCategorySays
    <2>4. QED
      BY <2>3 DEF Failed
  <1>5. QED
    BY <1>4

LEMMA LintFollowsFromInv == SmokeInv => LintFollowsTheRun
  <1> SUFFICES ASSUME SmokeInv, smoke = "rendered", page # {},
                      NEW t \in Tests, ModelOf[t.prim] \in SmokeModels, NEW tool \in TOOLS
               PROVE  LET m == ModelOf[t.prim]
                          issues == check_portability(t)
                          about(rule) == \E i \in issues : i.tool = tool /\ i.rule = rule
                          others == RowsOf(m) \ {table[m]}
                      IN  /\ t.runners[tool] = "yes" /\ (\A i \in issues : i.severity # "error") =>
                                /\ ~ Unbuilt(m, tool)
                                /\ \A s \in Own(m, tool) :
                                      ~ Shown(s) => left[s].rc < 124 /\ "error" \notin left[s].lines
                                /\ tool = "verilator"
                                   /\ (\E x \in hierarchy({m}) : Kind[x][tree[x]] = "transformed") =>
                                      \A q \in Pairs : q[1] = m => verdict(q) = "pass"
                          /\ t.runners[tool] = "unsupported" /\ ~ about("matches no row") =>
                                \/ Unbuilt(m, tool)
                                \/ \E s \in Own(m, tool) : ~ Shown(s)
                                \/ \E q \in Pairs : q[1] \in hierarchy({m}) /\ verdict(q) \in {"fail", "error"}
                                \/ \E r \in others : ~ Ok(r, tool) \/ Blocks(r)
                          /\ about("declare unsupported") /\ others = {} =>
                                Unbuilt(m, tool) \/ \E s \in Own(m, tool) : Failed(s)
    BY DEF LintFollowsTheRun, Unbuilt
  <1>1. QED
    BY YesFollows, UnsupportedFollows, ToldFollows

(* What lint lets a test declare rests on the run.                         *)
THEOREM LintFollows == LSpec => []LintFollowsTheRun
  BY SmokeInductive, LintFollowsFromInv, PTL

-----------------------------------------------------------------------------
(* The processes and the smoke run over one tree: with edits that bring no *)
(* old version back, what holds of the processes alone holds beside it.    *)
THEOREM GateHoldsBesideTheRun ==
    ASSUME ~ Reverts PROVE LSpec => [](NeverStaleOrMissing /\ GateHolds)
  <1>1. LInit => IInv(Removals)
    BY PInitBegins, IInvInit DEF LInit
  <1>2. IInv(Removals) /\ [LNext]_allvars => IInv(Removals)'
    <2> SUFFICES ASSUME IInv(Removals), [LNext]_allvars PROVE IInv(Removals)'
      OBVIOUS
    <2>1. CASE Next
      BY <2>1, IInvStep
    <2>2. CASE UNCHANGED vars
      BY <2>2, IInvStays
    <2>3. Next \/ UNCHANGED vars
      <3>1. Step(Command) => Next
        BY CommandIsJob DEF Next
      <3>2. QED
        BY <3>1, WhichSteps DEF allvars
    <2>4. QED
      BY <2>1, <2>2, <2>3
  <1>3. IInv(Removals) => NeverStaleOrMissing /\ GateHolds
    BY GateHoldsFromIInv, NeverStaleFromIInv
  <1>4. QED
    BY <1>1, <1>2, <1>3, PTL DEF LSpec, allvars
=============================================================================
