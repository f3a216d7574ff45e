---------------------------- MODULE Evidence_proofs ----------------------------
(***************************************************************************)
(* What evidence rests on: an equivalence stimulus that shows every        *)
(* trigger, a result that says what its simulations did, and a stamp that  *)
(* names the tree they were run on.                                        *)
(***************************************************************************)
EXTENDS Stimulus_proofs, Verdict, Provenance, FiniteSetTheorems

(***************************************************************************)
(* Running a phase: the fold that gives the builder one command after the   *)
(* other, and the concatenation of the blocks a phase is made of.           *)
(***************************************************************************)

CommandOps == {"drive", "sample", "activity", "edge", "pulse", "set", "toggle", "open", "close"}
Commands == [op : CommandOps, name : TriggerNames \cup {""}, v : {0, 1} \cup [DataPorts -> {0, 1}]]

Run(s, cmds) == FoldLeft(Do, s, cmds)

(* The function that FoldLeft's CHOOSE stands for, and its defining step.  *)
IterStep(s, cmds, g, S) == IF S = {} THEN s ELSE Do(g[S \ {Max(S)}], cmds[Max(S)])
IsIter(s, cmds, n, g) == g = [S \in SUBSET (1 .. n) |-> IterStep(s, cmds, g, S)]
Iter(s, cmds, T) ==
    CHOOSE g : g = [S \in SUBSET T |-> IF S = {} THEN s
                                       ELSE LET x == Max(S) IN Do(g[S \ {x}], cmds[x])]

(* The states between the commands.                                        *)
Course(s, cmds, at) == at[0] = s /\ \A k \in 1 .. Len(cmds) : at[k] = Do(at[k - 1], cmds[k])

LEMMA MaxIs ==
    ASSUME NEW n \in Nat, NEW S \in SUBSET (1 .. n), S # {}
    PROVE  Max(S) \in S /\ \A x \in S : x <= Max(S)
<1> DEFINE U == {u \in Nat : \A x \in S : x <= u}
<1>1. n \in U /\ U \in SUBSET Nat
  OBVIOUS
<1>2. PICK m \in U : \A u \in U : m <= u
  BY <1>1, Smallest
<1>3. m \in S
  <2>1. SUFFICES ASSUME m \notin S PROVE FALSE
    OBVIOUS
  <2>2. \A x \in S : x < m /\ x \in Nat /\ x >= 1
    BY <1>2, <2>1
  <2>3. PICK y \in S : TRUE
    OBVIOUS
  <2>4. m - 1 \in Nat
    BY <2>2, <2>3
  <2>5. \A x \in S : x <= m - 1
    BY <2>2
  <2>6. m - 1 \in U
    BY <2>4, <2>5
  <2>7. QED
    BY <1>2, <2>6
<1>4. \E u \in S : \A x \in S : u >= x
  BY <1>2, <1>3
<1>5. QED
  BY <1>4 DEF Max

LEMMA IterGrows ==
    ASSUME NEW s, NEW cmds, NEW m \in Nat, m > 0, NEW g, IsIter(s, cmds, m - 1, g)
    PROVE  \E h : IsIter(s, cmds, m, h)
<1> DEFINE h == [S \in SUBSET (1 .. m) |-> IF m \in S THEN Do(g[S \ {m}], cmds[m]) ELSE g[S]]
<1>1. ASSUME NEW S \in SUBSET (1 .. m) PROVE h[S] = IterStep(s, cmds, h, S)
  <2>1. CASE m \in S
    <3>1. Max(S) = m
      <4>1. Max(S) \in S /\ m <= Max(S)
        BY <2>1, MaxIs
      <4>2. Max(S) \in 1 .. m
        BY <4>1
      <4>3. QED
        BY <4>1, <4>2
    <3>2. S \ {m} \in SUBSET (1 .. m) /\ m \notin S \ {m}
      OBVIOUS
    <3>3. h[S \ {m}] = g[S \ {m}] /\ h[S] = Do(g[S \ {m}], cmds[m])
      BY <2>1, <3>2
    <3> HIDE DEF h
    <3>4. QED
      BY <2>1, <3>1, <3>3 DEF IterStep
  <2>2. CASE m \notin S
    <3>1. S \in SUBSET (1 .. m - 1)
      <4>1. ASSUME NEW x \in S PROVE x \in 1 .. m - 1
        <5>1. x \in 1 .. m /\ x # m
          BY <2>2
        <5>2. QED
          BY <5>1
      <4>2. QED
        BY <4>1, Zenon
    <3>2. h[S] = g[S] /\ g[S] = IterStep(s, cmds, g, S)
      BY <2>2, <3>1 DEF IsIter
    <3>3. h[S \ {Max(S)}] = g[S \ {Max(S)}]
      <4>1. S \ {Max(S)} \in SUBSET (1 .. m) /\ m \notin S \ {Max(S)}
        BY <2>2
      <4>2. QED
        BY <4>1
    <3> HIDE DEF h
    <3>4. QED
      BY <3>2, <3>3 DEF IterStep
  <2>3. QED
    BY <2>1, <2>2
<1>2. h = [S \in SUBSET (1 .. m) |-> h[S]]
  OBVIOUS
<1> HIDE DEF h
<1>3. h = [S \in SUBSET (1 .. m) |-> IterStep(s, cmds, h, S)]
  BY <1>1, <1>2
<1>4. QED
  BY <1>3 DEF IsIter

LEMMA IterExists ==
    ASSUME NEW s, NEW cmds, NEW n \in Nat
    PROVE  \E g : IsIter(s, cmds, n, g)
<1> DEFINE Bad == {m \in Nat : ~ \E g : IsIter(s, cmds, m, g)}
<1>1. SUFFICES ASSUME Bad # {} PROVE FALSE
  OBVIOUS
<1>2. PICK m \in Bad : \A k \in Bad : m <= k
  BY <1>1, Smallest
<1>3. CASE m = 0
  <2> DEFINE g == [S \in SUBSET (1 .. 0) |-> s]
  <2>1. \A S \in SUBSET (1 .. 0) : S = {}
    BY SMT
  <2>2. \A S \in SUBSET (1 .. 0) : g[S] = IterStep(s, cmds, g, S)
    BY <2>1 DEF IterStep
  <2>3. g = [S \in SUBSET (1 .. 0) |-> g[S]]
    OBVIOUS
  <2> HIDE DEF g
  <2>4. g = [S \in SUBSET (1 .. 0) |-> IterStep(s, cmds, g, S)]
    BY <2>2, <2>3
  <2>5. IsIter(s, cmds, m, g)
    BY <1>3, <2>4 DEF IsIter
  <2>6. QED
    BY <2>5
<1>4. CASE m # 0
  <2>1. m \in Nat /\ m > 0 /\ m - 1 \in Nat /\ ~ (m <= m - 1)
    BY <1>4
  <2>2. \E g : IsIter(s, cmds, m - 1, g)
    BY <1>2, <2>1
  <2>3. QED
    BY <2>1, <2>2, IterGrows
<1>5. QED
  BY <1>3, <1>4

LEMMA RunSteps ==
    ASSUME NEW s, NEW cmds \in Seq(Commands)
    PROVE  \E at : Course(s, cmds, at) /\ Run(s, cmds) = at[Len(cmds)]
<1> DEFINE n == Len(cmds)
           g == Iter(s, cmds, DOMAIN cmds)
           at == [k \in 0 .. n |-> g[1 .. k]]
<1>1. n \in Nat /\ DOMAIN cmds = 1 .. n
  OBVIOUS
<1>2. Run(s, cmds) = g[DOMAIN cmds]
  BY Zenon DEF Run, FoldLeft, MapThenFoldSet, Iter
<1> HIDE DEF n
<1>3. g = [S \in SUBSET (1 .. n) |-> IterStep(s, cmds, g, S)]
  <2>1. PICK h : h = [S \in SUBSET (1 .. n) |-> IterStep(s, cmds, h, S)]
    BY <1>1, IterExists DEF IsIter
  <2>2. g = CHOOSE f : f = [S \in SUBSET (1 .. n) |-> IterStep(s, cmds, f, S)]
    BY <1>1, Zenon DEF Iter, IterStep
  <2> HIDE DEF g
  <2>3. QED
    BY <2>1, <2>2, Zenon
<1> HIDE DEF g
<1>4. ASSUME NEW S \in SUBSET (1 .. n) PROVE g[S] = IterStep(s, cmds, g, S)
  BY <1>3
<1>5. at[0] = s
  <2>1. 1 .. 0 \in SUBSET (1 .. n) /\ 1 .. 0 = {} /\ 0 \in 0 .. n
    BY <1>1
  <2>2. g[1 .. 0] = s
    BY <1>4, <2>1 DEF IterStep
  <2>3. QED
    BY <2>1, <2>2
<1>6. ASSUME NEW k \in 1 .. n PROVE at[k] = Do(at[k - 1], cmds[k])
  <2>1. 1 .. k \in SUBSET (1 .. n) /\ k \in 1 .. k /\ k \in 0 .. n /\ k - 1 \in 0 .. n /\ k \in Nat
    BY <1>1
  <2>2. Max(1 .. k) = k
    <3>1. Max(1 .. k) \in 1 .. k /\ k <= Max(1 .. k)
      BY <2>1, MaxIs
    <3>2. QED
      BY <2>1, <3>1
  <2>3. (1 .. k) \ {k} = 1 .. k - 1
    BY <2>1
  <2>4. 1 .. k # {}
    BY <2>1
  <2>5. g[1 .. k] = Do(g[1 .. k - 1], cmds[k])
    BY <1>4, <2>1, <2>2, <2>3, <2>4 DEF IterStep
  <2>6. at[k] = g[1 .. k] /\ at[k - 1] = g[1 .. k - 1]
    BY <2>1
  <2>7. QED
    BY <2>5, <2>6
<1>7. at[n] = g[1 .. n]
  BY <1>1
<1> HIDE DEF at
<1>8. QED
  BY <1>1, <1>2, <1>5, <1>6, <1>7 DEF Course, n

LEMMA FoldIs ==
    ASSUME NEW s, NEW cmds \in Seq(Commands), NEW at, Course(s, cmds, at)
    PROVE  Run(s, cmds) = at[Len(cmds)]
<1> DEFINE n == Len(cmds)
<1>1. PICK bt : Course(s, cmds, bt) /\ Run(s, cmds) = bt[n]
  BY RunSteps
<1>2. n \in Nat
  OBVIOUS
<1> HIDE DEF n
<1> DEFINE Bad == {k \in Nat : k <= n /\ at[k] # bt[k]}
<1>3. ASSUME Bad # {} PROVE FALSE
  <2>1. PICK k \in Bad : \A l \in Bad : k <= l
    BY <1>3, Smallest
  <2>2. k # 0
    BY <1>1, <2>1 DEF Course
  <2>3. k \in 1 .. n /\ k - 1 \in Nat /\ k - 1 <= n /\ ~ (k <= k - 1)
    BY <1>2, <2>1, <2>2
  <2>4. at[k - 1] = bt[k - 1]
    BY <2>1, <2>3
  <2>5. at[k] = Do(at[k - 1], cmds[k]) /\ bt[k] = Do(bt[k - 1], cmds[k])
    BY <1>1, <2>3 DEF Course, n
  <2>6. QED
    BY <2>1, <2>4, <2>5
<1>4. n \notin Bad
  BY <1>3
<1>5. at[n] = bt[n]
  BY <1>2, <1>4
<1>6. QED
  BY <1>1, <1>5 DEF n

LEMMA RunNone ==
    ASSUME NEW s PROVE <<>> \in Seq(Commands) /\ Run(s, <<>>) = s
<1> DEFINE cmds == <<>>
<1>1. cmds \in Seq(Commands) /\ Len(cmds) = 0
  OBVIOUS
<1> HIDE DEF cmds
<1>2. PICK at : Course(s, cmds, at) /\ Run(s, cmds) = at[Len(cmds)]
  BY <1>1, RunSteps
<1>3. Run(s, cmds) = s
  BY <1>1, <1>2 DEF Course
<1>4. QED
  BY <1>1, <1>3 DEF cmds

LEMMA RunConcat ==
    ASSUME NEW s, NEW a \in Seq(Commands), NEW b \in Seq(Commands)
    PROVE  a \o b \in Seq(Commands) /\ Run(s, a \o b) = Run(Run(s, a), b)
<1> DEFINE m == Len(a)
           n == Len(b)
           c == a \o b
<1>1. PICK at : Course(s, a, at) /\ Run(s, a) = at[m]
  BY RunSteps
<1>2. PICK bt : Course(at[m], b, bt) /\ Run(at[m], b) = bt[n]
  BY RunSteps
<1>3. /\ m \in Nat /\ n \in Nat /\ c \in Seq(Commands) /\ Len(c) = m + n
      /\ \A i \in 1 .. m : c[i] = a[i]
      /\ \A i \in 1 .. n : c[m + i] = b[i]
  <2>1. m \in Nat /\ n \in Nat /\ c \in Seq(Commands)
    BY ConcatProperties
  <2>2. Len(c) = m + n /\ \A i \in 1 .. m + n : c[i] = IF i <= m THEN a[i] ELSE b[i - m]
    BY ConcatProperties
  <2>3. ASSUME NEW i \in 1 .. n PROVE c[m + i] = b[i]
    <3>1. m + i \in 1 .. m + n /\ ~ (m + i <= m) /\ (m + i) - m = i
      BY <2>1
    <3>2. QED
      BY <2>2, <3>1
  <2>4. ASSUME NEW i \in 1 .. m PROVE c[i] = a[i]
    <3>1. i \in 1 .. m + n /\ i <= m
      BY <2>1
    <3>2. QED
      BY <2>2, <3>1
  <2>5. QED
    BY <2>1, <2>2, <2>3, <2>4
<1> HIDE DEF m, n, c
<1> DEFINE ct == [k \in 0 .. m + n |-> IF k <= m THEN at[k] ELSE bt[k - m]]
<1>4. ct[0] = s
  BY <1>1, <1>3 DEF Course
<1>5. ASSUME NEW k \in 1 .. m + n PROVE ct[k] = Do(ct[k - 1], c[k])
  <2>1. CASE k <= m
    <3>1. ct[k] = at[k] /\ ct[k - 1] = at[k - 1] /\ k \in 1 .. m
      BY <1>3, <2>1
    <3>2. QED
      BY <1>1, <1>3, <3>1 DEF Course, m
  <2>2. CASE k > m
    <3>1. ct[k] = bt[k - m] /\ k - m \in 1 .. n /\ c[k] = b[k - m]
      <4>1. k - m \in 1 .. n /\ m + (k - m) = k
        BY <1>3, <2>2
      <4>2. QED
        BY <1>3, <2>2, <4>1
    <3>2. ct[k - 1] = bt[(k - m) - 1]
      <4>1. CASE k - 1 <= m
        <5>1. k - 1 = m /\ (k - m) - 1 = 0 /\ k - 1 \in 0 .. m + n
          BY <1>3, <2>2, <4>1
        <5>2. ct[k - 1] = at[m]
          BY <4>1, <5>1
        <5>3. QED
          BY <1>2, <5>1, <5>2 DEF Course
      <4>2. CASE ~ (k - 1 <= m)
        <5>1. k - 1 \in 0 .. m + n /\ (k - 1) - m = (k - m) - 1
          BY <1>3
        <5>2. QED
          BY <4>2, <5>1
      <4>3. QED
        BY <4>1, <4>2
    <3> HIDE DEF ct
    <3>3. bt[k - m] = Do(bt[(k - m) - 1], b[k - m])
      BY <1>2, <3>1 DEF Course, n
    <3>4. QED
      BY <3>1, <3>2, <3>3
  <2>3. QED
    BY <1>3, <2>1, <2>2
<1>6. ct[m + n] = bt[n]
  <2>1. CASE n = 0
    BY <1>2, <1>3, <2>1 DEF Course
  <2>2. CASE n # 0
    <3>1. m + n \in 0 .. m + n /\ ~ (m + n <= m) /\ (m + n) - m = n
      BY <1>3, <2>2
    <3>2. QED
      BY <3>1
  <2>3. QED
    BY <2>1, <2>2
<1> HIDE DEF ct
<1>7. Course(s, c, ct)
  BY <1>3, <1>4, <1>5 DEF Course
<1>8. Run(s, c) = bt[n]
  BY <1>3, <1>6, <1>7, FoldIs
<1>9. QED
  BY <1>1, <1>2, <1>3, <1>8 DEF c, m, n

-----------------------------------------------------------------------------
(* What the events say: the last of each input's events, up to the n-th,   *)
(* sets it to b.                                                           *)
OpOf(key) == IF key = "GSR" THEN "glbl" ELSE IF key = "C" THEN "edge" ELSE "set"
Hits(e, key) == e.op = OpOf(key) /\ e.target = key
LogIs(ev, n, key, b) ==
    \/ b = 0 /\ \A i \in 1 .. n : ~ Hits(ev[i], key)
    \/ \E i \in 1 .. n : /\ Hits(ev[i], key) /\ ev[i].value = b
                        /\ \A j \in 1 .. n : j > i => ~ Hits(ev[j], key)
Tally(x, key, b) == LogIs(x.ev, Len(x.ev), key, b)
Tallied(x) == Tally(x, "C", x.level) /\ \A p \in Ports : Tally(x, p, x.vals[p])
Extends(a, b) == \A i \in DOMAIN a : i \in DOMAIN b /\ b[i] = a[i]

(* No two edges, and no two changes of GSR, share a time.                  *)
Alike(d, e) == d.op = e.op /\ d.op \in {"glbl", "edge"}
Unlike(ev, e) == \A i \in 1 .. Len(ev) : ev[i].t = e.t => ~ Alike(ev[i], e)
Twinless(ev) == \A i, j \in 1 .. Len(ev) : i < j /\ ev[i].t = ev[j].t => ~ Alike(ev[i], ev[j])

LEMMA LogAppend ==
    ASSUME NEW S, NEW ev \in Seq(S), NEW e, NEW key
    PROVE  /\ Hits(e, key) => LogIs(Append(ev, e), Len(ev) + 1, key, e.value)
           /\ \A b : LogIs(ev, Len(ev), key, b) /\ ~ Hits(e, key) => LogIs(Append(ev, e), Len(ev) + 1, key, b)
<1> DEFINE n == Len(ev)
           z == Append(ev, e)
<1>1. /\ n \in Nat /\ z[n + 1] = e /\ \A i \in 1 .. n : z[i] = ev[i]
  OBVIOUS
<1> HIDE DEF n, z
<1>2. /\ n + 1 \in 1 .. n + 1 /\ \A j \in 1 .. n + 1 : ~ (j > n + 1) /\ (j \in 1 .. n \/ j = n + 1)
      /\ \A i \in 1 .. n : i \in 1 .. n + 1
  BY <1>1
<1>3. Hits(e, key) => LogIs(z, n + 1, key, e.value)
  BY <1>1, <1>2 DEF LogIs
<1>4. ASSUME NEW b, LogIs(ev, n, key, b), ~ Hits(e, key)
      PROVE  LogIs(z, n + 1, key, b)
  <2>1. CASE b = 0 /\ \A i \in 1 .. n : ~ Hits(ev[i], key)
    <3>1. \A i \in 1 .. n + 1 : ~ Hits(z[i], key)
      BY <1>1, <1>2, <1>4, <2>1
    <3>2. QED
      BY <2>1, <3>1 DEF LogIs
  <2>2. CASE \E i \in 1 .. n : /\ Hits(ev[i], key) /\ ev[i].value = b
                               /\ \A j \in 1 .. n : j > i => ~ Hits(ev[j], key)
    <3>1. PICK i \in 1 .. n : /\ Hits(ev[i], key) /\ ev[i].value = b
                              /\ \A j \in 1 .. n : j > i => ~ Hits(ev[j], key)
      BY <2>2
    <3>2. i \in 1 .. n + 1 /\ Hits(z[i], key) /\ z[i].value = b
      BY <1>1, <1>2, <3>1
    <3>3. \A j \in 1 .. n + 1 : j > i => ~ Hits(z[j], key)
      BY <1>1, <1>2, <1>4, <3>1
    <3>4. QED
      BY <3>2, <3>3 DEF LogIs
  <2>3. QED
    BY <1>4, <2>1, <2>2 DEF LogIs
<1>5. QED
  BY <1>3, <1>4 DEF n, z

LEMMA TwinAppend ==
    ASSUME NEW S, NEW ev \in Seq(S), NEW e, Twinless(ev), Unlike(ev, e)
    PROVE  Twinless(Append(ev, e))
<1> DEFINE n == Len(ev)
           z == Append(ev, e)
<1>1. n \in Nat /\ Len(z) = n + 1 /\ z[n + 1] = e /\ \A i \in 1 .. n : z[i] = ev[i]
  BY OneMore
<1> HIDE DEF n, z
<1>2. \A i, j \in 1 .. n + 1 : i < j => i \in 1 .. n /\ (j \in 1 .. n \/ j = n + 1)
  BY <1>1
<1>3. ASSUME NEW i \in 1 .. n, NEW j \in 1 .. n, i < j, z[i].t = z[j].t PROVE ~ Alike(z[i], z[j])
  BY <1>1, <1>3 DEF Twinless, n
<1>4. ASSUME NEW i \in 1 .. n, z[i].t = z[n + 1].t PROVE ~ Alike(z[i], z[n + 1])
  BY <1>1, <1>4 DEF Unlike, n
<1>5. QED
  BY <1>1, <1>2, <1>3, <1>4 DEF Twinless, z

-----------------------------------------------------------------------------
(* What one call leaves of the builder: the values, what the events say of *)
(* them, and that a port was set no later than the last change.            *)

Dated(x) == x.at <= x.change /\ x.change <= x.t
PutNow(x) == SetNow(NewTime(x))
Ops(x) ==
    {op \in {"glbl", "edge"} : \E i \in 1 .. Len(x.ev) : x.ev[i].op = op /\ x.ev[i].t = NewTime(x).t}
Busy(x) == PutNow(x) \cup Ops(x)

(* The events go on, and a block counts its own.                           *)
Prolongs(x, z) ==
    /\ Extends(x.ev, z.ev) /\ (Tallied(x) => Tallied(z)) /\ (Twinless(x.ev) => Twinless(z.ev))
    /\ InSim(x) /\ InSim(z) => Len(z.ev) - z.sim = Len(x.ev) - x.sim
Grows(x, z) == Prolongs(x, z) /\ \A b : Tally(x, "GSR", b) => Tally(z, "GSR", b)
Leaves(x, z) == z.vals = x.vals /\ z.level = x.level /\ Dated(z) /\ Grows(x, z)

(* One more event.                                                         *)
Added(x, e, z) ==
    /\ Extends(x.ev, z.ev) /\ Len(z.ev) = Len(x.ev) + 1 /\ z.ev[Len(z.ev)] = e
    /\ \A key, b : Tally(x, key, b) /\ ~ Hits(e, key) => Tally(z, key, b)
    /\ \A key : Hits(e, key) => Tally(z, key, e.value)
    /\ z.sim = IF InSim(x) THEN x.sim + 1 ELSE x.sim
    /\ Twinless(x.ev) /\ Unlike(x.ev, e) => Twinless(z.ev)

LEMMA SimGrows ==
    ASSUME NEW x, Ready(x), NEW e, NEW z, Added(x, e, z)
    PROVE  InSim(x) /\ InSim(z) => Len(z.ev) - z.sim = Len(x.ev) - x.sim
<1>1. x.sim \in Int /\ Len(x.ev) \in Nat
  BY Fields DEF Ready, BInv
<1>2. QED
  BY <1>1 DEF Added

LEMMA NamesApart == "GSR" \notin Ports /\ "C" \notin Ports
BY DEF Ports, DataPorts, AsyncPorts

LEMMA EdgeGrows ==
    ASSUME NEW x, Ready(x), NEW z, z.vals = x.vals, NEW e, Added(x, e, z),
           e.op = "edge", e.target = "C", e.value = z.level, Unlike(x.ev, e)
    PROVE  Grows(x, z)
<1>1. Hits(e, "C") /\ \A key : key # "C" => ~ Hits(e, key)
  BY DEF Hits, OpOf
<1>2. Tally(z, "C", z.level) /\ \A key, b : key # "C" /\ Tally(x, key, b) => Tally(z, key, b)
  BY <1>1 DEF Added
<1>3. Tallied(x) => Tallied(z)
  BY <1>2, NamesApart DEF Tallied
<1>4. QED
  BY <1>2, <1>3, SimGrows DEF Grows, Prolongs, Added

LEMMA GlblGrows ==
    ASSUME NEW x, Ready(x), NEW z, z.vals = x.vals, z.level = x.level, NEW e, Added(x, e, z),
           e.op = "glbl", e.target = "GSR", Unlike(x.ev, e)
    PROVE  Prolongs(x, z) /\ Tally(z, "GSR", e.value)
<1>1. Hits(e, "GSR") /\ \A key : key # "GSR" => ~ Hits(e, key)
  BY DEF Hits, OpOf
<1>2. Tally(z, "GSR", e.value) /\ \A key, b : key # "GSR" /\ Tally(x, key, b) => Tally(z, key, b)
  BY <1>1 DEF Added
<1>3. Tallied(x) => Tallied(z)
  BY <1>2, NamesApart DEF Tallied
<1>4. QED
  BY <1>2, <1>3, SimGrows DEF Prolongs, Added

LEMMA SetGrows ==
    ASSUME NEW x, Ready(x), NEW p \in Ports, NEW z, NEW e, Added(x, e, z), z.level = x.level,
           z.vals = Valued(x.vals, p, e.value), e.op = "set", e.target = p
    PROVE  Grows(x, z)
<1>1. Hits(e, p) /\ \A key : key # p => ~ Hits(e, key)
  BY NamesApart DEF Hits, OpOf
<1>2. Tally(z, p, e.value) /\ \A key, b : key # p /\ Tally(x, key, b) => Tally(z, key, b)
  BY <1>1 DEF Added
<1>3. z.vals[p] = e.value /\ \A q \in Ports : q # p => z.vals[q] = x.vals[q]
  <2>1. x.vals \in [Ports -> {0, 1}]
    BY Fields DEF Ready, BInv
  <2>2. QED
    BY <2>1 DEF Valued
<1>4. Tallied(x) => Tallied(z)
  BY <1>2, <1>3, NamesApart DEF Tallied
<1>5. QED
  BY <1>2, <1>4, NamesApart, SimGrows DEF Grows, Prolongs, Added, Unlike, Alike

LEMMA SampleGrows ==
    ASSUME NEW x, Ready(x), NEW z, z.vals = x.vals, z.level = x.level, NEW e, Added(x, e, z),
           e.op = "sample"
    PROVE  Grows(x, z)
<1>1. \A key : ~ Hits(e, key)
  BY DEF Hits, OpOf
<1>2. \A key, b : Tally(x, key, b) => Tally(z, key, b)
  BY <1>1 DEF Added
<1>3. Tallied(x) => Tallied(z)
  BY <1>2 DEF Tallied
<1>4. QED
  BY <1>2, <1>3, SimGrows DEF Grows, Prolongs, Added, Unlike, Alike

LEMMA SameGrows ==
    ASSUME NEW x, NEW z, z.ev = x.ev, z.vals = x.vals, z.level = x.level,
           z.sim = x.sim \/ ~ InSim(x) \/ ~ InSim(z)
    PROVE  Grows(x, z)
<1>1. Extends(x.ev, z.ev) /\ \A key, b : Tally(x, key, b) => Tally(z, key, b)
  BY DEF Extends, Tally
<1>2. QED
  BY <1>1 DEF Grows, Prolongs, Tallied

LEMMA GrowsOn ==
    ASSUME NEW x, NEW y, NEW z, Grows(x, y), Grows(y, z), InSim(x) /\ InSim(z) => InSim(y)
    PROVE  Grows(x, z)
BY DEF Grows, Prolongs, Extends

LEMMA EmittedLeaves ==
    ASSUME NEW x, Ready(x), Dated(x), NEW y, MovedOn(x, y), NEW e \in BuilderEvents, NEW z \in Builders,
           z.ev = Append(y.ev, e), e.t = y.t, z.t >= y.t, z.sim = IF InSim(x) THEN x.sim + 1 ELSE x.sim,
           z.change = y.t \/ (z.change = y.change /\ z.at = y.at), z.at = y.t \/ z.at = y.at
    PROVE  /\ Dated(z) /\ Added(x, e, z) /\ (z.t = y.t => NewTime(z) = z)
           /\ z.t = y.t /\ y = NewTime(x) => Ops(z) \subseteq Ops(x) \cup {e.op}
<1>1. /\ x.t \in Nat /\ x.at \in Int /\ x.change \in Nat
      /\ y.t \in Nat /\ y.at = x.at /\ y.change = x.change /\ y.ev = x.ev /\ x.t <= y.t
      /\ y.ev \in Seq(BuilderEvents)
  BY Fields DEF Ready, BInv, MovedOn, Same
<1>2. z.t \in Nat /\ z.at \in Int /\ z.change \in Nat
  BY DEF Builders
<1>3. Dated(z)
  <2>1. x.at <= x.change /\ x.change <= x.t
    BY DEF Dated
  <2>2. CASE z.change = y.t
    <3>1. z.at <= z.change /\ z.change <= z.t
      BY <1>1, <1>2, <2>1, <2>2
    <3>2. QED
      BY <3>1 DEF Dated
  <2>3. CASE z.change = y.change /\ z.at = y.at
    <3>1. z.at <= z.change /\ z.change <= z.t
      BY <1>1, <1>2, <2>1, <2>3
    <3>2. QED
      BY <3>1 DEF Dated
  <2>4. QED
    BY <2>2, <2>3
<1>4. /\ Len(z.ev) = Len(y.ev) + 1 /\ z.ev[Len(y.ev) + 1] = e /\ Len(y.ev) \in Nat
      /\ \A i \in 1 .. Len(y.ev) : z.ev[i] = y.ev[i]
  BY <1>1
<1>5. Extends(x.ev, z.ev)
  BY <1>1, <1>4 DEF Extends
<1>6. /\ \A key : Hits(e, key) => Tally(z, key, e.value)
      /\ \A key, b : Tally(x, key, b) /\ ~ Hits(e, key) => Tally(z, key, b)
  <2>1. Len(z.ev) = Len(x.ev) + 1 /\ z.ev = Append(x.ev, e)
    BY <1>1, <1>4
  <2>2. /\ \A key : Hits(e, key) => LogIs(Append(x.ev, e), Len(x.ev) + 1, key, e.value)
        /\ \A key, b : LogIs(x.ev, Len(x.ev), key, b) /\ ~ Hits(e, key)
              => LogIs(Append(x.ev, e), Len(x.ev) + 1, key, b)
    BY <1>1, LogAppend
  <2>3. QED
    BY <2>1, <2>2 DEF Tally
<1>7. z.t = y.t => NewTime(z) = z
  <2>1. LastT(z) = y.t
    BY <1>4 DEF LastT
  <2>2. z.t = y.t => ~ (LastT(z) < z.t)
    BY <1>1, <2>1
  <2>3. QED
    BY <2>2 DEF NewTime
<1>8. Twinless(x.ev) /\ Unlike(x.ev, e) => Twinless(z.ev)
  BY <1>1, TwinAppend
<1>9. Added(x, e, z)
  BY <1>1, <1>4, <1>5, <1>6, <1>8 DEF Added
<1>10. ASSUME z.t = y.t, y = NewTime(x), NEW op \in Ops(z)
       PROVE  op \in Ops(x) \cup {e.op}
  <2>1. PICK i \in 1 .. Len(z.ev) : z.ev[i].op = op /\ z.ev[i].t = y.t
    BY <1>7, <1>10 DEF Ops
  <2>2. i \in 1 .. Len(x.ev) \/ i = Len(x.ev) + 1
    BY <1>1, <1>4
  <2>3. CASE i = Len(x.ev) + 1
    BY <1>1, <1>4, <2>1, <2>3
  <2>4. CASE i \in 1 .. Len(x.ev)
    <3>1. x.ev[i].op = op /\ x.ev[i].t = NewTime(x).t
      BY <1>1, <1>4, <1>10, <2>1, <2>4
    <3>2. op \in {"glbl", "edge"}
      BY <1>10 DEF Ops
    <3>3. QED
      BY <2>4, <3>1, <3>2 DEF Ops
  <2>5. QED
    BY <2>2, <2>3, <2>4
<1>11. QED
  BY <1>3, <1>7, <1>9, <1>10

LEMMA MovedLeaves ==
    ASSUME NEW x, Ready(x), Dated(x), NEW y, MovedOn(x, y)
    PROVE  Leaves(x, y) /\ Ready(y) /\ y.sim = x.sim /\ (InSim(y) <=> InSim(x))
<1>1. /\ x.t \in Nat /\ x.at \in Int /\ x.change \in Nat /\ y.t \in Nat /\ x.t <= y.t
      /\ y.at = x.at /\ y.change = x.change
  BY Fields DEF Ready, BInv, MovedOn, Same
<1>2. x.at <= x.change /\ x.change <= x.t
  BY DEF Dated
<1>3. y.at <= y.change /\ y.change <= y.t
  BY <1>1, <1>2
<1>4. Ready(y) /\ (InSim(y) <=> InSim(x))
  BY MovedFollows DEF Follows
<1>5. QED
  BY <1>3, <1>4, SameGrows DEF Leaves, Dated, MovedOn, Same

LEMMA AloneMoves ==
    ASSUME NEW x, Ready(x)
    PROVE  MovedOn(x, AloneStart(x)) /\ (InSim(x) => AloneStart(x) = x /\ ForAsync(x) = x)
<1>1. x.change + Gap \in Nat /\ x.t \in Nat
  BY Fields, Numbers DEF Ready, BInv
<1>2. CASE InSim(x)
  BY <1>1, <1>2 DEF AloneStart, ForAsync, AwayFromEdge, MovedOn, Same, Ready
<1>3. CASE ~ InSim(x)
  BY <1>1, <1>3, WaitsOn DEF AloneStart, Ready
<1>4. QED
  BY <1>2, <1>3

(* An edge or a change of GSR that is alone, or the first in its block.     *)
LEMMA UnlikeAlone ==
    ASSUME NEW x, Ready(x), NEW y, MovedOn(x, y), NEW e, e.t = y.t,
           IF InSim(x) THEN y = NewTime(x) /\ e.op \notin Ops(x) ELSE y.change < y.t
    PROVE  Unlike(x.ev, e)
<1>1. SUFFICES ASSUME NEW i \in 1 .. Len(x.ev), x.ev[i].t = e.t, Alike(x.ev[i], e) PROVE FALSE
  BY DEF Unlike
<1>2. CASE InSim(x)
  BY <1>1, <1>2 DEF Alike, Ops
<1>3. CASE ~ InSim(x)
  <2>1. IsChange(x.ev[i])
    BY <1>1 DEF Alike, IsChange
  <2>2. x.ev[i].t <= x.change
    BY <2>1 DEF Ready, BInv, Past
  <2>3. y.change = x.change /\ y.change \in Nat /\ y.t \in Nat
    BY Fields DEF MovedOn, Same, BInv
  <2>4. QED
    BY <1>1, <1>3, <2>2, <2>3
<1>4. QED
  BY <1>2, <1>3

LEMMA EdgedLeaves ==
    ASSUME NEW x, Ready(x), Dated(x), ~ InSim(x) \/ "edge" \notin Ops(x)
    PROVE  LET z == Edged(x) IN
           /\ z.vals = x.vals /\ Dated(z) /\ Grows(x, z) /\ z.level = 1 - x.level
           /\ Len(z.ev) = Len(x.ev) + 1
           /\ z.ev[Len(z.ev)].op = "edge" /\ z.ev[Len(z.ev)].value = z.level
           /\ InSim(x) => z.sim = x.sim + 1 /\ Busy(z) \subseteq Busy(x) \cup {"edge"}
<1> DEFINE w == AloneStart(x)
           y == NewTime(w)
           v == 1 - x.level
           e == Event(y.t, "edge", "C", v, InSim(y))
           m == Emit(w, "edge", "C", v)
           q == [m EXCEPT !.level = v, !.edge = m.t, !.change = m.t]
           z == AloneEnd(q)
<1>1. MovedOn(x, w) /\ MovedOn(x, y) /\ (IF InSim(x) THEN y = NewTime(x) ELSE y.change < y.t)
  BY AloneMoves, StartsAlone DEF Ready
<1>2. BInv(w)
  BY <1>1 DEF MovedOn
<1>3. v \in {0, 1}
  <2>1. x.level \in {0, 1}
    BY Fields DEF Ready, BInv
  <2>2. QED
    BY <2>1
<1>4. Edged(x) = z
  BY DEF Edged
<1>5. PutNow(x) = SetNow(y) \/ ~ InSim(x)
  BY <1>1 DEF PutNow
<1> HIDE DEF v, w
<1>6. /\ m \in Builders /\ e \in BuilderEvents
      /\ m.t = y.t /\ m.ev = Append(y.ev, e) /\ m.at = y.at
      /\ m.put = y.put /\ m.n = y.n /\ m.vals = y.vals
      /\ m.sim = IF InSim(y) THEN y.sim + 1 ELSE y.sim
  BY <1>2, <1>3, EmitIs
<1>7. e.t = y.t /\ e.op = "edge" /\ e.target = "C" /\ e.value = v
  BY DEF Event
<1>8. y.t \in Nat /\ y.sim = x.sim /\ Gap \in Nat /\ y.sim \in Int /\ y.vals = x.vals
  BY <1>1, Fields, Numbers DEF MovedOn, BInv, Same
<1> HIDE DEF y, e, m
<1>9. /\ q \in Builders /\ q.t = m.t /\ q.ev = m.ev /\ q.at = m.at
      /\ q.put = m.put /\ q.change = m.t /\ q.sim = m.sim /\ q.vals = m.vals /\ q.level = v
  <2>1. m.t \in Nat /\ m.t \in Int
    BY <1>6, <1>8
  <2>2. m \in Builders
    BY <1>6
  <2>3. QED
    BY <1>3, <2>1, <2>2 DEF Builders
<1> HIDE DEF q
<1>10. z \in Builders /\ Same(q, z) /\ z.t = IF InSim(q) THEN q.t ELSE q.t + Gap
  BY <1>9, AloneEnds
<1> HIDE DEF z
<1>11. /\ z.ev = Append(y.ev, e) /\ z.change = y.t /\ z.at = y.at /\ z.put = y.put /\ z.vals = x.vals
       /\ z.sim = IF InSim(x) THEN x.sim + 1 ELSE x.sim
  BY <1>6, <1>8, <1>9, <1>10 DEF Same, InSim
<1>12. z.t >= y.t /\ (InSim(x) => z.t = y.t)
  <2>1. InSim(x) => InSim(q)
    BY <1>6, <1>8, <1>9 DEF InSim
  <2>2. q.t = y.t
    BY <1>6, <1>9
  <2>3. QED
    BY <1>8, <1>10, <2>1, <2>2
<1>13. /\ Dated(z) /\ Added(x, e, z) /\ (z.t = y.t => NewTime(z) = z)
       /\ z.t = y.t /\ y = NewTime(x) => Ops(z) \subseteq Ops(x) \cup {e.op}
  BY <1>1, <1>6, <1>7, <1>10, <1>11, <1>12, EmittedLeaves
<1>14. Grows(x, z) /\ z.level = v
  <2>1. z.level = v
    BY <1>9, <1>10 DEF Same
  <2>2. Unlike(x.ev, e)
    BY <1>1, <1>7, UnlikeAlone
  <2>3. QED
    BY <1>7, <1>11, <1>13, <2>1, <2>2, EdgeGrows
<1>15. InSim(x) => PutNow(z) = PutNow(x)
  BY <1>5, <1>11, <1>12, <1>13 DEF PutNow, SetNow
<1>16. InSim(x) => Busy(z) \subseteq Busy(x) \cup {"edge"}
  BY <1>1, <1>7, <1>12, <1>13, <1>15 DEF Busy
<1>17. /\ Len(z.ev) = Len(x.ev) + 1 /\ z.ev[Len(z.ev)].op = "edge" /\ z.ev[Len(z.ev)].value = v
  BY <1>7, <1>13 DEF Added
<1>18. QED
  BY <1>4, <1>11, <1>13, <1>14, <1>16, <1>17 DEF v

LEMMA AsyncMoves ==
    ASSUME NEW x, Ready(x), Dated(x)
    PROVE  LET y == NewTime(ForAsync(x)) IN
           /\ BInv(ForAsync(x)) /\ MovedOn(x, y)
           /\ IF InSim(x) THEN y = NewTime(x) ELSE y.change < y.t /\ SetNow(y) = {}
<1> DEFINE y == NewTime(ForAsync(x))
<1>1. MovedOn(x, y) /\ (~ InSim(x) => y.change < y.t)
  BY StartsAway DEF Ready
<1>2. BInv(ForAsync(x)) /\ (InSim(x) => y = NewTime(x))
  BY AsyncStart, AloneMoves
<1>3. y.t \in Nat /\ y.at \in Int /\ y.change \in Nat /\ y.at <= y.change
  BY <1>1, Fields, MovedLeaves DEF MovedOn, BInv, Leaves, Dated
<1> HIDE DEF y
<1>4. ~ InSim(x) => y.at # y.t
  BY <1>1, <1>3
<1>5. ~ InSim(x) => SetNow(y) = {}
  BY <1>4 DEF SetNow
<1> DEFINE c == y.change < y.t
<1>6. ~ InSim(x) => c
  BY <1>1
<1> HIDE DEF c
<1>7. IF InSim(x) THEN y = NewTime(x) ELSE c /\ SetNow(y) = {}
  BY <1>2, <1>5, <1>6 DEF y
<1>8. QED
  BY <1>1, <1>2, <1>7 DEF y, c

(* The last event is a sample.                                              *)
JustSampled(x) == Len(x.ev) \in 1 .. Len(x.ev) /\ x.ev[Len(x.ev)].op = "sample"

LEMMA GlbledLeaves ==
    ASSUME NEW x, Ready(x), Dated(x), NEW v \in {0, 1},
           ~ InSim(x) \/ "glbl" \notin Ops(x)
    PROVE  LET z == Glbled(x, v) IN
           /\ z.vals = x.vals /\ z.level = x.level /\ Dated(z) /\ Prolongs(x, z) /\ Tally(z, "GSR", v)
           /\ InSim(x) => z.sim = x.sim + 1 /\ Busy(z) \subseteq Busy(x) \cup {"glbl"}
<1> DEFINE w == ForAsync(x)
           y == NewTime(w)
           e == Event(y.t, "glbl", "GSR", v, InSim(y))
           m == Emit(w, "glbl", "GSR", v)
           q == [m EXCEPT !.change = m.t]
           u == AloneEnd(q)
           z == AwayFromChange(u)
<1>1. BInv(w) /\ MovedOn(x, y) /\ (IF InSim(x) THEN y = NewTime(x) ELSE y.change < y.t)
  BY AsyncMoves
<1>2. Glbled(x, v) = z
  BY DEF Glbled
<1>3. PutNow(x) = SetNow(y) \/ ~ InSim(x)
  BY <1>1 DEF PutNow
<1> HIDE DEF w
<1>4. /\ m \in Builders /\ e \in BuilderEvents
      /\ m.t = y.t /\ m.ev = Append(y.ev, e) /\ m.at = y.at /\ m.level = y.level
      /\ m.put = y.put /\ m.vals = y.vals
      /\ m.sim = IF InSim(y) THEN y.sim + 1 ELSE y.sim
  BY <1>1, EmitIs
<1>5. e.t = y.t /\ e.op = "glbl" /\ e.target = "GSR" /\ e.value = v
  BY DEF Event
<1>6. y.t \in Nat /\ y.sim = x.sim /\ Gap \in Nat /\ y.sim \in Int /\ y.vals = x.vals /\ y.level = x.level
  BY <1>1, Fields, Numbers DEF MovedOn, BInv, Same
<1> HIDE DEF y, e, m
<1>7. /\ q \in Builders /\ q.t = m.t /\ q.ev = m.ev /\ q.at = m.at /\ q.level = m.level
      /\ q.put = m.put /\ q.change = m.t /\ q.sim = m.sim /\ q.vals = m.vals
  BY <1>4 DEF Builders
<1> HIDE DEF q
<1>8. u \in Builders /\ Same(q, u) /\ u.t = IF InSim(q) THEN q.t ELSE q.t + Gap
  BY <1>7, AloneEnds
<1>9. InSim(q) <=> InSim(u)
  BY <1>8 DEF Same, InSim
<1> HIDE DEF u
<1>10. z \in Builders /\ Same(u, z) /\ IF InSim(u) THEN z.t = u.t ELSE z.t >= u.t
  BY <1>8, AwayEnds
<1> HIDE DEF z
<1>11. /\ z.ev = Append(y.ev, e) /\ z.change = y.t /\ z.at = y.at /\ z.put = y.put /\ z.vals = x.vals
       /\ z.level = x.level /\ z.sim = IF InSim(x) THEN x.sim + 1 ELSE x.sim
  BY <1>4, <1>6, <1>7, <1>8, <1>10 DEF Same, InSim
<1>12. z.t >= y.t /\ (InSim(x) => z.t = y.t)
  <2>1. InSim(x) => InSim(q)
    BY <1>4, <1>6, <1>7 DEF InSim
  <2>2. q.t = y.t /\ z.t \in Nat
    BY <1>4, <1>7, <1>10 DEF Builders
  <2>3. QED
    BY <1>6, <1>8, <1>9, <1>10, <2>1, <2>2
<1>13. /\ Dated(z) /\ Added(x, e, z) /\ (z.t = y.t => NewTime(z) = z)
       /\ z.t = y.t /\ y = NewTime(x) => Ops(z) \subseteq Ops(x) \cup {e.op}
  BY <1>1, <1>4, <1>5, <1>10, <1>11, <1>12, EmittedLeaves
<1>14. InSim(x) => PutNow(z) = PutNow(x)
  BY <1>3, <1>11, <1>12, <1>13 DEF PutNow, SetNow
<1>15. InSim(x) => Busy(z) \subseteq Busy(x) \cup {"glbl"}
  BY <1>1, <1>5, <1>12, <1>13, <1>14 DEF Busy
<1>16. Prolongs(x, z) /\ Tally(z, "GSR", v)
  <2>1. Unlike(x.ev, e)
    BY <1>1, <1>5, UnlikeAlone
  <2>2. QED
    BY <1>5, <1>11, <1>13, <2>1, GlblGrows
<1>17. QED
  BY <1>2, <1>11, <1>13, <1>15, <1>16

(* An asynchronous input may always be set but in a block.                 *)
LEMMA AsyncedLeaves ==
    ASSUME NEW x, Ready(x), Dated(x), NEW p \in AsyncPorts, NEW v \in {0, 1}
    PROVE  LET z == Asynced(x, p, v) IN
           /\ z.vals = Valued(x.vals, p, v) /\ z.level = x.level /\ Dated(z)
           /\ Grows(x, z)
           /\ ~ InSim(x) => CanPut(ForAsync(x), p)
           /\ InSim(x) => /\ z.sim = x.sim + 1 /\ Busy(z) \subseteq Busy(x) \cup {p}
                          /\ p \notin PutNow(x) => CanPut(ForAsync(x), p)
<1> DEFINE w == ForAsync(x)
           y == NewTime(w)
           e == Event(y.t, "set", p, v, InSim(y))
           q == Put(w, p, v)
           u == AloneEnd(q)
           z == AwayFromChange(u)
<1>1. BInv(w) /\ MovedOn(x, y) /\ (IF InSim(x) THEN y = NewTime(x) ELSE SetNow(y) = {})
  BY AsyncMoves
<1>2. Asynced(x, p, v) = z /\ p \in Ports
  BY DEF Asynced, Ports
<1>3. PutNow(x) = SetNow(y) \/ ~ InSim(x)
  BY <1>1 DEF PutNow
<1>4. (~ InSim(x) \/ p \notin PutNow(x)) => CanPut(w, p)
  BY <1>1, <1>3 DEF CanPut
<1> HIDE DEF w
<1>5. /\ q \in Builders /\ e \in BuilderEvents
      /\ q.t = y.t /\ q.ev = Append(y.ev, e) /\ q.at = y.t /\ q.level = y.level /\ q.change = y.t
      /\ q.put = SetNow(y) \cup {p} /\ q.vals = Valued(y.vals, p, v)
      /\ q.sim = IF InSim(y) THEN y.sim + 1 ELSE y.sim
  BY <1>1, <1>2, PutIs
<1>6. e.t = y.t /\ e.op = "set" /\ e.target = p /\ e.value = v
  BY DEF Event
<1>7. y.t \in Nat /\ y.sim = x.sim /\ Gap \in Nat /\ y.sim \in Int /\ y.vals = x.vals /\ y.level = x.level
  BY <1>1, Fields, Numbers DEF MovedOn, BInv, Same
<1> HIDE DEF y, e, q
<1>8. u \in Builders /\ Same(q, u) /\ u.t = IF InSim(q) THEN q.t ELSE q.t + Gap
  BY <1>5, AloneEnds
<1>9. InSim(q) <=> InSim(u)
  BY <1>8 DEF Same, InSim
<1> HIDE DEF u
<1>10. z \in Builders /\ Same(u, z) /\ IF InSim(u) THEN z.t = u.t ELSE z.t >= u.t
  BY <1>8, AwayEnds
<1> HIDE DEF z
<1>11. /\ z.ev = Append(y.ev, e) /\ z.change = y.t /\ z.at = y.t /\ z.put = SetNow(y) \cup {p}
       /\ z.vals = Valued(x.vals, p, v)
       /\ z.level = x.level /\ z.sim = IF InSim(x) THEN x.sim + 1 ELSE x.sim
  BY <1>5, <1>7, <1>8, <1>10 DEF Same, InSim
<1>12. z.t >= y.t /\ (InSim(x) => z.t = y.t)
  <2>1. InSim(x) => InSim(q)
    BY <1>5, <1>7 DEF InSim
  <2>2. q.t = y.t /\ z.t \in Nat
    BY <1>5, <1>10 DEF Builders
  <2>3. QED
    BY <1>7, <1>8, <1>9, <1>10, <2>1, <2>2
<1>13. /\ Dated(z) /\ Added(x, e, z) /\ (z.t = y.t => NewTime(z) = z)
       /\ z.t = y.t /\ y = NewTime(x) => Ops(z) \subseteq Ops(x) \cup {e.op}
  BY <1>1, <1>5, <1>6, <1>10, <1>11, <1>12, EmittedLeaves
<1>14. InSim(x) => PutNow(z) = PutNow(x) \cup {p}
  BY <1>3, <1>11, <1>12, <1>13 DEF PutNow, SetNow
<1>15. InSim(x) => Busy(z) \subseteq Busy(x) \cup {p}
  <2>1. Ops(z) \subseteq {"glbl", "edge"}
    BY DEF Ops
  <2>2. InSim(x) => Ops(z) \subseteq Ops(x)
    BY <1>1, <1>6, <1>12, <1>13, <2>1
  <2>3. QED
    BY <1>14, <2>2 DEF Busy
<1>16. Grows(x, z)
  BY <1>2, <1>6, <1>11, <1>13, SetGrows
<1>17. QED
  BY <1>2, <1>4, <1>11, <1>13, <1>15, <1>16 DEF w

LEMMA SampledLeaves ==
    ASSUME NEW x, Ready(x), Dated(x), ~ InSim(x)
    PROVE  Leaves(x, Sampled(x)) /\ JustSampled(Sampled(x))
<1> DEFINE w == After(x, x.change + Gap)
           y == NewTime(w)
           e == Event(y.t, "sample", x.n, 0, InSim(y))
           m == Emit(w, "sample", x.n, 0)
           q == [m EXCEPT !.n = x.n + 1]
           z == Later(q, Gap)
<1>1. w = AloneStart(x) /\ Sampled(x) = z
  BY DEF AloneStart, Sampled
<1>2. BInv(w) /\ MovedOn(x, y)
  BY <1>1, AloneMoves, StartsAlone DEF Ready, MovedOn
<1>3. x.n \in Nat
  BY Fields DEF Ready, BInv
<1> HIDE DEF w
<1>4. /\ m \in Builders /\ e \in BuilderEvents
      /\ m.t = y.t /\ m.ev = Append(y.ev, e) /\ m.level = y.level /\ m.at = y.at
      /\ m.put = y.put /\ m.change = y.change /\ m.vals = y.vals
      /\ m.sim = IF InSim(y) THEN y.sim + 1 ELSE y.sim
  BY <1>2, <1>3, EmitIs
<1>5. e.t = y.t /\ e.op = "sample"
  BY DEF Event
<1>6. y.t \in Nat /\ Gap \in Nat /\ y.vals = x.vals /\ y.level = x.level /\ y.sim = x.sim
  BY <1>2, Fields, Numbers DEF MovedOn, BInv, Same
<1> HIDE DEF y, e, m
<1>7. /\ q \in Builders /\ q.t = m.t /\ q.ev = m.ev /\ q.level = m.level /\ q.at = m.at
      /\ q.change = m.change /\ q.vals = m.vals /\ q.sim = m.sim
  <2>1. m \in Builders /\ x.n + 1 \in Nat
    BY <1>3, <1>4
  <2>2. QED
    BY <2>1 DEF Builders
<1> HIDE DEF q
<1>8. z \in Builders /\ Same(q, z) /\ z.t = q.t + Gap
  <2>1. q.t + Gap \in Nat
    BY <1>4, <1>6, <1>7
  <2>2. QED
    BY <1>7, <2>1, CursorSet DEF Later
<1> HIDE DEF z
<1>9. /\ z.ev = Append(y.ev, e) /\ z.change = y.change /\ z.at = y.at /\ z.vals = x.vals /\ z.level = x.level
      /\ z.sim = IF InSim(x) THEN x.sim + 1 ELSE x.sim
  BY <1>4, <1>6, <1>7, <1>8 DEF Same, InSim
<1>10. z.t >= y.t
  BY <1>4, <1>6, <1>7, <1>8
<1>11. Dated(z) /\ Added(x, e, z)
  BY <1>2, <1>4, <1>5, <1>8, <1>9, <1>10, EmittedLeaves
<1>12. Grows(x, z)
  BY <1>5, <1>9, <1>11, SampleGrows
<1>13. JustSampled(z)
  <2>1. Len(z.ev) = Len(x.ev) + 1 /\ z.ev[Len(z.ev)] = e /\ Len(x.ev) \in Nat
    BY <1>11, Fields DEF Added, Ready, BInv
  <2>2. QED
    BY <1>5, <2>1 DEF JustSampled
<1>14. QED
  BY <1>1, <1>9, <1>11, <1>12, <1>13 DEF Leaves

LEMMA WaitLeaves ==
    ASSUME NEW x, Ready(x), Dated(x), ~ InSim(x), NEW t \in Nat
    PROVE  LET z == After(x, t) IN Leaves(x, z) /\ Ready(z) /\ ~ InSim(z)
BY WaitsOn, MovedLeaves DEF Ready

LEMMA PutLeaves ==
    ASSUME NEW x, Ready(x), Dated(x), NEW p \in DataPorts, NEW v \in {0, 1}, CanPut(x, p)
    PROVE  LET z == Put(x, p, v) IN
           /\ Follows(x, z) /\ z.vals = Valued(x.vals, p, v) /\ z.level = x.level /\ Dated(z)
           /\ Grows(x, z) /\ Busy(z) \subseteq Busy(x) \cup {p}
           /\ PutNow(z) = PutNow(x) \cup {p} /\ (InSim(x) => z.sim = x.sim + 1)
<1> DEFINE y == NewTime(x)
           e == Event(y.t, "set", p, v, InSim(y))
           z == Put(x, p, v)
<1>1. MovedOn(x, y) /\ BInv(x) /\ p \in Ports
  BY NewTimeIs DEF Ready, Ports
<1>2. /\ z \in Builders /\ e \in BuilderEvents
      /\ z.t = y.t /\ z.ev = Append(y.ev, e) /\ z.at = y.t /\ z.level = y.level /\ z.change = y.t
      /\ z.put = SetNow(y) \cup {p} /\ z.vals = Valued(y.vals, p, v)
      /\ z.sim = IF InSim(y) THEN y.sim + 1 ELSE y.sim
  BY <1>1, PutIs
<1>3. e.t = y.t /\ e.op = "set" /\ e.target = p /\ e.value = v
  BY DEF Event
<1>4. y.t \in Nat /\ y.sim = x.sim /\ y.sim \in Int /\ y.vals = x.vals /\ y.level = x.level
  BY <1>1, Fields DEF MovedOn, BInv, Same
<1>5. y.t >= Settle
  BY NewTimeReady DEF Ready
<1>6. BInv(z) /\ z.t = y.t /\ (InSim(z) <=> InSim(x))
  BY <1>1, <1>5, PutKeeps
<1>7. PutNow(x) = SetNow(y) /\ y = NewTime(x)
  BY DEF PutNow
<1> HIDE DEF y, e, z
<1>8. z.t >= y.t
  BY <1>2, <1>4
<1>9. /\ z.sim = IF InSim(x) THEN x.sim + 1 ELSE x.sim
  BY <1>2, <1>4 DEF InSim
<1>14. Dated(z) /\ Added(x, e, z) /\ NewTime(z) = z /\ Ops(z) \subseteq Ops(x) \cup {e.op}
  BY <1>1, <1>2, <1>3, <1>7, <1>8, <1>9, EmittedLeaves
<1>10. PutNow(z) = PutNow(x) \cup {p}
  BY <1>2, <1>7, <1>14 DEF PutNow, SetNow
<1>15. Busy(z) \subseteq Busy(x) \cup {p}
  <2>1. Ops(z) \subseteq Ops(x)
    BY <1>3, <1>14 DEF Ops
  <2>2. QED
    BY <1>10, <2>1 DEF Busy
<1>16. Grows(x, z)
  BY <1>1, <1>2, <1>3, <1>4, <1>14, SetGrows
<1>11. Follows(x, z)
  BY <1>2, <1>5, <1>6 DEF Follows, Ready
<1>12. InSim(x) => z.sim = x.sim + 1
  BY <1>2, <1>4 DEF InSim
<1>13. QED
  BY <1>2, <1>4, <1>10, <1>11, <1>12, <1>14, <1>15, <1>16 DEF z

LEMMA PutAllLeaves ==
    ASSUME NEW x, Ready(x), Dated(x), NEW f, DOMAIN f \subseteq DataPorts,
           \A p \in DOMAIN f : f[p] \in {0, 1} /\ CanPut(x, p)
    PROVE  LET z == PutAll(x, f) IN
           /\ \A p \in DataPorts : z.vals[p] = IF p \in DOMAIN f THEN f[p] ELSE x.vals[p]
           /\ z.vals["CLR"] = x.vals["CLR"] /\ z.level = x.level /\ Dated(z) /\ Grows(x, z)
           /\ Busy(z) \subseteq Busy(x) \cup DataPorts
           /\ InSim(x) => z.sim >= x.sim /\ (DOMAIN f # {} => z.sim > x.sim)
<1> DEFINE u == IF "D1" \in DOMAIN f THEN Put(x, "D1", f["D1"]) ELSE x
           z == IF "D2" \in DOMAIN f THEN Put(u, "D2", f["D2"]) ELSE u
<1>1. PutAll(x, f) = z
  BY DEF PutAll
<1>2. /\ "D1" \in DataPorts /\ "D2" \in DataPorts /\ "D1" # "D2" /\ DataPorts \subseteq Ports
      /\ "CLR" \in Ports /\ "CLR" # "D1" /\ "CLR" # "D2"
      /\ \A p \in DataPorts : p = "D1" \/ p = "D2"
  BY DEF DataPorts, Ports, AsyncPorts
<1>3. x.vals \in [Ports -> {0, 1}] /\ x.sim \in Int
  BY Fields DEF Ready, BInv
<1>4. /\ Follows(x, u) /\ Dated(u) /\ Grows(x, u) /\ u.level = x.level /\ u.vals["CLR"] = x.vals["CLR"]
      /\ u.vals["D1"] = (IF "D1" \in DOMAIN f THEN f["D1"] ELSE x.vals["D1"]) /\ u.vals["D2"] = x.vals["D2"]
      /\ PutNow(u) \subseteq PutNow(x) \cup {"D1"} /\ Busy(u) \subseteq Busy(x) \cup {"D1"}
      /\ InSim(x) => u.sim >= x.sim /\ ("D1" \in DOMAIN f => u.sim > x.sim)
  <2>1. CASE "D1" \in DOMAIN f
    <3>1. f["D1"] \in {0, 1} /\ CanPut(x, "D1")
      BY <2>1
    <3>2. /\ Follows(x, u) /\ u.vals = Valued(x.vals, "D1", f["D1"]) /\ u.level = x.level /\ Dated(u)
          /\ Grows(x, u) /\ Busy(u) \subseteq Busy(x) \cup {"D1"}
          /\ PutNow(u) = PutNow(x) \cup {"D1"} /\ (InSim(x) => u.sim = x.sim + 1)
      BY <1>2, <2>1, <3>1, PutLeaves
    <3> HIDE DEF u
    <3>3. u.vals["D1"] = f["D1"] /\ u.vals["D2"] = x.vals["D2"] /\ u.vals["CLR"] = x.vals["CLR"]
      BY <1>2, <1>3, <3>2 DEF Valued
    <3>4. InSim(x) => u.sim > x.sim /\ u.sim >= x.sim
      BY <1>3, <3>2
    <3>5. QED
      BY <2>1, <3>2, <3>3, <3>4
  <2>2. CASE "D1" \notin DOMAIN f
    <3>1. u = x
      BY <2>2
    <3>2. QED
      BY <1>3, <2>2, <3>1, SameGrows DEF Follows
  <2>3. QED
    BY <2>1, <2>2
<1> HIDE DEF u
<1>5. /\ u.vals \in [Ports -> {0, 1}] /\ u.sim \in Int /\ Ready(u) /\ (InSim(u) <=> InSim(x))
  BY <1>4, Fields DEF Follows, Ready, BInv
<1>6. CASE "D2" \in DOMAIN f
  <2>1. CanPut(u, "D2") /\ f["D2"] \in {0, 1}
    BY <1>2, <1>4, <1>6 DEF CanPut, PutNow
  <2>2. z = Put(u, "D2", f["D2"])
    BY <1>6
  <2> HIDE DEF z
  <2>3. /\ z.vals = Valued(u.vals, "D2", f["D2"]) /\ z.level = u.level /\ Dated(z)
        /\ Grows(u, z) /\ Busy(z) \subseteq Busy(u) \cup {"D2"} /\ Follows(u, z)
        /\ PutNow(z) = PutNow(u) \cup {"D2"} /\ (InSim(u) => z.sim = u.sim + 1)
    BY <1>2, <1>4, <1>5, <2>1, <2>2, PutLeaves
  <2>4. z.vals["D2"] = f["D2"] /\ z.vals["D1"] = u.vals["D1"] /\ z.vals["CLR"] = u.vals["CLR"]
    BY <1>2, <1>5, <2>3 DEF Valued
  <2>5. \A p \in DataPorts : z.vals[p] = IF p \in DOMAIN f THEN f[p] ELSE x.vals[p]
    BY <1>2, <1>4, <1>6, <2>4
  <2>6. InSim(x) => z.sim >= x.sim /\ z.sim > x.sim
    BY <1>3, <1>4, <1>5, <2>3
  <2>7. Busy(z) \subseteq Busy(x) \cup DataPorts
    BY <1>2, <1>4, <2>3
  <2>8. Grows(x, z)
    BY <1>4, <1>5, <2>3, GrowsOn
  <2>9. QED
    BY <1>1, <1>4, <2>3, <2>4, <2>5, <2>6, <2>7, <2>8
<1>7. CASE "D2" \notin DOMAIN f
  <2>1. z = u
    BY <1>7
  <2> HIDE DEF z
  <2>2. \A p \in DataPorts : z.vals[p] = IF p \in DOMAIN f THEN f[p] ELSE x.vals[p]
    BY <1>2, <1>4, <1>7, <2>1
  <2>3. DOMAIN f # {} => "D1" \in DOMAIN f
    BY <1>2, <1>7
  <2>4. Busy(z) \subseteq Busy(x) \cup DataPorts
    BY <1>2, <1>4, <2>1
  <2>5. QED
    BY <1>1, <1>4, <2>1, <2>2, <2>3, <2>4
<1>8. QED
  BY <1>6, <1>7

(* set: outside a block a second change of a port is parted from the first. *)
LEMMA SetCan ==
    ASSUME NEW x, Ready(x), Dated(x), NEW ports \in SUBSET DataPorts,
           ~ InSim(x) \/ PutNow(x) \cap ports = {}
    PROVE  \A p \in ports : CanPut(ForSet(x, ports), p)
<1> DEFINE w == ForSet(x, ports)
           y == NewTime(w)
<1>1. CASE InSim(x)
  <2>1. w = x
    BY <1>1 DEF ForSet
  <2>2. QED
    BY <1>1, <2>1 DEF CanPut, PutNow
<1>2. CASE ~ InSim(x)
  <2> DEFINE u == AfterEdge(x, Gap)
  <2>1. Gap \in Nat /\ Gap > 0
    BY Numbers
  <2>2. MovedOn(x, u)
    BY <1>2, <2>1, WaitsForEdge DEF Ready
  <2>3. Leaves(x, u) /\ Ready(u) /\ ~ InSim(u)
    BY <1>2, <2>2, MovedLeaves
  <2>4. w = Parted(u, ports)
    BY <1>2 DEF ForSet
  <2> HIDE DEF u
  <2>5. u.t \in Nat /\ u.at \in Int /\ u.change \in Nat /\ u.at <= u.change /\ u.change <= u.t /\ u.at <= u.t
    <3>1. u.t \in Nat /\ u.at \in Int /\ u.change \in Nat /\ u.at <= u.change /\ u.change <= u.t
      BY <2>3, Fields DEF Ready, BInv, Leaves, Dated
    <3>2. QED
      BY <3>1
  <2>6. MovedOn(x, w)
    BY ForSetMoves DEF Ready
  <2>7. MovedOn(w, y)
    BY <2>6, NewTimeIs DEF MovedOn
  <2> HIDE DEF w
  <2>8. w.t \in Nat /\ y.t \in Nat /\ y.t >= w.t /\ y.at = w.at /\ y.put = w.put
    BY <2>6, <2>7, Fields DEF MovedOn, Same, BInv
  <2> HIDE DEF y
  <2>9. CASE u.at = u.t /\ u.put \cap ports # {}
    <3>1. w = Later(u, Gap)
      BY <2>4, <2>9 DEF Parted
    <3>2. MovedOn(u, w) /\ w.t = u.t + Gap
      BY <2>1, <2>3, <3>1, WaitsOn DEF Ready
    <3>3. w.at = u.at
      BY <3>2 DEF MovedOn, Same
    <3>4. y.at # y.t
      BY <2>1, <2>5, <2>8, <2>9, <3>2, <3>3
    <3>5. SetNow(y) = {}
      BY <3>4 DEF SetNow
    <3>6. QED
      BY <3>5 DEF CanPut, y, w
  <2>10. CASE ~ (u.at = u.t /\ u.put \cap ports # {})
    <3>1. w = u
      BY <2>4, <2>10 DEF Parted
    <3>2. y.at = y.t => u.at = u.t
      BY <2>5, <2>8, <3>1
    <3>3. SetNow(y) \cap ports = {}
      BY <2>8, <2>10, <3>1, <3>2 DEF SetNow
    <3>4. QED
      BY <3>3 DEF CanPut, y, w
  <2>11. QED
    BY <2>9, <2>10
<1>3. QED
  BY <1>1, <1>2

LEMMA SetLeaves ==
    ASSUME NEW x, Ready(x), Dated(x), NEW ports \in SUBSET DataPorts, NEW f \in [ports -> {0, 1}],
           ~ InSim(x) \/ PutNow(x) \cap ports = {}
    PROVE  LET z == SetPorts(x, f) IN
           /\ CanSet(x, f) /\ Follows(x, z)
           /\ \A p \in DataPorts : z.vals[p] = IF p \in ports THEN f[p] ELSE x.vals[p]
           /\ z.vals["CLR"] = x.vals["CLR"] /\ z.level = x.level /\ Dated(z) /\ Grows(x, z)
           /\ InSim(x) => /\ Busy(z) \subseteq Busy(x) \cup DataPorts /\ z.sim >= x.sim
                          /\ Moved(x, f) # {} => z.sim > x.sim
<1> DEFINE w == ForSet(x, ports)
           M == Moved(x, f)
           g == [p \in M |-> f[p]]
<1>1. DOMAIN f = ports /\ M \subseteq ports /\ M \subseteq DataPorts
  BY DEF Moved
<1>2. CanSet(x, f)
  BY <1>1, SetCan DEF CanSet
<1>3. Follows(x, SetPorts(x, f))
  BY <1>2, SetKeeps
<1>4. MovedOn(x, w)
  BY ForSetMoves DEF Ready
<1>5. Leaves(x, w) /\ Ready(w) /\ w.sim = x.sim /\ (InSim(w) <=> InSim(x))
  BY <1>4, MovedLeaves
<1>6. InSim(x) => w = x
  BY DEF ForSet
<1>7. \A p \in M : CanPut(w, p)
  BY <1>1, SetCan
<1>8. SetPorts(x, f) = PutAll(w, g)
  BY <1>1 DEF SetPorts
<1>9. \A p \in ports : p \notin M => x.vals[p] = f[p]
  BY <1>1 DEF Moved
<1> HIDE DEF w, M
<1>10. DOMAIN g = M /\ \A p \in M : g[p] = f[p]
  OBVIOUS
<1> HIDE DEF g
<1>11. DOMAIN g \subseteq DataPorts /\ \A p \in DOMAIN g : g[p] \in {0, 1} /\ CanPut(w, p)
  BY <1>1, <1>7, <1>10
<1> DEFINE z == PutAll(w, g)
<1>12. /\ \A p \in DataPorts : z.vals[p] = IF p \in DOMAIN g THEN g[p] ELSE w.vals[p]
       /\ z.vals["CLR"] = w.vals["CLR"] /\ z.level = w.level /\ Dated(z) /\ Grows(w, z)
       /\ Busy(z) \subseteq Busy(w) \cup DataPorts
       /\ InSim(w) => z.sim >= w.sim /\ (DOMAIN g # {} => z.sim > w.sim)
  BY <1>5, <1>11, PutAllLeaves DEF Leaves
<1> HIDE DEF z
<1>13. \A p \in DataPorts : z.vals[p] = IF p \in ports THEN f[p] ELSE x.vals[p]
  BY <1>1, <1>5, <1>9, <1>10, <1>12 DEF Leaves
<1>14. z.vals["CLR"] = x.vals["CLR"] /\ z.level = x.level /\ Dated(z) /\ Grows(x, z)
  <2>1. Grows(x, w) /\ Grows(w, z)
    BY <1>5, <1>12 DEF Leaves
  <2>2. Grows(x, z)
    BY <1>5, <2>1, GrowsOn
  <2>3. QED
    BY <1>5, <1>12, <2>2 DEF Leaves
<1>15. InSim(x) => /\ Busy(z) \subseteq Busy(x) \cup DataPorts /\ z.sim >= x.sim
                   /\ M # {} => z.sim > x.sim
  BY <1>5, <1>6, <1>10, <1>12
<1>16. QED
  BY <1>2, <1>3, <1>8, <1>13, <1>14, <1>15 DEF M, z

(* A block opens past everything, so that it may set any port once.        *)
LEMMA OpenedLeaves ==
    ASSUME NEW x, Ready(x), Dated(x), ~ InSim(x)
    PROVE  LET z == Opened(x) IN Leaves(x, z) /\ Busy(z) = {} /\ z.sim = 0 /\ z.ev = x.ev
<1> DEFINE u == After(x, x.change + Gap)
           w == AfterEdge(u, Gap)
           z == [w EXCEPT !.sim = 0]
           y == NewTime(z)
<1>1. x.change + Gap \in Nat /\ Gap \in Nat /\ Gap > 0 /\ x.change \in Nat /\ x.t \in Nat
  BY Fields, Numbers DEF Ready, BInv
<1>2. MovedOn(x, u) /\ u.t >= x.change + Gap
  BY <1>1, WaitsOn DEF Ready
<1>3. Ready(u) /\ ~ InSim(u)
  BY <1>2, MovedFollows DEF Follows
<1> HIDE DEF u
<1>4. MovedOn(u, w)
  BY <1>1, <1>3, WaitsForEdge DEF Ready
<1>5. MovedOn(x, w)
  BY <1>2, <1>4, MovedTwice DEF Ready
<1>6. Leaves(x, w) /\ Ready(w)
  BY <1>5, MovedLeaves
<1>7. Opened(x) = z
  BY DEF Opened, u
<1>8. Ready(z)
  BY <1>7, OpenedKeeps
<1> HIDE DEF w
<1>9. /\ z.t = w.t /\ z.ev = w.ev /\ z.vals = w.vals /\ z.level = w.level /\ z.at = w.at
      /\ z.change = w.change /\ z.sim = 0
  BY <1>6 DEF Ready, BInv, FieldsTyped, Builders
<1>10. w.t \in Nat /\ w.at \in Int /\ w.change = x.change /\ w.at <= x.change /\ x.change + Gap <= w.t
  <2>1. w.t \in Nat /\ w.at \in Int /\ w.change = x.change /\ w.at <= w.change /\ u.t <= w.t /\ u.t \in Nat
    BY <1>2, <1>3, <1>4, <1>6, Fields DEF Ready, BInv, MovedOn, Same, Leaves, Dated
  <2>2. QED
    BY <1>1, <1>2, <2>1
<1> HIDE DEF z
<1>11. MovedOn(z, y)
  BY <1>8, NewTimeIs DEF Ready
<1>12. y.t \in Nat /\ y.t >= z.t /\ y.at = z.at
  BY <1>11, Fields DEF MovedOn, Same, BInv
<1>13. y.at # y.t
  BY <1>1, <1>9, <1>10, <1>12
<1>14. PutNow(z) = {}
  BY <1>13 DEF PutNow, SetNow
<1>15. Leaves(x, z)
  <2>1. z.ev = x.ev /\ z.vals = x.vals /\ z.level = x.level
    BY <1>5, <1>9 DEF MovedOn, Same
  <2>2. Grows(x, z)
    BY <2>1, SameGrows
  <2>3. QED
    BY <1>6, <1>9, <2>1, <2>2 DEF Leaves, Dated
(* Nothing shares the time of a block that opens.                           *)
<1>16. Ops(z) = {}
  <2>1. SUFFICES ASSUME NEW i \in 1 .. Len(z.ev), z.ev[i].op \in {"glbl", "edge"}, z.ev[i].t = y.t
                 PROVE  FALSE
    BY DEF Ops, y
  <2>2. IsChange(z.ev[i])
    BY <2>1 DEF IsChange
  <2>3. z.ev[i].t <= z.change
    BY <1>8, <2>2 DEF Ready, BInv, Past
  <2>4. QED
    BY <1>1, <1>9, <1>10, <1>12, <2>1, <2>3
<1>17. Busy(z) = {}
  BY <1>14, <1>16 DEF Busy
<1>18. QED
  BY <1>5, <1>7, <1>9, <1>15, <1>17 DEF MovedOn, Same

LEMMA ClosedLeaves ==
    ASSUME NEW x, Ready(x), Dated(x)
    PROVE  Leaves(x, Closed(x)) /\ Closed(x).ev = x.ev
<1> DEFINE n == x.t + Gap
           z == [x EXCEPT !.t = n, !.sim = -1]
<1>1. x.t \in Nat /\ Gap \in Nat /\ x.change \in Nat /\ x.at \in Int /\ x \in Builders
  BY Fields, Numbers DEF Ready, BInv, FieldsTyped
<1>2. Closed(x) = z
  BY <1>1 DEF Closed, Later, Builders
<1>3. n \in Nat /\ n >= x.t
  BY <1>1
<1> HIDE DEF n
<1>4. z.t = n /\ z.ev = x.ev /\ z.vals = x.vals /\ z.level = x.level /\ z.at = x.at /\ z.change = x.change
  BY <1>1 DEF Builders
<1> HIDE DEF z
<1>5. Dated(z)
  <2>1. x.at <= x.change /\ x.change <= x.t
    BY DEF Dated
  <2>2. z.at <= z.change /\ z.change <= z.t
    BY <1>1, <1>3, <1>4, <2>1
  <2>3. QED
    BY <2>2 DEF Dated
<1>6. Grows(x, z)
  <2>1. ~ InSim(z)
    BY <1>1 DEF InSim, z, Builders
  <2>2. QED
    BY <1>4, <2>1, SameGrows
<1>7. QED
  BY <1>2, <1>4, <1>5, <1>6 DEF Leaves

-----------------------------------------------------------------------------
(* Between two commands of a phase: k is what the events begin with, U is   *)
(* driven, the clock is at l, and f is what the other inputs are known to   *)
(* be.  In a block, P is busy, n events were made, and all are after k.     *)

TrigOf(p) == IF p \in DataPorts THEN "D" ELSE p
Keys == Ports \cup {"GSR"}
KeysOf(t) == {p \in Keys : TrigOf(p) = t}
UsesOf(t) == IF t = "GSR" THEN {"glbl"} ELSE IF t = "C" THEN {"edge"} ELSE IF t = "CLR" THEN {"CLR"} ELSE DataPorts

AllAt(S, v) == [p \in S |-> v]
Laid(f, g) == [p \in DOMAIN f \cup DOMAIN g |-> IF p \in DOMAIN g THEN g[p] ELSE f[p]]
DataAre(x, f) ==
    \A p \in DOMAIN f : IF p = "GSR" THEN Tally(x, "GSR", f[p]) ELSE p \in Ports /\ x.vals[p] = f[p]
Steady(s, k, U, l, f) ==
    /\ s.ok /\ Ready(s.x) /\ Dated(s.x) /\ Extends(k, s.x.ev) /\ Tallied(s.x) /\ Twinless(s.x.ev)
    /\ s.on = U /\ s.x.level = l /\ DataAre(s.x, f)
Calm(s, k, U, l, f) == Steady(s, k, U, l, f) /\ ~ InSim(s.x)
Inner(s, k, U, l, f, P, n) ==
    /\ Steady(s, k, U, l, f) /\ InSim(s.x) /\ Busy(s.x) \subseteq P /\ s.x.sim >= n
    /\ Len(s.x.ev) - s.x.sim = Len(k)

LEMMA GoesIs ==
    ASSUME NEW s, NEW x
    PROVE  Goes(s, x).x = x /\ Goes(s, x).on = s.on /\ Goes(s, x).ok = s.ok
BY DEF Goes

(* A call that leaves the values, or what is known of them.                *)
LEMMA GoesSteady ==
    ASSUME NEW s, NEW k, NEW U, NEW l, NEW f, Steady(s, k, U, l, f),
           NEW x, Ready(x), Dated(x), Prolongs(s.x, x),
           NEW m, x.level = m, NEW g, DataAre(x, g)
    PROVE  Steady(Goes(s, x), k, U, m, g)
<1>1. Extends(k, x.ev) /\ Tallied(x) /\ Twinless(x.ev)
  BY DEF Steady, Prolongs, Extends
<1>2. QED
  BY <1>1, GoesIs DEF Steady

LEMMA SameData ==
    ASSUME NEW x, NEW y, y.vals = x.vals, Grows(x, y), NEW f, DataAre(x, f)
    PROVE  DataAre(y, f)
BY DEF DataAre, Grows

LEMMA ForgetData ==
    ASSUME NEW x, NEW f, NEW g, DataAre(x, Laid(f, g)), DOMAIN f \cap DOMAIN g = {}
    PROVE  DataAre(x, f)
<1> DEFINE h == Laid(f, g)
<1>1. \A p \in DOMAIN f : p \in DOMAIN h /\ h[p] = f[p]
  BY DEF Laid
<1> HIDE DEF h
<1>2. DataAre(x, h)
  BY DEF h
<1>3. QED
  BY <1>1, <1>2 DEF DataAre

LEMMA SamplingCalm ==
    ASSUME NEW s, NEW k, NEW U, NEW l, NEW f, Calm(s, k, U, l, f)
    PROVE  Calm(Sampling(s), k, U, l, f) /\ JustSampled(Sampling(s).x)
<1>1. Ready(s.x) /\ Dated(s.x) /\ ~ InSim(s.x) /\ DataAre(s.x, f) /\ s.x.level = l /\ Steady(s, k, U, l, f)
  BY DEF Calm, Steady
<1> DEFINE x == Sampled(s.x)
<1>2. Sampling(s) = Goes(s, x)
  BY <1>1 DEF Sampling
<1>3. Leaves(s.x, x) /\ JustSampled(x) /\ Ready(x) /\ ~ InSim(x)
  BY <1>1, SampledKeeps, SampledLeaves DEF Follows
<1> HIDE DEF x
<1>4. DataAre(x, f)
  BY <1>1, <1>3, SameData DEF Leaves
<1>5. Steady(Goes(s, x), k, U, l, f)
  BY <1>1, <1>3, <1>4, GoesSteady DEF Leaves, Grows
<1>6. QED
  BY <1>2, <1>3, <1>5, GoesIs DEF Calm

Turned(x, y, v) ==
    Len(y.ev) = Len(x.ev) + 1 /\ y.ev[Len(y.ev)].op = "edge" /\ y.ev[Len(y.ev)].value = v

LEMMA EdgeToSteady ==
    ASSUME NEW s, NEW k, NEW U, NEW l, NEW f, Steady(s, k, U, l, f), NEW v \in {0, 1}, v # l,
           ~ InSim(s.x) \/ "edge" \notin Busy(s.x)
    PROVE  LET r == EdgeTo(s, v) IN
           /\ Steady(r, k, U, v, f) /\ (InSim(r.x) <=> InSim(s.x)) /\ Prolongs(s.x, r.x) /\ Turned(s.x, r.x, v)
           /\ InSim(s.x) => r.x.sim = s.x.sim + 1 /\ Busy(r.x) \subseteq Busy(s.x) \cup {"edge"}
<1>1. Ready(s.x) /\ Dated(s.x) /\ DataAre(s.x, f) /\ s.x.level = l
  BY DEF Steady
<1> DEFINE x == Edged(s.x)
<1>2. EdgeTo(s, v) = Goes(s, x)
  BY <1>1 DEF EdgeTo
<1>3. l \in {0, 1}
  BY <1>1, Fields DEF Ready, BInv
<1>4. ~ InSim(s.x) \/ "edge" \notin Ops(s.x)
  BY DEF Busy
<1>5. /\ Ready(x) /\ (InSim(x) <=> InSim(s.x)) /\ x.level = 1 - l
      /\ x.vals = s.x.vals /\ Dated(x) /\ Grows(s.x, x) /\ Turned(s.x, x, x.level)
      /\ InSim(s.x) => x.sim = s.x.sim + 1 /\ Busy(x) \subseteq Busy(s.x) \cup {"edge"}
  BY <1>1, <1>4, EdgedKeeps, EdgedLeaves DEF Follows, Turned
<1> HIDE DEF x
<1>6. x.level = v
  BY <1>3, <1>5
<1>7. Steady(Goes(s, x), k, U, v, f)
  BY <1>1, <1>5, <1>6, SameData, GoesSteady DEF Grows
<1>8. QED
  BY <1>2, <1>5, <1>6, <1>7, GoesIs DEF Grows

LEMMA GlblSteady ==
    ASSUME NEW s, NEW k, NEW U, NEW l, NEW f, Steady(s, k, U, l, f), NEW v \in {0, 1},
           ~ InSim(s.x) \/ "glbl" \notin Busy(s.x)
    PROVE  LET r == Goes(s, Glbled(s.x, v)) IN
           /\ Steady(r, k, U, l, Laid(f, AllAt({"GSR"}, v))) /\ (InSim(r.x) <=> InSim(s.x)) /\ Prolongs(s.x, r.x)
           /\ InSim(s.x) => r.x.sim = s.x.sim + 1 /\ Busy(r.x) \subseteq Busy(s.x) \cup {"glbl"}
<1>1. Ready(s.x) /\ Dated(s.x) /\ DataAre(s.x, f) /\ s.x.level = l
  BY DEF Steady
<1> DEFINE x == Glbled(s.x, v)
<1>2. ~ InSim(s.x) \/ "glbl" \notin Ops(s.x)
  BY DEF Busy
<1>3. /\ Ready(x) /\ (InSim(x) <=> InSim(s.x))
      /\ x.vals = s.x.vals /\ x.level = s.x.level /\ Dated(x) /\ Prolongs(s.x, x) /\ Tally(x, "GSR", v)
      /\ InSim(s.x) => x.sim = s.x.sim + 1 /\ Busy(x) \subseteq Busy(s.x) \cup {"glbl"}
  BY <1>1, <1>2, GlbledKeeps, GlbledLeaves DEF Follows
<1> HIDE DEF x
<1>4. DataAre(x, Laid(f, AllAt({"GSR"}, v)))
  <2> DEFINE h == Laid(f, AllAt({"GSR"}, v))
  <2>1. DOMAIN h = DOMAIN f \cup {"GSR"} /\ h["GSR"] = v /\ \A p \in DOMAIN f : p # "GSR" => h[p] = f[p]
    BY DEF Laid, AllAt
  <2> HIDE DEF h
  <2>2. DataAre(x, h)
    BY <1>1, <1>3, <2>1 DEF DataAre
  <2>3. QED
    BY <2>2 DEF h
<1>5. Steady(Goes(s, x), k, U, l, Laid(f, AllAt({"GSR"}, v)))
  BY <1>1, <1>3, <1>4, GoesSteady
<1>6. QED
  BY <1>3, <1>5, GoesIs DEF x

LEMMA AsyncToSteady ==
    ASSUME NEW s, NEW k, NEW U, NEW l, NEW f, Steady(s, k, U, l, f), NEW v \in {0, 1},
           ~ InSim(s.x) \/ "CLR" \notin Busy(s.x)
    PROVE  LET r == AsyncTo(s, v) IN
           /\ Steady(r, k, U, l, Laid(f, AllAt({"CLR"}, v))) /\ (InSim(r.x) <=> InSim(s.x)) /\ Prolongs(s.x, r.x)
           /\ InSim(s.x) => r.x.sim = s.x.sim + 1 /\ Busy(r.x) \subseteq Busy(s.x) \cup {"CLR"}
<1>1. Ready(s.x) /\ Dated(s.x) /\ DataAre(s.x, f) /\ s.x.level = l
  BY DEF Steady
<1> DEFINE x == Asynced(s.x, "CLR", v)
<1>2. "CLR" \in AsyncPorts /\ (~ InSim(s.x) \/ "CLR" \notin PutNow(s.x))
  BY DEF AsyncPorts, Busy
<1>3. /\ x.vals = Valued(s.x.vals, "CLR", v) /\ x.level = s.x.level /\ Dated(x)
      /\ Grows(s.x, x)
      /\ CanPut(ForAsync(s.x), "CLR")
      /\ InSim(s.x) => x.sim = s.x.sim + 1 /\ Busy(x) \subseteq Busy(s.x) \cup {"CLR"}
  BY <1>1, <1>2, AsyncedLeaves
<1>4. AsyncTo(s, v) = Goes(s, x)
  BY <1>3 DEF AsyncTo
<1>5. Ready(x) /\ (InSim(x) <=> InSim(s.x))
  BY <1>1, <1>2, <1>3, AsyncedKeeps DEF Follows
<1> HIDE DEF x
<1>6. DataAre(x, Laid(f, AllAt({"CLR"}, v)))
  <2>1. s.x.vals \in [Ports -> {0, 1}] /\ "CLR" \in Ports /\ "CLR" # "GSR"
    BY <1>1, Fields DEF Ready, BInv, Ports, AsyncPorts
  <2>2. x.vals["CLR"] = v /\ \A p \in Ports : p # "CLR" => x.vals[p] = s.x.vals[p]
    BY <1>3, <2>1 DEF Valued
  <2> DEFINE h == Laid(f, AllAt({"CLR"}, v))
  <2>3. DOMAIN h = DOMAIN f \cup {"CLR"} /\ h["CLR"] = v /\ \A p \in DOMAIN f : p # "CLR" => h[p] = f[p]
    BY DEF Laid, AllAt
  <2> HIDE DEF h
  <2>4. DataAre(x, h)
    BY <1>1, <1>3, <2>1, <2>2, <2>3 DEF DataAre, Grows
  <2>5. QED
    BY <2>4 DEF h
<1>7. Steady(Goes(s, x), k, U, l, Laid(f, AllAt({"CLR"}, v)))
  BY <1>1, <1>3, <1>5, <1>6, GoesSteady DEF Grows
<1>8. QED
  BY <1>3, <1>4, <1>5, <1>7, GoesIs DEF Grows

LEMMA SetToSteady ==
    ASSUME NEW s, NEW k, NEW U, NEW l, NEW f, Steady(s, k, U, l, f),
           NEW ports \in SUBSET DataPorts, NEW g \in [ports -> {0, 1}],
           ~ InSim(s.x) \/ Busy(s.x) \cap ports = {}
    PROVE  LET r == SetTo(s, g) IN
           /\ Steady(r, k, U, l, Laid(f, g)) /\ (InSim(r.x) <=> InSim(s.x)) /\ Prolongs(s.x, r.x)
           /\ InSim(s.x) => /\ Busy(r.x) \subseteq Busy(s.x) \cup DataPorts /\ r.x.sim >= s.x.sim
                            /\ Moved(s.x, g) # {} => r.x.sim > s.x.sim
<1>1. Ready(s.x) /\ Dated(s.x) /\ s.x.level = l /\ DataAre(s.x, f)
  BY DEF Steady
<1>2. ~ InSim(s.x) \/ PutNow(s.x) \cap ports = {}
  BY DEF Busy
<1> DEFINE x == SetPorts(s.x, g)
<1>3. /\ CanSet(s.x, g) /\ Follows(s.x, x)
      /\ \A p \in DataPorts : x.vals[p] = IF p \in ports THEN g[p] ELSE s.x.vals[p]
      /\ x.vals["CLR"] = s.x.vals["CLR"]
      /\ x.level = s.x.level /\ Dated(x) /\ Grows(s.x, x)
      /\ InSim(s.x) => /\ Busy(x) \subseteq Busy(s.x) \cup DataPorts /\ x.sim >= s.x.sim
                       /\ Moved(s.x, g) # {} => x.sim > s.x.sim
  BY <1>1, <1>2, SetLeaves
<1>4. SetTo(s, g) = Goes(s, x)
  BY <1>3 DEF SetTo
<1> HIDE DEF x
<1>5. DataAre(x, Laid(f, g))
  <2> DEFINE h == Laid(f, g)
  <2>1. /\ DOMAIN h = DOMAIN f \cup ports /\ \A p \in ports : h[p] = g[p]
        /\ \A p \in DOMAIN f : p \notin ports => h[p] = f[p]
    BY DEF Laid
  <2>2. "GSR" \notin DataPorts /\ DataPorts \subseteq Ports /\ \A p \in Ports : p \in DataPorts \/ p = "CLR"
    BY DEF Ports, DataPorts, AsyncPorts
  <2> HIDE DEF h
  <2>3. ASSUME NEW p \in DOMAIN h
        PROVE  IF p = "GSR" THEN Tally(x, "GSR", h[p]) ELSE p \in Ports /\ x.vals[p] = h[p]
    <3>1. CASE p \in ports
      BY <1>3, <2>1, <2>2, <3>1
    <3>2. CASE p \notin ports
      <4>1. p \in DOMAIN f /\ h[p] = f[p]
        BY <2>1, <3>2
      <4>2. p = "GSR" => Tally(x, "GSR", h[p])
        BY <1>1, <1>3, <4>1 DEF DataAre, Grows
      <4>3. p # "GSR" => p \in Ports /\ s.x.vals[p] = h[p]
        BY <1>1, <4>1 DEF DataAre
      <4>4. p # "GSR" => x.vals[p] = s.x.vals[p]
        BY <1>3, <2>2, <3>2, <4>3
      <4>5. QED
        BY <4>2, <4>3, <4>4
    <3>3. QED
      BY <3>1, <3>2
  <2>4. QED
    BY <2>3 DEF DataAre, h
<1>6. Steady(Goes(s, x), k, U, l, Laid(f, g))
  BY <1>1, <1>3, <1>5, GoesSteady DEF Follows, Grows
<1>7. QED
  BY <1>3, <1>4, <1>6, GoesIs DEF Follows, Grows

LEMMA AfterCalm ==
    ASSUME NEW s, NEW k, NEW U, NEW l, NEW f, Calm(s, k, U, l, f), NEW t \in Nat
    PROVE  Calm(Goes(s, After(s.x, t)), k, U, l, f)
<1>1. Ready(s.x) /\ Dated(s.x) /\ ~ InSim(s.x) /\ DataAre(s.x, f) /\ s.x.level = l /\ Steady(s, k, U, l, f)
  BY DEF Calm, Steady
<1> DEFINE x == After(s.x, t)
<1>2. Leaves(s.x, x) /\ Ready(x) /\ ~ InSim(x)
  BY <1>1, WaitLeaves
<1> HIDE DEF x
<1>3. Steady(Goes(s, x), k, U, l, f)
  BY <1>1, <1>2, SameData, GoesSteady DEF Leaves, Grows
<1>4. QED
  BY <1>2, <1>3, GoesIs DEF Calm, x

(* Random bits are of the inputs that no trigger is.                       *)
LEMMA RandomCalm ==
    ASSUME NEW s, NEW k, NEW U, NEW l, NEW f, Calm(s, k, U, l, f), DOMAIN f \cap data = {}
    PROVE  Calm(randomize(s), k, U, l, f)
<1>1. CASE data = {}
  BY <1>1 DEF randomize
<1>2. CASE data # {}
  <2>1. data = DataPorts
    BY <1>2 DEF data
  <2> DEFINE g == [p \in data |-> IF p \in move THEN 1 - s.x.vals[p] ELSE s.x.vals[p]]
  <2>2. s.x.vals \in [Ports -> {0, 1}] /\ DataPorts \subseteq Ports
    BY Fields DEF Calm, Steady, Ready, BInv, Ports
  <2>3. g \in [DataPorts -> {0, 1}]
    <3>1. \A p \in DataPorts : s.x.vals[p] \in {0, 1} /\ 1 - s.x.vals[p] \in {0, 1}
      <4>1. ASSUME NEW p \in DataPorts PROVE s.x.vals[p] \in {0, 1}
        BY <2>2
      <4>2. QED
        BY <4>1
    <3>2. QED
      BY <2>1, <3>1
  <2>4. randomize(s) = SetTo(s, g)
    BY <1>2 DEF randomize
  <2> HIDE DEF g
  <2>5. Steady(SetTo(s, g), k, U, l, Laid(f, g)) /\ ~ InSim(SetTo(s, g).x)
    BY <2>1, <2>3, SetToSteady DEF Calm
  <2>6. DOMAIN f \cap DOMAIN g = {}
    BY <2>1, <2>3
  <2>7. Steady(SetTo(s, g), k, U, l, f)
    BY <2>5, <2>6, ForgetData DEF Steady
  <2>8. QED
    BY <2>4, <2>5, <2>7 DEF Calm
<1>3. QED
  BY <1>1, <1>2

Looked(ev) == \E i \in 1 .. Len(ev) : ev[i].op = "sample"

LEMMA CalmNow ==
    ASSUME NEW s, NEW k, NEW U, NEW l, NEW f, Calm(s, k, U, l, f)
    PROVE  Calm(s, s.x.ev, U, l, f) /\ s.x.ev \in Seq(BuilderEvents)
<1>1. s.x.ev \in Seq(BuilderEvents)
  BY Fields DEF Calm, Steady, Ready, BInv
<1>2. QED
  BY <1>1 DEF Calm, Steady, Extends

LEMMA LookedOn ==
    ASSUME NEW a \in Seq(BuilderEvents), NEW b \in Seq(BuilderEvents), Extends(a, b), Looked(a)
    PROVE  Looked(b)
<1>1. PICK i \in 1 .. Len(a) : a[i].op = "sample"
  BY DEF Looked
<1>2. i \in DOMAIN a
  OBVIOUS
<1>3. i \in DOMAIN b /\ b[i] = a[i]
  BY <1>2 DEF Extends
<1>4. i \in 1 .. Len(b)
  BY <1>3
<1>5. QED
  BY <1>1, <1>3, <1>4 DEF Looked

(* cycle: a low clock rises and falls.                                     *)
LEMMA CycleCalm ==
    ASSUME NEW s, NEW k, NEW U, NEW f, Calm(s, k, U, 0, f)
    PROVE  Calm(CycleClock(s), k, U, 0, f) /\ Looked(CycleClock(s).x.ev)
<1> DEFINE up == Sampling(EdgeTo(s, 1))
           t1 == s.x.t + Period \div 2
           mid == Goes(up, After(up.x, t1))
           down == Sampling(EdgeTo(mid, 0))
           t2 == s.x.t + Period
           end == Goes(down, After(down.x, t2))
<1>1. s.x.t \in Nat /\ Period \in Nat
  BY Fields, Numbers DEF Calm, Steady, Ready, BInv
<1>2. t1 \in Nat /\ t2 \in Nat
  BY <1>1
<1>3. CycleClock(s) = end
  BY DEF CycleClock
<1> HIDE DEF t1, t2
<1>4. Calm(EdgeTo(s, 1), k, U, 1, f)
  BY EdgeToSteady DEF Calm
<1>5. Calm(up, k, U, 1, f)
  BY <1>4, SamplingCalm
<1> HIDE DEF up
<1>6. Calm(mid, k, U, 1, f)
  BY <1>2, <1>5, AfterCalm
<1> HIDE DEF mid
<1>7. Calm(EdgeTo(mid, 0), k, U, 0, f)
  BY <1>6, EdgeToSteady DEF Calm
<1>8. Calm(down, k, U, 0, f) /\ JustSampled(down.x)
  BY <1>7, SamplingCalm
<1>9. Calm(down, down.x.ev, U, 0, f) /\ down.x.ev \in Seq(BuilderEvents)
  BY <1>8, CalmNow
<1> HIDE DEF down
<1>10. Calm(end, k, U, 0, f) /\ Calm(end, down.x.ev, U, 0, f)
  BY <1>2, <1>8, <1>9, AfterCalm
<1> HIDE DEF end
<1>11. Looked(down.x.ev) /\ Extends(down.x.ev, end.x.ev) /\ end.x.ev \in Seq(BuilderEvents)
  BY <1>8, <1>10, CalmNow DEF Calm, Steady, JustSampled, Looked
<1>12. QED
  BY <1>3, <1>9, <1>10, <1>11, LookedOn

-----------------------------------------------------------------------------
(* The commands                                                            *)

Driven(U, t, v) == IF v = 1 THEN U \cup {t} ELSE U \ {t}
Levelled(l, t, v) == IF t = "C" THEN v ELSE l
Filled(f, t, v) == IF t = "C" THEN f ELSE Laid(f, AllAt(KeysOf(t), v))
Drivable(U, l, t, v) == (IF v = 1 THEN t \notin U ELSE t \in U) /\ (t = "C" => l # v)

LEMMA KeysAre ==
    /\ KeysOf("GSR") = {"GSR"} /\ KeysOf("CLR") = {"CLR"} /\ KeysOf("D") = DataPorts
    /\ \A t \in TriggerNames : KeysOf(t) \subseteq Keys
<1>1. \A p : p \in Keys <=> p \in DataPorts \/ p = "CLR" \/ p = "GSR"
  BY DEF Keys, Ports, AsyncPorts
<1>2. "CLR" \notin DataPorts /\ "GSR" \notin DataPorts /\ "D" \notin Keys
  BY DEF DataPorts, Keys, Ports, AsyncPorts
<1>3. QED
  BY <1>1, <1>2 DEF KeysOf, TrigOf

LEMMA LookCalm ==
    ASSUME NEW s, NEW k, NEW U, NEW l, NEW f, Calm(s, k, U, l, f)
    PROVE  Calm(Do(s, Look), k, U, l, f) /\ JustSampled(Do(s, Look).x)
<1>1. Do(s, Look) = Sampling(s)
  BY DEF Do, Look, Cmd, Calm, Steady
<1>2. QED
  BY <1>1, SamplingCalm

LEMMA ActCalm ==
    ASSUME NEW s, NEW k, NEW U, NEW l, NEW f, Calm(s, k, U, l, f), l = 0 \/ "C" \in U,
           DOMAIN f \cap data = {}
    PROVE  Calm(Do(s, Act), k, U, l, f) /\ Looked(Do(s, Act).x.ev)
<1>1. Do(s, Act) = Activity(s)
  BY DEF Do, Act, Cmd, Calm, Steady
<1>2. Calm(randomize(s), k, U, l, f)
  BY RandomCalm
<1>3. CASE clocks = <<>> \/ Held(s)
  <2>1. Do(s, Act) = Sampling(randomize(s))
    BY <1>1, <1>3 DEF Activity
  <2>2. Calm(Sampling(randomize(s)), k, U, l, f) /\ JustSampled(Sampling(randomize(s)).x)
    BY <1>2, SamplingCalm
  <2>3. QED
    BY <2>1, <2>2 DEF JustSampled, Looked
<1>4. CASE ~ (clocks = <<>> \/ Held(s))
  <2>1. l = 0
    BY <1>4 DEF Held, Calm, Steady
  <2>2. Calm(CycleClock(randomize(s)), k, U, 0, f) /\ Looked(CycleClock(randomize(s)).x.ev)
    BY <1>2, <2>1, CycleCalm
  <2>3. QED
    BY <1>1, <1>4, <2>1, <2>2 DEF Activity
<1>5. QED
  BY <1>3, <1>4

LEMMA EdgeCalm ==
    ASSUME NEW s, NEW k, NEW U, NEW l, NEW f, Calm(s, k, U, l, f), NEW v \in {0, 1}, v # l
    PROVE  Calm(Do(s, Cmd("edge", "C", v)), k, U, v, f)
<1>1. Do(s, Cmd("edge", "C", v)) = EdgeTo(s, v)
  BY DEF Do, Cmd, Calm, Steady
<1>2. QED
  BY <1>1, EdgeToSteady DEF Calm

LEMMA PulseCalm ==
    ASSUME NEW s, NEW k, NEW U, NEW l, NEW f, Calm(s, k, U, l, f), NEW v \in {0, 1}
    PROVE  Calm(Do(s, Cmd("pulse", "CLR", v)), k, U, l, Laid(f, AllAt({"CLR"}, v)))
<1>1. Do(s, Cmd("pulse", "CLR", v)) = AsyncTo(s, v)
  BY DEF Do, Cmd, Calm, Steady
<1>2. QED
  BY <1>1, AsyncToSteady DEF Calm

(* An asynchronous input that is a trigger is not toggled.                 *)
LEMMA ToggleCalm ==
    ASSUME NEW s, NEW k, NEW U, NEW l, NEW f, Calm(s, k, U, l, f), asyncs = <<>> \/ "CLR" \notin DOMAIN f
    PROVE  Calm(Do(s, Cmd("toggle", "", 0)), k, U, l, f)
<1> DEFINE v == 1 - s.x.vals["CLR"]
<1>1. Do(s, Cmd("toggle", "", 0)) = Toggle(s)
  BY DEF Do, Cmd, Calm, Steady
<1>2. v \in {0, 1}
  <2>1. s.x.vals \in [Ports -> {0, 1}] /\ "CLR" \in Ports
    BY Fields DEF Calm, Steady, Ready, BInv, Ports, AsyncPorts
  <2>2. s.x.vals["CLR"] \in {0, 1}
    BY <2>1
  <2>3. QED
    BY <2>2
<1> HIDE DEF v
<1>3. CASE "CLR" \notin DOMAIN f
  <2> DEFINE g == AllAt({"CLR"}, v)
  <2>1. DOMAIN f \cap DOMAIN g = {}
    BY <1>3 DEF AllAt
  <2>2. Calm(AsyncTo(s, v), k, U, l, Laid(f, g))
    BY <1>2, AsyncToSteady DEF Calm
  <2> HIDE DEF g
  <2>3. Calm(AsyncTo(s, v), k, U, l, f)
    BY <2>1, <2>2, ForgetData DEF Calm, Steady
  <2>4. Calm(Sampling(AsyncTo(s, v)), k, U, l, f)
    BY <2>3, SamplingCalm
  <2>5. QED
    BY <1>1, <2>4 DEF Toggle, v
<1>4. CASE asyncs = <<>>
  BY <1>1, <1>4 DEF Toggle
<1>5. QED
  BY <1>3, <1>4

LEMMA ShowCalm ==
    ASSUME NEW s, NEW k, NEW U, NEW l, NEW f, Calm(s, k, U, l, f), NEW g \in [DataPorts -> {0, 1}]
    PROVE  Calm(Do(s, Cmd("set", "D", g)), k, U, l, Laid(f, g))
<1>1. Do(s, Cmd("set", "D", g)) = SetTo(s, g)
  BY DEF Do, Cmd, Calm, Steady
<1>2. QED
  BY <1>1, SetToSteady DEF Calm

LEMMA OpenCalm ==
    ASSUME NEW s, NEW k, NEW U, NEW l, NEW f, Calm(s, k, U, l, f)
    PROVE  Inner(Do(s, Cmd("open", "", 0)), s.x.ev, U, l, f, {}, 0)
<1> DEFINE h == s.x.ev
<1>1. /\ Ready(s.x) /\ Dated(s.x) /\ ~ InSim(s.x) /\ DataAre(s.x, f) /\ s.x.level = l
      /\ Steady(s, h, U, l, f) /\ h \in Seq(BuilderEvents)
  BY CalmNow DEF Calm, Steady
<1> DEFINE x == Opened(s.x)
<1>2. Do(s, Cmd("open", "", 0)) = Goes(s, x)
  BY DEF Do, Cmd, Calm, Steady
<1>3. Leaves(s.x, x) /\ Busy(x) = {} /\ x.sim = 0 /\ x.ev = h /\ Ready(x) /\ InSim(x)
  BY <1>1, OpenedKeeps, OpenedLeaves
<1> HIDE DEF x, h
<1>4. DataAre(x, f) /\ Prolongs(s.x, x)
  BY <1>1, <1>3, SameData DEF Leaves, Grows
<1>5. Steady(Goes(s, x), h, U, l, f)
  BY <1>1, <1>3, <1>4, GoesSteady DEF Leaves
<1>6. Len(h) - 0 = Len(h)
  BY <1>1
<1> DEFINE r == Goes(s, x)
<1>7. r.x = x
  BY GoesIs
<1> HIDE DEF r
<1>8. Inner(r, h, U, l, f, {}, 0)
  BY <1>3, <1>5, <1>6, <1>7 DEF Inner, r
<1>9. QED
  BY <1>2, <1>8 DEF r, h

LEMMA CloseCalm ==
    ASSUME NEW s, NEW k, NEW U, NEW l, NEW f, NEW P, NEW n \in Nat, n >= 2, Inner(s, k, U, l, f, P, n)
    PROVE  LET r == Do(s, Cmd("close", "", 0)) IN Calm(r, k, U, l, f) /\ r.x.ev = s.x.ev
<1>1. Ready(s.x) /\ Dated(s.x) /\ DataAre(s.x, f) /\ s.x.level = l /\ Steady(s, k, U, l, f) /\ s.x.sim >= n
  BY DEF Inner, Steady
<1>2. s.x.sim >= 2
  <2>1. s.x.sim \in Int
    BY <1>1, Fields DEF Ready, BInv
  <2>2. QED
    BY <1>1, <2>1
<1> DEFINE x == Closed(s.x)
<1>3. Do(s, Cmd("close", "", 0)) = Goes(s, x)
  BY <1>1, <1>2 DEF Do, Cmd, Steady
<1>4. Leaves(s.x, x) /\ Ready(x) /\ ~ InSim(x) /\ x.ev = s.x.ev
  BY <1>1, <1>2, ClosedKeeps, ClosedLeaves
<1> HIDE DEF x
<1>5. DataAre(x, f) /\ Prolongs(s.x, x)
  BY <1>1, <1>4, SameData DEF Leaves, Grows
<1>6. Steady(Goes(s, x), k, U, l, f)
  BY <1>1, <1>4, <1>5, GoesSteady DEF Leaves
<1> DEFINE r == Goes(s, x)
<1>7. r.x = x
  BY GoesIs
<1> HIDE DEF r
<1>8. Calm(r, k, U, l, f) /\ r.x.ev = s.x.ev
  BY <1>4, <1>6, <1>7 DEF Calm, r
<1>9. QED
  BY <1>3, <1>8 DEF r

(* What the call of a trigger's kind does, and the record of what is on.   *)
DriveCall(s, t, v) ==
    CASE t = "GSR" -> Goes(s, Glbled(s.x, v))
      [] t = "C" -> EdgeTo(s, v)
      [] t = "CLR" -> AsyncTo(s, v)
      [] t = "D" -> SetTo(s, [p \in DataPorts |-> v])

LEMMA DriveCalls ==
    ASSUME NEW s, NEW k, NEW U, NEW l, NEW f, Steady(s, k, U, l, f),
           NEW t \in TriggerNames, NEW v \in {0, 1}, t = "C" => l # v,
           ~ InSim(s.x) \/ Busy(s.x) \cap UsesOf(t) = {}
    PROVE  LET r == DriveCall(s, t, v) IN
           /\ Steady(r, k, U, Levelled(l, t, v), Filled(f, t, v)) /\ (InSim(r.x) <=> InSim(s.x))
           /\ Prolongs(s.x, r.x)
           /\ InSim(s.x) => /\ Busy(r.x) \subseteq Busy(s.x) \cup UsesOf(t) /\ r.x.sim >= s.x.sim
                            /\ t # "D" \/ Moved(s.x, AllAt(DataPorts, v)) # {} => r.x.sim > s.x.sim
<1>1. s.x.sim \in Int
  BY Fields DEF Steady, Ready, BInv
<1>2. CASE t = "GSR"
  <2>1. DriveCall(s, t, v) = Goes(s, Glbled(s.x, v))
    BY <1>2 DEF DriveCall
  <2> DEFINE r == Goes(s, Glbled(s.x, v))
             g == Laid(f, AllAt({"GSR"}, v))
  <2>2. ~ InSim(s.x) \/ "glbl" \notin Busy(s.x)
    BY <1>2 DEF UsesOf
  <2>3. /\ Steady(r, k, U, l, g) /\ (InSim(r.x) <=> InSim(s.x)) /\ Prolongs(s.x, r.x)
        /\ InSim(s.x) => r.x.sim = s.x.sim + 1 /\ Busy(r.x) \subseteq Busy(s.x) \cup {"glbl"}
    BY <2>2, GlblSteady
  <2>4. Levelled(l, t, v) = l /\ Filled(f, t, v) = g /\ UsesOf(t) = {"glbl"} /\ DriveCall(s, t, v) = r /\ t # "D"
    BY <1>2, <2>1, KeysAre DEF Levelled, Filled, UsesOf
  <2> HIDE DEF r, g
  <2>5. QED
    BY <1>1, <2>3, <2>4
<1>3. CASE t = "C"
  <2>1. DriveCall(s, t, v) = EdgeTo(s, v)
    BY <1>3 DEF DriveCall
  <2> DEFINE r == EdgeTo(s, v)
  <2>2. ~ InSim(s.x) \/ "edge" \notin Busy(s.x)
    BY <1>3 DEF UsesOf
  <2>3. v # l
    BY <1>3
  <2>4. /\ Steady(r, k, U, v, f) /\ (InSim(r.x) <=> InSim(s.x)) /\ Prolongs(s.x, r.x)
        /\ InSim(s.x) => r.x.sim = s.x.sim + 1 /\ Busy(r.x) \subseteq Busy(s.x) \cup {"edge"}
    BY <2>2, <2>3, EdgeToSteady
  <2>5. Levelled(l, t, v) = v /\ Filled(f, t, v) = f /\ UsesOf(t) = {"edge"} /\ DriveCall(s, t, v) = r /\ t # "D"
    BY <1>3, <2>1 DEF Levelled, Filled, UsesOf
  <2> HIDE DEF r
  <2>6. QED
    BY <1>1, <2>4, <2>5
<1>4. CASE t = "CLR"
  <2>1. DriveCall(s, t, v) = AsyncTo(s, v)
    BY <1>4 DEF DriveCall
  <2> DEFINE r == AsyncTo(s, v)
             g == Laid(f, AllAt({"CLR"}, v))
  <2>2. ~ InSim(s.x) \/ "CLR" \notin Busy(s.x)
    BY <1>4 DEF UsesOf
  <2>3. /\ Steady(r, k, U, l, g) /\ (InSim(r.x) <=> InSim(s.x)) /\ Prolongs(s.x, r.x)
        /\ InSim(s.x) => r.x.sim = s.x.sim + 1 /\ Busy(r.x) \subseteq Busy(s.x) \cup {"CLR"}
    BY <2>2, AsyncToSteady
  <2>4. Levelled(l, t, v) = l /\ Filled(f, t, v) = g /\ UsesOf(t) = {"CLR"} /\ DriveCall(s, t, v) = r /\ t # "D"
    BY <1>4, <2>1, KeysAre DEF Levelled, Filled, UsesOf
  <2> HIDE DEF r, g
  <2>5. QED
    BY <1>1, <2>3, <2>4
<1>5. CASE t = "D"
  <2> DEFINE a == AllAt(DataPorts, v)
             r == SetTo(s, a)
             g == Laid(f, a)
  <2>1. DriveCall(s, t, v) = r
    BY <1>5 DEF DriveCall, AllAt
  <2>2. a \in [DataPorts -> {0, 1}]
    BY DEF AllAt
  <2>3. ~ InSim(s.x) \/ Busy(s.x) \cap DataPorts = {}
    BY <1>5 DEF UsesOf
  <2>4. Levelled(l, t, v) = l /\ Filled(f, t, v) = g /\ UsesOf(t) = DataPorts
    BY <1>5, KeysAre DEF Levelled, Filled, UsesOf
  <2>5. /\ Steady(r, k, U, l, g) /\ (InSim(r.x) <=> InSim(s.x)) /\ Prolongs(s.x, r.x)
        /\ InSim(s.x) => /\ Busy(r.x) \subseteq Busy(s.x) \cup DataPorts /\ r.x.sim >= s.x.sim
                         /\ Moved(s.x, a) # {} => r.x.sim > s.x.sim
    <3> HIDE DEF a
    <3>1. DataPorts \in SUBSET DataPorts
      OBVIOUS
    <3>2. QED
      BY <2>2, <2>3, <3>1, SetToSteady
  <2> DEFINE m == Moved(s.x, a) # {}
  <2> HIDE DEF r, g
  <2>6. QED
    BY <1>5, <2>1, <2>4, <2>5
<1>6. QED
  BY <1>2, <1>3, <1>4, <1>5 DEF TriggerNames

LEMMA DriveIs ==
    ASSUME NEW s, NEW k, NEW U, NEW l, NEW f, Steady(s, k, U, l, f),
           NEW t \in TriggerNames, NEW v \in {0, 1}, Drivable(U, l, t, v),
           NEW h, NEW m, NEW g, Steady(DriveCall(s, t, v), h, U, m, g)
    PROVE  LET r == Do(s, Cmd("drive", t, v)) IN
           Steady(r, h, Driven(U, t, v), m, g) /\ r.x = DriveCall(s, t, v).x
<1> DEFINE a == DriveCall(s, t, v)
           r == [x |-> a.x, ok |-> a.ok, on |-> Driven(s.on, t, v)]
<1>1. s.on = U /\ s.ok
  BY DEF Steady
<1>2. ~ ((t \in s.on) = (v = 1))
  BY <1>1 DEF Drivable
<1>3. Do(s, Cmd("drive", t, v)) = Drive(s, t, v)
  BY <1>1 DEF Do, Cmd
<1>4. Drive(s, t, v) = r
  BY <1>2 DEF Drive, DriveCall, Driven
<1> HIDE DEF a
<1>5. r.x = a.x /\ r.ok = a.ok /\ r.on = Driven(U, t, v)
  BY <1>1
<1> HIDE DEF r
<1>6. Steady(r, h, Driven(U, t, v), m, g)
  BY <1>5 DEF Steady, a
<1>7. QED
  BY <1>3, <1>4, <1>5, <1>6 DEF a

LEMMA DriveCalm ==
    ASSUME NEW s, NEW k, NEW U, NEW l, NEW f, Calm(s, k, U, l, f),
           NEW t \in TriggerNames, NEW v \in {0, 1}, Drivable(U, l, t, v)
    PROVE  Calm(Do(s, Cmd("drive", t, v)), k, Driven(U, t, v), Levelled(l, t, v), Filled(f, t, v))
<1>1. Steady(s, k, U, l, f) /\ ~ InSim(s.x)
  BY DEF Calm
<1> DEFINE a == DriveCall(s, t, v)
<1>2. Steady(a, k, U, Levelled(l, t, v), Filled(f, t, v)) /\ ~ InSim(a.x)
  BY <1>1, DriveCalls DEF Drivable
<1>3. QED
  BY <1>1, <1>2, DriveIs DEF Calm

LEMMA DriveInner ==
    ASSUME NEW s, NEW k, NEW U, NEW l, NEW f, NEW P, NEW n \in Nat, Inner(s, k, U, l, f, P, n),
           NEW t \in TriggerNames, NEW v \in {0, 1}, Drivable(U, l, t, v), P \cap UsesOf(t) = {},
           t = "D" => \A p \in DataPorts : p \in DOMAIN f /\ f[p] = 1 - v
    PROVE  LET r == Do(s, Cmd("drive", t, v)) IN
           /\ Inner(r, k, Driven(U, t, v), Levelled(l, t, v), Filled(f, t, v), P \cup UsesOf(t), n + 1)
           /\ Extends(s.x.ev, r.x.ev)
<1>1. /\ Steady(s, k, U, l, f) /\ InSim(s.x) /\ Busy(s.x) \subseteq P /\ s.x.sim >= n
      /\ Len(s.x.ev) - s.x.sim = Len(k)
  BY DEF Inner
<1> DEFINE a == DriveCall(s, t, v)
<1>2. (~ InSim(s.x) \/ Busy(s.x) \cap UsesOf(t) = {}) /\ (t = "C" => l # v) /\ Steady(s, k, U, l, f)
  BY <1>1 DEF Drivable
<1>3. /\ Steady(a, k, U, Levelled(l, t, v), Filled(f, t, v)) /\ InSim(a.x) /\ Prolongs(s.x, a.x)
      /\ Busy(a.x) \subseteq Busy(s.x) \cup UsesOf(t) /\ a.x.sim >= s.x.sim
      /\ t # "D" \/ Moved(s.x, AllAt(DataPorts, v)) # {} => a.x.sim > s.x.sim
  <2>1. /\ Steady(a, k, U, Levelled(l, t, v), Filled(f, t, v)) /\ (InSim(a.x) <=> InSim(s.x))
        /\ Prolongs(s.x, a.x)
        /\ InSim(s.x) => /\ Busy(a.x) \subseteq Busy(s.x) \cup UsesOf(t) /\ a.x.sim >= s.x.sim
                         /\ t # "D" \/ Moved(s.x, AllAt(DataPorts, v)) # {} => a.x.sim > s.x.sim
    BY <1>2, DriveCalls
  <2>2. QED
    BY <1>1, <2>1
<1>4. t = "D" => Moved(s.x, AllAt(DataPorts, v)) # {}
  <2>1. SUFFICES ASSUME t = "D" PROVE Moved(s.x, AllAt(DataPorts, v)) # {}
    OBVIOUS
  <2>2. "D1" \in DataPorts /\ "D1" # "GSR" /\ 1 - v # v
    BY DEF DataPorts
  <2>3. "D1" \in DOMAIN f /\ f["D1"] = 1 - v
    BY <2>1, <2>2
  <2>4. s.x.vals["D1"] = 1 - v
    BY <1>1, <2>2, <2>3 DEF Steady, DataAre
  <2>5. "D1" \in DOMAIN AllAt(DataPorts, v) /\ AllAt(DataPorts, v)["D1"] = v
    BY <2>2 DEF AllAt
  <2>6. "D1" \in Moved(s.x, AllAt(DataPorts, v))
    BY <2>2, <2>4, <2>5 DEF Moved
  <2>7. QED
    BY <2>6
<1>5. a.x.sim >= n + 1
  <2>1. s.x.sim \in Int /\ a.x.sim \in Int
    BY <1>1, <1>3, Fields DEF Steady, Ready, BInv
  <2>2. a.x.sim > s.x.sim
    BY <1>3, <1>4
  <2>3. QED
    BY <1>1, <2>1, <2>2
<1>6. Len(a.x.ev) - a.x.sim = Len(k) /\ Extends(s.x.ev, a.x.ev)
  BY <1>1, <1>3 DEF Prolongs
<1> DEFINE r == Do(s, Cmd("drive", t, v))
<1>7. Steady(r, k, Driven(U, t, v), Levelled(l, t, v), Filled(f, t, v)) /\ r.x = a.x
  BY <1>1, <1>3, DriveIs
<1> HIDE DEF r, a
<1>8. QED
  BY <1>1, <1>3, <1>5, <1>6, <1>7 DEF Inner, r

LEMMA EdgeInner ==
    ASSUME NEW s, NEW k, NEW U, NEW l, NEW f, NEW P, NEW n \in Nat, Inner(s, k, U, l, f, P, n),
           NEW v \in {0, 1}, v # l, "edge" \notin P
    PROVE  LET r == Do(s, Cmd("edge", "C", v)) IN
           Inner(r, k, U, v, f, P \cup {"edge"}, n + 1) /\ Turned(s.x, r.x, v)
<1>1. /\ Steady(s, k, U, l, f) /\ InSim(s.x) /\ Busy(s.x) \subseteq P /\ s.x.sim >= n
      /\ Len(s.x.ev) - s.x.sim = Len(k)
  BY DEF Inner
<1>2. Do(s, Cmd("edge", "C", v)) = EdgeTo(s, v)
  BY <1>1 DEF Do, Cmd, Steady
<1> DEFINE r == EdgeTo(s, v)
<1>3. /\ Steady(r, k, U, v, f) /\ InSim(r.x) /\ r.x.sim = s.x.sim + 1 /\ Busy(r.x) \subseteq Busy(s.x) \cup {"edge"}
      /\ Prolongs(s.x, r.x) /\ Turned(s.x, r.x, v)
  <2>1. Steady(s, k, U, l, f) /\ (~ InSim(s.x) \/ "edge" \notin Busy(s.x))
    BY <1>1
  <2>2. /\ Steady(r, k, U, v, f) /\ (InSim(r.x) <=> InSim(s.x)) /\ Prolongs(s.x, r.x) /\ Turned(s.x, r.x, v)
        /\ InSim(s.x) => r.x.sim = s.x.sim + 1 /\ Busy(r.x) \subseteq Busy(s.x) \cup {"edge"}
    BY <2>1, EdgeToSteady
  <2>3. QED
    BY <1>1, <2>2
<1> HIDE DEF r
<1>4. r.x.sim >= n + 1
  <2>1. s.x.sim \in Int
    BY <1>1, Fields DEF Steady, Ready, BInv
  <2>2. QED
    BY <1>1, <1>3, <2>1
<1>5. Len(r.x.ev) - r.x.sim = Len(k)
  BY <1>1, <1>3 DEF Prolongs
<1>6. QED
  BY <1>1, <1>2, <1>3, <1>4, <1>5 DEF Inner, r

-----------------------------------------------------------------------------
(* Phases are made of blocks, one after the other.                         *)

FlatStep(seqs, f, i) == IF i = 1 THEN seqs[i] ELSE f[i - 1] \o seqs[i]
IsFlat(seqs, n, f) == f = [i \in 1 .. n |-> FlatStep(seqs, f, i)]
Flat(seqs, n) == CHOOSE f : f = [i \in 1 .. n |-> FlatStep(seqs, f, i)]

LEMMA FlatExists ==
    ASSUME NEW seqs, NEW n \in Nat
    PROVE  \E f : IsFlat(seqs, n, f)
<1> DEFINE Bad == {m \in Nat : ~ \E f : IsFlat(seqs, m, f)}
<1>1. SUFFICES ASSUME Bad # {} PROVE FALSE
  OBVIOUS
<1>2. PICK m \in Bad : \A i \in Bad : m <= i
  BY <1>1, Smallest
<1>3. CASE m = 0
  <2> DEFINE f == [i \in 1 .. 0 |-> i]
  <2>1. f = [i \in 1 .. 0 |-> FlatStep(seqs, f, i)]
    OBVIOUS
  <2>2. IsFlat(seqs, m, f)
    BY <1>3, <2>1 DEF IsFlat
  <2>3. QED
    BY <2>2
<1>4. CASE m # 0
  <2>1. m \in Nat /\ m > 0 /\ m - 1 \in Nat /\ ~ (m <= m - 1)
    BY <1>4
  <2>2. PICK f : IsFlat(seqs, m - 1, f)
    BY <1>2, <2>1
  <2> DEFINE g == [i \in 1 .. m |-> IF i = m THEN FlatStep(seqs, f, m) ELSE f[i]]
  <2>3. ASSUME NEW i \in 1 .. m PROVE g[i] = FlatStep(seqs, g, i)
    <3>1. CASE i = 1
      <4>1. CASE m = 1
        BY <3>1, <4>1 DEF FlatStep
      <4>2. CASE m # 1
        <5>1. g[i] = f[i] /\ i \in 1 .. m - 1
          BY <2>1, <3>1, <4>2
        <5>2. f[i] = FlatStep(seqs, f, i)
          BY <2>2, <5>1 DEF IsFlat
        <5> HIDE DEF g
        <5>3. QED
          BY <3>1, <5>1, <5>2 DEF FlatStep
      <4>3. QED
        BY <4>1, <4>2
    <3>2. CASE i # 1
      <4>1. i - 1 \in 1 .. m /\ i - 1 # m
        BY <2>1, <3>2
      <4>2. g[i - 1] = f[i - 1]
        BY <4>1
      <4>3. g[i] = FlatStep(seqs, f, i)
        <5>1. CASE i = m
          BY <5>1
        <5>2. CASE i # m
          <6>1. i \in 1 .. m - 1 /\ g[i] = f[i]
            BY <2>1, <5>2
          <6> HIDE DEF g
          <6>2. QED
            BY <2>2, <6>1 DEF IsFlat
        <5>3. QED
          BY <5>1, <5>2
      <4> HIDE DEF g
      <4>4. QED
        BY <3>2, <4>2, <4>3 DEF FlatStep
    <3>3. QED
      BY <3>1, <3>2
  <2>4. g = [i \in 1 .. m |-> g[i]]
    OBVIOUS
  <2> HIDE DEF g
  <2>5. g = [i \in 1 .. m |-> FlatStep(seqs, g, i)]
    BY <2>3, <2>4
  <2>6. IsFlat(seqs, m, g)
    BY <2>5 DEF IsFlat
  <2>7. QED
    BY <2>6
<1>5. QED
  BY <1>3, <1>4

LEMMA FlattenIs ==
    ASSUME NEW seqs \in Seq(Seq(Commands)), Len(seqs) # 0
    PROVE  \E f : /\ f[1] = seqs[1] /\ FlattenSeq(seqs) = f[Len(seqs)]
                  /\ \A i \in 2 .. Len(seqs) : f[i] = f[i - 1] \o seqs[i]
<1> DEFINE n == Len(seqs)
           f == Flat(seqs, n)
<1>1. n \in Nat /\ n >= 1
  OBVIOUS
<1>2. FlattenSeq(seqs) = f[n]
  BY DEF FlattenSeq, Flat, FlatStep
<1> HIDE DEF n
<1>3. f = [i \in 1 .. n |-> FlatStep(seqs, f, i)]
  <2>1. PICK g : g = [i \in 1 .. n |-> FlatStep(seqs, g, i)]
    BY <1>1, FlatExists DEF IsFlat
  <2>2. QED
    BY <2>1, Zenon DEF Flat
<1> HIDE DEF f
<1>4. \A i \in 1 .. n : f[i] = FlatStep(seqs, f, i)
  BY <1>3
<1>5. f[1] = seqs[1]
  <2>1. 1 \in 1 .. n
    BY <1>1
  <2>2. QED
    BY <1>4, <2>1 DEF FlatStep
<1>6. ASSUME NEW i \in 2 .. n PROVE f[i] = f[i - 1] \o seqs[i]
  <2>1. i \in 1 .. n /\ i # 1
    BY <1>1
  <2>2. QED
    BY <1>4, <2>1 DEF FlatStep
<1>7. QED
  BY <1>2, <1>5, <1>6 DEF n

(* The states between the blocks.                                          *)
Blocks(s, seqs, bt) == bt[0] = s /\ \A i \in 1 .. Len(seqs) : bt[i] = Run(bt[i - 1], seqs[i])

LEMMA RunFlat ==
    ASSUME NEW s, NEW seqs \in Seq(Seq(Commands))
    PROVE  /\ FlattenSeq(seqs) \in Seq(Commands)
           /\ \E bt : Blocks(s, seqs, bt) /\ Run(s, FlattenSeq(seqs)) = bt[Len(seqs)]
<1> DEFINE n == Len(seqs)
<1>1. n \in Nat /\ \A i \in 1 .. n : seqs[i] \in Seq(Commands)
  OBVIOUS
<1>2. CASE n = 0
  <2>1. FlattenSeq(seqs) = seqs /\ seqs = <<>>
    BY <1>2 DEF FlattenSeq
  <2> DEFINE bt == [i \in 0 .. 0 |-> s]
  <2>2. bt[0] = s
    OBVIOUS
  <2> HIDE DEF bt
  <2>3. Blocks(s, seqs, bt)
    BY <1>2, <2>2 DEF Blocks
  <2>4. QED
    BY <1>2, <2>1, <2>2, <2>3, RunNone
<1>3. CASE n # 0
  <2>1. PICK f : /\ f[1] = seqs[1] /\ FlattenSeq(seqs) = f[n]
                 /\ \A i \in 2 .. n : f[i] = f[i - 1] \o seqs[i]
    BY <1>3, FlattenIs
  <2> HIDE DEF n
  <2> DEFINE bt == [i \in 0 .. n |-> IF i = 0 THEN s ELSE Run(s, f[i])]
             Bad == {i \in Nat : i \in 1 .. n /\ f[i] \notin Seq(Commands)}
  <2>2. ASSUME Bad # {} PROVE FALSE
    <3>1. PICK i \in Bad : \A j \in Bad : i <= j
      BY <2>2, Smallest
    <3>2. i # 1
      BY <1>1, <2>1, <3>1
    <3>3. i \in 2 .. n /\ i - 1 \in 1 .. n /\ i - 1 \in Nat /\ ~ (i <= i - 1) /\ i \in 1 .. n
      BY <1>1, <3>1, <3>2
    <3>4. f[i - 1] \in Seq(Commands) /\ seqs[i] \in Seq(Commands)
      BY <1>1, <3>1, <3>3
    <3>5. f[i - 1] \o seqs[i] \in Seq(Commands)
      BY <3>4, ConcatProperties
    <3>6. QED
      BY <2>1, <3>1, <3>3, <3>5
  <2>3. \A i \in 1 .. n : f[i] \in Seq(Commands)
    <3>1. \A i \in 1 .. n : i \in Nat
      OBVIOUS
    <3>2. QED
      BY <2>2, <3>1
  <2> HIDE DEF Bad
  <2>4. ASSUME NEW i \in 1 .. n PROVE bt[i] = Run(bt[i - 1], seqs[i])
    <3>1. i \in 0 .. n /\ i # 0 /\ i - 1 \in 0 .. n
      BY <1>1
    <3>2. bt[i] = Run(s, f[i])
      BY <3>1
    <3>3. CASE i = 1
      <4>1. bt[i - 1] = s
        BY <3>1, <3>3
      <4> HIDE DEF bt
      <4>2. QED
        BY <2>1, <3>2, <3>3, <4>1
    <3>4. CASE i # 1
      <4>1. i \in 2 .. n /\ i - 1 # 0 /\ i - 1 \in 1 .. n
        BY <1>1, <3>4
      <4>2. bt[i - 1] = Run(s, f[i - 1])
        BY <3>1, <4>1
      <4> HIDE DEF bt
      <4>3. f[i] = f[i - 1] \o seqs[i]
        BY <2>1, <4>1
      <4>4. Run(s, f[i - 1] \o seqs[i]) = Run(Run(s, f[i - 1]), seqs[i])
        BY <1>1, <2>3, <4>1, RunConcat
      <4>5. QED
        BY <3>2, <4>2, <4>3, <4>4
    <3>5. QED
      BY <3>3, <3>4
  <2>5. bt[0] = s /\ bt[n] = Run(s, f[n]) /\ n \in 1 .. n
    BY <1>1, <1>3 DEF n
  <2> HIDE DEF bt
  <2>6. Blocks(s, seqs, bt)
    BY <2>4, <2>5 DEF Blocks, n
  <2>7. Run(s, FlattenSeq(seqs)) = bt[n] /\ FlattenSeq(seqs) \in Seq(Commands)
    BY <2>1, <2>3, <2>5
  <2>8. QED
    BY <2>6, <2>7 DEF n
<1>4. QED
  BY <1>2, <1>3

LEMMA RunOne ==
    ASSUME NEW s, NEW c \in Commands
    PROVE  <<c>> \in Seq(Commands) /\ Run(s, <<c>>) = Do(s, c)
<1> DEFINE cmds == <<c>>
<1>1. cmds \in Seq(Commands) /\ Len(cmds) = 1 /\ cmds[1] = c
  OBVIOUS
<1> HIDE DEF cmds
<1>2. PICK at : Course(s, cmds, at) /\ Run(s, cmds) = at[1]
  BY <1>1, RunSteps
<1>3. 1 \in 1 .. 1 /\ 1 - 1 = 0
  OBVIOUS
<1>4. at[1] = Do(s, c)
  BY <1>1, <1>2, <1>3 DEF Course
<1>5. QED
  BY <1>1, <1>2, <1>4 DEF cmds

(* What the triggers that are driven say of the inputs, and g of the others. *)
Has == {t \in TriggerNames : IsTrig(t)}
Known(T) == {p \in Keys : TrigOf(p) \in T}
Unsaid == [p \in {} |-> 0]
LevelOf(U) == IF "C" \in U THEN 1 ELSE 0
BitsOf(T, U, g) ==
    [p \in Known(T) \cup DOMAIN g |->
        IF p \in Known(T) THEN (IF TrigOf(p) \in U THEN 1 ELSE 0) ELSE g[p]]
OnWith(s, k, U, g) == Calm(s, k, U, LevelOf(U), BitsOf(Has, U, g))
OnAre(s, k, U) == OnWith(s, k, U, Unsaid)

(* What events show, they and any that go on from them: a sample finds the  *)
(* clock at l, and the inputs as f has them.                                *)
Longer(a, b) == b \in Seq(BuilderEvents) /\ Extends(a, b)
Lasting(S) == \A a \in S : \A b : Longer(a, b) => b \in S
Sights(l, f) ==
    {ev \in Seq(BuilderEvents) : \E i \in 1 .. Len(ev) :
        ev[i].op = "sample" /\ LogIs(ev, i, "C", l) /\ \A p \in DOMAIN f : LogIs(ev, i, p, f[p])}
Lookings == {ev \in Seq(BuilderEvents) : Looked(ev)}

(* From every state between two blocks back to one; some of what it shows.  *)
Safe(cmds) ==
    /\ cmds \in Seq(Commands)
    /\ \A s : \A k : OnAre(s, k, {}) => OnAre(Run(s, cmds), k, {})
Reveals(cmds, S) == \A s : \A k : OnAre(s, k, {}) => Run(s, cmds).x.ev \in S

LEMMA LogOn ==
    ASSUME NEW a \in Seq(BuilderEvents), NEW b, Longer(a, b), NEW n \in 0 .. Len(a), NEW key, NEW v
    PROVE  LogIs(a, n, key, v) <=> LogIs(b, n, key, v)
<1>1. \A i \in 1 .. n : b[i] = a[i]
  BY DEF Longer, Extends
<1>2. QED
  BY <1>1 DEF LogIs

LEMMA LongerIs ==
    ASSUME NEW a \in Seq(BuilderEvents), NEW b, Longer(a, b)
    PROVE  b \in Seq(BuilderEvents) /\ Len(a) <= Len(b) /\ \A i \in 1 .. Len(a) : i \in 1 .. Len(b) /\ b[i] = a[i]
<1>1. b \in Seq(BuilderEvents) /\ Len(a) \in Nat /\ Len(b) \in Nat
  BY DEF Longer
<1>2. \A i \in 1 .. Len(a) : i \in 1 .. Len(b) /\ b[i] = a[i]
  BY <1>1 DEF Longer, Extends
<1>3. Len(a) <= Len(b)
  <2>1. CASE Len(a) = 0
    BY <1>1, <2>1
  <2>2. CASE Len(a) # 0
    <3>1. Len(a) \in 1 .. Len(a)
      BY <1>1, <2>2
    <3>2. Len(a) \in 1 .. Len(b)
      BY <1>2, <3>1
    <3>3. QED
      BY <1>1, <3>2
  <2>3. QED
    BY <2>1, <2>2
<1>4. QED
  BY <1>1, <1>2, <1>3

LEMMA SightsLast ==
    /\ Lasting(Lookings)
    /\ \A l, f : Lasting(Sights(l, f))
<1>1. ASSUME NEW l, NEW f, NEW a \in Sights(l, f), NEW b, Longer(a, b)
      PROVE  b \in Sights(l, f)
  <2>1. a \in Seq(BuilderEvents)
    BY <1>1 DEF Sights
  <2>2. PICK i \in 1 .. Len(a) :
            a[i].op = "sample" /\ LogIs(a, i, "C", l) /\ \A p \in DOMAIN f : LogIs(a, i, p, f[p])
    BY <1>1 DEF Sights
  <2>3. i \in 0 .. Len(a) /\ i \in 1 .. Len(b) /\ b[i] = a[i] /\ b \in Seq(BuilderEvents)
    BY <1>1, <2>1, LongerIs
  <2>4. LogIs(b, i, "C", l) /\ \A p \in DOMAIN f : LogIs(b, i, p, f[p])
    BY <1>1, <2>1, <2>2, <2>3, LogOn
  <2>5. QED
    BY <2>2, <2>3, <2>4 DEF Sights
<1>2. ASSUME NEW a \in Lookings, NEW b, Longer(a, b)
      PROVE  b \in Lookings
  BY <1>2, LookedOn DEF Lookings, Longer
<1>3. QED
  BY <1>1, <1>2 DEF Lasting

LEMMA FreshSight ==
    ASSUME NEW s, NEW k, NEW U, NEW l, NEW f, Calm(s, k, U, l, f), JustSampled(s.x)
    PROVE  s.x.ev \in Sights(l, f)
<1> DEFINE i == Len(s.x.ev)
<1>1. s.x.ev \in Seq(BuilderEvents)
  BY CalmNow
<1>2. i \in 1 .. Len(s.x.ev) /\ s.x.ev[i].op = "sample"
  BY DEF JustSampled
<1>3. Tallied(s.x) /\ s.x.level = l /\ DataAre(s.x, f)
  BY DEF Calm, Steady
<1>4. Tally(s.x, "C", l) /\ \A p \in DOMAIN f : Tally(s.x, p, f[p])
  BY <1>3 DEF Tallied, DataAre
<1>5. LogIs(s.x.ev, i, "C", l) /\ \A p \in DOMAIN f : LogIs(s.x.ev, i, p, f[p])
  BY <1>4 DEF Tally
<1> HIDE DEF i
<1>6. QED
  BY <1>1, <1>2, <1>5 DEF Sights

(* What is reached from a state goes on from its events.                    *)
LEMMA LongerNow ==
    ASSUME NEW s, NEW r, NEW U, NEW l, NEW f, Calm(r, s.x.ev, U, l, f)
    PROVE  Longer(s.x.ev, r.x.ev)
BY CalmNow DEF Longer, Calm, Steady

LEMMA Lasts ==
    ASSUME NEW S, Lasting(S), NEW n \in Nat, NEW at, \A i \in 1 .. n : Longer(at[i - 1].x.ev, at[i].x.ev),
           NEW j \in 0 .. n, at[j].x.ev \in S
    PROVE  at[n].x.ev \in S
<1> DEFINE Bad == {i \in Nat : j <= i /\ i <= n /\ at[i].x.ev \notin S}
<1>1. ASSUME Bad # {} PROVE FALSE
  <2>1. PICK i \in Bad : \A m \in Bad : i <= m
    BY <1>1, Smallest
  <2>2. i # j
    BY <2>1
  <2>3. i \in 1 .. n /\ i - 1 \in Nat /\ j <= i - 1 /\ i - 1 <= n /\ ~ (i <= i - 1)
    BY <2>1, <2>2
  <2>4. at[i - 1].x.ev \in S
    BY <2>1, <2>3
  <2>5. Longer(at[i - 1].x.ev, at[i].x.ev)
    BY <2>3
  <2> DEFINE a == at[i - 1].x.ev
             b == at[i].x.ev
  <2>6. a \in S /\ Longer(a, b) /\ b \notin S
    BY <2>1, <2>4, <2>5
  <2> HIDE DEF a, b
  <2>7. QED
    BY <2>6 DEF Lasting
<1>2. j <= n /\ n <= n /\ n \notin Bad
  BY <1>1
<1>3. QED
  BY <1>2

LEMMA SafeNow ==
    ASSUME NEW cmds, Safe(cmds), NEW s, NEW k, OnAre(s, k, {})
    PROVE  OnAre(Run(s, cmds), k, {}) /\ Longer(s.x.ev, Run(s, cmds).x.ev)
<1>1. OnAre(s, s.x.ev, {})
  BY CalmNow DEF OnAre, OnWith
<1>2. OnAre(Run(s, cmds), k, {}) /\ OnAre(Run(s, cmds), s.x.ev, {})
  BY <1>1 DEF Safe
<1>3. QED
  BY <1>2, LongerNow DEF OnAre, OnWith

LEMMA SafeNone == Safe(<<>>)
BY RunNone DEF Safe

LEMMA SafeConcat ==
    ASSUME NEW a, NEW b, Safe(a), Safe(b)
    PROVE  /\ Safe(a \o b)
           /\ \A S : Lasting(S) /\ (Reveals(a, S) \/ Reveals(b, S)) => Reveals(a \o b, S)
<1>1. a \in Seq(Commands) /\ b \in Seq(Commands)
  BY DEF Safe
<1>2. \A s : Run(s, a \o b) = Run(Run(s, a), b)
  BY <1>1, RunConcat
<1>3. a \o b \in Seq(Commands)
  BY <1>1, RunConcat
<1> DEFINE c == a \o b
<1>4. c \in Seq(Commands) /\ \A s : Run(s, c) = Run(Run(s, a), b)
  BY <1>2, <1>3
<1> HIDE DEF c
<1>5. Safe(c)
  BY <1>4 DEF Safe
<1>6. ASSUME NEW S, Lasting(S), Reveals(a, S) \/ Reveals(b, S), NEW s, NEW k, OnAre(s, k, {})
      PROVE  Run(s, c).x.ev \in S
  <2> DEFINE r == Run(s, a)
             q == Run(r, b)
  <2>1. OnAre(r, k, {}) /\ Longer(r.x.ev, q.x.ev) /\ Run(s, c) = q
    BY <1>4, <1>6, SafeNow
  <2>2. CASE Reveals(a, S)
    <3>1. r.x.ev \in S
      BY <1>6, <2>2 DEF Reveals
    <3> DEFINE d == r.x.ev
               e == q.x.ev
    <3>2. d \in S /\ Longer(d, e)
      BY <2>1, <3>1
    <3> HIDE DEF d, e
    <3>3. e \in S
      BY <1>6, <3>2 DEF Lasting
    <3>4. QED
      BY <2>1, <3>3 DEF e
  <2>3. CASE Reveals(b, S)
    BY <2>1, <2>3 DEF Reveals
  <2>4. QED
    BY <1>6, <2>2, <2>3
<1>7. QED
  BY <1>5, <1>6 DEF Reveals, c

LEMMA SafeFlat ==
    ASSUME NEW seqs \in Seq(Seq(Commands)), \A i \in 1 .. Len(seqs) : Safe(seqs[i])
    PROVE  /\ Safe(FlattenSeq(seqs))
           /\ \A S : \A i \in 1 .. Len(seqs) : Lasting(S) /\ Reveals(seqs[i], S) => Reveals(FlattenSeq(seqs), S)
<1> DEFINE n == Len(seqs)
<1>1. n \in Nat
  OBVIOUS
<1>2. ASSUME NEW s, NEW k, OnAre(s, k, {}), NEW bt, Blocks(s, seqs, bt)
      PROVE  \A i \in 0 .. n : OnAre(bt[i], k, {})
  <2> DEFINE Bad == {i \in Nat : i <= n /\ ~ OnAre(bt[i], k, {})}
  <2>2. ASSUME Bad # {} PROVE FALSE
    <3>1. PICK i \in Bad : \A j \in Bad : i <= j
      BY <2>2, Smallest
    <3>2. i # 0
      BY <1>2, <3>1 DEF Blocks
    <3> HIDE DEF n
    <3>3. i \in 1 .. n /\ i - 1 \in Nat /\ i - 1 <= n /\ ~ (i <= i - 1)
      BY <1>1, <3>1, <3>2
    <3>4. OnAre(bt[i - 1], k, {})
      BY <3>1, <3>3
    <3>5. bt[i] = Run(bt[i - 1], seqs[i]) /\ Safe(seqs[i])
      BY <1>2, <3>3 DEF Blocks, n
    <3>6. QED
      BY <3>1, <3>4, <3>5 DEF Safe
  <2>3. \A i \in 0 .. n : i \in Nat /\ i <= n
    BY <1>1
  <2>4. QED
    BY <2>2, <2>3
<1>3. FlattenSeq(seqs) \in Seq(Commands)
  BY RunFlat
<1>4. ASSUME NEW s, NEW k, OnAre(s, k, {})
      PROVE  OnAre(Run(s, FlattenSeq(seqs)), k, {})
  <2>1. PICK bt : Blocks(s, seqs, bt) /\ Run(s, FlattenSeq(seqs)) = bt[n]
    BY RunFlat
  <2>2. n \in 0 .. n
    BY <1>1
  <2>3. QED
    BY <1>2, <1>4, <2>1, <2>2
<1>5. ASSUME NEW S, NEW j \in 1 .. n, Lasting(S), Reveals(seqs[j], S), NEW s, NEW k, OnAre(s, k, {})
      PROVE  Run(s, FlattenSeq(seqs)).x.ev \in S
  <2>1. PICK bt : Blocks(s, seqs, bt) /\ Run(s, FlattenSeq(seqs)) = bt[n]
    BY RunFlat
  <2>2. \A i \in 0 .. n : OnAre(bt[i], k, {})
    BY <1>2, <1>5, <2>1
  <2>3. ASSUME NEW i \in 1 .. n
        PROVE  Longer(bt[i - 1].x.ev, bt[i].x.ev)
    <3>1. i - 1 \in 0 .. n
      BY <1>1
    <3>2. bt[i] = Run(bt[i - 1], seqs[i]) /\ Safe(seqs[i])
      BY <2>1 DEF Blocks
    <3>3. OnAre(bt[i - 1], k, {})
      BY <2>2, <3>1
    <3>4. QED
      BY <3>2, <3>3, SafeNow
  <2>4. j \in 0 .. n /\ j - 1 \in 0 .. n
    BY <1>1
  <2>5. bt[j].x.ev \in S
    <3>1. bt[j] = Run(bt[j - 1], seqs[j]) /\ OnAre(bt[j - 1], k, {})
      BY <2>1, <2>2, <2>4 DEF Blocks
    <3>2. QED
      BY <1>5, <3>1 DEF Reveals
  <2> HIDE DEF n
  <2>6. bt[n].x.ev \in S
    BY <1>1, <1>5, <2>3, <2>4, <2>5, Lasts
  <2>7. QED
    BY <2>1, <2>6 DEF n
<1>6. Safe(FlattenSeq(seqs))
  BY <1>3, <1>4 DEF Safe
<1>7. QED
  BY <1>5, <1>6 DEF Reveals

-----------------------------------------------------------------------------
(* The commands, between states in which just what is driven is on.        *)

LEMMA CommandsAre ==
    /\ {Look, Act, Rise, Fall} \subseteq Commands
    /\ \A t \in TriggerNames : Up(t) \in Commands /\ Down(t) \in Commands
    /\ \A v \in {0, 1} : Cmd("pulse", "CLR", v) \in Commands
    /\ \A g \in [DataPorts -> {0, 1}] : Cmd("set", "D", g) \in Commands
    /\ {Cmd("toggle", "", 0), Cmd("open", "", 0), Cmd("close", "", 0)} \subseteq Commands
<1>1. ASSUME NEW op \in CommandOps, NEW name \in TriggerNames \cup {""},
             NEW v \in {0, 1} \cup [DataPorts -> {0, 1}]
      PROVE  Cmd(op, name, v) \in Commands
  BY DEF Cmd, Commands
<1>2. /\ {"drive", "sample", "activity", "edge", "pulse", "set", "toggle", "open", "close"} \subseteq CommandOps
      /\ {"", "C", "CLR", "D"} \subseteq TriggerNames \cup {""}
      /\ {0, 1} \subseteq {0, 1} \cup [DataPorts -> {0, 1}]
      /\ TriggerNames \subseteq TriggerNames \cup {""}
  BY DEF CommandOps, TriggerNames
<1>3. {Look, Act, Rise, Fall} \subseteq Commands
  BY <1>1, <1>2 DEF Look, Act, Rise, Fall
<1>4. \A t \in TriggerNames : Up(t) \in Commands /\ Down(t) \in Commands
  BY <1>1, <1>2 DEF Up, Down
<1>5. \A v \in {0, 1} : Cmd("pulse", "CLR", v) \in Commands
  BY <1>1, <1>2
<1>6. \A g \in [DataPorts -> {0, 1}] : Cmd("set", "D", g) \in Commands
  BY <1>1, <1>2
<1>7. {Cmd("toggle", "", 0), Cmd("open", "", 0), Cmd("close", "", 0)} \subseteq Commands
  BY <1>1, <1>2
<1>8. QED
  BY <1>3, <1>4, <1>5, <1>6, <1>7

LEMMA LookOn ==
    ASSUME NEW s, NEW k, NEW U, NEW g, OnWith(s, k, U, g)
    PROVE  LET r == Do(s, Look) IN
           /\ OnWith(r, k, U, g) /\ Longer(s.x.ev, r.x.ev)
           /\ r.x.ev \in Sights(LevelOf(U), BitsOf(Has, U, g))
<1> DEFINE r == Do(s, Look)
           f == BitsOf(Has, U, g)
<1>1. Calm(s, k, U, LevelOf(U), f) /\ Calm(s, s.x.ev, U, LevelOf(U), f)
  BY CalmNow DEF OnWith
<1> HIDE DEF f
<1>2. Calm(r, k, U, LevelOf(U), f) /\ Calm(r, s.x.ev, U, LevelOf(U), f) /\ JustSampled(r.x)
  BY <1>1, LookCalm
<1> HIDE DEF r
<1>3. Longer(s.x.ev, r.x.ev) /\ r.x.ev \in Sights(LevelOf(U), f)
  BY <1>2, LongerNow, FreshSight
<1>4. QED
  BY <1>2, <1>3 DEF OnWith, r, f

(* Random bits are of no trigger.                                          *)
LEMMA KnownIs ==
    /\ \A t \in TriggerNames : t \in Has <=> IsTrig(t)
    /\ \A T, U, g : DOMAIN BitsOf(T, U, g) = Known(T) \cup DOMAIN g
    /\ \A T, t : t \in T => KeysOf(t) \subseteq Known(T)
    /\ \A T : \A p \in Known(T) : p \in Keys /\ TrigOf(p) \in T /\ p \in KeysOf(TrigOf(p))
    /\ Known(Has) \cap data = {}
<1>1. \A T : \A p \in Known(T) : p \in Keys /\ TrigOf(p) \in T /\ p \in KeysOf(TrigOf(p))
  BY DEF Known, KeysOf
<1>2. \A T, t : t \in T => KeysOf(t) \subseteq Known(T)
  BY DEF Known, KeysOf
<1>3. Known(Has) \cap data = {}
  <2>1. SUFFICES ASSUME NEW p \in Known(Has), p \in data PROVE FALSE
    OBVIOUS
  <2>2. p \in DataPorts /\ ~ IsTrig("D")
    BY <2>1 DEF data
  <2>3. TrigOf(p) = "D" /\ TrigOf(p) \in Has
    BY <2>1, <2>2 DEF Known, TrigOf
  <2>4. QED
    BY <2>2, <2>3 DEF Has
<1>4. QED
  BY <1>1, <1>2, <1>3 DEF BitsOf, Has

LEMMA ActOn ==
    ASSUME NEW s, NEW k, NEW U, NEW g, DOMAIN g \cap DataPorts = {}, OnWith(s, k, U, g)
    PROVE  LET r == Do(s, Act) IN
           OnWith(r, k, U, g) /\ Longer(s.x.ev, r.x.ev) /\ r.x.ev \in Lookings
<1> DEFINE r == Do(s, Act)
           f == BitsOf(Has, U, g)
<1>1. Calm(s, k, U, LevelOf(U), f) /\ Calm(s, s.x.ev, U, LevelOf(U), f)
  BY CalmNow DEF OnWith
<1>2. DOMAIN f \cap data = {}
  <2>1. data \subseteq DataPorts
    BY DEF data
  <2>2. DOMAIN f = Known(Has) \cup DOMAIN g /\ Known(Has) \cap data = {}
    BY KnownIs
  <2>3. QED
    BY <2>1, <2>2
<1>3. LevelOf(U) = 0 \/ "C" \in U
  BY DEF LevelOf
<1> HIDE DEF f
<1>4. Calm(r, k, U, LevelOf(U), f) /\ Calm(r, s.x.ev, U, LevelOf(U), f) /\ Looked(r.x.ev)
  BY <1>1, <1>2, <1>3, ActCalm
<1> HIDE DEF r
<1>5. Longer(s.x.ev, r.x.ev) /\ r.x.ev \in Lookings
  BY <1>4, LongerNow DEF Longer, Lookings
<1>6. QED
  BY <1>4, <1>5 DEF OnWith, r, f

LEMMA NoneIs == DOMAIN Unsaid = {} /\ DOMAIN Unsaid \cap DataPorts = {}
BY DEF Unsaid

(* An asynchronous input that is no trigger.                               *)
Beside(v) == AllAt({"CLR"}, v)

LEMMA BesideIs ==
    ASSUME ~ IsTrig("CLR")
    PROVE  \A U, v, w : /\ Laid(BitsOf(Has, U, Unsaid), Beside(v)) = BitsOf(Has, U, Beside(v))
                        /\ Laid(BitsOf(Has, U, Beside(w)), Beside(v)) = BitsOf(Has, U, Beside(v))
                        /\ DOMAIN Beside(v) \cap DataPorts = {}
<1>1. "CLR" \notin Known(Has)
  <2>1. TrigOf("CLR") = "CLR"
    BY DEF TrigOf, DataPorts
  <2>2. QED
    BY <2>1 DEF Known, Has
<1>2. \A v : DOMAIN Beside(v) = {"CLR"} /\ Beside(v)["CLR"] = v
  BY DEF Beside, AllAt
<1>3. "CLR" \notin DataPorts
  BY DEF DataPorts
<1>4. ASSUME NEW U, NEW v, NEW g, DOMAIN g \subseteq {"CLR"}
      PROVE  Laid(BitsOf(Has, U, g), Beside(v)) = BitsOf(Has, U, Beside(v))
  <2> DEFINE K == Known(Has)
             b == Beside(v)
             f == BitsOf(Has, U, g)
             h == BitsOf(Has, U, b)
             l == Laid(f, b)
  <2>1. /\ DOMAIN f = K \cup DOMAIN g /\ DOMAIN h = K \cup {"CLR"}
        /\ h = [p \in K \cup {"CLR"} |-> h[p]] /\ h["CLR"] = v
        /\ \A p \in K : f[p] = h[p]
    BY <1>1, <1>2 DEF BitsOf
  <2>2. DOMAIN b = {"CLR"} /\ b["CLR"] = v /\ "CLR" \notin K
    BY <1>1, <1>2
  <2> HIDE DEF K, b, f, h
  <2>3. DOMAIN l = K \cup {"CLR"} /\ l = [p \in K \cup {"CLR"} |-> l[p]]
    BY <1>4, <2>1, <2>2 DEF Laid
  <2>4. \A p \in K \cup {"CLR"} : l[p] = h[p]
    BY <2>1, <2>2, <2>3 DEF Laid
  <2> HIDE DEF l
  <2>5. l = h
    BY <2>1, <2>3, <2>4
  <2>6. QED
    BY <2>5 DEF l, h, f, b
<1>5. QED
  BY <1>2, <1>3, <1>4, NoneIs

LEMMA PulseOn ==
    ASSUME ~ IsTrig("CLR"), NEW s, NEW k, NEW U, NEW g,
           g = Unsaid \/ \E w : g = Beside(w), OnWith(s, k, U, g), NEW v \in {0, 1}
    PROVE  LET r == Do(s, Cmd("pulse", "CLR", v)) IN
           OnWith(r, k, U, Beside(v)) /\ Longer(s.x.ev, r.x.ev)
<1> DEFINE r == Do(s, Cmd("pulse", "CLR", v))
           f == BitsOf(Has, U, g)
           h == BitsOf(Has, U, Beside(v))
<1>1. Calm(s, k, U, LevelOf(U), f) /\ Calm(s, s.x.ev, U, LevelOf(U), f)
  BY CalmNow DEF OnWith
<1>2. Laid(f, AllAt({"CLR"}, v)) = h
  BY BesideIs DEF Beside
<1> HIDE DEF f, h
<1>3. Calm(r, k, U, LevelOf(U), h) /\ Calm(r, s.x.ev, U, LevelOf(U), h)
  BY <1>1, <1>2, PulseCalm
<1> HIDE DEF r
<1>4. Longer(s.x.ev, r.x.ev)
  BY <1>3, LongerNow
<1>5. QED
  BY <1>3, <1>4 DEF OnWith, r, h

(* What is known besides the triggers may be forgotten.                    *)
LEMMA Forgets ==
    ASSUME NEW s, NEW k, NEW U, NEW g, OnWith(s, k, U, g)
    PROVE  OnAre(s, k, U)
<1> DEFINE f == BitsOf(Has, U, Unsaid)
           h == BitsOf(Has, U, g)
<1>1. \A p \in DOMAIN f : p \in DOMAIN h /\ h[p] = f[p]
  BY NoneIs DEF BitsOf
<1>2. Calm(s, k, U, LevelOf(U), h)
  BY DEF OnWith
<1> HIDE DEF f, h
<1>3. DataAre(s.x, f)
  BY <1>1, <1>2 DEF Calm, Steady, DataAre
<1>4. QED
  BY <1>2, <1>3 DEF OnAre, OnWith, Calm, Steady, f

LEMMA FilledIs ==
    ASSUME NEW T, NEW U, NEW V, NEW g, NEW t \in T, NEW v,
           \A u : u # t => (u \in U <=> u \in V), v = IF t \in V THEN 1 ELSE 0
    PROVE  Filled(BitsOf(T, U, g), t, v) = BitsOf(T, V, g)
<1> DEFINE f == BitsOf(T, U, g)
           h == BitsOf(T, V, g)
           D == Known(T) \cup DOMAIN g
           a == AllAt(KeysOf(t), v)
           l == Laid(f, a)
<1>1. DOMAIN f = D /\ DOMAIN h = D /\ h = [p \in D |-> h[p]] /\ f = [p \in D |-> f[p]]
  BY DEF BitsOf
<1>2. \A p \in D : p \notin Known(T) \/ TrigOf(p) # t => h[p] = f[p]
  BY DEF BitsOf
<1>3. \A p \in KeysOf(t) : p \in D /\ h[p] = v
  <2>1. \A p \in KeysOf(t) : TrigOf(p) = t /\ p \in Known(T)
    BY DEF KeysOf, Known
  <2>2. QED
    BY <2>1 DEF BitsOf
<1>4. DOMAIN a = KeysOf(t) /\ \A p \in KeysOf(t) : a[p] = v
  BY DEF AllAt
<1>5. \A p \in D : p \notin KeysOf(t) => h[p] = f[p]
  BY <1>2 DEF KeysOf, Known
<1> HIDE DEF f, h, D, a
<1>6. l = h
  <2>1. DOMAIN l = D /\ l = [p \in D |-> l[p]]
    BY <1>1, <1>3, <1>4 DEF Laid
  <2>2. \A p \in D : l[p] = h[p]
    BY <1>1, <1>3, <1>4, <1>5, <2>1 DEF Laid
  <2> HIDE DEF l
  <2>3. QED
    BY <1>1, <2>1, <2>2
<1>7. t = "C" => f = h
  <2>1. t = "C" => KeysOf(t) = {}
    BY DEF KeysOf, TrigOf, Keys, Ports, DataPorts, AsyncPorts
  <2>2. QED
    BY <1>1, <1>5, <2>1
<1>8. QED
  BY <1>6, <1>7 DEF Filled, f, h, a, l

LEMMA UpIs ==
    ASSUME NEW U, NEW g, NEW t \in Has, t \notin U
    PROVE  /\ Drivable(U, LevelOf(U), t, 1) /\ Driven(U, t, 1) = U \cup {t}
           /\ Levelled(LevelOf(U), t, 1) = LevelOf(U \cup {t})
           /\ Filled(BitsOf(Has, U, g), t, 1) = BitsOf(Has, U \cup {t}, g)
<1> DEFINE V == U \cup {t}
<1>1. (\A u : u # t => (u \in U <=> u \in V)) /\ 1 = IF t \in V THEN 1 ELSE 0
  OBVIOUS
<1>2. Drivable(U, LevelOf(U), t, 1) /\ Driven(U, t, 1) = V /\ Levelled(LevelOf(U), t, 1) = LevelOf(V)
  BY DEF Drivable, Driven, Levelled, LevelOf
<1> HIDE DEF V
<1>3. Filled(BitsOf(Has, U, g), t, 1) = BitsOf(Has, V, g)
  BY <1>1, FilledIs
<1>4. QED
  BY <1>2, <1>3 DEF V

LEMMA DownIs ==
    ASSUME NEW U, NEW g, NEW t \in Has, t \in U
    PROVE  /\ Drivable(U, LevelOf(U), t, 0) /\ Driven(U, t, 0) = U \ {t}
           /\ Levelled(LevelOf(U), t, 0) = LevelOf(U \ {t})
           /\ Filled(BitsOf(Has, U, g), t, 0) = BitsOf(Has, U \ {t}, g)
<1> DEFINE V == U \ {t}
<1>1. (\A u : u # t => (u \in U <=> u \in V)) /\ 0 = IF t \in V THEN 1 ELSE 0
  OBVIOUS
<1>2. Drivable(U, LevelOf(U), t, 0) /\ Driven(U, t, 0) = V /\ Levelled(LevelOf(U), t, 0) = LevelOf(V)
  BY DEF Drivable, Driven, Levelled, LevelOf
<1> HIDE DEF V
<1>3. Filled(BitsOf(Has, U, g), t, 0) = BitsOf(Has, V, g)
  BY <1>1, FilledIs
<1>4. QED
  BY <1>2, <1>3 DEF V

LEMMA UpOn ==
    ASSUME NEW s, NEW k, NEW U, NEW g, OnWith(s, k, U, g), NEW t \in Has, t \notin U
    PROVE  LET r == Do(s, Up(t)) IN OnWith(r, k, U \cup {t}, g) /\ Longer(s.x.ev, r.x.ev)
<1> DEFINE r == Do(s, Up(t))
           f == BitsOf(Has, U, g)
<1>1. Calm(s, k, U, LevelOf(U), f) /\ Calm(s, s.x.ev, U, LevelOf(U), f)
  BY CalmNow DEF OnWith
<1>2. t \in TriggerNames /\ Drivable(U, LevelOf(U), t, 1)
  BY UpIs DEF Has
<1> HIDE DEF f
<1>3. /\ Calm(r, k, Driven(U, t, 1), Levelled(LevelOf(U), t, 1), Filled(f, t, 1))
      /\ Calm(r, s.x.ev, Driven(U, t, 1), Levelled(LevelOf(U), t, 1), Filled(f, t, 1))
  BY <1>1, <1>2, DriveCalm DEF Up
<1> HIDE DEF r
<1>4. Longer(s.x.ev, r.x.ev)
  BY <1>3, LongerNow
<1>5. OnWith(r, k, U \cup {t}, g)
  <2>1. /\ Driven(U, t, 1) = U \cup {t} /\ Levelled(LevelOf(U), t, 1) = LevelOf(U \cup {t})
        /\ Filled(f, t, 1) = BitsOf(Has, U \cup {t}, g)
    BY UpIs DEF f
  <2>2. QED
    BY <1>3, <2>1 DEF OnWith
<1>6. QED
  BY <1>4, <1>5 DEF r

LEMMA DownOn ==
    ASSUME NEW s, NEW k, NEW U, NEW g, OnWith(s, k, U, g), NEW t \in Has, t \in U
    PROVE  LET r == Do(s, Down(t)) IN OnWith(r, k, U \ {t}, g) /\ Longer(s.x.ev, r.x.ev)
<1> DEFINE r == Do(s, Down(t))
           f == BitsOf(Has, U, g)
<1>1. Calm(s, k, U, LevelOf(U), f) /\ Calm(s, s.x.ev, U, LevelOf(U), f)
  BY CalmNow DEF OnWith
<1>2. t \in TriggerNames /\ Drivable(U, LevelOf(U), t, 0)
  BY DownIs DEF Has
<1> HIDE DEF f
<1>3. /\ Calm(r, k, Driven(U, t, 0), Levelled(LevelOf(U), t, 0), Filled(f, t, 0))
      /\ Calm(r, s.x.ev, Driven(U, t, 0), Levelled(LevelOf(U), t, 0), Filled(f, t, 0))
  BY <1>1, <1>2, DriveCalm DEF Down
<1> HIDE DEF r
<1>4. Longer(s.x.ev, r.x.ev)
  BY <1>3, LongerNow
<1>5. OnWith(r, k, U \ {t}, g)
  <2>1. /\ Driven(U, t, 0) = U \ {t} /\ Levelled(LevelOf(U), t, 0) = LevelOf(U \ {t})
        /\ Filled(f, t, 0) = BitsOf(Has, U \ {t}, g)
    BY DownIs DEF f
  <2>2. QED
    BY <1>3, <2>1 DEF OnWith
<1>6. QED
  BY <1>4, <1>5 DEF r

(* In a block, two triggers are driven, or one with an edge of the clock.  *)
LEMMA UpInner ==
    ASSUME NEW s, NEW k, NEW U, NEW l, NEW P, NEW n \in Nat, Inner(s, k, U, l, BitsOf(Has, U, Unsaid), P, n),
           NEW t \in Has, t \notin U, P \cap UsesOf(t) = {}, t = "C" => l = LevelOf(U)
    PROVE  LET r == Do(s, Up(t)) IN
           /\ Inner(r, k, U \cup {t}, Levelled(l, t, 1), BitsOf(Has, U \cup {t}, Unsaid), P \cup UsesOf(t), n + 1)
           /\ Extends(s.x.ev, r.x.ev)
<1> DEFINE f == BitsOf(Has, U, Unsaid)
<1>1. Drivable(U, l, t, 1) /\ t \in TriggerNames /\ 1 \in {0, 1}
  BY UpIs DEF Drivable, Has
<1>2. t = "D" => \A p \in DataPorts : p \in DOMAIN f /\ f[p] = 1 - 1
  <2>1. SUFFICES ASSUME t = "D", NEW p \in DataPorts PROVE p \in DOMAIN f /\ f[p] = 1 - 1
    OBVIOUS
  <2>2. p \in Known(Has) /\ TrigOf(p) = t /\ 1 - 1 = 0
    BY <2>1, KeysAre, KnownIs DEF TrigOf
  <2>3. QED
    BY <2>2 DEF BitsOf
<1> HIDE DEF f
<1> DEFINE r == Do(s, Up(t))
<1>3. /\ Inner(r, k, Driven(U, t, 1), Levelled(l, t, 1), Filled(f, t, 1), P \cup UsesOf(t), n + 1)
      /\ Extends(s.x.ev, r.x.ev)
  BY <1>1, <1>2, DriveInner DEF Up, f
<1> HIDE DEF r
<1>4. Driven(U, t, 1) = U \cup {t} /\ Filled(f, t, 1) = BitsOf(Has, U \cup {t}, Unsaid)
  BY UpIs DEF f
<1>5. QED
  BY <1>3, <1>4 DEF r

LEMMA DownInner ==
    ASSUME NEW s, NEW k, NEW U, NEW l, NEW P, NEW n \in Nat, Inner(s, k, U, l, BitsOf(Has, U, Unsaid), P, n),
           NEW t \in Has, t \in U, P \cap UsesOf(t) = {}, t = "C" => l = LevelOf(U)
    PROVE  LET r == Do(s, Down(t)) IN
           /\ Inner(r, k, U \ {t}, Levelled(l, t, 0), BitsOf(Has, U \ {t}, Unsaid), P \cup UsesOf(t), n + 1)
           /\ Extends(s.x.ev, r.x.ev)
<1> DEFINE f == BitsOf(Has, U, Unsaid)
<1>1. Drivable(U, l, t, 0) /\ t \in TriggerNames /\ 0 \in {0, 1}
  BY DownIs DEF Drivable, Has
<1>2. t = "D" => \A p \in DataPorts : p \in DOMAIN f /\ f[p] = 1 - 0
  <2>1. SUFFICES ASSUME t = "D", NEW p \in DataPorts PROVE p \in DOMAIN f /\ f[p] = 1 - 0
    OBVIOUS
  <2>2. p \in Known(Has) /\ TrigOf(p) = t /\ 1 - 0 = 1
    BY <2>1, KeysAre, KnownIs DEF TrigOf
  <2>3. QED
    BY <2>2 DEF BitsOf
<1> HIDE DEF f
<1> DEFINE r == Do(s, Down(t))
<1>3. /\ Inner(r, k, Driven(U, t, 0), Levelled(l, t, 0), Filled(f, t, 0), P \cup UsesOf(t), n + 1)
      /\ Extends(s.x.ev, r.x.ev)
  BY <1>1, <1>2, DriveInner DEF Down, f
<1> HIDE DEF r
<1>4. Driven(U, t, 0) = U \ {t} /\ Filled(f, t, 0) = BitsOf(Has, U \ {t}, Unsaid)
  BY DownIs DEF f
<1>5. QED
  BY <1>3, <1>4 DEF r

LEMMA RunTogether ==
    ASSUME NEW s, NEW c \in Commands, NEW d \in Commands
    PROVE  /\ Together(<<c, d>>) \in Seq(Commands)
           /\ Run(s, Together(<<c, d>>)) =
                 Do(Do(Do(Do(s, Cmd("open", "", 0)), c), d), Cmd("close", "", 0))
<1> DEFINE o == Cmd("open", "", 0)
           e == Cmd("close", "", 0)
           cmds == <<c, d>>
           mid == <<o>> \o cmds
<1>1. o \in Commands /\ e \in Commands
  BY CommandsAre
<1>2. cmds \in Seq(Commands) /\ Len(cmds) = 2 /\ cmds[1] = c /\ cmds[2] = d
  OBVIOUS
<1>3. Together(cmds) = mid \o <<e>>
  BY DEF Together
<1> HIDE DEF o, e, cmds
<1>4. ASSUME NEW r PROVE Run(r, cmds) = Do(Do(r, c), d)
  <2>1. PICK at : Course(r, cmds, at) /\ Run(r, cmds) = at[2]
    BY <1>2, RunSteps
  <2>2. 1 \in 1 .. 2 /\ 2 \in 1 .. 2 /\ 1 - 1 = 0 /\ 2 - 1 = 1
    OBVIOUS
  <2>3. at[0] = r /\ at[1] = Do(at[0], c) /\ at[2] = Do(at[1], d)
    BY <1>2, <2>1, <2>2 DEF Course
  <2>4. QED
    BY <2>1, <2>3
<1>5. <<o>> \in Seq(Commands) /\ Run(s, <<o>>) = Do(s, o)
  BY <1>1, RunOne
<1>6. mid \in Seq(Commands) /\ Run(s, mid) = Do(Do(Do(s, o), c), d)
  <2>1. mid \in Seq(Commands) /\ Run(s, mid) = Run(Run(s, <<o>>), cmds)
    BY <1>2, <1>5, RunConcat
  <2> HIDE DEF mid
  <2>2. Run(Do(s, o), cmds) = Do(Do(Do(s, o), c), d)
    BY <1>4
  <2>3. QED
    BY <1>5, <2>1, <2>2
<1> HIDE DEF mid
<1>7. \A r : <<e>> \in Seq(Commands) /\ Run(r, <<e>>) = Do(r, e)
  BY <1>1, RunOne
<1>8. mid \o <<e>> \in Seq(Commands) /\ Run(s, mid \o <<e>>) = Run(Run(s, mid), <<e>>)
  <2>1. <<e>> \in Seq(Commands) /\ mid \in Seq(Commands)
    BY <1>6, <1>7
  <2> DEFINE end == <<e>>
  <2>2. end \in Seq(Commands)
    BY <2>1
  <2> HIDE DEF end
  <2>3. mid \o end \in Seq(Commands) /\ Run(s, mid \o end) = Run(Run(s, mid), end)
    BY <2>1, <2>2, RunConcat
  <2>4. QED
    BY <2>3 DEF end
<1>9. Run(s, mid \o <<e>>) = Do(Do(Do(Do(s, o), c), d), e)
  BY <1>6, <1>7, <1>8
<1>10. QED
  BY <1>3, <1>8, <1>9 DEF cmds, o, e

LEMMA Triggers ==
    ASSUME subject \in Subjects
    PROVE  /\ Trigs \in Seq(TriggerNames)
           /\ \A i \in 1 .. Len(Trigs) : Trigs[i] \in TriggerNames /\ IsTrig(Trigs[i])
           /\ \A i, j \in 1 .. Len(Trigs) : Trigs[i] = Trigs[j] => i = j
<1>1. Trigs \in Seq(TriggerNames) /\ \A i, j \in DOMAIN Trigs : Trigs[i] = Trigs[j] => i = j
  BY EquivStimulusAssumption DEF Trigs
<1>2. DOMAIN Trigs = 1 .. Len(Trigs) /\ \A i \in 1 .. Len(Trigs) : Trigs[i] \in TriggerNames
  BY <1>1
<1>3. QED
  BY <1>1, <1>2 DEF IsTrig

-----------------------------------------------------------------------------
(* The blocks of the phases: whatever they start from, they end with       *)
(* nothing driven.                                                         *)

LEMMA RunTwo ==
    ASSUME NEW s, NEW a \in Commands, NEW b \in Commands
    PROVE  <<a, b>> \in Seq(Commands) /\ Run(s, <<a, b>>) = Do(Do(s, a), b)
<1> DEFINE cmds == <<a, b>>
<1>1. cmds \in Seq(Commands) /\ Len(cmds) = 2 /\ cmds[1] = a /\ cmds[2] = b
  OBVIOUS
<1> HIDE DEF cmds
<1>2. PICK at : Course(s, cmds, at) /\ Run(s, cmds) = at[2]
  BY <1>1, RunSteps
<1>3. 1 \in 1 .. 2 /\ 2 \in 1 .. 2 /\ 1 - 1 = 0 /\ 2 - 1 = 1
  OBVIOUS
<1>4. at[0] = s /\ at[1] = Do(at[0], a) /\ at[2] = Do(at[1], b)
  BY <1>1, <1>2, <1>3 DEF Course
<1>5. QED
  BY <1>1, <1>2, <1>4 DEF cmds

LEMMA RunThree ==
    ASSUME NEW s, NEW a \in Commands, NEW b \in Commands, NEW c \in Commands
    PROVE  <<a, b, c>> \in Seq(Commands) /\ Run(s, <<a, b, c>>) = Do(Do(Do(s, a), b), c)
<1> DEFINE cmds == <<a, b, c>>
<1>1. cmds \in Seq(Commands) /\ Len(cmds) = 3 /\ cmds[1] = a /\ cmds[2] = b /\ cmds[3] = c
  OBVIOUS
<1> HIDE DEF cmds
<1>2. PICK at : Course(s, cmds, at) /\ Run(s, cmds) = at[3]
  BY <1>1, RunSteps
<1>3. 1 \in 1 .. 3 /\ 2 \in 1 .. 3 /\ 3 \in 1 .. 3 /\ 1 - 1 = 0 /\ 2 - 1 = 1 /\ 3 - 1 = 2
  OBVIOUS
<1>4. at[0] = s /\ at[1] = Do(at[0], a) /\ at[2] = Do(at[1], b) /\ at[3] = Do(at[2], c)
  BY <1>1, <1>2, <1>3 DEF Course
<1>5. QED
  BY <1>1, <1>2, <1>4 DEF cmds

LEMMA SafeAll ==
    ASSUME NEW n \in Nat, NEW seqs, seqs = [i \in 1 .. n |-> seqs[i]],
           \A i \in 1 .. n : Safe(seqs[i])
    PROVE  /\ Safe(FlattenSeq(seqs))
           /\ \A S : \A i \in 1 .. n : Lasting(S) /\ Reveals(seqs[i], S) => Reveals(FlattenSeq(seqs), S)
<1>1. \A i \in 1 .. n : seqs[i] \in Seq(Commands)
  BY DEF Safe
<1>2. seqs \in Seq(Seq(Commands)) /\ Len(seqs) = n
  BY <1>1
<1>3. QED
  BY <1>2, SafeFlat

(* The commands, when nothing else is known.                               *)
View(U, g) == Sights(LevelOf(U), BitsOf(Has, U, g))

LEMMA LookNow ==
    ASSUME NEW s, NEW k, NEW U, OnAre(s, k, U)
    PROVE  LET r == Do(s, Look) IN
           OnAre(r, k, U) /\ Longer(s.x.ev, r.x.ev) /\ r.x.ev \in View(U, Unsaid)
BY LookOn DEF OnAre, View

LEMMA ActNow ==
    ASSUME NEW s, NEW k, NEW U, OnAre(s, k, U)
    PROVE  LET r == Do(s, Act) IN
           OnAre(r, k, U) /\ Longer(s.x.ev, r.x.ev) /\ r.x.ev \in Lookings
BY ActOn, NoneIs DEF OnAre

LEMMA UpNow ==
    ASSUME NEW s, NEW k, NEW U, OnAre(s, k, U), NEW t \in Has, t \notin U, NEW V, V = U \cup {t}
    PROVE  OnAre(Do(s, Up(t)), k, V) /\ Longer(s.x.ev, Do(s, Up(t)).x.ev)
BY UpOn DEF OnAre

LEMMA DownNow ==
    ASSUME NEW s, NEW k, NEW U, OnAre(s, k, U), NEW t \in Has, t \in U, NEW V, V = U \ {t}
    PROVE  OnAre(Do(s, Down(t)), k, V) /\ Longer(s.x.ev, Do(s, Down(t)).x.ev)
BY DownOn DEF OnAre

LEMMA ViewLasts == \A U, g : Lasting(View(U, g))
BY SightsLast DEF View

(* _independent: a trigger alone, off and on.                              *)
LEMMA PulseSafe ==
    ASSUME NEW t \in Has
    PROVE  LET cmds == <<Act, Act, Up(t), Look, Act, Act, Down(t), Look, Act>> IN
           Safe(cmds) /\ Reveals(cmds, View({}, Unsaid)) /\ Reveals(cmds, View({t}, Unsaid))
<1> DEFINE cmds == <<Act, Act, Up(t), Look, Act, Act, Down(t), Look, Act>>
           U == {t}
<1>1. Act \in Commands /\ Look \in Commands /\ Up(t) \in Commands /\ Down(t) \in Commands
  BY CommandsAre DEF Has
<1>2. /\ cmds \in Seq(Commands) /\ Len(cmds) = 9
      /\ cmds[1] = Act /\ cmds[2] = Act /\ cmds[3] = Up(t) /\ cmds[4] = Look /\ cmds[5] = Act
      /\ cmds[6] = Act /\ cmds[7] = Down(t) /\ cmds[8] = Look /\ cmds[9] = Act
  BY <1>1
<1> HIDE DEF cmds
<1>3. t \notin {} /\ U = {} \cup {t} /\ t \in U /\ {} = U \ {t}
  OBVIOUS
<1> HIDE DEF U
<1>4. ASSUME NEW s, NEW k, OnAre(s, k, {})
      PROVE  OnAre(Run(s, cmds), k, {}) /\ Run(s, cmds).x.ev \in View({}, Unsaid)
             /\ Run(s, cmds).x.ev \in View(U, Unsaid)
  <2>1. PICK at : Course(s, cmds, at) /\ Run(s, cmds) = at[9]
    BY <1>2, RunSteps
  <2>2. /\ 1 - 1 = 0 /\ 2 - 1 = 1 /\ 3 - 1 = 2 /\ 4 - 1 = 3 /\ 5 - 1 = 4
        /\ 6 - 1 = 5 /\ 7 - 1 = 6 /\ 8 - 1 = 7 /\ 9 - 1 = 8
        /\ {1, 2, 3, 4, 5, 6, 7, 8, 9} \subseteq 1 .. 9
    OBVIOUS
  <2>3. /\ at[0] = s /\ at[1] = Do(at[0], Act) /\ at[2] = Do(at[1], Act)
        /\ at[3] = Do(at[2], Up(t)) /\ at[4] = Do(at[3], Look) /\ at[5] = Do(at[4], Act)
        /\ at[6] = Do(at[5], Act) /\ at[7] = Do(at[6], Down(t)) /\ at[8] = Do(at[7], Look)
        /\ at[9] = Do(at[8], Act)
    BY <1>2, <2>1, <2>2 DEF Course
  <2>4. OnAre(at[1], k, {}) /\ Longer(at[0].x.ev, at[1].x.ev)
    BY <1>4, <2>3, ActNow
  <2>5. OnAre(at[2], k, {}) /\ Longer(at[1].x.ev, at[2].x.ev)
    BY <2>3, <2>4, ActNow
  <2>6. OnAre(at[3], k, U) /\ Longer(at[2].x.ev, at[3].x.ev)
    BY <1>3, <2>3, <2>5, UpNow
  <2>7. OnAre(at[4], k, U) /\ Longer(at[3].x.ev, at[4].x.ev) /\ at[4].x.ev \in View(U, Unsaid)
    BY <2>3, <2>6, LookNow
  <2>8. OnAre(at[5], k, U) /\ Longer(at[4].x.ev, at[5].x.ev)
    BY <2>3, <2>7, ActNow
  <2>9. OnAre(at[6], k, U) /\ Longer(at[5].x.ev, at[6].x.ev)
    BY <2>3, <2>8, ActNow
  <2>10. OnAre(at[7], k, {}) /\ Longer(at[6].x.ev, at[7].x.ev)
    BY <1>3, <2>3, <2>9, DownNow
  <2>11. OnAre(at[8], k, {}) /\ Longer(at[7].x.ev, at[8].x.ev) /\ at[8].x.ev \in View({}, Unsaid)
    BY <2>3, <2>10, LookNow
  <2>12. OnAre(at[9], k, {}) /\ Longer(at[8].x.ev, at[9].x.ev)
    BY <2>3, <2>11, ActNow
  <2>13. \A i \in 1 .. 9 : Longer(at[i - 1].x.ev, at[i].x.ev)
    <3>1. \A i \in 1 .. 9 : i \in {1, 2, 3, 4, 5, 6, 7, 8, 9}
      OBVIOUS
    <3>2. QED
      BY <2>2, <2>4, <2>5, <2>6, <2>7, <2>8, <2>9, <2>10, <2>11, <2>12, <3>1
  <2>14. at[9].x.ev \in View({}, Unsaid) /\ at[9].x.ev \in View(U, Unsaid)
    <3>1. 9 \in Nat /\ 4 \in 0 .. 9 /\ 8 \in 0 .. 9
      OBVIOUS
    <3>2. QED
      BY <2>7, <2>11, <2>13, <3>1, ViewLasts, Lasts
  <2>15. QED
    BY <2>1, <2>12, <2>14
<1>5. Safe(cmds) /\ Reveals(cmds, View({}, Unsaid)) /\ Reveals(cmds, View(U, Unsaid))
  BY <1>2, <1>4 DEF Safe, Reveals
<1>6. QED
  BY <1>5 DEF cmds, U

(* _with_async: beside the asynchronous input, in each combination.        *)
LEMMA BesideSafe ==
    ASSUME NEW t \in Has, ~ IsTrig("CLR")
    PROVE  LET cmds == <<Cmd("pulse", "CLR", 1), Look, Up(t), Look,
                         Cmd("pulse", "CLR", 0), Look, Down(t), Look, Act>>
           IN /\ Safe(cmds)
              /\ \A w \in {0, 1} : Reveals(cmds, View({}, Beside(w))) /\ Reveals(cmds, View({t}, Beside(w)))
<1> DEFINE a == Cmd("pulse", "CLR", 1)
           b == Cmd("pulse", "CLR", 0)
           cmds == <<a, Look, Up(t), Look, b, Look, Down(t), Look, Act>>
           U == {t}
           A == Beside(1)
           B == Beside(0)
<1>1. /\ Act \in Commands /\ Look \in Commands /\ Up(t) \in Commands /\ Down(t) \in Commands
      /\ a \in Commands /\ b \in Commands
  BY CommandsAre DEF Has
<1>2. \A s, k, W, g : (g = Unsaid \/ \E w : g = Beside(w)) /\ OnWith(s, k, W, g)
          => /\ OnWith(Do(s, a), k, W, A) /\ Longer(s.x.ev, Do(s, a).x.ev)
             /\ OnWith(Do(s, b), k, W, B) /\ Longer(s.x.ev, Do(s, b).x.ev)
  BY PulseOn
<1>3. (\E w : A = Beside(w)) /\ DOMAIN B \cap DataPorts = {}
  BY BesideIs
<1>4. t \notin {} /\ U = {} \cup {t} /\ t \in U /\ {} = U \ {t}
  OBVIOUS
<1> HIDE DEF a, b, U, A, B
<1>5. /\ cmds \in Seq(Commands) /\ Len(cmds) = 9
      /\ cmds[1] = a /\ cmds[2] = Look /\ cmds[3] = Up(t) /\ cmds[4] = Look /\ cmds[5] = b
      /\ cmds[6] = Look /\ cmds[7] = Down(t) /\ cmds[8] = Look /\ cmds[9] = Act
  BY <1>1
<1> HIDE DEF cmds
<1>6. ASSUME NEW s, NEW k, NEW W, NEW g, OnWith(s, k, W, g)
      PROVE  /\ OnWith(Do(s, Look), k, W, g) /\ Longer(s.x.ev, Do(s, Look).x.ev)
             /\ Do(s, Look).x.ev \in View(W, g)
  BY <1>6, LookOn DEF View
<1>7. ASSUME NEW s, NEW k, OnAre(s, k, {})
      PROVE  /\ OnAre(Run(s, cmds), k, {})
             /\ Run(s, cmds).x.ev \in View({}, A) /\ Run(s, cmds).x.ev \in View(U, A)
             /\ Run(s, cmds).x.ev \in View({}, B) /\ Run(s, cmds).x.ev \in View(U, B)
  <2>1. PICK at : Course(s, cmds, at) /\ Run(s, cmds) = at[9]
    BY <1>5, RunSteps
  <2>2. /\ 1 - 1 = 0 /\ 2 - 1 = 1 /\ 3 - 1 = 2 /\ 4 - 1 = 3 /\ 5 - 1 = 4
        /\ 6 - 1 = 5 /\ 7 - 1 = 6 /\ 8 - 1 = 7 /\ 9 - 1 = 8
        /\ {1, 2, 3, 4, 5, 6, 7, 8, 9} \subseteq 1 .. 9
    OBVIOUS
  <2>3. /\ at[0] = s /\ at[1] = Do(at[0], a) /\ at[2] = Do(at[1], Look)
        /\ at[3] = Do(at[2], Up(t)) /\ at[4] = Do(at[3], Look) /\ at[5] = Do(at[4], b)
        /\ at[6] = Do(at[5], Look) /\ at[7] = Do(at[6], Down(t)) /\ at[8] = Do(at[7], Look)
        /\ at[9] = Do(at[8], Act)
    BY <1>5, <2>1, <2>2 DEF Course
  <2>4. OnWith(at[1], k, {}, A) /\ Longer(at[0].x.ev, at[1].x.ev)
    BY <1>2, <1>7, <2>3 DEF OnAre
  <2>5. OnWith(at[2], k, {}, A) /\ Longer(at[1].x.ev, at[2].x.ev) /\ at[2].x.ev \in View({}, A)
    BY <1>6, <2>3, <2>4
  <2>6. OnWith(at[3], k, U, A) /\ Longer(at[2].x.ev, at[3].x.ev)
    BY <1>4, <2>3, <2>5, UpOn
  <2>7. OnWith(at[4], k, U, A) /\ Longer(at[3].x.ev, at[4].x.ev) /\ at[4].x.ev \in View(U, A)
    BY <1>6, <2>3, <2>6
  <2>8. OnWith(at[5], k, U, B) /\ Longer(at[4].x.ev, at[5].x.ev)
    BY <1>2, <1>3, <2>3, <2>7
  <2>9. OnWith(at[6], k, U, B) /\ Longer(at[5].x.ev, at[6].x.ev) /\ at[6].x.ev \in View(U, B)
    BY <1>6, <2>3, <2>8
  <2>10. OnWith(at[7], k, {}, B) /\ Longer(at[6].x.ev, at[7].x.ev)
    BY <1>4, <2>3, <2>9, DownOn
  <2>11. OnWith(at[8], k, {}, B) /\ Longer(at[7].x.ev, at[8].x.ev) /\ at[8].x.ev \in View({}, B)
    BY <1>6, <2>3, <2>10
  <2>12. OnWith(at[9], k, {}, B) /\ Longer(at[8].x.ev, at[9].x.ev)
    BY <1>3, <2>3, <2>11, ActOn
  <2>13. \A i \in 1 .. 9 : Longer(at[i - 1].x.ev, at[i].x.ev)
    <3>1. \A i \in 1 .. 9 : i \in {1, 2, 3, 4, 5, 6, 7, 8, 9}
      OBVIOUS
    <3>2. QED
      BY <2>2, <2>4, <2>5, <2>6, <2>7, <2>8, <2>9, <2>10, <2>11, <2>12, <3>1
  <2>14. /\ at[9].x.ev \in View({}, A) /\ at[9].x.ev \in View(U, A)
         /\ at[9].x.ev \in View({}, B) /\ at[9].x.ev \in View(U, B)
    <3>1. 9 \in Nat /\ 2 \in 0 .. 9 /\ 4 \in 0 .. 9 /\ 6 \in 0 .. 9 /\ 8 \in 0 .. 9
      OBVIOUS
    <3>2. \A S : \A j \in 0 .. 9 : Lasting(S) /\ at[j].x.ev \in S => at[9].x.ev \in S
      BY <2>13, <3>1, Lasts
    <3>3. QED
      BY <2>5, <2>7, <2>9, <2>11, <3>1, <3>2, ViewLasts
  <2>15. QED
    BY <2>1, <2>12, <2>14, Forgets
<1>8. Safe(cmds)
  BY <1>5, <1>7 DEF Safe
<1>9. Reveals(cmds, View({}, A)) /\ Reveals(cmds, View(U, A)) /\ Reveals(cmds, View({}, B)) /\ Reveals(cmds, View(U, B))
  BY <1>7 DEF Reveals
<1>10. QED
  BY <1>8, <1>9 DEF cmds, a, b, U, A, B

(* _walk: a value of the data trigger, and zero again.                     *)
LEMMA QuietIs ==
    ASSUME IsTrig("D"), NEW f \in [DataPorts -> {0, 1}]
    PROVE  LET q == BitsOf(Has, {}, Unsaid)
               w == Laid(q, f)
           IN Laid(w, AllAt(DataPorts, 0)) = q /\ (\A p \in DataPorts : p \in DOMAIN w /\ w[p] = f[p])
              /\ DOMAIN w \cap data = {} /\ DOMAIN q \cap data = {}
<1> DEFINE q == BitsOf(Has, {}, Unsaid)
           w == Laid(q, f)
           z == AllAt(DataPorts, 0)
           l == Laid(w, z)
           K == Known(Has)
<1>1. DataPorts \subseteq K /\ data = {}
  <2>1. "D" \in Has
    BY DEF Has, TriggerNames
  <2>2. QED
    BY <2>1, KnownIs, KeysAre DEF data
<1>2. DOMAIN q = K /\ q = [p \in K |-> 0]
  BY NoneIs DEF BitsOf
<1>3. DOMAIN z = DataPorts /\ \A p \in DataPorts : z[p] = 0
  BY DEF AllAt
<1> HIDE DEF q, z, K
<1>4. /\ DOMAIN w = K /\ \A p \in DataPorts : p \in DOMAIN w /\ w[p] = f[p]
      /\ \A p \in K : p \notin DataPorts => w[p] = 0
  BY <1>1, <1>2 DEF Laid
<1> HIDE DEF w
<1>5. DOMAIN l = K /\ l = [p \in K |-> l[p]] /\ \A p \in K : l[p] = 0
  BY <1>1, <1>3, <1>4 DEF Laid
<1> HIDE DEF l
<1>6. l = q
  BY <1>2, <1>5
<1>7. QED
  BY <1>1, <1>4, <1>6 DEF l, w, q, z

LEMMA ShowSafe ==
    ASSUME IsTrig("D"), NEW f \in [DataPorts -> {0, 1}]
    PROVE  LET cmds == <<Cmd("set", "D", f), Look, Act, Cmd("set", "D", [p \in DataPorts |-> 0]), Look, Act>>
           IN Safe(cmds) /\ Reveals(cmds, Sights(0, f))
<1> DEFINE z == [p \in DataPorts |-> 0]
           a == Cmd("set", "D", f)
           b == Cmd("set", "D", z)
           cmds == <<a, Look, Act, b, Look, Act>>
           q == BitsOf(Has, {}, Unsaid)
           w == Laid(q, f)
<1>1. z \in [DataPorts -> {0, 1}] /\ z = AllAt(DataPorts, 0)
  BY DEF AllAt
<1> HIDE DEF z
<1>2. Act \in Commands /\ Look \in Commands /\ a \in Commands /\ b \in Commands
  BY <1>1, CommandsAre
<1>3. /\ Laid(w, z) = q /\ DOMAIN f = DataPorts /\ (\A p \in DataPorts : p \in DOMAIN w /\ w[p] = f[p])
      /\ DOMAIN w \cap data = {} /\ DOMAIN q \cap data = {}
  BY <1>1, QuietIs
<1>4. \A s, k : OnAre(s, k, {}) <=> Calm(s, k, {}, 0, q)
  BY DEF OnAre, OnWith, LevelOf
<1>5. \A s, k : Calm(s, k, {}, 0, q) => Calm(Do(s, a), k, {}, 0, w)
  BY ShowCalm
<1>6. \A s, k : Calm(s, k, {}, 0, w) => Calm(Do(s, b), k, {}, 0, q)
  <2>1. \A s, k : Calm(s, k, {}, 0, w) => Calm(Do(s, b), k, {}, 0, Laid(w, z))
    BY <1>1, ShowCalm
  <2>2. QED
    BY <1>3, <2>1
<1> HIDE DEF a, b, q, w
<1>7. /\ cmds \in Seq(Commands) /\ Len(cmds) = 6
      /\ cmds[1] = a /\ cmds[2] = Look /\ cmds[3] = Act /\ cmds[4] = b /\ cmds[5] = Look /\ cmds[6] = Act
  BY <1>2
<1> HIDE DEF cmds
<1>8. ASSUME NEW s, NEW k, OnAre(s, k, {})
      PROVE  OnAre(Run(s, cmds), k, {}) /\ Run(s, cmds).x.ev \in Sights(0, f)
  <2>1. PICK at : Course(s, cmds, at) /\ Run(s, cmds) = at[6]
    BY <1>7, RunSteps
  <2>2. /\ 1 - 1 = 0 /\ 2 - 1 = 1 /\ 3 - 1 = 2 /\ 4 - 1 = 3 /\ 5 - 1 = 4 /\ 6 - 1 = 5
        /\ {1, 2, 3, 4, 5, 6} \subseteq 1 .. 6
    OBVIOUS
  <2>3. /\ at[0] = s /\ at[1] = Do(at[0], a) /\ at[2] = Do(at[1], Look) /\ at[3] = Do(at[2], Act)
        /\ at[4] = Do(at[3], b) /\ at[5] = Do(at[4], Look) /\ at[6] = Do(at[5], Act)
    BY <1>7, <2>1, <2>2 DEF Course
  <2>4. ASSUME NEW h, NEW r, Calm(r, h, {}, 0, w)
        PROVE  Calm(Do(Do(Do(Do(r, Act), b), Look), Act), h, {}, 0, q)
    <3>1. Calm(Do(r, Act), h, {}, 0, w)
      BY <1>3, <2>4, ActCalm
    <3>2. Calm(Do(Do(r, Act), b), h, {}, 0, q)
      BY <1>6, <3>1
    <3>3. Calm(Do(Do(Do(r, Act), b), Look), h, {}, 0, q)
      BY <3>2, LookCalm
    <3>4. QED
      BY <1>3, <3>3, ActCalm
  <2>5. Calm(at[1], k, {}, 0, w)
    BY <1>4, <1>5, <1>8, <2>3
  <2>6. Calm(at[2], k, {}, 0, w) /\ JustSampled(at[2].x)
    BY <2>3, <2>5, LookCalm
  <2>7. Calm(at[2], at[2].x.ev, {}, 0, w) /\ at[2].x.ev \in Sights(0, w)
    BY <2>6, CalmNow, FreshSight
  <2>8. Calm(at[6], k, {}, 0, q) /\ Calm(at[6], at[2].x.ev, {}, 0, q)
    BY <2>3, <2>4, <2>6, <2>7
  <2>9. at[6].x.ev \in Sights(0, w)
    <3> DEFINE e == at[2].x.ev
               g == at[6].x.ev
    <3>1. Longer(e, g) /\ e \in Sights(0, w)
      BY <2>7, <2>8, LongerNow
    <3> HIDE DEF e, g
    <3>2. g \in Sights(0, w)
      BY <3>1, SightsLast DEF Lasting
    <3>3. QED
      BY <3>2 DEF g
  <2>10. at[6].x.ev \in Sights(0, f)
    <3> DEFINE g == at[6].x.ev
    <3>1. g \in Sights(0, w)
      BY <2>9
    <3> HIDE DEF g
    <3>2. PICK i \in 1 .. Len(g) :
              g[i].op = "sample" /\ LogIs(g, i, "C", 0) /\ \A p \in DOMAIN w : LogIs(g, i, p, w[p])
      BY <3>1 DEF Sights
    <3>3. \A p \in DOMAIN f : LogIs(g, i, p, f[p])
      BY <1>3, <3>2
    <3>4. g \in Sights(0, f)
      BY <3>1, <3>2, <3>3 DEF Sights
    <3>5. QED
      BY <3>4 DEF g
  <2>11. QED
    BY <1>4, <2>1, <2>8, <2>10
<1>9. Safe(cmds) /\ Reveals(cmds, Sights(0, f))
  BY <1>7, <1>8 DEF Safe, Reveals
<1>10. QED
  BY <1>9 DEF cmds, a, b, z

(* _coincident: a trigger at the very time of a rising edge, both ways.    *)
(* What events show, they and any that go on from them: of some that share *)
(* a time, among them a rising edge, the last leave t at v, and it was not. *)
Mets(t, v) ==
    {ev \in Seq(BuilderEvents) : \E m, n \in 0 .. Len(ev) :
        /\ m < n /\ \A i \in m + 1 .. n : ev[i].t = ev[n].t
        /\ \E i \in m + 1 .. n : ev[i].op = "edge" /\ ev[i].value = 1
        /\ \A p \in KeysOf(t) : LogIs(ev, m, p, 1 - v) /\ LogIs(ev, n, p, v)}

LEMMA MetsLast == \A t, v : Lasting(Mets(t, v))
<1>1. ASSUME NEW t, NEW v, NEW a \in Mets(t, v), NEW b, Longer(a, b)
      PROVE  b \in Mets(t, v)
  <2>1. a \in Seq(BuilderEvents)
    BY <1>1 DEF Mets
  <2>2. PICK m \in 0 .. Len(a), n \in 0 .. Len(a) :
            /\ m < n /\ \A i \in m + 1 .. n : a[i].t = a[n].t
            /\ \E i \in m + 1 .. n : a[i].op = "edge" /\ a[i].value = 1
            /\ \A p \in KeysOf(t) : LogIs(a, m, p, 1 - v) /\ LogIs(a, n, p, v)
    BY <1>1 DEF Mets
  <2>3. b \in Seq(BuilderEvents) /\ Len(a) <= Len(b) /\ \A i \in 1 .. Len(a) : i \in 1 .. Len(b) /\ b[i] = a[i]
    BY <1>1, <2>1, LongerIs
  <2>4. m \in 0 .. Len(b) /\ n \in 0 .. Len(b) /\ m \in Nat /\ n \in 1 .. Len(a)
    BY <2>1, <2>2, <2>3
  <2>5. \A i \in m + 1 .. n : i \in 1 .. Len(a)
    BY <2>1, <2>4
  <2>6. \A i \in m + 1 .. n : b[i] = a[i] /\ b[n] = a[n]
    BY <2>3, <2>4, <2>5
  <2>7. \A p \in KeysOf(t) : LogIs(b, m, p, 1 - v) /\ LogIs(b, n, p, v)
    BY <1>1, <2>1, <2>2, LogOn
  <2>8. \A i \in m + 1 .. n : b[i].t = b[n].t
    BY <2>2, <2>6
  <2>9. \E i \in m + 1 .. n : b[i].op = "edge" /\ b[i].value = 1
    BY <2>2, <2>6
  <2>10. QED
    BY <2>2, <2>3, <2>4, <2>7, <2>8, <2>9 DEF Mets
<1>2. QED
  BY <1>1 DEF Lasting

LEMMA DataLog ==
    ASSUME NEW s, NEW k, NEW U, NEW l, NEW f, Steady(s, k, U, l, f), NEW p \in DOMAIN f
    PROVE  LogIs(s.x.ev, Len(s.x.ev), p, f[p])
<1>1. Tallied(s.x) /\ DataAre(s.x, f)
  BY DEF Steady
<1>2. Tally(s.x, p, f[p])
  BY <1>1 DEF Tallied, DataAre
<1>3. QED
  BY <1>2 DEF Tally

(* A block that opened after h, with an edge as its first event.           *)
LEMMA MetIs ==
    ASSUME NEW s, NEW U, OnAre(s, s.x.ev, U), NEW t \in Has, NEW v \in {0, 1}, v = IF t \in U THEN 0 ELSE 1,
           NEW c, NEW V, NEW P, Inner(c, s.x.ev, V, 1, BitsOf(Has, V, Unsaid), P, 2),
           v = IF t \in V THEN 1 ELSE 0,
           NEW b, Extends(b.ev, c.x.ev), Turned(s.x, b, 1), b.ev \in Seq(BuilderEvents)
    PROVE  c.x.ev \in Mets(t, v)
<1> DEFINE h == s.x.ev
           ev == c.x.ev
           m == Len(h)
           n == Len(ev)
           f == BitsOf(Has, U, Unsaid)
           g == BitsOf(Has, V, Unsaid)
<1>1. h \in Seq(BuilderEvents) /\ Steady(s, h, U, LevelOf(U), f)
  BY CalmNow DEF OnAre, OnWith, Calm
<1>2. /\ Steady(c, h, V, 1, g) /\ Ready(c.x) /\ InSim(c.x) /\ c.x.sim >= 2 /\ n - c.x.sim = m
      /\ Extends(h, ev) /\ Extends(b.ev, ev)
  BY DEF Inner, Steady
<1>3. ev \in Seq(BuilderEvents) /\ c.x.sim \in Int /\ Cursor(c.x)
  BY <1>2, Fields DEF Ready, BInv
<1>4. Longer(h, ev)
  BY <1>2, <1>3 DEF Longer
<1>5. m \in Nat /\ n \in Nat /\ m < n
  BY <1>1, <1>2, <1>3
<1>6. \A i \in 1 .. n : ev[i].t = c.x.t <=> i > m
  BY <1>2, <1>3 DEF Cursor
<1>7. \A p \in KeysOf(t) : p \in DOMAIN f /\ p \in DOMAIN g /\ f[p] = 1 - v /\ g[p] = v
  <2>1. SUFFICES ASSUME NEW p \in KeysOf(t)
                 PROVE  p \in DOMAIN f /\ p \in DOMAIN g /\ f[p] = 1 - v /\ g[p] = v
    OBVIOUS
  <2>2. p \in Known(Has) /\ TrigOf(p) = t
    BY KnownIs DEF KeysOf
  <2>3. 1 - 0 = 1 /\ 1 - 1 = 0
    OBVIOUS
  <2>4. QED
    BY <2>2, <2>3 DEF BitsOf
<1>8. \A p \in KeysOf(t) : LogIs(h, m, p, 1 - v) /\ LogIs(ev, n, p, v)
  <2> HIDE DEF f, g
  <2>1. SUFFICES ASSUME NEW p \in KeysOf(t) PROVE LogIs(h, m, p, 1 - v) /\ LogIs(ev, n, p, v)
    OBVIOUS
  <2>2. LogIs(h, m, p, f[p]) /\ LogIs(ev, n, p, g[p])
    BY <1>1, <1>2, <1>7, DataLog
  <2>3. QED
    BY <1>7, <2>2
<1>9. b.ev[m + 1].op = "edge" /\ b.ev[m + 1].value = 1 /\ m + 1 \in DOMAIN b.ev
  <2>1. Len(b.ev) = m + 1 /\ b.ev[Len(b.ev)].op = "edge" /\ b.ev[Len(b.ev)].value = 1
    BY DEF Turned
  <2>2. QED
    BY <1>5, <2>1
<1>10. ev[m + 1] = b.ev[m + 1]
  BY <1>2, <1>9 DEF Extends
<1> HIDE DEF h, ev, f, g
<1>11. m \in 0 .. m /\ m \in 0 .. n /\ n \in 0 .. n /\ m + 1 \in m + 1 .. n
  BY <1>5
<1>12. \A p \in KeysOf(t) : LogIs(ev, m, p, 1 - v)
  BY <1>1, <1>4, <1>8, <1>11, LogOn
<1> HIDE DEF m, n
<1>13. \A i \in m + 1 .. n : ev[i].t = c.x.t
  <2>1. \A i \in m + 1 .. n : i \in 1 .. n /\ i > m
    BY <1>5
  <2>2. QED
    BY <1>6, <2>1
<1>14. n \in m + 1 .. n
  BY <1>5
<1>15. /\ m < n /\ \A i \in m + 1 .. n : ev[i].t = ev[n].t
       /\ \E i \in m + 1 .. n : ev[i].op = "edge" /\ ev[i].value = 1
  BY <1>5, <1>9, <1>10, <1>11, <1>13, <1>14
<1>16. ev \in Mets(t, v)
  BY <1>3, <1>8, <1>11, <1>12, <1>15 DEF Mets, m, n
<1>17. QED
  BY <1>16 DEF ev

LEMMA OpenKeepsEvents ==
    ASSUME NEW s, NEW k, NEW U, NEW l, NEW f, Calm(s, k, U, l, f)
    PROVE  Do(s, Cmd("open", "", 0)).x.ev = s.x.ev
<1> DEFINE x == Opened(s.x)
<1>1. Ready(s.x) /\ Dated(s.x) /\ ~ InSim(s.x)
  BY DEF Calm, Steady
<1>2. Do(s, Cmd("open", "", 0)) = Goes(s, x)
  BY <1>1 DEF Do, Cmd, Calm, Steady
<1>3. x.ev = s.x.ev
  BY <1>1, OpenedLeaves
<1> HIDE DEF x
<1>4. Goes(s, x).x = x
  BY GoesIs
<1>5. QED
  BY <1>2, <1>3, <1>4

LEMMA PrefixCalm ==
    ASSUME NEW s, NEW h \in Seq(BuilderEvents), NEW U, NEW l, NEW f, Calm(s, h, U, l, f), NEW k, Extends(k, h)
    PROVE  Calm(s, k, U, l, f)
BY DEF Calm, Steady, Extends

LEMMA EdgeUp ==
    ASSUME NEW s, NEW k, NEW t \in Has, t # "C", OnAre(s, k, {})
    PROVE  LET r == Run(s, Together(<<Rise, Up(t)>>)) IN
           /\ Calm(r, k, {t}, 1, BitsOf(Has, {t}, Unsaid)) /\ Longer(s.x.ev, r.x.ev) /\ r.x.ev \in Mets(t, 1)
<1> DEFINE a == Do(s, Cmd("open", "", 0))
           b == Do(a, Rise)
           c == Do(b, Up(t))
           d == Do(c, Cmd("close", "", 0))
           h == s.x.ev
           Q == BitsOf(Has, {}, Unsaid)
           G == BitsOf(Has, {t}, Unsaid)
<1>1. Run(s, Together(<<Rise, Up(t)>>)) = d
  BY CommandsAre, RunTogether DEF Has
<1>2. OnAre(s, h, {}) /\ Extends(k, h) /\ Calm(s, k, {}, 0, Q) /\ h \in Seq(BuilderEvents)
  BY CalmNow DEF OnAre, OnWith, LevelOf, Calm, Steady
<1>3. Inner(a, h, {}, 0, Q, {}, 0) /\ a.x.ev = h
  BY <1>2, OpenCalm, OpenKeepsEvents
<1> HIDE DEF a
<1>4. Inner(b, h, {}, 1, Q, {"edge"}, 1) /\ Turned(a.x, b.x, 1)
  <2>1. 0 + 1 = 1 /\ 1 # 0 /\ 0 \in Nat /\ 1 \in {0, 1} /\ "edge" \notin {} /\ {} \cup {"edge"} = {"edge"}
    OBVIOUS
  <2>2. Inner(b, h, {}, 1, Q, {} \cup {"edge"}, 0 + 1) /\ Turned(a.x, b.x, 1)
    BY <1>3, <2>1, EdgeInner DEF Rise
  <2>3. QED
    BY <2>1, <2>2
<1>5. Turned(s.x, b.x, 1)
  BY <1>3, <1>4 DEF Turned
<1> HIDE DEF b
<1>6. Inner(c, h, {t}, 1, G, {"edge"} \cup UsesOf(t), 2) /\ Extends(b.x.ev, c.x.ev)
  <2>1. 1 + 1 = 2 /\ 1 \in Nat /\ t \notin {} /\ {} \cup {t} = {t} /\ Levelled(1, t, 1) = 1
    BY DEF Levelled
  <2>2. {"edge"} \cap UsesOf(t) = {}
    BY DEF UsesOf, DataPorts
  <2>3. /\ Inner(c, h, {} \cup {t}, Levelled(1, t, 1), BitsOf(Has, {} \cup {t}, Unsaid), {"edge"} \cup UsesOf(t), 1 + 1)
        /\ Extends(b.x.ev, c.x.ev)
    BY <1>4, <2>1, <2>2, UpInner
  <2>4. QED
    BY <2>1, <2>3
<1> HIDE DEF c
<1>7. b.x.ev \in Seq(BuilderEvents)
  BY <1>4, Fields DEF Inner, Steady, Ready, BInv
<1>8. c.x.ev \in Mets(t, 1)
  <2> DEFINE y == b.x
             P == {"edge"} \cup UsesOf(t)
             V == {t}
             U == {}
  <2>1. 1 \in {0, 1} /\ 1 = (IF t \in U THEN 0 ELSE 1) /\ 1 = (IF t \in V THEN 1 ELSE 0)
    OBVIOUS
  <2>2. /\ OnAre(s, s.x.ev, U) /\ Inner(c, s.x.ev, V, 1, BitsOf(Has, V, Unsaid), P, 2)
        /\ Extends(y.ev, c.x.ev) /\ Turned(s.x, y, 1) /\ y.ev \in Seq(BuilderEvents)
    BY <1>2, <1>5, <1>6, <1>7
  <2> HIDE DEF y, P, V, U
  <2>3. QED
    BY <2>1, <2>2, MetIs
<1>9. Calm(d, h, {t}, 1, G) /\ d.x.ev = c.x.ev
  <2>1. 2 \in Nat /\ 2 >= 2
    OBVIOUS
  <2> DEFINE P == {"edge"} \cup UsesOf(t)
  <2> HIDE DEF P
  <2>2. QED
    BY <1>6, <2>1, CloseCalm DEF P
<1> HIDE DEF d, G
<1>10. Longer(h, d.x.ev) /\ Calm(d, k, {t}, 1, G)
  BY <1>2, <1>9, LongerNow, PrefixCalm
<1>11. QED
  BY <1>1, <1>8, <1>9, <1>10 DEF G

LEMMA EdgeDown ==
    ASSUME NEW s, NEW k, NEW t \in Has, t # "C", OnAre(s, k, {t})
    PROVE  LET r == Run(s, Together(<<Rise, Down(t)>>)) IN
           /\ Calm(r, k, {}, 1, BitsOf(Has, {}, Unsaid)) /\ Longer(s.x.ev, r.x.ev) /\ r.x.ev \in Mets(t, 0)
<1> DEFINE a == Do(s, Cmd("open", "", 0))
           b == Do(a, Rise)
           c == Do(b, Down(t))
           d == Do(c, Cmd("close", "", 0))
           h == s.x.ev
           Q == BitsOf(Has, {}, Unsaid)
           G == BitsOf(Has, {t}, Unsaid)
<1>1. Run(s, Together(<<Rise, Down(t)>>)) = d
  BY CommandsAre, RunTogether DEF Has
<1>2. OnAre(s, h, {t}) /\ Extends(k, h) /\ Calm(s, k, {t}, 0, G) /\ h \in Seq(BuilderEvents)
  BY CalmNow DEF OnAre, OnWith, LevelOf, Calm, Steady
<1>3. Inner(a, h, {t}, 0, G, {}, 0) /\ a.x.ev = h
  BY <1>2, OpenCalm, OpenKeepsEvents
<1> HIDE DEF a
<1>4. Inner(b, h, {t}, 1, G, {"edge"}, 1) /\ Turned(a.x, b.x, 1)
  <2>1. 0 + 1 = 1 /\ 1 # 0 /\ 0 \in Nat /\ 1 \in {0, 1} /\ "edge" \notin {} /\ {} \cup {"edge"} = {"edge"}
    OBVIOUS
  <2> HIDE DEF G
  <2>2. Inner(b, h, {t}, 1, G, {} \cup {"edge"}, 0 + 1) /\ Turned(a.x, b.x, 1)
    BY <1>3, <2>1, EdgeInner DEF Rise
  <2>3. QED
    BY <2>1, <2>2
<1>5. Turned(s.x, b.x, 1)
  BY <1>3, <1>4 DEF Turned
<1> HIDE DEF b
<1>6. Inner(c, h, {}, 1, Q, {"edge"} \cup UsesOf(t), 2) /\ Extends(b.x.ev, c.x.ev)
  <2>1. 1 + 1 = 2 /\ 1 \in Nat /\ t \in {t} /\ {t} \ {t} = {} /\ Levelled(1, t, 0) = 1
    BY DEF Levelled
  <2>2. {"edge"} \cap UsesOf(t) = {}
    BY DEF UsesOf, DataPorts
  <2>3. /\ Inner(c, h, {t} \ {t}, Levelled(1, t, 0), BitsOf(Has, {t} \ {t}, Unsaid), {"edge"} \cup UsesOf(t), 1 + 1)
        /\ Extends(b.x.ev, c.x.ev)
    BY <1>4, <2>1, <2>2, DownInner
  <2>4. QED
    BY <2>1, <2>3
<1> HIDE DEF c
<1>7. b.x.ev \in Seq(BuilderEvents)
  BY <1>4, Fields DEF Inner, Steady, Ready, BInv
<1>8. c.x.ev \in Mets(t, 0)
  <2> DEFINE y == b.x
             P == {"edge"} \cup UsesOf(t)
             V == {}
             U == {t}
  <2>1. 0 \in {0, 1} /\ 0 = (IF t \in U THEN 0 ELSE 1) /\ 0 = (IF t \in V THEN 1 ELSE 0)
    OBVIOUS
  <2>2. /\ OnAre(s, s.x.ev, U) /\ Inner(c, s.x.ev, V, 1, BitsOf(Has, V, Unsaid), P, 2)
        /\ Extends(y.ev, c.x.ev) /\ Turned(s.x, y, 1) /\ y.ev \in Seq(BuilderEvents)
    BY <1>2, <1>5, <1>6, <1>7
  <2> HIDE DEF y, P, V, U
  <2>3. QED
    BY <2>1, <2>2, MetIs
<1>9. Calm(d, h, {}, 1, Q) /\ d.x.ev = c.x.ev
  <2>1. 2 \in Nat /\ 2 >= 2
    OBVIOUS
  <2> DEFINE P == {"edge"} \cup UsesOf(t)
  <2> HIDE DEF P
  <2>2. QED
    BY <1>6, <2>1, CloseCalm DEF P
<1> HIDE DEF d, Q
<1>10. Longer(h, d.x.ev) /\ Calm(d, k, {}, 1, Q)
  BY <1>2, <1>9, LongerNow, PrefixCalm
<1>11. QED
  BY <1>1, <1>8, <1>9, <1>10 DEF Q

(* The clock that rose falls again.                                        *)
LEMMA FallsBack ==
    ASSUME NEW s, NEW k, NEW U, "C" \notin U, Calm(s, k, U, 1, BitsOf(Has, U, Unsaid))
    PROVE  LET r == Run(s, <<Look, Fall, Look>>) IN OnAre(r, k, U) /\ Longer(s.x.ev, r.x.ev)
<1> DEFINE f == BitsOf(Has, U, Unsaid)
           r == Do(Do(Do(s, Look), Fall), Look)
<1>1. Run(s, <<Look, Fall, Look>>) = r
  <2>1. Look \in Commands /\ Fall \in Commands
    BY CommandsAre
  <2>2. ASSUME NEW x \in Commands, NEW y \in Commands
        PROVE  Run(s, <<x, y, x>>) = Do(Do(Do(s, x), y), x)
    BY RunThree
  <2>3. QED
    BY <2>1, <2>2
<1> HIDE DEF f
<1>2. ASSUME NEW h, Calm(s, h, U, 1, f)
      PROVE  Calm(r, h, U, 0, f)
  <2>1. Calm(Do(s, Look), h, U, 1, f)
    BY <1>2, LookCalm
  <2>2. Calm(Do(Do(s, Look), Fall), h, U, 0, f)
    <3>1. 0 \in {0, 1} /\ 0 # 1
      OBVIOUS
    <3>2. QED
      BY <2>1, <3>1, EdgeCalm DEF Fall
  <2>3. QED
    BY <2>2, LookCalm
<1> HIDE DEF r
<1>3. Calm(s, k, U, 1, f) /\ Calm(s, s.x.ev, U, 1, f)
  BY CalmNow DEF f
<1>4. Calm(r, k, U, 0, f) /\ Calm(r, s.x.ev, U, 0, f)
  BY <1>2, <1>3
<1>5. Longer(s.x.ev, r.x.ev)
  BY <1>4, LongerNow
<1>6. OnAre(r, k, U)
  BY <1>4 DEF OnAre, OnWith, LevelOf, f
<1>7. QED
  BY <1>1, <1>5, <1>6

LEMMA CoincidentSafe ==
    ASSUME NEW t \in Has, t # "C"
    PROVE  LET cmds == Together(<<Rise, Up(t)>>) \o <<Look, Fall, Look, Act>>
                       \o Together(<<Rise, Down(t)>>) \o <<Look, Fall, Look>>
           IN Safe(cmds) /\ Reveals(cmds, Mets(t, 0)) /\ Reveals(cmds, Mets(t, 1))
<1> DEFINE a == Together(<<Rise, Up(t)>>)
           f == <<Look, Fall, Look>>
           g == <<Act>>
           b == <<Look, Fall, Look, Act>>
           c == Together(<<Rise, Down(t)>>)
           U == {t}
<1>1. a \in Seq(Commands) /\ c \in Seq(Commands)
  BY CommandsAre, RunTogether DEF Has
<1>2. f \in Seq(Commands) /\ g \in Seq(Commands)
  <2>1. {Look, Fall, Act} \subseteq Commands
    BY CommandsAre
  <2>2. QED
    BY <2>1
<1>3. b = f \o g
  OBVIOUS
<1>4. \A s, k : OnAre(s, k, {}) => /\ Calm(Run(s, a), k, U, 1, BitsOf(Has, U, Unsaid))
                                   /\ Longer(s.x.ev, Run(s, a).x.ev) /\ Run(s, a).x.ev \in Mets(t, 1)
  BY EdgeUp
<1>5. \A s, k : OnAre(s, k, U) => /\ Calm(Run(s, c), k, {}, 1, BitsOf(Has, {}, Unsaid))
                                  /\ Longer(s.x.ev, Run(s, c).x.ev) /\ Run(s, c).x.ev \in Mets(t, 0)
  BY EdgeDown
<1>6. "C" \notin U /\ "C" \notin {}
  OBVIOUS
<1> HIDE DEF U
<1>7. \A s, k, V : "C" \notin V /\ Calm(s, k, V, 1, BitsOf(Has, V, Unsaid))
          => OnAre(Run(s, f), k, V) /\ Longer(s.x.ev, Run(s, f).x.ev)
  BY FallsBack
<1>8. \A s, k, V : OnAre(s, k, V) => OnAre(Run(s, g), k, V) /\ Longer(s.x.ev, Run(s, g).x.ev)
  <2>1. \A s : Run(s, g) = Do(s, Act)
    BY CommandsAre, RunOne
  <2> HIDE DEF g
  <2>2. QED
    BY <2>1, ActNow
<1> HIDE DEF a, b, c, f, g
<1>9. b \in Seq(Commands) /\ \A s : Run(s, b) = Run(Run(s, f), g)
  BY <1>2, <1>3, RunConcat
<1>10. a \o b \in Seq(Commands) /\ \A s : Run(s, a \o b) = Run(Run(s, a), b)
  BY <1>1, <1>9, RunConcat
<1> DEFINE ab == a \o b
<1>11. ab \in Seq(Commands) /\ \A s : Run(s, ab) = Run(Run(s, a), b)
  BY <1>10
<1> HIDE DEF ab
<1> DEFINE abc == ab \o c
<1>12. abc \in Seq(Commands) /\ \A s : Run(s, abc) = Run(Run(s, ab), c)
  BY <1>1, <1>11, RunConcat
<1> HIDE DEF abc
<1> DEFINE all == abc \o f
<1>13. all \in Seq(Commands) /\ \A s : Run(s, all) = Run(Run(s, abc), f)
  BY <1>2, <1>12, RunConcat
<1> HIDE DEF all
<1>14. ASSUME NEW s, NEW k, OnAre(s, k, {})
       PROVE  /\ OnAre(Run(s, all), k, {})
              /\ Run(s, all).x.ev \in Mets(t, 0) /\ Run(s, all).x.ev \in Mets(t, 1)
  <2> DEFINE p == Run(s, a)
             q == Run(p, f)
             r == Run(q, g)
             u == Run(r, c)
             z == Run(u, f)
  <2>1. Run(s, all) = z
    BY <1>9, <1>11, <1>12, <1>13
  <2>2. Calm(p, k, U, 1, BitsOf(Has, U, Unsaid)) /\ p.x.ev \in Mets(t, 1)
    BY <1>4, <1>14
  <2> HIDE DEF p
  <2>3. OnAre(q, k, U) /\ Longer(p.x.ev, q.x.ev)
    BY <1>6, <1>7, <2>2
  <2> HIDE DEF q
  <2>4. OnAre(r, k, U) /\ Longer(q.x.ev, r.x.ev)
    BY <1>8, <2>3
  <2> HIDE DEF r
  <2>5. Calm(u, k, {}, 1, BitsOf(Has, {}, Unsaid)) /\ Longer(r.x.ev, u.x.ev) /\ u.x.ev \in Mets(t, 0)
    BY <1>5, <2>4
  <2> HIDE DEF u
  <2>6. OnAre(z, k, {}) /\ Longer(u.x.ev, z.x.ev)
    BY <1>6, <1>7, <2>5
  <2> HIDE DEF z
  <2>7. \A S, d, e : Lasting(S) /\ d \in S /\ Longer(d, e) => e \in S
    BY DEF Lasting
  <2>8. z.x.ev \in Mets(t, 0)
    BY <2>5, <2>6, <2>7, MetsLast
  <2>9. z.x.ev \in Mets(t, 1)
    <3>1. q.x.ev \in Mets(t, 1)
      BY <2>2, <2>3, <2>7, MetsLast
    <3>2. r.x.ev \in Mets(t, 1)
      BY <2>4, <2>7, <3>1, MetsLast
    <3>3. u.x.ev \in Mets(t, 1)
      BY <2>5, <2>7, <3>2, MetsLast
    <3>4. QED
      BY <2>6, <2>7, <3>3, MetsLast
  <2>10. QED
    BY <2>1, <2>6, <2>8, <2>9
<1>15. Safe(all) /\ Reveals(all, Mets(t, 0)) /\ Reveals(all, Mets(t, 1))
  BY <1>13, <1>14 DEF Safe, Reveals
<1>16. QED
  BY <1>15 DEF all, abc, ab, a, b, c, f, g

(* _pairs: two triggers at once, and one after the other.                  *)
LEMMA UsesApart == \A t, u \in TriggerNames : t # u => UsesOf(t) \cap UsesOf(u) = {}
<1>1. "CLR" \notin DataPorts /\ "glbl" \notin DataPorts /\ "edge" \notin DataPorts
  BY DEF DataPorts
<1>2. QED
  BY <1>1 DEF UsesOf, TriggerNames

LEMMA BothUp ==
    ASSUME NEW s, NEW k, NEW t \in Has, NEW u \in Has, t # u, OnAre(s, k, {})
    PROVE  LET r == Run(s, Together(<<Up(t), Up(u)>>)) IN OnAre(r, k, {t, u}) /\ Longer(s.x.ev, r.x.ev)
<1> DEFINE a == Do(s, Cmd("open", "", 0))
           b == Do(a, Up(t))
           c == Do(b, Up(u))
           d == Do(c, Cmd("close", "", 0))
           h == s.x.ev
           B(U) == BitsOf(Has, U, Unsaid)
<1>1. Run(s, Together(<<Up(t), Up(u)>>)) = d
  BY CommandsAre, RunTogether DEF Has
<1>2. Calm(s, k, {}, LevelOf({}), B({})) /\ Extends(k, h) /\ h \in Seq(BuilderEvents)
  BY CalmNow DEF OnAre, OnWith, Calm, Steady
<1>3. Inner(a, h, {}, LevelOf({}), B({}), {}, 0)
  BY <1>2, OpenCalm
<1> HIDE DEF a
<1>4. Inner(b, h, {t}, LevelOf({t}), B({t}), UsesOf(t), 1)
  <2>1. 0 + 1 = 1 /\ 0 \in Nat /\ t \notin {} /\ {} \cup {t} = {t} /\ {} \cap UsesOf(t) = {}
        /\ {} \cup UsesOf(t) = UsesOf(t) /\ Levelled(LevelOf({}), t, 1) = LevelOf({t})
    BY DEF Levelled, LevelOf
  <2>2. Inner(b, h, {} \cup {t}, Levelled(LevelOf({}), t, 1), B({} \cup {t}), {} \cup UsesOf(t), 0 + 1)
    BY <1>3, <2>1, UpInner
  <2>3. QED
    BY <2>1, <2>2
<1> HIDE DEF b
<1>5. Inner(c, h, {t, u}, LevelOf({t, u}), B({t, u}), UsesOf(t) \cup UsesOf(u), 2)
  <2>1. 1 + 1 = 2 /\ 1 \in Nat /\ u \notin {t} /\ {t} \cup {u} = {t, u}
        /\ Levelled(LevelOf({t}), u, 1) = LevelOf({t, u})
    BY DEF Levelled, LevelOf
  <2>2. UsesOf(t) \cap UsesOf(u) = {}
    BY UsesApart DEF Has
  <2>3. Inner(c, h, {t} \cup {u}, Levelled(LevelOf({t}), u, 1), B({t} \cup {u}), UsesOf(t) \cup UsesOf(u), 1 + 1)
    BY <1>4, <2>1, <2>2, UpInner
  <2>4. QED
    BY <2>1, <2>3
<1> HIDE DEF c
<1>6. Calm(d, h, {t, u}, LevelOf({t, u}), B({t, u}))
  <2>1. 2 \in Nat /\ 2 >= 2
    OBVIOUS
  <2> DEFINE P == UsesOf(t) \cup UsesOf(u)
             U == {t, u}
             f == B(U)
             l == LevelOf(U)
  <2>2. Inner(c, h, U, l, f, P, 2)
    BY <1>5
  <2> HIDE DEF P, U, f, l
  <2>3. Calm(d, h, U, l, f)
    BY <2>1, <2>2, CloseCalm
  <2>4. QED
    BY <2>3 DEF U, f, l
<1> HIDE DEF d
<1>7. Longer(h, d.x.ev) /\ Calm(d, k, {t, u}, LevelOf({t, u}), B({t, u}))
  BY <1>2, <1>6, LongerNow, PrefixCalm
<1>8. QED
  BY <1>1, <1>7 DEF OnAre, OnWith

LEMMA BothDown ==
    ASSUME NEW s, NEW k, NEW t \in Has, NEW u \in Has, t # u, OnAre(s, k, {t, u})
    PROVE  LET r == Run(s, Together(<<Down(t), Down(u)>>)) IN OnAre(r, k, {}) /\ Longer(s.x.ev, r.x.ev)
<1> DEFINE a == Do(s, Cmd("open", "", 0))
           b == Do(a, Down(t))
           c == Do(b, Down(u))
           d == Do(c, Cmd("close", "", 0))
           h == s.x.ev
           B(U) == BitsOf(Has, U, Unsaid)
<1>1. Run(s, Together(<<Down(t), Down(u)>>)) = d
  BY CommandsAre, RunTogether DEF Has
<1>2. Calm(s, k, {t, u}, LevelOf({t, u}), B({t, u})) /\ Extends(k, h) /\ h \in Seq(BuilderEvents)
  BY CalmNow DEF OnAre, OnWith, Calm, Steady
<1>3. Inner(a, h, {t, u}, LevelOf({t, u}), B({t, u}), {}, 0)
  BY <1>2, OpenCalm
<1> HIDE DEF a
<1>4. Inner(b, h, {u}, LevelOf({u}), B({u}), UsesOf(t), 1)
  <2>1. 0 + 1 = 1 /\ 0 \in Nat /\ t \in {t, u} /\ {t, u} \ {t} = {u} /\ {} \cap UsesOf(t) = {}
        /\ {} \cup UsesOf(t) = UsesOf(t) /\ Levelled(LevelOf({t, u}), t, 0) = LevelOf({u})
    BY DEF Levelled, LevelOf
  <2>2. Inner(b, h, {t, u} \ {t}, Levelled(LevelOf({t, u}), t, 0), B({t, u} \ {t}), {} \cup UsesOf(t), 0 + 1)
    BY <1>3, <2>1, DownInner
  <2>3. QED
    BY <2>1, <2>2
<1> HIDE DEF b
<1>5. Inner(c, h, {}, LevelOf({}), B({}), UsesOf(t) \cup UsesOf(u), 2)
  <2>1. 1 + 1 = 2 /\ 1 \in Nat /\ u \in {u} /\ {u} \ {u} = {}
        /\ Levelled(LevelOf({u}), u, 0) = LevelOf({})
    BY DEF Levelled, LevelOf
  <2>2. UsesOf(t) \cap UsesOf(u) = {}
    BY UsesApart DEF Has
  <2>3. Inner(c, h, {u} \ {u}, Levelled(LevelOf({u}), u, 0), B({u} \ {u}), UsesOf(t) \cup UsesOf(u), 1 + 1)
    BY <1>4, <2>1, <2>2, DownInner
  <2>4. QED
    BY <2>1, <2>3
<1> HIDE DEF c
<1>6. Calm(d, h, {}, LevelOf({}), B({}))
  <2>1. 2 \in Nat /\ 2 >= 2
    OBVIOUS
  <2> DEFINE P == UsesOf(t) \cup UsesOf(u)
             f == B({})
             l == LevelOf({})
  <2>2. Inner(c, h, {}, l, f, P, 2)
    BY <1>5
  <2> HIDE DEF P, f, l
  <2>3. Calm(d, h, {}, l, f)
    BY <2>1, <2>2, CloseCalm
  <2>4. QED
    BY <2>3 DEF f, l
<1> HIDE DEF d
<1>7. Longer(h, d.x.ev) /\ Calm(d, k, {}, LevelOf({}), B({}))
  BY <1>2, <1>6, LongerNow, PrefixCalm
<1>8. QED
  BY <1>1, <1>7 DEF OnAre, OnWith

(* _steps: one command after the other, each looked at.  W: what is on.    *)
Turns(c, U, V) == \A s, k : OnAre(s, k, U) => OnAre(Do(s, c), k, V) /\ Longer(s.x.ev, Do(s, c).x.ev)

LEMMA StepsSafe ==
    ASSUME NEW a \in Commands, NEW b \in Commands, NEW c \in Commands, NEW d \in Commands,
           NEW A, NEW B, NEW C, Turns(a, {}, A), Turns(b, A, B), Turns(c, B, C), Turns(d, C, {})
    PROVE  LET cmds == _steps(<<a, b, c, d>>) IN
           Safe(cmds) /\ \A W : W = A \/ W = B \/ W = C \/ W = {} => Reveals(cmds, View(W, Unsaid))
<1> DEFINE cmds == <<a, b, c, d>>
           seqs == [i \in 1 .. 4 |-> <<cmds[i], Look, Act>>]
<1>1. DOMAIN cmds = 1 .. 4 /\ cmds[1] = a /\ cmds[2] = b /\ cmds[3] = c /\ cmds[4] = d
  OBVIOUS
<1>2. \A i \in 1 .. 4 : cmds[i] \in Commands
  BY <1>1
<1>3. _steps(cmds) = FlattenSeq(seqs)
  BY <1>1 DEF _steps, Each
<1> HIDE DEF cmds
<1>4. ASSUME NEW i \in 1 .. 4, NEW s
      PROVE  seqs[i] \in Seq(Commands) /\ Run(s, seqs[i]) = Do(Do(Do(s, cmds[i]), Look), Act)
  <2>1. cmds[i] \in Commands /\ Look \in Commands /\ Act \in Commands
    BY <1>2, CommandsAre
  <2>2. ASSUME NEW x \in Commands, NEW y \in Commands, NEW z \in Commands
        PROVE  <<x, y, z>> \in Seq(Commands) /\ Run(s, <<x, y, z>>) = Do(Do(Do(s, x), y), z)
    BY RunThree
  <2>3. seqs[i] = <<cmds[i], Look, Act>>
    OBVIOUS
  <2>4. QED
    BY <2>1, <2>2, <2>3
<1>5. seqs = [i \in 1 .. 4 |-> seqs[i]]
  OBVIOUS
<1> HIDE DEF seqs
<1>6. seqs \in Seq(Seq(Commands)) /\ Len(seqs) = 4
  BY <1>4, <1>5
<1>7. FlattenSeq(seqs) \in Seq(Commands)
  BY <1>6, RunFlat
<1>8. ASSUME NEW s, NEW k, OnAre(s, k, {})
      PROVE  /\ OnAre(Run(s, FlattenSeq(seqs)), k, {})
             /\ \A W : W = A \/ W = B \/ W = C \/ W = {} => Run(s, FlattenSeq(seqs)).x.ev \in View(W, Unsaid)
  <2>1. PICK bt : Blocks(s, seqs, bt) /\ Run(s, FlattenSeq(seqs)) = bt[4]
    BY <1>6, RunFlat
  <2>2. 1 - 1 = 0 /\ 2 - 1 = 1 /\ 3 - 1 = 2 /\ 4 - 1 = 3 /\ {1, 2, 3, 4} \subseteq 1 .. 4
    OBVIOUS
  <2>3. /\ bt[0] = s /\ bt[1] = Run(bt[0], seqs[1]) /\ bt[2] = Run(bt[1], seqs[2])
        /\ bt[3] = Run(bt[2], seqs[3]) /\ bt[4] = Run(bt[3], seqs[4])
    BY <1>6, <2>1, <2>2 DEF Blocks
  <2>4. /\ bt[1] = Do(Do(Do(bt[0], a), Look), Act) /\ bt[2] = Do(Do(Do(bt[1], b), Look), Act)
        /\ bt[3] = Do(Do(Do(bt[2], c), Look), Act) /\ bt[4] = Do(Do(Do(bt[3], d), Look), Act)
    BY <1>1, <1>4, <2>2, <2>3
  <2>5. ASSUME NEW r, NEW x, NEW U, NEW V, OnAre(r, k, U), Turns(x, U, V)
        PROVE  LET z == Do(Do(Do(r, x), Look), Act) IN
               OnAre(z, k, V) /\ Longer(r.x.ev, z.x.ev) /\ z.x.ev \in View(V, Unsaid)
    <3> DEFINE p == Do(r, x)
               q == Do(p, Look)
               z == Do(q, Act)
    <3>1. OnAre(p, k, V) /\ Longer(r.x.ev, p.x.ev)
      BY <2>5 DEF Turns
    <3> HIDE DEF p
    <3>2. OnAre(q, k, V) /\ Longer(p.x.ev, q.x.ev) /\ q.x.ev \in View(V, Unsaid)
      BY <3>1, LookNow
    <3> HIDE DEF q
    <3>3. OnAre(z, k, V) /\ Longer(q.x.ev, z.x.ev)
      BY <3>2, ActNow
    <3> HIDE DEF z
    <3>4. z.x.ev \in View(V, Unsaid)
      BY <3>2, <3>3, ViewLasts DEF Lasting
    <3>5. Longer(r.x.ev, z.x.ev)
      BY <3>1, <3>2, <3>3 DEF Longer, Extends
    <3>6. QED
      BY <3>3, <3>4, <3>5 DEF z, q, p
  <2>6. OnAre(bt[1], k, A) /\ Longer(bt[0].x.ev, bt[1].x.ev) /\ bt[1].x.ev \in View(A, Unsaid)
    BY <1>8, <2>3, <2>4, <2>5
  <2>7. OnAre(bt[2], k, B) /\ Longer(bt[1].x.ev, bt[2].x.ev) /\ bt[2].x.ev \in View(B, Unsaid)
    BY <2>4, <2>5, <2>6
  <2>8. OnAre(bt[3], k, C) /\ Longer(bt[2].x.ev, bt[3].x.ev) /\ bt[3].x.ev \in View(C, Unsaid)
    BY <2>4, <2>5, <2>7
  <2>9. OnAre(bt[4], k, {}) /\ Longer(bt[3].x.ev, bt[4].x.ev) /\ bt[4].x.ev \in View({}, Unsaid)
    BY <2>4, <2>5, <2>8
  <2>10. \A S, x, y : Lasting(S) /\ x \in S /\ Longer(x, y) => y \in S
    BY DEF Lasting
  <2>11. bt[4].x.ev \in View(C, Unsaid)
    BY <2>8, <2>9, <2>10, ViewLasts
  <2>12. bt[4].x.ev \in View(B, Unsaid)
    <3>1. bt[3].x.ev \in View(B, Unsaid)
      BY <2>7, <2>8, <2>10, ViewLasts
    <3>2. QED
      BY <2>9, <2>10, <3>1, ViewLasts
  <2>13. bt[4].x.ev \in View(A, Unsaid)
    <3>1. bt[2].x.ev \in View(A, Unsaid)
      BY <2>6, <2>7, <2>10, ViewLasts
    <3>2. bt[3].x.ev \in View(A, Unsaid)
      BY <2>8, <2>10, <3>1, ViewLasts
    <3>3. QED
      BY <2>9, <2>10, <3>2, ViewLasts
  <2>14. QED
    BY <2>1, <2>9, <2>11, <2>12, <2>13
<1>9. Safe(FlattenSeq(seqs))
  BY <1>7, <1>8 DEF Safe
<1>10. ASSUME NEW W, W = A \/ W = B \/ W = C \/ W = {} PROVE Reveals(FlattenSeq(seqs), View(W, Unsaid))
  BY <1>8, <1>10 DEF Reveals
<1>11. QED
  BY <1>3, <1>9, <1>10 DEF cmds

LEMMA TurnsUp == ASSUME NEW U, NEW t \in Has, t \notin U, NEW V, V = U \cup {t} PROVE Turns(Up(t), U, V)
BY UpNow DEF Turns

LEMMA TurnsDown == ASSUME NEW U, NEW t \in Has, t \in U, NEW V, V = U \ {t} PROVE Turns(Down(t), U, V)
BY DownNow DEF Turns

LEMMA StepsOf ==
    ASSUME NEW t \in Has, NEW u \in Has, t # u
    PROVE  /\ Safe(_steps(<<Up(t), Up(u), Down(t), Down(u)>>))
           /\ Safe(_steps(<<Up(t), Up(u), Down(u), Down(t)>>))
           /\ \A W : W = {t} \/ W = {t, u} \/ W = {u} \/ W = {}
                 => Reveals(_steps(<<Up(t), Up(u), Down(t), Down(u)>>), View(W, Unsaid))
<1> DEFINE T == {t}
           V == {u}
           B == {t, u}
<1>1. /\ T = {} \cup {t} /\ B = T \cup {u} /\ V = B \ {t} /\ T = B \ {u} /\ {} = V \ {u} /\ {} = T \ {t}
      /\ t \notin {} /\ u \notin T /\ t \in B /\ u \in B /\ u \in V /\ t \in T
  OBVIOUS
<1> HIDE DEF T, V, B
<1>2. Up(t) \in Commands /\ Up(u) \in Commands /\ Down(t) \in Commands /\ Down(u) \in Commands
  BY CommandsAre DEF Has
<1>3. Turns(Up(t), {}, T) /\ Turns(Up(u), T, B)
  BY <1>1, TurnsUp
<1>4. Turns(Down(t), B, V) /\ Turns(Down(u), B, T) /\ Turns(Down(u), V, {}) /\ Turns(Down(t), T, {})
  BY <1>1, TurnsDown
<1>5. /\ Safe(_steps(<<Up(t), Up(u), Down(t), Down(u)>>))
      /\ \A W : W = T \/ W = B \/ W = V \/ W = {}
                 => Reveals(_steps(<<Up(t), Up(u), Down(t), Down(u)>>), View(W, Unsaid))
  BY <1>2, <1>3, <1>4, StepsSafe
<1>6. Safe(_steps(<<Up(t), Up(u), Down(u), Down(t)>>))
  BY <1>2, <1>3, <1>4, StepsSafe
<1>7. QED
  BY <1>5, <1>6 DEF T, V, B

LEMMA PairSafe ==
    ASSUME NEW t \in Has, NEW u \in Has, t # u
    PROVE  LET cmds == _steps(<<Up(t), Up(u), Down(t), Down(u)>>)
                       \o _steps(<<Up(t), Up(u), Down(u), Down(t)>>)
                       \o Together(<<Up(t), Up(u)>>) \o <<Look, Act>>
                       \o Together(<<Down(t), Down(u)>>) \o <<Look, Act>>
           IN /\ Safe(cmds)
              /\ \A W : W = {t} \/ W = {t, u} \/ W = {u} \/ W = {} => Reveals(cmds, View(W, Unsaid))
<1> DEFINE a == _steps(<<Up(t), Up(u), Down(t), Down(u)>>)
           b == _steps(<<Up(t), Up(u), Down(u), Down(t)>>)
           c == Together(<<Up(t), Up(u)>>)
           d == Together(<<Down(t), Down(u)>>)
           g == <<Look, Act>>
           B == {t, u}
           Wanted(W) == W = {t} \/ W = {t, u} \/ W = {u} \/ W = {}
<1>1. Safe(a) /\ Safe(b) /\ \A W : Wanted(W) => Reveals(a, View(W, Unsaid))
  BY StepsOf
<1>2. c \in Seq(Commands) /\ d \in Seq(Commands)
  BY CommandsAre, RunTogether DEF Has
<1>3. g \in Seq(Commands) /\ \A s, k, U : OnAre(s, k, U) => OnAre(Run(s, g), k, U)
  <2>1. \A s : g \in Seq(Commands) /\ Run(s, g) = Do(Do(s, Look), Act)
    BY CommandsAre, RunTwo
  <2> HIDE DEF g
  <2>2. QED
    BY <2>1, LookNow, ActNow
<1>4. \A s, k : OnAre(s, k, {}) => OnAre(Run(s, c), k, B)
  BY BothUp
<1>5. \A s, k : OnAre(s, k, B) => OnAre(Run(s, d), k, {})
  BY BothDown
<1> HIDE DEF a, b, c, d, g, B, Wanted
(* The rest, from a trigger that is off to one that is off.                *)
<1> DEFINE ab == a \o b
           ac == ab \o c
           ag == ac \o g
           ad == ag \o d
           all == ad \o g
<1>6. Safe(ab) /\ \A S : Lasting(S) /\ Reveals(a, S) => Reveals(ab, S)
  BY <1>1, SafeConcat
<1>7. ab \in Seq(Commands) /\ \A s : \A k : OnAre(s, k, {}) => OnAre(Run(s, ab), k, {})
  BY <1>6 DEF Safe
<1> HIDE DEF ab
<1>8. ac \in Seq(Commands) /\ \A s : Run(s, ac) = Run(Run(s, ab), c)
  BY <1>2, <1>7, RunConcat
<1> HIDE DEF ac
<1>9. ag \in Seq(Commands) /\ \A s : Run(s, ag) = Run(Run(s, ac), g)
  BY <1>3, <1>8, RunConcat
<1> HIDE DEF ag
<1>10. ad \in Seq(Commands) /\ \A s : Run(s, ad) = Run(Run(s, ag), d)
  BY <1>2, <1>9, RunConcat
<1> HIDE DEF ad
<1>11. all \in Seq(Commands) /\ \A s : Run(s, all) = Run(Run(s, ad), g)
  BY <1>3, <1>10, RunConcat
<1> HIDE DEF all
<1>12. \A s : Run(s, all) = Run(Run(Run(Run(Run(s, ab), c), g), d), g)
  BY <1>8, <1>9, <1>10, <1>11
<1>13. ASSUME NEW s, NEW k, OnAre(s, k, {})
       PROVE  OnAre(Run(s, all), k, {})
  <2>1. OnAre(Run(Run(s, ab), c), k, B)
    BY <1>4, <1>7, <1>13
  <2>2. OnAre(Run(Run(Run(s, ab), c), g), k, B)
    BY <1>3, <2>1
  <2>3. OnAre(Run(Run(Run(Run(s, ab), c), g), d), k, {})
    BY <1>5, <2>2
  <2>4. QED
    BY <1>3, <1>12, <2>3
<1>14. Safe(all)
  BY <1>11, <1>13 DEF Safe
<1>15. ASSUME NEW W, Wanted(W), NEW s, NEW k, OnAre(s, k, {})
       PROVE  Run(s, all).x.ev \in View(W, Unsaid)
  <2> DEFINE p == Run(s, ab)
             z == Run(s, all)
  <2>1. p.x.ev \in View(W, Unsaid)
    <3>1. Reveals(ab, View(W, Unsaid))
      BY <1>1, <1>6, <1>15, ViewLasts
    <3>2. QED
      BY <1>15, <3>1 DEF Reveals
  <2>2. OnAre(p, p.x.ev, {})
    <3>1. OnAre(p, k, {})
      BY <1>7, <1>15
    <3> HIDE DEF p
    <3>2. QED
      BY <3>1, CalmNow DEF OnAre, OnWith
  <2>3. OnAre(z, p.x.ev, {})
    <3> DEFINE h == p.x.ev
    <3>1. z = Run(Run(Run(Run(p, c), g), d), g) /\ OnAre(p, h, {})
      BY <1>12, <2>2
    <3> HIDE DEF p, z, h
    <3>2. OnAre(Run(p, c), h, B)
      BY <1>4, <3>1
    <3>3. OnAre(Run(Run(p, c), g), h, B)
      BY <1>3, <3>2
    <3>4. OnAre(Run(Run(Run(p, c), g), d), h, {})
      BY <1>5, <3>3
    <3>5. OnAre(z, h, {})
      BY <1>3, <3>1, <3>4
    <3>6. QED
      BY <3>5 DEF h
  <2> HIDE DEF p, z
  <2>4. Longer(p.x.ev, z.x.ev)
    BY <2>3, LongerNow DEF OnAre, OnWith
  <2>5. z.x.ev \in View(W, Unsaid)
    BY <2>1, <2>4, ViewLasts DEF Lasting
  <2>6. QED
    BY <2>5 DEF z
<1>16. \A W : Wanted(W) => Reveals(all, View(W, Unsaid))
  BY <1>15 DEF Reveals
<1>17. QED
  BY <1>14, <1>16 DEF all, ad, ag, ac, ab, a, b, c, d, g, Wanted

(* _inputs: the asynchronous inputs, then all of them.                     *)
LEMMA ToggleSafe == Safe(<<Cmd("toggle", "", 0), Act>>)
<1> DEFINE a == Cmd("toggle", "", 0)
           cmds == <<a, Act>>
<1>1. a \in Commands /\ Act \in Commands
  BY CommandsAre
<1>2. asyncs = <<>> \/ "CLR" \notin DOMAIN BitsOf(Has, {}, Unsaid)
  <2>1. CASE IsTrig("CLR")
    BY <2>1 DEF asyncs
  <2>2. CASE ~ IsTrig("CLR")
    <3>1. "CLR" \notin Has /\ TrigOf("CLR") = "CLR"
      BY <2>2 DEF Has, TrigOf, DataPorts
    <3>2. QED
      BY <3>1, NoneIs DEF BitsOf, Known
  <2>3. QED
    BY <2>1, <2>2
<1>3. \A s : \A k : OnAre(s, k, {}) => OnAre(Do(s, a), k, {})
  BY <1>2, ToggleCalm DEF OnAre, OnWith
<1> HIDE DEF a
<1>4. \A s : cmds \in Seq(Commands) /\ Run(s, cmds) = Do(Do(s, a), Act)
  BY <1>1, RunTwo
<1> HIDE DEF cmds
<1>5. Safe(cmds)
  BY <1>3, <1>4, ActNow DEF Safe
<1>6. QED
  BY <1>5 DEF cmds, a

-----------------------------------------------------------------------------
(* The phases, for every analysis.                                         *)

LEMMA TrigAt == \A t \in Has : \E i \in DOMAIN Trigs : Trigs[i] = t
BY DEF Has, IsTrig

LEMMA IndependentSafe ==
    ASSUME subject \in Subjects
    PROVE  /\ Safe(_independent)
           /\ \A t \in Has : Reveals(_independent, View({}, Unsaid)) /\ Reveals(_independent, View({t}, Unsaid))
<1> DEFINE pulse(t) == <<Act, Act, Up(t), Look, Act, Act, Down(t), Look, Act>>
           rounds(t) == [k \in 1 .. Rounds |-> pulse(t)]
           seqs == [i \in 1 .. Len(Trigs) |-> FlattenSeq(rounds(Trigs[i]))]
<1>1. Rounds \in Nat /\ 1 \in 1 .. Rounds /\ Len(Trigs) \in Nat /\ DOMAIN Trigs = 1 .. Len(Trigs)
  BY EquivStimulusAssumption, Triggers
<1>2. \A t \in Has : /\ Safe(FlattenSeq(rounds(t)))
                     /\ Reveals(FlattenSeq(rounds(t)), View({}, Unsaid))
                     /\ Reveals(FlattenSeq(rounds(t)), View({t}, Unsaid))
  <2>1. SUFFICES ASSUME NEW t \in Has
                 PROVE  /\ Safe(FlattenSeq(rounds(t)))
                        /\ Reveals(FlattenSeq(rounds(t)), View({}, Unsaid))
                        /\ Reveals(FlattenSeq(rounds(t)), View({t}, Unsaid))
    OBVIOUS
  <2>2. Safe(pulse(t)) /\ Reveals(pulse(t), View({}, Unsaid)) /\ Reveals(pulse(t), View({t}, Unsaid))
    BY PulseSafe
  <2> HIDE DEF pulse
  <2> DEFINE r == rounds(t)
  <2>3. r = [k \in 1 .. Rounds |-> r[k]] /\ \A k \in 1 .. Rounds : r[k] = pulse(t)
    OBVIOUS
  <2> HIDE DEF r
  <2>4. /\ Safe(FlattenSeq(r))
        /\ \A S : \A k \in 1 .. Rounds : Lasting(S) /\ Reveals(r[k], S) => Reveals(FlattenSeq(r), S)
    <3>1. \A k \in 1 .. Rounds : Safe(r[k])
      BY <2>2, <2>3
    <3>2. QED
      BY <1>1, <2>3, <3>1, SafeAll
  <2>5. Reveals(r[1], View({}, Unsaid)) /\ Reveals(r[1], View({t}, Unsaid))
    BY <1>1, <2>2, <2>3
  <2>6. QED
    BY <1>1, <2>4, <2>5, ViewLasts DEF r
<1>3. _independent = FlattenSeq(seqs)
  BY <1>1 DEF _independent, Each
<1> HIDE DEF rounds
<1>4. seqs = [i \in 1 .. Len(Trigs) |-> seqs[i]] /\ \A i \in 1 .. Len(Trigs) : seqs[i] = FlattenSeq(rounds(Trigs[i]))
  OBVIOUS
<1>5. \A i \in 1 .. Len(Trigs) : Trigs[i] \in Has
  BY Triggers DEF Has
<1> HIDE DEF seqs
<1>6. \A i \in 1 .. Len(Trigs) : Safe(seqs[i])
  BY <1>2, <1>4, <1>5
<1>7. /\ Safe(FlattenSeq(seqs))
      /\ \A S : \A i \in 1 .. Len(Trigs) : Lasting(S) /\ Reveals(seqs[i], S) => Reveals(FlattenSeq(seqs), S)
  BY <1>1, <1>4, <1>6, SafeAll
<1>8. ASSUME NEW t \in Has
      PROVE  Reveals(FlattenSeq(seqs), View({}, Unsaid)) /\ Reveals(FlattenSeq(seqs), View({t}, Unsaid))
  <2>1. PICK i \in 1 .. Len(Trigs) : Trigs[i] = t
    BY <1>1, TrigAt
  <2>2. Reveals(seqs[i], View({}, Unsaid)) /\ Reveals(seqs[i], View({t}, Unsaid))
    BY <1>2, <1>4, <2>1
  <2>3. QED
    BY <1>7, <2>2, ViewLasts
<1>9. QED
  BY <1>3, <1>7, <1>8

LEMMA WalkSafe ==
    /\ Safe(_walk)
    /\ IsTrig("D") => \A f \in [DataPorts -> {0, 1}] : f["D1"] # f["D2"] => Reveals(_walk, Sights(0, f))
<1> DEFINE show(f) == <<Cmd("set", "D", f), Look, Act, Cmd("set", "D", [p \in DataPorts |-> 0]), Look, Act>>
           one(q) == [p \in DataPorts |-> IF p = q THEN 1 ELSE 0]
           but(q) == [p \in DataPorts |-> IF p = q THEN 0 ELSE 1]
           bit(q) == show(one(q)) \o show(but(q))
           all == bit("D1") \o bit("D2")
<1>1. \A q : one(q) \in [DataPorts -> {0, 1}] /\ but(q) \in [DataPorts -> {0, 1}]
  OBVIOUS
<1>2. _walk = IF IsTrig("D") THEN all ELSE <<>>
  BY DEF _walk
<1>3. \A f \in [DataPorts -> {0, 1}] : f["D1"] # f["D2"] => f = one("D1") \/ f = one("D2")
  <2>1. SUFFICES ASSUME NEW f \in [DataPorts -> {0, 1}], f["D1"] # f["D2"]
                 PROVE  f = one("D1") \/ f = one("D2")
    OBVIOUS
  <2>2. f["D1"] \in {0, 1} /\ f["D2"] \in {0, 1} /\ "D1" # "D2" /\ \A p \in DataPorts : p = "D1" \/ p = "D2"
    BY DEF DataPorts
  <2>3. CASE f["D1"] = 1
    <3>1. \A p \in DataPorts : f[p] = one("D1")[p]
      BY <2>1, <2>2, <2>3
    <3>2. QED
      BY <3>1
  <2>4. CASE f["D1"] = 0
    <3>1. \A p \in DataPorts : f[p] = one("D2")[p]
      BY <2>1, <2>2, <2>4
    <3>2. QED
      BY <3>1
  <2>5. QED
    BY <2>2, <2>3, <2>4
<1> HIDE DEF one, but
<1>4. IsTrig("D") => \A f \in [DataPorts -> {0, 1}] : Safe(show(f)) /\ Reveals(show(f), Sights(0, f))
  BY ShowSafe
<1> HIDE DEF show
<1>5. CASE IsTrig("D")
  <2>1. \A q : Safe(bit(q)) /\ Reveals(bit(q), Sights(0, one(q)))
    <3>1. SUFFICES ASSUME NEW q PROVE Safe(bit(q)) /\ Reveals(bit(q), Sights(0, one(q)))
      OBVIOUS
    <3>2. Safe(show(one(q))) /\ Safe(show(but(q))) /\ Reveals(show(one(q)), Sights(0, one(q)))
      BY <1>1, <1>4, <1>5
    <3>3. QED
      BY <3>2, SafeConcat, SightsLast
  <2> HIDE DEF bit
  <2>2. Safe(all) /\ Reveals(all, Sights(0, one("D1"))) /\ Reveals(all, Sights(0, one("D2")))
    BY <2>1, SafeConcat, SightsLast
  <2> HIDE DEF all
  <2>3. _walk = all
    BY <1>2, <1>5
  <2>4. ASSUME NEW f \in [DataPorts -> {0, 1}], f["D1"] # f["D2"] PROVE Reveals(all, Sights(0, f))
    BY <1>3, <2>2, <2>4
  <2>5. QED
    BY <2>2, <2>3, <2>4
<1>6. CASE ~ IsTrig("D")
  BY <1>2, <1>6, SafeNone
<1>7. QED
  BY <1>5, <1>6

LEMMA CoincidentAllSafe ==
    ASSUME subject \in Subjects
    PROVE  /\ Safe(_coincident)
           /\ subject.clocked => \A t \in Has \ {"C"}, v \in {0, 1} : Reveals(_coincident, Mets(t, v))
<1> DEFINE with(t) == Together(<<Rise, Up(t)>>) \o <<Look, Fall, Look, Act>>
                      \o Together(<<Rise, Down(t)>>) \o <<Look, Fall, Look>>
           some(t) == IF t = "C" THEN <<>> ELSE with(t)
           seqs == [i \in 1 .. Len(Trigs) |-> some(Trigs[i])]
           all == [i \in 1 .. Len(clocks) |-> FlattenSeq(seqs)]
<1>1. Len(Trigs) \in Nat /\ DOMAIN Trigs = 1 .. Len(Trigs)
  BY Triggers
<1>2. Len(clocks) \in Nat /\ DOMAIN clocks = 1 .. Len(clocks) /\ (subject.clocked => 1 \in 1 .. Len(clocks))
  <2>1. <<>> \in Seq({"C"}) /\ <<"C">> \in Seq({"C"}) /\ Len(<<"C">>) = 1
    OBVIOUS
  <2>2. clocks \in Seq({"C"}) /\ (subject.clocked => Len(clocks) = 1)
    BY <2>1 DEF clocks
  <2>3. QED
    BY <2>2
<1>3. _coincident = FlattenSeq(all)
  BY <1>1, <1>2 DEF _coincident, Each
<1>4. \A t \in Has : Safe(some(t)) /\ (t # "C" => Reveals(some(t), Mets(t, 0)) /\ Reveals(some(t), Mets(t, 1)))
  <2>1. \A t \in Has : t # "C" => Safe(with(t)) /\ Reveals(with(t), Mets(t, 0)) /\ Reveals(with(t), Mets(t, 1))
    BY CoincidentSafe
  <2> HIDE DEF with
  <2>2. QED
    BY <2>1, SafeNone
<1> HIDE DEF some
<1>5. \A i \in 1 .. Len(Trigs) : Trigs[i] \in Has
  BY Triggers DEF Has
<1>6. seqs = [i \in 1 .. Len(Trigs) |-> seqs[i]] /\ \A i \in 1 .. Len(Trigs) : seqs[i] = some(Trigs[i])
  OBVIOUS
<1> HIDE DEF seqs
<1>7. \A i \in 1 .. Len(Trigs) : Safe(seqs[i])
  BY <1>4, <1>5, <1>6
<1>8. /\ Safe(FlattenSeq(seqs))
      /\ \A S : \A i \in 1 .. Len(Trigs) : Lasting(S) /\ Reveals(seqs[i], S) => Reveals(FlattenSeq(seqs), S)
  BY <1>1, <1>6, <1>7, SafeAll
<1>9. \A t \in Has \ {"C"}, v \in {0, 1} : Reveals(FlattenSeq(seqs), Mets(t, v))
  <2>1. SUFFICES ASSUME NEW t \in Has \ {"C"}, NEW v \in {0, 1} PROVE Reveals(FlattenSeq(seqs), Mets(t, v))
    OBVIOUS
  <2>2. PICK i \in 1 .. Len(Trigs) : Trigs[i] = t
    BY <1>1, TrigAt
  <2>3. Reveals(seqs[i], Mets(t, v))
    BY <1>4, <1>6, <2>2
  <2>4. QED
    BY <1>8, <2>3, MetsLast
<1>10. all = [i \in 1 .. Len(clocks) |-> all[i]] /\ \A i \in 1 .. Len(clocks) : all[i] = FlattenSeq(seqs)
  OBVIOUS
<1> HIDE DEF all
<1>11. \A i \in 1 .. Len(clocks) : Safe(all[i])
  BY <1>8, <1>10
<1>12. /\ Safe(FlattenSeq(all))
       /\ \A S : \A i \in 1 .. Len(clocks) : Lasting(S) /\ Reveals(all[i], S) => Reveals(FlattenSeq(all), S)
  BY <1>2, <1>10, <1>11, SafeAll
<1>13. ASSUME subject.clocked, NEW t \in Has \ {"C"}, NEW v \in {0, 1} PROVE Reveals(FlattenSeq(all), Mets(t, v))
  <2>1. Reveals(all[1], Mets(t, v))
    BY <1>2, <1>9, <1>10, <1>13
  <2>2. QED
    BY <1>2, <1>12, <1>13, <2>1, MetsLast
<1>14. QED
  BY <1>3, <1>12, <1>13

(* The pairs have an enumeration: they are finitely many.                  *)
LEMMA PairsEnumerated ==
    ASSUME subject \in Subjects
    PROVE  \E n \in Nat : /\ SetToSeq(TrigPairs) \in [1 .. n -> TrigPairs]
                          /\ DOMAIN SetToSeq(TrigPairs) = 1 .. n
                          /\ \A x \in TrigPairs : \E i \in 1 .. n : SetToSeq(TrigPairs)[i] = x
<1> DEFINE S == TrigPairs
           n == Cardinality(S)
           q == SetToSeq(S)
<1>1. DOMAIN Trigs = 1 .. Len(Trigs) /\ Len(Trigs) \in Nat
  BY Triggers
<1>2. IsFiniteSet(1 .. Len(Trigs))
  BY <1>1, FS_Interval
<1>3. IsFiniteSet((DOMAIN Trigs) \X (DOMAIN Trigs))
  BY <1>1, <1>2, FS_Product
<1>4. S \in SUBSET ((DOMAIN Trigs) \X (DOMAIN Trigs))
  BY DEF TrigPairs
<1> HIDE DEF S
<1>5. IsFiniteSet(S)
  BY <1>3, <1>4, FS_Subset
<1>6. n \in Nat /\ ExistsBijection(1 .. n, S)
  BY <1>5, FS_CardinalityType
<1>7. Cardinality(1 .. n) = n
  <2> HIDE DEF n
  <2>1. Cardinality(1 .. n) = IF 1 > n THEN 0 ELSE n - 1 + 1
    BY <1>6, FS_Interval
  <2>2. QED
    BY <1>6, <2>1
<1>8. q = CHOOSE f \in [1 .. n -> S] : IsInjective(f)
  BY DEF SetToSeq
<1> HIDE DEF q
<1>9. \E f \in [1 .. n -> S] : IsInjective(f)
  <2> HIDE DEF n
  <2>1. QED
    BY <1>6 DEF ExistsBijection, Bijection, Injection
<1>10. q \in [1 .. n -> S] /\ IsInjective(q)
  <2> HIDE DEF n
  <2>1. QED
    BY <1>8, <1>9
<1>11. q \in Surjection(1 .. n, S)
  <2> DEFINE N == 1 .. n
  <2>1. q \in Injection(N, S) /\ IsFiniteSet(S) /\ Cardinality(N) = Cardinality(S)
    BY <1>5, <1>7, <1>10 DEF Injection
  <2> HIDE DEF N, n
  <2>2. q \in Surjection(N, S)
    BY <2>1, FS_Injection
  <2>3. QED
    BY <2>2 DEF N
<1> HIDE DEF n
<1>12. \A x \in S : \E i \in 1 .. n : q[i] = x
  BY <1>11 DEF Surjection
<1>13. q \in [1 .. n -> S] /\ DOMAIN q = 1 .. n
  BY <1>10
<1>14. QED
  BY <1>6, <1>12, <1>13 DEF S, q

LEMMA PairsSafe ==
    ASSUME subject \in Subjects
    PROVE  /\ Safe(_pairs)
           /\ \A t, u \in Has : t # u => \A W \in SUBSET {t, u} : Reveals(_pairs, View(W, Unsaid))
<1> DEFINE of(a, d) == _steps(<<Up(a), Up(d), Down(a), Down(d)>>)
                       \o _steps(<<Up(a), Up(d), Down(d), Down(a)>>)
                       \o Together(<<Up(a), Up(d)>>) \o <<Look, Act>>
                       \o Together(<<Down(a), Down(d)>>) \o <<Look, Act>>
           ps == SetToSeq(TrigPairs)
<1>1. PICK n \in Nat : /\ ps \in [1 .. n -> TrigPairs] /\ DOMAIN ps = 1 .. n
                       /\ \A x \in TrigPairs : \E i \in 1 .. n : ps[i] = x
  BY PairsEnumerated
<1> DEFINE seqs == [i \in 1 .. n |-> of(Trigs[ps[i][1]], Trigs[ps[i][2]])]
<1>2. _pairs = FlattenSeq(seqs)
  BY <1>1 DEF _pairs, Each
<1>3. \A a, d \in Has : a # d =>
          /\ Safe(of(a, d))
          /\ \A W : W = {a} \/ W = {a, d} \/ W = {d} \/ W = {} => Reveals(of(a, d), View(W, Unsaid))
  BY PairSafe
<1> HIDE DEF of, ps
<1>4. ASSUME NEW i \in 1 .. n
      PROVE  Trigs[ps[i][1]] \in Has /\ Trigs[ps[i][2]] \in Has /\ Trigs[ps[i][1]] # Trigs[ps[i][2]]
  <2>1. ps[i] \in TrigPairs
    BY <1>1
  <2>2. DOMAIN Trigs = 1 .. Len(Trigs)
    BY Triggers
  <2>3. ps[i][1] \in 1 .. Len(Trigs) /\ ps[i][2] \in 1 .. Len(Trigs) /\ ps[i][1] # ps[i][2]
    BY <2>1, <2>2 DEF TrigPairs
  <2>4. QED
    BY <2>3, Triggers DEF Has
<1>5. seqs = [i \in 1 .. n |-> seqs[i]] /\ \A i \in 1 .. n : seqs[i] = of(Trigs[ps[i][1]], Trigs[ps[i][2]])
  OBVIOUS
<1> HIDE DEF seqs
<1>6. \A i \in 1 .. n : Safe(seqs[i])
  BY <1>3, <1>4, <1>5
<1>7. /\ Safe(FlattenSeq(seqs))
      /\ \A S : \A i \in 1 .. n : Lasting(S) /\ Reveals(seqs[i], S) => Reveals(FlattenSeq(seqs), S)
  BY <1>5, <1>6, SafeAll
<1>8. ASSUME NEW t \in Has, NEW u \in Has, t # u, NEW W \in SUBSET {t, u}
      PROVE  Reveals(FlattenSeq(seqs), View(W, Unsaid))
  <2>1. DOMAIN Trigs = 1 .. Len(Trigs) /\ Len(Trigs) \in Nat
    BY Triggers
  <2>2. PICK i \in 1 .. Len(Trigs) : Trigs[i] = t
    BY <2>1, TrigAt
  <2>3. PICK j \in 1 .. Len(Trigs) : Trigs[j] = u
    BY <2>1, TrigAt
  <2>4. W = {t} \/ W = {t, u} \/ W = {u} \/ W = {}
    BY <1>8
  <2>5. i \in Nat /\ j \in Nat /\ i # j
    BY <1>8, <2>1, <2>2, <2>3
  <2>6. ASSUME NEW x \in 1 .. Len(Trigs), NEW y \in 1 .. Len(Trigs), x < y,
               W = {Trigs[x]} \/ W = {Trigs[x], Trigs[y]} \/ W = {Trigs[y]} \/ W = {}
        PROVE  Reveals(FlattenSeq(seqs), View(W, Unsaid))
    <3>1. <<x, y>> \in TrigPairs
      BY <2>1, <2>6 DEF TrigPairs
    <3>2. PICK m \in 1 .. n : ps[m] = <<x, y>>
      BY <1>1, <3>1
    <3>3. ps[m][1] = x /\ ps[m][2] = y
      BY <3>2
    <3>4. Reveals(seqs[m], View(W, Unsaid))
      <4>1. Trigs[x] \in Has /\ Trigs[y] \in Has /\ Trigs[x] # Trigs[y] /\ seqs[m] = of(Trigs[x], Trigs[y])
        BY <1>4, <1>5, <3>3
      <4>2. QED
        BY <1>3, <2>6, <4>1
    <3>5. QED
      BY <1>7, <3>4, ViewLasts
  <2>7. CASE i < j
    BY <2>2, <2>3, <2>4, <2>6, <2>7
  <2>8. CASE j < i
    <3>1. {t, u} = {u, t}
      OBVIOUS
    <3>2. QED
      BY <2>2, <2>3, <2>4, <2>6, <2>8, <3>1
  <2>9. QED
    BY <2>5, <2>7, <2>8
<1>9. QED
  BY <1>2, <1>7, <1>8

LEMMA WithAsyncSafe ==
    ASSUME subject \in Subjects
    PROVE  /\ Safe(_with_async)
           /\ ~ IsTrig("CLR") => \A t \in Has : \A W \in SUBSET {t}, w \in {0, 1} :
                                    Reveals(_with_async, View(W, Beside(w)))
<1> DEFINE with(t) == <<Cmd("pulse", "CLR", 1), Look, Up(t), Look,
                        Cmd("pulse", "CLR", 0), Look, Down(t), Look, Act>>
           seqs == [i \in 1 .. Len(Trigs) |-> with(Trigs[i])]
           all == [i \in 1 .. Len(asyncs) |-> FlattenSeq(seqs)]
<1>1. Len(Trigs) \in Nat /\ DOMAIN Trigs = 1 .. Len(Trigs)
  BY Triggers
<1>2. /\ Len(asyncs) \in Nat /\ DOMAIN asyncs = 1 .. Len(asyncs)
      /\ IF IsTrig("CLR") THEN Len(asyncs) = 0 ELSE 1 \in 1 .. Len(asyncs)
  <2>1. <<>> \in Seq({"CLR"}) /\ <<"CLR">> \in Seq({"CLR"}) /\ Len(<<>>) = 0 /\ Len(<<"CLR">>) = 1
    OBVIOUS
  <2>2. asyncs \in Seq({"CLR"}) /\ IF IsTrig("CLR") THEN Len(asyncs) = 0 ELSE Len(asyncs) = 1
    BY <2>1 DEF asyncs
  <2>3. QED
    BY <2>2
<1>3. _with_async = FlattenSeq(all)
  BY <1>1, <1>2 DEF _with_async, Each
<1>4. ~ IsTrig("CLR") => \A t \in Has : /\ Safe(with(t))
                                        /\ \A w \in {0, 1} : /\ Reveals(with(t), View({}, Beside(w)))
                                                             /\ Reveals(with(t), View({t}, Beside(w)))
  BY BesideSafe
<1> HIDE DEF with
<1>5. \A i \in 1 .. Len(Trigs) : Trigs[i] \in Has
  BY Triggers DEF Has
<1>6. seqs = [i \in 1 .. Len(Trigs) |-> seqs[i]] /\ \A i \in 1 .. Len(Trigs) : seqs[i] = with(Trigs[i])
  OBVIOUS
<1> HIDE DEF seqs
<1>7. all = [i \in 1 .. Len(asyncs) |-> all[i]] /\ \A i \in 1 .. Len(asyncs) : all[i] = FlattenSeq(seqs)
  OBVIOUS
<1> HIDE DEF all
<1>8. CASE IsTrig("CLR")
  <2>1. \A i \in 1 .. Len(asyncs) : Safe(all[i])
    BY <1>2, <1>8
  <2>2. QED
    BY <1>2, <1>3, <1>7, <1>8, <2>1, SafeAll
<1>9. CASE ~ IsTrig("CLR")
  <2>1. \A i \in 1 .. Len(Trigs) : Safe(seqs[i])
    BY <1>4, <1>5, <1>6, <1>9
  <2>2. /\ Safe(FlattenSeq(seqs))
        /\ \A S : \A i \in 1 .. Len(Trigs) : Lasting(S) /\ Reveals(seqs[i], S) => Reveals(FlattenSeq(seqs), S)
    BY <1>1, <1>6, <2>1, SafeAll
  <2>3. \A i \in 1 .. Len(asyncs) : Safe(all[i])
    BY <1>7, <2>2
  <2>4. /\ Safe(FlattenSeq(all))
        /\ \A S : \A i \in 1 .. Len(asyncs) : Lasting(S) /\ Reveals(all[i], S) => Reveals(FlattenSeq(all), S)
    BY <1>2, <1>7, <2>3, SafeAll
  <2>5. ASSUME NEW t \in Has, NEW W \in SUBSET {t}, NEW w \in {0, 1}
        PROVE  Reveals(FlattenSeq(all), View(W, Beside(w)))
    <3>1. PICK i \in 1 .. Len(Trigs) : Trigs[i] = t
      BY <1>1, TrigAt
    <3>2. W = {} \/ W = {t}
      OBVIOUS
    <3>3. Reveals(seqs[i], View(W, Beside(w)))
      BY <1>4, <1>6, <1>9, <3>1, <3>2
    <3>4. Reveals(all[1], View(W, Beside(w)))
      BY <1>2, <1>7, <1>9, <2>2, <3>3, ViewLasts
    <3>5. QED
      BY <1>2, <1>9, <2>4, <3>4, ViewLasts
  <2>6. QED
    BY <1>3, <2>4, <2>5
<1>10. QED
  BY <1>8, <1>9

LEMMA InputsSafe == Safe(_inputs)
<1> DEFINE cmds == <<Cmd("toggle", "", 0), Act>>
           seqs == [k \in 1 .. Rounds |-> cmds]
<1>1. Safe(cmds)
  BY ToggleSafe
<1>2. _inputs = IF subject.zcmp THEN FlattenSeq(seqs) ELSE <<>>
  BY DEF _inputs
<1> HIDE DEF cmds
<1>3. seqs = [k \in 1 .. Rounds |-> seqs[k]] /\ \A k \in 1 .. Rounds : Safe(seqs[k])
  BY <1>1
<1> HIDE DEF seqs
<1>4. Rounds \in Nat
  BY EquivStimulusAssumption
<1>5. Safe(FlattenSeq(seqs))
  BY <1>3, <1>4, SafeAll
<1>6. QED
  BY <1>2, <1>5, SafeNone

-----------------------------------------------------------------------------
(* What each phase shows, for the triggers T of a device with a clock or   *)
(* without one.                                                            *)

Glimpse(T, W, g) == Sights(LevelOf(W), BitsOf(T, W, g))
SaysOf(T, c, i) ==
    {ev \in Seq(BuilderEvents) :
        /\ i = 1 => ev \in Lookings
        /\ i = 2 => \A t \in T : \A W \in SUBSET {t} : ev \in Glimpse(T, W, Unsaid)
        /\ i = 3 /\ "D" \in T => \A f \in [DataPorts -> {0, 1}] : f["D1"] # f["D2"] => ev \in Sights(0, f)
        /\ i = 4 /\ c => \A t \in T \ {"C"}, v \in {0, 1} : ev \in Mets(t, v)
        /\ i = 5 => \A t, u \in T : t # u => \A W \in SUBSET {t, u} : ev \in Glimpse(T, W, Unsaid)
        /\ i = 6 /\ "CLR" \notin T =>
               \A t \in T : \A W \in SUBSET {t}, w \in {0, 1} : ev \in Glimpse(T, W, Beside(w))}

LEMMA ToldLasts == \A T, c, i : Lasting(SaysOf(T, c, i))
<1>1. ASSUME NEW T, NEW c, NEW i, NEW a \in SaysOf(T, c, i), NEW b, Longer(a, b)
      PROVE  b \in SaysOf(T, c, i)
  <2>1. \A S : Lasting(S) /\ a \in S => b \in S
    BY <1>1 DEF Lasting
  <2>2. Lasting(Lookings) /\ (\A l, f : Lasting(Sights(l, f))) /\ (\A t, v : Lasting(Mets(t, v)))
    BY SightsLast, MetsLast
  <2>3. /\ a \in Lookings => b \in Lookings
        /\ \A l, f : a \in Sights(l, f) => b \in Sights(l, f)
        /\ \A t, v : a \in Mets(t, v) => b \in Mets(t, v)
    BY <2>1, <2>2
  <2>4. \A W, g : a \in Glimpse(T, W, g) => b \in Glimpse(T, W, g)
    BY <2>3 DEF Glimpse
  <2>5. b \in Seq(BuilderEvents)
    BY <1>1 DEF Longer
  <2>6. QED
    BY <1>1, <2>3, <2>4, <2>5 DEF SaysOf
<1>2. QED
  BY <1>1 DEF Lasting

(* A phase, as a block: where it ends, and what it showed on the way.       *)
LEMMA StartTells ==
    LET cmds == <<Act, Act>> IN Safe(cmds) /\ Reveals(cmds, Lookings)
<1> DEFINE cmds == <<Act, Act>>
<1>1. cmds \in Seq(Commands) /\ \A s : Run(s, cmds) = Do(Do(s, Act), Act)
  <2>1. ASSUME NEW s, NEW x \in Commands PROVE <<x, x>> \in Seq(Commands) /\ Run(s, <<x, x>>) = Do(Do(s, x), x)
    BY RunTwo
  <2>2. QED
    BY <2>1, CommandsAre
<1> HIDE DEF cmds
<1>2. ASSUME NEW s, NEW k, OnAre(s, k, {})
      PROVE  OnAre(Run(s, cmds), k, {}) /\ Run(s, cmds).x.ev \in Lookings
  <2>1. OnAre(Do(s, Act), k, {})
    BY <1>2, ActNow
  <2>2. OnAre(Do(Do(s, Act), Act), k, {}) /\ Do(Do(s, Act), Act).x.ev \in Lookings
    BY <2>1, ActNow
  <2>3. QED
    BY <1>1, <2>2
<1>3. Safe(cmds) /\ Reveals(cmds, Lookings)
  BY <1>1, <1>2 DEF Safe, Reveals
<1>4. QED
  BY <1>3 DEF cmds

LEMMA PhaseTells ==
    ASSUME subject \in Subjects
    PROVE  /\ DOMAIN Phases = 1 .. 7 /\ Len(Phases) = 7
           /\ \A i \in 1 .. 7 : Safe(Phases[i]) /\ Reveals(Phases[i], SaysOf(Has, subject.clocked, i))
<1> DEFINE start == <<Act, Act>>
           told(i) == SaysOf(Has, subject.clocked, i)
<1>1. Safe(start) /\ Reveals(start, Lookings)
  BY StartTells
<1> HIDE DEF start
<1>2. Phases = <<start, _independent, _walk, _coincident, _pairs, _with_async, _inputs>>
  BY DEF Phases, start
<1>3. /\ DOMAIN Phases = 1 .. 7 /\ Len(Phases) = 7 /\ Phases[1] = start
      /\ Phases[2] = _independent /\ Phases[3] = _walk /\ Phases[4] = _coincident
      /\ Phases[5] = _pairs /\ Phases[6] = _with_async /\ Phases[7] = _inputs
  BY <1>2
<1>4. \A i \in 1 .. 7 : i = 1 \/ i = 2 \/ i = 3 \/ i = 4 \/ i = 5 \/ i = 6 \/ i = 7
  OBVIOUS
<1>5. /\ Safe(_independent) /\ Safe(_walk) /\ Safe(_coincident) /\ Safe(_pairs)
      /\ Safe(_with_async) /\ Safe(_inputs)
  BY IndependentSafe, WalkSafe, CoincidentAllSafe, PairsSafe, WithAsyncSafe, InputsSafe
<1>6. \A i \in 1 .. 7 : Safe(Phases[i])
  BY <1>1, <1>3, <1>4, <1>5
<1>7. ASSUME NEW s, NEW k, OnAre(s, k, {}), NEW i \in 1 .. 7
      PROVE  Run(s, Phases[i]).x.ev \in told(i)
  <2> DEFINE cmds == Phases[i]
             ev == Run(s, cmds).x.ev
  <2>1. OnAre(Run(s, cmds), k, {})
    BY <1>6, <1>7 DEF Safe
  <2>2. ev \in Seq(BuilderEvents)
    BY <2>1, CalmNow DEF OnAre, OnWith
  <2>3. \A S : Reveals(cmds, S) => ev \in S
    BY <1>7 DEF Reveals
  <2> HIDE DEF cmds, ev
  <2>4. /\ (1 = 2) = FALSE /\ (1 = 3) = FALSE /\ (1 = 4) = FALSE /\ (1 = 5) = FALSE /\ (1 = 6) = FALSE
    OBVIOUS
  <2>5. i = 1 => ev \in Lookings
    BY <1>1, <1>3, <2>3 DEF cmds
  <2>6. i = 2 => \A t \in Has : \A W \in SUBSET {t} : ev \in Glimpse(Has, W, Unsaid)
    <3>1. SUFFICES ASSUME i = 2, NEW t \in Has, NEW W \in SUBSET {t} PROVE ev \in View(W, Unsaid)
      BY DEF View, Glimpse
    <3>2. W = {} \/ W = {t}
      OBVIOUS
    <3>3. Reveals(_independent, View({}, Unsaid)) /\ Reveals(_independent, View({t}, Unsaid))
      BY <3>1, IndependentSafe
    <3>4. cmds = _independent
      BY <1>3, <3>1 DEF cmds
    <3>5. ev \in View({}, Unsaid) /\ ev \in View({t}, Unsaid)
      BY <2>3, <3>3, <3>4
    <3>6. QED
      BY <3>2, <3>5
  <2>7. i = 3 /\ "D" \in Has => \A f \in [DataPorts -> {0, 1}] : f["D1"] # f["D2"] => ev \in Sights(0, f)
    <3>1. SUFFICES ASSUME i = 3, "D" \in Has, NEW f \in [DataPorts -> {0, 1}], f["D1"] # f["D2"]
                   PROVE  ev \in Sights(0, f)
      OBVIOUS
    <3>2. Reveals(_walk, Sights(0, f))
      BY <3>1, WalkSafe DEF Has
    <3>3. cmds = _walk
      BY <1>3, <3>1 DEF cmds
    <3>4. QED
      BY <2>3, <3>2, <3>3
  <2>8. i = 4 /\ subject.clocked => \A t \in Has \ {"C"}, v \in {0, 1} : ev \in Mets(t, v)
    <3>1. SUFFICES ASSUME i = 4, subject.clocked, NEW t \in Has \ {"C"}, NEW v \in {0, 1}
                   PROVE  ev \in Mets(t, v)
      OBVIOUS
    <3>2. Reveals(_coincident, Mets(t, v))
      BY <3>1, CoincidentAllSafe
    <3>3. cmds = _coincident
      BY <1>3, <3>1 DEF cmds
    <3>4. QED
      BY <2>3, <3>2, <3>3
  <2>9. i = 5 => \A t, u \in Has : t # u => \A W \in SUBSET {t, u} : ev \in Glimpse(Has, W, Unsaid)
    <3>1. SUFFICES ASSUME i = 5, NEW t \in Has, NEW u \in Has, t # u, NEW W \in SUBSET {t, u}
                   PROVE  ev \in View(W, Unsaid)
      BY DEF View, Glimpse
    <3>2. Reveals(_pairs, View(W, Unsaid))
      BY <3>1, PairsSafe
    <3>3. cmds = _pairs
      BY <1>3, <3>1 DEF cmds
    <3>4. QED
      BY <2>3, <3>2, <3>3
  <2>10. i = 6 /\ "CLR" \notin Has =>
             \A t \in Has : \A W \in SUBSET {t}, w \in {0, 1} : ev \in Glimpse(Has, W, Beside(w))
    <3>1. SUFFICES ASSUME i = 6, "CLR" \notin Has, NEW t \in Has, NEW W \in SUBSET {t}, NEW w \in {0, 1}
                   PROVE  ev \in View(W, Beside(w))
      BY DEF View, Glimpse
    <3>2. ~ IsTrig("CLR")
      BY <3>1 DEF Has, TriggerNames
    <3>3. Reveals(_with_async, View(W, Beside(w)))
      BY <3>1, <3>2, WithAsyncSafe
    <3>4. cmds = _with_async
      BY <1>3, <3>1 DEF cmds
    <3>5. QED
      BY <2>3, <3>3, <3>4
  <2>11. ev \in SaysOf(Has, subject.clocked, i)
    BY <2>2, <2>5, <2>6, <2>7, <2>8, <2>9, <2>10 DEF SaysOf
  <2>12. QED
    BY <2>11 DEF ev, cmds
<1>8. \A i \in 1 .. 7 : Reveals(Phases[i], told(i))
  BY <1>7 DEF Reveals
<1>9. QED
  BY <1>3, <1>6, <1>8

-----------------------------------------------------------------------------
(* What a reader of the finished file computes, from what its events log.  *)

ValueAt(v, key, time) ==
    LET es == {e \in Events(v) : e.op = OpOf(key) /\ e.target = key /\ e.t <= time}
    IN IF es = {} THEN 0 ELSE (CHOOSE e \in es : \A o \in es : o.t <= e.t).value

(* The file of a builder's events: they, and the end.                      *)
Wraps(v, ev) ==
    /\ Whole(v) /\ ev \in Seq(BuilderEvents) /\ Twinless(ev)
    /\ Len(v.events) = Len(ev) + 1 /\ v.events[Len(ev) + 1].op = "end"
    /\ \A i \in 1 .. Len(ev) : v.events[i] = ev[i]

LEMMA WrappedIs ==
    ASSUME NEW v, NEW ev, Wraps(v, ev)
    PROVE  /\ Len(ev) \in Nat /\ Events(v) = {ev[i] : i \in 1 .. Len(ev)} \cup {v.events[Len(ev) + 1]}
           /\ \A i \in 1 .. Len(ev) : ev[i].t \in Nat
           /\ \A i, j \in 1 .. Len(ev) : i < j => ev[i].t <= ev[j].t
           /\ \A i, j \in 1 .. Len(ev) : i # j /\ ev[i].t = ev[j].t =>
                 /\ ev[i].op # "sample" /\ ev[j].op # "sample"
                 /\ ev[i].op = "set" /\ ev[j].op = "set" => ev[i].target # ev[j].target
<1> DEFINE s == v.events
           n == Len(ev)
<1>1. n \in Nat /\ DOMAIN s = 1 .. n + 1 /\ \A i \in 1 .. n : s[i] = ev[i]
  BY DEF Wraps, Whole
<1>2. Len(s) = n + 1 /\ Spread(s) /\ Meeting(s)
  BY DEF Wraps, Whole
<1>3. Gap \in Nat
  BY Numbers
<1>4. \A i \in 1 .. n : ev[i].t \in Nat
  <2>1. ev \in Seq(BuilderEvents)
    BY DEF Wraps
  <2>2. \A i \in 1 .. n : ev[i] \in BuilderEvents
    BY <2>1
  <2>3. QED
    BY <2>2 DEF BuilderEvents
<1>5. \A i \in 1 .. n : i \in 1 .. n + 1
  BY <1>1
<1> HIDE DEF s, n
<1>6. \A i, j \in 1 .. n : i < j => ev[i].t <= ev[j].t
  <2>1. SUFFICES ASSUME NEW i \in 1 .. n, NEW j \in 1 .. n, i < j PROVE ev[i].t <= ev[j].t
    OBVIOUS
  <2>2. ev[i].t = ev[j].t \/ ev[i].t + Gap <= ev[j].t
    BY <1>1, <1>2, <1>5, <2>1 DEF Spread
  <2>3. QED
    BY <1>3, <1>4, <2>2
<1>7. \A i, j \in 1 .. n : i # j /\ ev[i].t = ev[j].t => Meets(ev[i], ev[j])
  BY <1>1, <1>2, <1>5 DEF Meeting
<1>8. Events(v) = {ev[i] : i \in 1 .. n} \cup {s[n + 1]}
  <2>1. Events(v) = {s[i] : i \in 1 .. n + 1}
    BY <1>1 DEF Events, s
  <2>2. 1 .. n + 1 = 1 .. n \cup {n + 1}
    BY <1>1
  <2>3. QED
    BY <1>1, <2>1, <2>2
<1>9. QED
  BY <1>1, <1>4, <1>6, <1>7, <1>8 DEF Meets, MayMeet, n, s

(* An input has one event at a time.                                       *)
LEMMA OneHit ==
    ASSUME NEW v, NEW ev, Wraps(v, ev), NEW key,
           NEW i \in 1 .. Len(ev), NEW j \in 1 .. Len(ev), i < j, Hits(ev[i], key), Hits(ev[j], key)
    PROVE  ev[i].t < ev[j].t
<1>1. ev[i].t \in Nat /\ ev[j].t \in Nat /\ ev[i].t <= ev[j].t
  BY WrappedIs
<1>2. ev[i].t # ev[j].t
  <2>1. SUFFICES ASSUME ev[i].t = ev[j].t PROVE FALSE
    OBVIOUS
  <2>2. i # j /\ ev[i].op = ev[j].op /\ ev[i].target = ev[j].target
    <3>1. i # j
      BY WrappedIs
    <3>2. QED
      BY <3>1 DEF Hits
  <2>3. ev[i].op \in {"glbl", "edge", "set"}
    BY DEF Hits, OpOf
  <2>4. ev[i].op # "set"
    BY <2>1, <2>2, WrappedIs
  <2>5. Alike(ev[i], ev[j])
    BY <2>2, <2>3, <2>4 DEF Alike
  <2>6. QED
    BY <2>1, <2>5 DEF Wraps, Twinless
<1>3. QED
  BY <1>1, <1>2

LEMMA ValueIs ==
    ASSUME NEW v, NEW ev, Wraps(v, ev), NEW n \in 0 .. Len(ev), NEW time, NEW key,
           \A i \in 1 .. Len(ev) : Hits(ev[i], key) => (ev[i].t <= time <=> i <= n),
           NEW b, LogIs(ev, n, key, b)
    PROVE  ValueAt(v, key, time) = b
<1> DEFINE es == {e \in Events(v) : e.op = OpOf(key) /\ e.target = key /\ e.t <= time}
<1>1. Len(ev) \in Nat /\ n \in Nat /\ \A i \in 1 .. n : i \in 1 .. Len(ev)
  BY WrappedIs
<1>2. es = {ev[i] : i \in {j \in 1 .. n : Hits(ev[j], key)}}
  <2>1. \A e : e \in Events(v) <=> e = v.events[Len(ev) + 1] \/ \E i \in 1 .. Len(ev) : e = ev[i]
    BY WrappedIs
  <2>2. v.events[Len(ev) + 1].op # OpOf(key)
    BY DEF Wraps, OpOf
  <2>3. ASSUME NEW e \in es PROVE \E i \in 1 .. n : Hits(ev[i], key) /\ e = ev[i]
    <3>1. PICK i \in 1 .. Len(ev) : e = ev[i]
      BY <2>1, <2>2
    <3>2. Hits(ev[i], key) /\ ev[i].t <= time
      BY <3>1 DEF Hits
    <3>3. i <= n
      BY <3>2
    <3>4. i \in 1 .. n
      BY <1>1, <3>3
    <3>5. QED
      BY <3>1, <3>2, <3>4
  <2>4. ASSUME NEW i \in 1 .. n, Hits(ev[i], key) PROVE ev[i] \in es
    <3>1. i \in 1 .. Len(ev) /\ i <= n
      BY <1>1
    <3>2. ev[i].t <= time
      BY <2>4, <3>1
    <3>3. QED
      BY <2>1, <2>4, <3>1, <3>2 DEF Hits
  <2> HIDE DEF es
  <2>5. QED
    BY <2>3, <2>4
<1>3. ValueAt(v, key, time) = IF es = {} THEN 0 ELSE (CHOOSE e \in es : \A o \in es : o.t <= e.t).value
  BY DEF ValueAt
<1> HIDE DEF es
<1>4. CASE b = 0 /\ \A i \in 1 .. n : ~ Hits(ev[i], key)
  <2>1. es = {}
    BY <1>2, <1>4
  <2>2. QED
    BY <1>3, <1>4, <2>1
<1>5. CASE \E i \in 1 .. n : /\ Hits(ev[i], key) /\ ev[i].value = b
                             /\ \A j \in 1 .. n : j > i => ~ Hits(ev[j], key)
  <2>1. PICK i \in 1 .. n : /\ Hits(ev[i], key) /\ ev[i].value = b
                            /\ \A j \in 1 .. n : j > i => ~ Hits(ev[j], key)
    BY <1>5
  <2>2. \A j \in 1 .. n : Hits(ev[j], key) => j = i \/ (j < i /\ ev[j].t < ev[i].t)
    <3>1. SUFFICES ASSUME NEW j \in 1 .. n, Hits(ev[j], key), j # i PROVE j < i /\ ev[j].t < ev[i].t
      OBVIOUS
    <3>2. ~ (j > i)
      BY <2>1, <3>1
    <3>3. j < i
      BY <1>1, <3>1, <3>2
    <3>4. i \in 1 .. Len(ev) /\ j \in 1 .. Len(ev)
      BY <1>1
    <3>5. QED
      BY <2>1, <3>1, <3>3, <3>4, OneHit
  <2>3. \A j \in 1 .. n : ev[j].t \in Nat
    BY <1>1, WrappedIs
  <2>4. ev[i] \in es /\ \A o \in es : o.t <= ev[i].t
    <3>1. ev[i] \in es
      BY <1>2, <2>1
    <3>2. ASSUME NEW o \in es PROVE o.t <= ev[i].t
      <4>1. PICK j \in 1 .. n : Hits(ev[j], key) /\ o = ev[j]
        BY <1>2
      <4>2. j = i \/ ev[j].t < ev[i].t
        BY <2>2, <4>1
      <4>3. QED
        BY <2>3, <4>1, <4>2
    <3>3. QED
      BY <3>1, <3>2
  <2> DEFINE c == CHOOSE e \in es : \A o \in es : o.t <= e.t
  <2>5. c \in es /\ \A o \in es : o.t <= c.t
    BY <2>4
  <2> HIDE DEF c
  <2>6. PICK j \in 1 .. n : Hits(ev[j], key) /\ c = ev[j]
    BY <1>2, <2>5
  <2>7. ev[i].t <= ev[j].t
    BY <2>4, <2>5, <2>6
  <2>8. ~ (ev[j].t < ev[i].t)
    BY <2>3, <2>7
  <2>9. j = i
    BY <2>2, <2>6, <2>8
  <2>10. c.value = b /\ es # {}
    BY <2>1, <2>4, <2>6, <2>9
  <2>11. QED
    BY <1>3, <2>10 DEF c
<1>6. QED
  BY <1>4, <1>5 DEF LogIs

(* A sample is alone at its time.                                          *)
LEMMA SightShows ==
    ASSUME NEW v, NEW ev, Wraps(v, ev), NEW l, NEW f, ev \in Sights(l, f)
    PROVE  \E e \in Events(v) : /\ e.op = "sample" /\ ValueAt(v, "C", e.t) = l
                                /\ \A p \in DOMAIN f : ValueAt(v, p, e.t) = f[p]
<1>1. PICK i \in 1 .. Len(ev) :
          ev[i].op = "sample" /\ LogIs(ev, i, "C", l) /\ \A p \in DOMAIN f : LogIs(ev, i, p, f[p])
  BY DEF Sights
<1>2. Len(ev) \in Nat /\ i \in 0 .. Len(ev) /\ ev[i] \in Events(v)
  BY WrappedIs
<1>3. ASSUME NEW key, NEW j \in 1 .. Len(ev), Hits(ev[j], key) PROVE ev[j].t <= ev[i].t <=> j <= i
  <2>1. j # i
    BY <1>1, <1>3 DEF Hits, OpOf
  <2>2. ev[j].t # ev[i].t /\ ev[j].t \in Nat /\ ev[i].t \in Nat
    BY <1>1, <2>1, WrappedIs
  <2>3. (j < i => ev[j].t <= ev[i].t) /\ (i < j => ev[i].t <= ev[j].t)
    BY WrappedIs
  <2>4. j < i \/ i < j
    BY <1>2, <2>1
  <2>5. QED
    BY <1>2, <2>1, <2>2, <2>3, <2>4
<1>4. ASSUME NEW key, NEW b, LogIs(ev, i, key, b) PROVE ValueAt(v, key, ev[i].t) = b
  BY <1>2, <1>3, <1>4, ValueIs
<1>5. QED
  BY <1>1, <1>2, <1>4

LEMMA LogChange ==
    ASSUME NEW ev, NEW m \in Nat, NEW n \in Nat, m < n, NEW key, NEW a, NEW b, a # b,
           LogIs(ev, m, key, a), LogIs(ev, n, key, b)
    PROVE  \E h \in m + 1 .. n : Hits(ev[h], key)
<1>1. SUFFICES ASSUME \A h \in m + 1 .. n : ~ Hits(ev[h], key) PROVE FALSE
  OBVIOUS
<1>2. \A h \in 1 .. n : h \in 1 .. m \/ h \in m + 1 .. n
  OBVIOUS
<1>3. \A h \in 1 .. m : h \in 1 .. n
  OBVIOUS
<1>4. \A h \in 1 .. n : Hits(ev[h], key) => h \in 1 .. m
  BY <1>1, <1>2
<1>5. CASE b = 0 /\ \A i \in 1 .. n : ~ Hits(ev[i], key)
  BY <1>3, <1>5 DEF LogIs
<1>6. CASE \E i \in 1 .. n : /\ Hits(ev[i], key) /\ ev[i].value = b
                             /\ \A j \in 1 .. n : j > i => ~ Hits(ev[j], key)
  <2>1. PICK i \in 1 .. n : /\ Hits(ev[i], key) /\ ev[i].value = b
                            /\ \A j \in 1 .. n : j > i => ~ Hits(ev[j], key)
    BY <1>6
  <2>2. PICK j \in 1 .. m : /\ Hits(ev[j], key) /\ ev[j].value = a
                            /\ \A k \in 1 .. m : k > j => ~ Hits(ev[k], key)
    BY <1>4, <2>1 DEF LogIs
  <2>3. ~ (j > i) /\ ~ (i > j)
    BY <1>3, <1>4, <2>1, <2>2
  <2>4. i = j
    BY <2>3
  <2>5. QED
    BY <2>1, <2>2, <2>4
<1>7. QED
  BY <1>5, <1>6 DEF LogIs

LEMMA MetShows ==
    ASSUME NEW v, NEW ev, Wraps(v, ev), NEW t, NEW b \in {0, 1}, ev \in Mets(t, b)
    PROVE  \E e \in Events(v) : /\ e.op = "edge" /\ e.value = 1
                                /\ \A p \in KeysOf(t) : ValueAt(v, p, e.t) = b /\ ValueAt(v, p, e.t - 1) = 1 - b
<1>1. PICK m \in 0 .. Len(ev), n \in 0 .. Len(ev) :
          /\ m < n /\ \A i \in m + 1 .. n : ev[i].t = ev[n].t
          /\ \E i \in m + 1 .. n : ev[i].op = "edge" /\ ev[i].value = 1
          /\ \A p \in KeysOf(t) : LogIs(ev, m, p, 1 - b) /\ LogIs(ev, n, p, b)
  BY DEF Mets
<1>2. Len(ev) \in Nat /\ m \in Nat /\ n \in Nat /\ m < n /\ 1 - b # b /\ \A i \in m + 1 .. n : i \in 1 .. Len(ev)
  BY <1>1, WrappedIs
<1>3. PICK x \in m + 1 .. n : ev[x].op = "edge" /\ ev[x].value = 1
  BY <1>1
<1> DEFINE r == ev[n].t
<1>4. ev[x] \in Events(v) /\ ev[x].t = r /\ r \in Nat
  <2>1. x \in 1 .. Len(ev) /\ n \in 1 .. Len(ev)
    BY <1>1, <1>2
  <2>2. QED
    BY <1>1, <2>1, WrappedIs
<1>5. \A i \in m + 1 .. n : ev[i].t = r
  BY <1>1
<1> HIDE DEF r
<1>6. ASSUME NEW p \in KeysOf(t) PROVE ValueAt(v, p, r) = b /\ ValueAt(v, p, r - 1) = 1 - b
  <2>1. LogIs(ev, m, p, 1 - b) /\ LogIs(ev, n, p, b)
    BY <1>1
  <2>2. PICK h \in m + 1 .. n : Hits(ev[h], p)
    BY <1>2, <2>1, LogChange
  <2>3. h \in 1 .. Len(ev) /\ ev[h].t = r
    BY <1>2, <1>5
  <2>4. ASSUME NEW j \in 1 .. Len(ev), Hits(ev[j], p)
        PROVE  (ev[j].t <= r <=> j <= n) /\ (ev[j].t <= r - 1 <=> j <= m)
    <3>1. ev[j].t \in Nat
      BY WrappedIs
    <3>2. CASE j < h
      <4>1. ev[j].t < r
        BY <2>2, <2>3, <2>4, <3>2, OneHit
      <4>2. j \notin m + 1 .. n
        BY <1>4, <1>5, <3>1, <4>1
      <4>3. QED
        BY <1>2, <1>4, <3>1, <3>2, <4>1, <4>2
    <3>3. CASE j = h
      BY <1>2, <1>4, <2>3, <3>3
    <3>4. CASE h < j
      <4>1. r < ev[j].t
        BY <2>2, <2>3, <2>4, <3>4, OneHit
      <4>2. j \notin m + 1 .. n
        BY <1>4, <1>5, <3>1, <4>1
      <4>3. QED
        BY <1>2, <1>4, <3>1, <3>4, <4>1, <4>2
    <3>5. QED
      BY <1>2, <3>2, <3>3, <3>4
  <2>5. ValueAt(v, p, r) = b
    BY <1>1, <2>1, <2>4, ValueIs
  <2>6. ValueAt(v, p, r - 1) = 1 - b
    BY <1>1, <2>1, <2>4, ValueIs
  <2>7. QED
    BY <2>5, <2>6
<1>7. QED
  BY <1>3, <1>4, <1>6

-----------------------------------------------------------------------------
(* EveryTriggerIsShown, of any file and any triggers.                       *)

Full(t, a) == IF t = "D" THEN 3 * a ELSE a
LevelIn(v, t, time) ==
    CASE t = "GSR" -> ValueAt(v, "GSR", time)
      [] t = "C" -> ValueAt(v, "C", time)
      [] t = "CLR" -> ValueAt(v, "CLR", time)
      [] t = "D" -> 2 * ValueAt(v, "D2", time) + ValueAt(v, "D1", time)

Displays(v, T, c) ==
    /\ \A t \in T : \A u \in (T \cup {"CLR"}) \ {t} : \A a, b \in {0, 1} : \E e \in Events(v) :
          e.op = "sample" /\ LevelIn(v, t, e.t) = Full(t, a) /\ LevelIn(v, u, e.t) = Full(u, b)
    /\ "D" \in T => \A a \in 0 .. 3 : \E e \in Events(v) : e.op = "sample" /\ LevelIn(v, "D", e.t) = a
    /\ c => \A t \in T \ {"C"}, a \in {0, 1} : \E e \in Events(v) :
          /\ e.op = "edge" /\ e.value = 1
          /\ LevelIn(v, t, e.t) = Full(t, a) /\ LevelIn(v, t, e.t - 1) = Full(t, 1 - a)

LEMMA LevelIs == \A t \in TriggerNames : \A time : Level(t, time) = LevelIn(vec, t, time)
<1>1. SUFFICES ASSUME NEW t \in TriggerNames, NEW time PROVE Level(t, time) = LevelIn(vec, t, time)
  OBVIOUS
<1> DEFINE last(target, op) ==
               LET es == {e \in Events(vec) : e.op = op /\ e.target = target /\ e.t <= time}
               IN IF es = {} THEN 0 ELSE (CHOOSE e \in es : \A o \in es : o.t <= e.t).value
<1>2. Level(t, time) =
          CASE t = "GSR" -> last("GSR", "glbl")
            [] t = "C" -> last("C", "edge")
            [] t = "CLR" -> last("CLR", "set")
            [] t = "D" -> 2 * last("D2", "set") + last("D1", "set")
  BY DEF Level
<1>3. \A key : ValueAt(vec, key, time) = last(key, OpOf(key))
  BY DEF ValueAt
<1> HIDE DEF last
<1>4. /\ OpOf("GSR") = "glbl" /\ OpOf("C") = "edge" /\ OpOf("CLR") = "set"
      /\ OpOf("D1") = "set" /\ OpOf("D2") = "set"
  BY DEF OpOf
<1>5. /\ last("GSR", "glbl") = ValueAt(vec, "GSR", time) /\ last("C", "edge") = ValueAt(vec, "C", time)
      /\ last("CLR", "set") = ValueAt(vec, "CLR", time)
      /\ last("D1", "set") = ValueAt(vec, "D1", time) /\ last("D2", "set") = ValueAt(vec, "D2", time)
  BY <1>3, <1>4
<1>6. QED
  BY <1>2, <1>5 DEF LevelIn

LEMMA KeysAll ==
    /\ "GSR" \in KeysOf("GSR") /\ "CLR" \in KeysOf("CLR") /\ "D1" \in KeysOf("D") /\ "D2" \in KeysOf("D")
    /\ \A t, p : p \in KeysOf(t) <=> p \in Keys /\ TrigOf(p) = t
BY DEF KeysOf, Keys, TrigOf, Ports, DataPorts, AsyncPorts

LEMMA LevelKeys ==
    ASSUME NEW v, NEW t \in TriggerNames, t # "C", NEW time, NEW a \in {0, 1},
           \A p \in KeysOf(t) : ValueAt(v, p, time) = a
    PROVE  LevelIn(v, t, time) = Full(t, a)
<1>1. t = "GSR" \/ t = "CLR" \/ t = "D"
  BY DEF TriggerNames
<1>2. CASE t = "GSR"
  BY <1>2, KeysAll DEF LevelIn, Full
<1>3. CASE t = "CLR"
  BY <1>3, KeysAll DEF LevelIn, Full
<1>4. CASE t = "D"
  <2>1. ValueAt(v, "D2", time) = a /\ ValueAt(v, "D1", time) = a
    BY <1>4, KeysAll
  <2>2. LevelIn(v, t, time) = 2 * a + a /\ Full(t, a) = 3 * a
    BY <1>4, <2>1 DEF LevelIn, Full
  <2>3. 2 * a + a = 3 * a
    OBVIOUS
  <2>4. QED
    BY <2>2, <2>3
<1>5. QED
  BY <1>1, <1>2, <1>3, <1>4

LEMMA GlimpseShows ==
    ASSUME NEW v, NEW ev, Wraps(v, ev), NEW T \in SUBSET TriggerNames, NEW W, NEW g, ev \in Glimpse(T, W, g)
    PROVE  \E e \in Events(v) :
               /\ e.op = "sample"
               /\ \A t \in T : LevelIn(v, t, e.t) = Full(t, IF t \in W THEN 1 ELSE 0)
               /\ \A p \in DOMAIN g : p \notin Known(T) => ValueAt(v, p, e.t) = g[p]
<1> DEFINE f == BitsOf(T, W, g)
           l == LevelOf(W)
<1>1. \A p \in Known(T) : p \in DOMAIN f /\ f[p] = IF TrigOf(p) \in W THEN 1 ELSE 0
  BY DEF BitsOf
<1>2. \A p \in DOMAIN g : p \in DOMAIN f /\ (p \notin Known(T) => f[p] = g[p])
  BY DEF BitsOf
<1>3. ev \in Sights(l, f)
  BY DEF Glimpse
<1> HIDE DEF f, l
<1>4. PICK e \in Events(v) : /\ e.op = "sample" /\ ValueAt(v, "C", e.t) = l
                             /\ \A p \in DOMAIN f : ValueAt(v, p, e.t) = f[p]
  BY <1>3, SightShows
<1>5. ASSUME NEW t \in T PROVE LevelIn(v, t, e.t) = Full(t, IF t \in W THEN 1 ELSE 0)
  <2> DEFINE a == IF t \in W THEN 1 ELSE 0
  <2>1. CASE t = "C"
    <3>1. l = a
      BY <2>1 DEF l, LevelOf
    <3>2. LevelIn(v, t, e.t) = l
      BY <1>4, <2>1 DEF LevelIn
    <3>3. Full(t, a) = a
      BY <2>1 DEF Full
    <3>4. QED
      BY <3>1, <3>2, <3>3
  <2>2. CASE t # "C"
    <3>1. ASSUME NEW p \in KeysOf(t) PROVE ValueAt(v, p, e.t) = a
      <4>1. p \in Known(T) /\ TrigOf(p) = t
        BY KeysAll DEF Known
      <4>2. QED
        BY <1>1, <1>4, <4>1
    <3>2. a \in {0, 1} /\ t \in TriggerNames
      OBVIOUS
    <3> HIDE DEF a
    <3>3. LevelIn(v, t, e.t) = Full(t, a)
      BY <2>2, <3>1, <3>2, LevelKeys
    <3>4. QED
      BY <3>3 DEF a
  <2>3. QED
    BY <2>1, <2>2
<1>6. \A p \in DOMAIN g : p \notin Known(T) => ValueAt(v, p, e.t) = g[p]
  BY <1>2, <1>4
<1>7. QED
  BY <1>4, <1>5, <1>6

(* The phases have shown it all.                                           *)
LEMMA ToldDisplays ==
    ASSUME NEW v, NEW ev, Wraps(v, ev), NEW T \in SUBSET TriggerNames, NEW c,
           \A i \in 1 .. 7 : ev \in SaysOf(T, c, i)
    PROVE  Displays(v, T, c)
<1>1. /\ \A t \in T : \A W \in SUBSET {t} : ev \in Glimpse(T, W, Unsaid)
      /\ "D" \in T => \A f \in [DataPorts -> {0, 1}] : f["D1"] # f["D2"] => ev \in Sights(0, f)
      /\ c => \A t \in T \ {"C"}, b \in {0, 1} : ev \in Mets(t, b)
      /\ \A t, u \in T : t # u => \A W \in SUBSET {t, u} : ev \in Glimpse(T, W, Unsaid)
      /\ "CLR" \notin T => \A t \in T : \A W \in SUBSET {t}, w \in {0, 1} : ev \in Glimpse(T, W, Beside(w))
  <2>1. ev \in SaysOf(T, c, 2) /\ ev \in SaysOf(T, c, 3) /\ ev \in SaysOf(T, c, 4) /\ ev \in SaysOf(T, c, 5)
        /\ ev \in SaysOf(T, c, 6)
    OBVIOUS
  <2>2. QED
    BY <2>1 DEF SaysOf
<1>2. \A W, g : ev \in Glimpse(T, W, g) => \E e \in Events(v) :
          /\ e.op = "sample"
          /\ \A t \in T : LevelIn(v, t, e.t) = Full(t, IF t \in W THEN 1 ELSE 0)
          /\ \A p \in DOMAIN g : p \notin Known(T) => ValueAt(v, p, e.t) = g[p]
  BY GlimpseShows
<1>3. ASSUME NEW t \in T, NEW u \in (T \cup {"CLR"}) \ {t}, NEW a \in {0, 1}, NEW b \in {0, 1}
      PROVE  \E e \in Events(v) :
                 e.op = "sample" /\ LevelIn(v, t, e.t) = Full(t, a) /\ LevelIn(v, u, e.t) = Full(u, b)
  <2>1. CASE u \in T
    <3> DEFINE W == {x \in {t, u} : (x = t /\ a = 1) \/ (x = u /\ b = 1)}
    <3>1. W \in SUBSET {t, u} /\ t # u
      OBVIOUS
    <3>2. a = (IF t \in W THEN 1 ELSE 0) /\ b = (IF u \in W THEN 1 ELSE 0)
      OBVIOUS
    <3> HIDE DEF W
    <3>3. ev \in Glimpse(T, W, Unsaid)
      BY <1>1, <2>1, <3>1
    <3>4. PICK e \in Events(v) :
              e.op = "sample" /\ \A x \in T : LevelIn(v, x, e.t) = Full(x, IF x \in W THEN 1 ELSE 0)
      BY <1>2, <3>3
    <3>5. LevelIn(v, t, e.t) = Full(t, a) /\ LevelIn(v, u, e.t) = Full(u, b)
      BY <2>1, <3>2, <3>4
    <3>6. QED
      BY <3>4, <3>5
  <2>2. CASE u \notin T
    <3> DEFINE W == {x \in {t} : a = 1}
    <3>1. u = "CLR" /\ "CLR" \notin T
      BY <2>2
    <3>2. W \in SUBSET {t} /\ a = (IF t \in W THEN 1 ELSE 0)
      OBVIOUS
    <3> HIDE DEF W
    <3>3. ev \in Glimpse(T, W, Beside(b))
      BY <1>1, <3>1, <3>2
    <3>4. PICK e \in Events(v) :
              /\ e.op = "sample" /\ \A x \in T : LevelIn(v, x, e.t) = Full(x, IF x \in W THEN 1 ELSE 0)
              /\ \A p \in DOMAIN Beside(b) : p \notin Known(T) => ValueAt(v, p, e.t) = Beside(b)[p]
      BY <1>2, <3>3
    <3>5. LevelIn(v, t, e.t) = Full(t, a)
      BY <3>2, <3>4
    <3>6. "CLR" \notin Known(T)
      BY <3>1, KeysAll DEF Known
    <3>7. "CLR" \in DOMAIN Beside(b) /\ Beside(b)["CLR"] = b
      BY DEF Beside, AllAt
    <3>8. ValueAt(v, "CLR", e.t) = b
      BY <3>4, <3>6, <3>7
    <3>9. LevelIn(v, u, e.t) = Full(u, b)
      BY <3>1, <3>8 DEF LevelIn, Full
    <3>10. QED
      BY <3>4, <3>5, <3>9
  <2>3. QED
    BY <2>1, <2>2
<1>4. ASSUME "D" \in T, NEW a \in 0 .. 3
      PROVE  \E e \in Events(v) : e.op = "sample" /\ LevelIn(v, "D", e.t) = a
  <2>1. a = 0 \/ a = 1 \/ a = 2 \/ a = 3
    OBVIOUS
  <2>2. ASSUME NEW W \in SUBSET {"D"}
        PROVE  \E e \in Events(v) :
                   e.op = "sample" /\ LevelIn(v, "D", e.t) = Full("D", IF "D" \in W THEN 1 ELSE 0)
    <3>1. ev \in Glimpse(T, W, Unsaid)
      BY <1>1, <1>4
    <3>2. PICK e \in Events(v) :
              e.op = "sample" /\ \A x \in T : LevelIn(v, x, e.t) = Full(x, IF x \in W THEN 1 ELSE 0)
      BY <1>2, <3>1
    <3>3. QED
      BY <1>4, <3>2
  <2>3. Full("D", 0) = 0 /\ Full("D", 1) = 3
    BY DEF Full
  <2>4. CASE a = 0
    <3>1. {} \in SUBSET {"D"} /\ "D" \notin {}
      OBVIOUS
    <3>2. QED
      BY <2>2, <2>3, <2>4, <3>1
  <2>5. CASE a = 3
    <3>1. {"D"} \in SUBSET {"D"} /\ "D" \in {"D"}
      OBVIOUS
    <3>2. QED
      BY <2>2, <2>3, <2>5, <3>1
  <2>6. CASE a = 1 \/ a = 2
    <3> DEFINE f == [p \in DataPorts |-> IF (p = "D1") = (a = 1) THEN 1 ELSE 0]
    <3>1. f \in [DataPorts -> {0, 1}]
      OBVIOUS
    <3>2. DOMAIN f = {"D1", "D2"} /\ f["D1"] = (IF a = 1 THEN 1 ELSE 0) /\ f["D2"] = IF a = 1 THEN 0 ELSE 1
      BY DEF DataPorts
    <3> HIDE DEF f
    <3>3. ev \in Sights(0, f)
      BY <1>1, <1>4, <3>1, <3>2
    <3>4. PICK e \in Events(v) : e.op = "sample" /\ \A p \in DOMAIN f : ValueAt(v, p, e.t) = f[p]
      BY <3>3, SightShows
    <3>5. ValueAt(v, "D1", e.t) = (IF a = 1 THEN 1 ELSE 0) /\ ValueAt(v, "D2", e.t) = IF a = 1 THEN 0 ELSE 1
      BY <3>2, <3>4
    <3>6. LevelIn(v, "D", e.t) = 2 * ValueAt(v, "D2", e.t) + ValueAt(v, "D1", e.t)
      BY DEF LevelIn
    <3>7. LevelIn(v, "D", e.t) = a
      BY <2>6, <3>5, <3>6
    <3>8. QED
      BY <3>4, <3>7
  <2>7. QED
    BY <2>1, <2>4, <2>5, <2>6
<1>5. ASSUME c, NEW t \in T \ {"C"}, NEW a \in {0, 1}
      PROVE  \E e \in Events(v) :
                 /\ e.op = "edge" /\ e.value = 1
                 /\ LevelIn(v, t, e.t) = Full(t, a) /\ LevelIn(v, t, e.t - 1) = Full(t, 1 - a)
  <2>1. ev \in Mets(t, a)
    BY <1>1, <1>5
  <2>2. PICK e \in Events(v) :
            /\ e.op = "edge" /\ e.value = 1
            /\ \A p \in KeysOf(t) : ValueAt(v, p, e.t) = a /\ ValueAt(v, p, e.t - 1) = 1 - a
    BY <2>1, MetShows
  <2>3. t \in TriggerNames /\ t # "C" /\ 1 - a \in {0, 1}
    OBVIOUS
  <2>4. LevelIn(v, t, e.t) = Full(t, a)
    BY <2>2, <2>3, LevelKeys
  <2>5. \A time : (\A p \in KeysOf(t) : ValueAt(v, p, time) = 1 - a) => LevelIn(v, t, time) = Full(t, 1 - a)
    BY <2>3, LevelKeys
  <2>6. LevelIn(v, t, e.t - 1) = Full(t, 1 - a)
    BY <2>2, <2>5
  <2>7. QED
    BY <2>2, <2>4, <2>6
<1>6. QED
  BY <1>3, <1>4, <1>5 DEF Displays

-----------------------------------------------------------------------------
(* The inductive invariant: between two phases nothing is driven, the clock *)
(* is low, the triggers are zero, and the events show what the phases that *)
(* are over are there to show; in the end, the file shows it all.           *)

Between == [x |-> builder, on |-> on, ok |-> TRUE]
EquivInv ==
    /\ stage # "raised"
    /\ stage = "equiv" =>
          /\ StartsClear
          /\ subject \in Subjects /\ phase \in 1 .. 8 /\ OnAre(Between, <<>>, {})
          /\ \A i \in 1 .. 7 : i < phase => builder.ev \in SaysOf(Has, subject.clocked, i)
    /\ stage = "equiv_built" => subject \in Subjects /\ Displays(vec, Has, subject.clocked)

LEMMA EquivStarts == EInit => EquivInv
<1>1. SUFFICES ASSUME EInit PROVE EquivInv
  OBVIOUS
<1>2. CASE stage # "equiv"
  <2>1. stage # "raised" /\ stage # "equiv_built"
    BY <1>1, <1>2 DEF EInit, StimulusInit
  <2>2. QED
    BY <1>2, <2>1 DEF EquivInv
<1>3. CASE stage = "equiv"
  <2>1. /\ builder = NewBuilder /\ phase = 1 /\ on = {} /\ subject \in Subjects
        /\ StartsClear
    BY <1>1, <1>3 DEF EInit, StimulusInit
  <2>2. Ready(builder) /\ ~ InSim(builder)
    BY <2>1, StartsSound DEF Ready
  <2>3. Dated(builder)
    <3>1. Settle \in Nat
      BY Numbers
    <3>2. builder.at = -1 /\ builder.change = 0 /\ builder.t = Settle
      BY <2>1 DEF NewBuilder
    <3>3. QED
      BY <3>1, <3>2 DEF Dated
  <2>4. builder.level = 0 /\ builder.ev = <<>> /\ \A p \in Ports : builder.vals[p] = 0
    BY <2>1 DEF NewBuilder
  <2>5. \A key : Tally(builder, key, 0)
    <3>1. Len(builder.ev) = 0 /\ \A i \in 1 .. 0 : FALSE
      BY <2>4
    <3>2. QED
      BY <3>1 DEF Tally, LogIs
  <2>6. Tallied(builder) /\ Twinless(builder.ev) /\ Extends(<<>>, builder.ev)
    BY <2>4, <2>5 DEF Tallied, Twinless, Extends
  <2>7. Between.x = builder /\ Between.on = {} /\ Between.ok
    BY <2>1 DEF Between
  <2> DEFINE f == BitsOf(Has, {}, Unsaid)
  <2>8. \A p \in DOMAIN f : p \in Keys /\ f[p] = 0
    BY KnownIs, NoneIs DEF BitsOf
  <2> HIDE DEF f
  <2>9. DataAre(builder, f)
    BY <2>4, <2>5, <2>8 DEF DataAre, Keys
  <2>10. Calm(Between, <<>>, {}, 0, f)
    BY <2>2, <2>3, <2>4, <2>6, <2>7, <2>9 DEF Calm, Steady
  <2>11. OnAre(Between, <<>>, {})
    BY <2>10 DEF OnAre, OnWith, LevelOf, f
  <2>12. QED
    BY <1>3, <2>1, <2>11 DEF EquivInv
<1>4. QED
  BY <1>2, <1>3

LEMMA EquivPhaseKeeps ==
    ASSUME EquivInv, Phase
    PROVE  EquivInv'
<1> DEFINE r == Run(Between, Phases[phase])
           T == Has
           c == subject.clocked
<1>clear. StartsClear /\ StartsClear'
  BY DEF EquivInv, Phase, StartsClear
<1>1. /\ stage = "equiv" /\ subject \in Subjects /\ phase \in 1 .. 8 /\ OnAre(Between, <<>>, {})
      /\ \A i \in 1 .. 7 : i < phase => builder.ev \in SaysOf(T, c, i)
  BY DEF EquivInv, Phase
<1>2. phase \in 1 .. 7
  BY <1>1, PhaseTells DEF Phase
<1>3. /\ builder' = r.x /\ on' = r.on /\ stage' = (IF r.ok THEN "equiv" ELSE "raised")
      /\ phase' = phase + 1 /\ subject' = subject
  BY DEF Phase, Run, Between
<1>4. OnAre(r, <<>>, {}) /\ Longer(builder.ev, r.x.ev) /\ r.x.ev \in SaysOf(T, c, phase)
  <2>1. Safe(Phases[phase]) /\ Reveals(Phases[phase], SaysOf(T, c, phase))
    BY <1>1, <1>2, PhaseTells
  <2>2. Between.x = builder
    BY DEF Between
  <2>3. OnAre(r, <<>>, {}) /\ Longer(Between.x.ev, r.x.ev)
    BY <1>1, <2>1, SafeNow
  <2>4. r.x.ev \in SaysOf(T, c, phase)
    BY <1>1, <2>1 DEF Reveals
  <2>5. QED
    BY <2>2, <2>3, <2>4
<1> HIDE DEF r
<1>5. \A i \in 1 .. 7 : i < phase + 1 => r.x.ev \in SaysOf(T, c, i)
  <2>1. SUFFICES ASSUME NEW i \in 1 .. 7, i < phase + 1 PROVE r.x.ev \in SaysOf(T, c, i)
    OBVIOUS
  <2>2. CASE i = phase
    BY <1>4, <2>2
  <2>3. CASE i # phase
    <3>1. i < phase
      BY <1>2, <2>1, <2>3
    <3>2. builder.ev \in SaysOf(T, c, i)
      BY <1>1, <3>1
    <3>3. Lasting(SaysOf(T, c, i))
      BY ToldLasts
    <3>4. QED
      BY <1>4, <3>2, <3>3 DEF Lasting
  <2>4. QED
    BY <2>2, <2>3
<1>6. ASSUME NEW s, s.x = r.x, s.on = r.on, s.ok PROVE Calm(s, <<>>, {}, LevelOf({}), BitsOf(T, {}, Unsaid))
  BY <1>4, <1>6 DEF OnAre, OnWith, Calm, Steady
<1>7. r.ok /\ r.on = {}
  BY <1>4 DEF OnAre, OnWith, Calm, Steady
<1>8. stage' = "equiv" /\ subject' \in Subjects /\ phase' \in 1 .. 8 /\ phase' = phase + 1
  BY <1>1, <1>2, <1>3, <1>7
<1>9. Has' = T /\ subject.clocked' = c
  BY <1>3 DEF Has, IsTrig, Trigs
<1>10. Between' = [x |-> builder', on |-> on', ok |-> TRUE]
  BY DEF Between
<1>11. OnAre(Between, <<>>, {})'
  <2>1. \A s : s = [x |-> builder', on |-> on', ok |-> TRUE] => Calm(s, <<>>, {}, LevelOf({}), BitsOf(T, {}, Unsaid))
    <3>1. ASSUME NEW s, s = [x |-> builder', on |-> on', ok |-> TRUE]
          PROVE  s.x = r.x /\ s.on = r.on /\ s.ok
      BY <1>3, <3>1
    <3>2. QED
      BY <1>6, <3>1
  <2> HIDE DEF T
  <2>2. Calm(Between', <<>>, {}, LevelOf({}), BitsOf(T, {}, Unsaid))
    BY <1>10, <2>1
  <2>3. QED
    BY <1>9, <2>2 DEF OnAre, OnWith
<1>12. (\A i \in 1 .. 7 : i < phase => builder.ev \in SaysOf(Has, subject.clocked, i))'
  <2> HIDE DEF T, c
  <2>1. \A i \in 1 .. 7 : i < phase' => builder'.ev \in SaysOf(T, c, i)
    BY <1>3, <1>5
  <2>2. QED
    BY <1>9, <2>1
<1>13. QED
  BY <1>clear, <1>8, <1>11, <1>12 DEF EquivInv

LEMMA EquivBuildKeeps ==
    ASSUME EquivInv, EquivBuild
    PROVE  EquivInv'
<1> DEFINE v == BuiltVec(builder)
           ev == builder.ev
           T == Has
           c == subject.clocked
<1>1. /\ stage = "equiv" /\ StartsClear /\ subject \in Subjects /\ OnAre(Between, <<>>, {})
      /\ \A i \in 1 .. 7 : i < phase => ev \in SaysOf(T, c, i)
  BY DEF EquivInv, EquivBuild
<1>2. /\ phase = Len(Phases) + 1 /\ stage' = (IF validate(v) THEN "equiv_built" ELSE "raised")
      /\ vec' = v /\ subject' = subject
  BY DEF EquivBuild, evars
<1>3. \A i \in 1 .. 7 : ev \in SaysOf(T, c, i)
  <2>1. Len(Phases) = 7
    BY <1>1, PhaseTells
  <2>2. phase = 8
    BY <1>2, <2>1
  <2>3. QED
    BY <1>1, <2>2
<1>4. Ready(builder) /\ ~ InSim(builder) /\ Twinless(ev) /\ ev \in Seq(BuilderEvents)
  <2>1. Between.x = builder
    BY DEF Between
  <2>2. Calm(Between, <<>>, {}, LevelOf({}), BitsOf(T, {}, Unsaid))
    BY <1>1 DEF OnAre, OnWith
  <2>3. QED
    BY <2>1, <2>2, CalmNow DEF Calm, Steady
<1>5. \E d : v.events = Append(ev, d) /\ d.op = "end"
  <2> DEFINE y == NewTime(After(builder, builder.change + Gap))
             d == Event(y.t, "end", "", 0, FALSE)
  <2>1. d.op = "end"
    BY DEF Event
  <2>2. v = [clock |-> Stepped, sep |-> SepPs, events |-> Append(ev, d)]
    BY DEF BuiltVec
  <2> HIDE DEF d, v
  <2>3. v.events = Append(ev, d)
    BY <2>2
  <2>4. QED
    BY <2>1, <2>3
<1>6. Whole(v)
  BY <1>4, BuiltIsWhole
<1> HIDE DEF v, ev
<1>7. Wraps(v, ev)
  <2>1. PICK d : v.events = Append(ev, d) /\ d.op = "end"
    BY <1>5
  <2>2. Len(v.events) = Len(ev) + 1 /\ v.events[Len(ev) + 1] = d /\ \A i \in 1 .. Len(ev) : v.events[i] = ev[i]
    BY <1>4, <2>1, OneMore
  <2>3. QED
    BY <1>4, <1>6, <2>1, <2>2 DEF Wraps
<1>8. validate(v)
  <2>1. ev \in Lookings
    BY <1>3 DEF SaysOf
  <2>2. PICK i \in 1 .. Len(ev) : ev[i].op = "sample"
    BY <2>1 DEF Lookings, Looked
  <2>3. ev[i] \in Events(v)
    BY <1>7, WrappedIs
  <2>4. HasSamples(v)
    BY <2>2, <2>3 DEF HasSamples
  <2>5. QED
    BY <1>1, <1>6, <2>4, WholeIsValid
<1>9. Displays(v, T, c)
  <2>1. T \in SUBSET TriggerNames
    BY DEF Has
  <2> HIDE DEF T, c
  <2>2. QED
    BY <1>3, <1>7, <2>1, ToldDisplays
<1>10. Has' = T /\ subject.clocked' = c
  BY <1>2 DEF Has, IsTrig, Trigs
<1>11. stage' = "equiv_built" /\ subject' \in Subjects
  BY <1>1, <1>2, <1>8
<1>12. Displays(vec, Has, subject.clocked)'
  <2> HIDE DEF T, c
  <2>1. QED
    BY <1>2, <1>9, <1>10
<1>13. QED
  BY <1>11, <1>12 DEF EquivInv

LEMMA EquivStep == EquivInv /\ [ENext]_<<stimulusVars, evars>> => EquivInv'
<1>1. SUFFICES ASSUME EquivInv, [ENext]_<<stimulusVars, evars>> PROVE EquivInv'
  OBVIOUS
<1>2. CASE UNCHANGED <<stimulusVars, evars>>
  <2>1. /\ stage' = stage /\ vec' = vec /\ builder' = builder /\ subject' = subject
        /\ phase' = phase /\ on' = on
    BY <1>2 DEF stimulusVars, evars
  <2>2. Has' = Has /\ Between' = Between
    BY <2>1 DEF Has, IsTrig, Trigs, Between
  <2>3. OnAre(Between, <<>>, {})' <=> OnAre(Between, <<>>, {})
    BY <2>2 DEF OnAre, OnWith
  <2>4. QED
    BY <1>1, <2>1, <2>2, <2>3 DEF EquivInv, StartsClear
<1>3. CASE StimulusNext
  <2>1. stage # "equiv" /\ stage' \in {"building", "read", "compiled", "refused", "done"}
    BY <1>3 DEF StimulusNext, InitPort, Set, Edge, Sample, Cycle, Open, Close, Build, Async, Glbl, Wait,
         Building, Call, Compile, Replay, Generate, Tick, FinishReplay
  <2>2. QED
    BY <2>1 DEF EquivInv
<1>4. CASE Phase
  BY <1>1, <1>4, EquivPhaseKeeps
<1>5. CASE EquivBuild
  BY <1>1, <1>5, EquivBuildKeeps
<1>6. QED
  BY <1>1, <1>2, <1>3, <1>4, <1>5 DEF ENext

LEMMA DisplaysIsShown ==
    ASSUME subject \in Subjects, Displays(vec, Has, subject.clocked)
    PROVE  EveryTriggerIsShown
<1> DEFINE times == {e.t : e \in {x \in Events(vec) : x.op = "sample"}}
           names == {Trigs[i] : i \in DOMAIN Trigs}
           beside == names \cup {asyncs[i] : i \in DOMAIN asyncs}
           shown == [time \in times |-> [t \in TriggerNames |-> Level(t, time)]]
           full(t, v) == IF t = "D" THEN 3 * v ELSE v
           rises == {e.t : e \in {x \in Events(vec) : x.op = "edge" /\ x.value = 1}}
<1>1. names = Has /\ Has \subseteq TriggerNames
  <2>1. \A i \in DOMAIN Trigs : Trigs[i] \in TriggerNames
    BY Triggers
  <2>2. QED
    BY <2>1 DEF Has, IsTrig
<1>2. beside = Has \cup {"CLR"}
  <2>1. CASE IsTrig("CLR")
    <3>1. asyncs = <<>> /\ "CLR" \in Has
      BY <2>1 DEF asyncs, Has, TriggerNames
    <3>2. QED
      BY <1>1, <3>1
  <2>2. CASE ~ IsTrig("CLR")
    <3>1. asyncs = <<"CLR">>
      BY <2>2 DEF asyncs
    <3>2. {asyncs[i] : i \in DOMAIN asyncs} = {"CLR"}
      BY <3>1
    <3>3. QED
      BY <1>1, <3>2
  <2>3. QED
    BY <2>1, <2>2
<1>3. \A time \in times : \A t \in TriggerNames : shown[time][t] = LevelIn(vec, t, time)
  BY LevelIs
<1>4. \A t, a : full(t, a) = Full(t, a)
  BY DEF Full
<1>5. \A e \in Events(vec) : (e.op = "sample" => e.t \in times) /\ (e.op = "edge" /\ e.value = 1 => e.t \in rises)
  OBVIOUS
<1>6. "CLR" \in TriggerNames /\ "D" \in TriggerNames
  BY DEF TriggerNames
<1> HIDE DEF times, names, beside, shown, full, rises
<1>7. \A t \in names : \A u \in beside \ {t}, v, w \in {0, 1} :
          \E time \in times : shown[time][t] = full(t, v) /\ shown[time][u] = full(u, w)
  <2>1. SUFFICES ASSUME NEW t \in Has, NEW u \in (Has \cup {"CLR"}) \ {t}, NEW v \in {0, 1}, NEW w \in {0, 1}
                 PROVE  \E time \in times : shown[time][t] = full(t, v) /\ shown[time][u] = full(u, w)
    BY <1>1, <1>2
  <2>2. PICK e \in Events(vec) :
            e.op = "sample" /\ LevelIn(vec, t, e.t) = Full(t, v) /\ LevelIn(vec, u, e.t) = Full(u, w)
    BY DEF Displays
  <2>3. t \in TriggerNames /\ u \in TriggerNames /\ e.t \in times
    BY <1>1, <1>5, <1>6, <2>2
  <2>4. QED
    BY <1>3, <1>4, <2>2, <2>3
<1>8. "D" \in names => \A v \in 0 .. 3 : \E time \in times : shown[time]["D"] = v
  <2>1. SUFFICES ASSUME "D" \in Has, NEW v \in 0 .. 3 PROVE \E time \in times : shown[time]["D"] = v
    BY <1>1
  <2>2. PICK e \in Events(vec) : e.op = "sample" /\ LevelIn(vec, "D", e.t) = v
    BY <2>1 DEF Displays
  <2>3. QED
    BY <1>3, <1>5, <1>6, <2>2
<1>9. subject.clocked => \A t \in names \ {"C"}, v \in {0, 1} :
          \E r \in rises : Level(t, r) = full(t, v) /\ Level(t, r - 1) = full(t, 1 - v)
  <2>1. SUFFICES ASSUME subject.clocked, NEW t \in Has \ {"C"}, NEW v \in {0, 1}
                 PROVE  \E r \in rises : Level(t, r) = full(t, v) /\ Level(t, r - 1) = full(t, 1 - v)
    BY <1>1
  <2>2. PICK e \in Events(vec) :
            /\ e.op = "edge" /\ e.value = 1
            /\ LevelIn(vec, t, e.t) = Full(t, v) /\ LevelIn(vec, t, e.t - 1) = Full(t, 1 - v)
    BY <2>1 DEF Displays
  <2>3. t \in TriggerNames /\ e.t \in rises
    BY <1>1, <1>5, <2>2
  <2>4. Level(t, e.t) = LevelIn(vec, t, e.t) /\ Level(t, e.t - 1) = LevelIn(vec, t, e.t - 1)
    BY <2>3, LevelIs
  <2>5. QED
    BY <1>4, <2>2, <2>3, <2>4
<1>10. QED
  BY <1>7, <1>8, <1>9 DEF EveryTriggerIsShown, times, names, beside, shown, full, rises

(* No analysis makes the generator of the equivalence stimulus fail:       *)
(* whatever the triggers are and in whatever order, no phase drives a      *)
(* trigger to the level it has, cycles a clock that is held high, or makes *)
(* a call that the builder refuses, and validate accepts what comes out    *)
(* (equiv_stimulus in equiv.py).                                           *)
THEOREM NoAnalysisFailsTheGenerator == ESpec => []NoGeneratorBug
<1>1. EquivInv => NoGeneratorBug
  BY DEF EquivInv, NoGeneratorBug
<1>2. QED
  BY <1>1, EquivStarts, EquivStep, PTL DEF ESpec, ESafety

(* Whatever the triggers of a transform are, the file that the generator   *)
(* writes shows every two of them in their four combinations at a sample,  *)
(* each so with an asynchronous input that is no trigger, every value of a *)
(* data trigger, and each trigger's change, up and down, at the very time  *)
(* of a rising clock edge (equiv_stimulus and its phases in equiv.py).     *)
THEOREM EveryTriggerShown == ESpec => []EveryTriggerIsShown
<1>1. EquivInv => EveryTriggerIsShown
  <2>1. ASSUME EquivInv, stage # "equiv_built" PROVE EveryTriggerIsShown
    BY <2>1 DEF EveryTriggerIsShown
  <2>2. ASSUME EquivInv, stage = "equiv_built" PROVE EveryTriggerIsShown
    <3>1. subject \in Subjects /\ Displays(vec, Has, subject.clocked)
      BY <2>2 DEF EquivInv
    <3>2. QED
      BY <3>1, DisplaysIsShown
  <2>3. QED
    BY <2>1, <2>2
<1>2. QED
  BY <1>1, EquivStarts, EquivStep, PTL DEF ESpec, ESafety

-----------------------------------------------------------------------------
(***************************************************************************)
(* The verdict: what a result of a simulator's runner says, for any         *)
(* configurations, rejections, exclusions and simulators.                   *)
(***************************************************************************)

Statuses == {"pass", "fail", "error", "skip"}

(* What a status says of the simulations, and of the trace beside it.      *)
Sound(res) ==
    /\ res = Result(res.status, res.trace, res.truth)
    /\ res.status \in Statuses
    /\ res.status = "pass" => res.truth = "good" /\ res.trace = "some"
    /\ res.status = "fail" => res.truth = "seen"
    /\ res.truth = "seen" => res.status # "pass"

(* The result of a simulation, which is never a skip.                      *)
Simulated(res) == Sound(res) /\ res.status # "skip"

LEMMA WorstIs ==
    ASSUME NEW S \in SUBSET Statuses, S # {}
    PROVE  /\ worst(S) \in S
           /\ worst(S) # "fail" => "fail" \notin S
           /\ worst(S) \in {"pass", "skip"} => "error" \notin S
           /\ worst(S) = "skip" => "pass" \notin S
<1>1. Rank["fail"] = 3 /\ Rank["error"] = 2 /\ Rank["pass"] = 1 /\ Rank["skip"] = 0
  BY DEF Rank
<1>2. \E s \in S : \A t \in S : Rank[s] >= Rank[t]
  <2>1. \A t \in S : t = "fail" \/ t = "error" \/ t = "pass" \/ t = "skip"
    BY DEF Statuses
  <2>2. CASE "fail" \in S
    <3>1. \A t \in S : Rank["fail"] >= Rank[t]
      BY <1>1, <2>1
    <3>2. QED
      BY <2>2, <3>1
  <2>3. CASE "fail" \notin S /\ "error" \in S
    <3>1. \A t \in S : Rank["error"] >= Rank[t]
      BY <1>1, <2>1, <2>3
    <3>2. QED
      BY <2>3, <3>1
  <2>4. CASE "fail" \notin S /\ "error" \notin S /\ "pass" \in S
    <3>1. \A t \in S : Rank["pass"] >= Rank[t]
      BY <1>1, <2>1, <2>4
    <3>2. QED
      BY <2>4, <3>1
  <2>5. CASE S = {"skip"}
    BY <1>1, <2>5
  <2>6. QED
    BY <2>1, <2>2, <2>3, <2>4, <2>5
<1>3. worst(S) = CHOOSE s \in S : \A t \in S : Rank[s] >= Rank[t]
  BY DEF worst
<1>4. worst(S) \in S /\ \A t \in S : Rank[worst(S)] >= Rank[t]
  BY <1>2, <1>3
<1> DEFINE w == worst(S)
<1>5. w \in S /\ w \in Statuses /\ \A t \in S : Rank[w] >= Rank[t]
  BY <1>4
<1> HIDE DEF w
<1>6. ~ (0 >= 1) /\ ~ (0 >= 2) /\ ~ (0 >= 3) /\ ~ (1 >= 2) /\ ~ (1 >= 3) /\ ~ (2 >= 3)
  OBVIOUS
<1>7. /\ w # "fail" => "fail" \notin S
      /\ w = "pass" \/ w = "skip" => "error" \notin S
      /\ w = "skip" => "pass" \notin S
  <2>1. w = "fail" \/ w = "error" \/ w = "pass" \/ w = "skip"
    BY <1>5 DEF Statuses
  <2>2. ASSUME "fail" \in S, w # "fail" PROVE FALSE
    BY <1>1, <1>5, <1>6, <2>1, <2>2
  <2>3. ASSUME "error" \in S, w = "pass" \/ w = "skip" PROVE FALSE
    BY <1>1, <1>5, <1>6, <2>3
  <2>4. ASSUME "pass" \in S, w = "skip" PROVE FALSE
    BY <1>1, <1>5, <1>6, <2>4
  <2>5. QED
    BY <2>2, <2>3, <2>4
<1>8. QED
  BY <1>5, <1>7 DEF w

LEMMA ErrorIsSound == \A trace : Simulated(Error(trace))
  BY DEF Simulated, Sound, Error, Result, Statuses

LEMMA VectorIsSound ==
    ASSUME NEW v \in VectorRuns, v.judged
    PROVE  Simulated(v.res)
<1>1. PICK r \in Runs : v = [judged |-> classify_run(r, TRUE), res |-> vector_check(r)]
  BY DEF VectorRuns
<1>2. r.exit = "zero" /\ ~ r.fatal /\ r.done
  BY <1>1 DEF classify_run
<1>3. v.res = vector_check(r)
  BY <1>1
<1>4. QED
  BY <1>2, <1>3, ErrorIsSound DEF vector_check, Completed, Simulated, Sound, Result, Statuses

LEMMA RejectIsSound ==
    ASSUME NEW runner, NEW res \in RejectResults(runner)
    PROVE  Simulated(res)
<1>1. PICK b \in Builds(runner), r \in Runs : res = Result(reject_result(b, r), "some", RejectTruth(b, r))
  BY DEF RejectResults
<1>2. /\ reject_result(b, r) \in {"pass", "fail", "error"}
      /\ reject_result(b, r) = "pass" => RejectTruth(b, r) = "good"
      /\ reject_result(b, r) = "fail" <=> RejectTruth(b, r) = "seen"
  BY DEF reject_result, RejectTruth
<1>3. /\ res.status = reject_result(b, r) /\ res.trace = "some" /\ res.truth = RejectTruth(b, r)
      /\ res = Result(res.status, res.trace, res.truth)
  BY <1>1 DEF Result
<1>4. QED
  BY <1>2, <1>3 DEF Simulated, Sound, Statuses

LEMMA SvIsSound ==
    ASSUME NEW res \in SvResults
    PROVE  Simulated(res)
<1>1. PICK r \in SvRuns : res = SvRun(r)
  BY DEF SvResults
<1>2. QED
  BY <1>1, ErrorIsSound DEF SvRun, sv_check, Simulated, Sound, Result, Statuses

LEMMA CocotbIsSound ==
    ASSUME NEW res \in CocotbResults
    PROVE  Simulated(res)
<1>1. PICK r \in CocotbRuns : res = CocotbRun(r)
  BY DEF CocotbResults
<1>2. QED
  BY <1>1, ErrorIsSound DEF CocotbRun, cocotb_verdict, Simulated, Sound, Result, Statuses

(* Two seeds: the worse of them, with what both of them did.               *)
LEMMA PairIsSound ==
    ASSUME NEW a, NEW b, Simulated(a), Simulated(b), NEW trace, a.status = "pass" => trace = "some"
    PROVE  Simulated(Result(pair(a, b), trace, BothTruths(a.truth, b.truth)))
<1> DEFINE S == {a.status, b.status}
<1>1. S \subseteq Statuses \ {"skip"} /\ S # {}
  BY DEF Simulated, Sound
<1>2. /\ pair(a, b) \in S
      /\ pair(a, b) # "fail" => "fail" \notin S
      /\ pair(a, b) = "pass" => "error" \notin S
  <2>1. pair(a, b) = worst(S)
    BY DEF pair
  <2> HIDE DEF S
  <2>2. QED
    BY <1>1, <2>1, WorstIs
<1>3. pair(a, b) = "pass" => a.truth = "good" /\ b.truth = "good" /\ trace = "some"
  BY <1>1, <1>2 DEF Simulated, Sound, Statuses
<1>4. pair(a, b) = "fail" => a.truth = "seen" \/ b.truth = "seen"
  BY <1>2 DEF Simulated, Sound
<1>5. BothTruths(a.truth, b.truth) = "seen" <=> a.truth = "seen" \/ b.truth = "seen"
  BY DEF BothTruths
<1>6. a.truth = "seen" \/ b.truth = "seen" => pair(a, b) # "pass"
  BY <1>3
<1>7. pair(a, b) = "pass" => BothTruths(a.truth, b.truth) = "good"
  BY <1>3 DEF BothTruths
<1>8. pair(a, b) \in Statuses \ {"skip"}
  BY <1>1, <1>2
<1> DEFINE res == Result(pair(a, b), trace, BothTruths(a.truth, b.truth))
<1>9. /\ res.status = pair(a, b) /\ res.trace = trace /\ res.truth = BothTruths(a.truth, b.truth)
      /\ res = Result(res.status, res.trace, res.truth)
  BY DEF Result
<1> HIDE DEF res
<1>10. Simulated(res)
  BY <1>3, <1>4, <1>5, <1>6, <1>7, <1>8, <1>9 DEF Simulated, Sound
<1>11. QED
  BY <1>10 DEF res

LEMMA SeedsAreSound ==
    ASSUME NEW S, \A r \in S : Simulated(r), NEW res \in seeds_done(S)
    PROVE  Simulated(res)
<1>1. PICK a \in S, b \in S :
         res = IF a.trace # None /\ b.trace # None /\ "bad" \in {a.trace, b.trace}
               THEN Error(a.trace)
               ELSE Result(pair(a, b), a.trace, BothTruths(a.truth, b.truth))
  BY DEF seeds_done
<1>2. a.status = "pass" => a.trace = "some"
  BY DEF Simulated, Sound
<1>3. Simulated(Result(pair(a, b), a.trace, BothTruths(a.truth, b.truth)))
  BY <1>2, PairIsSound
<1>4. Simulated(Error(a.trace))
  BY ErrorIsSound
<1>5. QED
  BY <1>1, <1>3, <1>4

LEMMA VectorSeedsAreSound ==
    ASSUME NEW res \in vector_seeds
    PROVE  Simulated(res)
<1>1. PICK a \in VectorRuns, b \in VectorRuns :
         res = IF ~(a.judged /\ b.judged) THEN Error(None)
               ELSE IF None \in {a.res.trace, b.res.trace} THEN Error(a.res.trace)
               ELSE Result(pair(a.res, b.res), "some", BothTruths(a.res.truth, b.res.truth))
  BY DEF vector_seeds
<1>2. CASE ~ (a.judged /\ b.judged)
  BY <1>1, <1>2, ErrorIsSound
<1>3. CASE a.judged /\ b.judged
  <2>1. Simulated(a.res) /\ Simulated(b.res)
    BY <1>3, VectorIsSound
  <2>2. Simulated(Result(pair(a.res, b.res), "some", BothTruths(a.res.truth, b.res.truth)))
    BY <2>1, PairIsSound
  <2>3. Simulated(Error(a.res.trace))
    BY ErrorIsSound
  <2>4. QED
    BY <1>1, <1>3, <2>2, <2>3
<1>4. QED
  BY <1>2, <1>3

LEMMA VectorOnceIsSound ==
    ASSUME NEW res \in vector_once
    PROVE  Simulated(res)
<1>1. PICK v \in VectorRuns : res = IF v.judged THEN v.res ELSE Error(None)
  BY DEF vector_once
<1>2. QED
  BY <1>1, VectorIsSound, ErrorIsSound

LEMMA RefusalIsSound ==
    ASSUME NEW r, NEW res \in Refusals(r)
    PROVE  Sound(res) /\ res.status \in {"error", "skip"}
<1>1. CASE res = Error(None)
  BY <1>1, ErrorIsSound DEF Simulated, Error, Result
<1>2. CASE res = Result("skip", None, "neither")
  BY <1>2 DEF Sound, Result, Statuses
<1>3. QED
  BY <1>1, <1>2 DEF Refusals

(* Whatever a runner makes of a configuration is sound; without an         *)
(* expectation it has no verdict.                                          *)
LEMMA ConfigIsSound ==
    ASSUME sim \in Simulators, style \in Styles, NEW c, NEW res \in run_config(c)
    PROVE  Sound(res) /\ (style = "vector" /\ expected[c] = None => res.status \in {"error", "skip"})
<1>1. ASSUME NEW S, \A r \in S : Simulated(r), res \in Seeds(sim, S) PROVE Simulated(res)
  BY <1>1, SeedsAreSound DEF Seeds
<1>2. CASE style = "sv"
  <2>1. res \in Refusals(sim) \/ res \in Seeds(sim, SvResults)
    BY <1>2 DEF run_config, Sv
  <2>2. QED
    BY <1>1, <1>2, <2>1, RefusalIsSound, SvIsSound DEF Simulated
<1>3. CASE style = "cocotb"
  <2>1. res \in Refusals(sim) \/ res \in TimedOut(sim) \/ res \in Seeds(sim, CocotbResults)
    BY <1>3 DEF run_config, Cocotb
  <2>2. res \in TimedOut(sim) => Simulated(res)
    BY ErrorIsSound DEF TimedOut
  <2>3. QED
    BY <1>1, <1>3, <2>1, <2>2, RefusalIsSound, CocotbIsSound DEF Simulated
<1>4. CASE style = "vector" /\ expected[c] = None
  <2>1. res \in Refusals(sim)
    BY <1>4 DEF run_config, run_vector
  <2>2. QED
    BY <2>1, RefusalIsSound
<1>5. CASE style = "vector" /\ expected[c] # None
  <2>1. res \in Reject[sim] \/ res \in Vector[sim]
    BY <1>5 DEF run_config, run_vector
  <2>2. res \in Refusals(sim) \/ res \in RejectResults(sim) \/ res \in vector_seeds \/ res \in vector_once
    BY <2>1 DEF Reject, Vector
  <2>3. Sound(res)
    BY <2>2, RefusalIsSound, RejectIsSound, VectorSeedsAreSound, VectorOnceIsSound DEF Simulated
  <2>4. QED
    BY <1>5, <2>3
<1>6. QED
  BY <1>2, <1>3, <1>4, <1>5 DEF Styles

(* A result that is written keeps what it says.                            *)
LEMMA CheckedIsSound ==
    ASSUME NEW res, Sound(res)
    PROVE  /\ Sound(Checked(res))
           /\ Checked(res).status = res.status \/ Checked(res).status = "error"
  BY DEF Sound, Checked, Result, Statuses

-----------------------------------------------------------------------------
(* The state of a run                                                      *)

VerdictTyped ==
    /\ style \in Styles /\ sim \in Simulators
    /\ step = <<step[1], step[2]>> /\ step[1] \in {"python", "simulator"}
    /\ step[2] \in {"start", "configs", "running", "raised", "ended"}
    /\ listed \in {Cfgs, {}}
    /\ expected = [c \in Cfgs |-> expected[c]]
    /\ todo \subseteq Cfgs
    /\ results = [c \in DOMAIN results |-> results[c]] /\ DOMAIN results \subseteq Cfgs

(* What the result of one configuration tells.                             *)
Told(c, res) ==
    /\ Sound(res)
    /\ res.status = "pass" => c \notin Excluded
    /\ style = "vector" /\ expected[c] = None => res.status \in {"error", "skip"}

(* The simulator's runner loses no configuration on its way.               *)
OnTheWay ==
    /\ step[2] \in {"start", "configs"} => results = NoConfigs
    /\ step[1] = "simulator" =>
          /\ step[2] = "running" => (DOMAIN results) \cup todo \in {Cfgs, {}}
          /\ \A c \in DOMAIN results : Told(c, results[c])

(* What the result of a whole run tells.                                   *)
Honest(res) ==
    /\ res.configs = NoConfigs \/ DOMAIN res.configs = Cfgs
    /\ \A c \in DOMAIN res.configs : Told(c, res.configs[c])
    /\ res.status = "pass" =>
          /\ \E c \in DOMAIN res.configs : res.configs[c].status = "pass"
          /\ \A c \in DOMAIN res.configs : res.configs[c].status \notin {"error", "fail"}
    /\ res.status = "fail" => \E c \in DOMAIN res.configs : res.configs[c].status = "fail"

Written ==
    \A r \in (DOMAIN final) \ {"python"} :
        r = sim /\ step = <<"simulator", "ended">> /\ Honest(final[r])

VerdictInv == VerdictTyped /\ OnTheWay /\ Written

LEMMA NoConfigsIs == DOMAIN NoConfigs = {} /\ NoConfigs = [c \in DOMAIN NoConfigs |-> NoConfigs[c]]
  BY DEF NoConfigs

LEMMA WriteKeeps ==
    ASSUME VerdictInv, NEW outcome, NEW configs, Write(outcome, configs), step[2] # "ended",
           listed' \in {Cfgs, {}}, expected' = [c \in Cfgs |-> expected'[c]],
           step[1] = "simulator" => expected' = expected,
           step[1] = "simulator" => Honest([status |-> outcome, configs |-> configs])
    PROVE  VerdictInv'
<1> DEFINE res == [status |-> outcome, configs |-> configs]
<1>1. /\ style' = style /\ sim' = sim
      /\ results' = NoConfigs /\ todo' = {}
      /\ step' = <<"simulator", IF step[1] = "python" THEN "start" ELSE "ended">>
      /\ final' = [r \in (DOMAIN final) \cup {Runner} |-> IF r = Runner THEN res ELSE final[r]]
  BY DEF Write
<1>2. VerdictTyped'
  <2>1. step' = <<(step')[1], (step')[2]>> /\ (step')[1] = "simulator" /\ (step')[2] \in {"start", "ended"}
    BY <1>1
  <2>2. QED
    BY <1>1, <2>1, NoConfigsIs DEF VerdictInv, VerdictTyped
<1>3. OnTheWay'
  BY <1>1, NoConfigsIs DEF OnTheWay
<1>4. (DOMAIN final) \ {"python"} = {}
  BY DEF VerdictInv, Written
<1>5. Written'
  <2>1. CASE step[1] = "python"
    <3>1. (DOMAIN final') \ {"python"} = {}
      BY <1>1, <1>4, <2>1 DEF Runner
    <3>2. QED
      BY <3>1 DEF Written
  <2>2. CASE step[1] = "simulator"
    <3>1. Runner = sim /\ sim' = sim
      BY <1>1, <2>2 DEF Runner
    <3>2. ASSUME NEW r \in (DOMAIN final') \ {"python"} PROVE r = sim /\ final'[r] = res
      BY <1>1, <1>4, <3>1
    <3>3. Honest(res)
      BY <2>2
    <3> HIDE DEF res
    <3>4. Honest(res)'
      BY <1>1, <2>2, <3>3 DEF Honest, Told, Sound
    <3>5. step' = <<"simulator", "ended">>
      BY <1>1, <2>2
    <3>6. ASSUME NEW r \in (DOMAIN final') \ {"python"}
          PROVE  r = sim' /\ Honest(final[r])'
      BY <3>1, <3>2, <3>4 DEF Honest, Told, Sound
    <3>7. QED
      BY <3>5, <3>6 DEF Written
  <2>3. QED
    BY <2>1, <2>2 DEF VerdictInv, VerdictTyped
<1>6. QED
  BY <1>2, <1>3, <1>5 DEF VerdictInv

LEMMA EmptyIsHonest ==
    ASSUME NEW outcome \in {"error", "skip"}
    PROVE  Honest([status |-> outcome, configs |-> NoConfigs])
  BY NoConfigsIs DEF Honest

LEMMA FinishIsHonest ==
    ASSUME VerdictInv, step = <<"simulator", "running">>, todo = {},
           NEW outcome, outcome = IF results = NoConfigs THEN "error"
                                  ELSE worst({results[c].status : c \in DOMAIN results})
    PROVE  Honest([status |-> outcome, configs |-> results])
<1> DEFINE S == {results[c].status : c \in DOMAIN results}
           res == [status |-> outcome, configs |-> results]
<1>1. step[1] = "simulator" /\ step[2] = "running"
  OBVIOUS
<1>2. (DOMAIN results) \in {Cfgs, {}}
  BY <1>1 DEF VerdictInv, OnTheWay
<1>3. \A c \in DOMAIN results : Told(c, results[c])
  BY <1>1 DEF VerdictInv, OnTheWay
<1>4. CASE results = NoConfigs
  BY <1>4, EmptyIsHonest
<1>5. CASE results # NoConfigs
  <2>1. DOMAIN results = Cfgs /\ DOMAIN results # {}
    <3>1. results = [c \in DOMAIN results |-> results[c]]
      BY DEF VerdictInv, VerdictTyped
    <3>2. DOMAIN results # {}
      BY <1>5, <3>1 DEF NoConfigs
    <3>3. QED
      BY <1>2, <3>2
  <2>2. S \in SUBSET Statuses /\ S # {}
    BY <1>3, <2>1 DEF Told, Sound
  <2>3. outcome = worst(S)
    BY <1>5
  <2>4. \A c \in DOMAIN results : results[c].status \in S
    OBVIOUS
  <2>5. \A s \in S : \E c \in DOMAIN results : results[c].status = s
    OBVIOUS
  <2>6. res.status = outcome /\ res.configs = results
    OBVIOUS
  <2> HIDE DEF S, res
  <2>7. /\ outcome \in S
        /\ outcome # "fail" => "fail" \notin S
        /\ outcome = "pass" => "error" \notin S
    BY <2>2, <2>3, WorstIs
  <2>8. Honest(res)
    BY <1>3, <2>1, <2>4, <2>5, <2>6, <2>7 DEF Honest
  <2>9. QED
    BY <2>8 DEF res
<1>6. QED
  BY <1>4, <1>5

LEMMA RunConfigKeeps == ASSUME VerdictInv, RunConfig PROVE VerdictInv'
<1>1. PICK c \in todo : \E got \in
             IF Runner = "python" THEN golden(c)
             ELSE {<<r, expected[c]>> :
                      r \in IF c \in Excluded THEN {Result("skip", None, "neither")} ELSE run_config(c)} :
         /\ results' = [x \in (DOMAIN results) \cup {c} |-> IF x = c THEN Checked(got[1]) ELSE results[x]]
         /\ expected' = [expected EXCEPT ![c] = got[2]]
         /\ todo' = todo \ {c}
  BY DEF RunConfig
<1> DEFINE Gots == IF Runner = "python" THEN golden(c)
                   ELSE {<<r, expected[c]>> :
                            r \in IF c \in Excluded THEN {Result("skip", None, "neither")} ELSE run_config(c)}
<1>got. PICK got \in Gots :
         /\ results' = [x \in (DOMAIN results) \cup {c} |-> IF x = c THEN Checked(got[1]) ELSE results[x]]
         /\ expected' = [expected EXCEPT ![c] = got[2]]
         /\ todo' = todo \ {c}
  BY <1>1
<1>2. step[2] = "running" /\ UNCHANGED <<style, sim, step, listed, final>>
  BY DEF RunConfig
<1>3. c \in Cfgs
  BY DEF VerdictInv, VerdictTyped
<1>4. VerdictTyped'
  <2>1. expected' = [d \in Cfgs |-> expected'[d]]
    BY <1>got DEF VerdictInv, VerdictTyped
  <2>2. results' = [x \in DOMAIN results' |-> results'[x]] /\ DOMAIN results' \subseteq Cfgs
    BY <1>got, <1>3 DEF VerdictInv, VerdictTyped
  <2>3. todo' \subseteq Cfgs
    BY <1>got DEF VerdictInv, VerdictTyped
  <2>4. QED
    BY <1>2, <2>1, <2>2, <2>3 DEF VerdictInv, VerdictTyped
<1>5. Written'
  <2>1. (DOMAIN final) \ {"python"} = {}
    BY <1>2 DEF VerdictInv, Written
  <2>2. QED
    BY <1>2, <2>1 DEF Written
<1>6. OnTheWay'
  <2>1. CASE step[1] = "python"
    BY <1>2, <2>1 DEF OnTheWay
  <2>2. CASE step[1] = "simulator"
    <3>1. Runner = sim /\ sim # "python"
      BY <2>2, VerdictAssumption DEF Runner, VerdictInv, VerdictTyped
    <3>2. PICK r \in IF c \in Excluded THEN {Result("skip", None, "neither")} ELSE run_config(c) :
             got = <<r, expected[c]>>
      BY <1>got, <3>1
    <3>3. \A d \in Cfgs : expected'[d] = expected[d]
      BY <1>got, <3>2 DEF VerdictInv, VerdictTyped
    <3>4. Told(c, r) /\ (c \in Excluded => r.status = "skip")
      <4>1. CASE c \in Excluded
        BY <3>2, <4>1 DEF Told, Sound, Result, Statuses
      <4>2. CASE c \notin Excluded
        BY <3>2, <4>2, ConfigIsSound DEF Told, VerdictInv, VerdictTyped
      <4>3. QED
        BY <4>1, <4>2
    <3>5. Told(c, Checked(r))
      BY <3>4, CheckedIsSound DEF Told
    <3>6. results' = [x \in (DOMAIN results) \cup {c} |-> IF x = c THEN Checked(r) ELSE results[x]]
      BY <1>got, <3>2
    <3>7. \A x \in DOMAIN results' : Told(x, results'[x])
      <4>1. \A x \in DOMAIN results : Told(x, results[x])
        BY <2>2 DEF VerdictInv, OnTheWay
      <4>2. QED
        BY <3>5, <3>6, <4>1
    <3>8. \A x \in DOMAIN results' : x \in Cfgs
      BY <1>4 DEF VerdictTyped
    <3>9. \A x \in DOMAIN results' : Told(x, results[x])'
      BY <1>2, <3>3, <3>7, <3>8 DEF Told, Sound
    <3>10. (DOMAIN results') \cup todo' \in {Cfgs, {}}
      <4>1. (DOMAIN results) \cup todo \in {Cfgs, {}}
        BY <1>2, <2>2 DEF VerdictInv, OnTheWay
      <4>2. DOMAIN results' = (DOMAIN results) \cup {c}
        BY <3>6
      <4>3. (DOMAIN results') \cup todo' = (DOMAIN results) \cup todo
        BY <1>got, <4>2
      <4>4. QED
        BY <4>1, <4>3
    <3>11. QED
      BY <1>2, <3>9, <3>10 DEF OnTheWay
  <2>3. QED
    BY <2>1, <2>2 DEF VerdictInv, VerdictTyped
<1>7. QED
  BY <1>4, <1>5, <1>6 DEF VerdictInv

(* A step before the end, which writes nothing.                            *)
LEMMA PhaseKeeps ==
    ASSUME VerdictInv, UNCHANGED <<style, sim, results, final>>, step[2] # "ended",
           expected' = [c \in Cfgs |-> expected'[c]], step[1] = "simulator" => expected' = expected,
           NEW p \in {"configs", "running", "raised"}, Goto(p),
           p = "configs" => step[2] = "start",
           listed' \in {Cfgs, {}}, todo' \subseteq Cfgs,
           p = "running" /\ step[1] = "simulator" => (DOMAIN results) \cup todo' \in {Cfgs, {}}
    PROVE  VerdictInv'
<1>1. step' = <<step[1], p>> /\ (step')[1] = step[1] /\ (step')[2] = p
  BY DEF Goto
<1>2. VerdictTyped'
  BY <1>1 DEF VerdictInv, VerdictTyped
<1>3. OnTheWay'
  <2>1. p = "configs" => results' = NoConfigs
    BY DEF VerdictInv, OnTheWay
  <2>2. step[1] = "simulator" => \A c \in DOMAIN results' : Told(c, results[c])'
    BY DEF VerdictInv, OnTheWay, Told, Sound
  <2>3. QED
    BY <1>1, <2>1, <2>2, NoConfigsIs DEF OnTheWay, NoConfigs
<1>4. Written'
  <2>1. (DOMAIN final) \ {"python"} = {}
    BY DEF VerdictInv, Written
  <2>2. QED
    BY <2>1 DEF Written
<1>5. QED
  BY <1>2, <1>3, <1>4 DEF VerdictInv

LEMMA InitInv == Init => VerdictInv
<1> SUFFICES ASSUME Init PROVE VerdictInv
  OBVIOUS
<1>1. VerdictTyped
  BY NoConfigsIs DEF Init, VerdictTyped
<1>2. OnTheWay
  BY DEF Init, OnTheWay
<1>3. Written
  BY DEF Init, Written
<1>4. QED
  BY <1>1, <1>2, <1>3 DEF VerdictInv

LEMMA NextInv == VerdictInv /\ [Next]_vars => VerdictInv'
<1> SUFFICES ASSUME VerdictInv, [Next]_vars PROVE VerdictInv'
  OBVIOUS
<1>stay. /\ listed \in {Cfgs, {}} /\ expected = [c \in Cfgs |-> expected[c]]
         /\ todo \subseteq Cfgs /\ step[1] \in {"python", "simulator"}
  BY DEF VerdictInv, VerdictTyped
<1>empty. ASSUME Emptied
          PROVE  /\ listed' \in {Cfgs, {}} /\ expected' = [c \in Cfgs |-> expected'[c]]
                 /\ step[1] = "simulator" => expected' = expected
  <2>1. CASE Runner = "python"
    <3>1. step[1] = "python"
      BY <2>1, <1>stay, VerdictAssumption DEF Runner, VerdictInv, VerdictTyped
    <3>2. listed' = {} /\ expected' = NoTraces
      BY <1>empty, <2>1 DEF Emptied
    <3>3. QED
      BY <3>1, <3>2 DEF NoTraces
  <2>2. CASE Runner # "python"
    BY <1>empty, <1>stay, <2>2 DEF Emptied
  <2>3. QED
    BY <2>1, <2>2
<1>1. CASE Skip
  <2>1. Emptied /\ Write("skip", NoConfigs) /\ step[2] # "ended"
    BY <1>1 DEF Skip
  <2>2. QED
    BY <1>empty, <2>1, WriteKeeps, EmptyIsHonest
<1>2. CASE Begin
  <2>1. Goto("configs") /\ step[2] = "start" /\ Emptied /\ UNCHANGED <<style, sim, todo, results, final>>
    BY <1>2 DEF Begin
  <2>2. QED
    BY <1>stay, <1>empty, <2>1, PhaseKeeps
<1>3. CASE Configs
  <2>1. Goto("running") /\ step[2] = "configs" /\ UNCHANGED <<style, sim, expected, results, final>>
    BY <1>3 DEF Configs
  <2>2. listed' \in {Cfgs, {}} /\ todo' \in {Cfgs, {}}
    BY <1>3 DEF Configs, generated, VerdictInv, VerdictTyped
  <2>3. (DOMAIN results) \cup todo' = todo'
    BY <2>1, NoConfigsIs DEF VerdictInv, OnTheWay
  <2>4. QED
    BY <1>stay, <2>1, <2>2, <2>3, PhaseKeeps
<1>4. CASE RunConfig
  BY <1>4, RunConfigKeeps
<1>5. CASE Finish
  <2> DEFINE outcome == IF results = NoConfigs THEN "error"
                        ELSE worst({results[c].status : c \in DOMAIN results})
  <2>1. /\ Write(outcome, results) /\ step[2] = "running" /\ todo = {}
        /\ UNCHANGED <<listed, expected>>
    BY <1>5 DEF Finish
  <2>2. ASSUME step[1] = "simulator" PROVE Honest([status |-> outcome, configs |-> results])
    <3>1. step = <<"simulator", "running">>
      BY <2>1, <2>2 DEF VerdictInv, VerdictTyped
    <3>2. QED
      BY <2>1, <3>1, FinishIsHonest
  <2> HIDE DEF outcome
  <2>3. QED
    BY <1>stay, <2>1, <2>2, WriteKeeps
<1>6. CASE Raise
  <2>1. /\ Goto("raised") /\ step[2] # "ended"
        /\ UNCHANGED <<style, sim, listed, expected, todo, results, final>>
    BY <1>6 DEF Raise
  <2>2. QED
    BY <2>1, PhaseKeeps DEF VerdictInv, VerdictTyped
<1>7. CASE error_result
  <2>1. Write("error", NoConfigs) /\ step[2] # "ended" /\ UNCHANGED <<listed, expected>>
    BY <1>7 DEF error_result
  <2>2. QED
    BY <1>stay, <2>1, WriteKeeps, EmptyIsHonest
<1>8. CASE UNCHANGED vars
  BY <1>8 DEF vars, VerdictInv, VerdictTyped, OnTheWay, Written, Honest, Told, Sound
<1>9. QED
  BY <1>1, <1>2, <1>3, <1>4, <1>5, <1>6, <1>7, <1>8 DEF Next

LEMMA Inductive == Spec => []VerdictInv
  BY InitInv, NextInv, PTL DEF Spec

-----------------------------------------------------------------------------
(* A pass of any runner, style and configuration was earned by every       *)
(* simulation behind it, both X seeds of Verilator's, or by a rejection of *)
(* the model's own, and a test passes on such a configuration, never       *)
(* beside one that failed or ended in error (vector_check, reject_result,  *)
(* sv_check, _cocotb_verdict, _pair, worst, Runner.run).                   *)
THEOREM PassesAreEarned == Spec => []PassIsEarned
<1>1. VerdictInv => PassIsEarned
  <2> SUFFICES ASSUME VerdictInv, NEW r \in (DOMAIN final) \ {"python"}
               PROVE  /\ \A c \in DOMAIN final[r].configs :
                             final[r].configs[c].status = "pass" =>
                                /\ final[r].configs[c].truth = "good"
                                /\ final[r].configs[c].trace = "some"
                                /\ c \notin Excluded
                      /\ final[r].status = "pass" =>
                            /\ \E c \in DOMAIN final[r].configs : final[r].configs[c].status = "pass"
                            /\ \A c \in DOMAIN final[r].configs :
                                  final[r].configs[c].status \in {"pass", "skip"}
    BY DEF PassIsEarned
  <2>1. Honest(final[r])
    BY DEF VerdictInv, Written
  <2>2. \A c \in DOMAIN final[r].configs : Told(c, final[r].configs[c])
    BY <2>1 DEF Honest
  <2>3. QED
    BY <2>1, <2>2 DEF Honest, Told, Sound, Statuses
<1>2. QED
  BY <1>1, Inductive, PTL

(* A fail of any runner was seen in a simulation that ran to its end, and  *)
(* what was seen to fail is never the pass of its configuration.           *)
THEOREM FailsAreSeen == Spec => []FailIsSeen
<1>1. VerdictInv => FailIsSeen
  BY DEF VerdictInv, Written, Honest, Told, Sound, FailIsSeen
<1>2. QED
  BY <1>1, Inductive, PTL

(* A simulator reports every configuration or none, never a verdict on one *)
(* python left no expectation for, and a verdict of it is usable           *)
(* (load_generated, prepare_vector, worst).                                *)
THEOREM MatricesAreWhole == Spec => []MatrixIsWhole
<1>1. VerdictInv => MatrixIsWhole
  <2> SUFFICES ASSUME VerdictInv, NEW r \in (DOMAIN final) \ {"python"}
               PROVE  /\ final[r].configs # NoConfigs => DOMAIN final[r].configs = Cfgs
                      /\ Usable(final[r])
                      /\ style = "vector" => \A c \in DOMAIN final[r].configs :
                            expected[c] = None => final[r].configs[c].status \notin {"pass", "fail"}
    BY DEF MatrixIsWhole
  <2>1. Honest(final[r])
    BY DEF VerdictInv, Written
  <2>2. Usable(final[r])
    BY <2>1 DEF Usable, Honest
  <2>3. QED
    BY <2>1, <2>2 DEF Honest, Told
<1>2. QED
  BY <1>1, Inductive, PTL

-----------------------------------------------------------------------------
(***************************************************************************)
(* Provenance: recorded and compared results are of one tree, for any set  *)
(* of versions and of runners, whatever is edited while xut runs, except   *)
(* by a result under which the tree moved or that had foreign stimuli.     *)
(***************************************************************************)

Taken == [of : SUBSET Versions, sure : BOOLEAN]
Results == [tree : Versions, dirty : BOOLEAN, of : SUBSET Versions, sure : BOOLEAN]
Stages == {"idle", "queued", "reset", "head read", "stamped", "measured"}

(* A job that has asked for its stamp has one.                             *)
StampThere ==
    \A p \in Runners :
        /\ job[p] \in {"head read", "stamped", "measured"} => stamp[p] \in Stamps
        /\ job[p] = "measured" => measured[p] \in Taken

TypeInv == TypeOK /\ StampThere

(* A stamp that tells the truth about the tree.                            *)
Current(s) == s.tree = head /\ (s.dirty <=> work # head)

-----------------------------------------------------------------------------
(* A stamp under which the tree moves says what it said.                   *)
LEMMA ShakenIs ==
    ASSUME NEW st \in Stamps \cup {Nothing}
    PROVE  /\ Shaken(st) \in Stamps \cup {Nothing}
           /\ st \in Stamps => /\ Shaken(st) \in Stamps /\ Shaken(st).still = FALSE
                               /\ Shaken(st).tree = st.tree /\ Shaken(st).dirty = st.dirty
           /\ Shaken(st) # Nothing => Shaken(st) \in Stamps /\ Shaken(st).still = FALSE
<1>1. CASE st = Nothing
  BY <1>1, ProvenanceAssumption DEF Shaken
<1>2. CASE st # Nothing
  BY <1>2, ProvenanceAssumption DEF Shaken, Stamps
<1>3. QED
  BY <1>1, <1>2

LEMMA TreeMoves ==
    ASSUME TypeInv, NEW w \in Versions, NEW h \in Versions, MoveTree(w, h)
    PROVE  /\ work' = w /\ head' = h
           /\ stamp' \in [Runners -> Stamps \cup {Nothing}] /\ cache' \in Stamps \cup {Nothing}
           /\ \A p \in Runners : stamp'[p] = Shaken(stamp[p])
           /\ cache' = Shaken(cache)
           /\ UNCHANGED <<job, stim, measured, result, recorder, sha, status, compared>>
<1>1. stamp' = [p \in Runners |-> Shaken(stamp[p])] /\ cache' = Shaken(cache)
  BY DEF MoveTree
<1>2. \A p \in Runners : stamp[p] \in Stamps \cup {Nothing}
  BY DEF TypeInv, TypeOK
<1>3. \A p \in Runners : Shaken(stamp[p]) \in Stamps \cup {Nothing}
  BY <1>2, ShakenIs
<1>4. Shaken(cache) \in Stamps \cup {Nothing}
  BY ShakenIs DEF TypeInv, TypeOK
<1>5. QED
  BY <1>1, <1>3, <1>4 DEF MoveTree, record

LEMMA TreeMoved ==
    ASSUME NEW v \in Versions, TypeInv, Edit(v) \/ Checkout(v) \/ Commit
    PROVE  \E w \in Versions, h \in Versions : MoveTree(w, h)
  BY DEF Edit, Checkout, Commit, TypeInv, TypeOK

(* What a step of a job makes of that job, and that it leaves the others.  *)
LEMMA ReadHeadIs ==
    ASSUME TypeInv, NEW p \in Runners, ReadHead(p)
    PROVE  /\ job' = [job EXCEPT ![p] = "head read"]
           /\ stamp' = [stamp EXCEPT ![p] = stamp'[p]]
           /\ stamp'[p] \in Stamps /\ stamp'[p].tree = head
           /\ UNCHANGED <<work, head, cache, stim, measured, result, recorder, sha, status, compared>>
<1> DEFINE new == [tree |-> head, dirty |-> FALSE, still |-> TRUE]
<1>1. stamp' = [stamp EXCEPT ![p] = new]
  BY DEF ReadHead
<1>2. new \in Stamps /\ new.tree = head
  BY DEF TypeInv, TypeOK, Stamps
<1> HIDE DEF new
<1>3. stamp'[p] = new
  BY <1>1 DEF TypeInv, TypeOK
<1>4. QED
  BY <1>1, <1>2, <1>3 DEF ReadHead, Move, repo, record

LEMMA ReadStatusIs ==
    ASSUME TypeInv, NEW p \in Runners, ReadStatus(p)
    PROVE  /\ job[p] = "head read" /\ job' = [job EXCEPT ![p] = "stamped"]
           /\ stamp' = [stamp EXCEPT ![p] = stamp'[p]] /\ cache' = stamp'[p]
           /\ stamp'[p] \in Stamps /\ stamp'[p].tree = stamp[p].tree
           /\ stamp'[p].still = stamp[p].still /\ stamp'[p].dirty = (work # head)
           /\ UNCHANGED <<work, head, stim, measured, result, recorder, sha, status, compared>>
<1> DEFINE new == [stamp[p] EXCEPT !.dirty = (work # head)]
<1>1. job[p] = "head read" /\ stamp[p] \in Stamps
  BY DEF ReadStatus, Move, TypeInv, StampThere
<1>2. /\ new \in Stamps /\ new.tree = stamp[p].tree /\ new.still = stamp[p].still
      /\ new.dirty = (work # head)
  BY <1>1 DEF Stamps
<1>3. stamp' = [stamp EXCEPT ![p] = new]
  BY DEF ReadStatus
<1> HIDE DEF new
<1>4. stamp'[p] = new
  BY <1>3 DEF TypeInv, TypeOK
<1>5. QED
  BY <1>1, <1>2, <1>3, <1>4 DEF ReadStatus, Move, repo, record

LEMMA GenerateStimuliIs ==
    ASSUME TypeInv, GenerateStimuli
    PROVE  /\ job[Python] = "stamped" /\ job' = [job EXCEPT ![Python] = "measured"]
           /\ measured' = [measured EXCEPT ![Python] = measured'[Python]]
           /\ measured'[Python] \in Taken
           /\ measured'[Python].of = {work} /\ measured'[Python].sure = stamp[Python].still
           /\ stim' # Nothing => /\ stim' \in [of : Versions, tree : Versions, sure : BOOLEAN]
                                 /\ stim'.of = work /\ stim'.tree = stamp[Python].tree
                                 /\ stim'.sure => stamp[Python].still /\ ~ stamp[Python].dirty
           /\ UNCHANGED <<work, head, cache, stamp, result, recorder, sha, status, compared>>
<1> DEFINE st == stamp[Python]
           new == [of |-> {work}, sure |-> st.still]
           made == [of |-> work, tree |-> st.tree, sure |-> st.still /\ ~ st.dirty]
<1>0. Python \in Runners
  BY ProvenanceAssumption
<1>1. job[Python] = "stamped" /\ st \in Stamps /\ work \in Versions
  BY <1>0 DEF GenerateStimuli, Move, TypeInv, TypeOK, StampThere
<1>2. st.tree \in Versions /\ st.still \in BOOLEAN /\ st.dirty \in BOOLEAN
  BY <1>1 DEF Stamps
<1>3. new \in Taken /\ new.of = {work} /\ new.sure = st.still
  BY <1>1, <1>2 DEF Taken
<1>4. /\ made \in [of : Versions, tree : Versions, sure : BOOLEAN]
      /\ made.of = work /\ made.tree = st.tree /\ made.sure = (st.still /\ ~ st.dirty)
  BY <1>1, <1>2
<1>5. measured' = [measured EXCEPT ![Python] = new] /\ stim' \in {made, Nothing}
  BY DEF GenerateStimuli
<1> HIDE DEF new, made
<1>6. measured'[Python] = new
  BY <1>0, <1>5 DEF TypeInv, TypeOK
<1>7. QED
  BY <1>1, <1>3, <1>4, <1>5, <1>6 DEF GenerateStimuli, Move, repo, record

LEMMA SimulateIs ==
    ASSUME TypeInv, NEW p \in Runners, Simulate(p)
    PROVE  /\ job[p] = "stamped" /\ job' = [job EXCEPT ![p] = "measured"]
           /\ measured' = [measured EXCEPT ![p] = measured'[p]]
           /\ measured'[p] \in Taken
           /\ measured'[p].sure =>
                 /\ stamp[p].still
                 /\ \/ measured'[p].of = {work}
                    \/ /\ stim # Nothing /\ stim.sure /\ stim.tree = stamp[p].tree
                       /\ measured'[p].of = {work, stim.of}
           /\ UNCHANGED <<work, head, cache, stamp, stim, result, recorder, sha, status, compared>>
<1> DEFINE bare == [of |-> {work}, sure |-> stamp[p].still]
           given == [of |-> {work, stim.of},
                     sure |-> stamp[p].still /\ stim.sure /\ stim.tree = stamp[p].tree]
<1>1. job[p] = "stamped" /\ stamp[p] \in Stamps /\ work \in Versions
  BY DEF Simulate, Move, TypeInv, TypeOK, StampThere
<1>2. stamp[p].still \in BOOLEAN
  BY <1>1 DEF Stamps
<1>3. measured' = [measured EXCEPT ![p] = IF stim = Nothing THEN bare ELSE given]
  BY DEF Simulate
<1>4. bare \in Taken /\ bare.of = {work} /\ bare.sure = stamp[p].still
  BY <1>1, <1>2 DEF Taken
<1>5. ASSUME stim # Nothing
      PROVE  /\ given \in Taken /\ given.of = {work, stim.of}
             /\ given.sure = (stamp[p].still /\ stim.sure /\ stim.tree = stamp[p].tree)
  <2>1. stim.of \in Versions /\ stim.sure \in BOOLEAN
    BY <1>5 DEF TypeInv, TypeOK
  <2>2. {work, stim.of} \in SUBSET Versions
    BY <1>1, <2>1
  <2>3. QED
    BY <1>2, <2>1, <2>2 DEF Taken
<1> HIDE DEF bare, given
<1>6. measured'[p] = IF stim = Nothing THEN bare ELSE given
  BY <1>3 DEF TypeInv, TypeOK
<1>7. /\ measured' = [measured EXCEPT ![p] = measured'[p]]
      /\ UNCHANGED <<work, head, cache, stamp, stim, result, recorder, sha, status, compared>>
      /\ job' = [job EXCEPT ![p] = "measured"]
  BY <1>3, <1>6 DEF Simulate, Move, repo, record
<1>8. CASE stim = Nothing
  BY <1>1, <1>4, <1>6, <1>7, <1>8
<1>9. CASE stim # Nothing
  BY <1>1, <1>5, <1>6, <1>7, <1>9
<1>10. QED
  BY <1>8, <1>9

LEMMA WriteResultIs ==
    ASSUME TypeInv, NEW p \in Runners, WriteResult(p)
    PROVE  /\ job[p] = "measured" /\ job' = [job EXCEPT ![p] = "idle"]
           /\ result' = [result EXCEPT ![p] = result'[p]]
           /\ result'[p] \in Results
           /\ result'[p].tree = stamp[p].tree /\ result'[p].dirty = stamp[p].dirty
           /\ result'[p].of = measured[p].of /\ result'[p].sure = measured[p].sure
           /\ stamp' = [stamp EXCEPT ![p] = Nothing] /\ measured' = [measured EXCEPT ![p] = Nothing]
           /\ UNCHANGED <<work, head, cache, stim, recorder, sha, status, compared>>
<1> DEFINE new == [tree |-> stamp[p].tree, dirty |-> stamp[p].dirty,
                   of |-> measured[p].of, sure |-> measured[p].sure]
<1>1. job[p] = "measured" /\ stamp[p] \in Stamps /\ measured[p] \in Taken
  BY DEF WriteResult, Move, TypeInv, StampThere
<1>2. /\ new \in Results /\ new.tree = stamp[p].tree /\ new.dirty = stamp[p].dirty
      /\ new.of = measured[p].of /\ new.sure = measured[p].sure
  BY <1>1 DEF Stamps, Taken, Results
<1>3. result' = [result EXCEPT ![p] = new]
  BY DEF WriteResult
<1> HIDE DEF new
<1>4. result'[p] = new
  BY <1>3 DEF TypeInv, TypeOK
<1>5. QED
  BY <1>1, <1>2, <1>3, <1>4 DEF WriteResult, Move, repo, record

(* What results were measured on are versions.                             *)
LEMMA FoundVersions ==
    ASSUME TypeInv
    PROVE  /\ Measured \in SUBSET Versions /\ Sure \in BOOLEAN
           /\ \A p \in Found : result[p] \in Results
<1>1. \A p \in Found : result[p] \in Results
  BY DEF TypeInv, TypeOK, Found, Results
<1>2. \A p \in Found : result[p].of \in SUBSET Versions
  BY <1>1 DEF Results
<1>3. QED
  BY <1>1, <1>2 DEF Measured, Sure

(* What a record writes, if it does.                                       *)
LEMMA RecordIs ==
    ASSUME TypeInv, RecordResults
    PROVE  /\ UNCHANGED <<work, head, job, cache, stamp, stim, measured, result, compared>>
           /\ recorder' = "idle" /\ sha' = Nothing
           /\ \/ status' = status
              \/ /\ Found # {} /\ \A p \in Found : Fresh(p)
                 /\ status' \in [tree : Versions, of : SUBSET Versions, sure : BOOLEAN]
                 /\ status'.tree = sha /\ status'.of = Measured /\ status'.sure = Sure
<1> DEFINE new == [tree |-> sha, of |-> Measured, sure |-> Sure]
<1>1. CASE Found # {} /\ \A p \in Found : Fresh(p)
  <2>1. PICK q \in Found : result[q].tree = sha
    BY <1>1 DEF Fresh
  <2>2. sha \in Versions
    BY <2>1, FoundVersions DEF Results
  <2>3. /\ new \in [tree : Versions, of : SUBSET Versions, sure : BOOLEAN]
        /\ new.tree = sha /\ new.of = Measured /\ new.sure = Sure
    BY <2>2, FoundVersions
  <2>4. status' = new
    BY <1>1 DEF RecordResults
  <2> HIDE DEF new
  <2>5. QED
    BY <1>1, <2>3, <2>4 DEF RecordResults, repo, run
<1>2. CASE ~ (Found # {} /\ \A p \in Found : Fresh(p))
  BY <1>2 DEF RecordResults, repo, run
<1>3. QED
  BY <1>1, <1>2

LEMMA CrosscheckIs ==
    ASSUME TypeInv, Crosscheck
    PROVE  /\ UNCHANGED <<work, head, job, cache, stamp, stim, measured, result, recorder, sha, status>>
           /\ Found # {} /\ OneTree
           /\ compared' \in [of : SUBSET Versions, sure : BOOLEAN]
           /\ compared'.of = Measured /\ compared'.sure = Sure
  BY FoundVersions DEF Crosscheck, repo, run, record

(* Every variable keeps its type.                                          *)
LEMMA TypeStep == TypeInv /\ [ProvenanceNext]_provenanceVars => TypeInv'
<1> SUFFICES ASSUME TypeInv, [ProvenanceNext]_provenanceVars PROVE TypeInv'
  OBVIOUS
<1> USE DEF StampThere
<1>1. ASSUME NEW v \in Versions, Edit(v) \/ Checkout(v) \/ Commit PROVE TypeInv'
  <2>1. PICK w \in Versions, h \in Versions : MoveTree(w, h)
    BY <1>1, TreeMoved
  <2>2. /\ work' = w /\ head' = h
        /\ stamp' \in [Runners -> Stamps \cup {Nothing}] /\ cache' \in Stamps \cup {Nothing}
        /\ \A p \in Runners : stamp'[p] = Shaken(stamp[p])
        /\ UNCHANGED <<job, stim, measured, result, recorder, sha, status, compared>>
    BY <2>1, TreeMoves
  <2>3. \A p \in Runners : stamp[p] \in Stamps => stamp'[p] \in Stamps
    <3>1. ASSUME NEW p \in Runners, stamp[p] \in Stamps PROVE Shaken(stamp[p]) \in Stamps
      <4>1. stamp[p] \in Stamps \cup {Nothing}
        BY <3>1
      <4>2. QED
        BY <3>1, <4>1, ShakenIs
    <3>2. QED
      BY <2>2, <3>1
  <2>4. QED
    BY <2>2, <2>3 DEF TypeInv, TypeOK
<1>2. ASSUME NEW p \in Runners, Reset(p) PROVE TypeInv'
  BY <1>2 DEF Reset, Move, TypeInv, TypeOK, repo, record
<1>3. ASSUME NEW p \in Runners, StampCached(p) PROVE TypeInv'
  <2>1. cache \in Stamps
    BY <1>3 DEF StampCached, TypeInv, TypeOK
  <2>2. QED
    BY <1>3, <2>1 DEF StampCached, Move, TypeInv, TypeOK, repo, record
<1>4. ASSUME NEW p \in Runners, ReadHead(p) PROVE TypeInv'
  BY <1>4, ReadHeadIs DEF TypeInv, TypeOK
<1>5. ASSUME NEW p \in Runners, ReadStatus(p) PROVE TypeInv'
  BY <1>5, ReadStatusIs DEF TypeInv, TypeOK
<1>6. ASSUME NEW p \in Runners, Simulate(p) PROVE TypeInv'
  BY <1>6, SimulateIs DEF TypeInv, TypeOK, Taken
<1>7. ASSUME NEW p \in Runners, WriteResult(p) PROVE TypeInv'
  BY <1>7, WriteResultIs DEF TypeInv, TypeOK, Results
<1>8. CASE StartRun
  BY <1>8 DEF StartRun, TypeInv, TypeOK, repo, record
<1>9. CASE Abort
  BY <1>9 DEF Abort, TypeInv, TypeOK, repo, record
<1>10. CASE GenerateStimuli
  BY <1>10, GenerateStimuliIs, ProvenanceAssumption DEF TypeInv, TypeOK, Taken
<1>11. CASE RecordHead \/ RecordStatus
  BY <1>11 DEF RecordHead, RecordStatus, TypeInv, TypeOK, repo, run
<1>12. CASE RecordResults
  BY <1>12, RecordIs DEF TypeInv, TypeOK
<1>13. CASE Crosscheck
  BY <1>13, CrosscheckIs DEF TypeInv, TypeOK
<1>14. CASE Read
  BY <1>14 DEF Read, TypeInv, TypeOK, repo, run
<1>15. CASE UNCHANGED provenanceVars
  BY <1>15 DEF provenanceVars, TypeInv, TypeOK
<1>16. QED
  BY <1>1, <1>2, <1>3, <1>4, <1>5, <1>6, <1>7, <1>8, <1>9, <1>10, <1>11, <1>12, <1>13, <1>14, <1>15
     DEF ProvenanceNext, TypeInv, TypeOK

LEMMA TypeInvariant == ProvenanceSpec => []TypeInv
<1>1. ProvenanceInit => TypeInv
  BY ProvenanceAssumption DEF ProvenanceInit, TypeInv, TypeOK, StampThere
<1>2. QED
  BY <1>1, TypeStep, PTL DEF ProvenanceSpec

(* Every variable keeps its type.                                          *)
THEOREM ProvenanceTyped == ProvenanceSpec => []TypeOK
<1>1. TypeInv => TypeOK
  BY DEF TypeInv
<1>2. QED
  BY <1>1, TypeInvariant, PTL

-----------------------------------------------------------------------------
(* While the tree stands still, what a job has of its stamp is true of the *)
(* tree; a measurement that is sure, beside a clean stamp, is of its tree. *)
OwnStamp(p) ==
    /\ job[p] = "head read" /\ stamp[p].still => stamp[p].tree = head
    /\ job[p] = "stamped" /\ stamp[p].still => Current(stamp[p])
    /\ job[p] = "measured" /\ measured[p].sure /\ ~ stamp[p].dirty => measured[p].of = {stamp[p].tree}

Stamped ==
    /\ cache # Nothing /\ cache.still => Current(cache)
    /\ stim # Nothing /\ stim.sure => stim.of = stim.tree
    /\ \A p \in Runners : OwnStamp(p)

(* What a recorded file and a comparison rest on.                          *)
Outcome == EvidenceIsOfTheTree /\ OneTreePerComparison

ProvenanceInv == TypeInv /\ Stamped /\ CleanStampIsTrue /\ Outcome

(* A step of one job leaves what the others have.                          *)
LEMMA OthersOwn ==
    ASSUME TypeInv, Stamped, NEW p \in Runners, NEW q \in Runners \ {p}, UNCHANGED <<work, head>>,
           job'[q] = job[q], stamp'[q] = stamp[q], measured'[q] = measured[q]
    PROVE  OwnStamp(q)'
  BY DEF Stamped, OwnStamp, Current

LEMMA StampedStep == TypeInv /\ Stamped /\ [ProvenanceNext]_provenanceVars => Stamped'
<1> SUFFICES ASSUME TypeInv, Stamped, [ProvenanceNext]_provenanceVars PROVE Stamped'
  OBVIOUS
<1> USE DEF Current
<1>0. /\ job \in [Runners -> Stages]
      /\ stamp \in [Runners -> Stamps \cup {Nothing}]
      /\ measured \in [Runners -> Taken \cup {Nothing}]
  BY DEF TypeInv, TypeOK, Stages, Taken
<1>1. ASSUME NEW v \in Versions, Edit(v) \/ Checkout(v) \/ Commit PROVE Stamped'
  <2>1. PICK w \in Versions, h \in Versions : MoveTree(w, h)
    BY <1>1, TreeMoved
  <2>2. /\ \A p \in Runners : stamp'[p] = Shaken(stamp[p])
        /\ cache' = Shaken(cache)
        /\ UNCHANGED <<job, stim, measured>>
    BY <2>1, TreeMoves
  <2>3. cache' # Nothing => ~ cache'.still
    BY <2>2, ShakenIs DEF TypeInv, TypeOK
  <2>4. ASSUME NEW p \in Runners PROVE OwnStamp(p)'
    <3>1. CASE job[p] \in {"head read", "stamped", "measured"}
      <4>1. stamp[p] \in Stamps
        BY <3>1 DEF TypeInv, StampThere
      <4>2. stamp'[p].still = FALSE /\ stamp'[p].tree = stamp[p].tree /\ stamp'[p].dirty = stamp[p].dirty
        BY <2>2, <4>1, ShakenIs
      <4>3. job'[p] = job[p] /\ measured'[p] = measured[p]
        BY <2>2
      <4>4. job[p] = "measured" /\ measured[p].sure /\ ~ stamp[p].dirty => measured[p].of = {stamp[p].tree}
        BY DEF Stamped, OwnStamp
      <4>5. QED
        BY <4>2, <4>3, <4>4 DEF OwnStamp
    <3>2. CASE job[p] \notin {"head read", "stamped", "measured"}
      BY <2>2, <3>2 DEF OwnStamp
    <3>3. QED
      BY <3>1, <3>2
  <2>5. QED
    BY <2>2, <2>3, <2>4 DEF Stamped
<1>2. ASSUME NEW p \in Runners, Reset(p) PROVE Stamped'
  <2>1. /\ job' = [job EXCEPT ![p] = "reset"] /\ UNCHANGED <<work, head, cache, stamp, measured>>
        /\ stim' = stim \/ stim' = Nothing
    BY <1>2 DEF Reset, Move, repo
  <2>2. job'[p] = "reset"
    BY <1>0, <2>1
  <2>3. OwnStamp(p)'
    BY <2>2 DEF OwnStamp
  <2>4. \A q \in Runners \ {p} : OwnStamp(q)'
    BY <1>0, <2>1, OthersOwn
  <2>5. QED
    BY <2>1, <2>3, <2>4 DEF Stamped
<1>3. ASSUME NEW p \in Runners, StampCached(p) PROVE Stamped'
  <2>1. /\ cache # Nothing /\ job' = [job EXCEPT ![p] = "stamped"] /\ stamp' = [stamp EXCEPT ![p] = cache]
        /\ UNCHANGED <<work, head, cache, stim, measured>>
    BY <1>3 DEF StampCached, Move, repo
  <2>2. job'[p] = "stamped" /\ stamp'[p] = cache
    BY <1>0, <2>1
  <2>3. OwnStamp(p)'
    BY <2>1, <2>2 DEF OwnStamp, Stamped
  <2>4. \A q \in Runners \ {p} : OwnStamp(q)'
    BY <1>0, <2>1, OthersOwn
  <2>5. QED
    BY <2>1, <2>3, <2>4 DEF Stamped
<1>4. ASSUME NEW p \in Runners, ReadHead(p) PROVE Stamped'
  <2>1. /\ job' = [job EXCEPT ![p] = "head read"] /\ stamp' = [stamp EXCEPT ![p] = stamp'[p]]
        /\ stamp'[p].tree = head
        /\ UNCHANGED <<work, head, cache, stim, measured>>
    BY <1>4, ReadHeadIs
  <2>2. job'[p] = "head read"
    BY <1>0, <2>1
  <2>3. OwnStamp(p)'
    BY <2>1, <2>2 DEF OwnStamp
  <2>4. \A q \in Runners \ {p} : OwnStamp(q)'
    BY <1>0, <2>1, OthersOwn
  <2>5. QED
    BY <2>1, <2>3, <2>4 DEF Stamped
<1>5. ASSUME NEW p \in Runners, ReadStatus(p) PROVE Stamped'
  <2>1. /\ job[p] = "head read" /\ job' = [job EXCEPT ![p] = "stamped"]
        /\ stamp' = [stamp EXCEPT ![p] = stamp'[p]] /\ cache' = stamp'[p]
        /\ stamp'[p].tree = stamp[p].tree
        /\ stamp'[p].still = stamp[p].still /\ stamp'[p].dirty = (work # head)
        /\ UNCHANGED <<work, head, stim, measured>>
    BY <1>5, ReadStatusIs
  <2>2. job'[p] = "stamped"
    BY <1>0, <2>1
  <2>3. stamp[p].still => stamp[p].tree = head
    BY <2>1 DEF Stamped, OwnStamp
  <2>4. OwnStamp(p)' /\ (cache'.still => Current(cache)')
    BY <2>1, <2>2, <2>3 DEF OwnStamp
  <2>5. \A q \in Runners \ {p} : OwnStamp(q)'
    BY <1>0, <2>1, OthersOwn
  <2>6. QED
    BY <2>1, <2>4, <2>5 DEF Stamped
<1>6. ASSUME NEW p \in Runners, Simulate(p) PROVE Stamped'
  <2>1. /\ job[p] = "stamped" /\ job' = [job EXCEPT ![p] = "measured"]
        /\ measured' = [measured EXCEPT ![p] = measured'[p]]
        /\ measured'[p].sure =>
              /\ stamp[p].still
              /\ \/ measured'[p].of = {work}
                 \/ /\ stim # Nothing /\ stim.sure /\ stim.tree = stamp[p].tree
                    /\ measured'[p].of = {work, stim.of}
        /\ UNCHANGED <<work, head, cache, stamp, stim>>
    BY <1>6, SimulateIs
  <2>2. job'[p] = "measured"
    BY <1>0, <2>1
  <2>3. ASSUME measured'[p].sure, ~ stamp[p].dirty PROVE measured'[p].of = {stamp[p].tree}
    <3>1. stamp[p].tree = work
      BY <2>1, <2>3 DEF Stamped, OwnStamp
    <3>2. stim # Nothing /\ stim.sure => stim.of = stim.tree
      BY DEF Stamped
    <3>3. QED
      BY <2>1, <2>3, <3>1, <3>2
  <2>4. OwnStamp(p)'
    BY <2>1, <2>2, <2>3 DEF OwnStamp
  <2>5. \A q \in Runners \ {p} : OwnStamp(q)'
    BY <1>0, <2>1, OthersOwn
  <2>6. QED
    BY <2>1, <2>4, <2>5 DEF Stamped
<1>7. ASSUME NEW p \in Runners, WriteResult(p) PROVE Stamped'
  <2>1. /\ job' = [job EXCEPT ![p] = "idle"]
        /\ stamp' = [stamp EXCEPT ![p] = Nothing] /\ measured' = [measured EXCEPT ![p] = Nothing]
        /\ UNCHANGED <<work, head, cache, stim>>
    BY <1>7, WriteResultIs
  <2>2. job'[p] = "idle"
    BY <1>0, <2>1
  <2>3. OwnStamp(p)'
    BY <2>2 DEF OwnStamp
  <2>4. \A q \in Runners \ {p} : OwnStamp(q)'
    BY <1>0, <2>1, OthersOwn
  <2>5. QED
    BY <2>1, <2>3, <2>4 DEF Stamped
<1>8. CASE StartRun
  <2>1. cache' = Nothing /\ stim' = stim /\ \A p \in Runners : job'[p] \in {"queued", "idle"}
    BY <1>8 DEF StartRun
  <2>2. QED
    BY <2>1 DEF Stamped, OwnStamp
<1>9. CASE Abort
  <2>1. cache' = Nothing /\ stim' = stim /\ \A p \in Runners : job'[p] = "idle"
    BY <1>9 DEF Abort
  <2>2. QED
    BY <2>1 DEF Stamped, OwnStamp
<1>10. CASE GenerateStimuli
  <2>0. Python \in Runners
    BY ProvenanceAssumption
  <2>1. /\ job[Python] = "stamped" /\ job' = [job EXCEPT ![Python] = "measured"]
        /\ measured' = [measured EXCEPT ![Python] = measured'[Python]]
        /\ measured'[Python].of = {work} /\ measured'[Python].sure = stamp[Python].still
        /\ stim' # Nothing => /\ stim'.of = work /\ stim'.tree = stamp[Python].tree
                              /\ stim'.sure => stamp[Python].still /\ ~ stamp[Python].dirty
        /\ UNCHANGED <<work, head, cache, stamp>>
    BY <1>10, GenerateStimuliIs
  <2>2. job'[Python] = "measured"
    BY <1>0, <2>0, <2>1
  <2>3. stamp[Python].still /\ ~ stamp[Python].dirty => stamp[Python].tree = work
    BY <2>0, <2>1 DEF Stamped, OwnStamp
  <2>4. OwnStamp(Python)'
    BY <2>1, <2>2, <2>3 DEF OwnStamp
  <2>5. \A q \in Runners \ {Python} : OwnStamp(q)'
    BY <1>0, <2>0, <2>1, OthersOwn
  <2>6. stim' # Nothing /\ stim'.sure => stim'.of = stim'.tree
    BY <2>1, <2>3
  <2>7. QED
    BY <2>1, <2>4, <2>5, <2>6 DEF Stamped
<1>11. CASE RecordHead \/ RecordStatus \/ RecordResults \/ Crosscheck \/ Read \/ UNCHANGED provenanceVars
  <2>1. UNCHANGED <<work, head, job, cache, stamp, stim, measured>>
    BY <1>11 DEF RecordHead, RecordStatus, RecordResults, Crosscheck, Read, provenanceVars, repo, run
  <2>2. QED
    BY <2>1 DEF Stamped, OwnStamp
<1>12. QED
  BY <1>1, <1>2, <1>3, <1>4, <1>5, <1>6, <1>7, <1>8, <1>9, <1>10, <1>11
     DEF ProvenanceNext, TypeInv, TypeOK

(* So a sure result that is written with a clean stamp is of its tree.     *)
LEMMA CleanStep == TypeInv /\ Stamped /\ CleanStampIsTrue /\ [ProvenanceNext]_provenanceVars => CleanStampIsTrue'
<1> SUFFICES ASSUME TypeInv, Stamped, CleanStampIsTrue, [ProvenanceNext]_provenanceVars PROVE CleanStampIsTrue'
  OBVIOUS
<1>1. ASSUME NEW p \in Runners, WriteResult(p) PROVE CleanStampIsTrue'
  <2>1. /\ job[p] = "measured" /\ result' = [result EXCEPT ![p] = result'[p]]
        /\ result'[p].tree = stamp[p].tree /\ result'[p].dirty = stamp[p].dirty
        /\ result'[p].of = measured[p].of /\ result'[p].sure = measured[p].sure
    BY <1>1, WriteResultIs
  <2>2. ~ result'[p].dirty /\ result'[p].sure => result'[p].of = {result'[p].tree}
    BY <2>1 DEF Stamped, OwnStamp
  <2>3. \A q \in Runners \ {p} : result'[q] = result[q]
    BY <2>1 DEF TypeInv, TypeOK
  <2>4. QED
    BY <2>2, <2>3 DEF CleanStampIsTrue, Found
<1>2. ASSUME NEW p \in Runners, Reset(p) PROVE CleanStampIsTrue'
  <2>1. result' = [result EXCEPT ![p] = Nothing]
    BY <1>2 DEF Reset
  <2>2. result'[p] = Nothing /\ \A q \in Runners \ {p} : result'[q] = result[q]
    BY <2>1 DEF TypeInv, TypeOK
  <2>3. QED
    BY <2>2 DEF CleanStampIsTrue, Found
<1>3. (\A p \in Runners : ~ WriteResult(p) /\ ~ Reset(p)) => result' = result
  BY DEF ProvenanceNext, provenanceVars, run, Edit, Commit, Checkout, MoveTree, StartRun, Abort,
         StampCached, ReadHead, ReadStatus, Simulate, GenerateStimuli, RecordHead, RecordStatus,
         RecordResults, Crosscheck, Read
<1>4. ASSUME result' = result PROVE CleanStampIsTrue'
  BY <1>4 DEF CleanStampIsTrue, Found
<1>5. QED
  BY <1>1, <1>2, <1>3, <1>4

(* The union of sets that are all {x}.                                     *)
LEMMA UnionOfOne ==
    ASSUME NEW Y, Y # {}, NEW x, \A y \in Y : y = {x}
    PROVE UNION Y = {x}
  OBVIOUS

LEMMA OfOneTree ==
    ASSUME Found # {}, NEW v, \A p \in Found : result[p].of = {v}
    PROVE  Measured = {v}
<1> DEFINE Y == {result[p].of : p \in Found}
<1>1. Y # {} /\ \A y \in Y : y = {v}
  OBVIOUS
<1> HIDE DEF Y
<1>2. UNION Y = {v}
  BY <1>1, UnionOfOne
<1>3. QED
  BY <1>2 DEF Y, Measured

(* Fresh results are of the recorded tree, and one tree is one version.    *)
LEMMA OutcomeStep == TypeInv /\ CleanStampIsTrue /\ Outcome /\ [ProvenanceNext]_provenanceVars => Outcome'
<1> SUFFICES ASSUME TypeInv, CleanStampIsTrue, Outcome, [ProvenanceNext]_provenanceVars PROVE Outcome'
  OBVIOUS
<1> USE DEF Outcome, EvidenceIsOfTheTree, OneTreePerComparison
<1>1. CASE RecordResults
  <2>1. compared' = compared
    BY <1>1, RecordIs
  <2>2. CASE status' = status
    BY <2>1, <2>2
  <2>3. CASE status' # status
    <3>1. /\ Found # {} /\ \A p \in Found : Fresh(p)
          /\ status'.tree = sha /\ status'.of = Measured /\ status'.sure = Sure
      BY <1>1, <2>3, RecordIs
    <3>2. ASSUME Sure PROVE Measured = {sha}
      <4>1. \A p \in Found : result[p].of = {sha}
        BY <3>1, <3>2 DEF Fresh, Sure, CleanStampIsTrue
      <4>2. QED
        BY <3>1, <4>1, OfOneTree
    <3>3. QED
      BY <2>1, <3>1, <3>2
  <2>4. QED
    BY <2>2, <2>3
<1>2. CASE Crosscheck
  <2>1. /\ Found # {} /\ OneTree /\ status' = status
        /\ compared'.of = Measured /\ compared'.sure = Sure
    BY <1>2, CrosscheckIs
  <2>2. ASSUME Sure PROVE \E v \in Versions : Measured = {v}
    <3>1. PICK v \in Versions : \A p \in Found : result[p].tree = v /\ ~ result[p].dirty
      BY <2>1 DEF OneTree
    <3>2. \A p \in Found : result[p].of = {v}
      BY <2>2, <3>1 DEF Sure, CleanStampIsTrue
    <3>3. QED
      BY <2>1, <3>2, OfOneTree
  <2>3. QED
    BY <2>1, <2>2
<1>3. CASE Read
  BY <1>3 DEF Read
<1>4. ~ RecordResults /\ ~ Crosscheck /\ ~ Read => UNCHANGED <<status, compared>>
  BY DEF ProvenanceNext, provenanceVars, record, Edit, Commit, Checkout, MoveTree, StartRun, Abort, Reset,
         StampCached, ReadHead, ReadStatus, Simulate, GenerateStimuli, WriteResult, RecordHead, RecordStatus
<1>5. QED
  BY <1>1, <1>2, <1>3, <1>4

LEMMA ProvenanceInvariant == ProvenanceSpec => []ProvenanceInv
<1>1. ProvenanceInit => ProvenanceInv
  <2>1. ProvenanceInit => TypeInv
    BY ProvenanceAssumption DEF ProvenanceInit, TypeInv, TypeOK, StampThere
  <2>2. ProvenanceInit => Stamped /\ CleanStampIsTrue /\ Outcome
    BY DEF ProvenanceInit, Stamped, OwnStamp, CleanStampIsTrue, Found, Outcome, EvidenceIsOfTheTree,
           OneTreePerComparison
  <2>3. QED
    BY <2>1, <2>2 DEF ProvenanceInv
<1>2. ProvenanceInv /\ [ProvenanceNext]_provenanceVars => ProvenanceInv'
  BY TypeStep, StampedStep, CleanStep, OutcomeStep DEF ProvenanceInv
<1>3. QED
  BY <1>1, <1>2, PTL DEF ProvenanceSpec

(* Whatever is edited or committed, at any time, and whatever is re-run in *)
(* part: the results behind a status file were measured on the tree that   *)
(* it names, unless the tree moved under one of them between its stamp and *)
(* its measurement, or a simulator was given stimuli of another tree.      *)
THEOREM RecordsAreOfTheTree == ProvenanceSpec => []EvidenceIsOfTheTree
<1>1. ProvenanceInv => EvidenceIsOfTheTree
  BY DEF ProvenanceInv, Outcome
<1>2. QED
  BY <1>1, ProvenanceInvariant, PTL

(* Compared results were measured on one tree, with the same exceptions.   *)
THEOREM ComparisonsAreOfOneTree == ProvenanceSpec => []OneTreePerComparison
<1>1. ProvenanceInv => OneTreePerComparison
  BY DEF ProvenanceInv, Outcome
<1>2. QED
  BY <1>1, ProvenanceInvariant, PTL

(* A result that says it is of a clean tree is of that tree, with the same *)
(* exceptions.                                                             *)
THEOREM CleanStampsAreTrue == ProvenanceSpec => []CleanStampIsTrue
<1>1. ProvenanceInv => CleanStampIsTrue
  BY DEF ProvenanceInv
<1>2. QED
  BY <1>1, ProvenanceInvariant, PTL
=============================================================================
