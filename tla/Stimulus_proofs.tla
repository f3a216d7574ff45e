--------------------------- MODULE Stimulus_proofs ---------------------------
(***************************************************************************)
(* The stimulus that a generator's builder hands to every runner, and what *)
(* the testbench makes of it: for any gaps, periods and sequences of calls, *)
(* and for any files.                                                      *)
(***************************************************************************)
EXTENDS EquivStimulus, WellFoundedInduction, SequenceTheorems, TLAPS

-----------------------------------------------------------------------------
(* The builder: "the output is valid by construction" (stimgen.py), for    *)
(* any gaps, periods and sequences of calls.                               *)
(*                                                                         *)
(* What the events and the cursor of a builder keep to, between any two    *)
(* calls.  An event is alone at its time because the cursor moves past it; *)
(* only data sets, and what a simultaneous() block holds, are still at the *)
(* cursor.                                                                 *)

BuilderEvents ==
    [t : Nat, op : {"set", "glbl", "edge", "sample"}, target : Ports \cup {"GSR", "C"} \cup Nat,
     value : {0, 1}, sim : BOOLEAN]

Builders ==
    [t : Nat, ev : Seq(BuilderEvents), vals : [Ports -> {0, 1}], level : {0, 1}, at : Int,
     put : SUBSET Ports, change : Nat, edge : Int, sim : Int, n : Nat]

(* What an event is aimed at.                                              *)
Aimed(e) ==
    /\ e.op = "set" => e.target \in Ports
    /\ e.op = "edge" => e.target = "C"
    /\ e.op = "glbl" => e.target = "GSR"

FieldsTyped(x) ==
    /\ x \in Builders /\ x.sim >= -1
    /\ \A i \in 1 .. Len(x.ev) : Aimed(x.ev[i])

(* Distinct times are at least Gap apart.                                  *)
Ordered(x) ==
    \A i, j \in 1 .. Len(x.ev) : i < j =>
        x.ev[i].t = x.ev[j].t \/ x.ev[i].t + Gap <= x.ev[j].t

IsInitial(e) == e.t = 0 /\ e.op = "set" /\ ~ e.sim

Cleared(x) == \A i \in 1 .. Len(x.ev) : x.ev[i].t >= Settle \/ IsInitial(x.ev[i])

(* What the builder remembers of the events it has emitted.                *)
Past(x) ==
    /\ \A i \in 1 .. Len(x.ev) :
          /\ x.ev[i].t <= x.t
          /\ IsChange(x.ev[i]) => x.ev[i].t <= x.change
          /\ x.ev[i].op = "edge" => x.ev[i].t <= x.edge
          /\ x.ev[i].op = "set" =>
                x.ev[i].t <= x.at /\ (x.ev[i].t = x.at => x.ev[i].target \in x.put)
          /\ x.ev[i].op = "sample" => x.ev[i].t < x.t
          /\ IsAsync(x.ev[i]) /\ ~ x.ev[i].sim /\ x.ev[i].t # 0 => x.ev[i].t + SepPs <= x.t
    /\ x.at = -1 \/ \E i \in 1 .. Len(x.ev) : x.ev[i].t = x.at

(* What shares the cursor's time.                                          *)
Cursor(x) ==
    IF InSim(x)
    THEN /\ x.sim <= Len(x.ev)
         /\ \A i \in 1 .. Len(x.ev) :
               (x.ev[i].t = x.t <=> i > Len(x.ev) - x.sim) /\ (x.ev[i].t = x.t => x.ev[i].sim)
    ELSE \A i \in 1 .. Len(x.ev) : x.ev[i].t = x.t =>
             x.ev[i].op = "set" /\ ~ x.ev[i].sim /\ (x.t = 0 \/ x.ev[i].target \in DataPorts)

(* Two events: what may share a time, and what must be how far apart.      *)
AsyncApartFrom(a, e) ==
    IsAsync(a) /\ ~ a.sim /\ a.t # 0 /\ e.op = "edge" => a.t + SepPs <= e.t \/ e.t + SepPs <= a.t
MayMeet(d, e) ==
    /\ d.sim = e.sim
    /\ d.op = "set" /\ e.op = "set" => d.target # e.target
    /\ ~ d.sim => d.op = "set" /\ e.op = "set" /\ (d.t # 0 => ~ IsAsync(d) /\ ~ IsAsync(e))
Apart(d, e) ==
    /\ AsyncApartFrom(d, e) /\ AsyncApartFrom(e, d)
    /\ d.t = e.t => MayMeet(d, e) /\ d.op # "sample" /\ e.op # "sample"
AllApart(x) == \A i, j \in 1 .. Len(x.ev) : i < j => Apart(x.ev[i], x.ev[j])

(* A marked event is not alone, but in a block that is still open.         *)
Marked(x) ==
    \A i \in 1 .. Len(x.ev) : x.ev[i].sim /\ (InSim(x) => x.ev[i].t # x.t) =>
        \E j \in 1 .. Len(x.ev) : j # i /\ x.ev[j].t = x.ev[i].t

EdgesOf(s) == {i \in 1 .. Len(s) : s[i].op = "edge"}
Levels(x) ==
    /\ \A i \in EdgesOf(x.ev) :
          \/ x.ev[i].value = 1 /\ \A j \in EdgesOf(x.ev) : i <= j
          \/ \E m \in EdgesOf(x.ev) :
                /\ m < i /\ \A j \in EdgesOf(x.ev) : j < i => j <= m
                /\ x.ev[m].value # x.ev[i].value
    /\ \/ EdgesOf(x.ev) = {} /\ x.level = 0
       \/ \E m \in EdgesOf(x.ev) :
             x.level = x.ev[m].value /\ \A j \in EdgesOf(x.ev) : j <= m

BInv(x) ==
    /\ FieldsTyped(x) /\ Ordered(x) /\ Cleared(x) /\ Past(x) /\ Cursor(x) /\ AllApart(x) /\ Marked(x)
    /\ Levels(x)

-----------------------------------------------------------------------------
LEMMA MaxOfTwo ==
    ASSUME NEW m \in Int, NEW n \in Int
    PROVE  /\ MaxOf({m, n}) \in {m, n} /\ MaxOf({m, n}) >= m /\ MaxOf({m, n}) >= n
<1>1. \E k \in {m, n} : \A l \in {m, n} : k >= l
  <2>1. m >= n \/ n >= m
    OBVIOUS
  <2>2. QED
    BY <2>1
<1>2. MaxOf({m, n}) \in {m, n} /\ \A l \in {m, n} : MaxOf({m, n}) >= l
  BY <1>1 DEF MaxOf
<1>3. QED
  BY <1>2

LEMMA MaxOfNats ==
    ASSUME NEW m \in Nat, NEW n \in Int
    PROVE  MaxOf({m, n}) \in Nat /\ MaxOf({m, n}) >= m /\ MaxOf({m, n}) >= n
<1> DEFINE k == MaxOf({m, n})
<1>1. (k = m \/ k = n) /\ k >= m /\ k >= n
  BY MaxOfTwo
<1> HIDE DEF k
<1>2. k \in Nat /\ k >= m /\ k >= n
  BY <1>1
<1>3. QED
  BY <1>2 DEF k

LEMMA Numbers ==
    /\ GapPs \in Nat /\ SepPs \in Nat /\ PrimGap \in Nat /\ Period \in Nat /\ Settle \in Nat
    /\ MinSep \in Nat /\ RocWidth \in Nat /\ MinSep > 0
    /\ Gap \in Nat /\ Gap >= MinSep /\ Gap > 0 /\ SepPs > 0
    /\ min_event_gap(SepPs) \in Nat /\ Gap >= min_event_gap(SepPs)
    /\ Settle > 0
<1>1. /\ GapPs \in Nat /\ SepPs \in Nat /\ PrimGap \in Nat /\ Period \in Nat /\ Settle \in Nat
      /\ MinSep \in Nat /\ RocWidth \in Nat
      /\ GapPs >= MinSep /\ SepPs >= MinSep /\ MinSep > 0
      /\ Settle >= RocWidth + MinSep
  BY StimulusAssumption
<1>2. min_event_gap(SepPs) \in {SepPs, PrimGap}
  BY <1>1, MaxOfTwo DEF min_event_gap
<1>3. min_event_gap(SepPs) \in Nat
  BY <1>1, <1>2
<1>4. Gap \in {GapPs, min_event_gap(SepPs)} /\ Gap >= GapPs /\ Gap >= min_event_gap(SepPs)
  BY <1>1, <1>3, MaxOfTwo DEF Gap
<1>5. QED
  BY <1>1, <1>3, <1>4

LEMMA EventFields ==
    ASSUME NEW x, FieldsTyped(x), NEW i \in 1 .. Len(x.ev)
    PROVE  /\ x.ev[i].t \in Nat /\ x.ev[i].sim \in BOOLEAN /\ x.ev[i].value \in {0, 1}
           /\ x.ev[i].op \in {"set", "glbl", "edge", "sample"}
<1>1. x.ev \in Seq(BuilderEvents)
  BY DEF FieldsTyped, Builders
<1>2. x.ev[i] \in BuilderEvents
  BY <1>1
<1>3. QED
  BY <1>2 DEF BuilderEvents

LEMMA Fields ==
    ASSUME NEW x, FieldsTyped(x)
    PROVE  /\ x.t \in Nat /\ x.at \in Int /\ x.put \subseteq Ports /\ x.change \in Nat /\ x.edge \in Int
           /\ x.sim \in Int /\ x.sim >= -1 /\ x.n \in Nat /\ x.level \in {0, 1}
           /\ x.vals \in [Ports -> {0, 1}] /\ x.ev \in Seq(BuilderEvents) /\ Len(x.ev) \in Nat
<1>1. x \in Builders /\ x.sim >= -1
  BY DEF FieldsTyped
<1>2. x.ev \in Seq(BuilderEvents)
  BY <1>1 DEF Builders
<1>3. QED
  BY <1>1, <1>2 DEF Builders

LEMMA StartsSound == BInv(NewBuilder) /\ NewBuilder.t >= Settle /\ ~ InSim(NewBuilder)
<1>1. NewBuilder \in Builders
  BY Numbers DEF NewBuilder, Builders
<1>2. NewBuilder.ev = <<>> /\ Len(NewBuilder.ev) = 0
  BY DEF NewBuilder
<1>3. 1 .. Len(NewBuilder.ev) = {} /\ EdgesOf(NewBuilder.ev) = {}
  BY <1>2 DEF EdgesOf
<1>4. NewBuilder.t = Settle /\ NewBuilder.sim = -1 /\ NewBuilder.level = 0 /\ NewBuilder.at = -1
  BY DEF NewBuilder
<1>5. ~ InSim(NewBuilder)
  BY <1>4 DEF InSim
<1>6. FieldsTyped(NewBuilder) /\ Levels(NewBuilder)
  BY <1>1, <1>3, <1>4 DEF FieldsTyped, Levels
<1>7. Ordered(NewBuilder) /\ Cleared(NewBuilder) /\ Past(NewBuilder) /\ AllApart(NewBuilder)
  BY <1>3, <1>4 DEF Ordered, Cleared, Past, AllApart
<1>8. Cursor(NewBuilder) /\ Marked(NewBuilder)
  BY <1>3, <1>5 DEF Cursor, Marked
<1>9. QED
  BY <1>4, <1>5, <1>6, <1>7, <1>8, Numbers DEF BInv

(* The cursor moves on.                                                    *)
LEMMA MovesOn ==
    ASSUME NEW x, BInv(x), NEW t \in Nat, t >= x.t, NEW y, y = [x EXCEPT !.t = t],
           t # x.t => \A i \in 1 .. Len(x.ev) : InSim(x) => x.ev[i].t < x.t
    PROVE  BInv(y)
<1>1. y \in Builders /\ y.t = t /\ y.ev = x.ev /\ y.level = x.level /\ y.at = x.at /\ y.put = x.put
      /\ y.change = x.change /\ y.edge = x.edge /\ y.sim = x.sim
  BY DEF BInv, FieldsTyped, Builders
<1>2. CASE t = x.t
  <2>1. y = x
    BY <1>2 DEF BInv, FieldsTyped, Builders
  <2>2. QED
    BY <2>1
<1>3. CASE t > x.t
  <2> USE <1>1
  <2>1. FieldsTyped(y) /\ Ordered(y) /\ Cleared(y) /\ AllApart(y) /\ Levels(y)
    BY DEF BInv, FieldsTyped, Ordered, Cleared, AllApart, Levels
  <2>2. x.t \in Nat /\ SepPs \in Nat /\ x.sim \in Int /\ Len(x.ev) \in Nat
    BY Numbers, Fields DEF BInv
  <2>3. ASSUME NEW i \in 1 .. Len(x.ev) PROVE x.ev[i].t \in Nat /\ x.ev[i].t <= x.t /\ x.ev[i].t < t
    <3>1. x.ev[i].t \in Nat /\ x.ev[i].t <= x.t
      BY EventFields DEF BInv, Past
    <3>2. QED
      BY <1>3, <2>2, <3>1
  <2>4. Past(y)
    <3>1. ASSUME NEW i \in 1 .. Len(x.ev), x.ev[i].t + SepPs <= x.t PROVE x.ev[i].t + SepPs <= t
      BY <1>3, <2>2, <2>3, <3>1
    <3>2. QED
      BY <2>2, <2>3, <3>1 DEF BInv, Past
  <2>5. Cursor(y)
    <3>1. CASE ~ InSim(x)
      <4>1. ~ InSim(y)
        BY <3>1 DEF InSim
      <4>2. QED
        BY <4>1, <2>2, <2>3 DEF Cursor
    <3>2. CASE InSim(x)
      <4>1. InSim(y)
        BY <3>2 DEF InSim
      <4>2. \A i \in 1 .. Len(x.ev) : x.ev[i].t # x.t
        BY <1>3, <2>2, <2>3, <3>2
      <4>3. x.sim <= Len(x.ev) /\ \A i \in 1 .. Len(x.ev) : ~ (i > Len(x.ev) - x.sim)
        BY <3>2, <4>2 DEF BInv, Cursor
      <4>4. QED
        BY <4>1, <4>3, <2>2, <2>3 DEF Cursor
    <3>3. QED
      BY <3>1, <3>2
  <2>6. Marked(y)
    <3>1. InSim(y) <=> InSim(x)
      BY DEF InSim
    <3>2. \A i \in 1 .. Len(x.ev) : InSim(x) => x.ev[i].t # x.t
      BY <1>3, <2>2, <2>3
    <3>3. QED
      BY <3>1, <3>2 DEF BInv, Marked
  <2>7. QED
    BY <2>1, <2>4, <2>5, <2>6 DEF BInv
<1>4. QED
  BY <1>2, <1>3, Fields DEF BInv

(* One event more: e at the cursor of y, which makes z.                    *)
Remembers(y, e, z) ==
    /\ z.change = IF IsChange(e) THEN y.t ELSE y.change
    /\ z.edge = IF e.op = "edge" THEN y.t ELSE y.edge
    /\ IF e.op = "edge" THEN e.value = 1 - y.level /\ z.level = e.value ELSE z.level = y.level
    /\ IF e.op = "set"
       THEN z.at = y.t /\ z.put = SetNow(y) \cup {e.target} /\ e.target \notin SetNow(y)
       ELSE z.at = y.at /\ z.put = y.put
    /\ z.sim = IF InSim(y) THEN y.sim + 1 ELSE y.sim

SharesTime(y, e) == e.op = "set" /\ (y.t = 0 \/ e.target \in DataPorts)
IsAlone(y, e, z) ==
    /\ y.change < y.t /\ y.t < z.t
    /\ IsAsync(e) => y.t + SepPs <= z.t /\ (y.edge = -1 \/ y.edge + SepPs <= y.t)

Adds(y, e, z) ==
    /\ e \in BuilderEvents /\ z \in Builders /\ z.ev = Append(y.ev, e) /\ y.t <= z.t
    /\ e.t = y.t /\ e.sim = InSim(y) /\ Aimed(e)
    /\ \A i \in 1 .. Len(y.ev) : y.ev[i].t = y.t \/ y.ev[i].t + Gap <= y.t
    /\ y.t >= Settle \/ IsInitial(e)
    /\ Remembers(y, e, z)
    /\ IF InSim(y) THEN e.op # "sample" /\ z.t = y.t ELSE SharesTime(y, e) \/ IsAlone(y, e, z)

LEMMA AddsEvent ==
    ASSUME NEW y, BInv(y), NEW e, NEW z, Adds(y, e, z)
    PROVE  BInv(z)
<1> DEFINE k == Len(y.ev)
<1>1. /\ y.t \in Nat /\ y.at \in Int /\ y.change \in Nat /\ y.edge \in Int /\ y.sim \in Int /\ y.sim >= -1
      /\ k \in Nat
  BY Fields DEF BInv
<1>2. z.t \in Nat /\ z.at \in Int /\ z.change \in Nat /\ z.edge \in Int /\ z.sim \in Int
  BY DEF Adds, Builders
<1>3. e.t \in Nat /\ e.sim \in BOOLEAN /\ e.op \in {"set", "glbl", "edge", "sample"}
  BY DEF Adds, BuilderEvents
<1>4. Len(z.ev) = k + 1 /\ z.ev[k + 1] = e /\ \A i \in 1 .. k : z.ev[i] = y.ev[i]
  <2>1. y.ev \in Seq(BuilderEvents)
    BY Fields DEF BInv
  <2>2. QED
    BY <2>1 DEF Adds
<1> HIDE DEF k
<1>5. /\ SepPs \in Nat /\ SepPs > 0 /\ y.t <= z.t /\ e.t = y.t
      /\ e.sim = InSim(y) /\ (InSim(z) <=> InSim(y))
  <2>1. z.sim = IF InSim(y) THEN y.sim + 1 ELSE y.sim
    BY DEF Adds, Remembers
  <2>2. InSim(z) <=> InSim(y)
    BY <1>1, <2>1 DEF InSim
  <2>3. y.t <= z.t /\ e.t = y.t /\ e.sim = InSim(y)
    BY DEF Adds
  <2>4. QED
    BY <2>2, <2>3, Numbers
<1>6. ASSUME NEW i \in 1 .. k
      PROVE  y.ev[i].t \in Nat /\ y.ev[i].t <= y.t /\ y.ev[i].sim \in BOOLEAN
  BY EventFields DEF BInv, Past, k
<1>7. 1 .. Len(z.ev) = 1 .. k \cup {k + 1} /\ k + 1 \notin 1 .. k
  BY <1>1, <1>4
(* The last set was no later than the cursor.                              *)
<1>8. ASSUME NEW i \in 1 .. k, y.ev[i].op = "set", y.ev[i].t = y.t
      PROVE  y.at = y.t /\ y.ev[i].target \in SetNow(y)
  <2>1. y.ev[i].t <= y.at /\ (y.ev[i].t = y.at => y.ev[i].target \in y.put)
    BY <1>8 DEF BInv, Past, k
  <2>2. y.at = -1 \/ \E j \in 1 .. k : y.ev[j].t = y.at
    BY DEF BInv, Past, k
  <2>3. y.at <= y.t
    <3>1. \A j \in 1 .. k : y.ev[j].t <= y.t
      BY <1>6
    <3>2. QED
      BY <1>1, <2>2, <3>1
  <2>4. y.at = y.t
    BY <1>1, <1>8, <2>1, <2>3
  <2>5. QED
    BY <1>8, <2>1, <2>4 DEF SetNow
(* Outside a block, an event that is not a data set finds none at its time. *)
<1>9. ASSUME ~ InSim(y), ~ SharesTime(y, e)
      PROVE  IsAlone(y, e, z) /\ \A i \in 1 .. k : y.ev[i].t < y.t
  <2>1. IsAlone(y, e, z)
    BY <1>9 DEF Adds
  <2>2. ASSUME NEW i \in 1 .. k, y.ev[i].t = y.t PROVE FALSE
    <3>1. y.ev[i].op = "set"
      BY <1>9, <2>2 DEF BInv, Cursor, k
    <3>2. y.ev[i].t <= y.change
      BY <3>1 DEF BInv, Past, IsChange, k
    <3>3. QED
      BY <1>1, <2>1, <2>2, <3>2 DEF IsAlone
  <2>3. QED
    BY <1>1, <1>6, <2>1, <2>2
<1>10. FieldsTyped(z)
  <2>1. z \in Builders /\ z.sim >= -1
    BY <1>1 DEF Adds, Remembers
  <2>2. QED
    BY <1>4, <1>7, <2>1 DEF BInv, FieldsTyped, Adds, k
<1>11. Ordered(z)
  <2>1. ASSUME NEW i \in 1 .. k, NEW j \in 1 .. k, i < j
        PROVE  z.ev[i].t = z.ev[j].t \/ z.ev[i].t + Gap <= z.ev[j].t
    BY <1>4, <2>1 DEF BInv, Ordered, k
  <2>2. ASSUME NEW i \in 1 .. k PROVE z.ev[i].t = z.ev[k + 1].t \/ z.ev[i].t + Gap <= z.ev[k + 1].t
    BY <1>4, <1>5 DEF Adds, k
  <2>3. \A i, j \in 1 .. Len(z.ev) : i < j => i \in 1 .. k /\ (j \in 1 .. k \/ j = k + 1)
    BY <1>1, <1>4
  <2>4. QED
    BY <2>1, <2>2, <2>3 DEF Ordered
<1>12. Cleared(z)
  BY <1>4, <1>7 DEF BInv, Cleared, Adds, k
<1>13. Past(z)
  <2>1. ASSUME NEW i \in 1 .. k
        PROVE  /\ y.ev[i].t <= z.t
               /\ IsChange(y.ev[i]) => y.ev[i].t <= z.change
               /\ y.ev[i].op = "edge" => y.ev[i].t <= z.edge
               /\ y.ev[i].op = "sample" => y.ev[i].t < z.t
               /\ IsAsync(y.ev[i]) /\ ~ y.ev[i].sim /\ y.ev[i].t # 0 => y.ev[i].t + SepPs <= z.t
    <3>1. /\ IsChange(y.ev[i]) => y.ev[i].t <= y.change
          /\ y.ev[i].op = "edge" => y.ev[i].t <= y.edge
          /\ y.ev[i].op = "sample" => y.ev[i].t < y.t
          /\ IsAsync(y.ev[i]) /\ ~ y.ev[i].sim /\ y.ev[i].t # 0 => y.ev[i].t + SepPs <= y.t
      BY DEF BInv, Past, k
    <3>2. z.change \in {y.t, y.change} /\ z.edge \in {y.t, y.edge}
      BY DEF Adds, Remembers
    <3>3. y.ev[i].t \in Nat /\ y.ev[i].t <= y.t /\ y.t <= z.t
      BY <1>5, <1>6
    <3>4. QED
      BY <1>1, <1>2, <1>5, <3>1, <3>2, <3>3
  <2>2. ASSUME NEW i \in 1 .. k, y.ev[i].op = "set"
        PROVE  y.ev[i].t <= z.at /\ (y.ev[i].t = z.at => y.ev[i].target \in z.put)
    <3>1. y.ev[i].t <= y.at /\ (y.ev[i].t = y.at => y.ev[i].target \in y.put)
      BY <2>2 DEF BInv, Past, k
    <3>2. CASE e.op = "set"
      BY <1>6, <1>8, <2>2, <3>2 DEF Adds, Remembers
    <3>3. CASE e.op # "set"
      BY <3>1, <3>3 DEF Adds, Remembers
    <3>4. QED
      BY <3>2, <3>3
  <2>3. /\ IsChange(e) => z.change = y.t
        /\ e.op = "edge" => z.edge = y.t
        /\ e.op = "set" => z.at = y.t /\ e.target \in z.put
    BY DEF Adds, Remembers
  <2>4. ASSUME e.op = "sample" PROVE y.t < z.t
    <3>1. ~ InSim(y) /\ ~ SharesTime(y, e)
      BY <2>4 DEF Adds, SharesTime
    <3>2. QED
      BY <1>9, <3>1 DEF IsAlone
  <2>5. ASSUME IsAsync(e), ~ e.sim, e.t # 0 PROVE y.t + SepPs <= z.t
    <3>1. ~ SharesTime(y, e)
      BY <1>5, <2>5 DEF SharesTime, IsAsync, DataPorts, AsyncPorts
    <3>2. QED
      BY <1>5, <1>9, <2>5, <3>1 DEF IsAlone
  <2>6. z.at = -1 \/ \E i \in 1 .. Len(z.ev) : z.ev[i].t = z.at
    <3>1. CASE e.op = "set"
      BY <1>4, <1>5, <1>7, <2>3, <3>1
    <3>2. CASE e.op # "set"
      <4>1. z.at = y.at
        BY <3>2 DEF Adds, Remembers
      <4>2. y.at = -1 \/ \E i \in 1 .. k : y.ev[i].t = y.at
        BY DEF BInv, Past, k
      <4>3. QED
        BY <1>4, <1>7, <4>1, <4>2
    <3>3. QED
      BY <3>1, <3>2
  <2>7. ASSUME NEW i \in 1 .. k
        PROVE  /\ z.ev[i].t <= z.t
               /\ IsChange(z.ev[i]) => z.ev[i].t <= z.change
               /\ z.ev[i].op = "edge" => z.ev[i].t <= z.edge
               /\ z.ev[i].op = "set" => z.ev[i].t <= z.at /\ (z.ev[i].t = z.at => z.ev[i].target \in z.put)
               /\ z.ev[i].op = "sample" => z.ev[i].t < z.t
               /\ IsAsync(z.ev[i]) /\ ~ z.ev[i].sim /\ z.ev[i].t # 0 => z.ev[i].t + SepPs <= z.t
    BY <1>4, <2>1, <2>2
  <2>8. /\ e.t <= z.t
        /\ IsChange(e) => e.t <= z.change
        /\ e.op = "edge" => e.t <= z.edge
        /\ e.op = "set" => e.t <= z.at /\ (e.t = z.at => e.target \in z.put)
        /\ e.op = "sample" => e.t < z.t
        /\ IsAsync(e) /\ ~ e.sim /\ e.t # 0 => e.t + SepPs <= z.t
    <3>1. e.t = y.t /\ y.t <= z.t
      BY <1>5
    <3>2. QED
      BY <1>1, <1>2, <2>3, <2>4, <2>5, <3>1
  <2>9. QED
    BY <1>4, <1>7, <2>6, <2>7, <2>8 DEF Past
<1>14. Cursor(z)
  <2>1. CASE InSim(y)
    <3>1. z.sim = y.sim + 1 /\ z.t = y.t
      BY <2>1 DEF Adds, Remembers
    <3>2. y.sim <= k /\ y.sim >= 0
      BY <2>1 DEF BInv, Cursor, InSim, k
    <3>3. ASSUME NEW i \in 1 .. k
          PROVE  (z.ev[i].t = z.t <=> i > (k + 1) - z.sim) /\ (z.ev[i].t = z.t => z.ev[i].sim)
      <4>1. (y.ev[i].t = y.t <=> i > k - y.sim) /\ (y.ev[i].t = y.t => y.ev[i].sim)
        BY <2>1 DEF BInv, Cursor, k
      <4>2. (k + 1) - z.sim = k - y.sim
        BY <1>1, <3>1
      <4>3. QED
        BY <1>4, <3>1, <4>1, <4>2
    <3>4. z.ev[k + 1].t = z.t /\ z.ev[k + 1].sim /\ k + 1 > (k + 1) - z.sim /\ z.sim <= k + 1
      BY <1>1, <1>4, <1>5, <2>1, <3>1, <3>2
    <3>5. QED
      BY <1>4, <1>5, <1>7, <2>1, <3>3, <3>4 DEF Cursor
  <2>2. CASE ~ InSim(y) /\ z.t # y.t
    <3>1. \A i \in 1 .. Len(z.ev) : z.ev[i].t # z.t
      <4>1. y.t <= z.t /\ e.t = y.t
        BY <1>5
      <4>2. \A i \in 1 .. k : y.ev[i].t # z.t
        BY <1>1, <1>2, <1>6, <2>2, <4>1
      <4>3. QED
        BY <1>4, <1>7, <2>2, <4>1, <4>2
    <3>2. QED
      BY <1>5, <2>2, <3>1 DEF Cursor
  <2>3. CASE ~ InSim(y) /\ z.t = y.t
    <3>1. SharesTime(y, e)
      BY <1>1, <1>9, <2>3 DEF IsAlone
    <3>2. \A i \in 1 .. k : y.ev[i].t = y.t =>
             y.ev[i].op = "set" /\ ~ y.ev[i].sim /\ (y.t = 0 \/ y.ev[i].target \in DataPorts)
      BY <2>3 DEF BInv, Cursor, k
    <3>3. QED
      BY <1>4, <1>5, <1>7, <2>3, <3>1, <3>2 DEF Cursor, SharesTime
  <2>4. QED
    BY <2>1, <2>2, <2>3
<1>15. AllApart(z)
  <2>1. ASSUME NEW i \in 1 .. k, NEW j \in 1 .. k, i < j
        PROVE  Apart(z.ev[i], z.ev[j])
    BY <1>4, <2>1 DEF BInv, AllApart, k
  <2>2. ASSUME NEW i \in 1 .. k PROVE Apart(y.ev[i], e)
    <3>1. AsyncApartFrom(y.ev[i], e)
      <4>1. IsAsync(y.ev[i]) /\ ~ y.ev[i].sim /\ y.ev[i].t # 0 => y.ev[i].t + SepPs <= y.t
        BY DEF BInv, Past, k
      <4>2. QED
        BY <1>5, <4>1 DEF AsyncApartFrom
    <3>2. AsyncApartFrom(e, y.ev[i])
      <4>1. SUFFICES ASSUME IsAsync(e), ~ e.sim, e.t # 0, y.ev[i].op = "edge"
                     PROVE  y.ev[i].t + SepPs <= e.t
        BY DEF AsyncApartFrom
      <4>2. ~ SharesTime(y, e)
        BY <1>5, <4>1 DEF SharesTime, IsAsync, DataPorts, AsyncPorts
      <4>3. y.edge = -1 \/ y.edge + SepPs <= y.t
        BY <1>5, <1>9, <4>1, <4>2 DEF IsAlone
      <4>4. y.ev[i].t <= y.edge
        BY <4>1 DEF BInv, Past, k
      <4>5. y.ev[i].t \in Nat /\ e.t = y.t
        BY <1>5, <1>6
      <4>6. QED
        BY <1>1, <1>5, <4>3, <4>4, <4>5
    <3>3. ASSUME y.ev[i].t = e.t
          PROVE  MayMeet(y.ev[i], e) /\ y.ev[i].op # "sample" /\ e.op # "sample"
      <4>1. y.ev[i].op # "sample"
        <5>1. y.ev[i].op = "sample" => y.ev[i].t < y.t
          BY DEF BInv, Past, k
        <5>2. QED
          BY <1>1, <1>5, <3>3, <5>1
      <4>2. ~ InSim(y) => SharesTime(y, e)
        <5>1. y.ev[i].t = y.t
          BY <1>5, <3>3
        <5>2. ~ (y.ev[i].t < y.t)
          BY <1>1, <5>1
        <5>3. QED
          BY <1>9, <5>2
      <4>3. e.op # "sample"
        BY <4>2 DEF Adds, SharesTime
      <4>4. y.ev[i].sim = e.sim /\ (~ InSim(y) =>
               y.ev[i].op = "set" /\ (y.t = 0 \/ y.ev[i].target \in DataPorts))
        BY <1>3, <1>5, <1>6, <3>3 DEF BInv, Cursor, k
      <4>5. y.ev[i].op = "set" /\ e.op = "set" => y.ev[i].target # e.target
        BY <1>5, <1>8, <3>3 DEF Adds, Remembers
      <4>6. ~ InSim(y) => e.op = "set" /\ (y.t = 0 \/ e.target \in DataPorts)
        BY <4>2 DEF SharesTime
      <4>7. QED
        BY <1>5, <3>3, <4>1, <4>3, <4>4, <4>5, <4>6
           DEF MayMeet, IsAsync, DataPorts, AsyncPorts
    <3>4. QED
      BY <3>1, <3>2, <3>3 DEF Apart
  <2>3. \A i, j \in 1 .. Len(z.ev) : i < j => i \in 1 .. k /\ (j \in 1 .. k \/ j = k + 1)
    BY <1>1, <1>4
  <2>4. QED
    BY <1>4, <2>1, <2>2, <2>3 DEF AllApart
<1>16. Marked(z)
  <2>1. ASSUME NEW i \in 1 .. k, z.ev[i].sim, InSim(z) => z.ev[i].t # z.t
        PROVE  \E j \in 1 .. Len(z.ev) : j # i /\ z.ev[j].t = z.ev[i].t
    <3>1. InSim(y) => z.t = y.t
      BY DEF Adds
    <3>2. \E j \in 1 .. k : j # i /\ y.ev[j].t = y.ev[i].t
      BY <1>4, <1>5, <2>1, <3>1 DEF BInv, Marked, k
    <3>3. QED
      BY <1>4, <1>7, <3>2
  <2>2. e.sim => InSim(z) /\ e.t = z.t
    BY <1>5 DEF Adds
  <2>3. QED
    BY <1>4, <1>7, <2>1, <2>2 DEF Marked
<1>17. Levels(z)
  <2> DEFINE old == EdgesOf(y.ev)
             new == EdgesOf(z.ev)
  <2>1. old \subseteq 1 .. k /\ \A i \in old : i < k + 1 /\ i \in Int /\ z.ev[i] = y.ev[i]
    BY <1>1, <1>4 DEF EdgesOf, k
  <2>2. new = IF e.op = "edge" THEN old \cup {k + 1} ELSE old
    BY <1>4, <1>7 DEF EdgesOf, k
  <2>3. \A i \in old :
          \/ y.ev[i].value = 1 /\ \A j \in old : i <= j
          \/ \E m \in old :
                /\ m < i /\ \A j \in old : j < i => j <= m
                /\ y.ev[m].value # y.ev[i].value
    BY DEF BInv, Levels
  <2>4. \/ old = {} /\ y.level = 0
        \/ \E m \in old : y.level = y.ev[m].value /\ \A j \in old : j <= m
    BY DEF BInv, Levels
  <2> HIDE DEF old, new
  <2>5. CASE e.op = "edge"
    <3>1. e.value = 1 - y.level /\ z.level = e.value
      BY <2>5 DEF Adds, Remembers
    <3>2. e.value # y.level /\ y.level \in {0, 1}
      <4>1. y.level \in {0, 1}
        BY Fields DEF BInv
      <4>2. QED
        BY <3>1, <4>1
    <3>3. ASSUME NEW i \in old
          PROVE  \/ z.ev[i].value = 1 /\ \A j \in new : i <= j
                 \/ \E m \in new :
                       /\ m < i /\ \A j \in new : j < i => j <= m
                       /\ z.ev[m].value # z.ev[i].value
      <4>1. CASE y.ev[i].value = 1 /\ \A j \in old : i <= j
        BY <1>1, <2>1, <2>2, <2>5, <4>1
      <4>2. CASE \E m \in old : /\ m < i /\ \A j \in old : j < i => j <= m
                                /\ y.ev[m].value # y.ev[i].value
        <5>1. PICK m \in old : /\ m < i /\ \A j \in old : j < i => j <= m
                               /\ y.ev[m].value # y.ev[i].value
          BY <4>2
        <5>2. \A j \in new : j < i => j \in old
          BY <1>1, <2>1, <2>2, <2>5
        <5>3. z.ev[m].value # z.ev[i].value /\ m \in new
          BY <2>1, <2>2, <2>5, <5>1
        <5>4. QED
          BY <5>1, <5>2, <5>3
      <4>3. QED
        BY <2>3, <4>1, <4>2
    <3>4. \/ z.ev[k + 1].value = 1 /\ \A j \in new : k + 1 <= j
          \/ \E m \in new :
                /\ m < k + 1 /\ \A j \in new : j < k + 1 => j <= m
                /\ z.ev[m].value # z.ev[k + 1].value
      <4>1. CASE old = {} /\ y.level = 0
        BY <1>1, <1>4, <2>2, <2>5, <3>1, <4>1
      <4>2. CASE \E m \in old : y.level = y.ev[m].value /\ \A j \in old : j <= m
        <5>1. PICK m \in old : y.level = y.ev[m].value /\ \A j \in old : j <= m
          BY <4>2
        <5>2. \A j \in new : j < k + 1 => j \in old
          BY <1>1, <2>1, <2>2, <2>5
        <5>3. z.ev[m].value # z.ev[k + 1].value /\ m \in new /\ m < k + 1
          BY <1>4, <2>1, <2>2, <2>5, <3>2, <5>1
        <5>4. QED
          BY <5>1, <5>2, <5>3
      <4>3. QED
        BY <2>4, <4>1, <4>2
    <3>5. k + 1 \in new /\ z.level = z.ev[k + 1].value /\ \A j \in new : j <= k + 1
      BY <1>1, <1>4, <2>1, <2>2, <2>5, <3>1
    <3>6. QED
      BY <2>2, <2>5, <3>3, <3>4, <3>5 DEF Levels, new
  <2>6. CASE e.op # "edge"
    <3>1. new = old /\ z.level = y.level
      BY <2>2, <2>6 DEF Adds, Remembers
    <3>2. QED
      <4>1. \A i \in old : z.ev[i].value = y.ev[i].value
        BY <2>1
      <4>2. QED
        BY <2>3, <2>4, <3>1, <4>1 DEF Levels, new
  <2>7. QED
    BY <2>5, <2>6
<1>18. QED
  BY <1>10, <1>11, <1>12, <1>13, <1>14, <1>15, <1>16, <1>17 DEF BInv

-----------------------------------------------------------------------------
(* The helpers                                                             *)

(* y is x but for the cursor; and with it moved on.                        *)
Same(x, y) ==
    /\ y.ev = x.ev /\ y.vals = x.vals /\ y.level = x.level /\ y.at = x.at /\ y.put = x.put
    /\ y.change = x.change /\ y.edge = x.edge /\ y.sim = x.sim /\ y.n = x.n
MovedOn(x, y) == BInv(y) /\ y.t >= x.t /\ Same(x, y)

LEMMA MovingOn ==
    ASSUME NEW x, BInv(x), ~ InSim(x), NEW t \in Nat, t >= x.t
    PROVE  MovedOn(x, [x EXCEPT !.t = t]) /\ [x EXCEPT !.t = t].t = t
<1>1. x \in Builders
  BY DEF BInv, FieldsTyped
<1>2. BInv([x EXCEPT !.t = t])
  BY MovesOn
<1>3. QED
  BY <1>1, <1>2 DEF MovedOn, Same, Builders

LEMMA WaitsOn ==
    ASSUME NEW x, BInv(x), ~ InSim(x), NEW t \in Nat
    PROVE  /\ MovedOn(x, After(x, t)) /\ After(x, t).t >= t
           /\ MovedOn(x, Later(x, t)) /\ Later(x, t).t = x.t + t
<1>1. x.t \in Nat
  BY Fields DEF BInv
<1>2. MaxOf({x.t, t}) \in Nat /\ MaxOf({x.t, t}) >= x.t /\ MaxOf({x.t, t}) >= t
  BY <1>1, MaxOfNats
<1>3. QED
  BY <1>1, <1>2, MovingOn DEF After, Later

LEMMA WaitsForEdge ==
    ASSUME NEW x, BInv(x), ~ InSim(x), NEW t \in Nat
    PROVE  LET y == AfterEdge(x, t) IN MovedOn(x, y) /\ (y.edge = -1 \/ y.edge + t <= y.t)
<1>1. x.edge \in Int /\ x.t \in Nat
  BY Fields DEF BInv
<1>2. CASE x.edge = -1
  BY <1>1, <1>2 DEF AfterEdge, MovedOn, Same
<1>3. CASE x.edge # -1
  <2>1. MaxOf({x.t, x.edge + t}) \in Nat /\ MaxOf({x.t, x.edge + t}) >= x.t
        /\ MaxOf({x.t, x.edge + t}) >= x.edge + t
    <3> DEFINE m == x.edge + t
    <3>1. m \in Int
      BY <1>1
    <3> HIDE DEF m
    <3>2. MaxOf({x.t, m}) \in Nat /\ MaxOf({x.t, m}) >= x.t /\ MaxOf({x.t, m}) >= m
      BY <1>1, <3>1, MaxOfNats
    <3>3. QED
      BY <3>2 DEF m
  <2>2. MovedOn(x, After(x, x.edge + t)) /\ After(x, x.edge + t).t >= x.edge + t
    BY <2>1, MovingOn DEF After
  <2>3. QED
    BY <1>3, <2>2 DEF AfterEdge, MovedOn, Same
<1>4. QED
  BY <1>2, <1>3

LEMMA MovedTwice ==
    ASSUME NEW x, NEW y, NEW z, BInv(x), MovedOn(x, y), MovedOn(y, z)
    PROVE  MovedOn(x, z)
<1>1. x.t \in Nat /\ y.t \in Nat /\ z.t \in Nat
  BY Fields DEF BInv, MovedOn
<1>2. QED
  BY <1>1 DEF MovedOn, Same

LEMMA HasLast ==
    ASSUME NEW x, FieldsTyped(x), x.ev # <<>>
    PROVE  Len(x.ev) \in 1 .. Len(x.ev)
<1>1. x.ev \in Seq(BuilderEvents)
  BY Fields
<1>2. Len(x.ev) \in Nat /\ Len(x.ev) # 0
  BY <1>1
<1>3. QED
  BY <1>2

LEMMA NewTimeStays ==
    ASSUME NEW x, BInv(x), \A i \in 1 .. Len(x.ev) : x.ev[i].t = x.t \/ x.ev[i].t + Gap <= x.t
    PROVE  NewTime(x) = x
<1>1. x.t \in Nat /\ Gap \in Nat /\ Len(x.ev) \in Nat
  BY Fields, Numbers DEF BInv
<1>2. CASE x.ev = <<>>
  BY <1>2 DEF NewTime
<1>3. CASE x.ev # <<>>
  <2>1. Len(x.ev) \in 1 .. Len(x.ev)
    BY <1>3, HasLast DEF BInv
  <2>2. LastT(x) \in Nat
    BY <2>1, EventFields DEF LastT, BInv
  <2>3. LastT(x) = x.t \/ LastT(x) + Gap <= x.t
    BY <2>1 DEF LastT
  <2>4. ~ (LastT(x) < x.t /\ x.t < LastT(x) + Gap)
    BY <1>1, <2>2, <2>3
  <2>5. QED
    BY <2>4 DEF NewTime
<1>4. QED
  BY <1>2, <1>3

LEMMA NewTimeIs ==
    ASSUME NEW x, BInv(x)
    PROVE  LET y == NewTime(x) IN
           /\ MovedOn(x, y) /\ NewTime(y) = y
           /\ \A i \in 1 .. Len(y.ev) : y.ev[i].t = y.t \/ y.ev[i].t + Gap <= y.t
<1>1. x.t \in Nat /\ Gap \in Nat /\ Gap > 0 /\ Len(x.ev) \in Nat
  BY Fields, Numbers DEF BInv
<1>2. CASE x.ev = <<>>
  <2>1. NewTime(x) = x /\ 1 .. Len(x.ev) = {}
    BY <1>2 DEF NewTime
  <2>2. QED
    BY <1>1, <2>1 DEF MovedOn, Same
<1>3. CASE x.ev # <<>>
  <2>1. Len(x.ev) \in 1 .. Len(x.ev)
    BY <1>3, HasLast DEF BInv
  <2>2. LastT(x) \in Nat /\ LastT(x) <= x.t
    BY <2>1, EventFields DEF LastT, BInv, Past
  <2>3. ASSUME NEW i \in 1 .. Len(x.ev)
        PROVE  x.ev[i].t \in Nat /\ (x.ev[i].t = LastT(x) \/ x.ev[i].t + Gap <= LastT(x))
    <3>1. i < Len(x.ev) \/ i = Len(x.ev)
      BY <1>1
    <3>2. x.ev[i].t \in Nat
      BY EventFields DEF BInv
    <3>3. QED
      BY <2>1, <3>1, <3>2 DEF LastT, BInv, Ordered
  <2>4. CASE LastT(x) < x.t /\ x.t < LastT(x) + Gap
    <3> DEFINE y == [x EXCEPT !.t = LastT(x) + Gap]
    <3>1. NewTime(x) = y
      BY <1>3, <2>4 DEF NewTime
    <3>2. LastT(x) + Gap \in Nat /\ LastT(x) + Gap >= x.t
      BY <1>1, <2>2, <2>4
    <3>3. ASSUME NEW i \in 1 .. Len(x.ev) PROVE x.ev[i].t < x.t /\ x.ev[i].t <= LastT(x)
      <4>1. x.ev[i].t \in Nat /\ (x.ev[i].t = LastT(x) \/ x.ev[i].t + Gap <= LastT(x))
        BY <2>3
      <4> DEFINE l == LastT(x)
                 a == x.ev[i].t
      <4>2. /\ a \in Nat /\ l \in Nat /\ x.t \in Nat /\ Gap \in Nat /\ l < x.t
            /\ a = l \/ a + Gap <= l
        BY <1>1, <2>2, <2>4, <4>1
      <4> HIDE DEF l, a
      <4>3. a < x.t /\ a <= l
        BY <4>2
      <4>4. QED
        BY <4>3 DEF l, a
    <3>4. BInv(y)
      BY <3>2, <3>3, MovesOn
    <3>5. x \in Builders
      BY DEF BInv, FieldsTyped
    <3>6. MovedOn(x, y) /\ y.t = LastT(x) + Gap /\ y.ev = x.ev
      BY <3>2, <3>4, <3>5 DEF MovedOn, Same, Builders
    <3>7. ASSUME NEW i \in 1 .. Len(x.ev) PROVE y.ev[i].t + Gap <= y.t
      <4>1. x.ev[i].t \in Nat /\ x.ev[i].t <= LastT(x)
        BY <2>3, <3>3
      <4>2. y.ev[i] = x.ev[i] /\ y.t = LastT(x) + Gap
        BY <3>6
      <4>3. QED
        BY <1>1, <2>2, <4>1, <4>2
    <3>8. NewTime(y) = y
      <4>1. BInv(y) /\ \A i \in 1 .. Len(y.ev) : y.ev[i].t + Gap <= y.t
        BY <3>4, <3>6, <3>7
      <4> HIDE DEF y
      <4>2. QED
        BY <4>1, NewTimeStays
    <3>9. QED
      BY <3>1, <3>6, <3>7, <3>8
  <2>5. CASE ~ (LastT(x) < x.t /\ x.t < LastT(x) + Gap)
    <3>1. NewTime(x) = x
      BY <2>5 DEF NewTime
    <3>2. LastT(x) = x.t \/ LastT(x) + Gap <= x.t
      BY <1>1, <2>2, <2>5
    <3>3. \A i \in 1 .. Len(x.ev) : x.ev[i].t = x.t \/ x.ev[i].t + Gap <= x.t
      BY <1>1, <2>2, <2>3, <3>2
    <3>4. QED
      BY <1>1, <3>1, <3>3 DEF MovedOn, Same
  <2>6. QED
    BY <2>4, <2>5
<1>4. QED
  BY <1>2, <1>3

Spaced(x) == \A i \in 1 .. Len(x.ev) : x.ev[i].t = x.t \/ x.ev[i].t + Gap <= x.t

(* Where an event may start that shares its time with none.                *)
LEMMA StartsAlone ==
    ASSUME NEW x, BInv(x)
    PROVE  LET y == NewTime(AloneStart(x)) IN
           /\ MovedOn(x, y) /\ Spaced(y) /\ NewTime(y) = y
           /\ ~ InSim(x) => y.change < y.t
<1> DEFINE w == AloneStart(x)
           y == NewTime(w)
<1>1. x.change \in Nat /\ x.t \in Nat /\ Gap \in Nat /\ Gap > 0
  BY Fields, Numbers DEF BInv
<1>2. MovedOn(x, w) /\ (~ InSim(x) => w.change + Gap <= w.t)
  <2>1. CASE InSim(x)
    BY <1>1, <2>1 DEF AloneStart, MovedOn, Same
  <2>2. CASE ~ InSim(x)
    <3>1. x.change + Gap \in Nat
      BY <1>1
    <3>2. MovedOn(x, After(x, x.change + Gap)) /\ After(x, x.change + Gap).t >= x.change + Gap
      BY <2>2, <3>1, WaitsOn
    <3>3. QED
      BY <2>2, <3>2 DEF AloneStart, MovedOn, Same
  <2>3. QED
    BY <2>1, <2>2
<1>3. BInv(w)
  BY <1>2 DEF MovedOn
<1>4. MovedOn(w, y) /\ Spaced(y) /\ NewTime(y) = y
  BY <1>3, NewTimeIs DEF Spaced
<1>5. MovedOn(x, y)
  BY <1>2, <1>4, MovedTwice
<1>6. ~ InSim(x) => y.change < y.t
  <2>1. w.t \in Nat /\ y.t \in Nat /\ y.change \in Nat /\ y.change = w.change /\ w.t <= y.t
    BY <1>3, <1>4, Fields DEF MovedOn, Same, BInv
  <2> HIDE DEF w, y
  <2>2. QED
    BY <1>1, <1>2, <2>1
<1>7. QED
  BY <1>4, <1>5, <1>6

LEMMA StartsAway ==
    ASSUME NEW x, BInv(x)
    PROVE  LET y == NewTime(ForAsync(x)) IN
           /\ MovedOn(x, y) /\ Spaced(y) /\ NewTime(y) = y
           /\ ~ InSim(x) => y.change < y.t /\ (y.edge = -1 \/ y.edge + SepPs <= y.t)
<1> DEFINE u == AloneStart(x)
           w == AwayFromEdge(u)
           y == NewTime(w)
<1>1. x.change \in Nat /\ x.t \in Nat /\ Gap \in Nat /\ Gap > 0 /\ SepPs \in Nat
  BY Fields, Numbers DEF BInv
<1>2. MovedOn(x, u) /\ (~ InSim(x) => u.change + Gap <= u.t)
  <2>1. CASE InSim(x)
    BY <1>1, <2>1 DEF AloneStart, MovedOn, Same
  <2>2. CASE ~ InSim(x)
    <3>1. x.change + Gap \in Nat
      BY <1>1
    <3>2. MovedOn(x, After(x, x.change + Gap)) /\ After(x, x.change + Gap).t >= x.change + Gap
      BY <2>2, <3>1, WaitsOn
    <3>3. QED
      BY <2>2, <3>2 DEF AloneStart, MovedOn, Same
  <2>3. QED
    BY <2>1, <2>2
<1>3. BInv(u) /\ (InSim(u) <=> InSim(x)) /\ u.t \in Nat
  BY <1>2, Fields DEF MovedOn, Same, InSim, BInv
<1> HIDE DEF u
<1>4. MovedOn(u, w) /\ (~ InSim(x) => w.edge = -1 \/ w.edge + SepPs <= w.t)
  <2>1. CASE InSim(u)
    BY <1>3, <2>1 DEF AwayFromEdge, MovedOn, Same
  <2>2. CASE ~ InSim(u)
    BY <1>1, <1>3, <2>2, WaitsForEdge DEF AwayFromEdge
  <2>3. QED
    BY <2>1, <2>2
<1>5. BInv(w)
  BY <1>4 DEF MovedOn
<1> HIDE DEF w
<1>6. MovedOn(w, y) /\ Spaced(y) /\ NewTime(y) = y
  BY <1>5, NewTimeIs DEF Spaced
<1>7. MovedOn(x, w)
  BY <1>2, <1>4, MovedTwice
<1>8. MovedOn(x, y)
  BY <1>6, <1>7, MovedTwice
<1>9. ~ InSim(x) => y.change < y.t /\ (y.edge = -1 \/ y.edge + SepPs <= y.t)
  <2>1. /\ w.t \in Nat /\ y.t \in Nat /\ y.change \in Nat /\ y.edge \in Int /\ u.t \in Nat
        /\ y.change = w.change /\ w.t <= y.t /\ u.change = w.change /\ u.t <= w.t /\ y.edge = w.edge
    BY <1>3, <1>4, <1>5, <1>6, Fields DEF MovedOn, Same, BInv
  <2> HIDE DEF y
  <2>2. QED
    BY <1>1, <1>2, <1>4, <2>1
<1>10. QED
  BY <1>6, <1>8, <1>9 DEF ForAsync, w, u

Valued(vals, p, v) == [vals EXCEPT ![p] = v]

LEMMA PutIs ==
    ASSUME NEW x, BInv(x), NEW p \in Ports, NEW v \in {0, 1}
    PROVE  LET y == NewTime(x)
               e == Event(y.t, "set", p, v, InSim(y))
               z == Put(x, p, v)
           IN /\ z \in Builders /\ e \in BuilderEvents
              /\ z.t = y.t /\ z.ev = Append(y.ev, e)
              /\ z.level = y.level /\ z.at = y.t /\ z.put = SetNow(y) \cup {p} /\ z.change = y.t
              /\ z.edge = y.edge /\ z.sim = IF InSim(y) THEN y.sim + 1 ELSE y.sim
              /\ z.vals = Valued(y.vals, p, v)
<1> DEFINE y == NewTime(x)
           e == Event(y.t, "set", p, v, InSim(y))
           w == Emit(y, "set", p, v)
           z == [w EXCEPT !.at = y.t, !.put = SetNow(y) \cup {p}, !.vals[p] = v, !.change = y.t]
<1>1. BInv(y) /\ NewTime(y) = y
  BY NewTimeIs DEF MovedOn
<1>2. y \in Builders /\ y.t \in Nat /\ y.sim \in Int /\ y.put \subseteq Ports /\ y.vals \in [Ports -> {0, 1}]
      /\ y.ev \in Seq(BuilderEvents)
  BY <1>1, Fields DEF BInv, FieldsTyped
<1>3. Put(x, p, v) = z
  BY DEF Put
<1> HIDE DEF y
<1>4. w = [y EXCEPT !.ev = Append(y.ev, e), !.sim = IF InSim(y) THEN y.sim + 1 ELSE y.sim]
  BY <1>1 DEF Emit
<1>5. e \in BuilderEvents
  BY <1>2 DEF Event, BuilderEvents, InSim
<1>6. Append(y.ev, e) \in Seq(BuilderEvents)
  BY <1>2, <1>5
<1>7. (IF InSim(y) THEN y.sim + 1 ELSE y.sim) \in Int
  BY <1>2
<1> HIDE DEF e
<1> DEFINE s == Append(y.ev, e)
           n == IF InSim(y) THEN y.sim + 1 ELSE y.sim
<1> HIDE DEF s, n
<1>8. /\ w \in Builders /\ w.t = y.t /\ w.ev = Append(y.ev, e) /\ w.vals = y.vals /\ w.level = y.level
      /\ w.edge = y.edge /\ w.sim = IF InSim(y) THEN y.sim + 1 ELSE y.sim
  <2>1. w = [y EXCEPT !.ev = s, !.sim = n] /\ s \in Seq(BuilderEvents) /\ n \in Int
    BY <1>4, <1>6, <1>7 DEF s, n
  <2>2. y \in Builders
    BY <1>2
  <2>3. /\ w \in Builders /\ w.t = y.t /\ w.ev = s /\ w.vals = y.vals /\ w.level = y.level
        /\ w.edge = y.edge /\ w.sim = n
    BY <2>1, <2>2 DEF Builders
  <2>4. QED
    BY <2>3 DEF s, n
<1>9. SetNow(y) \cup {p} \subseteq Ports /\ [y.vals EXCEPT ![p] = v] \in [Ports -> {0, 1}]
  BY <1>2 DEF SetNow
<1> HIDE DEF w
<1> DEFINE ps == SetNow(y) \cup {p}
           vs == [y.vals EXCEPT ![p] = v]
           at == y.t
<1>10. /\ z \in Builders /\ z.t = w.t /\ z.ev = w.ev /\ z.level = w.level /\ z.edge = w.edge /\ z.sim = w.sim
       /\ z.at = y.t /\ z.put = SetNow(y) \cup {p} /\ z.vals = [y.vals EXCEPT ![p] = v] /\ z.change = y.t
  <2>1. w.vals = y.vals /\ w \in Builders
    BY <1>8
  <2>2. z = [w EXCEPT !.at = at, !.put = ps, !.vals = vs, !.change = at]
    BY <2>1
  <2>3. ps \subseteq Ports /\ vs \in [Ports -> {0, 1}] /\ at \in Nat /\ at \in Int
    BY <1>2, <1>9
  <2> HIDE DEF ps, vs, at, z
  <2>4. /\ z \in Builders /\ z.t = w.t /\ z.ev = w.ev /\ z.level = w.level /\ z.edge = w.edge /\ z.sim = w.sim
        /\ z.at = at /\ z.put = ps /\ z.vals = vs /\ z.change = at
    BY <2>1, <2>2, <2>3 DEF Builders
  <2>5. QED
    BY <2>4 DEF ps, vs, at
<1>11. QED
  BY <1>3, <1>5, <1>8, <1>10 DEF Valued, y, e

(* What any other event leaves of the builder.                             *)
LEMMA EmitIs ==
    ASSUME NEW x, BInv(x), NEW op \in {"glbl", "edge", "sample"},
           NEW target \in Ports \cup {"GSR", "C"} \cup Nat, NEW v \in {0, 1}
    PROVE  LET y == NewTime(x)
               e == Event(y.t, op, target, v, InSim(y))
               z == Emit(x, op, target, v)
           IN /\ z \in Builders /\ e \in BuilderEvents
              /\ z.t = y.t /\ z.ev = Append(y.ev, e) /\ z.level = y.level /\ z.at = y.at
              /\ z.put = y.put /\ z.change = y.change /\ z.edge = y.edge /\ z.n = y.n /\ z.vals = y.vals
              /\ z.sim = IF InSim(y) THEN y.sim + 1 ELSE y.sim
<1> DEFINE y == NewTime(x)
           e == Event(y.t, op, target, v, InSim(y))
           s == Append(y.ev, e)
           n == IF InSim(y) THEN y.sim + 1 ELSE y.sim
           z == [y EXCEPT !.ev = s, !.sim = n]
<1>1. Emit(x, op, target, v) = z
  BY DEF Emit
<1>2. BInv(y)
  BY NewTimeIs DEF MovedOn
<1>3. y \in Builders /\ y.t \in Nat /\ y.sim \in Int /\ y.ev \in Seq(BuilderEvents)
  BY <1>2, Fields DEF BInv, FieldsTyped
<1> HIDE DEF y
<1>4. e \in BuilderEvents
  BY <1>3 DEF Event, BuilderEvents, InSim
<1>5. s \in Seq(BuilderEvents) /\ n \in Int
  <2> HIDE DEF e
  <2>1. s \in Seq(BuilderEvents)
    BY <1>3, <1>4
  <2>2. n \in Int
    BY <1>3
  <2>3. QED
    BY <2>1, <2>2
<1> HIDE DEF e, s, n
<1>6. /\ z \in Builders /\ z.t = y.t /\ z.ev = s /\ z.level = y.level /\ z.at = y.at /\ z.put = y.put
      /\ z.change = y.change /\ z.edge = y.edge /\ z.n = y.n /\ z.sim = n /\ z.vals = y.vals
  BY <1>3, <1>5 DEF Builders
<1>7. QED
  BY <1>1, <1>4, <1>6 DEF y, e, s, n

(* A set that shares its time: a data set, one at time 0 or one in a block. *)
LEMMA PutKeeps ==
    ASSUME NEW x, BInv(x), NEW p \in Ports, NEW v \in {0, 1}, CanPut(x, p),
           NewTime(x).t >= Settle \/ (NewTime(x).t = 0 /\ ~ InSim(x)),
           InSim(x) \/ NewTime(x).t = 0 \/ p \in DataPorts
    PROVE  LET z == Put(x, p, v) IN
           /\ BInv(z) /\ Spaced(z) /\ z.t = NewTime(x).t /\ (InSim(z) <=> InSim(x))
           /\ SetNow(z) = SetNow(NewTime(x)) \cup {p} /\ z.change = z.t
<1> DEFINE y == NewTime(x)
           e == Event(y.t, "set", p, v, InSim(y))
           z == Put(x, p, v)
<1>1. MovedOn(x, y) /\ Spaced(y)
  BY NewTimeIs DEF Spaced
<1>2. BInv(y) /\ (InSim(y) <=> InSim(x)) /\ y.t \in Nat /\ y.sim \in Int
  BY <1>1, Fields DEF MovedOn, Same, InSim, BInv
<1>3. /\ z \in Builders /\ e \in BuilderEvents
      /\ z.t = y.t /\ z.ev = Append(y.ev, e)
      /\ z.level = y.level /\ z.at = y.t /\ z.put = SetNow(y) \cup {p} /\ z.change = y.t
      /\ z.edge = y.edge /\ z.sim = IF InSim(y) THEN y.sim + 1 ELSE y.sim
  BY PutIs
<1>4. e.t = y.t /\ e.op = "set" /\ e.target = p /\ e.sim = InSim(y) /\ Aimed(e)
  BY DEF Event, Aimed
<1>5. y.t >= Settle \/ IsInitial(e)
  BY <1>2, <1>4 DEF IsInitial
<1>6. InSim(y) \/ SharesTime(y, e)
  BY <1>2, <1>4 DEF SharesTime
<1>7. p \notin SetNow(y)
  BY DEF CanPut
<1> HIDE DEF y, e, z
<1>8. Remembers(y, e, z)
  BY <1>3, <1>4, <1>7 DEF Remembers, IsChange
<1>9. Adds(y, e, z)
  <2>1. y.t <= z.t
    BY <1>2, <1>3
  <2>2. QED
    BY <1>1, <1>3, <1>4, <1>5, <1>6, <1>8, <2>1 DEF Adds, Spaced
<1>10. BInv(z)
  BY <1>2, <1>9, AddsEvent
<1>11. InSim(z) <=> InSim(y)
  BY <1>2, <1>3 DEF InSim
<1>12. Spaced(z)
  <2>1. y.ev \in Seq(BuilderEvents)
    BY <1>2, Fields DEF BInv
  <2>2. /\ Len(z.ev) = Len(y.ev) + 1 /\ z.ev[Len(y.ev) + 1] = e /\ Len(y.ev) \in Nat
        /\ \A i \in 1 .. Len(y.ev) : z.ev[i] = y.ev[i]
    BY <1>3, <2>1
  <2>3. \A i \in 1 .. Len(z.ev) : i \in 1 .. Len(y.ev) \/ i = Len(y.ev) + 1
    BY <2>2
  <2>4. QED
    BY <1>1, <1>3, <1>4, <2>2, <2>3 DEF Spaced
<1>13. SetNow(z) = SetNow(y) \cup {p}
  BY <1>3 DEF SetNow
<1>14. QED
  BY <1>2, <1>3, <1>10, <1>11, <1>12, <1>13 DEF y, z

-----------------------------------------------------------------------------
(* The calls: each keeps what the builder relies on, with the cursor past  *)
(* settle_ps, and stays in or out of the block it was called in.           *)

Ready(x) == BInv(x) /\ x.t >= Settle
Follows(x, y) == Ready(y) /\ (InSim(y) <=> InSim(x))

LEMMA MovedFollows ==
    ASSUME NEW x, NEW y, Ready(x), MovedOn(x, y)
    PROVE  Follows(x, y)
<1>1. x.t \in Nat /\ y.t \in Nat /\ Settle \in Nat
  BY Fields, Numbers DEF Ready, MovedOn, BInv
<1>2. QED
  BY <1>1 DEF Ready, Follows, MovedOn, Same, InSim

LEMMA NewTimeReady ==
    ASSUME NEW x, Ready(x)
    PROVE  Ready(NewTime(x)) /\ (InSim(NewTime(x)) <=> InSim(x))
<1>1. MovedOn(x, NewTime(x))
  BY NewTimeIs DEF Ready
<1>2. QED
  BY <1>1, MovedFollows DEF Follows

LEMMA PutAllKeeps ==
    ASSUME NEW x, Ready(x), NEW f, DOMAIN f \subseteq DataPorts,
           \A p \in DOMAIN f : f[p] \in {0, 1} /\ CanPut(x, p)
    PROVE  Follows(x, PutAll(x, f))
<1> DEFINE y == NewTime(x)
           put1 == IF "D1" \in DOMAIN f THEN Put(x, "D1", f["D1"]) ELSE x
<1>1. BInv(x) /\ y.t >= Settle
  BY NewTimeReady DEF Ready
<1>2. Follows(x, put1) /\ (\A p \in DOMAIN f \ {"D1"} : CanPut(put1, p))
  <2>1. CASE "D1" \in DOMAIN f
    <3> DEFINE z == Put(x, "D1", f["D1"])
    <3>1. "D1" \in Ports /\ "D1" \in DataPorts
      BY DEF Ports, DataPorts
    <3>2. /\ BInv(z) /\ Spaced(z) /\ z.t = y.t /\ (InSim(z) <=> InSim(x))
          /\ SetNow(z) = SetNow(y) \cup {"D1"} /\ z.change = z.t
      BY <1>1, <2>1, <3>1, PutKeeps
    <3> HIDE DEF z
    <3>3. NewTime(z) = z
      BY <3>2, NewTimeStays DEF Spaced
    <3>4. \A p \in DOMAIN f \ {"D1"} : CanPut(z, p)
      BY <3>2, <3>3 DEF CanPut
    <3>5. put1 = z
      BY <2>1 DEF z
    <3>6. QED
      BY <1>1, <3>2, <3>4, <3>5 DEF Follows, Ready
  <2>2. CASE "D1" \notin DOMAIN f
    BY <2>2 DEF Follows
  <2>3. QED
    BY <2>1, <2>2
<1>3. PutAll(x, f) = IF "D2" \in DOMAIN f THEN Put(put1, "D2", f["D2"]) ELSE put1
  BY DEF PutAll
<1> HIDE DEF put1
<1>4. CASE "D2" \in DOMAIN f
  <2>1. "D2" \in Ports /\ "D2" \in DataPorts /\ "D2" # "D1"
    BY DEF Ports, DataPorts
  <2>2. CanPut(put1, "D2") /\ f["D2"] \in {0, 1}
    BY <1>2, <1>4, <2>1
  <2>3. BInv(put1) /\ NewTime(put1).t >= Settle
    BY <1>2, NewTimeReady DEF Follows, Ready
  <2> DEFINE z == Put(put1, "D2", f["D2"])
  <2>4. BInv(z) /\ z.t = NewTime(put1).t /\ (InSim(z) <=> InSim(put1))
    BY <2>1, <2>2, <2>3, PutKeeps
  <2>5. PutAll(x, f) = z
    BY <1>3, <1>4
  <2> HIDE DEF z
  <2>6. QED
    BY <1>2, <2>3, <2>4, <2>5 DEF Follows, Ready
<1>5. QED
  BY <1>2, <1>3, <1>4

LEMMA ForSetMoves ==
    ASSUME NEW x, BInv(x), NEW ports
    PROVE  MovedOn(x, ForSet(x, ports))
<1>1. Gap \in Nat /\ x.t \in Nat
  BY Numbers, Fields DEF BInv
<1>2. CASE InSim(x)
  BY <1>1, <1>2 DEF ForSet, MovedOn, Same
<1>3. CASE ~ InSim(x)
  <2> DEFINE u == AfterEdge(x, Gap)
  <2>1. MovedOn(x, u)
    BY <1>1, <1>3, WaitsForEdge
  <2>2. BInv(u) /\ ~ InSim(u) /\ u.t \in Nat
    BY <1>3, <2>1, Fields DEF MovedOn, Same, InSim, BInv
  <2> HIDE DEF u
  <2>3. MovedOn(u, Later(u, Gap)) /\ MovedOn(u, u)
    <3>1. MovedOn(u, Later(u, Gap))
      BY <1>1, <2>2, WaitsOn
    <3>2. MovedOn(u, u)
      BY <2>2 DEF MovedOn, Same
    <3>3. QED
      BY <3>1, <3>2
  <2>4. MovedOn(u, Parted(u, ports))
    BY <2>3 DEF Parted
  <2>5. ForSet(x, ports) = Parted(u, ports)
    BY <1>3 DEF ForSet, u
  <2>6. QED
    BY <2>1, <2>4, <2>5, MovedTwice
<1>4. QED
  BY <1>2, <1>3

LEMMA SetKeeps ==
    ASSUME NEW x, Ready(x), NEW ports \in SUBSET DataPorts, NEW f \in [ports -> {0, 1}], CanSet(x, f)
    PROVE  Follows(x, SetPorts(x, f))
<1> DEFINE w == ForSet(x, DOMAIN f)
           g == [p \in Moved(x, f) |-> f[p]]
<1>1. MovedOn(x, w)
  BY ForSetMoves DEF Ready
<1>2. Follows(x, w)
  BY <1>1, MovedFollows
<1>3. DOMAIN g \subseteq DataPorts /\ \A p \in DOMAIN g : g[p] \in {0, 1} /\ CanPut(w, p)
  <2>1. Moved(x, f) \subseteq ports /\ \A p \in Moved(x, f) : CanPut(w, p)
    BY DEF Moved, CanSet
  <2>2. DOMAIN g = Moved(x, f) /\ \A p \in Moved(x, f) : g[p] = f[p]
    OBVIOUS
  <2> HIDE DEF g, w
  <2>3. QED
    BY <2>1, <2>2
<1> HIDE DEF g, w
<1>4. Follows(w, PutAll(w, g))
  BY <1>2, <1>3, PutAllKeeps DEF Follows
<1>5. SetPorts(x, f) = PutAll(w, g)
  BY DEF SetPorts, w, g
<1>6. QED
  BY <1>2, <1>4, <1>5 DEF Follows

(* An event that is alone, or in a block.                                  *)
LEMMA AloneKeeps ==
    ASSUME NEW y, Ready(y), Spaced(y), NEW e \in BuilderEvents, NEW z \in Builders,
           z.ev = Append(y.ev, e), e.t = y.t, e.sim = InSim(y), Aimed(e),
           Remembers(y, e, z),
           IF InSim(y) THEN e.op # "sample" /\ z.t = y.t ELSE IsAlone(y, e, z)
    PROVE  Follows(y, z)
<1>1. y.t \in Nat /\ z.t \in Nat /\ Settle \in Nat /\ y.t >= Settle /\ y.sim \in Int
  BY Fields, Numbers DEF Ready, BInv, Builders
<1>2. y.t <= z.t
  BY <1>1 DEF IsAlone
<1>3. Adds(y, e, z)
  BY <1>1, <1>2 DEF Adds, Spaced
<1>4. BInv(z)
  BY <1>3, AddsEvent DEF Ready
<1>5. InSim(z) <=> InSim(y)
  BY <1>1 DEF Remembers, InSim
<1>6. QED
  BY <1>1, <1>2, <1>4, <1>5 DEF Follows, Ready

LEMMA CursorSet ==
    ASSUME NEW w \in Builders, NEW t \in Nat
    PROVE  LET z == [w EXCEPT !.t = t] IN z \in Builders /\ Same(w, z) /\ z.t = t
BY DEF Builders, Same

LEMMA AloneEnds ==
    ASSUME NEW w \in Builders
    PROVE  LET z == AloneEnd(w) IN
           z \in Builders /\ Same(w, z) /\ z.t = IF InSim(w) THEN w.t ELSE w.t + Gap
<1>1. w.t \in Nat /\ Gap \in Nat
  BY Numbers DEF Builders
<1>2. CASE InSim(w)
  BY <1>2 DEF AloneEnd, Same
<1>3. CASE ~ InSim(w)
  <2>1. w.t + Gap \in Nat
    BY <1>1
  <2>2. AloneEnd(w) = [w EXCEPT !.t = w.t + Gap]
    BY <1>3 DEF AloneEnd, Later
  <2>3. QED
    BY <1>3, <2>1, <2>2, CursorSet
<1>4. QED
  BY <1>2, <1>3

LEMMA AwayEnds ==
    ASSUME NEW w \in Builders
    PROVE  LET z == AwayFromChange(w) IN
           /\ z \in Builders /\ Same(w, z)
           /\ IF InSim(w) THEN z.t = w.t ELSE z.t >= w.t /\ z.t >= w.change + SepPs
<1>1. w.t \in Nat /\ w.change \in Nat /\ SepPs \in Nat
  BY Numbers DEF Builders
<1>2. CASE InSim(w)
  BY <1>2 DEF AwayFromChange, Same
<1>3. CASE ~ InSim(w)
  <2> DEFINE n == MaxOf({w.t, w.change + SepPs})
  <2>1. n \in Nat /\ n >= w.t /\ n >= w.change + SepPs
    <3>1. w.change + SepPs \in Int
      BY <1>1
    <3>2. QED
      BY <1>1, <3>1, MaxOfNats
  <2>2. AwayFromChange(w) = [w EXCEPT !.t = n]
    BY <1>3 DEF AwayFromChange, After
  <2> HIDE DEF n
  <2>3. QED
    BY <1>3, <2>1, <2>2, CursorSet
<1>4. QED
  BY <1>2, <1>3

LEMMA EdgedKeeps ==
    ASSUME NEW x, Ready(x)
    PROVE  Follows(x, Edged(x)) /\ Edged(x).level = 1 - x.level
<1> DEFINE w == AloneStart(x)
           y == NewTime(w)
           v == 1 - x.level
           e == Event(y.t, "edge", "C", v, InSim(y))
           m == Emit(w, "edge", "C", v)
           q == [m EXCEPT !.level = v, !.edge = m.t, !.change = m.t]
           z == AloneEnd(q)
<1>1. MovedOn(x, y) /\ Spaced(y) /\ (~ InSim(x) => y.change < y.t)
  BY StartsAlone DEF Ready
<1>2. BInv(w)
  <2>1. CASE InSim(x)
    BY <2>1 DEF AloneStart, Ready
  <2>2. CASE ~ InSim(x)
    <3>1. x.change + Gap \in Nat
      BY Fields, Numbers DEF Ready, BInv
    <3>2. QED
      BY <2>2, <3>1, WaitsOn DEF Ready, AloneStart, MovedOn
  <2>3. QED
    BY <2>1, <2>2
<1>3. x.level \in {0, 1} /\ y.level = x.level
  BY <1>1, Fields DEF Ready, BInv, MovedOn, Same
<1>4. v \in {0, 1}
  BY <1>3
<1>5. Edged(x) = z
  BY DEF Edged
<1> HIDE DEF v, w
<1>6. /\ m \in Builders /\ e \in BuilderEvents
      /\ m.t = y.t /\ m.ev = Append(y.ev, e) /\ m.level = y.level /\ m.at = y.at
      /\ m.put = y.put /\ m.change = y.change /\ m.edge = y.edge /\ m.n = y.n
      /\ m.sim = IF InSim(y) THEN y.sim + 1 ELSE y.sim
  BY <1>2, <1>4, EmitIs
<1>7. e.t = y.t /\ e.sim = InSim(y) /\ e.op = "edge" /\ e.value = v /\ Aimed(e)
  BY DEF Event, Aimed
<1>8. Follows(x, y) /\ y.t \in Nat /\ y.sim \in Int /\ Gap \in Nat /\ Gap > 0
  <2>1. Follows(x, y)
    BY <1>1, MovedFollows
  <2>2. QED
    BY <2>1, Fields, Numbers DEF Follows, Ready, BInv
<1> HIDE DEF y, e, m
<1>9. /\ q \in Builders /\ q.t = m.t /\ q.ev = m.ev /\ q.level = v /\ q.at = m.at
      /\ q.put = m.put /\ q.change = m.t /\ q.edge = m.t /\ q.n = m.n /\ q.sim = m.sim
  <2>1. m.t \in Nat /\ m.t \in Int
    BY <1>6, <1>8
  <2>2. m \in Builders
    BY <1>6
  <2>3. QED
    BY <1>4, <2>1, <2>2 DEF Builders
<1> HIDE DEF q
<1>10. z \in Builders /\ Same(q, z) /\ z.t = IF InSim(q) THEN q.t ELSE q.t + Gap
  BY <1>9, AloneEnds
<1> HIDE DEF z
<1>11. Remembers(y, e, z)
  BY <1>3, <1>6, <1>7, <1>9, <1>10 DEF Remembers, Same, IsChange, v
<1>12. InSim(q) <=> InSim(y)
  BY <1>6, <1>8, <1>9 DEF InSim
<1>13. IF InSim(y) THEN e.op # "sample" /\ z.t = y.t ELSE IsAlone(y, e, z)
  <2>1. CASE InSim(y)
    BY <1>6, <1>7, <1>9, <1>10, <1>12, <2>1
  <2>2. CASE ~ InSim(y)
    <3>1. z.t = y.t + Gap
      BY <1>6, <1>9, <1>10, <1>12, <2>2
    <3>2. y.change < y.t
      BY <1>1, <1>8, <2>2 DEF Follows
    <3>3. y.t < z.t
      BY <1>8, <3>1
    <3>4. QED
      BY <1>7, <2>2, <3>2, <3>3 DEF IsAlone, IsAsync
  <2>3. QED
    BY <2>1, <2>2
<1>14. Ready(y) /\ z.ev = Append(y.ev, e)
  BY <1>6, <1>8, <1>9, <1>10 DEF Follows, Same
<1>15. Follows(y, z)
  BY <1>1, <1>6, <1>7, <1>10, <1>11, <1>13, <1>14, AloneKeeps
<1>16. QED
  BY <1>5, <1>8, <1>9, <1>10, <1>15 DEF Follows, Same, v

(* A glbl or an asynchronous set z, made at y, with what follows it.       *)
LEMMA AsyncTail ==
    ASSUME NEW y, Ready(y), Spaced(y), NEW e \in BuilderEvents, NEW q \in Builders,
           q.ev = Append(y.ev, e), e.t = y.t, e.sim = InSim(y), Aimed(e),
           e.op # "edge", e.op # "sample", Remembers(y, e, q), q.t = y.t,
           ~ InSim(y) => y.change < y.t /\ (y.edge = -1 \/ y.edge + SepPs <= y.t)
    PROVE  Follows(y, AwayFromChange(AloneEnd(q)))
<1> DEFINE u == AloneEnd(q)
           z == AwayFromChange(u)
<1>1. y.t \in Nat /\ y.sim \in Int /\ Gap \in Nat /\ Gap > 0 /\ SepPs \in Nat
  BY Fields, Numbers DEF Ready, BInv
<1>2. u \in Builders /\ Same(q, u) /\ u.t = IF InSim(q) THEN q.t ELSE q.t + Gap
  BY AloneEnds
<1> HIDE DEF u
<1>3. /\ z \in Builders /\ Same(u, z)
      /\ IF InSim(u) THEN z.t = u.t ELSE z.t >= u.t /\ z.t >= u.change + SepPs
  BY <1>2, AwayEnds
<1> HIDE DEF z
<1>4. Same(q, z) /\ (InSim(q) <=> InSim(y)) /\ (InSim(u) <=> InSim(y))
  BY <1>1, <1>2, <1>3 DEF Same, InSim, Remembers
<1>5. q.change = y.t /\ u.change = y.t
  BY <1>2 DEF Remembers, IsChange, Same, BuilderEvents
<1>6. Remembers(y, e, z) /\ z.ev = Append(y.ev, e)
  BY <1>4 DEF Remembers, Same
<1>7. IF InSim(y) THEN e.op # "sample" /\ z.t = y.t ELSE IsAlone(y, e, z)
  <2>1. CASE InSim(y)
    BY <1>2, <1>3, <1>4, <2>1
  <2>2. CASE ~ InSim(y)
    <3>1. u.t = y.t + Gap /\ z.t >= u.t /\ z.t >= y.t + SepPs /\ z.t \in Nat
      BY <1>2, <1>3, <1>4, <1>5, <2>2 DEF Builders
    <3>2. y.t < z.t /\ y.t + SepPs <= z.t
      BY <1>1, <3>1
    <3>3. QED
      BY <2>2, <3>2 DEF IsAlone
  <2>3. QED
    BY <2>1, <2>2
<1>8. Follows(y, z)
  BY <1>3, <1>6, <1>7, AloneKeeps
<1>9. QED
  BY <1>8 DEF z, u

LEMMA AsyncStart ==
    ASSUME NEW x, Ready(x)
    PROVE  BInv(ForAsync(x)) /\ Follows(x, NewTime(ForAsync(x)))
<1> DEFINE y == NewTime(ForAsync(x))
<1>1. MovedOn(x, y)
  BY StartsAway DEF Ready
<1>2. Follows(x, y)
  BY <1>1, MovedFollows
<1>3. BInv(ForAsync(x))
  <2>1. CASE InSim(x)
    BY <2>1 DEF ForAsync, AloneStart, AwayFromEdge, Ready
  <2>2. CASE ~ InSim(x)
    <3> DEFINE u == After(x, x.change + Gap)
    <3>1. x.change + Gap \in Nat /\ SepPs \in Nat
      BY Fields, Numbers DEF Ready, BInv
    <3>2. MovedOn(x, u)
      BY <2>2, <3>1, WaitsOn DEF Ready
    <3>3. BInv(u) /\ ~ InSim(u)
      BY <2>2, <3>2 DEF MovedOn, Same, InSim
    <3> HIDE DEF u
    <3>4. BInv(AfterEdge(u, SepPs))
      BY <3>1, <3>3, WaitsForEdge DEF MovedOn
    <3>5. ForAsync(x) = AfterEdge(u, SepPs)
      BY <2>2, <3>3 DEF ForAsync, AloneStart, AwayFromEdge, u
    <3>6. QED
      BY <3>4, <3>5
  <2>3. QED
    BY <2>1, <2>2
<1>4. QED
  BY <1>2, <1>3

LEMMA AsyncedKeeps ==
    ASSUME NEW x, Ready(x), NEW p \in AsyncPorts, NEW v \in {0, 1}, CanPut(ForAsync(x), p)
    PROVE  Follows(x, Asynced(x, p, v))
<1> DEFINE w == ForAsync(x)
           y == NewTime(w)
           e == Event(y.t, "set", p, v, InSim(y))
           q == Put(w, p, v)
<1>1. /\ MovedOn(x, y) /\ Spaced(y)
      /\ ~ InSim(x) => y.change < y.t /\ (y.edge = -1 \/ y.edge + SepPs <= y.t)
  BY StartsAway DEF Ready
<1>2. BInv(w) /\ Follows(x, y) /\ p \in Ports
  BY AsyncStart DEF Ports
<1>3. p \notin SetNow(y)
  BY DEF CanPut
<1> HIDE DEF w
<1>4. /\ q \in Builders /\ e \in BuilderEvents
      /\ q.t = y.t /\ q.ev = Append(y.ev, e)
      /\ q.level = y.level /\ q.at = y.t /\ q.put = SetNow(y) \cup {p} /\ q.change = y.t
      /\ q.edge = y.edge /\ q.sim = IF InSim(y) THEN y.sim + 1 ELSE y.sim
  BY <1>2, PutIs
<1>5. e.t = y.t /\ e.sim = InSim(y) /\ e.op = "set" /\ e.target = p /\ Aimed(e)
  BY <1>2 DEF Event, Aimed
<1> HIDE DEF y, e, q
<1>6. Remembers(y, e, q)
  BY <1>3, <1>4, <1>5 DEF Remembers, IsChange
<1>7. Follows(y, AwayFromChange(AloneEnd(q)))
  BY <1>1, <1>2, <1>4, <1>5, <1>6, AsyncTail DEF Follows
<1>8. Asynced(x, p, v) = AwayFromChange(AloneEnd(q))
  BY DEF Asynced, q, w
<1>9. QED
  BY <1>2, <1>7, <1>8 DEF Follows

LEMMA GlbledKeeps ==
    ASSUME NEW x, Ready(x), NEW v \in {0, 1}
    PROVE  Follows(x, Glbled(x, v))
<1> DEFINE w == ForAsync(x)
           y == NewTime(w)
           e == Event(y.t, "glbl", "GSR", v, InSim(y))
           m == Emit(w, "glbl", "GSR", v)
           q == [m EXCEPT !.change = m.t]
<1>1. /\ MovedOn(x, y) /\ Spaced(y)
      /\ ~ InSim(x) => y.change < y.t /\ (y.edge = -1 \/ y.edge + SepPs <= y.t)
  BY StartsAway DEF Ready
<1>2. BInv(w) /\ Follows(x, y)
  BY AsyncStart
<1> HIDE DEF w
<1>3. /\ m \in Builders /\ e \in BuilderEvents
      /\ m.t = y.t /\ m.ev = Append(y.ev, e) /\ m.level = y.level /\ m.at = y.at
      /\ m.put = y.put /\ m.change = y.change /\ m.edge = y.edge /\ m.n = y.n
      /\ m.sim = IF InSim(y) THEN y.sim + 1 ELSE y.sim
  BY <1>2, EmitIs
<1>4. e.t = y.t /\ e.sim = InSim(y) /\ e.op = "glbl" /\ Aimed(e)
  BY DEF Event, Aimed
<1>5. Glbled(x, v) = AwayFromChange(AloneEnd(q))
  BY DEF Glbled, w
<1> HIDE DEF y, e, m
<1>6. /\ q \in Builders /\ q.t = m.t /\ q.ev = m.ev /\ q.level = m.level /\ q.at = m.at
      /\ q.put = m.put /\ q.change = m.t /\ q.edge = m.edge /\ q.sim = m.sim
  <2>1. m \in Builders
    BY <1>3
  <2>2. QED
    BY <2>1 DEF Builders
<1> HIDE DEF q
<1>7. Remembers(y, e, q)
  BY <1>3, <1>4, <1>6 DEF Remembers, IsChange
<1>8. q.ev = Append(y.ev, e) /\ q.t = y.t
  BY <1>3, <1>6
<1>9. Follows(y, AwayFromChange(AloneEnd(q)))
  BY <1>1, <1>2, <1>3, <1>4, <1>6, <1>7, <1>8, AsyncTail DEF Follows
<1>10. QED
  BY <1>2, <1>5, <1>9 DEF Follows

LEMMA SampledKeeps ==
    ASSUME NEW x, Ready(x), ~ InSim(x)
    PROVE  Follows(x, Sampled(x)) /\ Sampled(x).level = x.level
<1> DEFINE w == After(x, x.change + Gap)
           y == NewTime(w)
           e == Event(y.t, "sample", x.n, 0, InSim(y))
           m == Emit(w, "sample", x.n, 0)
           q == [m EXCEPT !.n = x.n + 1]
           z == Later(q, Gap)
<1>1. w = AloneStart(x)
  BY DEF AloneStart
<1>2. MovedOn(x, y) /\ Spaced(y) /\ y.change < y.t
  BY <1>1, StartsAlone DEF Ready
<1>3. x.change + Gap \in Nat /\ x.n \in Nat /\ Gap \in Nat /\ Gap > 0
  BY Fields, Numbers DEF Ready, BInv
<1>4. BInv(w)
  BY <1>3, WaitsOn DEF Ready, MovedOn
<1>5. Sampled(x) = z
  BY DEF Sampled
<1> HIDE DEF w
<1>6. /\ m \in Builders /\ e \in BuilderEvents
      /\ m.t = y.t /\ m.ev = Append(y.ev, e) /\ m.level = y.level /\ m.at = y.at
      /\ m.put = y.put /\ m.change = y.change /\ m.edge = y.edge /\ m.n = y.n
      /\ m.sim = IF InSim(y) THEN y.sim + 1 ELSE y.sim
  BY <1>3, <1>4, EmitIs
<1>7. e.t = y.t /\ e.sim = InSim(y) /\ e.op = "sample" /\ Aimed(e)
  BY DEF Event, Aimed
<1>8. Follows(x, y)
  BY <1>2, MovedFollows
<1>9. ~ InSim(y) /\ y.t \in Nat /\ y.level = x.level
  BY <1>2, <1>8, Fields DEF Follows, Ready, BInv, MovedOn, Same
<1> HIDE DEF y, e, m
<1>10. /\ q \in Builders /\ q.t = m.t /\ q.ev = m.ev /\ q.level = m.level /\ q.at = m.at
       /\ q.put = m.put /\ q.change = m.change /\ q.edge = m.edge /\ q.sim = m.sim
  <2>1. m \in Builders /\ x.n + 1 \in Nat
    BY <1>3, <1>6
  <2>2. QED
    BY <2>1 DEF Builders
<1> HIDE DEF q
<1>11. z \in Builders /\ Same(q, z) /\ z.t = q.t + Gap
  <2>1. q.t + Gap \in Nat
    BY <1>3, <1>6, <1>9, <1>10
  <2>2. QED
    BY <1>10, <2>1, CursorSet DEF Later
<1> HIDE DEF z
<1>12. Remembers(y, e, z) /\ z.ev = Append(y.ev, e) /\ z.level = y.level
  BY <1>6, <1>7, <1>9, <1>10, <1>11 DEF Remembers, IsChange, Same
<1>13. IsAlone(y, e, z)
  <2>1. z.t = y.t + Gap
    BY <1>6, <1>10, <1>11
  <2>2. y.t < z.t
    BY <1>3, <1>9, <2>1
  <2>3. QED
    BY <1>2, <1>7, <2>2 DEF IsAlone, IsAsync
<1>14. Follows(y, z)
  BY <1>2, <1>6, <1>7, <1>8, <1>9, <1>11, <1>12, <1>13, AloneKeeps DEF Follows
<1>15. QED
  BY <1>5, <1>8, <1>9, <1>12, <1>14 DEF Follows

LEMMA WaitKeeps ==
    ASSUME NEW x, Ready(x), ~ InSim(x), NEW t \in Nat
    PROVE  Follows(x, After(x, t)) /\ After(x, t).level = x.level /\ Follows(x, Later(x, t))
<1>1. MovedOn(x, After(x, t)) /\ MovedOn(x, Later(x, t))
  BY WaitsOn DEF Ready
<1>2. QED
  BY <1>1, MovedFollows DEF MovedOn, Same

(* cycle.                                                                  *)
LEMMA CycleKeeps ==
    ASSUME NEW x, Ready(x), ~ InSim(x)
    PROVE  LET u == After(x, x.change + Gap)
               y == After(Sampled(Edged(u)), u.t + Period \div 2)
               z == After(Sampled(Edged(y)), u.t + Period)
           IN Ready(z) /\ ~ InSim(z)
<1> DEFINE u == After(x, x.change + Gap)
           y == After(Sampled(Edged(u)), u.t + Period \div 2)
           z == After(Sampled(Edged(y)), u.t + Period)
<1>1. x.change + Gap \in Nat /\ Period \in Nat /\ Period \div 2 \in Nat
  BY Fields, Numbers DEF Ready, BInv
<1>2. Ready(u) /\ ~ InSim(u)
  BY <1>1, WaitKeeps DEF Follows
<1>3. u.t \in Nat
  BY <1>2, Fields DEF Ready, BInv
<1> HIDE DEF u
<1>4. ASSUME NEW w, Ready(w), ~ InSim(w), NEW t \in Nat
      PROVE  Ready(After(Sampled(Edged(w)), t)) /\ ~ InSim(After(Sampled(Edged(w)), t))
  <2>1. Ready(Edged(w)) /\ ~ InSim(Edged(w))
    BY <1>4, EdgedKeeps DEF Follows
  <2>2. Ready(Sampled(Edged(w))) /\ ~ InSim(Sampled(Edged(w)))
    BY <2>1, SampledKeeps DEF Follows
  <2>3. QED
    BY <1>4, <2>2, WaitKeeps DEF Follows
<1>5. u.t + Period \div 2 \in Nat /\ u.t + Period \in Nat
  BY <1>1, <1>3
<1>6. Ready(y) /\ ~ InSim(y)
  BY <1>2, <1>4, <1>5
<1> HIDE DEF y
<1>7. Ready(z) /\ ~ InSim(z)
  BY <1>4, <1>5, <1>6
<1>8. QED
  BY <1>7 DEF u, y, z

(* A block opens where nothing else is, and ends with two events in it.    *)
LEMMA OpenedKeeps ==
    ASSUME NEW x, Ready(x), ~ InSim(x)
    PROVE  Ready(Opened(x)) /\ InSim(Opened(x))
<1> DEFINE u == After(x, x.change + Gap)
           w == AfterEdge(u, Gap)
           z == [w EXCEPT !.sim = 0]
<1>1. x.change + Gap \in Nat /\ Gap \in Nat /\ Gap > 0 /\ Settle \in Nat /\ x.change \in Nat
  BY Fields, Numbers DEF Ready, BInv
<1>2. MovedOn(x, u) /\ u.t >= x.change + Gap
  BY <1>1, WaitsOn DEF Ready
<1>3. Ready(u) /\ ~ InSim(u)
  BY <1>2, MovedFollows DEF Follows
<1> HIDE DEF u
<1>4. MovedOn(u, w)
  BY <1>1, <1>3, WaitsForEdge DEF Ready
<1>5. Ready(w) /\ ~ InSim(w)
  BY <1>3, <1>4, MovedFollows DEF Follows
<1> HIDE DEF w
<1>6. w.t \in Nat /\ u.t \in Nat /\ w.change = x.change /\ u.t <= w.t /\ Len(w.ev) \in Nat
  BY <1>2, <1>3, <1>4, <1>5, Fields DEF MovedOn, Same, Ready, BInv
<1>7. w.change < w.t
  BY <1>1, <1>2, <1>6
<1>8. ASSUME NEW i \in 1 .. Len(w.ev) PROVE w.ev[i].t # w.t
  <2>1. SUFFICES ASSUME w.ev[i].t = w.t PROVE FALSE
    OBVIOUS
  <2>2. w.ev[i].op = "set"
    BY <1>5, <2>1 DEF Ready, BInv, Cursor
  <2>3. w.ev[i].t <= w.change
    BY <1>5, <2>2 DEF Ready, BInv, Past, IsChange
  <2>4. QED
    BY <1>1, <1>6, <1>7, <2>1, <2>3
<1>9. w \in Builders
  BY <1>5 DEF Ready, BInv, FieldsTyped
<1>10. /\ z \in Builders /\ z.t = w.t /\ z.ev = w.ev /\ z.level = w.level /\ z.at = w.at /\ z.put = w.put
       /\ z.change = w.change /\ z.edge = w.edge /\ z.sim = 0
  BY <1>9 DEF Builders
<1> HIDE DEF z
<1>11. InSim(z)
  BY <1>10 DEF InSim
<1>12. FieldsTyped(z) /\ Ordered(z) /\ Cleared(z) /\ Past(z) /\ AllApart(z) /\ Levels(z)
  <2>1. 0 >= -1
    OBVIOUS
  <2>2. FieldsTyped(z)
    BY <1>5, <1>10, <2>1 DEF Ready, BInv, FieldsTyped
  <2>3. QED
    BY <1>5, <1>10, <2>2 DEF Ready, BInv, Ordered, Cleared, Past, AllApart, Levels
<1>13. Cursor(z)
  <2>1. 0 <= Len(w.ev) /\ \A i \in 1 .. Len(w.ev) : ~ (i > Len(w.ev) - 0)
    BY <1>6
  <2>2. QED
    BY <1>8, <1>10, <1>11, <2>1 DEF Cursor
<1>14. Marked(z)
  BY <1>5, <1>10 DEF Ready, BInv, Marked
<1>15. QED
  BY <1>5, <1>10, <1>11, <1>12, <1>13, <1>14 DEF Ready, BInv, Opened, z, w, u

LEMMA ClosedKeeps ==
    ASSUME NEW x, Ready(x), x.sim >= 2
    PROVE  Ready(Closed(x)) /\ ~ InSim(Closed(x))
<1> DEFINE z == [x EXCEPT !.t = x.t + Gap, !.sim = -1]
           k == Len(x.ev)
<1>1. x.t \in Nat /\ Gap \in Nat /\ Gap > 0 /\ x.sim \in Int /\ k \in Nat /\ SepPs \in Nat /\ Settle \in Nat
  BY Fields, Numbers DEF Ready, BInv
<1>2. x \in Builders /\ x.t + Gap \in Nat
  BY <1>1 DEF Ready, BInv, FieldsTyped
<1>3. Closed(x) = z
  BY DEF Closed, Later
<1>4. /\ z \in Builders /\ z.t = x.t + Gap /\ z.ev = x.ev /\ z.level = x.level /\ z.at = x.at
      /\ z.put = x.put /\ z.change = x.change /\ z.edge = x.edge /\ z.sim = -1
  <2> DEFINE n == x.t + Gap
  <2>1. n \in Nat /\ -1 \in Int /\ z = [x EXCEPT !.t = n, !.sim = -1]
    BY <1>2
  <2> HIDE DEF n, z
  <2>2. /\ z \in Builders /\ z.t = n /\ z.ev = x.ev /\ z.level = x.level /\ z.at = x.at
        /\ z.put = x.put /\ z.change = x.change /\ z.edge = x.edge /\ z.sim = -1
    BY <1>2, <2>1 DEF Builders
  <2>3. QED
    BY <2>2 DEF n
<1> HIDE DEF z, k
<1>5. InSim(x)
  BY <1>1 DEF InSim
<1>6. ~ InSim(z)
  BY <1>4 DEF InSim
<1>7. ASSUME NEW i \in 1 .. k PROVE x.ev[i].t \in Nat /\ x.ev[i].t <= x.t /\ x.ev[i].t < z.t
  <2>1. x.ev[i].t \in Nat /\ x.ev[i].t <= x.t
    BY EventFields DEF Ready, BInv, Past, k
  <2>2. QED
    BY <1>1, <1>4, <2>1
<1>8. FieldsTyped(z) /\ Ordered(z) /\ Cleared(z) /\ AllApart(z) /\ Levels(z)
  <2>1. -1 >= -1
    OBVIOUS
  <2>2. FieldsTyped(z)
    BY <1>4, <2>1 DEF Ready, BInv, FieldsTyped
  <2>3. QED
    BY <1>4, <2>2 DEF Ready, BInv, Ordered, Cleared, AllApart, Levels
<1>9. Past(z)
  <2>1. ASSUME NEW i \in 1 .. k, x.ev[i].t + SepPs <= x.t PROVE x.ev[i].t + SepPs <= z.t
    BY <1>1, <1>4, <1>7, <2>1
  <2>2. ASSUME NEW i \in 1 .. k PROVE x.ev[i].t <= z.t /\ x.ev[i].t < z.t
    BY <1>1, <1>4, <1>7
  <2>3. QED
    BY <1>4, <2>1, <2>2 DEF Ready, BInv, Past, k
<1>10. Cursor(z)
  <2>1. \A i \in 1 .. k : x.ev[i].t # z.t
    BY <1>1, <1>4, <1>7
  <2>2. QED
    BY <1>4, <1>6, <2>1 DEF Cursor, k
<1>11. Marked(z)
  <2>1. ASSUME NEW i \in 1 .. k, x.ev[i].sim
        PROVE  \E j \in 1 .. k : j # i /\ x.ev[j].t = x.ev[i].t
    <3>1. CASE x.ev[i].t # x.t
      BY <2>1, <3>1 DEF Ready, BInv, Marked, k
    <3>2. CASE x.ev[i].t = x.t
      <4>1. x.sim <= k /\ \A j \in 1 .. k : x.ev[j].t = x.t <=> j > k - x.sim
        BY <1>5 DEF Ready, BInv, Cursor, k
      <4>2. PICK j \in 1 .. k : j # i /\ j > k - x.sim
        <5>1. k \in 1 .. k /\ k - 1 \in 1 .. k /\ k > k - x.sim /\ k - 1 > k - x.sim /\ k # k - 1
          BY <1>1, <4>1
        <5>2. QED
          BY <5>1
      <4>3. QED
        BY <3>2, <4>1, <4>2
    <3>3. QED
      BY <3>1, <3>2
  <2>2. QED
    BY <1>4, <2>1 DEF Marked, k
<1>12. z.t >= Settle
  BY <1>1, <1>4 DEF Ready
<1>13. QED
  BY <1>3, <1>6, <1>8, <1>9, <1>10, <1>11, <1>12 DEF Ready, BInv

(* init: the builder goes back to time 0, and returns.                     *)
LEMMA InitKeeps ==
    ASSUME NEW x, Ready(x), ~ InSim(x), \A i \in 1 .. Len(x.ev) : x.ev[i].t = 0,
           NEW p \in Ports, CanPut(AtZero(x), p)
    PROVE  Ready(Initialised(x, p)) /\ ~ InSim(Initialised(x, p))
<1> DEFINE w == AtZero(x)
           q == Put(w, p, 1)
           z == [q EXCEPT !.t = x.t, !.change = 0]
<1>1. x.t \in Nat /\ Settle \in Nat /\ Settle > 0 /\ x.sim \in Int /\ x.t >= Settle /\ Gap \in Nat
  BY Fields, Numbers DEF Ready, BInv
<1>2. x \in Builders /\ 0 \in Nat
  BY DEF Ready, BInv, FieldsTyped
<1>3. /\ w \in Builders /\ w.t = 0 /\ w.ev = x.ev /\ w.level = x.level /\ w.at = x.at
      /\ w.put = x.put /\ w.change = x.change /\ w.edge = x.edge /\ w.sim = x.sim
  BY <1>2, CursorSet DEF Same, AtZero
<1>4. CanPut(w, p)
  OBVIOUS
<1> HIDE DEF w
<1>5. ~ InSim(w)
  BY <1>3 DEF InSim
<1>6. ASSUME NEW i \in 1 .. Len(x.ev)
      PROVE  x.ev[i].t = 0 /\ x.ev[i].op = "set" /\ ~ x.ev[i].sim
  <2>1. x.ev[i].t = 0 /\ ~ (0 >= Settle)
    BY <1>1
  <2>2. x.ev[i].t >= Settle \/ IsInitial(x.ev[i])
    BY DEF Ready, BInv, Cleared
  <2>3. QED
    BY <2>1, <2>2 DEF IsInitial
<1>7. FieldsTyped(w) /\ Ordered(w) /\ Cleared(w) /\ AllApart(w) /\ Levels(w) /\ Marked(w)
  BY <1>3, <1>5, <1>6 DEF Ready, BInv, FieldsTyped, Ordered, Cleared, AllApart, Levels, Marked
<1>8. Past(w)
  <2>1. 0 <= 0
    OBVIOUS
  <2>2. QED
    BY <1>3, <1>6, <2>1 DEF Ready, BInv, Past
<1>9. Cursor(w)
  BY <1>3, <1>5, <1>6 DEF Cursor
<1>10. BInv(w)
  BY <1>7, <1>8, <1>9 DEF BInv
<1>11. NewTime(w) = w
  <2>1. \A i \in 1 .. Len(w.ev) : w.ev[i].t = w.t
    BY <1>3, <1>6
  <2>2. QED
    BY <1>10, <2>1, NewTimeStays
<1>12. /\ BInv(q) /\ q.t = 0 /\ ~ InSim(q) /\ q.change = 0
  <2>1. 1 \in {0, 1}
    OBVIOUS
  <2>2. BInv(q) /\ q.t = NewTime(w).t /\ (InSim(q) <=> InSim(w)) /\ q.change = q.t
    BY <1>3, <1>4, <1>5, <1>10, <1>11, <2>1, PutKeeps
  <2>3. QED
    BY <1>3, <1>5, <1>11, <2>2
<1> HIDE DEF q
<1>13. q \in Builders
  BY <1>12 DEF BInv, FieldsTyped
<1>14. z = [q EXCEPT !.t = x.t]
  BY <1>12, <1>13 DEF Builders
<1>15. MovedOn(q, z) /\ z.t = x.t
  <2>1. x.t >= q.t
    BY <1>1, <1>12
  <2>2. QED
    BY <1>1, <1>12, <1>14, <2>1, MovingOn
<1>16. Ready(z) /\ ~ InSim(z)
  BY <1>1, <1>12, <1>15 DEF MovedOn, Same, InSim, Ready
<1>17. QED
  BY <1>16 DEF z, q, w, Initialised

-----------------------------------------------------------------------------
(* What a finished builder's events satisfy, the end among them.           *)

Meets(d, e) == MayMeet(d, e) /\ MayMeet(e, d) /\ d.op # "sample" /\ e.op # "sample"

Spread(s) ==
    \A i, j \in 1 .. Len(s) : i < j => s[i].t = s[j].t \/ s[i].t + Gap <= s[j].t
Meeting(s) ==
    \A i, j \in 1 .. Len(s) :
        /\ i # j /\ s[i].t = s[j].t => Meets(s[i], s[j])
        /\ i # j => AsyncApartFrom(s[i], s[j])
Fielded(s) ==
    \A i \in 1 .. Len(s) :
        /\ s[i].t \in Nat /\ s[i].sim \in BOOLEAN
        /\ s[i].op = "end" => i = Len(s)
        /\ s[i].t >= Settle \/ IsInitial(s[i])
        /\ s[i].sim => \E j \in 1 .. Len(s) : j # i /\ s[j].t = s[i].t
Alternating(s) ==
    \A i \in EdgesOf(s) :
        \/ s[i].value = 1 /\ \A j \in EdgesOf(s) : i <= j
        \/ \E m \in EdgesOf(s) :
              /\ m < i /\ \A j \in EdgesOf(s) : j < i => j <= m
              /\ s[m].value # s[i].value
Whole(v) ==
    /\ v.clock = Stepped /\ v.sep = SepPs
    /\ Len(v.events) \in Nat /\ DOMAIN v.events = 1 .. Len(v.events)
    /\ Fielded(v.events) /\ Spread(v.events) /\ Meeting(v.events) /\ Alternating(v.events)

LEMMA OneMore ==
    ASSUME NEW S, NEW s \in Seq(S), NEW d
    PROVE  LET u == Append(s, d) IN
           /\ Len(u) = Len(s) + 1 /\ u[Len(s) + 1] = d /\ DOMAIN u = 1 .. Len(u)
           /\ \A i \in 1 .. Len(s) : u[i] = s[i]
<1> DEFINE T == S \cup {d}
<1>1. s \in Seq(T) /\ d \in T
  OBVIOUS
<1> HIDE DEF T
<1>2. QED
  BY <1>1

LEMMA BuiltIsWhole ==
    ASSUME NEW x, Ready(x), ~ InSim(x)
    PROVE  Whole(BuiltVec(x))
<1> DEFINE y == NewTime(After(x, x.change + Gap))
           d == Event(y.t, "end", "", 0, FALSE)
           s == Append(x.ev, d)
           k == Len(x.ev)
<1>1. MovedOn(x, y) /\ Spaced(y) /\ y.change < y.t
  BY StartsAlone DEF Ready, AloneStart
<1>2. BInv(y) /\ ~ InSim(y) /\ y.ev = x.ev /\ y.t >= Settle
  BY <1>1, MovedFollows DEF Follows, Ready, MovedOn, Same
<1>3. y.t \in Nat /\ y.change \in Nat /\ Gap \in Nat /\ Gap > 0 /\ k \in Nat /\ Settle \in Nat /\ SepPs \in Nat
  BY <1>2, Fields, Numbers DEF BInv
<1>4. Len(s) = k + 1 /\ s[k + 1] = d /\ (\A i \in 1 .. k : s[i] = x.ev[i]) /\ DOMAIN s = 1 .. Len(s)
  <2>1. x.ev \in Seq(BuilderEvents)
    BY <1>2, Fields DEF BInv
  <2> HIDE DEF d
  <2>2. QED
    BY <2>1, OneMore
<1>5. d.t = y.t /\ d.op = "end" /\ d.sim = FALSE
  BY DEF Event
<1>6. BuiltVec(x).clock = Stepped /\ BuiltVec(x).sep = SepPs /\ BuiltVec(x).events = s
  <2>1. BuiltVec(x) = [clock |-> Stepped, sep |-> SepPs, events |-> s]
    BY DEF BuiltVec
  <2> HIDE DEF s
  <2>2. QED
    BY <2>1
<1> HIDE DEF y, d, s, k
<1>7. 1 .. Len(s) = 1 .. k \cup {k + 1} /\ k + 1 \notin 1 .. k
  BY <1>3, <1>4
<1>8. ASSUME NEW i \in 1 .. k
      PROVE  /\ x.ev[i].t \in Nat /\ x.ev[i].sim \in BOOLEAN
             /\ x.ev[i].op \in {"set", "glbl", "edge", "sample"}
  BY <1>2, EventFields DEF BInv, k
(* The end is later than every other event.                                *)
<1>9. ASSUME NEW i \in 1 .. k PROVE x.ev[i].t + Gap <= y.t /\ x.ev[i].t < y.t
  <2>1. x.ev[i].t # y.t
    <3>1. SUFFICES ASSUME x.ev[i].t = y.t PROVE FALSE
      OBVIOUS
    <3>2. x.ev[i].op = "set"
      BY <1>2, <3>1 DEF BInv, Cursor, k
    <3>3. x.ev[i].t <= y.change
      BY <1>2, <3>2 DEF BInv, Past, IsChange, k
    <3>4. QED
      BY <1>1, <1>3, <3>1, <3>3
  <2>2. x.ev[i].t + Gap <= y.t
    BY <1>1, <1>2, <2>1 DEF Spaced, k
  <2>3. x.ev[i].t \in Nat
    BY <1>8
  <2>4. QED
    BY <1>3, <2>2, <2>3
<1>10. Fielded(s)
  <2>1. ASSUME NEW i \in 1 .. k
        PROVE  /\ s[i].t \in Nat /\ s[i].sim \in BOOLEAN /\ s[i].op # "end"
               /\ s[i].t >= Settle \/ IsInitial(s[i])
               /\ s[i].sim => \E j \in 1 .. Len(s) : j # i /\ s[j].t = s[i].t
    <3>1. s[i] = x.ev[i]
      BY <1>4
    <3>2. x.ev[i].t >= Settle \/ IsInitial(x.ev[i])
      BY <1>2 DEF BInv, Cleared, k
    <3>3. ASSUME x.ev[i].sim PROVE \E j \in 1 .. Len(s) : j # i /\ s[j].t = s[i].t
      <4>1. PICK j \in 1 .. k : j # i /\ x.ev[j].t = x.ev[i].t
        BY <1>2, <3>3 DEF BInv, Marked, k
      <4>2. QED
        BY <1>4, <1>7, <4>1
    <3>4. QED
      BY <1>8, <3>1, <3>2, <3>3
  <2>2. /\ s[k + 1].t \in Nat /\ s[k + 1].sim = FALSE /\ s[k + 1].t >= Settle /\ k + 1 = Len(s)
    BY <1>2, <1>3, <1>4, <1>5
  <2>3. QED
    BY <1>7, <2>1, <2>2 DEF Fielded
<1>11. Spread(s)
  <2>1. ASSUME NEW i \in 1 .. k, NEW j \in 1 .. k, i < j
        PROVE  s[i].t = s[j].t \/ s[i].t + Gap <= s[j].t
    BY <1>2, <1>4, <2>1 DEF BInv, Ordered, k
  <2>2. ASSUME NEW i \in 1 .. k PROVE s[i].t + Gap <= s[k + 1].t
    BY <1>4, <1>5, <1>9
  <2>3. \A i, j \in 1 .. Len(s) : i < j => i \in 1 .. k /\ (j \in 1 .. k \/ j = k + 1)
    BY <1>3, <1>4
  <2>4. QED
    BY <2>1, <2>2, <2>3 DEF Spread
<1>12. Meeting(s)
  <2>1. ASSUME NEW i \in 1 .. k, NEW j \in 1 .. k, i # j
        PROVE  /\ s[i].t = s[j].t => Meets(s[i], s[j])
               /\ AsyncApartFrom(s[i], s[j])
    <3>1. Apart(x.ev[i], x.ev[j]) \/ Apart(x.ev[j], x.ev[i])
      <4>1. i < j \/ j < i
        BY <2>1
      <4>2. QED
        BY <1>2, <4>1 DEF BInv, AllApart, k
    <3>2. QED
      BY <1>4, <1>8, <3>1 DEF Apart, Meets, MayMeet
  <2>2. ASSUME NEW i \in 1 .. k
        PROVE  s[i].t # s[k + 1].t /\ AsyncApartFrom(s[i], s[k + 1]) /\ AsyncApartFrom(s[k + 1], s[i])
    <3>1. s[i].t # s[k + 1].t
      BY <1>3, <1>4, <1>5, <1>8, <1>9
    <3>2. s[k + 1].op = "end"
      BY <1>4, <1>5
    <3>3. QED
      BY <3>1, <3>2 DEF AsyncApartFrom, IsAsync
  <2>3. QED
    BY <1>7, <2>1, <2>2 DEF Meeting
<1>13. Alternating(s)
  <2>1. EdgesOf(s) = EdgesOf(x.ev) /\ \A i \in EdgesOf(x.ev) : s[i] = x.ev[i]
    BY <1>4, <1>5, <1>7 DEF EdgesOf, k
  <2>2. Levels(y)
    BY <1>2 DEF BInv
  <2>3. QED
    BY <1>2, <2>1, <2>2 DEF Levels, Alternating
<1>14. Len(s) \in Nat
  BY <1>3, <1>4
<1>15. QED
  BY <1>4, <1>6, <1>10, <1>11, <1>12, <1>13, <1>14 DEF Whole

LEMMA MaxOfIs ==
    ASSUME NEW S \in SUBSET Int, NEW m \in S, \A n \in S : m >= n
    PROVE  MaxOf(S) = m
<1>1. MaxOf(S) \in S /\ \A n \in S : MaxOf(S) >= n
  BY DEF MaxOf
<1>2. m >= MaxOf(S) /\ MaxOf(S) >= m /\ MaxOf(S) \in Int
  BY <1>1
<1>3. QED
  BY <1>2

LEMMA NoFreeEdges ==
    ASSUME NEW v, v.clock = Stepped
    PROVE  free_clock_edges(v) = {} /\ FreeStops(v) /\ Merged(v) = Timed(v) /\ v.clock.mode # "free"
<1>1. v.clock.mode # "free"
  BY DEF Stepped
<1>2. free_clock_edges(v) = {}
  BY <1>1 DEF free_clock_edges
<1>3. FreeStops(v)
  BY <1>1 DEF FreeStops
<1>4. QED
  BY <1>1, <1>2, <1>3 DEF Merged

(* A timed event is in the file, and not before settle_ps.                 *)
LEMMA TimedAt ==
    ASSUME NEW v, Whole(v), NEW e \in Timed(v)
    PROVE  \E i \in 1 .. Len(v.events) : e = v.events[i] /\ e.t \in Nat /\ e.t >= Settle /\ e.t # 0
<1>1. PICK i \in 1 .. Len(v.events) : e = v.events[i]
  BY DEF Timed, Events, Whole
<1>2. e.t \in Nat /\ (e.t >= Settle \/ IsInitial(e))
  BY <1>1 DEF Whole, Fielded
<1>3. ~ IsInitial(e)
  BY DEF Timed, IsInitial
<1>4. e.t # 0
  BY <1>2, <1>3, Numbers
<1>5. QED
  BY <1>1, <1>2, <1>3, <1>4

(* Two timed events: their times and what they may share.                  *)
LEMMA TimedTwo ==
    ASSUME NEW v, Whole(v), NEW e \in Timed(v), NEW o \in Timed(v), e # o
    PROVE  /\ e.t = o.t \/ e.t + Gap <= o.t \/ o.t + Gap <= e.t
           /\ e.t = o.t => Meets(e, o)
           /\ AsyncApartFrom(e, o)
<1>1. PICK i \in 1 .. Len(v.events) : e = v.events[i]
  BY TimedAt
<1>2. PICK j \in 1 .. Len(v.events) : o = v.events[j]
  BY TimedAt
<1>3. i < j \/ j < i
  BY <1>1, <1>2
<1>4. e.t = o.t \/ e.t + Gap <= o.t \/ o.t + Gap <= e.t
  BY <1>1, <1>2, <1>3 DEF Whole, Spread
<1>5. QED
  BY <1>1, <1>2, <1>4 DEF Whole, Meeting

LEMMA StructureHolds ==
    ASSUME NEW v, Whole(v)
    PROVE  Structure(v)
<1> DEFINE s == v.events
<1>1. SUFFICES ASSUME NEW i \in DOMAIN s
               PROVE  LET e == s[i]
                          others == {s[j] : j \in DOMAIN s \ {i}}
                          same == At(others, e.t)
                      IN /\ i > 1 => s[i - 1].t <= e.t
                         /\ e.op = "end" => i = Len(s)
                         /\ e.t >= Settle \/ (e.t = 0 /\ e.op = "set")
                         /\ \A o \in same : o.sim = e.sim
                         /\ same = {} => ~ e.sim
                         /\ IF \A o \in same \cup {e} : o.op = "set"
                            THEN \A o \in same : o.target # e.target
                            ELSE same # {} => e.sim
  BY DEF Structure
<1> DEFINE e == s[i]
           others == {s[j] : j \in DOMAIN s \ {i}}
           same == At(others, e.t)
<1>2. DOMAIN s = 1 .. Len(s) /\ Len(s) \in Nat /\ Meeting(s)
  BY DEF Whole
<1>a. Fielded(s) /\ Spread(s) /\ Gap \in Nat
  BY Numbers DEF Whole
<1> HIDE DEF s
<1>b. i \in 1 .. Len(s)
  BY <1>2
<1>3. /\ e.t \in Nat /\ e.sim \in BOOLEAN
      /\ e.op = "end" => i = Len(s)
      /\ e.t >= Settle \/ (e.t = 0 /\ e.op = "set")
  BY <1>a, <1>b DEF Fielded, IsInitial
<1>4. ASSUME i > 1 PROVE s[i - 1].t <= e.t
  <2>1. i - 1 \in 1 .. Len(s) /\ i \in 1 .. Len(s) /\ i - 1 < i
    BY <1>2, <1>4, <1>b
  <2>2. s[i - 1].t = e.t \/ s[i - 1].t + Gap <= e.t
    BY <1>a, <2>1 DEF Spread
  <2>3. s[i - 1].t \in Nat
    BY <1>a, <1>b, <2>1 DEF Fielded
  <2>4. QED
    BY <1>a, <1>3, <2>2, <2>3
<1>5. \A o \in same : Meets(e, o)
  BY <1>2 DEF Meeting, At
<1>6. ASSUME same = {} PROVE ~ e.sim
  <2>1. SUFFICES ASSUME e.sim PROVE FALSE
    OBVIOUS
  <2>2. PICK j \in 1 .. Len(s) : j # i /\ s[j].t = e.t
    BY <1>a, <1>b, <2>1 DEF Fielded
  <2>3. s[j] \in same
    BY <1>2, <2>2 DEF At
  <2>4. QED
    BY <1>6, <2>3
<1> HIDE DEF e, others, same
<1>7. IF \A o \in same \cup {e} : o.op = "set"
      THEN \A o \in same : o.target # e.target
      ELSE same # {} => e.sim
  <2>1. CASE \A o \in same \cup {e} : o.op = "set"
    <3>1. \A o \in same : o.target # e.target
      BY <1>5, <2>1 DEF Meets, MayMeet
    <3>2. QED
      BY <2>1, <3>1
  <2>2. CASE ~ (\A o \in same \cup {e} : o.op = "set")
    <3>1. ASSUME same # {}, ~ e.sim PROVE FALSE
      <4>1. \A o \in same : e.op = "set" /\ o.op = "set"
        BY <1>5, <3>1 DEF Meets, MayMeet
      <4>2. QED
        BY <2>2, <3>1, <4>1
    <3>2. QED
      BY <2>2, <3>1
  <2>3. QED
    BY <2>1, <2>2
<1>8. \A o \in same : o.sim = e.sim
  BY <1>5 DEF Meets, MayMeet
<1>9. QED
  BY <1>3, <1>4, <1>6, <1>7, <1>8 DEF e, others, same

LEMMA AloneHolds ==
    ASSUME NEW v, Whole(v)
    PROVE  Alone(v)
<1>1. Merged(v) = Timed(v)
  BY NoFreeEdges DEF Whole
<1>2. ASSUME NEW e \in Timed(v), IsChange(e), e.op = "edge" \/ IsAsync(e),
             NEW o \in Timed(v), o.t = e.t, o # e
      PROVE  e.sim /\ o.sim
  <2>1. Meets(e, o)
    BY <1>2, TimedTwo
  <2>2. e.t # 0
    BY TimedAt
  <2>3. e.sim
    BY <1>2, <2>1, <2>2 DEF Meets, MayMeet
  <2>4. QED
    BY <2>1, <2>3 DEF Meets, MayMeet
<1>3. ASSUME NEW e \in Timed(v), IsChange(e), e.op = "edge" \/ IsAsync(e)
      PROVE  LET changes == {x \in At(Timed(v), e.t) : IsChange(x)} IN
             changes = {e} \/ \A x \in changes : x.sim
  <2> DEFINE changes == {x \in At(Timed(v), e.t) : IsChange(x)}
  <2>1. e \in changes
    BY <1>3 DEF At
  <2>2. \A x \in changes : x \in Timed(v) /\ x.t = e.t
    BY DEF At
  <2> HIDE DEF changes
  <2>3. CASE \E o \in changes : o # e
    <3>1. ASSUME NEW o \in changes, o # e PROVE e.sim /\ o.sim
      BY <1>2, <1>3, <2>2, <3>1
    <3>2. e.sim
      BY <2>3, <3>1
    <3>3. \A o \in changes : o.sim
      BY <3>1, <3>2
    <3>4. QED
      BY <3>3 DEF changes
  <2>4. CASE \A o \in changes : o = e
    <3>1. changes \subseteq {e} /\ {e} \subseteq changes
      BY <2>1, <2>4
    <3>2. changes = {e}
      BY <3>1
    <3>3. QED
      BY <3>2 DEF changes
  <2>5. QED
    BY <2>3, <2>4 DEF changes
<1>4. QED
  BY <1>1, <1>3 DEF Alone

LEMMA EdgesAlternateHolds ==
    ASSUME NEW v, Whole(v)
    PROVE  EdgesAlternate(v)
<1> DEFINE s == v.events
           edges == {i \in DOMAIN s : s[i].op = "edge"}
<1>1. v.clock.mode # "free"
  BY NoFreeEdges DEF Whole
<1>2. edges = EdgesOf(s) /\ Alternating(s)
  BY DEF Whole, EdgesOf
<1>3. EdgesOf(s) \subseteq Int
  BY DEF EdgesOf
<1>4. ASSUME NEW i \in EdgesOf(s)
      PROVE  LET before == {j \in EdgesOf(s) : j < i} IN
             IF before = {} THEN s[i].value = 1 ELSE s[i].value # s[MaxOf(before)].value
  <2> DEFINE before == {j \in EdgesOf(s) : j < i}
  <2>1. CASE s[i].value = 1 /\ \A j \in EdgesOf(s) : i <= j
    <3>1. before = {}
      BY <1>3, <2>1
    <3>2. QED
      BY <2>1, <3>1
  <2>2. CASE \E m \in EdgesOf(s) :
                /\ m < i /\ \A j \in EdgesOf(s) : j < i => j <= m
                /\ s[m].value # s[i].value
    <3>1. PICK m \in EdgesOf(s) :
                /\ m < i /\ \A j \in EdgesOf(s) : j < i => j <= m
                /\ s[m].value # s[i].value
      BY <2>2
    <3>2. before \in SUBSET Int /\ m \in before /\ \A n \in before : m >= n
      BY <1>3, <3>1
    <3> HIDE DEF before
    <3>3. MaxOf(before) = m
      BY <3>2, MaxOfIs
    <3>4. QED
      BY <3>1, <3>2, <3>3 DEF before
  <2>3. QED
    BY <1>2, <2>1, <2>2 DEF Alternating
<1>5. QED
  BY <1>1, <1>2, <1>4 DEF EdgesAlternate

LEMMA WholeIsValid ==
    ASSUME NEW v, Whole(v), HasSamples(v)
    PROVE  /\ ValidButRelease(v) /\ (StartsClear => validate(v))
           /\ validate(v) /\ (\A e \in Events(v) : e.op # "glbl" /\ ~ e.sim) => hw_renderable(v)
<1>1. Merged(v) = Timed(v) /\ FreeStops(v) /\ v.clock.mode # "free" /\ v.sep = SepPs
  BY NoFreeEdges DEF Whole
<1>2. /\ Gap \in Nat /\ Gap >= MinSep /\ MinSep \in Nat /\ MinSep > 0 /\ SepPs \in Nat
      /\ RocWidth \in Nat /\ Settle \in Nat
      /\ min_event_gap(SepPs) \in Nat /\ Gap >= min_event_gap(SepPs)
  BY Numbers
<1>3. ASSUME NEW e \in Timed(v) PROVE e.t \in Nat /\ e.t >= Settle /\ e.t # 0
  BY TimedAt
<1>4. ASSUME StartsClear PROVE ClearOfRelease(v)
  <2>1. Settle - RocWidth >= SepPs
    BY <1>4 DEF StartsClear
  <2>2. ASSUME NEW e \in Timed(v) PROVE e.t >= RocWidth + SepPs
    BY <1>2, <1>3, <2>1
  <2>3. QED
    BY <1>1, <2>2 DEF ClearOfRelease
<1>5. SamplesApart(v)
  <2>1. ASSUME NEW s \in Timed(v), NEW e \in Timed(v), s.op = "sample", IsChange(e), e.t <= s.t
        PROVE  e.t < s.t /\ s.t - e.t >= MinSep
    <3>1. e # s
      BY <2>1 DEF IsChange
    <3>2. e.t # s.t
      BY <2>1, <3>1, TimedTwo DEF Meets
    <3>3. e.t + Gap <= s.t \/ s.t + Gap <= e.t
      BY <3>1, <3>2, TimedTwo
    <3>4. e.t \in Nat /\ s.t \in Nat
      BY <1>3
    <3>5. QED
      BY <1>2, <2>1, <3>3, <3>4
  <2>2. QED
    BY <1>1, <2>1 DEF SamplesApart
<1>6. AsyncApart(v)
  <2>1. ASSUME NEW a \in Timed(v), NEW e \in Timed(v), IsAsync(a), ~ a.sim, e.op = "edge"
        PROVE  a.t <= e.t - SepPs \/ a.t >= e.t + SepPs
    <3>1. a # e
      BY <2>1 DEF IsAsync
    <3>2. a.t + SepPs <= e.t \/ e.t + SepPs <= a.t
      BY <1>3, <2>1, <3>1, TimedTwo DEF AsyncApartFrom
    <3>3. a.t \in Nat /\ e.t \in Nat
      BY <1>3
    <3>4. QED
      BY <1>2, <3>2, <3>3
  <2>2. QED
    BY <1>1, <2>1 DEF AsyncApart
<1>7. EventGaps(v)
  <2>1. ASSUME NEW e \in Timed(v), NEW o \in Timed(v), e.t < o.t
        PROVE  o.t - e.t >= min_event_gap(SepPs)
    <3>1. e.t \in Nat /\ o.t \in Nat
      BY <1>3
    <3>2. e # o /\ e.t # o.t
      BY <2>1, <3>1
    <3>3. e.t + Gap <= o.t \/ o.t + Gap <= e.t
      BY <3>2, TimedTwo
    <3>4. QED
      BY <1>2, <2>1, <3>1, <3>3
  <2>2. QED
    BY <1>1, <2>1 DEF EventGaps
<1>8. ValidButRelease(v)
  BY <1>1, <1>5, <1>6, StructureHolds, AloneHolds, EdgesAlternateHolds DEF ValidButRelease
<1>9. StartsClear => validate(v)
  BY <1>4, <1>8 DEF validate
<1>10. QED
  BY <1>1, <1>7, <1>8, <1>9 DEF hw_renderable

-----------------------------------------------------------------------------
(* The inductive invariant: while a generator calls it the builder keeps   *)
(* to Ready, and the stimulus it built is that of a builder that did.      *)
(* calls tells a built stimulus from a file and from an equivalence        *)
(* stimulus, which make no calls of this kind.                             *)

BuiltFrom(x) == Ready(x) /\ ~ InSim(x) /\ vec = BuiltVec(x)
StimulusInv ==
    /\ calls \in Nat
    /\ stage = "building" => Ready(builder)
    /\ Built => BuiltFrom(builder)
    /\ stage \in {"equiv", "raised", "equiv_built"} => calls = 0

LEMMA StimulusStarts == EInit => StimulusInv
<1>1. SUFFICES ASSUME EInit PROVE StimulusInv
  OBVIOUS
<1>2. calls = 0 /\ builder = NewBuilder
  BY <1>1 DEF EInit, StimulusInit
<1>3. Ready(builder)
  BY <1>2, StartsSound DEF Ready
<1>4. ~ Built
  BY <1>2 DEF Built
<1>5. QED
  BY <1>2, <1>3, <1>4 DEF StimulusInv

(* The generator's calls.                                                  *)
LEMMA CallsKeep ==
    ASSUME StimulusInv, Building,
           \/ \E p \in Ports : InitPort(p)
           \/ Set \/ Edge \/ Sample \/ Cycle \/ Open
           \/ \E p \in AsyncPorts, v \in {0, 1} : Async(p, v)
           \/ \E v \in {0, 1} : Glbl(v)
           \/ \E dt \in Waits : Wait(dt)
    PROVE  StimulusInv'
<1>1. stage = "building" /\ Ready(builder) /\ calls \in Nat
  BY DEF Building, StimulusInv
<1>2. \E x : Ready(x) /\ Call(x)
  <2>1. ASSUME NEW p \in Ports, InitPort(p) PROVE \E x : Ready(x) /\ Call(x)
    BY <1>1, <2>1, InitKeeps DEF InitPort
  <2>2. CASE Set
    <3>1. PICK ports \in (SUBSET DataPorts) \ {{}} : \E f \in [ports -> {0, 1}] :
                   CanSet(builder, f) /\ Call(SetPorts(builder, f))
      BY <2>2 DEF Set
    <3>2. PICK f \in [ports -> {0, 1}] : CanSet(builder, f) /\ Call(SetPorts(builder, f))
      BY <3>1
    <3>3. Ready(SetPorts(builder, f))
      BY <1>1, <3>2, SetKeeps DEF Follows
    <3>4. QED
      BY <3>2, <3>3
  <2>3. CASE Edge
    BY <1>1, <2>3, EdgedKeeps DEF Edge, Follows
  <2>4. CASE Sample
    BY <1>1, <2>4, SampledKeeps DEF Sample, Follows
  <2>5. CASE Cycle
    BY <1>1, <2>5, CycleKeeps DEF Cycle
  <2>6. CASE Open
    BY <1>1, <2>6, OpenedKeeps DEF Open
  <2>7. ASSUME NEW p \in AsyncPorts, NEW v \in {0, 1}, Async(p, v) PROVE \E x : Ready(x) /\ Call(x)
    BY <1>1, <2>7, AsyncedKeeps DEF Async, Follows
  <2>8. ASSUME NEW v \in {0, 1}, Glbl(v) PROVE \E x : Ready(x) /\ Call(x)
    BY <1>1, <2>8, GlbledKeeps DEF Glbl, Follows
  <2>9. ASSUME NEW dt \in Waits, Wait(dt) PROVE \E x : Ready(x) /\ Call(x)
    <3>1. dt \in Nat
      BY StimulusAssumption
    <3>2. QED
      BY <1>1, <2>9, <3>1, WaitKeeps DEF Wait, Follows
  <2>10. QED
    BY <2>1, <2>2, <2>3, <2>4, <2>5, <2>6, <2>7, <2>8, <2>9
<1>3. PICK x : Ready(x) /\ Call(x)
  BY <1>2
<1>4. builder' = x /\ calls' \in Nat /\ stage' = "building"
  BY <1>1, <1>3 DEF Call
<1>5. Ready(builder')
  BY <1>3, <1>4
<1>6. Ready(builder)'
  BY <1>5 DEF Ready, BInv, FieldsTyped, Ordered, Cleared, Past, Cursor, AllApart, Marked, Levels, InSim
<1>7. ~ Built' /\ stage' \notin {"equiv", "raised", "equiv_built"}
  BY <1>4 DEF Built
<1>8. QED
  BY <1>4, <1>6, <1>7 DEF StimulusInv

(* The steps that leave the builder alone.                                 *)
LEMMA KeptAsItIs ==
    ASSUME StimulusInv, UNCHANGED <<calls, builder, vec>>,
           stage' # "building", stage # "building",
           stage' \in {"equiv", "raised", "equiv_built"} => stage \in {"equiv", "raised", "equiv_built"}
    PROVE  StimulusInv'
<1>1. BuiltFrom(builder)' <=> BuiltFrom(builder)
  BY DEF BuiltFrom, Ready, BInv, FieldsTyped, Ordered, Cleared, Past, Cursor, AllApart, Marked, Levels, InSim
<1>2. QED
  BY <1>1 DEF StimulusInv, Built

LEMMA BuildKeeps ==
    ASSUME StimulusInv, Build
    PROVE  StimulusInv'
<1>1. /\ Ready(builder) /\ ~ InSim(builder) /\ vec' = BuiltVec(builder) /\ builder' = builder
      /\ calls' = calls /\ stage' = "read"
  BY DEF StimulusInv, Build
<1>2. Ready(builder') /\ ~ InSim(builder') /\ vec' = BuiltVec(builder')
  BY <1>1
<1>3. BuiltFrom(builder)'
  BY <1>2 DEF BuiltFrom, Ready, BInv, FieldsTyped, Ordered, Cleared, Past, Cursor, AllApart, Marked, Levels, InSim
<1>4. calls' \in Nat /\ stage' # "building" /\ stage' \notin {"equiv", "raised", "equiv_built"}
  BY <1>1 DEF StimulusInv
<1>5. QED
  BY <1>3, <1>4 DEF StimulusInv

LEMMA CloseKeeps ==
    ASSUME StimulusInv, Close
    PROVE  StimulusInv'
<1>1. Ready(builder) /\ builder.sim >= 2 /\ builder' = Closed(builder) /\ calls' = calls /\ stage' = "building"
  BY DEF StimulusInv, Close
<1>2. Ready(Closed(builder))
  BY <1>1, ClosedKeeps
<1>3. Ready(builder')
  BY <1>1, <1>2
<1>4. Ready(builder)'
  BY <1>3 DEF Ready, BInv, FieldsTyped, Ordered, Cleared, Past, Cursor, AllApart, Marked, Levels, InSim
<1>5. calls' \in Nat /\ stage' = "building" /\ ~ Built' /\ stage' \notin {"equiv", "raised", "equiv_built"}
  BY <1>1 DEF StimulusInv, Built
<1>6. QED
  BY <1>4, <1>5 DEF StimulusInv

(* The equivalence stimulus drives the builder too, but makes no call.     *)
LEMMA EquivKeeps ==
    ASSUME StimulusInv, Phase \/ EquivBuild
    PROVE  StimulusInv'
<1>1. /\ calls = 0 /\ calls' = calls /\ stage' \in {"equiv", "raised", "equiv_built"}
  BY DEF StimulusInv, Phase, EquivBuild
<1>2. stage' # "building" /\ ~ Built' /\ calls' = 0
  BY <1>1 DEF Built
<1>3. QED
  BY <1>2 DEF StimulusInv

LEMMA StimulusStep == StimulusInv /\ [ENext]_<<stimulusVars, evars>> => StimulusInv'
<1>1. SUFFICES ASSUME StimulusInv, [ENext]_<<stimulusVars, evars>> PROVE StimulusInv'
  OBVIOUS
<1>2. CASE UNCHANGED <<stimulusVars, evars>>
  <2>1. UNCHANGED <<calls, builder, vec, stage>>
    BY <1>2 DEF stimulusVars
  <2>2. BuiltFrom(builder)' <=> BuiltFrom(builder)
    BY <2>1
       DEF BuiltFrom, Ready, BInv, FieldsTyped, Ordered, Cleared, Past, Cursor, AllApart, Marked, Levels, InSim
  <2>3. Ready(builder)' <=> Ready(builder)
    BY <2>1 DEF Ready, BInv, FieldsTyped, Ordered, Cleared, Past, Cursor, AllApart, Marked, Levels, InSim
  <2>4. QED
    BY <1>1, <2>1, <2>2, <2>3 DEF StimulusInv, Built
<1>3. CASE StimulusNext
  <2>1. ASSUME NEW p \in Ports, InitPort(p) PROVE StimulusInv'
    BY <1>1, <2>1, CallsKeep DEF InitPort
  <2>2. CASE Set \/ Edge \/ Sample \/ Cycle \/ Open
    BY <1>1, <2>2, CallsKeep DEF Set, Edge, Sample, Cycle, Open
  <2>3. ASSUME NEW p \in AsyncPorts, NEW v \in {0, 1}, Async(p, v) PROVE StimulusInv'
    BY <1>1, <2>3, CallsKeep DEF Async
  <2>4. ASSUME NEW v \in {0, 1}, Glbl(v) PROVE StimulusInv'
    BY <1>1, <2>4, CallsKeep DEF Glbl
  <2>5. ASSUME NEW dt \in Waits, Wait(dt) PROVE StimulusInv'
    BY <1>1, <2>5, CallsKeep DEF Wait
  <2>6. CASE Close
    BY <1>1, <2>6, CloseKeeps
  <2>7. CASE Build
    BY <1>1, <2>7, BuildKeeps
  <2>8. CASE Compile \/ Replay \/ Generate \/ Tick \/ FinishReplay
    <3>1. /\ UNCHANGED <<calls, builder, vec>>
          /\ stage \in {"read", "compiled"} /\ stage' \in {"compiled", "refused", "done"}
      BY <2>8 DEF Compile, Replay, Generate, Tick, FinishReplay
    <3>2. stage' # "building" /\ stage # "building" /\ stage' \notin {"equiv", "raised", "equiv_built"}
      BY <3>1
    <3>3. QED
      BY <1>1, <3>1, <3>2, KeptAsItIs
  <2>9. QED
    BY <1>3, <2>1, <2>2, <2>3, <2>4, <2>5, <2>6, <2>7, <2>8 DEF StimulusNext
<1>4. CASE Phase \/ EquivBuild
  BY <1>1, <1>4, EquivKeeps
<1>5. QED
  BY <1>1, <1>2, <1>3, <1>4 DEF ENext

LEMMA StimulusSafe == StimulusInv => ValidByConstruction
<1>1. SUFFICES ASSUME StimulusInv, Built, HasSamples(vec)
               PROVE  /\ ValidButRelease(vec) /\ (StartsClear => validate(vec))
                      /\ validate(vec) /\ (\A e \in Events(vec) : e.op # "glbl" /\ ~ e.sim)
                            => hw_renderable(vec)
  BY DEF ValidByConstruction
<1>2. Ready(builder) /\ ~ InSim(builder) /\ vec = BuiltVec(builder)
  BY <1>1 DEF StimulusInv, BuiltFrom
<1>3. Whole(vec)
  BY <1>2, BuiltIsWhole
<1>4. QED
  BY <1>1, <1>3, WholeIsValid

(* What the builder emits satisfies every rule of xut.validate, whatever    *)
(* calls a generator makes and in whatever order, for every gap, separation,*)
(* period and settling time that the builder accepts; the rule about the    *)
(* release of GSR only where the settle time is clear of it, which the      *)
(* builder does not ask for (VecBuilder in stimgen.py).                     *)
THEOREM BuiltStimulusIsValid == ESpec => []ValidByConstruction
<1>1. QED
  BY StimulusStarts, StimulusStep, StimulusSafe, PTL DEF ESpec, ESafety

-----------------------------------------------------------------------------
(***************************************************************************)
(* The replay: what the testbench shows of a stimulus is what the golden    *)
(* replay says.  The testbench's clock is a process beside the words; the   *)
(* golden model lays out its edges by division.                             *)
(***************************************************************************)

(* The runs of a free clock, and when one rises and falls.                 *)
Span(v) == v.clock.high + v.clock.low
RunsOf(v) == IF v.clock.mode = "free" THEN free_runs(v) ELSE {}
Within(r, t) == r.start <= t /\ (r.stop = -1 \/ t < r.stop)
RiseIn(v, r, t) == Within(r, t) /\ (t - r.start) % Span(v) = 0
FallIn(v, r, t) ==
    /\ r.start + v.clock.high <= t /\ Within(r, t)
    /\ (t - r.start - v.clock.high) % Span(v) = 0
RiseAt(v, t) == \E r \in RunsOf(v) : RiseIn(v, r, t)
FallAt(v, t) == \E r \in RunsOf(v) : FallIn(v, r, t)
Edge1(t, value) == Seen(t, {<<"C", value>>})

(* A testbench x has run the words w before the cut: those of its own time *)
(* are either all still to come or all done.                               *)
Pending(w, x) == x.pc <= Len(w) /\ w[x.pc].t <= x.now
Cut(w, x) == IF Pending(w, x) THEN x.now ELSE x.now + 1
Active(r, c) == r.start < c /\ (r.stop = -1 \/ r.stop >= c)

(* What the device is shown of an event.                                   *)
ShowsSets(v, t) == IF Changed(v, t) = {} THEN {} ELSE {Seen(t, Changed(v, t))}
Shows(v, e) ==
    IF e.op = "set" THEN ShowsSets(v, e.t)
    ELSE IF e.op \in {"edge", "glbl"} THEN {Seen(e.t, {<<e.target, e.value>>})}
    ELSE IF e.op = "sample" THEN {Seen(e.t, {<<"sample", e.target>>})}
    ELSE {}

(* Its words, inputs and clock enable are those of the cut.                *)
WordsRun(w, x) ==
    /\ x.now \in Nat /\ x.pc \in 1 .. Len(w) + 1
    /\ \A k \in 1 .. Len(w) : k < x.pc <=> w[k].t < Cut(w, x)
EndRan(w, x) == x.done => \E k \in 1 .. Len(w) : w[k].op = "end" /\ w[k].t < Cut(w, x)
Inputs(v, w, x) == \A p \in Ports : x.in[p] = ValueBefore(v, p, Cut(w, x))
EnIs(v, w, x) == x.en <=> \E r \in RunsOf(v) : Active(r, Cut(w, x))

(* Its clock generator is a high or a low phase after a rise of the clock, *)
(* and is woken in time for one.                                           *)
GenIs(v, x) ==
    /\ x.gen \in {"wait", "high", "low"} /\ x.at \in Nat
    /\ x.gen = "wait" /\ x.en => RiseAt(v, x.now)
    /\ x.gen = "high" =>
         /\ RiseAt(v, x.at - v.clock.high) /\ Edge1(x.at - v.clock.high, 1) \in x.seen
         /\ x.at - v.clock.high <= x.now /\ x.now <= x.at
    /\ x.gen = "low" =>
         /\ RiseAt(v, x.at - Span(v))
         /\ x.at - v.clock.low <= x.now /\ x.now <= x.at

(* The device has seen nothing else, all the events before the cut, and    *)
(* every edge of the clock up to now but what is due at this time.         *)
SeenOnly(v, w, x) ==
    \A s \in x.seen :
        \/ \E e \in Events(v) : e.t < Cut(w, x) /\ s \in Shows(v, e)
        \/ \E t \in 0 .. x.now : RiseAt(v, t) /\ s = Edge1(t, 1)
        \/ \E t \in 0 .. x.now : FallAt(v, t) /\ s = Edge1(t, 0)
SeenAll(v, w, x) == \A e \in Events(v) : e.t < Cut(w, x) => Shows(v, e) \subseteq x.seen
RiseDue(w, x) == Pending(w, x) \/ (x.gen = "low" /\ x.at = x.now) \/ (x.gen = "wait" /\ x.en)
EdgesSeen(v, w, x) ==
    \A t \in 0 .. x.now :
        /\ RiseAt(v, t) => Edge1(t, 1) \in x.seen \/ (t = x.now /\ RiseDue(w, x))
        /\ FallAt(v, t) => Edge1(t, 0) \in x.seen \/ (t = x.now /\ x.gen = "high" /\ x.at = t)

(* The stimuli that the comparison is about.                               *)
Plain(v) == validate(v) /\ StartsAtRest(v) /\ \A e \in Events(v) : ~ e.sim
Replays(v, w, x) ==
    /\ WordsRun(w, x) /\ EndRan(w, x) /\ Inputs(v, w, x) /\ EnIs(v, w, x) /\ GenIs(v, x)
    /\ SeenOnly(v, w, x) /\ SeenAll(v, w, x) /\ EdgesSeen(v, w, x)
-----------------------------------------------------------------------------
(* Least and greatest numbers                                              *)

LEMMA Smallest ==
    ASSUME NEW S \in SUBSET Nat, S # {}
    PROVE  \E m \in S : \A n \in S : m <= n
<1>1. \E m \in S : \A n \in S : ~ (<<n, m>> \in OpToRel(<, Nat))
  BY NatLessThanWellFounded, WFMin
<1>2. PICK m \in S : \A n \in S : ~ (<<n, m>> \in OpToRel(<, Nat))
  BY <1>1
<1>3. ASSUME NEW n \in S PROVE m <= n
  <2>1. ~ (n < m)
    BY <1>2 DEF OpToRel
  <2>2. m \in Nat /\ n \in Nat
    OBVIOUS
  <2>3. QED
    BY <2>1, <2>2
<1>4. QED
  BY <1>3

LEMMA MinOfIs ==
    ASSUME NEW S \in SUBSET Nat, S # {}
    PROVE  MinOf(S) \in S /\ \A n \in S : MinOf(S) <= n
BY Smallest DEF MinOf

LEMMA MaxOfBounded ==
    ASSUME NEW S \in SUBSET Nat, S # {}, NEW b \in Nat, \A n \in S : n <= b
    PROVE  MaxOf(S) \in S /\ \A n \in S : n <= MaxOf(S)
<1> DEFINE U == {n \in Nat : \A s \in S : s <= n}
<1>1. b \in U /\ U \in SUBSET Nat
  OBVIOUS
<1>2. PICK m \in U : \A n \in U : m <= n
  BY <1>1, Smallest
<1>3. m \in S
  <2>1. SUFFICES ASSUME m \notin S PROVE FALSE
    OBVIOUS
  <2>2. PICK s \in S : TRUE
    OBVIOUS
  <2>3. \A n \in S : n < m
    BY <1>2, <2>1
  <2>4. m - 1 \in U
    BY <2>2, <2>3
  <2>5. QED
    BY <1>2, <2>4
<1>4. \A n \in S : m >= n
  BY <1>2
<1>5. \E n \in S : \A k \in S : n >= k
  BY <1>3, <1>4
<1>6. MaxOf(S) \in S /\ \A n \in S : MaxOf(S) >= n
  BY <1>5 DEF MaxOf
<1>7. QED
  BY <1>6

(* Steps of one period                                                     *)

LEMMA PeriodAway ==
    ASSUME NEW a \in Nat, NEW b \in Nat, NEW p \in Nat, p > 0,
           (a % p) = 0, (b % p) = 0, a < b
    PROVE  a + p <= b
<1>1. a = p * (a \div p) /\ b = p * (b \div p)
  BY SMTT(30)
<1>2. a \div p \in Int /\ b \div p \in Int
  OBVIOUS
<1> DEFINE q == a \div p
           r == b \div p
<1> HIDE DEF q, r
<1>3. a = p * q /\ b = p * r /\ q \in Int /\ r \in Int
  BY <1>1, <1>2 DEF q, r
<1>4. q + 1 <= r
  <2>1. SUFFICES ASSUME r <= q PROVE FALSE
    BY <1>3
  <2>2. p * (q - r) >= 0
    BY <1>3, <2>1
  <2>3. p * (q - r) = p * q - p * r
    BY <1>3
  <2>4. QED
    BY <1>3, <2>2, <2>3
<1>5. p * (r - (q + 1)) >= 0
  BY <1>3, <1>4
<1>6. p * (r - (q + 1)) = p * r - p * q - p
  BY <1>3
<1>7. QED
  BY <1>3, <1>5, <1>6

LEMMA NextPeriod ==
    ASSUME NEW a \in Nat, NEW p \in Nat, p > 0, (a % p) = 0
    PROVE  ((a + p) % p) = 0
<1>1. a = p * (a \div p) /\ a \div p \in Int
  BY SMTT(30)
<1> DEFINE q == a \div p
<1> HIDE DEF q
<1>2. a = p * q /\ q \in Int
  BY <1>1 DEF q
<1>3. ((p * (q + 1)) % p) = 0
  BY <1>2
<1>4. a + p = p * (q + 1)
  BY <1>2
<1>5. QED
  BY <1>3, <1>4

LEMMA WholePeriods ==
    ASSUME NEW b \in Nat, NEW p \in Nat, p > 0
    PROVE  ((b - (b % p)) % p) = 0
OBVIOUS

LEMMA PeriodsBetween ==
    ASSUME NEW a \in Nat, NEW b \in Nat, NEW p \in Nat, p > 0,
           (a % p) = 0, a <= b, (b % p) > 0
    PROVE  a + (b % p) <= b
<1> DEFINE m == b % p
           c == b - m
<1>1. m \in Nat /\ m < p /\ m <= b
  <2>1. m \in 0 .. p - 1
    OBVIOUS
  <2>2. b < p => m = b
    OBVIOUS
  <2> HIDE DEF m
  <2>3. QED
    BY <2>1, <2>2
<1>2. (c % p) = 0
  BY WholePeriods
<1> HIDE DEF m
<1>3. c \in Nat /\ b = c + m
  BY <1>1
<1> HIDE DEF c
<1>4. CASE a <= c
  BY <1>1, <1>3, <1>4 DEF m
<1>5. CASE c < a
  <2>1. c + p <= a
    BY <1>2, <1>3, <1>5, PeriodAway
  <2>2. QED
    BY <1>1, <1>3, <2>1
<1>6. QED
  BY <1>3, <1>4, <1>5
-----------------------------------------------------------------------------
(* Events                                                                  *)

Legible(v) ==
    /\ v.clock.start \in Nat /\ v.clock.high \in Nat /\ v.clock.low \in Nat
    /\ IF v.clock.mode = "free" THEN v.clock.high > 0 /\ v.clock.low > 0
       ELSE \A e \in Events(v) : e.op \notin {"clock_start", "clock_stop"}
    /\ v.events \in Seq(Events(v)) /\ \A e \in Events(v) : e.t \in Nat /\ Aimed(e)

LEMMA FilesAreLegible ==
    ASSUME NEW v, IsFile(v)
    PROVE  Legible(v)
<1> DEFINE s == v.events
<1>1. /\ v.clock \in [mode : {"stepped", "free"}, start : Nat, high : Nat, low : Nat]
      /\ s \in Seq(FileEvents)
  BY DEF IsFile
<1>2. v.clock.start \in Nat /\ v.clock.high \in Nat /\ v.clock.low \in Nat
  BY <1>1
<1>3. s \in Seq(Events(v))
  <2>1. \A i \in 1 .. Len(s) : s[i] \in Events(v)
    BY <1>1 DEF Events
  <2>2. s \in [1 .. Len(s) -> Events(v)] /\ Len(s) \in Nat
    BY <1>1, <2>1
  <2>3. QED
    BY <2>2
<1>4. ASSUME NEW e \in Events(v) PROVE e.t \in Nat /\ Aimed(e)
  <2>1. e \in FileEvents
    BY <1>1 DEF Events
  <2>2. QED
    BY <2>1 DEF FileEvents, Aimed
<1>5. /\ v.clock.mode = "free" => v.clock.high > 0 /\ v.clock.low > 0
      /\ v.clock.mode # "free" => \A e \in Events(v) : e.op \notin {"clock_start", "clock_stop"}
  BY DEF IsFile, Events
<1>6. QED
  BY <1>2, <1>3, <1>4, <1>5 DEF Legible

LEMMA BuiltIsLegible ==
    ASSUME NEW x, Ready(x), ~ InSim(x)
    PROVE  Legible(BuiltVec(x))
<1> DEFINE y == NewTime(After(x, x.change + Gap))
           d == Event(y.t, "end", "", 0, FALSE)
           s == Append(x.ev, d)
           v == BuiltVec(x)
<1>1. y.t \in Nat
  <2>1. MovedOn(x, y)
    BY StartsAlone DEF Ready, AloneStart
  <2>2. QED
    BY <2>1, Fields DEF MovedOn, BInv
<1>2. x.ev \in Seq(BuilderEvents) /\ FieldsTyped(x)
  BY Fields DEF Ready, BInv
<1>3. v.clock = Stepped /\ v.events = s
  <2>1. v = [clock |-> Stepped, sep |-> SepPs, events |-> s]
    BY DEF BuiltVec
  <2> HIDE DEF s
  <2>2. QED
    BY <2>1
<1>4. d.t = y.t /\ d.op = "end"
  BY DEF Event
<1> HIDE DEF y, d, v
<1> DEFINE T == BuilderEvents \cup {d}
<1>5. s \in Seq(T) /\ Len(s) = Len(x.ev) + 1 /\ Len(x.ev) \in Nat
      /\ s[Len(x.ev) + 1] = d /\ \A i \in 1 .. Len(x.ev) : s[i] = x.ev[i]
  <2>1. x.ev \in Seq(T) /\ d \in T
    BY <1>2
  <2> HIDE DEF T
  <2>2. QED
    BY <2>1
<1> HIDE DEF s
<1>6. ASSUME NEW i \in 1 .. Len(s)
      PROVE  s[i].t \in Nat /\ Aimed(s[i]) /\ s[i].op \notin {"clock_start", "clock_stop"}
  <2>1. CASE i \in 1 .. Len(x.ev)
    <3>1. s[i] = x.ev[i]
      BY <1>5, <2>1
    <3>2. x.ev[i].t \in Nat /\ x.ev[i].op \in {"set", "glbl", "edge", "sample"}
      BY <1>2, <2>1, EventFields
    <3>3. Aimed(x.ev[i])
      BY <1>2, <2>1 DEF FieldsTyped
    <3>4. QED
      BY <3>1, <3>2, <3>3
  <2>2. CASE i = Len(x.ev) + 1
    BY <1>1, <1>4, <1>5, <2>2 DEF Aimed
  <2>3. QED
    BY <1>5, <2>1, <2>2
<1>7. Events(v) = {s[i] : i \in 1 .. Len(s)}
  <2>1. DOMAIN s = 1 .. Len(s)
    BY <1>5
  <2>2. QED
    BY <1>3, <2>1 DEF Events
<1>8. s \in Seq(Events(v))
  <2>1. s \in [1 .. Len(s) -> Events(v)] /\ Len(s) \in Nat
    BY <1>5, <1>7
  <2>2. QED
    BY <2>1
<1>9. \A e \in Events(v) : e.t \in Nat /\ Aimed(e) /\ e.op \notin {"clock_start", "clock_stop"}
  BY <1>6, <1>7
<1>10. QED
  BY <1>3, <1>8, <1>9 DEF Legible, Stepped, v

(* Events of one time are sets of different ports.                         *)
LEMMA Shared ==
    ASSUME NEW v, Plain(v), NEW i \in DOMAIN v.events, NEW j \in DOMAIN v.events, i # j,
           v.events[i].t = v.events[j].t
    PROVE  /\ v.events[i].op = "set" /\ v.events[j].op = "set"
           /\ v.events[i].target # v.events[j].target
<1> DEFINE e == v.events[i]
           o == v.events[j]
           others == {v.events[k] : k \in DOMAIN v.events \ {i}}
           same == At(others, e.t)
<1>1. /\ IF \A x \in same \cup {e} : x.op = "set"
         THEN \A x \in same : x.target # e.target
         ELSE same # {} => e.sim
  BY DEF Plain, validate, ValidButRelease, Structure
<1>2. o \in same
  BY DEF At
<1>3. ~ e.sim
  BY DEF Plain, Events
<1>4. QED
  BY <1>1, <1>2, <1>3

LEMMA SharedTime ==
    ASSUME NEW v, Plain(v), NEW d \in Events(v), NEW e \in Events(v), d.t = e.t
    PROVE  d = e \/ (d.op = "set" /\ e.op = "set" /\ d.target # e.target)
<1>1. PICK i \in DOMAIN v.events : d = v.events[i]
  BY DEF Events
<1>2. PICK j \in DOMAIN v.events : e = v.events[j]
  BY DEF Events
<1>3. CASE i = j
  BY <1>1, <1>2, <1>3
<1>4. CASE i # j
  BY <1>1, <1>2, <1>4, Shared
<1>5. QED
  BY <1>3, <1>4

LEMMA Rising ==
    ASSUME NEW n \in Nat, NEW f, \A k \in 1 .. n : f[k] \in Nat,
           \A k \in 1 .. n : k > 1 => f[k - 1] <= f[k]
    PROVE  \A i, j \in 1 .. n : i <= j => f[i] <= f[j]
<1>1. SUFFICES ASSUME NEW i \in 1 .. n, NEW j \in 1 .. n, i <= j, ~ (f[i] <= f[j]) PROVE FALSE
  OBVIOUS
<1> DEFINE S == {k \in i .. n : ~ (f[i] <= f[k])}
<1>2. j \in S /\ S \in SUBSET Nat
  BY <1>1
<1>3. PICK m \in S : \A k \in S : m <= k
  BY <1>2, Smallest
<1>4. m \in i .. n /\ ~ (f[i] <= f[m])
  BY <1>3
<1>5. f[i] \in Nat
  OBVIOUS
<1>6. m # i
  BY <1>4, <1>5
<1>7. m - 1 \in i .. n /\ m > 1 /\ m \in 1 .. n /\ m - 1 \in 1 .. n
  BY <1>4, <1>6
<1>8. f[i] <= f[m - 1]
  <2>1. m - 1 \notin S
    BY <1>3, <1>7
  <2>2. QED
    BY <1>7, <2>1
<1>9. f[m - 1] <= f[m] /\ f[m - 1] \in Nat /\ f[m] \in Nat
  BY <1>7
<1>10. QED
  BY <1>4, <1>5, <1>8, <1>9

LEMMA EventsRise ==
    ASSUME NEW v, Legible(v), Structure(v)
    PROVE  /\ Len(v.events) \in Nat /\ DOMAIN v.events = 1 .. Len(v.events)
           /\ \A i, j \in 1 .. Len(v.events) : i <= j => v.events[i].t <= v.events[j].t
<1> DEFINE n == Len(v.events)
           f == [k \in 1 .. n |-> v.events[k].t]
<1>1. v.events \in Seq(Events(v))
  BY DEF Legible
<1>2. n \in Nat /\ DOMAIN v.events = 1 .. n
  BY <1>1
<1>3. \A k \in 1 .. n : f[k] \in Nat
  BY <1>2 DEF Legible, Events
<1>4. \A k \in 1 .. n : k > 1 => f[k - 1] <= f[k]
  <2>1. \A k \in 1 .. n : k > 1 => v.events[k - 1].t <= v.events[k].t
    BY <1>2 DEF Structure
  <2>2. \A k \in 1 .. n : k > 1 => k - 1 \in 1 .. n
    BY <1>2
  <2>3. QED
    BY <2>1, <2>2
<1> HIDE DEF f
<1>5. \A i, j \in 1 .. n : i <= j => f[i] <= f[j]
  BY <1>2, <1>3, <1>4, Rising
<1>6. QED
  BY <1>2, <1>5 DEF f
-----------------------------------------------------------------------------
(* The image of a stimulus                                                 *)

(* The words of a file and what the compiler adds to them: the starts in O,*)
(* and an END.                                                             *)
IsSequence(w) == \E S : w \in Seq(S)
Imaged(v, w, O) ==
    /\ IsSequence(w)
    /\ \A k \in 1 .. Len(w) : w[k].t \in Nat /\ (w[k] \in Events(v) \cup O \/ w[k].op = "end")
    /\ \A i, j \in 1 .. Len(w) : i <= j => w[i].t <= w[j].t
    /\ \A e \in Events(v) \cup O : \E k \in 1 .. Len(w) : w[k] = e
    /\ \E k \in 1 .. Len(w) : w[k].op = "end"
    /\ \A k \in 1 .. Len(w) : w[k].op = "end" =>
          \A e \in Events(v) : e.t <= w[k].t /\ (e.op = "sample" => e.t < w[k].t)
OwnStarts(v) == IF Implicit(v) THEN {OwnStart(v)} ELSE {}
Image(v, w) == Imaged(v, w, OwnStarts(v))

LEMMA LastEvent ==
    ASSUME NEW v, Legible(v), Plain(v)
    PROVE  /\ Len(v.events) \in Nat /\ Len(v.events) > 0 /\ DOMAIN v.events = 1 .. Len(v.events)
           /\ \A i, j \in 1 .. Len(v.events) : i <= j => v.events[i].t <= v.events[j].t
           /\ EndOf(v) \in Nat /\ \A e \in Events(v) : e.t <= EndOf(v)
<1> DEFINE n == Len(v.events)
<1>1. /\ n \in Nat /\ DOMAIN v.events = 1 .. n
      /\ \A i, j \in 1 .. n : i <= j => v.events[i].t <= v.events[j].t
  BY EventsRise DEF Plain, validate, ValidButRelease
<1>2. PICK s \in Events(v) : TRUE
  BY DEF Plain, validate, ValidButRelease, HasSamples
<1>3. n > 0
  BY <1>1, <1>2 DEF Events
<1>4. v.events[n] \in Events(v) /\ n \in 1 .. n
  BY <1>1, <1>3 DEF Events
<1>5. EndOf(v) \in Nat
  BY <1>4 DEF EndOf, Legible
<1>6. \A e \in Events(v) : e.t <= EndOf(v)
  <2>1. ASSUME NEW e \in Events(v) PROVE e.t <= EndOf(v)
    <3>1. PICK i \in 1 .. n : e = v.events[i]
      BY <1>1 DEF Events
    <3>2. i <= n
      BY <1>1
    <3>3. QED
      BY <1>1, <1>4, <3>1, <3>2 DEF EndOf
  <2>2. QED
    BY <2>1
<1>7. QED
  BY <1>1, <1>3, <1>5, <1>6

LEMMA EndIsWhole ==
    ASSUME NEW v, Legible(v), Plain(v)
    PROVE  Imaged(v, WithEnd(v), {})
<1> DEFINE n == Len(v.events)
           s == v.events
           w == WithEnd(v)
<1>0. DOMAIN s = 1 .. n
  BY LastEvent
<1>1. /\ n \in Nat /\ n > 0
      /\ \A i, j \in 1 .. n : i <= j => s[i].t <= s[j].t
      /\ EndOf(v) \in Nat /\ \A e \in Events(v) : e.t <= EndOf(v)
  BY LastEvent
<1>2. s \in Seq(Events(v)) /\ Events(v) = {s[i] : i \in 1 .. n}
  BY <1>0 DEF Legible, Events
<1>3. \A i \in 1 .. n : s[i] \in Events(v) /\ s[i].t \in Nat /\ (s[i].op = "end" => i = n)
  BY <1>0, <1>2 DEF Legible, Plain, validate, ValidButRelease, Structure
<1>4. CASE s[n].op = "end"
  <2>1. w = s
    BY <1>4 DEF WithEnd
  <2>2. ASSUME NEW k \in 1 .. n, s[k].op = "end", NEW e \in Events(v)
        PROVE  e.t <= s[k].t /\ (e.op = "sample" => e.t < s[k].t)
    <3>1. k = n /\ n \in 1 .. n
      BY <1>1, <1>3, <2>2
    <3>2. e.t <= s[n].t
      BY <1>1 DEF EndOf
    <3>3. ASSUME e.op = "sample" PROVE e.t # s[n].t
      BY <1>2, <1>3, <1>4, <3>1, <3>3, SharedTime
    <3>4. e.t \in Nat /\ s[n].t \in Nat
      BY <1>3, <3>1 DEF Legible
    <3>5. QED
      BY <3>1, <3>2, <3>3, <3>4
  <2>3. \E k \in 1 .. n : s[k].op = "end"
    BY <1>1, <1>4
  <2> HIDE DEF w, s
  <2>4. IsSequence(w)
    BY <1>2, <2>1 DEF IsSequence
  <2>5. Len(w) = n /\ Events(v) \cup {} = Events(v)
    BY <2>1 DEF s
  <2> HIDE DEF n
  <2>6. \A e \in Events(v) \cup {} : \E k \in 1 .. Len(w) : w[k] = e
    BY <1>2, <2>1, <2>5
  <2>7. \A k \in 1 .. Len(w) : w[k].t \in Nat /\ (w[k] \in Events(v) \cup {} \/ w[k].op = "end")
    BY <1>3, <2>1, <2>5
  <2>8. \A i, j \in 1 .. Len(w) : i <= j => w[i].t <= w[j].t
    BY <1>1, <2>1, <2>5
  <2>9. \A k \in 1 .. Len(w) : w[k].op = "end" =>
           \A e \in Events(v) : e.t <= w[k].t /\ (e.op = "sample" => e.t < w[k].t)
    BY <2>1, <2>2, <2>5
  <2>10. \E k \in 1 .. Len(w) : w[k].op = "end"
    BY <2>1, <2>3, <2>5
  <2>11. Imaged(v, w, {})
    BY <2>4, <2>6, <2>7, <2>8, <2>9, <2>10 DEF Imaged
  <2>12. QED
    BY <2>11 DEF w
<1>5. CASE s[n].op # "end"
  <2> DEFINE d == Event(EndOf(v) + EndMargin, "end", "", 0, FALSE)
  <2>1. w = Append(s, d)
    BY <1>5 DEF WithEnd
  <2>2. d.op = "end" /\ d.t = EndOf(v) + EndMargin
    BY DEF Event
  <2>3. d.t \in Nat /\ d.t > EndOf(v)
    <3>1. EndOf(v) \in Nat /\ EndMargin \in Nat /\ EndMargin > 0
      BY <1>1, Numbers DEF EndMargin
    <3> HIDE DEF d
    <3>2. QED
      BY <2>2, <3>1
  <2> HIDE DEF d
  <2> DEFINE T == Events(v) \cup {d}
  <2>4. s \in Seq(T) /\ d \in T
    BY <1>2
  <2> HIDE DEF T, w
  <2>5. /\ w \in Seq(T) /\ Len(w) = n + 1 /\ w[n + 1] = d /\ \A i \in 1 .. n : w[i] = s[i]
    BY <2>1, <2>4
  <2>6. 1 .. Len(w) = 1 .. n \cup {n + 1}
    BY <1>1, <2>5
  <2>7. \A k \in 1 .. Len(w) : w[k].t \in Nat /\ (w[k] \in Events(v) \cup {} \/ w[k].op = "end")
    BY <1>3, <2>2, <2>3, <2>5, <2>6
  <2>8. ASSUME NEW i \in 1 .. Len(w), NEW j \in 1 .. Len(w), i <= j PROVE w[i].t <= w[j].t
    <3>1. CASE j = n + 1
      <4>1. CASE i = n + 1
        BY <2>3, <2>5, <3>1, <4>1
      <4>2. CASE i \in 1 .. n
        <5>1. s[i].t <= EndOf(v) /\ s[i].t \in Nat
          BY <1>1, <1>3, <4>2
        <5>2. QED
          BY <1>1, <2>3, <2>5, <3>1, <4>2, <5>1
      <4>3. QED
        BY <2>6, <4>1, <4>2
    <3>2. CASE j \in 1 .. n
      <4>1. i # n + 1 /\ i \in 1 .. n
        BY <1>1, <2>6, <2>8, <3>2
      <4>2. s[i].t <= s[j].t
        BY <1>1, <2>8, <3>2, <4>1
      <4>3. QED
        BY <2>5, <3>2, <4>1, <4>2
    <3>3. QED
      BY <2>6, <3>1, <3>2
  <2>9. \A e \in Events(v) \cup {} : \E k \in 1 .. Len(w) : w[k] = e
    BY <1>2, <2>5, <2>6
  <2>10. ASSUME NEW k \in 1 .. Len(w), w[k].op = "end", NEW e \in Events(v)
         PROVE  e.t <= w[k].t /\ e.t < w[k].t
    <3>1. k = n + 1
      BY <1>3, <1>5, <2>5, <2>6, <2>10
    <3>2. e.t <= EndOf(v) /\ e.t \in Nat
      BY <1>1 DEF Legible
    <3>3. QED
      BY <1>1, <2>3, <2>5, <3>1, <3>2
  <2>11. \E k \in 1 .. Len(w) : w[k].op = "end"
    BY <2>2, <2>5, <2>6
  <2>12. IsSequence(w)
    BY <2>5 DEF IsSequence
  <2>13. \A i, j \in 1 .. Len(w) : i <= j => w[i].t <= w[j].t
    BY <2>8
  <2>14. \A k \in 1 .. Len(w) : w[k].op = "end" =>
           \A e \in Events(v) : e.t <= w[k].t /\ (e.op = "sample" => e.t < w[k].t)
    BY <2>10
  <2> HIDE DEF s, n
  <2>15. Imaged(v, w, {})
    BY <2>7, <2>9, <2>11, <2>12, <2>13, <2>14 DEF Imaged
  <2>16. QED
    BY <2>15 DEF w
<1>6. QED
  BY <1>4, <1>5

InsertedIn(w, n, o) == SubSeq(w, 1, n) \o <<o>> \o SubSeq(w, n + 1, Len(w))

InsertedAt(S, w, o, n, u) ==
    /\ u \in Seq(S) /\ Len(u) = Len(w) + 1 /\ u[n + 1] = o
    /\ \A i \in 1 .. n : u[i] = w[i]
    /\ \A i \in n + 1 .. Len(w) : u[i + 1] = w[i]

LEMMA Inserted ==
    ASSUME NEW S, NEW w \in Seq(S), NEW o \in S, NEW n \in 0 .. Len(w),
           NEW u, u = InsertedIn(w, n, o)
    PROVE  InsertedAt(S, w, o, n, u)
<1> DEFINE a == SubSeq(w, 1, n)
           b == a \o <<o>>
           c == SubSeq(w, n + 1, Len(w))
<1>1. Len(w) \in Nat /\ n \in Nat /\ n <= Len(w)
  OBVIOUS
<1>2. a \in Seq(S) /\ Len(a) = n /\ \A i \in 1 .. n : a[i] = w[i]
  BY <1>1
<1>3. c \in Seq(S) /\ Len(c) = Len(w) - n /\ \A i \in 1 .. Len(w) - n : c[i] = w[n + i]
  BY <1>1
<1> HIDE DEF a, c
<1>4. b \in Seq(S) /\ Len(b) = n + 1 /\ b[n + 1] = o /\ \A i \in 1 .. n : b[i] = w[i]
  BY <1>1, <1>2
<1> HIDE DEF b
<1>5. u = b \o c
  BY DEF a, b, c, InsertedIn
<1>6. /\ b \o c \in Seq(S) /\ Len(b \o c) = Len(b) + Len(c)
      /\ \A i \in 1 .. Len(b) + Len(c) : (b \o c)[i] = IF i <= Len(b) THEN b[i] ELSE c[i - Len(b)]
  BY <1>3, <1>4, ConcatProperties
<1>7. Len(b) + Len(c) = Len(w) + 1
  BY <1>1, <1>3, <1>4
<1>8. ASSUME NEW i \in 1 .. n + 1 PROVE u[i] = b[i]
  <2>1. i \in 1 .. Len(b) + Len(c) /\ i <= Len(b)
    BY <1>1, <1>4, <1>7
  <2>2. QED
    BY <1>5, <1>6, <2>1
<1>9. ASSUME NEW i \in n + 1 .. Len(w) PROVE u[i + 1] = w[i]
  <2>1. /\ i - n \in 1 .. Len(w) - n /\ i + 1 \in 1 .. Len(w) + 1 /\ ~ (i + 1 <= n + 1)
        /\ (i + 1) - (n + 1) = i - n /\ n + (i - n) = i
    BY <1>1
  <2>2. u[i + 1] = c[i - n]
    BY <1>4, <1>5, <1>6, <1>7, <2>1
  <2>3. QED
    BY <1>3, <2>1, <2>2
<1>10. \A i \in 1 .. n : i \in 1 .. n + 1
  BY <1>1
<1>11. n + 1 \in 1 .. n + 1
  BY <1>1
<1>12. u[n + 1] = o /\ (\A i \in 1 .. n : u[i] = w[i]) /\ u \in Seq(S) /\ Len(u) = Len(w) + 1
  BY <1>4, <1>5, <1>6, <1>7, <1>8, <1>10, <1>11
<1>13. QED
  BY <1>9, <1>12 DEF InsertedAt

LEMMA CompiledIsImage ==
    ASSUME NEW v, Legible(v), Plain(v)
    PROVE  Image(v, compile_vec(v))
<1> DEFINE w == WithEnd(v)
           u == compile_vec(v)
           o == OwnStart(v)
           n == Before(v)
<1>1. Imaged(v, w, {})
  BY EndIsWhole
<1>2. CASE ~ Implicit(v)
  BY <1>1, <1>2 DEF compile_vec, Image, OwnStarts
<1>3. CASE Implicit(v)
  <2>1. PICK S : w \in Seq(S)
    BY <1>1 DEF Imaged, IsSequence
  <2>2. u = InsertedIn(w, n, o)
    BY <1>3 DEF compile_vec, InsertedIn
  <2>3. o.t = v.clock.start /\ o.t \in Nat /\ o.op = "clock_start"
    BY DEF OwnStart, Event, Legible
  <2>4. /\ \A k \in 1 .. Len(w) : w[k].t \in Nat /\ (w[k] \in Events(v) \/ w[k].op = "end")
        /\ \A i, j \in 1 .. Len(w) : i <= j => w[i].t <= w[j].t
        /\ Len(w) \in Nat
    BY <1>1, <2>1 DEF Imaged
  <2>5. /\ n \in 0 .. Len(w)
        /\ \A k \in 1 .. n : w[k].t <= o.t
        /\ \A k \in n + 1 .. Len(w) : w[k].t > o.t
    <3> DEFINE B == {0} \cup {i \in DOMAIN w : w[i].t <= v.clock.start}
    <3>1. DOMAIN w = 1 .. Len(w)
      BY <2>1
    <3>2. B \in SUBSET Nat /\ 0 \in B /\ \A b \in B : b <= Len(w)
      BY <2>4, <3>1
    <3>3. n = MaxOf(B)
      BY DEF Before
    <3>4. B = {0} \cup {i \in 1 .. Len(w) : w[i].t <= o.t}
      BY <2>3, <3>1
    <3> HIDE DEF B
    <3>5. n \in B /\ \A b \in B : b <= n
      BY <2>4, <3>2, <3>3, MaxOfBounded
    <3> HIDE DEF w, n
    <3>6. n \in 0 .. Len(w)
      BY <2>4, <3>2, <3>5
    <3>7. ASSUME NEW k \in 1 .. n PROVE w[k].t <= o.t
      <4>1. n \in 1 .. Len(w) /\ w[n].t <= o.t /\ k \in 1 .. Len(w) /\ k <= n
        BY <3>4, <3>5, <3>6
      <4>2. w[k].t <= w[n].t
        BY <2>4, <4>1
      <4>3. QED
        BY <2>3, <2>4, <4>1, <4>2
    <3>8. ASSUME NEW k \in n + 1 .. Len(w) PROVE w[k].t > o.t
      <4>1. k \in 1 .. Len(w) /\ ~ (k <= n)
        BY <3>6
      <4>2. ~ (w[k].t <= o.t)
        BY <3>4, <3>5, <4>1
      <4>3. w[k].t \in Nat
        BY <2>4, <4>1
      <4>4. QED
        BY <2>3, <4>2, <4>3
    <3>9. QED
      BY <3>6, <3>7, <3>8
  <2> HIDE DEF w, u, o, n
  <2> DEFINE R == S \cup {o}
  <2>6. /\ u \in Seq(R) /\ Len(u) = Len(w) + 1 /\ u[n + 1] = o
        /\ \A i \in 1 .. n : u[i] = w[i]
        /\ \A i \in n + 1 .. Len(w) : u[i + 1] = w[i]
    <3>1. w \in Seq(R) /\ o \in R
      BY <2>1
    <3>2. n \in 0 .. Len(w)
      BY <2>5
    <3> HIDE DEF R
    <3>3. InsertedAt(R, w, o, n, u)
      BY <2>2, <3>1, <3>2, Inserted
    <3>4. QED
      BY <3>3 DEF InsertedAt
  (* Where each word of u comes from.                                      *)
  <2>7. ASSUME NEW k \in 1 .. Len(u)
        PROVE  \/ k \in 1 .. n /\ u[k] = w[k] /\ k \in 1 .. Len(w)
               \/ k = n + 1 /\ u[k] = o
               \/ k - 1 \in n + 1 .. Len(w) /\ u[k] = w[k - 1] /\ k - 1 \in 1 .. Len(w)
    <3>1. k \in 1 .. n \/ k = n + 1 \/ k - 1 \in n + 1 .. Len(w)
      BY <2>4, <2>5, <2>6
    <3>2. 1 .. n \subseteq 1 .. Len(w) /\ n + 1 .. Len(w) \subseteq 1 .. Len(w)
      BY <2>4, <2>5
    <3>3. k - 1 \in n + 1 .. Len(w) => u[k] = w[k - 1]
      <4>1. (k - 1) + 1 = k
        OBVIOUS
      <4>2. k - 1 \in n + 1 .. Len(w) => u[(k - 1) + 1] = w[k - 1]
        BY <2>6
      <4>3. QED
        BY <4>1, <4>2
    <3>4. QED
      BY <2>6, <3>1, <3>2, <3>3
  <2>8. ASSUME NEW i \in 1 .. Len(w) PROVE \E k \in 1 .. Len(u) : u[k] = w[i]
    <3>1. CASE i <= n
      <4>1. i \in 1 .. n /\ i \in 1 .. Len(u)
        BY <2>4, <2>5, <2>6, <3>1
      <4>2. QED
        BY <2>6, <4>1
    <3>2. CASE i > n
      <4>1. i \in n + 1 .. Len(w) /\ i + 1 \in 1 .. Len(u)
        BY <2>4, <2>5, <2>6, <3>2
      <4>2. QED
        BY <2>6, <4>1
    <3>3. QED
      BY <2>5, <3>1, <3>2
  <2>9. n + 1 \in 1 .. Len(u)
    BY <2>4, <2>5, <2>6
  <2>10. \A k \in 1 .. Len(u) : u[k].t \in Nat /\ (u[k] \in Events(v) \cup {o} \/ u[k].op = "end")
    BY <2>3, <2>4, <2>7
  <2>11. ASSUME NEW i \in 1 .. Len(u), NEW j \in 1 .. Len(u), i <= j PROVE u[i].t <= u[j].t
    <3>1. CASE i \in 1 .. n
      <4>1. u[i] = w[i] /\ w[i].t <= o.t /\ i \in 1 .. Len(w) /\ i <= n
        BY <2>4, <2>5, <2>6, <3>1
      <4>2. CASE j \in 1 .. n
        BY <2>4, <2>5, <2>6, <2>11, <4>1, <4>2
      <4>3. CASE j = n + 1
        BY <2>6, <4>1, <4>3
      <4>4. CASE j - 1 \in n + 1 .. Len(w) /\ u[j] = w[j - 1] /\ j - 1 \in 1 .. Len(w)
        <5>1. i <= j - 1
          BY <2>4, <2>5, <4>1, <4>4
        <5>2. QED
          BY <2>4, <4>1, <4>4, <5>1
      <4>5. QED
        BY <2>7, <4>2, <4>3, <4>4
    <3>2. CASE i = n + 1 /\ u[i] = o
      <4>1. CASE j = n + 1
        BY <2>3, <2>6, <3>2, <4>1
      <4>2. CASE j - 1 \in n + 1 .. Len(w) /\ u[j] = w[j - 1] /\ j - 1 \in 1 .. Len(w)
        <5>1. w[j - 1].t > o.t /\ w[j - 1].t \in Nat
          BY <2>4, <2>5, <4>2
        <5>2. QED
          BY <2>3, <3>2, <4>2, <5>1
      <4>3. j \notin 1 .. n
        BY <2>5, <2>11, <3>2
      <4>4. QED
        BY <2>7, <4>1, <4>2, <4>3
    <3>3. CASE i - 1 \in n + 1 .. Len(w) /\ u[i] = w[i - 1] /\ i - 1 \in 1 .. Len(w)
      <4>1. j - 1 \in n + 1 .. Len(w) /\ u[j] = w[j - 1] /\ j - 1 \in 1 .. Len(w)
        <5>1. j > n + 1
          BY <2>4, <2>5, <2>11, <3>3
        <5>2. QED
          BY <2>5, <2>7, <5>1
      <4>2. i - 1 <= j - 1
        BY <2>4, <2>11
      <4>3. QED
        BY <2>4, <3>3, <4>1, <4>2
    <3>4. QED
      BY <2>7, <3>1, <3>2, <3>3
  <2>12. \A e \in Events(v) \cup {o} : \E k \in 1 .. Len(u) : u[k] = e
    BY <1>1, <2>6, <2>8, <2>9 DEF Imaged
  <2>13. \E k \in 1 .. Len(u) : u[k].op = "end"
    BY <1>1, <2>8 DEF Imaged
  <2>14. \A k \in 1 .. Len(u) : u[k].op = "end" =>
            \A e \in Events(v) : e.t <= u[k].t /\ (e.op = "sample" => e.t < u[k].t)
    BY <1>1, <2>3, <2>7 DEF Imaged
  <2>15. OwnStarts(v) = {o}
    BY <1>3 DEF OwnStarts, o
  <2>16. IsSequence(u)
    BY <2>6 DEF IsSequence
  <2>17. Imaged(v, u, {o})
    BY <2>10, <2>11, <2>12, <2>13, <2>14, <2>16 DEF Imaged
  <2>18. QED
    BY <2>15, <2>17 DEF Image, u
<1>4. QED
  BY <1>2, <1>3
-----------------------------------------------------------------------------
(* Runs of a free clock                                                    *)

StartTimes(v) == IF Implicit(v) THEN {v.clock.start} ELSE Starts(v)

LEMMA StartIsWord ==
    ASSUME NEW v, Legible(v), NEW w, Image(v, w), NEW s \in StartTimes(v)
    PROVE  s \in Nat /\ \E k \in 1 .. Len(w) : w[k].op = "clock_start" /\ w[k].t = s
<1>1. PICK e \in Events(v) \cup OwnStarts(v) : e.op = "clock_start" /\ e.t = s /\ e.t \in Nat
  <2>1. CASE Implicit(v)
    <3>1. OwnStart(v) \in OwnStarts(v) /\ s = v.clock.start
      BY <2>1 DEF OwnStarts, StartTimes
    <3>2. OwnStart(v).op = "clock_start" /\ OwnStart(v).t = v.clock.start
      BY DEF OwnStart, Event
    <3>3. QED
      BY <3>1, <3>2 DEF Legible
  <2>2. CASE ~ Implicit(v)
    BY <2>2 DEF StartTimes, Starts, Legible
  <2>3. QED
    BY <2>1, <2>2
<1>2. \E k \in 1 .. Len(w) : w[k] = e
  BY DEF Image, Imaged
<1>3. QED
  BY <1>1, <1>2

LEMMA StopIsWord ==
    ASSUME NEW v, Legible(v), NEW w, Image(v, w), NEW z \in Stops(v)
    PROVE  z \in Nat /\ \E k \in 1 .. Len(w) : w[k].op = "clock_stop" /\ w[k].t = z
<1>1. PICK e \in Events(v) : e.op = "clock_stop" /\ e.t = z
  BY DEF Stops
<1>2. e.t \in Nat
  BY DEF Legible
<1>3. \E k \in 1 .. Len(w) : w[k] = e
  BY DEF Image, Imaged
<1>4. QED
  BY <1>1, <1>2, <1>3

LEMMA WordIsStart ==
    ASSUME NEW v, Legible(v), NEW w, Image(v, w), NEW k \in 1 .. Len(w), w[k].op = "clock_start"
    PROVE  w[k].t \in StartTimes(v)
<1>1. w[k] \in Events(v) \cup OwnStarts(v)
  BY DEF Image, Imaged
<1>2. CASE w[k] \in Events(v)
  <2>1. w[k].t \in Starts(v)
    BY <1>2 DEF Starts
  <2>2. ~ Implicit(v)
    BY <2>1 DEF Implicit
  <2>3. QED
    BY <2>1, <2>2 DEF StartTimes
<1>3. CASE w[k] \in OwnStarts(v)
  <2>1. Implicit(v) /\ w[k] = OwnStart(v)
    BY <1>3 DEF OwnStarts
  <2>2. QED
    BY <2>1 DEF StartTimes, OwnStart, Event
<1>4. QED
  BY <1>1, <1>2, <1>3

LEMMA WordIsStop ==
    ASSUME NEW v, NEW w, Image(v, w), NEW k \in 1 .. Len(w), w[k].op = "clock_stop"
    PROVE  w[k].t \in Stops(v)
<1>1. w[k] \in Events(v) \cup OwnStarts(v)
  BY DEF Image, Imaged
<1>2. w[k] \notin OwnStarts(v)
  BY DEF OwnStarts, OwnStart, Event
<1>3. QED
  BY <1>1, <1>2 DEF Stops

LEMMA TimesTyped ==
    ASSUME NEW v, Legible(v)
    PROVE  StartTimes(v) \in SUBSET Nat /\ Stops(v) \in SUBSET Nat
BY DEF Legible, StartTimes, Starts, Stops

(* A clock is not started when it is stopped.                              *)
LEMMA StartsAreNoStops ==
    ASSUME NEW v, Legible(v), Plain(v), NEW s \in StartTimes(v), NEW z \in Stops(v)
    PROVE  s # z
<1>1. CASE Implicit(v)
  <2>1. s = v.clock.start /\ v.clock.start < z
    BY <1>1 DEF StartTimes, Plain, StartsAtRest
  <2>2. s \in Nat /\ z \in Nat
    BY TimesTyped
  <2>3. QED
    BY <2>1, <2>2
<1>2. CASE ~ Implicit(v)
  <2>1. PICK d \in Events(v) : d.op = "clock_start" /\ d.t = s
    BY <1>2 DEF StartTimes, Starts
  <2>2. PICK e \in Events(v) : e.op = "clock_stop" /\ e.t = z
    BY DEF Stops
  <2>3. QED
    BY <2>1, <2>2, SharedTime
<1>3. QED
  BY <1>1, <1>2

Until(v, s) == {t \in Stops(v) : Implicit(v) \/ t > s}
StopOf(v, s) == IF Until(v, s) = {} THEN -1 ELSE MinOf(Until(v, s))

(* When the run that starts at s stops.                                    *)
LEMMA StopIs ==
    ASSUME NEW v, Legible(v), Plain(v), NEW s \in StartTimes(v)
    PROVE  /\ StopOf(v, s) = -1 \/ (StopOf(v, s) \in Stops(v) /\ StopOf(v, s) > s)
           /\ \A z \in Stops(v) : z > s => StopOf(v, s) # -1 /\ StopOf(v, s) <= z
<1> DEFINE U == Until(v, s)
<1>1. s \in Nat /\ Stops(v) \in SUBSET Nat
  BY TimesTyped
<1>2. U \in SUBSET Nat /\ U \subseteq Stops(v) /\ \A z \in Stops(v) : z > s => z \in U
  BY <1>1 DEF Until
<1>3. \A z \in U : z > s
  <2>1. ASSUME NEW z \in U PROVE z > s
    <3>1. CASE Implicit(v)
      <4>1. s = v.clock.start /\ v.clock.start < z
        BY <1>2, <3>1 DEF StartTimes, Plain, StartsAtRest
      <4>2. z \in Nat
        BY <1>2
      <4>3. QED
        BY <1>1, <4>1, <4>2
    <3>2. CASE ~ Implicit(v)
      BY <3>2 DEF Until
    <3>3. QED
      BY <3>1, <3>2
  <2>2. QED
    BY <2>1
<1>4. CASE U = {}
  <2>1. StopOf(v, s) = -1
    BY <1>4 DEF StopOf
  <2>2. \A z \in Stops(v) : ~ (z > s)
    BY <1>2, <1>4
  <2>3. QED
    BY <2>1, <2>2
<1>5. CASE U # {}
  <2>1. StopOf(v, s) = MinOf(U)
    BY <1>5 DEF StopOf
  <2> HIDE DEF U
  <2>2. MinOf(U) \in U /\ \A z \in U : MinOf(U) <= z
    BY <1>2, <1>5, MinOfIs
  <2>3. MinOf(U) \in Nat
    BY <1>2, <2>2
  <2>4. QED
    BY <1>2, <1>3, <2>1, <2>2, <2>3
<1>6. QED
  BY <1>4, <1>5

(* Each start is that of one run: no clock starts while it runs.           *)
LEMMA RunsAre ==
    ASSUME NEW v, Legible(v), Plain(v), v.clock.mode = "free"
    PROVE  free_runs(v) = {[start |-> s, stop |-> StopOf(v, s)] : s \in StartTimes(v)}
<1>1. free_runs(v) = {[start |-> s, stop |-> StopOf(v, s)] :
           s \in {x \in StartTimes(v) : \A y \in StartTimes(v) :
                     y > x => StopOf(v, x) # -1 /\ StopOf(v, x) <= y}}
  BY DEF free_runs, StartTimes, StopOf, Until
<1>2. ASSUME NEW x \in StartTimes(v), NEW y \in StartTimes(v), y > x
      PROVE  StopOf(v, x) # -1 /\ StopOf(v, x) <= y
  <2>1. x \in Nat /\ y \in Nat
    BY TimesTyped
  <2>2. ~ Implicit(v)
    BY <1>2, <2>1 DEF StartTimes
  <2>3. PICK z \in Stops(v) : x < z /\ z <= y
    BY <1>2, <2>1, <2>2 DEF StartTimes, Plain, StartsAtRest
  <2>4. z \in Nat
    BY TimesTyped
  <2>5. StopOf(v, x) # -1 /\ StopOf(v, x) <= z
    BY <2>1, <2>3, <2>4, StopIs
  <2>6. StopOf(v, x) \in Nat
    BY <2>5, StopIs, TimesTyped
  <2>7. QED
    BY <2>1, <2>3, <2>4, <2>5, <2>6
<1>3. {x \in StartTimes(v) : \A y \in StartTimes(v) :
           y > x => StopOf(v, x) # -1 /\ StopOf(v, x) <= y} = StartTimes(v)
  BY <1>2
<1>4. QED
  BY <1>1, <1>3

(* A run of the clock of v.                                                *)
LEMMA RunIs ==
    ASSUME NEW v, Legible(v), Plain(v), NEW r \in RunsOf(v)
    PROVE  /\ r.start \in StartTimes(v) /\ r.start \in Nat
           /\ r.stop = -1 \/ (r.stop \in Stops(v) /\ r.stop \in Nat /\ r.stop > r.start)
           /\ \A z \in Stops(v) : z > r.start => r.stop # -1 /\ r.stop <= z
           /\ r = [start |-> r.start, stop |-> StopOf(v, r.start)]
           /\ v.clock.mode = "free" /\ r \in free_runs(v)
           /\ Span(v) \in Nat /\ v.clock.high \in Nat /\ v.clock.low \in Nat
           /\ v.clock.high > 0 /\ v.clock.low > 0
<1>1. v.clock.mode = "free" /\ r \in free_runs(v)
  BY DEF RunsOf
<1>2. PICK s \in StartTimes(v) : r = [start |-> s, stop |-> StopOf(v, s)]
  BY <1>1, RunsAre
<1>3. s \in Nat /\ r.start = s /\ r.stop = StopOf(v, s)
  BY <1>2, TimesTyped
<1>4. r.stop = -1 \/ (r.stop \in Stops(v) /\ r.stop \in Nat /\ r.stop > r.start)
  BY <1>3, StopIs, TimesTyped
<1>5. \A z \in Stops(v) : z > r.start => r.stop # -1 /\ r.stop <= z
  BY <1>3, StopIs
<1>6. /\ v.clock.high \in Nat /\ v.clock.low \in Nat /\ v.clock.high > 0 /\ v.clock.low > 0
      /\ Span(v) \in Nat
  BY <1>1 DEF Legible, Span
<1>7. QED
  BY <1>1, <1>2, <1>3, <1>4, <1>5, <1>6

LEMMA StartRuns ==
    ASSUME NEW v, Legible(v), Plain(v), NEW s \in StartTimes(v)
    PROVE  \E r \in RunsOf(v) : r.start = s
<1>1. v.clock.mode = "free"
  BY DEF StartTimes, Implicit, Starts, Legible
<1>2. [start |-> s, stop |-> StopOf(v, s)] \in RunsOf(v)
  BY <1>1, RunsAre DEF RunsOf
<1>3. QED
  BY <1>2

(* A run ends before a later one starts.                                   *)
LEMMA RunsInTurn ==
    ASSUME NEW v, Legible(v), Plain(v), NEW q \in RunsOf(v), NEW r \in RunsOf(v)
    PROVE  /\ q.start = r.start => q = r
           /\ q.start < r.start => q.stop # -1 /\ q.stop < r.start /\ r.start \in Starts(v)
<1>1. q.start = r.start => q = r
  BY RunIs
<1>2. ASSUME q.start < r.start PROVE q.stop # -1 /\ q.stop < r.start /\ r.start \in Starts(v)
  <2>1. q.start \in Nat /\ r.start \in Nat /\ q.start \in StartTimes(v) /\ r.start \in StartTimes(v)
    BY RunIs
  <2>2. ~ Implicit(v)
    BY <1>2, <2>1 DEF StartTimes
  <2>3. PICK z \in Stops(v) : q.start < z /\ z <= r.start
    BY <1>2, <2>1, <2>2 DEF StartTimes, Plain, StartsAtRest
  <2>4. z \in Nat
    BY TimesTyped
  <2>5. q.stop # -1 /\ q.stop <= z
    BY <2>1, <2>3, <2>4, RunIs
  <2>6. q.stop \in Nat /\ q.stop \in Stops(v)
    BY <2>5, RunIs
  <2>7. q.stop # r.start
    BY <2>1, <2>6, StartsAreNoStops
  <2>8. QED
    BY <2>1, <2>2, <2>3, <2>4, <2>5, <2>6, <2>7 DEF StartTimes
<1>3. QED
  BY <1>1, <1>2
-----------------------------------------------------------------------------
(* The edges of a free clock                                               *)

(* A clock stops inside a low phase, which ends before the next start.     *)
LEMMA StopsLow ==
    ASSUME NEW v, Legible(v), Plain(v), NEW r \in RunsOf(v), r.stop # -1, NEW b \in Nat,
           RiseIn(v, r, b)
    PROVE  /\ b + v.clock.high < r.stop /\ r.stop # b + Span(v)
           /\ \A s \in Starts(v) : s > r.stop => s >= b + Span(v)
<1> DEFINE p == Span(v)
           h == v.clock.high
           a == b - r.start
           d == r.stop - r.start
           m == d % p
<1>1. /\ r.start \in Nat /\ r.stop \in Nat /\ p \in Nat /\ h \in Nat /\ h > 0 /\ p > 0
      /\ r.stop > r.start /\ v.clock.mode = "free" /\ r \in free_runs(v)
  <2>1. /\ r.start \in Nat /\ r.stop \in Nat /\ p \in Nat /\ h \in Nat /\ h > 0
        /\ r.stop > r.start /\ v.clock.mode = "free" /\ r \in free_runs(v) /\ v.clock.low \in Nat
    BY RunIs
  <2>2. p > 0
    BY <2>1 DEF Span
  <2>3. QED
    BY <2>1, <2>2
<1>2. h < m /\ \A s \in Starts(v) : s > r.stop => s >= r.stop + (p - m)
  BY <1>1 DEF Plain, validate, ValidButRelease, FreeStops, Span
<1>3. r.start <= b /\ b < r.stop /\ (a % p) = 0
  BY DEF RiseIn, Within
<1>4. a \in Nat /\ d \in Nat /\ a <= d
  BY <1>1, <1>3
<1>5. m \in Nat
  BY <1>1, <1>4
<1> HIDE DEF p, h
<1>6. (d % p) > 0
  BY <1>1, <1>2, <1>5
<1> HIDE DEF a, d
<1>7. a + (d % p) <= d
  BY <1>1, <1>3, <1>4, <1>6, PeriodsBetween
<1> HIDE DEF m
<1>8. b + m <= r.stop
  <2>1. a + m <= d
    BY <1>7 DEF m
  <2>2. QED
    BY <1>1, <1>3, <1>5, <2>1 DEF a, d
<1>9. b + h < r.stop
  BY <1>1, <1>2, <1>5, <1>8
<1>10. r.stop # b + p
  <2>1. SUFFICES ASSUME r.stop = b + p PROVE FALSE
    OBVIOUS
  <2>2. d = a + p
    BY <1>1, <2>1 DEF a, d
  <2>3. (d % p) = 0
    BY <1>1, <1>3, <1>4, <2>2, NextPeriod
  <2>4. QED
    BY <1>6, <2>3
<1>11. \A s \in Starts(v) : s > r.stop => s >= b + p
  <2>1. ASSUME NEW s \in Starts(v), s > r.stop PROVE s >= b + p
    <3>1. s \in Nat
      BY DEF Starts, Legible
    <3>2. s >= r.stop + (p - m)
      BY <1>2, <2>1
    <3>3. QED
      BY <1>1, <1>5, <1>8, <3>1, <3>2
  <2>2. QED
    BY <2>1
<1>12. QED
  BY <1>9, <1>10, <1>11 DEF p, h

(* A run starts no earlier than the low phase before it has ended.         *)
LEMMA StartsLater ==
    ASSUME NEW v, Legible(v), Plain(v), NEW q \in RunsOf(v), NEW r \in RunsOf(v),
           NEW b \in Nat, RiseIn(v, q, b), q.start < r.start
    PROVE  r.start >= b + Span(v)
<1>1. q.stop # -1 /\ q.stop < r.start /\ r.start \in Starts(v)
  BY RunsInTurn
<1>2. QED
  BY <1>1, StopsLow

(* A rise is a period after the one before it, or more.                    *)
LEMMA RisesApart ==
    ASSUME NEW v, Legible(v), Plain(v), NEW a \in Nat, NEW b \in Nat,
           RiseAt(v, a), RiseAt(v, b), a < b
    PROVE  b >= a + Span(v)
<1>1. PICK q \in RunsOf(v) : RiseIn(v, q, a)
  BY DEF RiseAt
<1>2. PICK r \in RunsOf(v) : RiseIn(v, r, b)
  BY DEF RiseAt
<1>3. /\ q.start \in Nat /\ r.start \in Nat /\ q.start <= a /\ r.start <= b
      /\ Span(v) \in Nat /\ Span(v) > 0
  <2>1. /\ q.start \in Nat /\ r.start \in Nat /\ q.start <= a /\ r.start <= b
    BY <1>1, <1>2, RunIs DEF RiseIn, Within
  <2>2. v.clock.high \in Nat /\ v.clock.low \in Nat /\ v.clock.high > 0
    BY RunIs
  <2>3. QED
    BY <2>1, <2>2 DEF Span
<1>4. CASE q.start = r.start
  <2>1. q = r
    BY <1>4, RunsInTurn
  <2> DEFINE c == a - q.start
             d == b - q.start
  <2>2. (c % Span(v)) = 0 /\ (d % Span(v)) = 0
    BY <1>1, <1>2, <2>1 DEF RiseIn
  <2>3. c \in Nat /\ d \in Nat /\ c < d
    BY <1>3, <1>4
  <2>4. c + Span(v) <= d
    BY <1>3, <2>2, <2>3, PeriodAway
  <2>5. QED
    BY <1>3, <2>4
<1>5. CASE q.start < r.start
  <2>1. r.start >= a + Span(v)
    BY <1>1, <1>5, StartsLater
  <2>2. QED
    BY <1>3, <2>1
<1>6. CASE r.start < q.start
  <2>1. r.stop # -1 /\ r.stop < q.start
    BY <1>6, RunsInTurn
  <2>2. r.stop \in Nat /\ b < r.stop
    BY <1>2, <2>1, RunIs DEF RiseIn, Within
  <2>3. QED
    BY <1>3, <2>1, <2>2
<1>7. QED
  BY <1>3, <1>4, <1>5, <1>6

(* A rise is followed by its fall.                                         *)
LEMMA FallFollows ==
    ASSUME NEW v, Legible(v), Plain(v), NEW b \in Nat, RiseAt(v, b)
    PROVE  FallAt(v, b + v.clock.high)
<1>1. PICK r \in RunsOf(v) : RiseIn(v, r, b)
  BY DEF RiseAt
<1>2. r.start \in Nat /\ v.clock.high \in Nat /\ r.start <= b
  BY <1>1, RunIs DEF RiseIn, Within
<1>3. r.stop # -1 => b + v.clock.high < r.stop
  BY <1>1, StopsLow
<1>4. (b + v.clock.high) - r.start - v.clock.high = b - r.start
  BY <1>2
<1>5. FallIn(v, r, b + v.clock.high)
  <2>1. r.start <= b + v.clock.high /\ r.start + v.clock.high <= b + v.clock.high
    BY <1>2
  <2>2. ((b - r.start) % Span(v)) = 0
    BY <1>1 DEF RiseIn
  <2>3. (((b + v.clock.high) - r.start - v.clock.high) % Span(v)) = 0
    BY <1>4, <2>2
  <2>4. Within(r, b + v.clock.high)
    BY <1>3, <2>1 DEF Within
  <2>5. QED
    BY <2>1, <2>3, <2>4 DEF FallIn
<1>6. QED
  BY <1>5 DEF FallAt

LEMMA RiseBefore ==
    ASSUME NEW v, Legible(v), Plain(v), NEW r \in RunsOf(v), NEW t \in Nat, FallIn(v, r, t)
    PROVE  t - v.clock.high \in Nat /\ RiseIn(v, r, t - v.clock.high)
<1>1. /\ r.start \in Nat /\ v.clock.high \in Nat /\ r.start + v.clock.high <= t
      /\ (r.stop = -1 \/ t < r.stop) /\ (r.stop = -1 \/ r.stop \in Nat)
      /\ ((t - r.start - v.clock.high) % Span(v)) = 0
  BY RunIs DEF FallIn, Within
<1>2. t - r.start - v.clock.high = t - v.clock.high - r.start
  BY <1>1
<1>3. t - v.clock.high \in Nat /\ r.start <= t - v.clock.high
  BY <1>1
<1>4. r.stop = -1 \/ t - v.clock.high < r.stop
  BY <1>1, <1>3
<1>5. QED
  BY <1>1, <1>2, <1>3, <1>4 DEF RiseIn, Within

(* A run that is still on a period after a rise rises again.               *)
LEMMA RisesAgain ==
    ASSUME NEW v, Legible(v), Plain(v), NEW r \in RunsOf(v), NEW b \in Nat, RiseIn(v, r, b),
           r.stop = -1 \/ r.stop >= b + Span(v)
    PROVE  RiseIn(v, r, b + Span(v))
<1> DEFINE p == Span(v)
           a == b - r.start
<1>1. /\ r.start \in Nat /\ p \in Nat /\ p > 0 /\ r.start <= b /\ (r.stop = -1 \/ r.stop \in Nat)
      /\ (a % p) = 0
  <2>1. /\ r.start \in Nat /\ p \in Nat /\ r.start <= b /\ (r.stop = -1 \/ r.stop \in Nat)
        /\ v.clock.high \in Nat /\ v.clock.low \in Nat /\ v.clock.high > 0 /\ (a % p) = 0
    BY RunIs DEF RiseIn, Within
  <2>2. p > 0
    BY <2>1 DEF Span
  <2>3. QED
    BY <2>1, <2>2
<1>2. r.stop # -1 => r.stop # b + p
  BY StopsLow
<1>3. a \in Nat
  BY <1>1
<1> HIDE DEF a, p
<1>4. ((a + p) % p) = 0
  BY <1>1, <1>3, NextPeriod
<1>5. (b + p) - r.start = a + p
  BY <1>1 DEF a
<1>6. r.start <= b + p
  BY <1>1
<1>7. r.stop = -1 \/ b + p < r.stop
  BY <1>1, <1>2 DEF p
<1>8. (((b + p) - r.start) % p) = 0
  BY <1>4, <1>5
<1>9. Within(r, b + p)
  BY <1>6, <1>7 DEF Within
<1>10. QED
  BY <1>8, <1>9 DEF RiseIn, p

LEMMA RiseAtStart ==
    ASSUME NEW v, Legible(v), Plain(v), NEW r \in RunsOf(v)
    PROVE  RiseIn(v, r, r.start)
<1>1. r.start \in Nat /\ (r.stop = -1 \/ (r.stop \in Nat /\ r.start < r.stop)) /\ r.start - r.start = 0
  BY RunIs
<1>2. Span(v) \in Nat /\ Span(v) > 0
  <2>1. v.clock.high \in Nat /\ v.clock.low \in Nat /\ v.clock.high > 0
    BY RunIs
  <2>2. QED
    BY <2>1 DEF Span
<1>3. (0 % Span(v)) = 0
  BY <1>2
<1>4. QED
  BY <1>1, <1>3 DEF RiseIn, Within
-----------------------------------------------------------------------------
(* What the golden replay shows                                            *)

ClockEdge(t, value) == Event(t, "edge", "C", value, FALSE)
RunEdges(v, r, d, value) ==
    {ClockEdge(t, value) : t \in {x \in r.start + d .. Limit(v, r) :
                                     (x - r.start - d) % (v.clock.high + v.clock.low) = 0}}

LEMMA FreeEdgesByRun ==
    ASSUME NEW v, NEW e
    PROVE  e \in free_clock_edges(v) <=>
               \E r \in RunsOf(v) : e \in RunEdges(v, r, 0, 1) \/ e \in RunEdges(v, r, v.clock.high, 0)
<1>1. free_clock_edges(v) =
          UNION {RunEdges(v, r, 0, 1) \cup RunEdges(v, r, v.clock.high, 0) : r \in RunsOf(v)}
  BY DEF free_clock_edges, RunEdges, ClockEdge, RunsOf
<1>2. QED
  BY <1>1

LEMMA RunReaches ==
    ASSUME NEW v, Legible(v), Plain(v), NEW r \in RunsOf(v), NEW t \in Nat
    PROVE  t <= Limit(v, r) <=> t <= EndOf(v) /\ (r.stop = -1 \/ t < r.stop)
<1>1. EndOf(v) \in Nat
  BY LastEvent
<1>2. CASE r.stop = -1
  BY <1>2 DEF Limit
<1>3. CASE r.stop # -1
  <2>1. r.stop \in Nat /\ r.stop \in Stops(v)
    BY <1>3, RunIs
  <2>2. r.stop <= EndOf(v)
    BY <2>1, LastEvent DEF Stops
  <2>3. Limit(v, r) = r.stop - 1
    BY <1>3 DEF Limit
  <2>4. QED
    BY <1>1, <1>3, <2>1, <2>2, <2>3
<1>4. QED
  BY <1>2, <1>3

LEMMA FreeEdgesAre ==
    ASSUME NEW v, Legible(v), Plain(v), NEW e
    PROVE  e \in free_clock_edges(v) <=>
               \/ \E t \in 0 .. EndOf(v) : RiseAt(v, t) /\ e = ClockEdge(t, 1)
               \/ \E t \in 0 .. EndOf(v) : FallAt(v, t) /\ e = ClockEdge(t, 0)
<1>1. ASSUME NEW r \in RunsOf(v)
      PROVE  /\ e \in RunEdges(v, r, 0, 1) <=>
                    \E t \in 0 .. EndOf(v) : RiseIn(v, r, t) /\ e = ClockEdge(t, 1)
             /\ e \in RunEdges(v, r, v.clock.high, 0) <=>
                    \E t \in 0 .. EndOf(v) : FallIn(v, r, t) /\ e = ClockEdge(t, 0)
  <2>1. /\ r.start \in Nat /\ v.clock.high \in Nat /\ (r.stop = -1 \/ r.stop \in Nat) /\ EndOf(v) \in Nat
    BY RunIs, LastEvent
  <2>2. Limit(v, r) \in Int
    BY <2>1 DEF Limit
  <2>3. ASSUME NEW t \in Int
        PROVE  t \in r.start + 0 .. Limit(v, r) /\ ((t - r.start - 0) % (v.clock.high + v.clock.low)) = 0
                   <=> t \in 0 .. EndOf(v) /\ RiseIn(v, r, t)
    <3>1. t - r.start - 0 = t - r.start
      BY <2>1
    <3>2. t \in r.start + 0 .. Limit(v, r) <=> t \in 0 .. EndOf(v) /\ Within(r, t)
      <4>1. CASE t \in Nat
        <5>1. t <= Limit(v, r) <=> t <= EndOf(v) /\ (r.stop = -1 \/ t < r.stop)
          BY <4>1, RunReaches
        <5>2. t \in r.start + 0 .. Limit(v, r) <=> r.start <= t /\ t <= Limit(v, r)
          BY <2>1, <2>2, <4>1
        <5>3. QED
          BY <2>1, <4>1, <5>1, <5>2 DEF Within
      <4>2. CASE t \notin Nat
        BY <2>1, <2>2, <4>2 DEF Within
      <4>3. QED
        BY <4>1, <4>2
    <3>3. QED
      BY <3>1, <3>2, Zenon DEF RiseIn, Span
  <2>4. ASSUME NEW t \in Int
        PROVE  t \in r.start + v.clock.high .. Limit(v, r)
                 /\ ((t - r.start - v.clock.high) % (v.clock.high + v.clock.low)) = 0
                   <=> t \in 0 .. EndOf(v) /\ FallIn(v, r, t)
    <3>1. t \in r.start + v.clock.high .. Limit(v, r) <=>
              t \in 0 .. EndOf(v) /\ Within(r, t) /\ r.start + v.clock.high <= t
      <4>1. CASE t \in Nat
        <5>1. t <= Limit(v, r) <=> t <= EndOf(v) /\ (r.stop = -1 \/ t < r.stop)
          BY <4>1, RunReaches
        <5>2. t \in r.start + v.clock.high .. Limit(v, r) <=>
                  r.start + v.clock.high <= t /\ t <= Limit(v, r)
          BY <2>1, <2>2, <4>1
        <5>3. QED
          BY <2>1, <4>1, <5>1, <5>2 DEF Within
      <4>2. CASE t \notin Nat
        BY <2>1, <2>2, <4>2 DEF Within
      <4>3. QED
        BY <4>1, <4>2
    <3>2. QED
      BY <3>1, Zenon DEF FallIn, Span
  <2>5. e \in RunEdges(v, r, 0, 1) <=>
            \E t \in 0 .. EndOf(v) : RiseIn(v, r, t) /\ e = ClockEdge(t, 1)
    <3>1. e \in RunEdges(v, r, 0, 1) <=>
              \E t \in Int : /\ t \in r.start + 0 .. Limit(v, r)
                             /\ ((t - r.start - 0) % (v.clock.high + v.clock.low)) = 0
                             /\ e = ClockEdge(t, 1)
      BY <2>1, <2>2 DEF RunEdges
    <3>2. QED
      BY <2>1, <2>3, <3>1
  <2>6. e \in RunEdges(v, r, v.clock.high, 0) <=>
            \E t \in 0 .. EndOf(v) : FallIn(v, r, t) /\ e = ClockEdge(t, 0)
    <3>1. e \in RunEdges(v, r, v.clock.high, 0) <=>
              \E t \in Int : /\ t \in r.start + v.clock.high .. Limit(v, r)
                             /\ ((t - r.start - v.clock.high) % (v.clock.high + v.clock.low)) = 0
                             /\ e = ClockEdge(t, 0)
      BY <2>1, <2>2 DEF RunEdges
    <3>2. QED
      BY <2>1, <2>4, <3>1
  <2>7. QED
    BY <2>5, <2>6
<1>2. QED
  BY <1>1, FreeEdgesByRun DEF RiseAt, FallAt

ShowsIt(e) == Seen(e.t, {<<e.target, e.value>>})

LEMMA EdgeEventIs ==
    ASSUME NEW t, NEW value
    PROVE  ClockEdge(t, value).op = "edge" /\ ShowsIt(ClockEdge(t, value)) = Edge1(t, value)
BY DEF ClockEdge, Event, Edge1, ShowsIt

(* The golden replay shows each event of the file and each edge of its     *)
(* free clock.                                                             *)
LEMMA ReplayShows ==
    ASSUME NEW v, Legible(v), Plain(v), NEW s
    PROVE  s \in replay(v) <=>
               \/ \E e \in Events(v) : s \in Shows(v, e)
               \/ \E t \in 0 .. EndOf(v) : RiseAt(v, t) /\ s = Edge1(t, 1)
               \/ \E t \in 0 .. EndOf(v) : FallAt(v, t) /\ s = Edge1(t, 0)
<1> DEFINE F == free_clock_edges(v)
           all == Events(v) \cup F
           Rose(e, t) == RiseAt(v, t) /\ e = ClockEdge(t, 1)
           Fell(e, t) == FallAt(v, t) /\ e = ClockEdge(t, 0)
<1>0. ASSUME NEW e
      PROVE  e \in F <=> (\E t \in 0 .. EndOf(v) : Rose(e, t)) \/ (\E t \in 0 .. EndOf(v) : Fell(e, t))
  BY FreeEdgesAre
<1>1. \A e \in F : e.op = "edge"
  <2> HIDE DEF F
  <2>1. QED
    BY <1>0, EdgeEventIs
<1>2. s \in replay(v) <=>
          \/ \E e \in all : e.op = "set" /\ Changed(v, e.t) # {} /\ s = Seen(e.t, Changed(v, e.t))
          \/ \E e \in all : e.op \in {"edge", "glbl"} /\ s = ShowsIt(e)
          \/ \E e \in all : e.op = "sample" /\ s = Seen(e.t, {<<"sample", e.target>>})
  BY DEF replay, ShowsIt
<1>3. (\E e \in F : s = ShowsIt(e)) <=>
          \/ \E t \in 0 .. EndOf(v) : RiseAt(v, t) /\ s = Edge1(t, 1)
          \/ \E t \in 0 .. EndOf(v) : FallAt(v, t) /\ s = Edge1(t, 0)
  <2> HIDE DEF F
  <2>1. ASSUME NEW e \in F, s = ShowsIt(e)
        PROVE  \/ \E t \in 0 .. EndOf(v) : RiseAt(v, t) /\ s = Edge1(t, 1)
               \/ \E t \in 0 .. EndOf(v) : FallAt(v, t) /\ s = Edge1(t, 0)
    BY <1>0, <2>1, EdgeEventIs
  <2>2. ASSUME NEW t \in 0 .. EndOf(v), RiseAt(v, t), s = Edge1(t, 1)
        PROVE  \E e \in F : s = ShowsIt(e)
    BY <1>0, <2>2, EdgeEventIs
  <2>3. ASSUME NEW t \in 0 .. EndOf(v), FallAt(v, t), s = Edge1(t, 0)
        PROVE  \E e \in F : s = ShowsIt(e)
    BY <1>0, <2>3, EdgeEventIs
  <2>4. QED
    BY <2>1, <2>2, <2>3
<1> HIDE DEF F
<1>4. ASSUME NEW e \in Events(v)
      PROVE  s \in Shows(v, e) <=>
                 \/ e.op = "set" /\ Changed(v, e.t) # {} /\ s = Seen(e.t, Changed(v, e.t))
                 \/ e.op \in {"edge", "glbl"} /\ s = ShowsIt(e)
                 \/ e.op = "sample" /\ s = Seen(e.t, {<<"sample", e.target>>})
  BY DEF Shows, ShowsSets, ShowsIt
<1>5. s \in replay(v) <=> (\E e \in Events(v) : s \in Shows(v, e)) \/ (\E e \in F : s = ShowsIt(e))
  BY <1>1, <1>2, <1>4
<1>6. QED
  BY <1>3, <1>5

(* Only a sample shows one.                                                *)
IsSample(s) == \E l \in s.what : l[1] = "sample"

LEMMA OnlySamples ==
    ASSUME NEW v, Legible(v), NEW e \in Events(v), NEW s \in Shows(v, e), IsSample(s)
    PROVE  e.op = "sample"
<1>1. Aimed(e)
  BY DEF Legible
<1>2. CASE e.op = "set"
  <2>1. s = Seen(e.t, Changed(v, e.t))
    BY <1>2 DEF Shows, ShowsSets
  <2>2. PICK l \in Changed(v, e.t) : l[1] = "sample"
    BY <2>1 DEF IsSample, Seen
  <2>3. PICK d \in Events(v) : d.op = "set" /\ l = <<d.target, d.value>>
    BY <2>2 DEF Changed, At
  <2>4. d.target \in Ports
    BY <2>3 DEF Legible, Aimed
  <2>5. QED
    BY <2>2, <2>3, <2>4 DEF Ports, DataPorts, AsyncPorts
<1>3. CASE e.op \in {"edge", "glbl"}
  <2>1. s = Seen(e.t, {<<e.target, e.value>>})
    BY <1>3 DEF Shows
  <2>2. e.target = "sample"
    BY <2>1 DEF IsSample, Seen
  <2>3. QED
    BY <1>1, <1>3, <2>2 DEF Aimed
<1>4. QED
  BY <1>2, <1>3 DEF Shows

LEMMA EdgesAreNoSamples ==
    ASSUME NEW t, NEW value
    PROVE  ~ IsSample(Edge1(t, value)) /\ Edge1(t, value).t = t
BY DEF IsSample, Edge1, Seen

LEMMA ShownAt ==
    ASSUME NEW v, NEW e, NEW s \in Shows(v, e)
    PROVE  s.t = e.t
<1>1. CASE e.op = "set"
  BY <1>1 DEF Shows, ShowsSets, Seen
<1>2. CASE e.op \in {"edge", "glbl"}
  BY <1>2 DEF Shows, Seen
<1>3. CASE e.op = "sample"
  BY <1>3 DEF Shows, Seen
<1>4. QED
  BY <1>1, <1>2, <1>3 DEF Shows

-----------------------------------------------------------------------------
(* A testbench that is done has seen, up to its last sample, what the      *)
(* golden replay shows.                                                    *)

LEMMA CutIs ==
    ASSUME NEW w, NEW x, x.now \in Nat
    PROVE  Cut(w, x) \in Nat /\ x.now <= Cut(w, x) /\ Cut(w, x) <= x.now + 1
BY DEF Cut

LEMMA DoneAgrees ==
    ASSUME NEW v, Legible(v), Plain(v), NEW w, Image(v, w), NEW x, Replays(v, w, x), x.done
    PROVE  Observed(x.seen) = Observed(replay(v))
<1> DEFINE c == Cut(w, x)
<1>1. x.now \in Nat /\ c \in Nat /\ x.now <= c /\ c <= x.now + 1 /\ EndOf(v) \in Nat
  BY CutIs, LastEvent DEF Replays, WordsRun
<1>2. PICK k \in 1 .. Len(w) : w[k].op = "end" /\ w[k].t < c
  BY DEF Replays, EndRan
<1> HIDE DEF c
<1>3. w[k].t \in Nat /\ \A e \in Events(v) : e.t \in Nat
  BY DEF Image, Imaged, Legible
<1>4. \A e \in Events(v) : e.t < c /\ (e.op = "sample" => e.t < x.now)
  <2>1. \A e \in Events(v) : e.t <= w[k].t /\ (e.op = "sample" => e.t < w[k].t)
    BY <1>2 DEF Image, Imaged
  <2>2. QED
    BY <1>1, <1>2, <1>3, <2>1
(* A sample that either shows is one of the file's.                        *)
<1>5. ASSUME NEW s, s \in x.seen \/ s \in replay(v), IsSample(s)
      PROVE  \E e \in Events(v) : e.op = "sample" /\ s \in Shows(v, e) /\ s.t = e.t
  <2>1. \E e \in Events(v) : s \in Shows(v, e)
    <3>1. CASE s \in x.seen
      BY <1>5, <3>1, EdgesAreNoSamples DEF Replays, SeenOnly
    <3>2. CASE s \in replay(v)
      BY <1>5, <3>2, ReplayShows, EdgesAreNoSamples
    <3>3. QED
      BY <1>5, <3>1, <3>2
  <2>2. QED
    BY <1>5, <2>1, OnlySamples, ShownAt
<1>6. \A e \in Events(v) : Shows(v, e) \subseteq x.seen /\ Shows(v, e) \subseteq replay(v)
  BY <1>4, ReplayShows DEF Replays, SeenAll, c
(* Up to a sample the two have the same.                                   *)
<1>7. ASSUME NEW s, NEW e \in Events(v), e.op = "sample", s.t <= e.t
      PROVE  s \in x.seen <=> s \in replay(v)
  <2>1. e.t \in Nat /\ e.t < x.now /\ e.t <= EndOf(v)
    BY <1>3, <1>4, <1>7, LastEvent
  <2>2. ASSUME NEW t \in Nat, t <= e.t PROVE t \in 0 .. x.now /\ t \in 0 .. EndOf(v) /\ t # x.now
    BY <1>1, <2>1, <2>2
  <2>3. ASSUME s \in x.seen PROVE s \in replay(v)
    <3>1. CASE \E d \in Events(v) : s \in Shows(v, d)
      BY <1>6, <3>1
    <3>2. CASE \E t \in 0 .. x.now : RiseAt(v, t) /\ s = Edge1(t, 1)
      <4>1. PICK t \in 0 .. x.now : RiseAt(v, t) /\ s = Edge1(t, 1)
        BY <3>2
      <4>2. t \in Nat /\ t <= e.t
        BY <1>7, <4>1, EdgesAreNoSamples
      <4>3. QED
        BY <2>2, <4>1, <4>2, ReplayShows
    <3>3. CASE \E t \in 0 .. x.now : FallAt(v, t) /\ s = Edge1(t, 0)
      <4>1. PICK t \in 0 .. x.now : FallAt(v, t) /\ s = Edge1(t, 0)
        BY <3>3
      <4>2. t \in Nat /\ t <= e.t
        BY <1>7, <4>1, EdgesAreNoSamples
      <4>3. QED
        BY <2>2, <4>1, <4>2, ReplayShows
    <3>4. QED
      BY <2>3, <3>1, <3>2, <3>3 DEF Replays, SeenOnly
  <2>4. ASSUME s \in replay(v) PROVE s \in x.seen
    <3>1. CASE \E d \in Events(v) : s \in Shows(v, d)
      BY <1>6, <3>1
    <3>2. CASE \E t \in 0 .. EndOf(v) : RiseAt(v, t) /\ s = Edge1(t, 1)
      <4>1. PICK t \in 0 .. EndOf(v) : RiseAt(v, t) /\ s = Edge1(t, 1)
        BY <3>2
      <4>2. t \in Nat /\ t <= e.t
        BY <1>7, <4>1, EdgesAreNoSamples
      <4>3. QED
        BY <2>2, <4>1, <4>2 DEF Replays, EdgesSeen
    <3>3. CASE \E t \in 0 .. EndOf(v) : FallAt(v, t) /\ s = Edge1(t, 0)
      <4>1. PICK t \in 0 .. EndOf(v) : FallAt(v, t) /\ s = Edge1(t, 0)
        BY <3>3
      <4>2. t \in Nat /\ t <= e.t
        BY <1>7, <4>1, EdgesAreNoSamples
      <4>3. QED
        BY <2>2, <4>1, <4>2 DEF Replays, EdgesSeen
    <3>4. QED
      BY <2>4, <3>1, <3>2, <3>3, ReplayShows
  <2>5. QED
    BY <2>3, <2>4
<1>8. ASSUME NEW s
      PROVE  /\ s \in Observed(x.seen) <=> s \in x.seen /\ \E z \in x.seen : s.t <= z.t /\ IsSample(z)
             /\ s \in Observed(replay(v)) <=>
                    s \in replay(v) /\ \E z \in replay(v) : s.t <= z.t /\ IsSample(z)
  BY DEF Observed, IsSample
<1>9. ASSUME NEW s PROVE s \in Observed(x.seen) <=> s \in Observed(replay(v))
  BY <1>5, <1>6, <1>7, <1>8
<1>10. QED
  BY <1>9 DEF Observed
-----------------------------------------------------------------------------
(* The words of one time                                                   *)

LastOf(w, x) == MaxOf({k \in x.pc .. Len(w) : w[k].t <= x.now})
StepWords(w, x) == {w[k] : k \in x.pc .. LastOf(w, x)}

LEMMA WordsTyped ==
    ASSUME NEW v, NEW w, Image(v, w)
    PROVE  /\ Len(w) \in Nat /\ \A k \in 1 .. Len(w) : w[k].t \in Nat
           /\ \A i, j \in 1 .. Len(w) : i <= j => w[i].t <= w[j].t
BY DEF Image, Imaged, IsSequence

LEMMA StepIs ==
    ASSUME NEW v, NEW w, Image(v, w), NEW x, WordsRun(w, x), Pending(w, x)
    PROVE  /\ Cut(w, x) = x.now /\ x.now \in Nat /\ LastOf(w, x) \in 1 .. Len(w)
           /\ \A k \in 1 .. Len(w) : k \in x.pc .. LastOf(w, x) <=> w[k].t = x.now
           /\ \A k \in 1 .. Len(w) : k < LastOf(w, x) + 1 <=> w[k].t < x.now + 1
<1> DEFINE S == {k \in x.pc .. Len(w) : w[k].t <= x.now}
           l == MaxOf(S)
<1>1. /\ Len(w) \in Nat /\ (\A k \in 1 .. Len(w) : w[k].t \in Nat)
      /\ \A i, j \in 1 .. Len(w) : i <= j => w[i].t <= w[j].t
  BY WordsTyped
<1>2. /\ x.now \in Nat /\ x.pc \in 1 .. Len(w) + 1 /\ Cut(w, x) = x.now
      /\ \A k \in 1 .. Len(w) : k < x.pc <=> w[k].t < x.now
  BY DEF WordsRun, Cut
<1>3. x.pc \in S /\ x.pc \in 1 .. Len(w)
  BY <1>1, <1>2 DEF Pending
<1>4. S \in SUBSET Nat /\ \A k \in S : k <= Len(w)
  BY <1>1, <1>3
<1>5. l \in S /\ \A k \in S : k <= l
  BY <1>1, <1>3, <1>4, MaxOfBounded
<1>6. l \in x.pc .. Len(w) /\ w[l].t <= x.now /\ l \in 1 .. Len(w)
  BY <1>1, <1>3, <1>5
<1>7. \A k \in x.pc .. Len(w) : w[k].t <= x.now => k <= l
  BY <1>5
<1> HIDE DEF l, S
<1>8. ASSUME NEW k \in 1 .. Len(w)
      PROVE  (k \in x.pc .. l <=> w[k].t = x.now) /\ (k < l + 1 <=> w[k].t < x.now + 1)
  <2>1. CASE k < x.pc
    <3>1. w[k].t < x.now /\ w[k].t \in Nat
      BY <1>1, <1>2, <2>1
    <3>2. QED
      BY <1>2, <1>3, <1>6, <2>1, <3>1
  <2>2. CASE x.pc <= k /\ k <= l
    <3>1. w[k].t <= w[l].t /\ ~ (w[k].t < x.now) /\ w[k].t \in Nat /\ w[l].t \in Nat
      BY <1>1, <1>2, <1>6, <2>2
    <3>2. w[k].t = x.now
      BY <1>2, <1>6, <3>1
    <3>3. QED
      BY <1>2, <1>3, <1>6, <2>2, <3>2
  <2>3. CASE k > l
    <3>1. k \in x.pc .. Len(w) /\ ~ (k <= l)
      BY <1>1, <1>2, <1>3, <1>6, <2>3
    <3>2. ~ (w[k].t <= x.now) /\ w[k].t \in Nat
      BY <1>1, <1>7, <3>1
    <3>3. QED
      BY <1>2, <1>3, <1>6, <2>3, <3>2
  <2>4. QED
    BY <1>3, <1>6, <2>1, <2>2, <2>3
<1>9. l = LastOf(w, x)
  BY DEF l, S, LastOf
<1>10. QED
  BY <1>2, <1>6, <1>8, <1>9

(* They are the events of that time, with the compiler's own.              *)
LEMMA StepHas ==
    ASSUME NEW v, NEW w, Image(v, w), NEW x, WordsRun(w, x), Pending(w, x)
    PROVE  /\ \A d \in StepWords(w, x) : d.t = x.now /\ \E k \in 1 .. Len(w) : w[k] = d
           /\ \A k \in 1 .. Len(w) : w[k].t = x.now => w[k] \in StepWords(w, x)
           /\ \A d \in StepWords(w, x) : d \in Events(v) \cup OwnStarts(v) \/ d.op = "end"
           /\ \A e \in Events(v) : e.t = x.now => e \in StepWords(w, x)
<1>1. /\ LastOf(w, x) \in 1 .. Len(w) /\ x.pc \in 1 .. Len(w) + 1 /\ Len(w) \in Nat
      /\ \A k \in 1 .. Len(w) : k \in x.pc .. LastOf(w, x) <=> w[k].t = x.now
  BY StepIs, WordsTyped DEF WordsRun
<1>2. x.pc .. LastOf(w, x) \subseteq 1 .. Len(w)
  BY <1>1
<1>3. \A d \in StepWords(w, x) : d.t = x.now /\ \E k \in 1 .. Len(w) : w[k] = d
  BY <1>1, <1>2 DEF StepWords
<1>4. \A k \in 1 .. Len(w) : w[k].t = x.now => w[k] \in StepWords(w, x)
  BY <1>1 DEF StepWords
<1>5. \A d \in StepWords(w, x) : d \in Events(v) \cup OwnStarts(v) \/ d.op = "end"
  BY <1>3 DEF Image, Imaged
<1>6. \A e \in Events(v) : \E k \in 1 .. Len(w) : w[k] = e
  BY DEF Image, Imaged
<1>7. QED
  BY <1>3, <1>4, <1>5, <1>6

(* The sets among them are the file's.                                     *)
LEMMA StepSets ==
    ASSUME NEW v, Legible(v), NEW w, Image(v, w), NEW x, WordsRun(w, x), Pending(w, x), NEW d
    PROVE  d \in StepWords(w, x) /\ d.op \in {"set", "edge", "glbl", "sample"}
               <=> d \in At(Events(v), x.now) /\ d.op \in {"set", "edge", "glbl", "sample"}
<1>1. ASSUME d \in OwnStarts(v) PROVE d.op = "clock_start"
  BY <1>1 DEF OwnStarts, OwnStart, Event
<1>2. QED
  BY <1>1, StepHas DEF At

LEMMA CommitsChange ==
    ASSUME NEW v, Legible(v), NEW w, Image(v, w), NEW x, WordsRun(w, x), Pending(w, x),
           Inputs(v, w, x)
    PROVE  committed(StepWords(w, x), x) = IF Changed(v, x.now) = {} THEN {} ELSE {Changed(v, x.now)}
<1> DEFINE ws == StepWords(w, x)
           A == {d \in ws : d.op = "set" /\ d.value # x.in[d.target]}
           B == {d \in At(Events(v), x.now) : d.op = "set" /\ d.value # ValueBefore(v, d.target, x.now)}
<1>1. \A p \in Ports : x.in[p] = ValueBefore(v, p, x.now)
  BY StepIs DEF Inputs
<1>2. \A d \in At(Events(v), x.now) : d.op = "set" => d.target \in Ports
  BY DEF At, Legible, Aimed
<1>3. \A d : d \in ws /\ d.op = "set" <=> d \in At(Events(v), x.now) /\ d.op = "set"
  BY StepSets
<1> HIDE DEF ws
<1>4. A = B
  BY <1>1, <1>2, <1>3
<1>5. {<<e.target, e.value>> : e \in A} = Changed(v, x.now)
  <2>1. {<<e.target, e.value>> : e \in B} = Changed(v, x.now)
    BY DEF Changed
  <2> HIDE DEF A, B
  <2>2. QED
    BY <1>4, <2>1
<1>6. QED
  BY <1>5 DEF committed, ws

SetsBefore(v, p, t) == {e \in Events(v) : e.op = "set" /\ e.target = p /\ e.t < t}

LatestValue(S) == IF S = {} THEN 0 ELSE (CHOOSE e \in S : \A o \in S : o.t <= e.t).value

LEMMA ValueBeforeIs ==
    ASSUME NEW v, NEW p, NEW t
    PROVE  ValueBefore(v, p, t) = LatestValue(SetsBefore(v, p, t))
BY DEF ValueBefore, SetsBefore, LatestValue

LEMMA InputsCommitted ==
    ASSUME NEW v, Legible(v), Plain(v), NEW w, Image(v, w), NEW x, WordsRun(w, x), Pending(w, x),
           Inputs(v, w, x), NEW p \in Ports
    PROVE  in_vec(StepWords(w, x), x)[p] = ValueBefore(v, p, x.now + 1)
<1> DEFINE ws == StepWords(w, x)
           Here(d) == d.op = "set" /\ d.target = p
<1>1. x.in[p] = ValueBefore(v, p, x.now) /\ x.now \in Nat
  BY StepIs DEF Inputs
<1>2. \A d : d \in ws /\ d.op = "set" <=> d \in At(Events(v), x.now) /\ d.op = "set"
  BY StepSets
<1>3. in_vec(ws, x)[p] = IF \E d \in ws : Here(d) THEN (CHOOSE d \in ws : Here(d)).value ELSE x.in[p]
  BY DEF in_vec
<1>4. \A e \in Events(v) : e.t \in Nat
  BY DEF Legible
<1> HIDE DEF ws
<1>5. CASE \E d \in ws : Here(d)
  <2>1. PICK d \in ws : Here(d)
    BY <1>5
  <2>2. d \in Events(v) /\ d.t = x.now
    BY <1>2, <2>1 DEF At
  <2>3. \A e \in Events(v) : Here(e) /\ e.t = x.now => e = d
    BY <2>1, <2>2, SharedTime
  <2>4. \A e \in ws : Here(e) => e = d
    BY <1>2, <2>3 DEF At
  <2> DEFINE c == CHOOSE e \in ws : Here(e)
  <2>5. c \in ws /\ Here(c)
    BY <1>5
  <2> HIDE DEF c
  <2>6. c = d
    BY <2>4, <2>5
  <2> DEFINE S == SetsBefore(v, p, x.now + 1)
             m == CHOOSE e \in S : \A o \in S : o.t <= e.t
  <2>7. d \in S /\ \A o \in S : o.t <= d.t
    BY <1>1, <1>4, <2>1, <2>2 DEF SetsBefore
  <2>8. m \in S /\ \A o \in S : o.t <= m.t
    BY <2>7
  <2>9. ValueBefore(v, p, x.now + 1) = m.value
    BY <2>7, ValueBeforeIs DEF LatestValue
  <2> HIDE DEF m
  <2>10. m \in Events(v) /\ Here(m) /\ m.t < x.now + 1 /\ d.t <= m.t /\ m.t \in Nat
    BY <1>4, <2>7, <2>8 DEF SetsBefore
  <2>11. m = d
    BY <1>1, <2>2, <2>3, <2>10
  <2>12. QED
    BY <1>3, <1>5, <2>6, <2>9, <2>11 DEF c, ws
<1>6. CASE ~ \E d \in ws : Here(d)
  <2>1. SetsBefore(v, p, x.now + 1) = SetsBefore(v, p, x.now)
    <3>1. ASSUME NEW e \in Events(v), Here(e)
          PROVE  e.t < x.now + 1 <=> e.t < x.now
      <4>1. e.t # x.now
        BY <1>2, <1>6, <3>1 DEF At
      <4>2. QED
        BY <1>1, <1>4, <4>1
    <3>2. QED
      BY <3>1 DEF SetsBefore
  <2>2. ValueBefore(v, p, x.now + 1) = ValueBefore(v, p, x.now)
    BY <2>1, ValueBeforeIs
  <2>3. QED
    BY <1>1, <1>3, <1>6, <2>2 DEF ws
<1>7. QED
  BY <1>5, <1>6
-----------------------------------------------------------------------------
(* The words of a time step run                                            *)

Out(ws) ==
    {{<<e.target, e.value>>} : e \in {d \in ws : d.op \in {"edge", "glbl"}}}
    \cup {{<<"sample", e.target>>} : e \in {d \in ws : d.op = "sample"}}
Enables(ws, en) ==
    IF \E d \in ws : d.op = "clock_start" THEN TRUE
    ELSE IF \E d \in ws : d.op = "clock_stop" THEN FALSE ELSE en
Replayed(w, x, y) ==
    /\ y.now = x.now /\ y.pc = LastOf(w, x) + 1 /\ y.gen = x.gen /\ y.at = x.at
    /\ y.in = in_vec(StepWords(w, x), x)
    /\ y.en = Enables(StepWords(w, x), x.en)
    /\ y.done = \E d \in StepWords(w, x) : d.op = "end"
    /\ y.seen = x.seen \cup {Seen(x.now, s) : s \in committed(StepWords(w, x), x) \cup Out(StepWords(w, x))}

LEMMA ReplayedWords ==
    ASSUME NEW v, NEW w, Image(v, w), NEW x, WordsRun(w, x), Pending(w, x), NEW y, Replayed(w, x, y)
    PROVE  WordsRun(w, y) /\ ~ Pending(w, y) /\ Cut(w, x) = x.now /\ Cut(w, y) = x.now + 1
<1>1. /\ Cut(w, x) = x.now /\ x.now \in Nat /\ LastOf(w, x) \in 1 .. Len(w) /\ Len(w) \in Nat
      /\ \A k \in 1 .. Len(w) : k < LastOf(w, x) + 1 <=> w[k].t < x.now + 1
      /\ \A k \in 1 .. Len(w) : w[k].t \in Nat
  BY StepIs, WordsTyped
<1>2. y.now = x.now /\ y.pc = LastOf(w, x) + 1
  BY DEF Replayed
<1>3. ~ Pending(w, y)
  <2>1. SUFFICES ASSUME Pending(w, y) PROVE FALSE
    OBVIOUS
  <2>2. y.pc \in 1 .. Len(w) /\ w[y.pc].t <= x.now
    BY <1>1, <1>2, <2>1 DEF Pending
  <2>3. w[y.pc].t < x.now + 1
    BY <1>1, <2>2
  <2>4. QED
    BY <1>1, <1>2, <2>2, <2>3
<1>4. Cut(w, y) = x.now + 1
  BY <1>2, <1>3 DEF Cut
<1>5. WordsRun(w, y)
  BY <1>1, <1>2, <1>4 DEF WordsRun
<1>6. QED
  BY <1>1, <1>3, <1>4, <1>5

LEMMA ReplayedSeen ==
    ASSUME NEW v, Legible(v), NEW w, Image(v, w), NEW x, WordsRun(w, x), Pending(w, x),
           Inputs(v, w, x), NEW y, Replayed(w, x, y), NEW s
    PROVE  s \in y.seen <=> s \in x.seen \/ \E e \in At(Events(v), x.now) : s \in Shows(v, e)
<1> DEFINE ws == StepWords(w, x)
           E == At(Events(v), x.now)
           c == committed(ws, x)
           Mark(e) == e.op \in {"edge", "glbl"}
<1>1. y.seen = x.seen \cup {Seen(x.now, z) : z \in c \cup Out(ws)}
  BY DEF Replayed
<1>2. \A e : e \in ws /\ e.op \in {"set", "edge", "glbl", "sample"}
                <=> e \in E /\ e.op \in {"set", "edge", "glbl", "sample"}
  BY StepSets
<1>3. c = IF Changed(v, x.now) = {} THEN {} ELSE {Changed(v, x.now)}
  BY CommitsChange
<1>4. Changed(v, x.now) # {} => \E e \in E : e.op = "set"
  BY DEF Changed
<1>5. \A e \in E : e.t = x.now
  BY DEF At
<1>6. ASSUME NEW e \in E
      PROVE  s \in Shows(v, e) <=>
                 \/ e.op = "set" /\ Changed(v, x.now) # {} /\ s = Seen(x.now, Changed(v, x.now))
                 \/ Mark(e) /\ s = Seen(x.now, {<<e.target, e.value>>})
                 \/ e.op = "sample" /\ s = Seen(x.now, {<<"sample", e.target>>})
  <2>1. e.t = x.now
    BY <1>5
  <2> HIDE DEF E
  <2>2. QED
    BY <2>1 DEF Shows, ShowsSets
<1> HIDE DEF E, ws
<1>7. (\E z \in c : s = Seen(x.now, z)) <=>
          Changed(v, x.now) # {} /\ s = Seen(x.now, Changed(v, x.now))
  <2> HIDE DEF c
  <2>1. QED
    BY <1>3
<1> HIDE DEF c
<1>8. (\E z \in Out(ws) : s = Seen(x.now, z)) <=>
          \/ \E e \in ws : Mark(e) /\ s = Seen(x.now, {<<e.target, e.value>>})
          \/ \E e \in ws : e.op = "sample" /\ s = Seen(x.now, {<<"sample", e.target>>})
  BY DEF Out
<1>9. s \in y.seen <=>
          s \in x.seen \/ (\E z \in c : s = Seen(x.now, z)) \/ (\E z \in Out(ws) : s = Seen(x.now, z))
  BY <1>1
<1>10. (\E e \in E : s \in Shows(v, e)) <=>
          \/ Changed(v, x.now) # {} /\ s = Seen(x.now, Changed(v, x.now))
          \/ \E e \in ws : Mark(e) /\ s = Seen(x.now, {<<e.target, e.value>>})
          \/ \E e \in ws : e.op = "sample" /\ s = Seen(x.now, {<<"sample", e.target>>})
  BY <1>2, <1>4, <1>6
<1>11. QED
  BY <1>7, <1>8, <1>9, <1>10 DEF E

(* The clock is enabled in a run, and only then.                           *)
LEMMA ReplayedEn ==
    ASSUME NEW v, Legible(v), Plain(v), NEW w, Image(v, w), NEW x, WordsRun(w, x), Pending(w, x),
           EnIs(v, w, x), NEW y, Replayed(w, x, y)
    PROVE  /\ EnIs(v, w, y)
           /\ y.en => x.en \/ \E r \in RunsOf(v) : r.start = x.now
<1> DEFINE ws == StepWords(w, x)
<1>1. Cut(w, x) = x.now /\ Cut(w, y) = x.now + 1 /\ x.now \in Nat
  BY ReplayedWords DEF WordsRun
<1>2. x.en <=> \E r \in RunsOf(v) : r.start < x.now /\ (r.stop = -1 \/ r.stop >= x.now)
  BY <1>1 DEF EnIs, Active
<1>3. EnIs(v, w, y) <=>
          (y.en <=> \E r \in RunsOf(v) : r.start < x.now + 1 /\ (r.stop = -1 \/ r.stop >= x.now + 1))
  BY <1>1 DEF EnIs, Active
<1>4. /\ \A d \in ws : d.t = x.now /\ \E k \in 1 .. Len(w) : w[k] = d
      /\ \A k \in 1 .. Len(w) : w[k].t = x.now => w[k] \in ws
  BY StepHas
<1>5. y.en = Enables(ws, x.en)
  BY DEF Replayed
<1> HIDE DEF ws
<1>6. (\E d \in ws : d.op = "clock_start") <=> x.now \in StartTimes(v)
  <2>1. ASSUME NEW d \in ws, d.op = "clock_start" PROVE x.now \in StartTimes(v)
    BY <1>4, <2>1, WordIsStart
  <2>2. ASSUME x.now \in StartTimes(v) PROVE \E d \in ws : d.op = "clock_start"
    BY <1>4, <2>2, StartIsWord
  <2>3. QED
    BY <2>1, <2>2
<1>7. (\E d \in ws : d.op = "clock_stop") <=> x.now \in Stops(v)
  <2>1. ASSUME NEW d \in ws, d.op = "clock_stop" PROVE x.now \in Stops(v)
    BY <1>4, <2>1, WordIsStop
  <2>2. ASSUME x.now \in Stops(v) PROVE \E d \in ws : d.op = "clock_stop"
    BY <1>4, <2>2, StopIsWord
  <2>3. QED
    BY <2>1, <2>2
<1>8. CASE x.now \in StartTimes(v)
  <2>1. y.en = TRUE
    BY <1>5, <1>6, <1>8 DEF Enables
  <2>2. PICK r \in RunsOf(v) : r.start = x.now
    BY <1>8, StartRuns
  <2>3. r.stop = -1 \/ (r.stop \in Nat /\ r.stop > x.now)
    BY <2>2, RunIs
  <2>4. r.start < x.now + 1 /\ (r.stop = -1 \/ r.stop >= x.now + 1)
    BY <1>1, <2>2, <2>3
  <2>5. QED
    BY <1>3, <2>1, <2>2, <2>4
<1>9. CASE x.now \notin StartTimes(v) /\ x.now \in Stops(v)
  <2>1. y.en = FALSE
    BY <1>5, <1>6, <1>7, <1>9 DEF Enables
  <2>2. ASSUME NEW r \in RunsOf(v), r.start < x.now + 1, r.stop = -1 \/ r.stop >= x.now + 1 PROVE FALSE
    <3>1. r.start \in Nat /\ r.start # x.now
      BY <1>9, RunIs
    <3>2. r.start < x.now
      BY <1>1, <2>2, <3>1
    <3>3. r.stop # -1 /\ r.stop <= x.now /\ r.stop \in Nat
      BY <1>9, <3>2, RunIs
    <3>4. QED
      BY <1>1, <2>2, <3>3
  <2>3. QED
    BY <1>3, <2>1, <2>2
<1>10. CASE x.now \notin StartTimes(v) /\ x.now \notin Stops(v)
  <2>1. y.en = x.en
    BY <1>5, <1>6, <1>7, <1>10 DEF Enables
  <2>2. ASSUME NEW r \in RunsOf(v)
        PROVE  r.start < x.now + 1 /\ (r.stop = -1 \/ r.stop >= x.now + 1)
                   <=> r.start < x.now /\ (r.stop = -1 \/ r.stop >= x.now)
    <3>1. /\ r.start \in Nat /\ r.start # x.now
          /\ r.stop = -1 \/ (r.stop \in Nat /\ r.stop # x.now)
      BY <1>10, RunIs
    <3>2. QED
      BY <1>1, <3>1
  <2>3. QED
    BY <1>2, <1>3, <2>1, <2>2
<1>11. QED
  BY <1>8, <1>9, <1>10

LEMMA RiseTimes ==
    ASSUME NEW v, Legible(v), Plain(v), NEW t \in Int, RiseAt(v, t)
    PROVE  /\ t \in Nat /\ v.clock.high \in Nat /\ v.clock.low \in Nat
           /\ v.clock.high > 0 /\ v.clock.low > 0 /\ Span(v) = v.clock.high + v.clock.low
<1>1. PICK r \in RunsOf(v) : RiseIn(v, r, t)
  BY DEF RiseAt
<1>2. r.start \in Nat /\ r.start <= t
  BY <1>1, RunIs DEF RiseIn, Within
<1>3. QED
  BY <1>2, RunIs DEF Span

LEMMA ReplayedKeeps ==
    ASSUME NEW v, Legible(v), Plain(v), NEW w, Image(v, w), NEW x, Replays(v, w, x), Pending(w, x),
           NEW y, Replayed(w, x, y)
    PROVE  Replays(v, w, y)
<1>1. /\ WordsRun(w, x) /\ EndRan(w, x) /\ Inputs(v, w, x) /\ EnIs(v, w, x) /\ GenIs(v, x)
      /\ SeenOnly(v, w, x) /\ SeenAll(v, w, x) /\ EdgesSeen(v, w, x)
  BY DEF Replays
<1>2. WordsRun(w, y) /\ ~ Pending(w, y) /\ Cut(w, x) = x.now /\ Cut(w, y) = x.now + 1 /\ x.now \in Nat
  BY <1>1, ReplayedWords DEF WordsRun
<1>3. y.now = x.now /\ y.gen = x.gen /\ y.at = x.at
  BY DEF Replayed
<1>4. EndRan(w, y)
  <2>1. y.done => \E d \in StepWords(w, x) : d.op = "end"
    BY DEF Replayed
  <2>2. y.done => \E k \in 1 .. Len(w) : w[k].op = "end" /\ w[k].t = x.now
    BY <1>1, <2>1, StepHas
  <2>3. QED
    BY <1>2, <2>2 DEF EndRan
<1>5. Inputs(v, w, y)
  BY <1>1, <1>2, InputsCommitted DEF Inputs, Replayed
<1>6. EnIs(v, w, y) /\ (y.en => x.en \/ \E r \in RunsOf(v) : r.start = x.now)
  BY <1>1, ReplayedEn
<1>7. \A s : s \in y.seen <=> s \in x.seen \/ \E e \in At(Events(v), x.now) : s \in Shows(v, e)
  BY <1>1, ReplayedSeen
<1>8. \A e \in Events(v) : e.t \in Nat
  BY DEF Legible
<1>9. SeenOnly(v, w, y)
  <2>1. ASSUME NEW s \in y.seen
        PROVE  \/ \E e \in Events(v) : e.t < x.now + 1 /\ s \in Shows(v, e)
               \/ \E t \in 0 .. x.now : RiseAt(v, t) /\ s = Edge1(t, 1)
               \/ \E t \in 0 .. x.now : FallAt(v, t) /\ s = Edge1(t, 0)
    <3>1. CASE s \in x.seen
      <4>1. \A e \in Events(v) : e.t < x.now => e.t < x.now + 1
        BY <1>2, <1>8
      <4>2. QED
        BY <1>1, <1>2, <3>1, <4>1 DEF SeenOnly
    <3>2. CASE \E e \in At(Events(v), x.now) : s \in Shows(v, e)
      <4>1. PICK e \in Events(v) : e.t = x.now /\ s \in Shows(v, e)
        BY <3>2 DEF At
      <4>2. e.t < x.now + 1
        BY <1>2, <4>1
      <4>3. QED
        BY <4>1, <4>2
    <3>3. QED
      BY <1>7, <2>1, <3>1, <3>2
  <2>2. QED
    BY <1>2, <1>3, <2>1 DEF SeenOnly
<1>10. SeenAll(v, w, y)
  <2>1. ASSUME NEW e \in Events(v), e.t < x.now + 1 PROVE Shows(v, e) \subseteq y.seen
    <3>1. CASE e.t = x.now
      <4>1. e \in At(Events(v), x.now)
        BY <3>1 DEF At
      <4>2. QED
        BY <1>7, <4>1
    <3>2. CASE e.t # x.now
      <4>1. e.t < x.now
        BY <1>2, <1>8, <2>1, <3>2
      <4>2. Shows(v, e) \subseteq x.seen
        BY <1>1, <1>2, <4>1 DEF SeenAll
      <4>3. QED
        BY <1>7, <4>2
    <3>3. QED
      BY <3>1, <3>2
  <2>2. QED
    BY <1>2, <2>1 DEF SeenAll
<1>11. x.seen \subseteq y.seen
  BY <1>7
<1>12. GenIs(v, y)
  <2>1. y.gen = "wait" /\ y.en => RiseAt(v, y.now)
    <3>1. ASSUME y.gen = "wait", y.en PROVE RiseAt(v, x.now)
      <4>1. CASE x.en
        BY <1>1, <1>3, <3>1, <4>1 DEF GenIs
      <4>2. CASE \E r \in RunsOf(v) : r.start = x.now
        BY <4>2, RiseAtStart DEF RiseAt
      <4>3. QED
        BY <1>6, <3>1, <4>1, <4>2
    <3>2. QED
      BY <1>3, <3>1
  <2>2. QED
    BY <1>1, <1>3, <1>11, <2>1 DEF GenIs
(* An edge of this time is shown already, or about to be.                  *)
<1>13. ASSUME RiseAt(v, x.now), Edge1(x.now, 1) \notin y.seen PROVE RiseDue(w, y)
  <2>1. PICK r \in RunsOf(v) : RiseIn(v, r, x.now)
    BY <1>13 DEF RiseAt
  <2>2. r.start <= x.now /\ (r.stop = -1 \/ x.now < r.stop) /\ r.start \in Nat /\ (r.stop = -1 \/ r.stop \in Nat)
    BY <2>1, RunIs DEF RiseIn, Within
  <2>3. Active(r, x.now + 1)
    BY <1>2, <2>2 DEF Active
  <2>4. y.en
    BY <1>2, <1>6, <2>3 DEF EnIs
  <2>5. CASE x.gen = "wait"
    BY <1>3, <2>4, <2>5 DEF RiseDue
  <2>6. CASE x.gen = "high"
    <3> DEFINE b == x.at - v.clock.high
    <3>1. RiseAt(v, b) /\ Edge1(b, 1) \in x.seen /\ b <= x.now /\ x.now <= x.at /\ x.at \in Nat
      BY <1>1, <2>6 DEF GenIs
    <3>2. b \in Int /\ v.clock.high \in Nat /\ v.clock.low \in Nat /\ v.clock.low > 0
      BY <3>1, RunIs
    <3>3. b \in Nat /\ Span(v) = v.clock.high + v.clock.low
      BY <3>1, <3>2, RiseTimes
    <3>4. b < x.now => x.now >= b + Span(v)
      BY <1>2, <1>13, <3>1, <3>3, RisesApart
    <3>5. b # x.now
      BY <1>11, <1>13, <3>1
    <3>6. QED
      BY <1>2, <3>1, <3>2, <3>3, <3>4, <3>5
  <2>7. CASE x.gen = "low"
    <3> DEFINE b == x.at - Span(v)
    <3>1. RiseAt(v, b) /\ x.at - v.clock.low <= x.now /\ x.now <= x.at /\ x.at \in Nat
      BY <1>1, <2>7 DEF GenIs
    <3>2. /\ b \in Int /\ v.clock.high \in Nat /\ v.clock.low \in Nat /\ v.clock.high > 0
          /\ Span(v) = v.clock.high + v.clock.low
      BY <3>1, RunIs DEF Span
    <3>3. b \in Nat
      BY <3>1, <3>2, RiseTimes
    <3>4. b < x.now
      BY <1>2, <3>1, <3>2
    <3>5. x.now >= b + Span(v)
      BY <1>2, <1>13, <3>1, <3>3, <3>4, RisesApart
    <3>6. x.at = x.now
      BY <1>2, <3>1, <3>2, <3>5
    <3>7. QED
      BY <1>3, <2>7, <3>6 DEF RiseDue
  <2>8. QED
    BY <1>1, <2>5, <2>6, <2>7 DEF GenIs
<1>14. EdgesSeen(v, w, y)
  <2>1. ASSUME NEW t \in 0 .. x.now
        PROVE  /\ RiseAt(v, t) => Edge1(t, 1) \in y.seen \/ (t = x.now /\ RiseDue(w, y))
               /\ FallAt(v, t) => Edge1(t, 0) \in y.seen \/ (t = x.now /\ y.gen = "high" /\ y.at = t)
    <3>1. CASE t = x.now
      BY <1>1, <1>3, <1>11, <1>13, <3>1 DEF EdgesSeen
    <3>2. CASE t # x.now
      BY <1>1, <1>11, <3>2 DEF EdgesSeen
    <3>3. QED
      BY <3>1, <3>2
  <2>2. QED
    BY <1>3, <2>1 DEF EdgesSeen
<1>15. QED
  BY <1>2, <1>4, <1>5, <1>6, <1>9, <1>10, <1>12, <1>14 DEF Replays
-----------------------------------------------------------------------------
(* A step of the clock's generator                                         *)

SameBut(x, y) == y.now = x.now /\ y.pc = x.pc /\ y.in = x.in /\ y.en = x.en /\ y.done = x.done
Generated(v, x, y) ==
    /\ SameBut(x, y)
    /\ \/ /\ x.gen = "wait" /\ x.en /\ y.gen = "high" /\ y.at = x.now + v.clock.high
          /\ y.seen = x.seen \cup {Edge1(x.now, 1)}
       \/ /\ x.gen = "high" /\ x.at = x.now /\ y.gen = "low" /\ y.at = x.now + v.clock.low
          /\ y.seen = x.seen \cup {Edge1(x.now, 0)}
       \/ x.gen = "low" /\ x.at = x.now /\ y.gen = "wait" /\ y.at = x.at /\ y.seen = x.seen

LEMMA SameWords ==
    ASSUME NEW v, NEW w, NEW x, NEW y, SameBut(x, y)
    PROVE  /\ Cut(w, y) = Cut(w, x) /\ (Pending(w, y) <=> Pending(w, x))
           /\ WordsRun(w, x) => WordsRun(w, y)
           /\ EndRan(w, x) => EndRan(w, y)
           /\ Inputs(v, w, x) => Inputs(v, w, y)
           /\ EnIs(v, w, x) => EnIs(v, w, y)
<1>1. Cut(w, y) = Cut(w, x) /\ (Pending(w, y) <=> Pending(w, x))
  BY DEF SameBut, Cut, Pending
<1>2. QED
  BY <1>1 DEF SameBut, WordsRun, EndRan, Inputs, EnIs

LEMMA EdgeKeeps ==
    ASSUME NEW v, NEW w, NEW x, Replays(v, w, x), NEW y, SameBut(x, y), NEW S,
           y.seen = x.seen \cup S,
           \A s \in S : \/ RiseAt(v, x.now) /\ s = Edge1(x.now, 1)
                        \/ FallAt(v, x.now) /\ s = Edge1(x.now, 0),
           GenIs(v, y), EdgesSeen(v, w, y)
    PROVE  Replays(v, w, y)
<1>1. /\ WordsRun(w, x) /\ EndRan(w, x) /\ Inputs(v, w, x) /\ EnIs(v, w, x)
      /\ SeenOnly(v, w, x) /\ SeenAll(v, w, x)
  BY DEF Replays
<1>2. /\ WordsRun(w, y) /\ EndRan(w, y) /\ Inputs(v, w, y) /\ EnIs(v, w, y)
      /\ Cut(w, y) = Cut(w, x) /\ y.now = x.now
  BY <1>1, SameWords DEF SameBut
<1>3. x.now \in 0 .. x.now
  BY <1>1 DEF WordsRun
<1>4. SeenAll(v, w, y)
  BY <1>1, <1>2 DEF SeenAll
<1>5. SeenOnly(v, w, y)
  <2>1. ASSUME NEW s \in y.seen
        PROVE  \/ \E e \in Events(v) : e.t < Cut(w, x) /\ s \in Shows(v, e)
               \/ \E t \in 0 .. x.now : RiseAt(v, t) /\ s = Edge1(t, 1)
               \/ \E t \in 0 .. x.now : FallAt(v, t) /\ s = Edge1(t, 0)
    <3>1. CASE s \in x.seen
      BY <1>1, <3>1 DEF SeenOnly
    <3>2. CASE s \in S
      BY <1>3, <3>2
    <3>3. QED
      BY <2>1, <3>1, <3>2
  <2>2. QED
    BY <1>2, <2>1 DEF SeenOnly
<1>6. QED
  BY <1>2, <1>4, <1>5 DEF Replays

(* A clock that is enabled at the end of a low phase rises again.          *)
LEMMA RisesNext ==
    ASSUME NEW v, Legible(v), Plain(v), NEW b \in Nat, RiseAt(v, b), NEW c \in Nat,
           b + Span(v) <= c, c <= b + Span(v) + 1, NEW r \in RunsOf(v), Active(r, c)
    PROVE  RiseAt(v, b + Span(v))
<1>1. PICK q \in RunsOf(v) : RiseIn(v, q, b)
  BY DEF RiseAt
<1>2. q.start \in Nat /\ q.start <= b /\ Span(v) \in Nat /\ r.start \in Nat
  BY <1>1, RunIs DEF RiseIn, Within
<1>3. r.start < c /\ (r.stop = -1 \/ r.stop >= c) /\ (r.stop = -1 \/ r.stop \in Nat)
  BY RunIs DEF Active
<1>4. CASE r.start = q.start
  <2>1. r = q
    BY <1>4, RunsInTurn
  <2>2. r.stop = -1 \/ r.stop >= b + Span(v)
    BY <1>2, <1>3
  <2>3. QED
    BY <1>1, <2>1, <2>2, RisesAgain DEF RiseAt
<1>5. CASE q.start < r.start
  <2>1. r.start >= b + Span(v)
    BY <1>1, <1>5, StartsLater
  <2>2. r.start = b + Span(v)
    BY <1>2, <1>3, <2>1
  <2>3. RiseIn(v, r, r.start)
    BY RiseAtStart
  <2>4. QED
    BY <2>2, <2>3 DEF RiseAt
<1>6. CASE r.start < q.start
  <2>1. r.stop # -1 /\ r.stop < q.start
    BY <1>6, RunsInTurn
  <2>2. QED
    BY <1>2, <1>3, <2>1
<1>7. QED
  BY <1>2, <1>4, <1>5, <1>6

LEMMA GeneratedKeeps ==
    ASSUME NEW v, Legible(v), Plain(v), NEW w, NEW x, Replays(v, w, x), NEW y, Generated(v, x, y)
    PROVE  Replays(v, w, y)
<1>1. WordsRun(w, x) /\ EnIs(v, w, x) /\ GenIs(v, x) /\ EdgesSeen(v, w, x) /\ x.now \in Nat
  BY DEF Replays, WordsRun
<1>2. SameBut(x, y) /\ y.now = x.now /\ y.en = x.en /\ Cut(w, y) = Cut(w, x)
      /\ (Pending(w, y) <=> Pending(w, x))
  BY SameWords DEF Generated, SameBut
<1>3. Cut(w, x) \in Nat /\ x.now <= Cut(w, x) /\ Cut(w, x) <= x.now + 1
  BY <1>1, CutIs
<1>4. /\ v.clock.high \in Nat /\ v.clock.low \in Nat
  BY DEF Legible
<1>5. CASE x.gen = "wait" /\ x.en /\ y.gen = "high" /\ y.at = x.now + v.clock.high
           /\ y.seen = x.seen \cup {Edge1(x.now, 1)}
  <2>1. RiseAt(v, x.now)
    BY <1>1, <1>5 DEF GenIs
  <2>2. y.at - v.clock.high = x.now /\ y.at \in Nat /\ y.now <= y.at
    BY <1>1, <1>2, <1>4, <1>5
  <2>3. Edge1(x.now, 1) \in y.seen
    BY <1>5
  <2>4. GenIs(v, y)
    BY <1>1, <1>2, <1>5, <2>1, <2>2, <2>3 DEF GenIs
  <2>5. EdgesSeen(v, w, y)
    BY <1>1, <1>2, <1>5 DEF EdgesSeen
  <2>6. QED
    BY <1>2, <1>5, <2>1, <2>4, <2>5, EdgeKeeps
<1>6. CASE x.gen = "high" /\ x.at = x.now /\ y.gen = "low" /\ y.at = x.now + v.clock.low
           /\ y.seen = x.seen \cup {Edge1(x.now, 0)}
  <2> DEFINE b == x.now - v.clock.high
  <2>1. RiseAt(v, b) /\ b \in Int
    BY <1>1, <1>4, <1>6 DEF GenIs
  <2>2. b \in Nat /\ Span(v) = v.clock.high + v.clock.low
    BY <2>1, RiseTimes
  <2>3. FallAt(v, b + v.clock.high) /\ b + v.clock.high = x.now
    BY <1>1, <1>4, <2>1, <2>2, FallFollows
  <2>4. y.at \in Nat /\ y.at - Span(v) = b /\ y.at - v.clock.low = y.now /\ y.now <= y.at
    BY <1>1, <1>2, <1>4, <1>6, <2>2
  <2>5. GenIs(v, y)
    BY <1>1, <1>2, <1>6, <2>1, <2>4 DEF GenIs
  <2>6. ASSUME NEW t \in 0 .. x.now
        PROVE  /\ RiseAt(v, t) => Edge1(t, 1) \in y.seen \/ (t = x.now /\ RiseDue(w, y))
               /\ FallAt(v, t) => Edge1(t, 0) \in y.seen
    <3>1. RiseDue(w, x) => RiseDue(w, y)
      BY <1>2, <1>6 DEF RiseDue
    <3>2. QED
      BY <1>1, <1>6, <3>1 DEF EdgesSeen
  <2>7. EdgesSeen(v, w, y)
    BY <1>2, <2>6 DEF EdgesSeen
  <2>8. FallAt(v, x.now)
    BY <2>3
  <2>9. QED
    BY <1>2, <1>6, <2>5, <2>7, <2>8, EdgeKeeps
<1>7. CASE x.gen = "low" /\ x.at = x.now /\ y.gen = "wait" /\ y.at = x.at /\ y.seen = x.seen
  <2> DEFINE b == x.now - Span(v)
  <2>1. RiseAt(v, b) /\ b \in Int
    BY <1>1, <1>4, <1>7 DEF GenIs, Span
  <2>2. b \in Nat /\ Span(v) \in Nat
    BY <1>4, <2>1, RiseTimes DEF Span
  <2>3. b + Span(v) = x.now
    BY <1>1, <2>2
  <2>4. ASSUME x.en PROVE RiseAt(v, x.now)
    <3>1. PICK r \in RunsOf(v) : Active(r, Cut(w, x))
      BY <1>1, <2>4 DEF EnIs
    <3> HIDE DEF b
    <3>2. RiseAt(v, b + Span(v))
      BY <1>3, <2>1, <2>2, <2>3, <3>1, RisesNext
    <3>3. QED
      BY <2>3, <3>2
  <2>5. GenIs(v, y)
    BY <1>1, <1>2, <1>7, <2>4 DEF GenIs
  <2>6. ASSUME RiseAt(v, x.now), ~ Pending(w, x) PROVE x.en
    <3>1. PICK r \in RunsOf(v) : RiseIn(v, r, x.now)
      BY <2>6 DEF RiseAt
    <3>2. r.start <= x.now /\ (r.stop = -1 \/ x.now < r.stop) /\ r.start \in Nat /\ (r.stop = -1 \/ r.stop \in Nat)
      BY <3>1, RunIs DEF RiseIn, Within
    <3>3. Cut(w, x) = x.now + 1
      BY <2>6 DEF Cut
    <3>4. Active(r, Cut(w, x))
      BY <1>1, <3>2, <3>3 DEF Active
    <3>5. QED
      BY <1>1, <3>4 DEF EnIs
  <2>7. ASSUME NEW t \in 0 .. x.now
        PROVE  /\ RiseAt(v, t) => Edge1(t, 1) \in y.seen \/ (t = x.now /\ RiseDue(w, y))
               /\ FallAt(v, t) => Edge1(t, 0) \in y.seen
    <3>1. RiseAt(v, x.now) => RiseDue(w, y)
      BY <1>2, <1>7, <2>6 DEF RiseDue
    <3>2. QED
      BY <1>1, <1>7, <3>1 DEF EdgesSeen
  <2>8. EdgesSeen(v, w, y)
    BY <1>2, <2>7 DEF EdgesSeen
  <2> DEFINE S == {}
  <2>9. y.seen = x.seen \cup S /\ \A s \in S : FALSE
    BY <1>7
  <2> HIDE DEF S
  <2>10. QED
    BY <1>2, <2>5, <2>8, <2>9, EdgeKeeps
<1>8. QED
  BY <1>5, <1>6, <1>7 DEF Generated
-----------------------------------------------------------------------------
(* Time passes                                                             *)

GenIsDue(x) == IF x.gen = "wait" THEN x.en ELSE x.at = x.now
NextTime(w, x) == MinOf({w[x.pc].t} \cup (IF x.gen = "wait" THEN {} ELSE {x.at}))
Ticked(w, x, y) ==
    /\ ~ Pending(w, x) /\ ~ GenIsDue(x) /\ x.pc <= Len(w)
    /\ y.pc = x.pc /\ y.in = x.in /\ y.en = x.en /\ y.done = x.done /\ y.seen = x.seen
    /\ y.gen = x.gen /\ y.at = x.at
    /\ y.now = NextTime(w, x)

LEMMA TickedTime ==
    ASSUME NEW v, NEW w, Image(v, w), NEW x, WordsRun(w, x), GenIs(v, x), NEW y, Ticked(w, x, y)
    PROVE  /\ x.now \in Nat /\ y.now \in Nat /\ y.now >= x.now + 1 /\ Cut(w, x) = x.now + 1
           /\ x.gen # "wait" => y.now <= x.at
           /\ y.now <= Cut(w, y) /\ Cut(w, y) <= y.now + 1 /\ Cut(w, y) \in Nat
           /\ Cut(w, y) = y.now => Pending(w, y)
           /\ WordsRun(w, y)
           /\ \A k \in 1 .. Len(w) : w[k].t < Cut(w, x) <=> w[k].t < Cut(w, y)
<1> DEFINE S == {w[x.pc].t} \cup (IF x.gen = "wait" THEN {} ELSE {x.at})
<1>1. /\ Len(w) \in Nat /\ (\A k \in 1 .. Len(w) : w[k].t \in Nat)
      /\ \A i, j \in 1 .. Len(w) : i <= j => w[i].t <= w[j].t
  BY WordsTyped
<1>2. /\ x.now \in Nat /\ x.pc \in 1 .. Len(w) /\ Cut(w, x) = x.now + 1
      /\ \A k \in 1 .. Len(w) : k < x.pc <=> w[k].t < x.now + 1
      /\ y.now = MinOf(S) /\ y.pc = x.pc
  BY <1>1 DEF WordsRun, Cut, Ticked, NextTime
<1>3. w[x.pc].t \in Nat /\ w[x.pc].t > x.now
  BY <1>1, <1>2
<1>4. x.gen # "wait" => x.at \in Nat /\ x.at > x.now
  BY <1>2 DEF GenIs, Ticked, GenIsDue
<1>5. S \in SUBSET Nat /\ S # {} /\ \A t \in S : t > x.now
  BY <1>3, <1>4
<1>6. MinOf(S) \in S /\ \A t \in S : MinOf(S) <= t
  BY <1>5, MinOfIs
<1>7. /\ y.now \in Nat /\ y.now >= x.now + 1 /\ y.now <= w[x.pc].t
      /\ x.gen # "wait" => y.now <= x.at
  <2>1. w[x.pc].t \in S /\ (x.gen # "wait" => x.at \in S)
    OBVIOUS
  <2> HIDE DEF S
  <2>2. y.now \in S /\ \A t \in S : y.now <= t
    BY <1>2, <1>6
  <2>3. y.now \in Nat /\ y.now > x.now
    BY <1>5, <2>2
  <2>4. QED
    BY <1>2, <2>1, <2>2, <2>3
<1> HIDE DEF S
<1>8. Pending(w, y) <=> w[x.pc].t <= y.now
  BY <1>2 DEF Pending
<1>9. /\ y.now <= Cut(w, y) /\ Cut(w, y) <= y.now + 1 /\ Cut(w, y) \in Nat
      /\ Cut(w, y) = y.now => Pending(w, y)
      /\ w[x.pc].t >= Cut(w, y)
  BY <1>3, <1>7, <1>8 DEF Cut
<1>10. ASSUME NEW k \in 1 .. Len(w)
       PROVE  (w[k].t < x.now + 1 <=> w[k].t < Cut(w, y)) /\ (k < x.pc <=> w[k].t < Cut(w, y))
  <2>1. CASE k < x.pc
    <3>1. w[k].t < x.now + 1 /\ w[k].t \in Nat
      BY <1>1, <1>2, <2>1
    <3>2. QED
      BY <1>2, <1>7, <1>9, <2>1, <3>1
  <2>2. CASE ~ (k < x.pc)
    <3>1. w[k].t \in Nat /\ w[x.pc].t <= w[k].t /\ ~ (w[k].t < x.now + 1)
      BY <1>1, <1>2, <2>2
    <3>2. QED
      BY <1>3, <1>9, <2>2, <3>1
  <2>3. QED
    BY <2>1, <2>2
<1>11. WordsRun(w, y)
  BY <1>1, <1>2, <1>7, <1>10 DEF WordsRun
<1>12. QED
  BY <1>2, <1>7, <1>9, <1>10, <1>11

(* Nothing in the file happens while it does.                              *)
LEMMA TickedEvents ==
    ASSUME NEW v, Legible(v), NEW w, Image(v, w), NEW x, WordsRun(w, x), GenIs(v, x),
           NEW y, Ticked(w, x, y)
    PROVE  /\ \A e \in Events(v) : e.t < Cut(w, x) <=> e.t < Cut(w, y)
           /\ \A t \in StartTimes(v) \cup Stops(v) : t < Cut(w, x) <=> t < Cut(w, y)
<1>1. \A k \in 1 .. Len(w) : w[k].t < Cut(w, x) <=> w[k].t < Cut(w, y)
  BY TickedTime
<1>2. \A e \in Events(v) : e.t < Cut(w, x) <=> e.t < Cut(w, y)
  <2>1. \A e \in Events(v) : \E k \in 1 .. Len(w) : w[k] = e
    BY DEF Image, Imaged
  <2>2. QED
    BY <1>1, <2>1
<1>3. \A t \in StartTimes(v) \cup Stops(v) : \E k \in 1 .. Len(w) : w[k].t = t
  BY StartIsWord, StopIsWord
<1>4. QED
  BY <1>1, <1>2, <1>3

LEMMA TickedRuns ==
    ASSUME NEW v, Legible(v), Plain(v), NEW w, Image(v, w), NEW x, WordsRun(w, x), GenIs(v, x),
           NEW y, Ticked(w, x, y), NEW r \in RunsOf(v)
    PROVE  Active(r, Cut(w, x)) <=> Active(r, Cut(w, y))
<1>1. Cut(w, x) \in Nat /\ Cut(w, y) \in Nat
  BY TickedTime
<1>2. r.start < Cut(w, x) <=> r.start < Cut(w, y)
  BY RunIs, TickedEvents
<1>3. r.stop # -1 => r.stop \in Nat /\ (r.stop < Cut(w, x) <=> r.stop < Cut(w, y))
  BY RunIs, TickedEvents
<1>4. QED
  BY <1>1, <1>2, <1>3 DEF Active

(* Nor does the clock have an edge before the new time.                    *)
LEMMA TickedRise ==
    ASSUME NEW v, Legible(v), Plain(v), NEW w, Image(v, w), NEW x, WordsRun(w, x), EnIs(v, w, x),
           GenIs(v, x), NEW y, Ticked(w, x, y), NEW t \in x.now + 1 .. y.now, RiseAt(v, t)
    PROVE  t = y.now /\ RiseDue(w, y)
<1>1. /\ x.now \in Nat /\ y.now \in Nat /\ Cut(w, x) = x.now + 1 /\ Cut(w, y) \in Nat
      /\ y.now <= Cut(w, y) /\ (Cut(w, y) = y.now => Pending(w, y))
      /\ x.gen # "wait" => y.now <= x.at
  BY TickedTime
<1>2. t \in Nat /\ x.now < t /\ t <= y.now
  BY <1>1
<1>3. y.gen = x.gen /\ y.at = x.at /\ x.at \in Nat /\ x.gen \in {"wait", "high", "low"}
  BY DEF Ticked, GenIs
<1>4. /\ v.clock.high \in Nat /\ v.clock.low \in Nat
      /\ v.clock.high > 0 /\ v.clock.low > 0 /\ Span(v) = v.clock.high + v.clock.low
  BY <1>2, RiseTimes
<1>5. CASE x.gen = "wait"
  <2>1. PICK r \in RunsOf(v) : RiseIn(v, r, t)
    BY DEF RiseAt
  <2>2. r.start <= t /\ (r.stop = -1 \/ t < r.stop) /\ r.start \in Nat /\ (r.stop = -1 \/ r.stop \in Nat)
    BY <2>1, RunIs DEF RiseIn, Within
  <2>3. ~ Active(r, Cut(w, x))
    BY <1>5 DEF EnIs, Ticked, GenIsDue
  <2>4. ~ (r.start < Cut(w, x))
    BY <1>1, <1>2, <2>2, <2>3 DEF Active
  <2>5. ~ (r.start < Cut(w, y))
    BY <2>4, RunIs, TickedEvents
  <2>6. t = y.now /\ Cut(w, y) = y.now
    BY <1>1, <1>2, <2>2, <2>5
  <2>7. QED
    BY <1>1, <2>6 DEF RiseDue
<1>6. CASE x.gen = "high"
  <2> DEFINE b == x.at - v.clock.high
  <2>1. RiseAt(v, b) /\ b <= x.now /\ b \in Int
    BY <1>3, <1>4, <1>6 DEF GenIs
  <2>2. b \in Nat /\ b < t
    BY <1>1, <1>2, <2>1, RiseTimes
  <2>3. t >= b + Span(v)
    BY <1>2, <2>1, <2>2, RisesApart
  <2>4. QED
    BY <1>1, <1>2, <1>3, <1>4, <1>6, <2>3
<1>7. CASE x.gen = "low"
  <2> DEFINE b == x.at - Span(v)
  <2>1. RiseAt(v, b) /\ x.at - v.clock.low <= x.now /\ b \in Int
    BY <1>3, <1>4, <1>7 DEF GenIs
  <2>2. b \in Nat /\ b < t
    BY <1>1, <1>2, <1>3, <1>4, <2>1, RiseTimes
  <2>3. t >= b + Span(v)
    BY <1>2, <2>1, <2>2, RisesApart
  <2>4. t = y.now /\ x.at = y.now
    BY <1>1, <1>2, <1>3, <1>4, <1>7, <2>3
  <2>5. QED
    BY <1>3, <1>7, <2>4 DEF RiseDue
<1>8. QED
  BY <1>3, <1>5, <1>6, <1>7

LEMMA TickedFall ==
    ASSUME NEW v, Legible(v), Plain(v), NEW w, Image(v, w), NEW x, WordsRun(w, x), EnIs(v, w, x),
           GenIs(v, x), NEW y, Ticked(w, x, y), NEW t \in x.now + 1 .. y.now, FallAt(v, t)
    PROVE  t = y.now /\ y.gen = "high" /\ y.at = t
<1>1. /\ x.now \in Nat /\ y.now \in Nat /\ Cut(w, x) = x.now + 1 /\ Cut(w, y) \in Nat
      /\ y.now <= Cut(w, y)
      /\ x.gen # "wait" => y.now <= x.at
  BY TickedTime
<1>2. t \in Nat /\ x.now < t /\ t <= y.now
  BY <1>1
<1>3. y.gen = x.gen /\ y.at = x.at /\ x.at \in Nat /\ x.gen \in {"wait", "high", "low"}
  BY DEF Ticked, GenIs
<1> DEFINE a == t - v.clock.high
<1>4. PICK r \in RunsOf(v) : FallIn(v, r, t)
  BY DEF FallAt
<1>5. a \in Nat /\ RiseIn(v, r, a)
  BY <1>2, <1>4, RiseBefore
<1>6. RiseAt(v, a)
  BY <1>5 DEF RiseAt
<1>7. /\ v.clock.high \in Nat /\ v.clock.low \in Nat /\ v.clock.high > 0 /\ v.clock.low > 0
      /\ Span(v) = v.clock.high + v.clock.low
  BY <1>5, <1>6, RiseTimes
<1>8. CASE x.gen = "wait"
  <2>1. r.start + v.clock.high <= t /\ (r.stop = -1 \/ t < r.stop) /\ r.start \in Nat
        /\ (r.stop = -1 \/ r.stop \in Nat)
    BY <1>4, RunIs DEF FallIn, Within
  <2>2. ~ Active(r, Cut(w, x))
    BY <1>8 DEF EnIs, Ticked, GenIsDue
  <2>3. ~ (r.start < Cut(w, x))
    BY <1>1, <1>2, <2>1, <2>2 DEF Active
  <2>4. ~ (r.start < Cut(w, y))
    BY <2>3, RunIs, TickedEvents
  <2>5. QED
    BY <1>1, <1>2, <1>7, <2>1, <2>4
<1>9. CASE x.gen = "high"
  <2> DEFINE b == x.at - v.clock.high
  <2>1. RiseAt(v, b) /\ b <= x.now /\ b \in Int
    BY <1>3, <1>7, <1>9 DEF GenIs
  <2>2. b \in Nat
    BY <2>1, RiseTimes
  <2> HIDE DEF a, b
  <2>3. a < b => b >= a + Span(v)
    BY <1>5, <1>6, <2>1, <2>2, RisesApart
  <2>4. b < a => a >= b + Span(v)
    BY <1>5, <1>6, <2>1, <2>2, RisesApart
  <2>5. t = a + v.clock.high /\ x.at = b + v.clock.high
    BY <1>2, <1>3, <1>7 DEF a, b
  <2>6. a = b
    BY <1>1, <1>2, <1>3, <1>5, <1>7, <1>9, <2>1, <2>2, <2>3, <2>4, <2>5
  <2>7. QED
    BY <1>1, <1>2, <1>3, <1>9, <2>5, <2>6
<1>10. CASE x.gen = "low"
  <2> DEFINE b == x.at - Span(v)
  <2>1. RiseAt(v, b) /\ x.at - v.clock.low <= x.now /\ b \in Int
    BY <1>3, <1>7, <1>10 DEF GenIs
  <2>2. b \in Nat
    BY <2>1, RiseTimes
  <2>3. b < a
    BY <1>1, <1>2, <1>3, <1>7, <2>1
  <2>4. a >= b + Span(v)
    BY <1>5, <1>6, <2>1, <2>2, <2>3, RisesApart
  <2>5. QED
    BY <1>1, <1>2, <1>3, <1>7, <1>10, <2>4
<1>11. QED
  BY <1>3, <1>8, <1>9, <1>10

LEMMA TickedKeeps ==
    ASSUME NEW v, Legible(v), Plain(v), NEW w, Image(v, w), NEW x, Replays(v, w, x),
           NEW y, Ticked(w, x, y)
    PROVE  Replays(v, w, y)
<1>1. /\ WordsRun(w, x) /\ EndRan(w, x) /\ Inputs(v, w, x) /\ EnIs(v, w, x) /\ GenIs(v, x)
      /\ SeenOnly(v, w, x) /\ SeenAll(v, w, x) /\ EdgesSeen(v, w, x)
  BY DEF Replays
<1>2. /\ x.now \in Nat /\ y.now \in Nat /\ y.now >= x.now + 1 /\ WordsRun(w, y)
      /\ x.gen # "wait" => y.now <= x.at
      /\ \A k \in 1 .. Len(w) : w[k].t < Cut(w, x) <=> w[k].t < Cut(w, y)
  BY <1>1, TickedTime
<1>3. \A e \in Events(v) : e.t < Cut(w, x) <=> e.t < Cut(w, y)
  BY <1>1, TickedEvents
<1>4. /\ y.in = x.in /\ y.en = x.en /\ y.done = x.done /\ y.seen = x.seen
      /\ y.gen = x.gen /\ y.at = x.at /\ ~ Pending(w, x) /\ ~ GenIsDue(x)
  BY DEF Ticked
<1>5. EndRan(w, y)
  BY <1>1, <1>2, <1>4 DEF EndRan
<1>6. Inputs(v, w, y)
  <2>1. \A p : SetsBefore(v, p, Cut(w, x)) = SetsBefore(v, p, Cut(w, y))
    BY <1>3 DEF SetsBefore
  <2>2. \A p : ValueBefore(v, p, Cut(w, x)) = ValueBefore(v, p, Cut(w, y))
    BY <2>1, ValueBeforeIs
  <2>3. QED
    BY <1>1, <1>4, <2>2 DEF Inputs
<1>7. EnIs(v, w, y)
  <2>1. \A r \in RunsOf(v) : Active(r, Cut(w, x)) <=> Active(r, Cut(w, y))
    BY <1>1, TickedRuns
  <2>2. QED
    BY <1>1, <1>4, <2>1 DEF EnIs
<1>8. GenIs(v, y)
  <2>1. v.clock.high \in Nat /\ v.clock.low \in Nat
    BY DEF Legible
  <2>2. /\ x.gen \in {"wait", "high", "low"} /\ x.at \in Nat /\ ~ (x.gen = "wait" /\ x.en)
        /\ x.gen = "high" => /\ RiseAt(v, x.at - v.clock.high) /\ Edge1(x.at - v.clock.high, 1) \in x.seen
                             /\ x.at - v.clock.high <= x.now
        /\ x.gen = "low" => RiseAt(v, x.at - Span(v)) /\ x.at - v.clock.low <= x.now
    BY <1>1, <1>4 DEF GenIs, GenIsDue
  <2>3. x.gen = "high" => x.at - v.clock.high <= y.now /\ y.now <= x.at
    BY <1>2, <2>1, <2>2
  <2>4. x.gen = "low" => x.at - v.clock.low <= y.now /\ y.now <= x.at
    BY <1>2, <2>1, <2>2
  <2>5. QED
    BY <1>4, <2>2, <2>3, <2>4 DEF GenIs
<1>9. 0 .. x.now \subseteq 0 .. y.now
  BY <1>2
<1>10. SeenOnly(v, w, y)
  <2>1. ASSUME NEW s \in x.seen
        PROVE  \/ \E e \in Events(v) : e.t < Cut(w, y) /\ s \in Shows(v, e)
               \/ \E t \in 0 .. y.now : RiseAt(v, t) /\ s = Edge1(t, 1)
               \/ \E t \in 0 .. y.now : FallAt(v, t) /\ s = Edge1(t, 0)
    <3>1. \/ \E e \in Events(v) : e.t < Cut(w, x) /\ s \in Shows(v, e)
          \/ \E t \in 0 .. x.now : RiseAt(v, t) /\ s = Edge1(t, 1)
          \/ \E t \in 0 .. x.now : FallAt(v, t) /\ s = Edge1(t, 0)
      BY <1>1 DEF SeenOnly
    <3>2. QED
      BY <1>3, <1>9, <3>1
  <2>2. QED
    BY <1>4, <2>1 DEF SeenOnly
<1>11. SeenAll(v, w, y)
  BY <1>1, <1>3, <1>4 DEF SeenAll
<1>12. EdgesSeen(v, w, y)
  <2>1. ASSUME NEW t \in 0 .. y.now
        PROVE  /\ RiseAt(v, t) => Edge1(t, 1) \in y.seen \/ (t = y.now /\ RiseDue(w, y))
               /\ FallAt(v, t) => Edge1(t, 0) \in y.seen \/ (t = y.now /\ y.gen = "high" /\ y.at = t)
    <3>1. CASE t \in 0 .. x.now
      <4>1. ~ RiseDue(w, x) /\ ~ (x.gen = "high" /\ x.at = x.now)
        BY <1>4 DEF RiseDue, GenIsDue
      <4>2. QED
        BY <1>1, <1>4, <3>1, <4>1 DEF EdgesSeen
    <3>2. CASE t \in x.now + 1 .. y.now
      BY <1>1, <3>2, TickedRise, TickedFall
    <3>3. QED
      BY <1>2, <3>1, <3>2
  <2>2. QED
    BY <2>1 DEF EdgesSeen
<1>13. QED
  BY <1>2, <1>5, <1>6, <1>7, <1>8, <1>10, <1>11, <1>12 DEF Replays
-----------------------------------------------------------------------------
(* A testbench that starts                                                 *)

LEMMA NewTbReplays ==
    ASSUME NEW v, Legible(v), Plain(v), NEW w, Image(v, w)
    PROVE  Replays(v, w, NewTb)
<1> DEFINE x == NewTb
           c == Cut(w, x)
<1>1. /\ x.now = 0 /\ x.pc = 1 /\ x.in = [p \in Ports |-> 0] /\ x.en = FALSE /\ x.gen = "wait"
      /\ x.at = 0 /\ x.done = FALSE /\ x.seen = {}
  BY DEF NewTb
<1>2. /\ Len(w) \in Nat /\ (\A k \in 1 .. Len(w) : w[k].t \in Nat)
      /\ \A i, j \in 1 .. Len(w) : i <= j => w[i].t <= w[j].t
  BY WordsTyped
<1>3. Len(w) > 0
  <2>1. \E k \in 1 .. Len(w) : w[k].op = "end"
    BY DEF Image, Imaged
  <2>2. QED
    BY <1>2, <2>1
<1>4. 1 \in 1 .. Len(w) /\ w[1].t \in Nat
  BY <1>2, <1>3
<1> HIDE DEF x
<1>5. (Pending(w, x) <=> w[1].t = 0) /\ c = IF w[1].t = 0 THEN 0 ELSE 1
  BY <1>1, <1>2, <1>3, <1>4 DEF Pending, Cut
<1>6. ASSUME NEW k \in 1 .. Len(w) PROVE ~ (w[k].t < c)
  <2>1. w[1].t <= w[k].t /\ w[k].t \in Nat
    BY <1>2, <1>4
  <2>2. QED
    BY <1>4, <1>5, <2>1
<1>7. ASSUME NEW e \in Events(v) PROVE ~ (e.t < c)
  BY <1>6 DEF Image, Imaged
<1>8. ASSUME NEW r \in RunsOf(v) PROVE ~ (r.start < c)
  <2>1. \E k \in 1 .. Len(w) : w[k].t = r.start
    BY RunIs, StartIsWord
  <2>2. QED
    BY <1>6, <2>1
<1>9. WordsRun(w, x)
  <2>1. 0 \in Nat /\ 1 \in 1 .. Len(w) + 1
    BY <1>2
  <2>2. \A k \in 1 .. Len(w) : ~ (k < 1)
    OBVIOUS
  <2>3. QED
    BY <1>1, <1>6, <2>1, <2>2 DEF WordsRun
<1>10. EndRan(w, x)
  BY <1>1 DEF EndRan
<1>11. Inputs(v, w, x)
  <2>1. ASSUME NEW p \in Ports PROVE x.in[p] = ValueBefore(v, p, c)
    <3>1. SetsBefore(v, p, c) = {}
      BY <1>7 DEF SetsBefore
    <3>2. ValueBefore(v, p, c) = 0
      BY <3>1, ValueBeforeIs DEF LatestValue
    <3>3. QED
      BY <1>1, <3>2
  <2>2. QED
    BY <2>1 DEF Inputs
<1>12. EnIs(v, w, x)
  BY <1>1, <1>8 DEF EnIs, Active
<1>13. GenIs(v, x)
  BY <1>1 DEF GenIs
<1>14. SeenOnly(v, w, x)
  BY <1>1 DEF SeenOnly
<1>15. SeenAll(v, w, x)
  BY <1>7 DEF SeenAll
<1>16. EdgesSeen(v, w, x)
  <2>1. ASSUME RiseAt(v, 0) PROVE Pending(w, x)
    <3>1. PICK r \in RunsOf(v) : RiseIn(v, r, 0)
      BY <2>1 DEF RiseAt
    <3>2. r.start \in Nat /\ r.start <= 0
      BY <3>1, RunIs DEF RiseIn, Within
    <3>3. r.start = 0
      BY <3>2
    <3>4. QED
      BY <1>5, <1>8, <3>3
  <2>2. ~ FallAt(v, 0)
    <3>1. SUFFICES ASSUME NEW r \in RunsOf(v), FallIn(v, r, 0) PROVE FALSE
      BY DEF FallAt
    <3>2. r.start \in Nat /\ v.clock.high \in Nat /\ v.clock.high > 0
      BY RunIs
    <3>3. QED
      BY <3>1, <3>2 DEF FallIn
  <2>3. QED
    BY <1>1, <2>1, <2>2 DEF EdgesSeen, RiseDue
<1>17. QED
  BY <1>9, <1>10, <1>11, <1>12, <1>13, <1>14, <1>15, <1>16 DEF Replays, x

-----------------------------------------------------------------------------
(* The inductive invariant: whatever the stimulus, the testbench replays   *)
(* it as far as it has come.                                               *)

Testbench(x) ==
    x = [now |-> x.now, pc |-> x.pc, in |-> x.in, en |-> x.en, gen |-> x.gen, at |-> x.at,
         done |-> x.done, seen |-> x.seen]
Faithful(s, v, x) ==
    /\ Testbench(x)
    /\ s = "done" => x.done
    /\ s \in {"read", "compiled", "done"} => Legible(v)
    /\ s \in {"compiled", "done"} => validate(v)
    /\ s \in {"compiled", "done"} /\ Plain(v) => Replays(v, compile_vec(v), x)
ReplayInv == Faithful(stage, vec, tb)

LEMMA ReplayStarts == EInit => ReplayInv
<1>1. SUFFICES ASSUME EInit PROVE Faithful(stage, vec, tb)
  BY DEF ReplayInv
<1>2. tb = NewTb /\ (stage \in {"building", "equiv"} \/ (stage = "read" /\ vec \in Files))
  BY <1>1 DEF EInit, StimulusInit
<1>3. Testbench(tb)
  BY <1>2 DEF Testbench, NewTb
<1>4. stage = "read" => Legible(vec)
  BY <1>2, FilesAssumption, FilesAreLegible
<1>5. QED
  BY <1>2, <1>3, <1>4 DEF Faithful

LEMMA CompileKeeps ==
    ASSUME ReplayInv, Compile
    PROVE  Faithful(stage', vec', tb')
<1>1. Legible(vec)
  BY DEF ReplayInv, Faithful, Compile
<1>2. /\ vec' = vec /\ tb' = NewTb /\ stage' \in {"compiled", "refused"}
      /\ stage' = "compiled" => validate(vec)
  BY DEF Compile
<1>3. Testbench(NewTb)
  BY DEF Testbench, NewTb
<1>4. Plain(vec) => Replays(vec, compile_vec(vec), NewTb)
  BY <1>1, CompiledIsImage, NewTbReplays
<1>5. QED
  BY <1>1, <1>2, <1>3, <1>4 DEF Faithful

(* The testbench's steps are those of the lemmas above.                    *)
LEMMA ReplayIs ==
    ASSUME Replay, Testbench(tb)
    PROVE  Pending(Words, tb) /\ Replayed(Words, tb, tb') /\ Testbench(tb')
<1> DEFINE last == MaxOf({k \in tb.pc..Len(Words) : Words[k].t <= tb.now})
           ws == Step(tb.pc, last)
<1>1. last = LastOf(Words, tb) /\ ws = StepWords(Words, tb)
  BY DEF LastOf, StepWords, Step
<1>2. tb' = [tb EXCEPT !.pc = last + 1,
                !.in = in_vec(ws, tb),
                !.en = Enables(ws, tb.en),
                !.done = \E w \in ws : w.op = "end",
                !.seen = tb.seen \cup {Seen(tb.now, s) : s \in committed(ws, tb) \cup Out(ws)}]
  BY DEF Replay, Enables, Out
<1> HIDE DEF last, ws
<1>3. tb' = [now |-> tb.now, pc |-> last + 1, in |-> in_vec(ws, tb), en |-> Enables(ws, tb.en),
             gen |-> tb.gen, at |-> tb.at, done |-> \E w \in ws : w.op = "end",
             seen |-> tb.seen \cup {Seen(tb.now, s) : s \in committed(ws, tb) \cup Out(ws)}]
  BY <1>2 DEF Testbench
<1>4. Testbench(tb')
  BY <1>3 DEF Testbench
<1>5. Replayed(Words, tb, tb')
  BY <1>1, <1>3 DEF Replayed
<1>6. Pending(Words, tb)
  BY DEF Replay, Due, Pending
<1>7. QED
  BY <1>4, <1>5, <1>6

LEMMA GenerateIs ==
    ASSUME Generate, Testbench(tb), tb.gen \in {"wait", "high", "low"}
    PROVE  Generated(vec, tb, tb')
<1> DEFINE edge(v) == tb.seen \cup {Seen(tb.now, {<<"C", v>>})}
<1>1. tb' = IF tb.gen = "wait"
            THEN [tb EXCEPT !.gen = "high", !.at = tb.now + vec.clock.high, !.seen = edge(1)]
            ELSE IF tb.gen = "high"
            THEN [tb EXCEPT !.gen = "low", !.at = tb.now + vec.clock.low, !.seen = edge(0)]
            ELSE [tb EXCEPT !.gen = "wait"]
  BY DEF Generate
<1>2. IF tb.gen = "wait" THEN tb.en ELSE tb.at = tb.now
  BY DEF Generate, GenDue
<1>3. edge(1) = tb.seen \cup {Edge1(tb.now, 1)} /\ edge(0) = tb.seen \cup {Edge1(tb.now, 0)}
  BY DEF Edge1
<1> HIDE DEF edge
<1>4. CASE tb.gen = "wait"
  BY <1>1, <1>2, <1>3, <1>4 DEF Testbench, Generated, SameBut
<1>5. CASE tb.gen = "high"
  BY <1>1, <1>2, <1>3, <1>5 DEF Testbench, Generated, SameBut
<1>6. CASE tb.gen = "low"
  BY <1>1, <1>2, <1>6 DEF Testbench, Generated, SameBut
<1>7. QED
  BY <1>4, <1>5, <1>6

LEMMA TickIs ==
    ASSUME Tick, Testbench(tb)
    PROVE  Ticked(Words, tb, tb')
<1>1. tb' = [tb EXCEPT !.now = NextTime(Words, tb)]
  BY DEF Tick, NextTime
<1>2. tb.pc <= Len(Words) /\ ~ GenIsDue(tb) /\ ~ Pending(Words, tb)
  BY DEF Tick, GenDue, GenIsDue, Due, Pending
<1>3. QED
  BY <1>1, <1>2 DEF Testbench, Ticked

LEMMA TestbenchStays ==
    ASSUME Testbench(tb), Generate \/ Tick
    PROVE  Testbench(tb')
<1>1. CASE Generate
  <2>1. PICK s : \/ tb' = [tb EXCEPT !.gen = "high", !.at = tb.now + vec.clock.high, !.seen = s]
                 \/ tb' = [tb EXCEPT !.gen = "low", !.at = tb.now + vec.clock.low, !.seen = s]
                 \/ tb' = [tb EXCEPT !.gen = "wait"]
    BY <1>1 DEF Generate
  <2>2. QED
    BY <2>1 DEF Testbench
<1>2. CASE Tick
  <2>1. PICK t : tb' = [tb EXCEPT !.now = t]
    BY <1>2 DEF Tick
  <2>2. QED
    BY <2>1 DEF Testbench
<1>3. QED
  BY <1>1, <1>2

LEMMA TestbenchKeeps ==
    ASSUME ReplayInv, Replay \/ Generate \/ Tick
    PROVE  Faithful(stage', vec', tb')
<1>1. stage = "compiled" /\ stage' = stage /\ vec' = vec
  BY DEF Replay, Generate, Tick
<1>2. Testbench(tb) /\ Legible(vec) /\ validate(vec) /\ (Plain(vec) => Replays(vec, Words, tb))
  BY <1>1 DEF ReplayInv, Faithful, Words
<1>3. Testbench(tb')
  BY <1>2, ReplayIs, TestbenchStays
<1>4. ASSUME Plain(vec) PROVE Replays(vec, Words, tb')
  <2>1. Image(vec, Words) /\ Replays(vec, Words, tb)
    BY <1>2, <1>4, CompiledIsImage DEF Words
  <2>2. CASE Replay
    <3>1. Pending(Words, tb) /\ Replayed(Words, tb, tb')
      BY <1>2, <2>2, ReplayIs
    <3>2. QED
      BY <1>2, <1>4, <2>1, <3>1, ReplayedKeeps
  <2>3. CASE Generate
    <3>1. tb.gen \in {"wait", "high", "low"}
      BY <2>1 DEF Replays, GenIs
    <3>2. Generated(vec, tb, tb')
      BY <1>2, <2>3, <3>1, GenerateIs
    <3>3. QED
      BY <1>2, <1>4, <2>1, <3>2, GeneratedKeeps
  <2>4. CASE Tick
    <3>1. Ticked(Words, tb, tb')
      BY <1>2, <2>4, TickIs
    <3>2. QED
      BY <1>2, <1>4, <2>1, <3>1, TickedKeeps
  <2>5. QED
    BY <2>2, <2>3, <2>4
<1>5. QED
  BY <1>1, <1>2, <1>3, <1>4 DEF Faithful, Words

LEMMA ReplayStep == StimulusInv /\ ReplayInv /\ [ENext]_<<stimulusVars, evars>> => ReplayInv'
<1>1. SUFFICES ASSUME StimulusInv, ReplayInv, [ENext]_<<stimulusVars, evars>>
               PROVE  Faithful(stage', vec', tb')
  BY DEF ReplayInv
<1>2. Testbench(tb)
  BY <1>1 DEF ReplayInv, Faithful
<1>3. ASSUME tb' = tb, stage' \notin {"read", "compiled", "done"} PROVE Faithful(stage', vec', tb')
  BY <1>2, <1>3 DEF Faithful
<1>4. CASE UNCHANGED <<stimulusVars, evars>>
  BY <1>1, <1>4 DEF stimulusVars, ReplayInv
<1>5. CASE StimulusNext
  <2>1. ASSUME NEW x, Building, Call(x) PROVE Faithful(stage', vec', tb')
    BY <1>3, <2>1 DEF Building, Call
  <2>2. ASSUME NEW p \in Ports, InitPort(p) PROVE Faithful(stage', vec', tb')
    BY <2>1, <2>2 DEF InitPort
  <2>3. CASE Set \/ Edge \/ Sample \/ Cycle \/ Open
    <3>1. Building /\ \E x : Call(x)
      BY <2>3 DEF Set, Edge, Sample, Cycle, Open
    <3>2. QED
      BY <2>1, <3>1
  <2>4. ASSUME NEW p \in AsyncPorts, NEW v \in {0, 1}, Async(p, v) PROVE Faithful(stage', vec', tb')
    BY <2>1, <2>4 DEF Async
  <2>5. ASSUME NEW v \in {0, 1}, Glbl(v) PROVE Faithful(stage', vec', tb')
    BY <2>1, <2>5 DEF Glbl
  <2>6. ASSUME NEW dt \in Waits, Wait(dt) PROVE Faithful(stage', vec', tb')
    BY <2>1, <2>6 DEF Wait
  <2>7. CASE Close
    <3>1. stage = "building" /\ stage' = stage /\ tb' = tb
      BY <2>7 DEF Close
    <3>2. QED
      BY <1>3, <3>1
  <2>8. CASE Build
    <3>1. stage = "building" /\ ~ InSim(builder) /\ vec' = BuiltVec(builder) /\ stage' = "read" /\ tb' = tb
      BY <2>8 DEF Build
    <3>2. Ready(builder)
      BY <1>1, <3>1 DEF StimulusInv
    <3>3. Legible(vec')
      BY <3>1, <3>2, BuiltIsLegible
    <3>4. QED
      BY <1>2, <3>1, <3>3 DEF Faithful
  <2>9. CASE Compile
    BY <1>1, <2>9, CompileKeeps
  <2>10. CASE Replay \/ Generate \/ Tick
    BY <1>1, <2>10, TestbenchKeeps
  <2>11. CASE FinishReplay
    <3>1. stage = "compiled" /\ stage' = "done" /\ tb.done /\ tb' = tb /\ vec' = vec
      BY <2>11 DEF FinishReplay
    <3>2. QED
      BY <1>1, <3>1 DEF ReplayInv, Faithful
  <2>12. QED
    BY <1>5, <2>2, <2>3, <2>4, <2>5, <2>6, <2>7, <2>8, <2>9, <2>10, <2>11 DEF StimulusNext
<1>6. CASE Phase
  <2>1. stage' \in {"equiv", "raised"} /\ tb' = tb
    BY <1>6 DEF Phase
  <2>2. QED
    BY <1>3, <2>1
<1>7. CASE EquivBuild
  <2>1. stage' \in {"equiv_built", "raised"} /\ tb' = tb
    BY <1>7 DEF EquivBuild
  <2>2. QED
    BY <1>3, <2>1
<1>8. QED
  BY <1>1, <1>4, <1>5, <1>6, <1>7 DEF ENext

LEMMA ReplaySafe == ReplayInv => SameReplay
<1>1. SUFFICES ASSUME ReplayInv, stage = "done", StartsAtRest(vec), \A e \in Events(vec) : ~ e.sim
               PROVE  Observed(tb.seen) = Observed(replay(vec))
  BY DEF SameReplay
<1>2. Legible(vec) /\ validate(vec) /\ tb.done
  BY <1>1 DEF ReplayInv, Faithful
<1>3. Plain(vec)
  BY <1>1, <1>2 DEF Plain
<1>4. Replays(vec, compile_vec(vec), tb)
  BY <1>1, <1>3 DEF ReplayInv, Faithful
<1>5. QED
  BY <1>2, <1>3, <1>4, CompiledIsImage, DoneAgrees

(* A simulator's device sees, up to the last sample, exactly the changes    *)
(* and the clock edges that golden.replay applies, at the same times        *)
(* (stimcompile.py, xut_vector_tb.sv and free_clock_edges in xvec.py): for  *)
(* any file and any built stimulus that validate accepts, whose clock       *)
(* starts at rest and which marks no event as simultaneous.                 *)
THEOREM SimulatorSeesTheGolden == ESpec => []SameReplay
<1>1. QED
  BY StimulusStarts, StimulusStep, ReplayStarts, ReplayStep, ReplaySafe, PTL DEF ESpec, ESafety
=============================================================================
