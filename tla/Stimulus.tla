------------------------------ MODULE Stimulus ------------------------------
(***************************************************************************)
(* The life of one vector stimulus: a generator builds it with VecBuilder  *)
(* (stimgen.py) or it is read from a frozen .xvec; xut.validate judges it; *)
(* stimcompile turns it into the image that xut_vector_tb.sv executes, and *)
(* golden.replay predicts what the simulator then shows.  The device under *)
(* test has two data inputs, an asynchronous one, a clock and the global   *)
(* reset; every port is one bit wide, so a multi-bit set is a set of       *)
(* several ports.  x and z values are left out.  Times are whole units, of *)
(* which MinSep is the validator's 1 ns.                                   *)
(***************************************************************************)
EXTENDS Integers, Sequences, FiniteSets

CONSTANTS
    GapPs, SepPs, PrimGap,  \* gap_ps, async_sep_ps, the primitive's minimum
    Period, Settle,         \* period_ps and settle_ps
    MinSep, RocWidth,       \* MIN_SEP_PS; glbl releases GSR at RocWidth
    Waits,                  \* the arguments of wait()
    MaxCalls,               \* bound: calls of one generator
    Files                   \* the frozen stimuli

DataPorts == {"D1", "D2"}
AsyncPorts == {"CLR"}
Ports == DataPorts \cup AsyncPorts
MaxOf(S) == CHOOSE n \in S : \A m \in S : n >= m
MinOf(S) == CHOOSE n \in S : \A m \in S : n <= m

(* min_event_gap, and the gap the builder uses.                            *)
min_event_gap(sep) == MaxOf({sep, PrimGap})
Gap == MaxOf({GapPs, min_event_gap(SepPs)})

(* The constructor's refusals.                                             *)
ASSUME StimulusAssumption ==
    /\ {GapPs, SepPs, PrimGap, Period, Settle, MinSep, RocWidth, MaxCalls} \subseteq Nat
    /\ GapPs >= MinSep /\ SepPs >= MinSep /\ MinSep > 0
    /\ Settle >= RocWidth + MinSep
    /\ 3 * Gap <= Period \div 2
    /\ Waits \subseteq Nat

(* Not a refusal of the constructor: the first event, at the settle time,  *)
(* is clear of the release of GSR, as it is with the default settle_ps and *)
(* async_sep_ps.  A generator that widens async_sep_ps beyond settle_ps -  *)
(* RocWidth gets a stimulus that validate may refuse.                      *)
StartsClear == Settle - RocWidth >= SepPs

(* A file that the parser accepts, whose free clock the compiler does not  *)
(* refuse for an empty phase.                                              *)
FileEvents ==
    [t : Nat, op : {"set"}, target : Ports, value : {0, 1}, sim : BOOLEAN]
    \cup [t : Nat, op : {"edge", "clock_start", "clock_stop"}, target : {"C"}, value : {0, 1}, sim : BOOLEAN]
    \cup [t : Nat, op : {"glbl"}, target : {"GSR"}, value : {0, 1}, sim : BOOLEAN]
    \cup [t : Nat, op : {"sample"}, target : Nat, value : {0}, sim : BOOLEAN]
    \cup [t : Nat, op : {"end"}, target : {""}, value : {0}, sim : BOOLEAN]
IsFile(v) ==
    /\ v \in [clock : [mode : {"stepped", "free"}, start : Nat, high : Nat, low : Nat],
              sep : Nat, events : Seq(FileEvents)]
    /\ IF v.clock.mode = "free" THEN v.clock.high > 0 /\ v.clock.low > 0
       ELSE \A i \in DOMAIN v.events : v.events[i].op \notin {"clock_start", "clock_stop"}

ASSUME FilesAssumption == \A v \in Files : IsFile(v)

VARIABLES
    stage,    \* building, read, compiled, done; refused
    calls,    \* calls of the generator so far
    builder,  \* the builder
    vec,      \* the stimulus
    tb        \* the testbench
stimulusVars == <<stage, calls, builder, vec, tb>>

-----------------------------------------------------------------------------
(* The builder                                                             *)

Event(t, op, target, value, sim) ==
    [t |-> t, op |-> op, target |-> target, value |-> value, sim |-> sim]

(* sim: events in the open simultaneous() block, or -1 outside one; put:   *)
(* the ports set at time at; edge: the time of the last one, or -1.        *)
NewBuilder ==
    [t |-> Settle, ev |-> <<>>, vals |-> [p \in Ports |-> 0], level |-> 0,
     at |-> -1, put |-> {}, change |-> 0, edge |-> -1, sim |-> -1, n |-> 0]

LastT(x) == x.ev[Len(x.ev)].t
InSim(x) == x.sim >= 0

(* Mutant: any later time is a new event time.                             *)
NewTime_Any(x) == x

(* _new_time: a distinct event time is at least Gap after the previous.    *)
NewTime(x) ==
    IF x.ev # <<>> /\ LastT(x) < x.t /\ x.t < LastT(x) + Gap
    THEN [x EXCEPT !.t = LastT(x) + Gap] ELSE x

Emit(x, op, target, value) ==
    LET y == NewTime(x) IN
    [y EXCEPT !.ev = Append(y.ev, Event(y.t, op, target, value, InSim(y))),
              !.sim = IF InSim(y) THEN y.sim + 1 ELSE y.sim]

After(x, t) == [x EXCEPT !.t = MaxOf({x.t, t})]
AfterEdge(x, dt) == IF x.edge = -1 THEN x ELSE After(x, x.edge + dt)
Later(x, dt) == [x EXCEPT !.t = x.t + dt]

(* _put, refused for a port that is set at this time already.              *)
SetNow(x) == IF x.at = x.t THEN x.put ELSE {}
CanPut(x, p) == p \notin SetNow(NewTime(x))
Put(x, p, v) ==
    LET y == NewTime(x)
        z == Emit(y, "set", p, v)
    IN [z EXCEPT !.at = y.t, !.put = SetNow(y) \cup {p}, !.vals[p] = v, !.change = y.t]
PutAll(x, f) ==
    LET put1 == IF "D1" \in DOMAIN f THEN Put(x, "D1", f["D1"]) ELSE x
    IN IF "D2" \in DOMAIN f THEN Put(put1, "D2", f["D2"]) ELSE put1

(* Mutant: an event joins the last change.                                 *)
AloneStart_Not(x) == x

AloneStart(x) == IF InSim(x) THEN x ELSE After(x, x.change + Gap)

AloneEnd(x) == IF InSim(x) THEN x ELSE Later(x, Gap)
AwayFromEdge(x) == IF InSim(x) THEN x ELSE AfterEdge(x, SepPs)
AwayFromChange(x) == IF InSim(x) THEN x ELSE After(x, x.change + SepPs)

Building == stage = "building" /\ calls < MaxCalls
Call(x) == builder' = x /\ calls' = calls + 1 /\ UNCHANGED <<stage, vec, tb>>

(* init: values at time 0, before any timed event, each port once.         *)
AtZero(x) == [x EXCEPT !.t = 0]
Initialised(x, p) == [Put(AtZero(x), p, 1) EXCEPT !.t = x.t, !.change = 0]
InitPort(p) ==
    /\ Building /\ ~InSim(builder) /\ \A i \in 1..Len(builder.ev) : builder.ev[i].t = 0
    /\ CanPut(AtZero(builder), p) /\ Call(Initialised(builder, p))

(* A second change of a port is a later change, not a glitch.              *)
Parted(x, ports) == IF x.at = x.t /\ x.put \cap ports # {} THEN Later(x, Gap) ELSE x

(* set: data inputs together, between clock edges; only what changes.      *)
ForSet(x, ports) == IF InSim(x) THEN x ELSE Parted(AfterEdge(x, Gap), ports)
Moved(x, f) == {p \in DOMAIN f : x.vals[p] # f[p]}
CanSet(x, f) == \A p \in Moved(x, f) : CanPut(ForSet(x, DOMAIN f), p)
SetPorts(x, f) == PutAll(ForSet(x, DOMAIN f), [p \in Moved(x, f) |-> f[p]])
Set ==
    /\ Building
    /\ \E ports \in (SUBSET DataPorts) \ {{}} : \E f \in [ports -> {0, 1}] :
         CanSet(builder, f) /\ Call(SetPorts(builder, f))

(* async_: alone, away from clock edges.                                   *)
ForAsync(x) == AwayFromEdge(AloneStart(x))
Asynced(x, p, v) == AwayFromChange(AloneEnd(Put(ForAsync(x), p, v)))
Async(p, v) == Building /\ CanPut(ForAsync(builder), p) /\ Call(Asynced(builder, p, v))

Glbled(x, v) ==
    LET y == Emit(ForAsync(x), "glbl", "GSR", v)
    IN AwayFromChange(AloneEnd([y EXCEPT !.change = y.t]))
Glbl(v) == Building /\ Call(Glbled(builder, v))

(* One edge on a stepped clock; they alternate from the idle 0.            *)
Edged(x) ==
    LET y == Emit(AloneStart(x), "edge", "C", 1 - x.level)
    IN AloneEnd([y EXCEPT !.level = 1 - x.level, !.edge = y.t, !.change = y.t])
Edge == Building /\ Call(Edged(builder))

Sampled(x) ==
    LET y == Emit(After(x, x.change + Gap), "sample", x.n, 0)
    IN Later([y EXCEPT !.n = x.n + 1], Gap)
Sample == Building /\ ~InSim(builder) /\ Call(Sampled(builder))

(* cycle: a rising and a falling edge, each sampled.                       *)
Cycle ==
    /\ Building /\ ~InSim(builder) /\ builder.level = 0
    /\ LET x == After(builder, builder.change + Gap)
           y == After(Sampled(Edged(x)), x.t + Period \div 2)
       IN Call(After(Sampled(Edged(y)), x.t + Period))

Wait(dt) == Building /\ ~InSim(builder) /\ Call(Later(builder, dt))

(* simultaneous(): its events share one instant, two of them at least.     *)
Opened(x) == [AfterEdge(After(x, x.change + Gap), Gap) EXCEPT !.sim = 0]
Closed(x) == [Later(x, Gap) EXCEPT !.sim = -1]
Open == Building /\ ~InSim(builder) /\ Call(Opened(builder))
Close ==
    /\ stage = "building" /\ builder.sim >= 2
    /\ builder' = Closed(builder)
    /\ UNCHANGED <<stage, calls, vec, tb>>

Stepped == [mode |-> "stepped", start |-> 0, high |-> 0, low |-> 0]
BuiltVec(x) ==
    LET y == NewTime(After(x, x.change + Gap)) IN
    [clock |-> Stepped, sep |-> SepPs, events |-> Append(x.ev, Event(y.t, "end", "", 0, FALSE))]
Build ==
    /\ stage = "building" /\ ~InSim(builder)
    /\ vec' = BuiltVec(builder)
    /\ stage' = "read" /\ UNCHANGED <<calls, builder, tb>>

-----------------------------------------------------------------------------
(* What a file means: free clocks (formats/xvec.py)                        *)

Events(v) == {v.events[i] : i \in DOMAIN v.events}
EndOf(v) == v.events[Len(v.events)].t
At(S, t) == {e \in S : e.t = t}
Timed(v) == {e \in Events(v) : ~(e.t = 0 /\ e.op = "set")}

Starts(v) == {e.t : e \in {x \in Events(v) : x.op = "clock_start"}}
Stops(v) == {e.t : e \in {x \in Events(v) : x.op = "clock_stop"}}
Implicit(v) == v.clock.mode = "free" /\ Starts(v) = {}

(* free_runs: each from a start to the next stop, of which a later start   *)
(* before that stop is the one that counts; stop is -1 for the file's end. *)
(* The first stop of a clock that starts by itself may come before it.     *)
free_runs(v) ==
    LET starts == IF Implicit(v) THEN {v.clock.start} ELSE Starts(v)
        until(s) == {t \in Stops(v) : Implicit(v) \/ t > s}
        stop(s) == IF until(s) = {} THEN -1 ELSE MinOf(until(s))
    IN {[start |-> s, stop |-> stop(s)] :
           s \in {x \in starts : \A y \in starts : y > x => stop(x) # -1 /\ stop(x) <= y}}

(* Mutant: an edge may fall on the stop.                                   *)
Limit_AtStop(v, r) == IF r.stop = -1 THEN EndOf(v) ELSE r.stop + v.clock.low

Limit(v, r) == IF r.stop = -1 THEN EndOf(v) ELSE r.stop - 1

free_clock_edges(v) ==
    LET period == v.clock.high + v.clock.low
        edge(t, value) == Event(t, "edge", "C", value, FALSE)
    IN UNION {LET ts(d) == {t \in r.start + d .. Limit(v, r) : (t - r.start - d) % period = 0}
              IN {edge(t, 1) : t \in ts(0)} \cup {edge(t, 0) : t \in ts(v.clock.high)} :
                 r \in IF v.clock.mode = "free" THEN free_runs(v) ELSE {}}

-----------------------------------------------------------------------------
(* xut.validate                                                            *)

IsChange(e) == e.op \notin {"sample", "end", "clock_start", "clock_stop"}
IsAsync(e) == e.op = "glbl" \/ (e.op = "set" /\ e.target \in AsyncPorts)
Merged(v) == Timed(v) \cup free_clock_edges(v)

(* check_structure: nothing but initialisation before settle_ps, and what  *)
(* shares a time is marked, or disjoint sets; a mark is never alone.       *)
Structure(v) ==
    \A i \in DOMAIN v.events :
        LET e == v.events[i]
            others == {v.events[j] : j \in DOMAIN v.events \ {i}}
            same == At(others, e.t)
        IN /\ i > 1 => v.events[i - 1].t <= e.t
           /\ e.op = "end" => i = Len(v.events)
           /\ e.t >= Settle \/ (e.t = 0 /\ e.op = "set")
           /\ \A o \in same : o.sim = e.sim
           /\ same = {} => ~e.sim
           /\ IF \A o \in same \cup {e} : o.op = "set"
              THEN \A o \in same : o.target # e.target
              ELSE same # {} => e.sim

(* A clock stops strictly inside a low phase, which ends before a restart. *)
FreeStops(v) ==
    \A r \in IF v.clock.mode = "free" THEN free_runs(v) ELSE {} :
        LET period == v.clock.high + v.clock.low
            pos == (r.stop - r.start) % period
        IN r.stop # -1 =>
             /\ v.clock.high < pos
             /\ \A s \in Starts(v) : s > r.stop => s >= r.stop + (period - pos)

ClearOfRelease(v) ==
    \A e \in Merged(v) : e.t <= RocWidth - v.sep \/ e.t >= RocWidth + v.sep

HasSamples(v) == \E e \in Events(v) : e.op = "sample"

(* A sample shares no time with a change, and is apart from the last one.  *)
SamplesApart(v) ==
    \A s \in Merged(v) : s.op = "sample" =>
        \A e \in Merged(v) : IsChange(e) /\ e.t <= s.t => e.t < s.t /\ s.t - e.t >= MinSep

(* An edge, a glbl and an asynchronous change are alone or marked.         *)
Alone(v) ==
    \A e \in Merged(v) : IsChange(e) /\ (e.op = "edge" \/ IsAsync(e)) =>
        LET changes == {x \in At(Merged(v), e.t) : IsChange(x)} IN
        changes = {e} \/ \A x \in changes : x.sim

(* Edges alternate, from the idle 0; a free clock has none but its own.    *)
EdgesAlternate(v) ==
    LET edges == {i \in DOMAIN v.events : v.events[i].op = "edge"} IN
    IF v.clock.mode = "free" THEN edges = {}
    ELSE \A i \in edges :
            LET before == {j \in edges : j < i} IN
            IF before = {} THEN v.events[i].value = 1
            ELSE v.events[i].value # v.events[MaxOf(before)].value

AsyncApart(v) ==
    \A a, e \in Merged(v) : IsAsync(a) /\ ~a.sim /\ e.op = "edge" =>
        a.t <= e.t - v.sep \/ a.t >= e.t + v.sep

ValidButRelease(v) ==
    /\ Structure(v) /\ FreeStops(v) /\ HasSamples(v)
    /\ SamplesApart(v) /\ Alone(v) /\ EdgesAlternate(v) /\ AsyncApart(v)
validate(v) == ValidButRelease(v) /\ ClearOfRelease(v)

EventGaps(v) ==
    \A e, o \in Timed(v) : e.t < o.t => o.t - e.t >= min_event_gap(v.sep)

(* Order-renderable on the stepped hardware harness.                       *)
hw_renderable(v) ==
    /\ validate(v) /\ EventGaps(v) /\ v.clock.mode # "free"
    /\ \A e \in Events(v) : e.op # "glbl" /\ ~e.sim

-----------------------------------------------------------------------------
(* golden.replay: what the device sees, and what is sampled when           *)

Seen(t, what) == [t |-> t, what |-> what]

(* The value of a port before t, by the last set of it.                    *)
ValueBefore(v, p, t) ==
    LET sets == {e \in Events(v) : e.op = "set" /\ e.target = p /\ e.t < t} IN
    IF sets = {} THEN 0
    ELSE (CHOOSE e \in sets : \A o \in sets : o.t <= e.t).value

(* The sets of one time are one change, of what they change.               *)
Changed(v, t) ==
    {<<e.target, e.value>> :
        e \in {x \in At(Events(v), t) : x.op = "set" /\ x.value # ValueBefore(v, x.target, t)}}

replay(v) ==
    LET all == Events(v) \cup free_clock_edges(v) IN
    {Seen(t, Changed(v, t)) : t \in {x.t : x \in {e \in all : e.op = "set" /\ Changed(v, e.t) # {}}}}
    \cup {Seen(e.t, {<<e.target, e.value>>}) : e \in {x \in all : x.op \in {"edge", "glbl"}}}
    \cup {Seen(e.t, {<<"sample", e.target>>}) : e \in {x \in all : x.op = "sample"}}

-----------------------------------------------------------------------------
(* stimcompile and xut_vector_tb.sv                                        *)

EndMargin == MinSep

(* Mutant: only an end in the file ends the image.                         *)
WithEnd_Own(v) == v.events

(* An image ends with END, which a file need not.                          *)
WithEnd(v) ==
    IF v.events[Len(v.events)].op = "end" THEN v.events
    ELSE Append(v.events, Event(EndOf(v) + EndMargin, "end", "", 0, FALSE))

(* The words, in time order; a free clock that no clock_start starts does  *)
(* so after the events of its time.                                        *)
OwnStart(v) == Event(v.clock.start, "clock_start", "C", 0, FALSE)
Before(v) == MaxOf({0} \cup {i \in DOMAIN WithEnd(v) : WithEnd(v)[i].t <= v.clock.start})
compile_vec(v) ==
    LET words == WithEnd(v)
    IN IF Implicit(v)
       THEN SubSeq(words, 1, Before(v)) \o <<OwnStart(v)>> \o SubSeq(words, Before(v) + 1, Len(words))
       ELSE words

(* gen: the generator of the free clock waits to be enabled, or until `at`.*)
NewTb ==
    [now |-> 0, pc |-> 1, in |-> [p \in Ports |-> 0],
     en |-> FALSE, gen |-> "wait", at |-> 0, done |-> FALSE, seen |-> {}]

Compile ==
    /\ stage = "read"
    /\ stage' = IF validate(vec) THEN "compiled" ELSE "refused"
    /\ tb' = NewTb /\ UNCHANGED <<calls, builder, vec>>

Words == compile_vec(vec)
Due == tb.pc <= Len(Words) /\ ~tb.done /\ Words[tb.pc].t <= tb.now

(* The words of one time step run without a yield: the sets of a step are  *)
(* committed to in_vec at once, before another operation and before time   *)
(* advances, and the device wakes after the step.                          *)
Step(i, j) == {Words[k] : k \in i..j}

(* Mutant: each set is committed as it comes.                              *)
committed_Each(ws, x) ==
    {{<<e.target, e.value>>} : e \in {w \in ws : w.op = "set" /\ w.value # x.in[w.target]}}

committed(ws, x) ==
    LET all == {<<e.target, e.value>> : e \in {w \in ws : w.op = "set" /\ w.value # x.in[w.target]}}
    IN IF all = {} THEN {} ELSE {all}

in_vec(ws, x) ==
    [p \in Ports |-> IF \E w \in ws : w.op = "set" /\ w.target = p
                     THEN (CHOOSE w \in ws : w.op = "set" /\ w.target = p).value ELSE x.in[p]]
Replay ==
    /\ stage = "compiled" /\ Due
    /\ LET last == MaxOf({k \in tb.pc..Len(Words) : Words[k].t <= tb.now})
           ws == Step(tb.pc, last)
           out == {{<<e.target, e.value>>} : e \in {w \in ws : w.op \in {"edge", "glbl"}}}
                  \cup {{<<"sample", e.target>>} : e \in {w \in ws : w.op = "sample"}}
       IN tb' = [tb EXCEPT !.pc = last + 1,
                    !.in = in_vec(ws, tb),
                    !.en = IF \E w \in ws : w.op = "clock_start" THEN TRUE
                           ELSE IF \E w \in ws : w.op = "clock_stop" THEN FALSE ELSE tb.en,
                    !.done = \E w \in ws : w.op = "end",
                    !.seen = tb.seen \cup {Seen(tb.now, s) : s \in committed(ws, tb) \cup out}]
    /\ UNCHANGED <<stage, calls, builder, vec>>

(* The generator of a free clock: always wait, high, low.                  *)
GenDue == IF tb.gen = "wait" THEN tb.en ELSE tb.at = tb.now
Generate ==
    /\ stage = "compiled" /\ ~tb.done /\ GenDue
    /\ LET edge(v) == tb.seen \cup {Seen(tb.now, {<<"C", v>>})} IN
       tb' = IF tb.gen = "wait"
             THEN [tb EXCEPT !.gen = "high", !.at = tb.now + vec.clock.high, !.seen = edge(1)]
             ELSE IF tb.gen = "high"
             THEN [tb EXCEPT !.gen = "low", !.at = tb.now + vec.clock.low, !.seen = edge(0)]
             ELSE [tb EXCEPT !.gen = "wait"]
    /\ UNCHANGED <<stage, calls, builder, vec>>

(* Time passes to the next operation or edge when none is due.             *)
Tick ==
    /\ stage = "compiled" /\ ~tb.done /\ ~Due /\ ~GenDue /\ tb.pc <= Len(Words)
    /\ tb' = [tb EXCEPT !.now = MinOf({Words[tb.pc].t} \cup (IF tb.gen = "wait" THEN {} ELSE {tb.at}))]
    /\ UNCHANGED <<stage, calls, builder, vec>>

FinishReplay ==
    /\ stage = "compiled" /\ tb.done /\ stage' = "done"
    /\ UNCHANGED <<calls, builder, vec, tb>>

-----------------------------------------------------------------------------

NoVec == [clock |-> Stepped, sep |-> SepPs, events |-> <<>>]

StimulusInit ==
    /\ calls = 0 /\ builder = NewBuilder /\ tb = NewTb
    /\ \/ stage = "building" /\ vec = NoVec
       \/ stage = "read" /\ vec \in Files

StimulusNext ==
    \/ \E p \in Ports : InitPort(p)
    \/ Set \/ Edge \/ Sample \/ Cycle \/ Open \/ Close \/ Build
    \/ \E p \in AsyncPorts, v \in {0, 1} : Async(p, v)
    \/ \E v \in {0, 1} : Glbl(v)
    \/ \E dt \in Waits : Wait(dt)
    \/ Compile \/ Replay \/ Generate \/ Tick \/ FinishReplay

StimulusSpec == StimulusInit /\ [][StimulusNext]_stimulusVars

-----------------------------------------------------------------------------
(* Properties                                                              *)

Built == calls > 0 /\ stage # "building"

(* stimgen.py: the builder emits only stimuli that satisfy xut.validate,   *)
(* whatever calls a generator makes in whatever order (a generator that    *)
(* takes no sample is refused for that alone), but for the release of GSR, *)
(* of which they are clear if the settle time is; and ones that keep the   *)
(* order of their events on the stepped hardware harness, unless the       *)
(* generator asked for what hardware cannot do: no two event times are     *)
(* closer than the primitive's minimum gap.                                *)
ValidByConstruction ==
    Built /\ HasSamples(vec) =>
        /\ ValidButRelease(vec) /\ (StartsClear => validate(vec))
        /\ validate(vec) /\ (\A e \in Events(vec) : e.op # "glbl" /\ ~e.sim) => hw_renderable(vec)

(* Up to the last sample the simulated device sees exactly the changes the *)
(* golden replay applies, at the same times, those of one time together,   *)
(* and is sampled at the same times: the testbench's own free clock has    *)
(* exactly the edges of free_clock_edges (stimcompile.py), unless the file *)
(* starts a clock that runs, or stops one before it starts by itself.      *)
StartsAtRest(v) ==
    /\ \A x, y \in Starts(v) : x < y => \E z \in Stops(v) : x < z /\ z <= y
    /\ Implicit(v) => \A z \in Stops(v) : v.clock.start < z
Observed(S) ==
    {s \in S : \E x \in S : s.t <= x.t /\ \E l \in x.what : l[1] = "sample"}
SameReplay ==
    stage = "done" /\ StartsAtRest(vec) /\ (\A e \in Events(vec) : ~e.sim)
        => Observed(tb.seen) = Observed(replay(vec))

(* A stimulus that is not refused is replayed to its END, whether or not   *)
(* the file has one.                                                       *)
EveryReplayEnds == stage = "compiled" ~> stage = "done"
=============================================================================
