---------------------------- MODULE EquivStimulus ----------------------------
(***************************************************************************)
(* The equivalence stimulus of verilatorize (tools/xut/verilatorize/       *)
(* equiv.py): the phases of VecBuilder calls that show an original model   *)
(* and its transformed copy every trigger of the transform, alone, in      *)
(* pairs, together with a clock edge and beside the asynchronous inputs.   *)
(*                                                                         *)
(* The device is that of Stimulus; its trigger "D" is the port of its two  *)
(* data bits, so that a partial value exists.  A phase is one action: it   *)
(* gives the builder its calls one after the other, and fails at the first *)
(* that the generator or the builder refuses.                              *)
(***************************************************************************)
EXTENDS Stimulus, SequencesExt

CONSTANTS
    Subjects,   \* bound: triggers in the analysis's order, clocked, zcmp
    Moves,      \* bound: what the random values do to the bits of an input
    Rounds      \* bound: pulses of a trigger, rounds of _inputs (3 and 8)

TriggerNames == {"GSR", "C", "CLR", "D"}

ASSUME EquivStimulusAssumption ==
    /\ \A s \in Subjects :
          /\ s.trigs \in Seq(TriggerNames) /\ s.clocked \in BOOLEAN /\ s.zcmp \in BOOLEAN
          /\ \A i, j \in DOMAIN s.trigs : s.trigs[i] = s.trigs[j] => i = j
          /\ ~s.clocked => \A i \in DOMAIN s.trigs : s.trigs[i] # "C"
    /\ Moves \subseteq SUBSET DataPorts
    /\ Rounds \in Nat \ {0}

VARIABLES
    phase,      \* the next phase; 0: no equivalence stimulus is made
    subject,    \* the analysis it is made for
    move,       \* the bits that a random value inverts
    on          \* the triggers that are driven

evars == <<phase, subject, move, on>>

Trigs == subject.trigs
TrigPairs == {x \in (DOMAIN Trigs) \X (DOMAIN Trigs) : x[1] < x[2]}
IsTrig(n) == \E i \in DOMAIN Trigs : Trigs[i] = n

(* The inputs that no trigger is: data, async.                             *)
data == IF IsTrig("D") THEN {} ELSE DataPorts
asyncs == IF IsTrig("CLR") THEN <<>> ELSE <<"CLR">>
clocks == IF subject.clocked THEN <<"C">> ELSE <<>>

-----------------------------------------------------------------------------
(* One call: x is the builder, with the triggers driven and whether all    *)
(* went well.                                                              *)

Cmd(op, name, v) == [op |-> op, name |-> name, v |-> v]
Fails(s) == [x |-> s.x, on |-> s.on, ok |-> FALSE]
Goes(s, x) == [x |-> x, on |-> s.on, ok |-> s.ok]

SetTo(s, f) == IF CanSet(s.x, f) THEN Goes(s, SetPorts(s.x, f)) ELSE Fails(s)
EdgeTo(s, v) == IF s.x.level # v THEN Goes(s, Edged(s.x)) ELSE Fails(s)
AsyncTo(s, v) == IF CanPut(ForAsync(s.x), "CLR") THEN Goes(s, Asynced(s.x, "CLR", v)) ELSE Fails(s)
Sampling(s) == IF InSim(s.x) THEN Fails(s) ELSE Goes(s, Sampled(s.x))

(* Mutant: a clock that a trigger holds high is cycled all the same.       *)
Held_Forgotten(s) == FALSE

(* A clock that a trigger holds high is not cycled.                        *)
Held(s) == "C" \in s.on

(* drive: the trigger's level changes, by the call its kind asks for.      *)
Drive(s, t, v) ==
    LET after ==
            CASE t = "GSR" -> Goes(s, Glbled(s.x, v))
              [] t = "C" -> EdgeTo(s, v)
              [] t = "CLR" -> AsyncTo(s, v)
              [] t = "D" -> SetTo(s, [p \in DataPorts |-> v])
    IN IF (t \in s.on) = (v = 1) THEN Fails(s)
       ELSE [x |-> after.x, ok |-> after.ok,
             on |-> IF v = 1 THEN s.on \cup {t} ELSE s.on \ {t}]

randomize(s) ==
    IF data = {} THEN s
    ELSE SetTo(s, [p \in data |-> IF p \in move THEN 1 - s.x.vals[p] ELSE s.x.vals[p]])

(* cycle: both edges half a period apart, and a sample after each.         *)
CycleClock(s) ==
    LET up == Sampling(EdgeTo(s, 1))
        down == Sampling(EdgeTo(Goes(up, After(up.x, s.x.t + Period \div 2)), 0))
    IN Goes(down, After(down.x, s.x.t + Period))

Activity(s) ==
    IF clocks = <<>> \/ Held(s) THEN Sampling(randomize(s)) ELSE CycleClock(randomize(s))

(* _inputs: the asynchronous inputs alone, then the rest.                  *)
Toggle(s) ==
    IF asyncs = <<>> \/ move = {} THEN s ELSE Sampling(AsyncTo(s, 1 - s.x.vals["CLR"]))

Do(s, c) ==
    IF ~s.ok THEN s
    ELSE CASE c.op = "drive" -> Drive(s, c.name, c.v)
           [] c.op = "sample" -> Sampling(s)
           [] c.op = "activity" -> Activity(s)
           [] c.op = "edge" -> EdgeTo(s, c.v)
           [] c.op = "pulse" -> AsyncTo(s, c.v)
           [] c.op = "set" -> SetTo(s, c.v)
           [] c.op = "toggle" -> Toggle(s)
           [] c.op = "open" -> IF InSim(s.x) THEN Fails(s) ELSE Goes(s, Opened(s.x))
           [] c.op = "close" -> IF s.x.sim >= 2 THEN Goes(s, Closed(s.x)) ELSE Fails(s)

-----------------------------------------------------------------------------
(* The phases                                                              *)

Up(t) == Cmd("drive", t, 1)
Down(t) == Cmd("drive", t, 0)
Look == Cmd("sample", "", 0)
Act == Cmd("activity", "", 0)
Rise == Cmd("edge", "C", 1)
Fall == Cmd("edge", "C", 0)
Together(cmds) == <<Cmd("open", "", 0)>> \o cmds \o <<Cmd("close", "", 0)>>

(* The commands of each element of a sequence, one after the other.        *)
Each(seq, cmds(_)) == FlattenSeq([i \in DOMAIN seq |-> cmds(seq[i])])

_independent ==
    LET pulse(t) == <<Act, Act, Up(t), Look, Act, Act, Down(t), Look, Act>>
    IN Each(Trigs, LAMBDA t : FlattenSeq([k \in 1 .. Rounds |-> pulse(t)]))

(* Mutant: the walk of ones alone.                                         *)
_walk_Ones ==
    LET show(f) == <<Cmd("set", "D", f), Look, Act,
                     Cmd("set", "D", [p \in DataPorts |-> 0]), Look, Act>>
        bit(q) == show([p \in DataPorts |-> IF p = q THEN 1 ELSE 0])
    IN IF IsTrig("D") THEN bit("D1") ELSE <<>>

(* Each bit of a data trigger alone, and all but it.                       *)
_walk ==
    LET show(f) == <<Cmd("set", "D", f), Look, Act,
                     Cmd("set", "D", [p \in DataPorts |-> 0]), Look, Act>>
        bit(q) == show([p \in DataPorts |-> IF p = q THEN 1 ELSE 0])
                  \o show([p \in DataPorts |-> IF p = q THEN 0 ELSE 1])
    IN IF IsTrig("D") THEN bit("D1") \o bit("D2") ELSE <<>>

_coincident ==
    LET with(t) == Together(<<Rise, Up(t)>>) \o <<Look, Fall, Look, Act>>
                   \o Together(<<Rise, Down(t)>>) \o <<Look, Fall, Look>>
    IN Each(clocks, LAMBDA c : Each(Trigs, LAMBDA t : IF t = "C" THEN <<>> ELSE with(t)))

_steps(cmds) == Each(cmds, LAMBDA c : <<c, Look, Act>>)

_pairs ==
    LET of(a, d) ==
            _steps(<<Up(a), Up(d), Down(a), Down(d)>>)
            \o _steps(<<Up(a), Up(d), Down(d), Down(a)>>)
            \o Together(<<Up(a), Up(d)>>) \o <<Look, Act>>
            \o Together(<<Down(a), Down(d)>>) \o <<Look, Act>>
    IN Each(SetToSeq(TrigPairs), LAMBDA x : of(Trigs[x[1]], Trigs[x[2]]))

_with_async ==
    LET with(t) == <<Cmd("pulse", "CLR", 1), Look, Up(t), Look,
                     Cmd("pulse", "CLR", 0), Look, Down(t), Look, Act>>
    IN Each(asyncs, LAMBDA q : Each(Trigs, with))

_inputs ==
    IF subject.zcmp THEN FlattenSeq([k \in 1 .. Rounds |-> <<Cmd("toggle", "", 0), Act>>]) ELSE <<>>

Phases == << <<Act, Act>>, _independent, _walk, _coincident, _pairs, _with_async, _inputs>>

Phase ==
    /\ stage = "equiv" /\ phase \in DOMAIN Phases
    /\ LET s == FoldLeft(Do, [x |-> builder, on |-> on, ok |-> TRUE], Phases[phase]) IN
       /\ builder' = s.x /\ on' = s.on
       /\ stage' = IF s.ok THEN "equiv" ELSE "raised"
    /\ phase' = phase + 1
    /\ UNCHANGED <<subject, move, calls, vec, tb>>

(* A stimulus that validate refuses is a bug of the generator.             *)
EquivBuild ==
    /\ stage = "equiv" /\ phase = Len(Phases) + 1
    /\ vec' = BuiltVec(builder)
    /\ stage' = IF validate(BuiltVec(builder)) THEN "equiv_built" ELSE "raised"
    /\ UNCHANGED <<evars, calls, builder, tb>>

-----------------------------------------------------------------------------
(* equiv.py's builder has the default settle_ps and async_sep_ps.          *)
EInit ==
    \/ /\ StimulusInit
       /\ phase = 0 /\ on = {} /\ move = {}
       /\ subject = [trigs |-> <<>>, clocked |-> FALSE, zcmp |-> FALSE]
    \/ /\ StartsClear
       /\ stage = "equiv" /\ calls = 0 /\ builder = NewBuilder /\ tb = NewTb /\ vec = NoVec
       /\ phase = 1 /\ on = {} /\ subject \in Subjects /\ move \in Moves

ENext ==
    \/ StimulusNext /\ UNCHANGED evars
    \/ Phase \/ EquivBuild

ESafety == EInit /\ [][ENext]_<<stimulusVars, evars>>
ESpec == ESafety /\ WF_stimulusVars(Compile \/ Replay \/ Generate \/ Tick \/ FinishReplay)

-----------------------------------------------------------------------------
(* Properties                                                              *)

(* "A generator bug, never a stimulus to run" does not happen: whatever    *)
(* the triggers of a model are, no phase drives a trigger to the level it  *)
(* has, cycles a clock that is held, or makes a call the builder refuses,  *)
(* and what comes out satisfies validate.                                  *)
NoGeneratorBug == stage # "raised"

Level(t, time) ==
    LET last(target, op) ==
            LET es == {e \in Events(vec) : e.op = op /\ e.target = target /\ e.t <= time}
            IN IF es = {} THEN 0 ELSE (CHOOSE e \in es : \A o \in es : o.t <= e.t).value
    IN CASE t = "GSR" -> last("GSR", "glbl")
         [] t = "C" -> last("C", "edge")
         [] t = "CLR" -> last("CLR", "set")
         [] t = "D" -> 2 * last("D2", "set") + last("D1", "set")

(* What the comparison may rely on: samples show every two triggers in     *)
(* each of their four combinations, each trigger so with an asynchronous   *)
(* input, every value of a data trigger, and each trigger's change both    *)
(* ways at the very time of a rising clock edge.                           *)
EveryTriggerIsShown ==
    stage = "equiv_built" =>
        LET times == {e.t : e \in {x \in Events(vec) : x.op = "sample"}}
            names == {Trigs[i] : i \in DOMAIN Trigs}
            beside == names \cup {asyncs[i] : i \in DOMAIN asyncs}
            shown == [time \in times |-> [t \in TriggerNames |-> Level(t, time)]]
            full(t, v) == IF t = "D" THEN 3 * v ELSE v
            rises == {e.t : e \in {x \in Events(vec) : x.op = "edge" /\ x.value = 1}}
            before(t, time) == Level(t, time - 1)
        IN /\ \A t \in names : \A u \in beside \ {t}, v, w \in {0, 1} :
                 \E time \in times : shown[time][t] = full(t, v) /\ shown[time][u] = full(u, w)
           /\ "D" \in names => \A v \in 0 .. 3 : \E time \in times : shown[time]["D"] = v
           /\ subject.clocked => \A t \in names \ {"C"}, v \in {0, 1} :
                 \E r \in rises : Level(t, r) = full(t, v) /\ before(t, r) = full(t, 1 - v)
=============================================================================
