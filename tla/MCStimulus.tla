----------------------------- MODULE MCStimulus -----------------------------
(***************************************************************************)
(* Every generator of MaxCalls calls, on a primitive whose minimum event   *)
(* gap (3) exceeds the asynchronous separation (2), with a wait shorter    *)
(* than the gap; and every frozen stimulus over a free clock (high 2, low  *)
(* 3, started by the file or by itself at time 0 or later) with a set, a   *)
(* start, a stop and a restart in any order, a sample, and an end or none; *)
(* and the equivalence stimulus of every one or two triggers, with and     *)
(* without a clock.                                                        *)
(***************************************************************************)
EXTENDS EquivStimulus, TLC

MCWaits == {1}
T == Settle .. Settle + 9
Opt(S) == {<<>>} \cup {<<x>> : x \in S}
Op(op, t) == Event(t, op, "C", 0, FALSE)
Sorted(s) == SortSeq(s, LAMBDA x, y : x.t < y.t)

File(start, init, set, ops, sample, end) ==
    [clock |-> [mode |-> "free", start |-> start, high |-> 2, low |-> 3], sep |-> MinSep,
     events |-> init
        \o Sorted([i \in DOMAIN set |-> Event(set[i], "set", "D1", 1 - Len(init), FALSE)]
                  \o ops \o <<Event(sample, "sample", 0, 0, FALSE)>>)
        \o (IF end THEN <<Event(Settle + 13, "end", "", 0, FALSE)>> ELSE <<>>)]

MCFiles ==
    {File(s, i, d, [k \in DOMAIN x |-> Op("clock_stop", x[k])], q, e) :
        s \in {0, Settle, Settle + 4}, x \in {<<>>, <<Settle + 3>>, <<Settle + 9>>}, i \in {<<>>, <<Event(0, "set", "D1", 1, FALSE)>>},
        d \in Opt(T), q \in Settle + 5 .. Settle + 12, e \in BOOLEAN}
    \cup
    {File(0, <<>>, d, <<Op("clock_start", u)>> \o [k \in DOMAIN x |-> Op("clock_stop", x[k])]
              \o [k \in DOMAIN r |-> Op("clock_start", r[k])], q, TRUE) :
        d \in {<<>>, <<Settle + 6>>}, u \in Settle .. Settle + 1, x \in Opt(T), r \in Opt(T),
        q \in Settle + 5 .. Settle + 12}

MCTrigs ==
    {<<>>} \cup {<<t>> : t \in TriggerNames}
    \cup {x \in TriggerNames \X TriggerNames : x[1] # x[2]}
MCSubjects ==
    {s \in [trigs : MCTrigs, clocked : BOOLEAN, zcmp : BOOLEAN] :
        s.clocked \/ \A i \in DOMAIN s.trigs : s.trigs[i] # "C"}
MCMoves == {{}, {"D1"}, DataPorts}
=============================================================================
