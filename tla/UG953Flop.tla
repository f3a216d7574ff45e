----------------------------- MODULE UG953Flop -----------------------------
(***************************************************************************)
(* What UG953 promises of a 7-series SDR flip-flop, as the claims C1-C7 of *)
(* catalog/7series/FD{CE,PE,RE,SE}.overrides.yaml state it, without any    *)
(* order of evaluation: at every event, the rules in force each dictate a  *)
(* value of Q.  Q takes one of them, and is documented only when they      *)
(* agree; a doubt arises only while GSR, which UG953 names no precedence   *)
(* for, is asserted.                                                       *)
(***************************************************************************)
EXTENDS Naturals

VARIABLES
    attrs,   \* the primitive and its attributes
    pin,     \* CE, D and the control R, S, CLR or PRE
    gsr,
    clk,
    q,       \* the value of Q
    known    \* the documentation determines it

vars == <<attrs, pin, gsr, clk, q, known>>

Bit == {0, 1}

(* C6: IS_<ctrl>_INVERTED=1 makes the control active-Low. *)
Asserted(p) == p["CTRL"] # attrs.inv_ctrl

(* C7: IS_D_INVERTED=1 inverts the D input. *)
Data(p) == IF attrs.inv_d = 0 THEN p["D"] ELSE 1 - p["D"]

(* C5: IS_C_INVERTED=1 makes the register negative-edge triggered. *)
ActiveEdge == clk' # clk /\ clk' # attrs.inv_c

(* C3: an active asynchronous control overrides all other inputs at once.  *)
Clear(p) == attrs.async /\ Asserted(p)

(* C4: while GSR is active Q takes the INIT value. *)
LevelRules(p, g) ==
    (IF Clear(p) THEN {attrs.value} ELSE {}) \cup (IF g = 1 THEN {attrs.init} ELSE {})

(* C1, C2, C3: at an active clock edge; with CE Low it is ignored.         *)
EdgeRules(p) ==
    IF ~ ActiveEdge \/ Clear(p) THEN {}
    ELSE IF Asserted(p) THEN {attrs.value}
    ELSE IF p["CE"] = 1 THEN {Data(p)} ELSE {}

Dictated == LevelRules(pin', gsr') \cup EdgeRules(pin')

Attributes ==
    [async : BOOLEAN, value : Bit, init : Bit, inv_c : Bit, inv_ctrl : Bit, inv_d : Bit]
Pins == [{"CE", "D", "CTRL"} -> Bit]

(* The moment after power-up: GSR is asserted, every input is Low.         *)
Init ==
    /\ attrs \in Attributes
    /\ pin = [p \in {"CE", "D", "CTRL"} |-> 0]
    /\ gsr = 1 /\ clk = 0
    /\ q \in LevelRules(pin, gsr)
    /\ known = (LevelRules(pin, gsr) = {q})

Event ==
    /\ pin' \in Pins /\ gsr' \in Bit /\ clk' \in Bit
    /\ attrs' = attrs
    /\ IF Dictated = {}
       THEN UNCHANGED <<q, known>>
       ELSE /\ q' \in Dictated
            /\ known' \in BOOLEAN
            /\ known' => Dictated = {q'}
            /\ ~ known' => gsr' = 1

Spec == Init /\ [][Event]_vars

=============================================================================
