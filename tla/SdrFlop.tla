------------------------------ MODULE SdrFlop ------------------------------
(***************************************************************************)
(* The golden model of the 7-series SDR flip-flops FDRE, FDSE, FDCE and    *)
(* FDPE (models/xut_models/7series/_common/flops.py), driven by the replay *)
(* of a stimulus (tools/xut/golden.py) that validate.py lets through: an   *)
(* edge, a glbl event and a change of an asynchronous control are alone at *)
(* their time; data-class inputs may change together; only `set`s of time  *)
(* 0 precede glbl's release of GSR at ROC_WIDTH.                           *)
(***************************************************************************)
EXTENDS Naturals

VARIABLES
    attrs,   \* of the primitive (async, value) and of its configuration
    model,   \* the SdrFlop object
    clk,     \* the level of C, which replay's edges alternate
    time     \* "zero", "settling" or "running": GSR has been released

vars == <<attrs, model, clk, time>>

Bit == {0, 1}
Ports == {"CE", "D", "CTRL"}
Roles == {"capture", "ce_hold", "control", "gsr_init", "inv_c", "inv_ctrl", "inv_d"}
Documented == {"PAGE", "ATTR_PAGE"}
Inferred == {"GSR_EDGE", "GSR_VS_CTRL"}

Out(bit, prov) == [bits |-> bit, prov |-> prov]
Doc(bit, attr) == Out(bit, IF attr THEN "ATTR_PAGE" ELSE "PAGE")

Attributes ==
    [async : BOOLEAN, value : Bit, init : Bit, inv_c : Bit, inv_ctrl : Bit, inv_d : Bit]
Pins == [Ports -> Bit]
Models ==
    [pin : Pins, gsr : Bit, q : [bits : Bit, prov : Documented \cup Inferred],
     claims : SUBSET Roles]

When(p, role) == IF p THEN {role} ELSE {}

(* Q driven to an output, with the claims the event hits.                  *)
Drive(m, out, roles) == [pin |-> m.pin, gsr |-> m.gsr, q |-> out, claims |-> m.claims \cup roles]

(* The operations of the model take it to its next state.                  *)
CtrlActive(m) == m.pin["CTRL"] # attrs.inv_ctrl
InvC == attrs.inv_c = 1
InvD == attrs.inv_d = 1
InvCtrl == attrs.inv_ctrl = 1

(* Mutant: GSR wins over an asynchronous control.                          *)
UnderGsr_GsrWins(m) == Drive(m, Doc(attrs.init, FALSE), {"gsr_init"})

UnderGsr(m) ==
    IF attrs.async /\ CtrlActive(m) /\ attrs.init # attrs.value
    THEN Drive(m, Out(attrs.value, "GSR_VS_CTRL"), {})
    ELSE Drive(m, Doc(attrs.init, FALSE), {"gsr_init"})

(* _force; an inverted clock counts when the control acts at its edge.     *)
ForceCtrl(m, inverted) ==
    Drive(m, Doc(attrs.value, inverted \/ InvCtrl),
          {"control"} \cup When(inverted, "inv_c") \cup When(InvCtrl, "inv_ctrl"))

PowerOn ==
    [pin |-> [p \in Ports |-> 0], gsr |-> 1, q |-> Doc(attrs.init, FALSE), claims |-> {"gsr_init"}]

Glbl(m, value) ==
    LET n == [m EXCEPT !.gsr = value]
    IN  IF value = 1 THEN UnderGsr(n)
        ELSE IF attrs.async /\ CtrlActive(n) THEN ForceCtrl(n, FALSE)
        ELSE n

(* Mutant: the control is evaluated at every input, synchronous or not.    *)
SetInput_EveryPort(m, port, value) ==
    LET n == [m EXCEPT !.pin[port] = value]
    IN  IF n.gsr = 1 THEN UnderGsr(n)
        ELSE IF CtrlActive(n) THEN ForceCtrl(n, FALSE)
        ELSE n

SetInput(m, port, value) ==
    LET n == [m EXCEPT !.pin[port] = value]
    IN  IF port # "CTRL" \/ ~ attrs.async THEN n
        ELSE IF n.gsr = 1 THEN UnderGsr(n)
        ELSE IF CtrlActive(n) THEN ForceCtrl(n, FALSE)
        ELSE n

EdgeUnderGsr(m) ==
    IF ~ (attrs.async /\ CtrlActive(m)) /\ (m.pin["CE"] = 1 \/ CtrlActive(m))
    THEN Drive(m, Out(m.q.bits, "GSR_EDGE"), {})
    ELSE m

Capture(m) ==
    Drive(m, Doc(IF InvD THEN 1 - m.pin["D"] ELSE m.pin["D"], InvC \/ InvD),
          {"capture"} \cup When(InvC, "inv_c") \cup When(InvD, "inv_d"))

ClockEdge(m, rising) ==
    IF rising = InvC THEN m
    ELSE IF m.gsr = 1 THEN EdgeUnderGsr(m)
    ELSE IF CtrlActive(m)
         THEN IF attrs.async THEN m
              ELSE ForceCtrl(m, InvC)
    ELSE IF m.pin["CE"] = 0 THEN Drive(m, m.q, {"ce_hold"})
    ELSE Capture(m)

-----------------------------------------------------------------------------
(* replay: one set_input per port that changed, in the order of the map.   *)

Changed(m, port, pins) ==
    IF pins[port] = m.pin[port] THEN m ELSE SetInput(m, port, pins[port])

SetInputs(m, pins) == Changed(Changed(Changed(m, "CE", pins), "CTRL", pins), "D", pins)

Init ==
    /\ attrs \in Attributes
    /\ model = SetInput(SetInput(SetInput(PowerOn, "CE", 0), "CTRL", 0), "D", 0)
    /\ clk = 0
    /\ time = "zero"

(* The `set`s of time 0: any inputs, together.                             *)
Initialise ==
    /\ time = "zero"
    /\ \E pins \in Pins : model' = SetInputs(model, pins)
    /\ time' = "settling"
    /\ UNCHANGED <<attrs, clk>>

(* The first event at or after ROC_WIDTH finds GSR released; nothing but   *)
(* the `set`s of time 0 comes before the release.                          *)
Release ==
    /\ time = "settling"
    /\ model' = Glbl(model, 0)
    /\ time' = "running"
    /\ UNCHANGED <<attrs, clk>>

(* `set`s at one time: an asynchronous control on its own, or data-class   *)
(* inputs, which a synchronous control is.                                 *)
Set ==
    /\ time = "running"
    /\ \E pins \in Pins :
          /\ attrs.async /\ pins["CTRL"] # model.pin["CTRL"]
                => \A p \in {"CE", "D"} : pins[p] = model.pin[p]
          /\ model' = SetInputs(model, pins)
    /\ UNCHANGED <<attrs, clk, time>>

(* edge r and edge f alternate from the idle level 0.                      *)
Edge ==
    /\ time = "running"
    /\ clk' = 1 - clk
    /\ model' = ClockEdge(model, clk = 0)
    /\ UNCHANGED <<attrs, time>>

(* glbl GSR 0 or 1. *)
GlblGsr ==
    /\ time = "running"
    /\ \E value \in Bit : model' = Glbl(model, value)
    /\ UNCHANGED <<attrs, clk, time>>

Next == Initialise \/ Release \/ Set \/ Edge \/ GlblGsr

Spec == Init /\ [][Next]_vars

-----------------------------------------------------------------------------
TypeOK ==
    /\ attrs \in Attributes
    /\ model \in Models
    /\ clk \in Bit
    /\ time \in {"zero", "settling", "running"}

(* The model is UG953's flip-flop: Q has only values that a documented     *)
(* rule dictates, and cites a page only where the rules leave no doubt.    *)
UG953 == INSTANCE UG953Flop
            WITH pin <- model.pin, gsr <- model.gsr, q <- model.q.bits,
                 known <- (model.q.prov \in Documented)

ImplementsUG953 == UG953!Spec

(* "An output decided by an inferred: rule credits no claim at all" (S44): *)
(* what an event newly credits, it credits for a documented output; a CE   *)
(* hold, which decides nothing new, keeps the output's own provenance.     *)
ClaimsAreDocumented ==
    [][model'.claims \ model.claims \subseteq {"ce_hold"} \/ model'.q.prov \in Documented]_vars

(* "Ports changed at one time step arrive together (one call each, map     *)
(* order) ... so this must not depend on order".                           *)
OrderIsIrrelevant ==
    \A p, r \in Ports : \A u, v \in Bit :
        p # r => SetInput(SetInput(model, p, u), r, v) = SetInput(SetInput(model, r, v), p, u)

=============================================================================
