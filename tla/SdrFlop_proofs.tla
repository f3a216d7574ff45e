--------------------------- MODULE SdrFlop_proofs ---------------------------
(***************************************************************************)
(* For every primitive, configuration and stimulus of any length: the      *)
(* golden flip-flop implements UG953Flop, credits no claim for an inferred *)
(* output, and does not depend on the order of co-timed inputs.            *)
(***************************************************************************)
EXTENDS SdrFlop, TLAPS

Clear(m) == attrs.async /\ CtrlActive(m)

(* What GSR and an asynchronous control hold Q at.                         *)
HeldBy(m) ==
    /\ m.gsr = 1 /\ ~ Clear(m) => m.q.bits = attrs.init
    /\ m.gsr = 0 /\ Clear(m) => m.q.bits = attrs.value /\ m.q.prov \in Documented
    /\ m.gsr = 1 /\ Clear(m)
          => m.q.bits = attrs.value /\ (m.q.prov \in Documented <=> attrs.init = attrs.value)

(* What an operation may leave: no claim for an inferred output.           *)
Credits(m, n) == n.claims \ m.claims \subseteq {"ce_hold"} \/ n.q.prov \in Documented

LEMMA UnderGsrIs ==
    ASSUME attrs \in Attributes, NEW m \in Models
    PROVE  /\ UnderGsr(m) \in Models
           /\ UnderGsr(m).pin = m.pin
           /\ UnderGsr(m).gsr = m.gsr
           /\ UnderGsr(m).q.bits = IF Clear(m) THEN attrs.value ELSE attrs.init
           /\ UnderGsr(m).q.prov \in Documented
                 <=> ~ (Clear(m) /\ attrs.init # attrs.value)
           /\ Credits(m, UnderGsr(m))
BY DEF Attributes, Models, UnderGsr, Drive, Clear, Credits, Out, Doc, Documented, Inferred, Roles, Bit

LEMMA ForceCtrlIs ==
    ASSUME attrs \in Attributes, NEW m \in Models, NEW inverted \in BOOLEAN
    PROVE  /\ ForceCtrl(m, inverted) \in Models
           /\ ForceCtrl(m, inverted).pin = m.pin
           /\ ForceCtrl(m, inverted).gsr = m.gsr
           /\ ForceCtrl(m, inverted).q.bits = attrs.value
           /\ ForceCtrl(m, inverted).q.prov \in Documented
           /\ Credits(m, ForceCtrl(m, inverted))
BY DEF Attributes, Models, ForceCtrl, Drive, InvCtrl, Credits, Out, Doc, Documented, Inferred, Roles, Bit, When

LEMMA CaptureIs ==
    ASSUME attrs \in Attributes, NEW m \in Models
    PROVE  /\ Capture(m) \in Models
           /\ Capture(m).pin = m.pin
           /\ Capture(m).gsr = m.gsr
           /\ Capture(m).q.bits = IF attrs.inv_d = 0 THEN m.pin["D"] ELSE 1 - m.pin["D"]
           /\ Capture(m).q.prov \in Documented
           /\ Credits(m, Capture(m))
BY DEF Attributes, Models, Capture, Drive, Credits, Out, Doc, Documented, Inferred, Roles, Bit, When,
       InvC, InvD, Pins, Ports

(* A data-class input reaches nothing but its pin.                         *)
LEMMA SetDataIs ==
    ASSUME attrs \in Attributes, NEW m \in Models, NEW port \in Ports, NEW v \in Bit,
           port # "CTRL" \/ ~ attrs.async
    PROVE  /\ SetInput(m, port, v) \in Models
           /\ SetInput(m, port, v).pin = [m.pin EXCEPT ![port] = v]
           /\ SetInput(m, port, v).gsr = m.gsr
           /\ SetInput(m, port, v).q = m.q
           /\ SetInput(m, port, v).claims = m.claims
BY DEF SetInput, Models, Pins

(* An asynchronous control settles Q at once, whatever Q was before.       *)
LEMMA SetControlIs ==
    ASSUME attrs \in Attributes, NEW m \in Models, NEW v \in Bit, attrs.async
    PROVE  /\ SetInput(m, "CTRL", v) \in Models
           /\ SetInput(m, "CTRL", v).pin = [m.pin EXCEPT !["CTRL"] = v]
           /\ SetInput(m, "CTRL", v).gsr = m.gsr
           /\ HeldBy(SetInput(m, "CTRL", v))
           /\ m.gsr = 0 /\ ~ Clear(SetInput(m, "CTRL", v)) => SetInput(m, "CTRL", v).q = m.q
           /\ Credits(m, SetInput(m, "CTRL", v))
<1> DEFINE n == [m EXCEPT !.pin["CTRL"] = v]
<1>1. /\ n \in Models /\ n.pin = [m.pin EXCEPT !["CTRL"] = v]
      /\ n.gsr = m.gsr /\ n.q = m.q /\ n.claims = m.claims /\ m.gsr \in Bit
  BY DEF Models, Pins, Ports
<1>2. SetInput(m, "CTRL", v)
        = IF n.gsr = 1 THEN UnderGsr(n)
          ELSE IF CtrlActive(n) THEN ForceCtrl(n, FALSE) ELSE n
  BY DEF SetInput
<1> HIDE DEF n
<1>3. CASE n.gsr = 1
  <2>1. SetInput(m, "CTRL", v) = UnderGsr(n)
    BY <1>2, <1>3
  <2>2. HeldBy(UnderGsr(n))
    BY <1>1, <1>3, <2>1, UnderGsrIs DEF HeldBy, Clear, CtrlActive, Bit
  <2>3. Credits(m, UnderGsr(n))
    BY <1>1, <1>3, UnderGsrIs DEF Credits
  <2>4. UnderGsr(n) \in Models /\ UnderGsr(n).pin = n.pin /\ UnderGsr(n).gsr = n.gsr
    BY <1>1, <1>3, UnderGsrIs
  <2> QED
    BY <1>1, <1>3, <2>1, <2>2, <2>3, <2>4
<1>4. CASE n.gsr # 1 /\ CtrlActive(n)
  <2>1. SetInput(m, "CTRL", v) = ForceCtrl(n, FALSE)
    BY <1>2, <1>4
  <2>2. HeldBy(ForceCtrl(n, FALSE))
    BY <1>1, <1>4, <2>1, ForceCtrlIs DEF HeldBy, Clear, CtrlActive, Bit
  <2>3. Credits(m, ForceCtrl(n, FALSE))
    BY <1>1, <1>4, ForceCtrlIs DEF Credits
  <2>4. ForceCtrl(n, FALSE) \in Models /\ ForceCtrl(n, FALSE).pin = n.pin /\ ForceCtrl(n, FALSE).gsr = n.gsr
    BY <1>1, <1>4, ForceCtrlIs
  <2>5. Clear(ForceCtrl(n, FALSE))
    BY <1>1, <1>4, <2>4 DEF Clear, CtrlActive
  <2> QED
    BY <1>1, <2>1, <2>2, <2>3, <2>4, <2>5
<1>5. CASE n.gsr # 1 /\ ~ CtrlActive(n)
  <2>1. SetInput(m, "CTRL", v) = n
    BY <1>2, <1>5
  <2> QED
    BY <1>1, <1>5, <2>1 DEF HeldBy, Clear, CtrlActive, Credits, Bit
<1> QED
  BY <1>3, <1>4, <1>5

LEMMA GlblIs ==
    ASSUME attrs \in Attributes, NEW m \in Models, NEW v \in Bit
    PROVE  /\ Glbl(m, v) \in Models
           /\ Glbl(m, v).pin = m.pin
           /\ Glbl(m, v).gsr = v
           /\ HeldBy(Glbl(m, v))
           /\ v = 0 /\ ~ Clear(m) => Glbl(m, v).q = m.q
           /\ Credits(m, Glbl(m, v))
<1> DEFINE n == [m EXCEPT !.gsr = v]
<1>1. /\ n \in Models /\ n.pin = m.pin
      /\ n.gsr = v /\ n.q = m.q /\ n.claims = m.claims
  BY DEF Models
<1>2. Glbl(m, v) = IF v = 1 THEN UnderGsr(n)
                   ELSE IF attrs.async /\ CtrlActive(n) THEN ForceCtrl(n, FALSE) ELSE n
  BY DEF Glbl
<1> HIDE DEF n
<1>3. CASE v = 1
  <2>1. Glbl(m, v) = UnderGsr(n) /\ n.gsr = 1
    BY <1>1, <1>2, <1>3
  <2>2. HeldBy(UnderGsr(n))
    BY <1>1, <2>1, UnderGsrIs DEF HeldBy, Clear, CtrlActive
  <2>3. Credits(m, UnderGsr(n))
    BY <1>1, UnderGsrIs DEF Credits
  <2> QED
    BY <1>1, <1>3, <2>1, <2>2, <2>3, UnderGsrIs
<1>4. CASE v # 1 /\ attrs.async /\ CtrlActive(n)
  <2>1. Glbl(m, v) = ForceCtrl(n, FALSE) /\ v = 0
    BY <1>2, <1>4 DEF Bit
  <2>2. HeldBy(ForceCtrl(n, FALSE))
    BY <1>1, <1>4, <2>1, ForceCtrlIs DEF HeldBy, Clear, CtrlActive, Bit
  <2>3. Credits(m, ForceCtrl(n, FALSE))
    BY <1>1, <1>4, ForceCtrlIs DEF Credits
  <2>4. ForceCtrl(n, FALSE) \in Models /\ ForceCtrl(n, FALSE).pin = n.pin /\ ForceCtrl(n, FALSE).gsr = n.gsr
    BY <1>1, <1>4, ForceCtrlIs
  <2>5. Clear(m)
    BY <1>1, <1>4 DEF Clear, CtrlActive
  <2> QED
    BY <1>1, <2>1, <2>2, <2>3, <2>4, <2>5
<1>5. CASE v # 1 /\ ~ (attrs.async /\ CtrlActive(n))
  <2>1. Glbl(m, v) = n
    BY <1>2, <1>5
  <2> QED
    BY <1>1, <1>5, <2>1 DEF HeldBy, Clear, CtrlActive, Credits, Bit
<1> QED
  BY <1>3, <1>4, <1>5

LEMMA ChangedIs ==
    ASSUME attrs \in Attributes, NEW m \in Models, NEW pins \in Pins, NEW port \in Ports,
           port # "CTRL" \/ ~ attrs.async
    PROVE  /\ Changed(m, port, pins) \in Models
           /\ Changed(m, port, pins).pin = [m.pin EXCEPT ![port] = pins[port]]
           /\ Changed(m, port, pins).gsr = m.gsr
           /\ Changed(m, port, pins).q = m.q
           /\ Changed(m, port, pins).claims = m.claims
<1>1. pins[port] \in Bit /\ m.pin \in Pins
  BY DEF Pins, Models
<1>2. CASE pins[port] = m.pin[port]
  <2>1. [m.pin EXCEPT ![port] = pins[port]] = m.pin
    BY <1>1, <1>2 DEF Pins
  <2> QED
    BY <1>2, <2>1 DEF Changed
<1>3. CASE pins[port] # m.pin[port]
  BY <1>1, <1>3, SetDataIs DEF Changed
<1> QED
  BY <1>2, <1>3

LEMMA ChangedControlIs ==
    ASSUME attrs \in Attributes, NEW m \in Models, NEW pins \in Pins, attrs.async, HeldBy(m)
    PROVE  LET n == Changed(m, "CTRL", pins)
           IN  /\ n \in Models
               /\ n.pin = [m.pin EXCEPT !["CTRL"] = pins["CTRL"]]
               /\ n.gsr = m.gsr
               /\ HeldBy(n)
               /\ m.gsr = 0 /\ ~ Clear(n) => n.q = m.q
               /\ Credits(m, n)
<1>1. pins["CTRL"] \in Bit /\ m.pin \in Pins
  BY DEF Pins, Ports, Models
<1>2. CASE pins["CTRL"] = m.pin["CTRL"]
  <2>1. [m.pin EXCEPT !["CTRL"] = pins["CTRL"]] = m.pin /\ Changed(m, "CTRL", pins) = m
    BY <1>1, <1>2 DEF Pins, Changed
  <2>2. Credits(m, m)
    BY DEF Credits
  <2> QED
    BY <2>1, <2>2
<1>3. CASE pins["CTRL"] # m.pin["CTRL"]
  <2>1. Changed(m, "CTRL", pins) = SetInput(m, "CTRL", pins["CTRL"])
    BY <1>3 DEF Changed
  <2> QED
    BY <1>1, <2>1, SetControlIs
<1> QED
  BY <1>2, <1>3

(* What co-timed `set`s come to: the pins, and the control's doing.        *)
LEMMA SetInputsIs ==
    ASSUME attrs \in Attributes, NEW m \in Models, NEW pins \in Pins, HeldBy(m)
    PROVE  LET n == SetInputs(m, pins)
           IN  /\ n \in Models /\ n.pin = pins /\ n.gsr = m.gsr /\ HeldBy(n)
               /\ m.gsr = 0 /\ ~ Clear(n) => n.q = m.q
               /\ Credits(m, n)
<1> DEFINE a == Changed(m, "CE", pins)
           b == Changed(a, "CTRL", pins)
           c == Changed(b, "D", pins)
<1>1. SetInputs(m, pins) = c
  BY DEF SetInputs
<1>2. /\ a \in Models /\ a.pin = [m.pin EXCEPT !["CE"] = pins["CE"]]
      /\ a.gsr = m.gsr /\ a.q = m.q /\ a.claims = m.claims
  BY ChangedIs DEF Ports
<1> HIDE DEF a
<1>3. HeldBy(a)
  <2>1. a.pin["CTRL"] = m.pin["CTRL"]
    BY <1>2 DEF Models, Pins, Ports
  <2> QED
    BY <1>2, <2>1 DEF HeldBy, Clear, CtrlActive
<1>4. /\ b \in Models /\ b.pin = [a.pin EXCEPT !["CTRL"] = pins["CTRL"]]
      /\ b.gsr = a.gsr /\ HeldBy(b)
      /\ a.gsr = 0 /\ ~ Clear(b) => b.q = a.q
      /\ Credits(a, b)
  <2>1. CASE attrs.async
    BY <1>2, <1>3, <2>1, ChangedControlIs
  <2>2. CASE ~ attrs.async
    <3>1. /\ b \in Models /\ b.pin = [a.pin EXCEPT !["CTRL"] = pins["CTRL"]]
          /\ b.gsr = a.gsr /\ b.q = a.q /\ b.claims = a.claims
      BY <1>2, <2>2, ChangedIs DEF Ports
    <3> HIDE DEF b
    <3>2. HeldBy(b)
      BY <1>3, <2>2, <3>1 DEF HeldBy, Clear
    <3>3. Credits(a, b)
      BY <3>1 DEF Credits
    <3> QED
      BY <3>1, <3>2, <3>3
  <2> QED
    BY <2>1, <2>2
<1> HIDE DEF b
<1>5. /\ c \in Models /\ c.pin = [b.pin EXCEPT !["D"] = pins["D"]]
      /\ c.gsr = b.gsr /\ c.q = b.q /\ c.claims = b.claims
  BY <1>4, ChangedIs DEF Ports
<1> HIDE DEF c
<1>6. c.pin = pins
  BY <1>2, <1>4, <1>5 DEF Models, Pins, Ports
<1>7. c.pin["CTRL"] = b.pin["CTRL"]
  BY <1>4, <1>5 DEF Models, Pins, Ports
<1>8. HeldBy(c) /\ (Clear(c) <=> Clear(b))
  BY <1>4, <1>5, <1>7 DEF HeldBy, Clear, CtrlActive
<1>9. Credits(m, c)
  BY <1>2, <1>4, <1>5 DEF Credits
<1> QED
  BY <1>1, <1>2, <1>4, <1>5, <1>6, <1>8, <1>9

(* What a clock edge comes to, by the rules that apply at it.              *)
LEMMA ClockEdgeIs ==
    ASSUME attrs \in Attributes, NEW m \in Models, HeldBy(m), NEW rising \in BOOLEAN
    PROVE  LET n == ClockEdge(m, rising)
               active == rising # InvC /\ ~ Clear(m)
           IN  /\ n \in Models /\ n.pin = m.pin /\ n.gsr = m.gsr
               /\ Credits(m, n)
               /\ m.gsr = 1 => n.q.bits = m.q.bits
               /\ m.gsr = 1 /\ n.q.prov \in Documented
                     => n.q = m.q /\ (active => m.pin["CE"] = 0 /\ ~ CtrlActive(m))
               /\ m.gsr = 0 /\ ~ active => n.q = m.q
               /\ m.gsr = 0 /\ active /\ CtrlActive(m)
                     => n.q.bits = attrs.value /\ n.q.prov \in Documented
               /\ m.gsr = 0 /\ active /\ ~ CtrlActive(m) /\ m.pin["CE"] = 1
                     => /\ n.q.bits = IF attrs.inv_d = 0 THEN m.pin["D"] ELSE 1 - m.pin["D"]
                        /\ n.q.prov \in Documented
               /\ m.gsr = 0 /\ active /\ ~ CtrlActive(m) /\ m.pin["CE"] = 0 => n.q = m.q
<1> DEFINE n == ClockEdge(m, rising)
<1>0. /\ m.gsr \in Bit /\ m.pin["CE"] \in Bit /\ m.q \in [bits : Bit, prov : Documented \cup Inferred]
      /\ m.claims \subseteq Roles /\ InvC \in BOOLEAN /\ attrs.async \in BOOLEAN
  BY DEF Models, Pins, Ports, InvC, Attributes
<1>1. CASE rising = InvC
  <2>1. n = m
    BY <1>1 DEF ClockEdge
  <2> QED
    BY <1>0, <1>1, <2>1 DEF Credits
<1>2. CASE rising # InvC /\ m.gsr = 1
  <2>1. n = EdgeUnderGsr(m)
    BY <1>2 DEF ClockEdge
  <2>2. CASE ~ (attrs.async /\ CtrlActive(m)) /\ (m.pin["CE"] = 1 \/ CtrlActive(m))
    <3>1. n = [pin |-> m.pin, gsr |-> m.gsr, q |-> [bits |-> m.q.bits, prov |-> "GSR_EDGE"],
               claims |-> m.claims \cup {}]
      BY <2>1, <2>2 DEF EdgeUnderGsr, Drive, Out
    <3>2. n \in Models
      BY <3>1 DEF Models, Inferred
    <3> QED
      BY <1>2, <3>1, <3>2 DEF Credits, Documented
  <2>3. CASE ~ (~ (attrs.async /\ CtrlActive(m)) /\ (m.pin["CE"] = 1 \/ CtrlActive(m)))
    <3>1. n = m
      BY <2>1, <2>3 DEF EdgeUnderGsr
    <3> QED
      BY <1>0, <1>2, <2>3, <3>1 DEF Credits, Clear, Bit
  <2> QED
    BY <2>2, <2>3
<1>3. CASE rising # InvC /\ m.gsr = 0 /\ Clear(m)
  <2>1. n = m
    BY <1>3 DEF ClockEdge, Clear
  <2> QED
    BY <1>3, <2>1 DEF Credits
<1>4. CASE rising # InvC /\ m.gsr = 0 /\ ~ Clear(m) /\ CtrlActive(m)
  <2>1. n = ForceCtrl(m, InvC)
    BY <1>4 DEF ClockEdge, Clear
  <2> QED
    BY <1>0, <1>4, <2>1, ForceCtrlIs
<1>5. CASE rising # InvC /\ m.gsr = 0 /\ ~ CtrlActive(m) /\ m.pin["CE"] = 0
  <2>1. n = [pin |-> m.pin, gsr |-> m.gsr, q |-> m.q, claims |-> m.claims \cup {"ce_hold"}]
    BY <1>5 DEF ClockEdge, Drive
  <2> HIDE DEF n
  <2>2. n \in Models
    BY <1>0, <2>1 DEF Models, Roles
  <2>3. n.pin = m.pin /\ n.gsr = m.gsr /\ n.q = m.q /\ n.claims = m.claims \cup {"ce_hold"}
    BY <2>1
  <2>4. Credits(m, n)
    BY <2>3 DEF Credits
  <2> QED
    BY <1>5, <2>2, <2>3, <2>4 DEF n
<1>6. CASE rising # InvC /\ m.gsr = 0 /\ ~ CtrlActive(m) /\ m.pin["CE"] # 0
  <2>1. n = Capture(m)
    BY <1>6 DEF ClockEdge
  <2> HIDE DEF n
  <2>2. /\ n \in Models /\ n.pin = m.pin /\ n.gsr = m.gsr /\ Credits(m, n)
        /\ n.q.bits = IF attrs.inv_d = 0 THEN m.pin["D"] ELSE 1 - m.pin["D"]
        /\ n.q.prov \in Documented
    BY <2>1, CaptureIs
  <2>3. ~ Clear(m) /\ m.pin["CE"] = 1
    BY <1>0, <1>6 DEF Clear, Bit
  <2> QED
    BY <1>6, <2>2, <2>3 DEF n
<1> QED
  BY <1>0, <1>1, <1>2, <1>3, <1>4, <1>5, <1>6 DEF Bit

LEMMA EdgeKeepsHeld ==
    ASSUME attrs \in Attributes, NEW m \in Models, HeldBy(m), NEW rising \in BOOLEAN
    PROVE  LET n == ClockEdge(m, rising)
           IN  n \in Models /\ HeldBy(n) /\ Credits(m, n)
<1> DEFINE n == ClockEdge(m, rising)
<1>1. n \in Models /\ n.pin = m.pin /\ n.gsr = m.gsr /\ Credits(m, n)
  BY ClockEdgeIs
<1>2. m.gsr \in Bit
  BY DEF Models
<1>3. m.gsr = 1 => HeldBy(n)
  <2> SUFFICES ASSUME m.gsr = 1 PROVE HeldBy(n)
    OBVIOUS
  <2>1. n.q.bits = m.q.bits
    BY ClockEdgeIs
  <2>2. Clear(m) => n.q = m.q
    BY DEF ClockEdge, EdgeUnderGsr, Clear
  <2> HIDE DEF n
  <2> QED
    BY <1>1, <2>1, <2>2 DEF HeldBy, Clear, CtrlActive
<1>4. m.gsr = 0 => HeldBy(n)
  <2> SUFFICES ASSUME m.gsr = 0 PROVE HeldBy(n)
    OBVIOUS
  <2>1. Clear(m) => n.q = m.q
    BY ClockEdgeIs
  <2> HIDE DEF n
  <2> QED
    BY <1>1, <2>1 DEF HeldBy, Clear, CtrlActive
<1> QED
  BY <1>1, <1>2, <1>3, <1>4 DEF Bit

-----------------------------------------------------------------------------
IInv == TypeOK /\ HeldBy(model)

LEMMA StartsHeld == Init => IInv
<1> SUFFICES ASSUME Init PROVE IInv
  OBVIOUS
<1>1. attrs \in Attributes
  BY DEF Init
<1> DEFINE a == SetInput(PowerOn, "CE", 0)
           b == SetInput(a, "CTRL", 0)
<1>2. PowerOn \in Models /\ PowerOn.gsr = 1 /\ PowerOn.q.bits = attrs.init
  BY <1>1 DEF PowerOn, Doc, Out, Models, Pins, Bit, Roles, Documented, Inferred, Attributes
<1>3. a \in Models /\ a.gsr = 1 /\ a.q.bits = attrs.init
  BY <1>1, <1>2, SetDataIs DEF Ports, Bit
<1> HIDE DEF a
<1>4. b \in Models /\ HeldBy(b)
  <2>1. CASE attrs.async
    BY <1>1, <1>3, <2>1, SetControlIs DEF Bit
  <2>2. CASE ~ attrs.async
    <3>1. b \in Models /\ b.gsr = 1 /\ b.q.bits = attrs.init
      BY <1>1, <1>3, <2>2, SetDataIs DEF Ports, Bit
    <3> QED
      BY <2>2, <3>1 DEF HeldBy, Clear
  <2> QED
    BY <2>1, <2>2
<1> HIDE DEF b
<1>5. model = SetInput(b, "D", 0)
  BY DEF Init, a, b
<1>6. /\ model \in Models /\ model.gsr = b.gsr /\ model.q = b.q
      /\ model.pin = [b.pin EXCEPT !["D"] = 0]
  BY <1>1, <1>4, <1>5, SetDataIs DEF Ports, Bit
<1>7. model.pin["CTRL"] = b.pin["CTRL"]
  BY <1>4, <1>6 DEF Models, Pins, Ports
<1>8. HeldBy(model)
  BY <1>4, <1>6, <1>7 DEF HeldBy, Clear, CtrlActive
<1> QED
  BY <1>1, <1>6, <1>8 DEF IInv, TypeOK, Init, Bit

LEMMA StepHolds == IInv /\ [Next]_vars => IInv' /\ (model' = model \/ Credits(model, model'))
<1> SUFFICES ASSUME IInv, [Next]_vars
             PROVE  IInv' /\ (model' = model \/ Credits(model, model'))
  OBVIOUS
<1>0. attrs \in Attributes /\ model \in Models /\ HeldBy(model) /\ clk \in Bit
  BY DEF IInv, TypeOK
<1>1. attrs' = attrs
  BY DEF Next, Initialise, Release, Set, Edge, GlblGsr, vars
<1>2. model' \in Models /\ HeldBy(model') /\ (model' = model \/ Credits(model, model'))
  <2>1. CASE Initialise \/ Set
    BY <1>0, <2>1, SetInputsIs DEF Initialise, Set
  <2>2. CASE Release \/ GlblGsr
    BY <1>0, <2>2, GlblIs DEF Release, GlblGsr, Bit
  <2>3. CASE Edge
    <3>1. model' = ClockEdge(model, clk = 0)
      BY <2>3 DEF Edge
    <3> QED
      BY <1>0, <3>1, EdgeKeepsHeld
  <2>4. CASE UNCHANGED vars
    BY <1>0, <2>4 DEF vars
  <2> QED
    BY <2>1, <2>2, <2>3, <2>4 DEF Next
<1>3. HeldBy(model)'
  BY <1>1, <1>2 DEF HeldBy, Clear, CtrlActive
<1>4. clk' \in Bit /\ time' \in {"zero", "settling", "running"}
  BY DEF IInv, TypeOK, Next, Initialise, Release, Set, Edge, GlblGsr, vars, Bit
<1> QED
  BY <1>0, <1>1, <1>2, <1>3, <1>4 DEF IInv, TypeOK

(* Every bit stays a bit, every output keeps a provenance.                 *)
THEOREM TypeCorrect == Spec => []TypeOK
<1>1. IInv /\ [Next]_vars => IInv'
  BY StepHolds
<1>2. IInv => TypeOK
  BY DEF IInv
<1> QED
  BY StartsHeld, <1>1, <1>2, PTL DEF Spec

(* Whatever the stimulus, no event credits a claim for an inferred output. *)
THEOREM ClaimsAreEarned == Spec => ClaimsAreDocumented
<1>1. IInv /\ [Next]_vars => IInv'
  BY StepHolds
<1>2. IInv /\ [Next]_vars
        => [model'.claims \ model.claims \subseteq {"ce_hold"} \/ model'.q.prov \in Documented]_vars
  BY StepHolds DEF Credits
<1> QED
  BY StartsHeld, <1>1, <1>2, PTL DEF Spec, ClaimsAreDocumented

-----------------------------------------------------------------------------
(* The refinement: each step, by the rules in force after it.              *)

AllLow == [p \in Ports |-> 0]

LEMMA StaysLow == \A port \in Ports : [AllLow EXCEPT ![port] = 0] = AllLow
BY DEF AllLow

LEMMA StartsDocumented == Init => UG953!Init
<1> SUFFICES ASSUME Init PROVE UG953!Init
  OBVIOUS
<1>1. IInv /\ attrs \in Attributes /\ clk = 0
  BY StartsHeld DEF Init
<1> DEFINE a == SetInput(PowerOn, "CE", 0)
           b == SetInput(a, "CTRL", 0)
<1>0. /\ "CE" \in Ports /\ "CTRL" \in Ports /\ "D" \in Ports /\ 0 \in Bit
      /\ "CE" # "CTRL" /\ "D" # "CTRL"
  BY DEF Ports, Bit
<1>2. PowerOn \in Models /\ PowerOn.gsr = 1 /\ PowerOn.pin = AllLow
      /\ PowerOn.q = [bits |-> attrs.init, prov |-> "PAGE"]
  BY <1>1 DEF PowerOn, AllLow, Doc, Out, Models, Pins, Bit, Roles, Documented, Inferred, Attributes
<1>3. a \in Models /\ a.gsr = 1 /\ a.pin = AllLow /\ a.q = PowerOn.q
  BY <1>0, <1>1, <1>2, SetDataIs, StaysLow
<1> HIDE DEF a
<1>4. b \in Models /\ b.gsr = 1 /\ b.pin = AllLow
      /\ (~ attrs.async => b.q = a.q)
  <2>1. CASE attrs.async
    BY <1>0, <1>1, <1>3, <2>1, SetControlIs, StaysLow
  <2>2. CASE ~ attrs.async
    BY <1>0, <1>1, <1>3, <2>2, SetDataIs, StaysLow
  <2> QED
    BY <2>1, <2>2
<1> HIDE DEF b
<1>5. model = SetInput(b, "D", 0)
  BY DEF Init, a, b
<1>6. model.pin = AllLow /\ model.gsr = 1 /\ model.q = b.q
  BY <1>0, <1>1, <1>4, <1>5, SetDataIs, StaysLow
<1>7. model.q.prov \in Documented <=> ~ (Clear(model) /\ attrs.init # attrs.value)
  <2>1. CASE Clear(model)
    BY <1>1, <1>6, <2>1 DEF IInv, HeldBy
  <2>2. CASE attrs.async /\ ~ Clear(model)
    <3>1. b.pin["CTRL"] # attrs.inv_ctrl <=> model.pin["CTRL"] # attrs.inv_ctrl
      BY <1>4, <1>6
    <3>2. b = SetInput(a, "CTRL", 0)
      BY DEF b
    <3> DEFINE n == [a EXCEPT !.pin["CTRL"] = 0]
    <3>3. n \in Models /\ n.gsr = 1 /\ n.pin["CTRL"] = 0
      BY <1>3 DEF Models, Pins, Ports, Bit
    <3>4. b = UnderGsr(n)
      BY <2>2, <3>2, <3>3 DEF SetInput
    <3>5. ~ Clear(n)
      BY <1>6, <2>2, <3>3 DEF Clear, CtrlActive, AllLow, Ports
    <3> HIDE DEF n
    <3>6. b.q.prov \in Documented
      BY <1>1, <3>3, <3>4, <3>5, UnderGsrIs
    <3> QED
      BY <1>6, <2>2, <3>6
  <2>3. CASE ~ attrs.async
    BY <1>2, <1>3, <1>4, <1>6, <2>3 DEF Clear, Documented
  <2> QED
    BY <2>1, <2>2, <2>3 DEF Clear
<1>8. model.q.bits = IF Clear(model) THEN attrs.value ELSE attrs.init
  BY <1>1, <1>6 DEF IInv, HeldBy
<1>9. UG953!LevelRules(model.pin, model.gsr)
        = (IF Clear(model) THEN {attrs.value} ELSE {}) \cup {attrs.init}
  BY <1>6 DEF UG953!LevelRules, UG953!Clear, UG953!Asserted, Clear, CtrlActive
<1>10. UG953!LevelRules(model.pin, model.gsr) = {model.q.bits}
         <=> ~ (Clear(model) /\ attrs.init # attrs.value)
  BY <1>8, <1>9
<1> QED
  BY <1>1, <1>6, <1>7, <1>8, <1>9, <1>10
     DEF UG953!Init, UG953!Attributes, UG953!Bit, Attributes, Bit, Ports, AllLow

(* An event but a clock edge: the levels of GSR and of the control decide. *)
LEMMA LevelsDecide ==
    ASSUME IInv, IInv', attrs' = attrs, clk' = clk,
           model'.gsr = 0 /\ ~ Clear(model') => model'.q = model.q
    PROVE  UG953!Event
<1>1. /\ attrs \in Attributes /\ attrs.async \in BOOLEAN
      /\ model' \in Models /\ model'.gsr \in Bit /\ model'.pin \in Pins /\ clk' \in Bit
  BY DEF IInv, TypeOK, Models, Attributes
<1>2. HeldBy(model')
  BY DEF IInv, HeldBy, Clear, CtrlActive
<1>3. UG953!Dictated
        = (IF Clear(model') THEN {attrs.value} ELSE {})
          \cup (IF model'.gsr = 1 THEN {attrs.init} ELSE {})
  BY DEF UG953!Dictated, UG953!LevelRules, UG953!EdgeRules, UG953!ActiveEdge, UG953!Clear,
         UG953!Asserted, Clear, CtrlActive
<1>4. /\ model'.gsr = 1 /\ ~ Clear(model') => model'.q.bits = attrs.init
      /\ model'.gsr = 0 /\ Clear(model')
            => model'.q.bits = attrs.value /\ model'.q.prov \in Documented
      /\ model'.gsr = 1 /\ Clear(model')
            => model'.q.bits = attrs.value
               /\ (model'.q.prov \in Documented <=> attrs.init = attrs.value)
  BY <1>2 DEF HeldBy
<1>5. UG953!Dictated = {} <=> model'.gsr = 0 /\ ~ Clear(model')
  BY <1>1, <1>3 DEF Bit
<1>6. UG953!Dictated # {}
        => /\ model'.q.bits \in UG953!Dictated
           /\ model'.q.prov \in Documented => UG953!Dictated = {model'.q.bits}
           /\ ~ (model'.q.prov \in Documented) => model'.gsr = 1
  BY <1>1, <1>3, <1>4 DEF Bit
<1> QED
  BY <1>1, <1>5, <1>6 DEF UG953!Event, UG953!Pins, UG953!Bit, Pins, Ports, Bit

(* A clock edge: the rules of the logic table join them.                   *)
LEMMA EdgeDecides ==
    ASSUME IInv, IInv', Edge
    PROVE  UG953!Event
<1>1. /\ attrs \in Attributes /\ attrs.async \in BOOLEAN /\ attrs.inv_c \in Bit
      /\ model \in Models /\ model.gsr \in Bit /\ model.pin \in Pins /\ clk \in Bit
      /\ model.pin["CE"] \in Bit
      /\ clk' = 1 - clk /\ clk' \in Bit /\ attrs' = attrs
  BY DEF IInv, TypeOK, Models, Attributes, Edge, Pins, Ports
<1> DEFINE rising == clk = 0
           active == rising # InvC /\ ~ Clear(model)
<1>2. HeldBy(model) /\ model' = ClockEdge(model, rising) /\ rising \in BOOLEAN
  BY DEF IInv, Edge
<1>3. UG953!ActiveEdge <=> rising # InvC
  BY <1>1 DEF UG953!ActiveEdge, InvC, Bit
<1>4. /\ model' \in Models /\ model'.pin = model.pin /\ model'.gsr = model.gsr
      /\ model.gsr = 1 => model'.q.bits = model.q.bits
      /\ model.gsr = 1 /\ model'.q.prov \in Documented
            => model'.q = model.q /\ (active => model.pin["CE"] = 0 /\ ~ CtrlActive(model))
      /\ model.gsr = 0 /\ ~ active => model'.q = model.q
      /\ model.gsr = 0 /\ active /\ CtrlActive(model)
            => model'.q.bits = attrs.value /\ model'.q.prov \in Documented
      /\ model.gsr = 0 /\ active /\ ~ CtrlActive(model) /\ model.pin["CE"] = 1
            => /\ model'.q.bits = IF attrs.inv_d = 0 THEN model.pin["D"] ELSE 1 - model.pin["D"]
               /\ model'.q.prov \in Documented
      /\ model.gsr = 0 /\ active /\ ~ CtrlActive(model) /\ model.pin["CE"] = 0
            => model'.q = model.q
  BY <1>1, <1>2, ClockEdgeIs
<1>5. UG953!Dictated
        = (IF Clear(model) THEN {attrs.value} ELSE {})
          \cup (IF model.gsr = 1 THEN {attrs.init} ELSE {})
          \cup (IF ~ active THEN {} ELSE IF CtrlActive(model) THEN {attrs.value}
                ELSE IF model.pin["CE"] = 1
                     THEN {IF attrs.inv_d = 0 THEN model.pin["D"] ELSE 1 - model.pin["D"]} ELSE {})
  BY <1>1, <1>3, <1>4 DEF UG953!Dictated, UG953!LevelRules, UG953!EdgeRules, UG953!Clear,
         UG953!Asserted, UG953!Data, Clear, CtrlActive
<1> HIDE DEF active, rising
<1>6. /\ model.gsr = 1 /\ ~ Clear(model) => model.q.bits = attrs.init
      /\ model.gsr = 0 /\ Clear(model)
            => model.q.bits = attrs.value /\ model.q.prov \in Documented
      /\ model.gsr = 1 /\ Clear(model)
            => model.q.bits = attrs.value
               /\ (model.q.prov \in Documented <=> attrs.init = attrs.value)
  BY <1>2 DEF HeldBy
<1>7. active => ~ Clear(model)
  BY DEF active
<1>8. /\ model'.gsr \in Bit /\ model'.pin \in Pins
  BY <1>4 DEF Models
<1>9. CASE UG953!Dictated = {}
  <2>1. model'.q = model.q
    BY <1>1, <1>4, <1>5, <1>9 DEF Bit
  <2> QED
    BY <1>1, <1>8, <1>9, <2>1 DEF UG953!Event, UG953!Pins, UG953!Bit, Pins, Ports, Bit
<1>10. CASE UG953!Dictated # {}
  <2>1. model'.q.bits \in UG953!Dictated
    BY <1>1, <1>4, <1>5, <1>6, <1>7, <1>10 DEF Bit
  <2>2. model'.q.prov \in Documented => UG953!Dictated = {model'.q.bits}
    BY <1>1, <1>4, <1>5, <1>6, <1>7, <1>10 DEF Bit
  <2>3. ~ (model'.q.prov \in Documented) => model'.gsr = 1
    BY <1>1, <1>4, <1>5, <1>6, <1>7, <1>10 DEF Bit
  <2> QED
    BY <1>1, <1>8, <1>10, <2>1, <2>2, <2>3 DEF UG953!Event, UG953!Pins, UG953!Bit, Pins, Ports, Bit
<1> QED
  BY <1>9, <1>10

(* Every event moves Q as UG953 lets it, and calls it documented only then.*)
THEOREM ImplementsDocumentedFlop == Spec => ImplementsUG953
<1>1. IInv /\ [Next]_vars => IInv'
  BY StepHolds
<1>2. IInv /\ IInv' /\ [Next]_vars => [UG953!Event]_(UG953!vars)
  <2> SUFFICES ASSUME IInv, IInv', [Next]_vars PROVE [UG953!Event]_(UG953!vars)
    OBVIOUS
  <2>0. attrs \in Attributes /\ model \in Models /\ HeldBy(model)
    BY DEF IInv, TypeOK
  <2>1. CASE Initialise \/ Set
    <3>1. PICK pins \in Pins : model' = SetInputs(model, pins)
      BY <2>1 DEF Initialise, Set
    <3>2. /\ model'.gsr = model.gsr
          /\ model.gsr = 0 /\ ~ Clear(model') => model'.q = model.q
      BY <2>0, <3>1, SetInputsIs
    <3> QED
      BY <2>1, <3>2, LevelsDecide DEF Initialise, Set
  <2>2. CASE Release \/ GlblGsr
    <3>1. PICK value \in Bit : model' = Glbl(model, value)
      BY <2>2 DEF Release, GlblGsr, Bit
    <3>2. /\ model'.pin = model.pin /\ model'.gsr = value
          /\ value = 0 /\ ~ Clear(model) => model'.q = model.q
      BY <2>0, <3>1, GlblIs
    <3>3. attrs' = attrs /\ clk' = clk
      BY <2>2 DEF Release, GlblGsr
    <3>4. Clear(model') <=> Clear(model)
      BY <3>2 DEF Clear, CtrlActive
    <3> QED
      BY <3>2, <3>3, <3>4, LevelsDecide
  <2>3. CASE Edge
    BY <2>3, EdgeDecides
  <2>4. CASE UNCHANGED vars
    BY <2>4 DEF vars, UG953!vars
  <2> QED
    BY <2>1, <2>2, <2>3, <2>4 DEF Next
<1> QED
  BY StartsHeld, StartsDocumented, <1>1, <1>2, PTL DEF Spec, ImplementsUG953, UG953!Spec

-----------------------------------------------------------------------------
(* Co-timed inputs.                                                        *)

WithPin(m, port, v) ==
    [pin |-> [m.pin EXCEPT ![port] = v], gsr |-> m.gsr, q |-> m.q, claims |-> m.claims]

LEMMA DataInputIs ==
    ASSUME NEW m \in Models, NEW port \in Ports, NEW v \in Bit, port # "CTRL" \/ ~ attrs.async
    PROVE  SetInput(m, port, v) = WithPin(m, port, v)
BY DEF SetInput, WithPin, Models

(* What an asynchronous control makes of Q depends on GSR and itself only. *)
LEMMA ControlInputCommutes ==
    ASSUME attrs \in Attributes, NEW m \in Models, NEW port \in Ports, port # "CTRL",
           NEW u \in Bit, NEW v \in Bit, attrs.async
    PROVE  SetInput(WithPin(m, port, u), "CTRL", v) = WithPin(SetInput(m, "CTRL", v), port, u)
<1> DEFINE n == WithPin(m, "CTRL", v)
           k == WithPin(WithPin(m, port, u), "CTRL", v)
<1>1. /\ n.gsr = m.gsr /\ n.q = m.q /\ n.claims = m.claims
      /\ k.gsr = m.gsr /\ k.q = m.q /\ k.claims = m.claims
      /\ n.pin = [m.pin EXCEPT !["CTRL"] = v]
      /\ k.pin = [[m.pin EXCEPT ![port] = u] EXCEPT !["CTRL"] = v]
  BY DEF WithPin
<1>2. k.pin = [n.pin EXCEPT ![port] = u] /\ k.pin["CTRL"] = n.pin["CTRL"]
  BY <1>1 DEF Models, Pins, Ports
<1>3. SetInput(m, "CTRL", v) = IF n.gsr = 1 THEN UnderGsr(n)
                               ELSE IF CtrlActive(n) THEN ForceCtrl(n, FALSE) ELSE n
  <2>1. [m EXCEPT !.pin["CTRL"] = v] = n
    BY DEF WithPin, Models
  <2> QED
    BY <2>1 DEF SetInput
<1>4. SetInput(WithPin(m, port, u), "CTRL", v)
        = IF k.gsr = 1 THEN UnderGsr(k)
          ELSE IF CtrlActive(k) THEN ForceCtrl(k, FALSE) ELSE k
  <2> DEFINE w == WithPin(m, port, u)
  <2>1. w \in Models
    BY DEF WithPin, Models, Pins
  <2> HIDE DEF w
  <2>2. [w EXCEPT !.pin["CTRL"] = v] = WithPin(w, "CTRL", v)
    BY <2>1 DEF WithPin, Models
  <2> QED
    BY <2>2 DEF SetInput, w, k
<1>5. k = WithPin(n, port, u)
  BY <1>1, <1>2 DEF WithPin
<1> HIDE DEF n, k
<1>6. CtrlActive(k) <=> CtrlActive(n)
  BY <1>2 DEF CtrlActive
<1>7. UnderGsr(k) = WithPin(UnderGsr(n), port, u)
  BY <1>1, <1>2, <1>6 DEF UnderGsr, Drive, WithPin
<1>8. ForceCtrl(k, FALSE) = WithPin(ForceCtrl(n, FALSE), port, u)
  BY <1>1, <1>2 DEF ForceCtrl, Drive, WithPin
<1> QED
  BY <1>1, <1>3, <1>4, <1>5, <1>6, <1>7, <1>8

(* "So this must not depend on order".                                     *)
THEOREM InputsCommute == Spec => []OrderIsIrrelevant
<1>1. ASSUME IInv, NEW p \in Ports, NEW r \in Ports, p # r, NEW u \in Bit, NEW v \in Bit
      PROVE  SetInput(SetInput(model, p, u), r, v) = SetInput(SetInput(model, r, v), p, u)
  <2>0. attrs \in Attributes /\ model \in Models
    BY <1>1 DEF IInv, TypeOK
  <2>1. ASSUME NEW x \in Ports, NEW a \in Bit
        PROVE  SetInput(model, x, a) \in Models /\ WithPin(model, x, a) \in Models
    <3>1. WithPin(model, x, a) \in Models
      BY <2>0 DEF WithPin, Models, Pins
    <3> QED
      BY <2>0, <3>1, SetDataIs, SetControlIs
  <2>2. CASE ~ attrs.async \/ (p # "CTRL" /\ r # "CTRL")
    <3>1. /\ SetInput(SetInput(model, p, u), r, v) = WithPin(WithPin(model, p, u), r, v)
          /\ SetInput(SetInput(model, r, v), p, u) = WithPin(WithPin(model, r, v), p, u)
      BY <1>1, <2>0, <2>1, <2>2, DataInputIs
    <3>2. [[model.pin EXCEPT ![p] = u] EXCEPT ![r] = v]
            = [[model.pin EXCEPT ![r] = v] EXCEPT ![p] = u]
      BY <1>1, <2>0 DEF Models, Pins
    <3> QED
      BY <3>1, <3>2 DEF WithPin
  <2>3. CASE attrs.async /\ p = "CTRL"
    <3>1. SetInput(SetInput(model, p, u), r, v) = WithPin(SetInput(model, "CTRL", u), r, v)
      BY <1>1, <2>1, <2>3, DataInputIs
    <3>2. SetInput(SetInput(model, r, v), p, u) = SetInput(WithPin(model, r, v), "CTRL", u)
      BY <1>1, <2>0, <2>3, DataInputIs
    <3> QED
      BY <1>1, <2>0, <2>3, <3>1, <3>2, ControlInputCommutes
  <2>4. CASE attrs.async /\ r = "CTRL"
    <3>1. SetInput(SetInput(model, r, v), p, u) = WithPin(SetInput(model, "CTRL", v), p, u)
      BY <1>1, <2>1, <2>4, DataInputIs
    <3>2. SetInput(SetInput(model, p, u), r, v) = SetInput(WithPin(model, p, u), "CTRL", v)
      BY <1>1, <2>0, <2>4, DataInputIs
    <3> QED
      BY <1>1, <2>0, <2>4, <3>1, <3>2, ControlInputCommutes
  <2> QED
    BY <2>0, <2>2, <2>3, <2>4 DEF Attributes
<1>2. IInv => OrderIsIrrelevant
  BY <1>1 DEF OrderIsIrrelevant
<1>3. IInv /\ [Next]_vars => IInv'
  BY StepHolds
<1> QED
  BY StartsHeld, <1>2, <1>3, PTL DEF Spec

=============================================================================
