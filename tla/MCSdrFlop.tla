----------------------------- MODULE MCSdrFlop -----------------------------
(* Nothing is bounded: every primitive, every configuration, all inputs.   *)
EXTENDS SdrFlop
=============================================================================
