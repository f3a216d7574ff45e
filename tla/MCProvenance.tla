---------------------------- MODULE MCProvenance ----------------------------
(* Two versions to go back and forth between; python and two simulators.   *)
EXTENDS Provenance, TLC

CONSTANTS v1, v2, s1, s2

Symmetry == Permutations({v1, v2}) \cup Permutations({s1, s2})
=============================================================================
