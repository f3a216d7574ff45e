--------------------------- MODULE MCContainerRuns ---------------------------
(* Two concurrent calls: one may be killed, time out or finish at any      *)
(* point of the other.                                                     *)
EXTENDS ContainerRuns

CONSTANTS r1, r2
=============================================================================
