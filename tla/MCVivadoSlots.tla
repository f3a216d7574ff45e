--------------------------- MODULE MCVivadoSlots ---------------------------
(* Two calls of a process that allows two slots, two of one that allows    *)
(* only one.                                                               *)
EXTENDS VivadoSlots

CONSTANTS a1, a2, b1, b2, A, B

MCProc == [r \in Runs |-> IF r \in {a1, a2} THEN A ELSE B]
MCLimit == [p \in Procs |-> IF p = A THEN 2 ELSE 1]
=============================================================================
