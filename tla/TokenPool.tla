------------------------------ MODULE TokenPool ------------------------------
(***************************************************************************)
(* What `xut heavy` promises: a pool of tokens, granted to a command all   *)
(* at once and in full when its scope starts, returned all at once when    *)
(* the last process of that scope has ended.  How a command comes by its   *)
(* tokens, and who dies meanwhile, is HeavyAdmission's business.           *)
(***************************************************************************)
EXTENDS Integers, FiniteSets

CONSTANTS Commands, Tokens, Need

VARIABLE granted   \* the tokens each running command has

Unclaimed == Tokens \ UNION {granted[c] : c \in Commands}

Init == granted = [c \in Commands |-> {}]

Grant(c) ==
    /\ granted[c] = {}
    /\ \E S \in SUBSET Unclaimed :
          /\ Cardinality(S) = Need[c]
          /\ granted' = [granted EXCEPT ![c] = S]

Return(c) ==
    /\ granted[c] # {}
    /\ granted' = [granted EXCEPT ![c] = {}]

Next == \E c \in Commands : Grant(c) \/ Return(c)

Spec == Init /\ [][Next]_granted
=============================================================================
