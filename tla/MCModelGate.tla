---------------------------- MODULE MCModelGate ----------------------------
(* A model over a helper that it instantiates under a key of its own; the  *)
(* versions make each of them rewritten or not, and the model refused.     *)
(* The configuration is built by verilator and by its companion, whose DUT *)
(* leaves an input undriven.                                               *)
EXTENDS ModelGate

MCModels == {"TOP", "SUB"}
MCKeys == {"k1", "k2"}
MCPairs == {<<"TOP", "k1">>, <<"SUB", "k2">>}
MCInst == [TOP |-> {"SUB"}, SUB |-> {}]
MCUses == [q \in MCPairs |-> IF q[1] = "TOP" THEN {<<"SUB", "k2">>} ELSE {}]
MCKind == [TOP |-> <<"unchanged", "transformed", "unsupported">>,
           SUB |-> <<"transformed", "transformed", "unchanged">>]
MCJobs == {"top", "guard", "command"}
MCPair == [top |-> <<"TOP", "k1">>, guard |-> <<"TOP", "k1">>, command |-> <<>>]
=============================================================================
