----------------------------- MODULE MCVerdict -----------------------------
(***************************************************************************)
(* Three configurations: an ordinary one, one that test.yaml excludes for  *)
(* the simulator, and one that expects a rejection; every simulator runner *)
(* and every style.  The configurations of a runner meet only in its       *)
(* result, so one of each kind shows what more would.                      *)
(***************************************************************************)
EXTENDS Verdict

MCCfgs == {"c1", "out", "bad"}
MCSimulators == {"iverilog", "iverilog-vz", "verilator", "xsim"}
=============================================================================
