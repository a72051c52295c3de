----------------------------- MODULE MCPunicaStep -----------------------------
(* Instances of PunicaStep for TLC. *)
EXTENDS PunicaStep, TLC

(* Adapters are interchangeable; slots are numbers and are not touched. *)
AdapterSymmetry == Permutations(Adapters)
=============================================================================
