--------------------------- MODULE MCKernelMetadata ---------------------------
(* Instances of KernelMetadata for TLC. *)
EXTENDS KernelMetadata, TLC

(* Everything, everything but readings, and nothing. *)
MCCallArguments == {Sources, Sources \ {"gwar"}, {}}

(* Names are interchangeable; Loras are numbers and are not touched. *)
NameSymmetry == Permutations(Names)
=============================================================================
