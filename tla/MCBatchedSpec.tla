---------------------------- MODULE MCBatchedSpec ----------------------------
(* Instances of BatchedSpec for TLC. *)
EXTENDS BatchedSpec, MCDecoding
=============================================================================
