----------------------------- MODULE MCEagerBatch -----------------------------
(* Instances of EagerBatch for TLC. *)
EXTENDS EagerBatch, MCDecoding

(* The target decodes the prompts 01 and 100 to 01... and 00000 1...: with     *)
(* EOS = 1 one row may finish early, the other only by its length.             *)
MCEagerTarget(view) == 1 - MCTarget(view)

MCEagerPrompts == {<<0, 1>>, <<1, 0, 0>>}
=============================================================================
