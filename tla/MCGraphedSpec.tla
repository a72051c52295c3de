---- MODULE MCGraphedSpec ----
(* Instances of GraphedSpec for TLC. *)
EXTENDS GraphedSpec, MCDecoding
====
