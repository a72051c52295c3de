---- MODULE MCSpecKV ----
(* Instances of SpecKV for TLC. *)
EXTENDS SpecKV, MCDecoding
====
