----------------------------- MODULE DraftRouting -----------------------------
(***************************************************************************)
(* Draft-side SGMV of benchmarks/e2e/serve_multitenant.py: one draft model *)
(* whose linears add, token by token, the product of one of several LoRA   *)
(* adapters.  A wrapped linear flattens the batch, so it takes a routing   *)
(* vector with an entry for every token, padding included.                 *)
(*                                                                         *)
(* What the draft has computed of a token is [tok, pos, lora].             *)
(***************************************************************************)
EXTENDS Decoding

CONSTANTS
  Rows,
  Routings,  (* adapter: the tenant of each row                     *)
  NoLora     (* the base model alone, BGMVLoRALinear in mode "none" *)

ASSUME RoutingAssumption ==
  \A adapter \in Routings : Rows = 1 .. Len(adapter) /\ NoLora \notin Range(adapter)

Loras == UNION {Range(adapter) : adapter \in Routings}
RoutedEntries == [tok : Tokens, pos : Nat, lora : Loras \cup {NoLora}]

(* A routing vector for S tokens of each of n rows, all of one adapter. *)
Uniform(n, S, lora) == [i \in 0 .. n * S - 1 |-> lora]

(* A bug to rule out: the vector of rows is repeated as a whole. *)
RepeatedWhole(adapter, S) ==
  [i \in 0 .. Len(adapter) * S - 1 |-> adapter[(i % Len(adapter)) + 1]]

(* adapter.repeat_interleave(S) *)
RepeatInterleave(adapter, S) ==
  [i \in 0 .. Len(adapter) * S - 1 |-> adapter[(i \div S) + 1]]

(* The tokens of the k-th of n rows, S tokens wide, from column c on. *)
Routed(toks, pos, idx, k, c, S) ==
  [i \in 1 .. Len(toks) |->
     [tok  |-> toks[i],
      pos  |-> pos + i - 1,
      lora |-> idx[(k - 1) * S + c + i - 1]]]
=============================================================================
