---------------------------- MODULE AdapterStore ----------------------------
(***************************************************************************)
(* The on-device adapter registry, csrc/memory/adapter_store.h.  The store *)
(* keeps raw device pointers only: entries[a] is the address of adapter    *)
(* a's weight pair (A and B are allocated and freed together, so a pair is *)
(* one address here).  rank, d_model, out_features and alpha_scale are     *)
(* written in the same assignment as the pointer and are not separated.    *)
(*                                                                         *)
(* register_adapter throws before it writes anything when a pointer is not *)
(* 16-byte aligned; that call changes nothing and is not an action.        *)
(***************************************************************************)
CONSTANTS
  Adapters,  (* adapter ids           *)
  NoAddr     (* no entry under an id  *)

VARIABLE entries

StoreInit == entries = [a \in Adapters |-> NoAddr]

Contains(a) == entries[a] # NoAddr

(* Meaningful only under Contains(a): the code throws otherwise. *)
Lookup(a) == entries[a]

StoreRegister(a, addr) == entries' = [entries EXCEPT ![a] = addr]

StoreEvict(a) == entries' = [entries EXCEPT ![a] = NoAddr]
=============================================================================
