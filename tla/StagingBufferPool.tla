-------------------------- MODULE StagingBufferPool --------------------------
(***************************************************************************)
(* The staging pool of the early-copy prefetch engine,                     *)
(* csrc/memory/staging_buffer.h, and the CUDA stream its copies run on.    *)
(*                                                                         *)
(* slot_adapter_id and copy_issued are the host-side fields.  The stream   *)
(* is a FIFO of requests, each an A copy, a B copy and the event record    *)
(* that follows them; only the head request progresses, and it leaves the  *)
(* stream when its event record completes.  cudaEventQuery(slot) therefore *)
(* answers cudaSuccess exactly when no request for the slot is left: an    *)
(* event answers for its most recent record, and the stream is in order.   *)
(***************************************************************************)
EXTENDS Integers, Sequences

CONSTANTS
  NoAdapter,  (* slot_adapter_id == -1: the slot is free *)
  NumSlots    (* WP_MAX_STAGING                          *)

VARIABLES
  slot_adapter_id,  (* owner of each slot                              *)
  copy_issued,      (* a copy was issued since the slot was acquired   *)
  prefetch_stream   (* copies issued and not yet known to be complete  *)

poolVars == <<slot_adapter_id, copy_issued, prefetch_stream>>

Slots  == 0 .. NumSlots - 1
NoSlot == -1

(* The loops over slots return the first match. *)
FirstSlot(S) == CHOOSE s \in S : \A t \in S : s <= t

OwnedBy(a) == {s \in Slots : slot_adapter_id[s] = a}

FindSlotForAdapter(a) ==
  IF OwnedBy(a) = {} THEN NoSlot ELSE FirstSlot(OwnedBy(a))

(* A bug to rule out: the adapter's own slot is not looked for first. *)
SlotForFirstFree(a) == FindSlotForAdapter(NoAdapter)

(* The slot acquire_slot returns: the adapter's own, else the first free. *)
SlotFor(a) ==
  IF OwnedBy(a) # {} THEN FirstSlot(OwnedBy(a)) ELSE FindSlotForAdapter(NoAdapter)

PoolInit ==
  /\ slot_adapter_id = [s \in Slots |-> NoAdapter]
  /\ copy_issued = [s \in Slots |-> FALSE]
  /\ prefetch_stream = << >>

(* A bug to rule out: the copy is issued and never marked. *)
AcquireUnmarked(a, s, request) ==
  /\ slot_adapter_id' = [slot_adapter_id EXCEPT ![s] = a]
  /\ prefetch_stream' = Append(prefetch_stream, request)
  /\ UNCHANGED copy_issued

(* acquire_slot followed by mark_copy_issued, the only way prefetch_adapter
   uses the pool: acquiring a free slot resets copy_issued, marking sets it. *)
AcquireAndMark(a, s, request) ==
  /\ slot_adapter_id' = [slot_adapter_id EXCEPT ![s] = a]
  /\ copy_issued' = [copy_issued EXCEPT ![s] = TRUE]
  /\ prefetch_stream' = Append(prefetch_stream, request)

(* release_slot: out-of-range slots, find_slot's -1 among them, are ignored.
   Copies already in the stream are not cancelled. *)
ReleaseSlot(s) ==
  /\ IF s \in Slots
       THEN /\ slot_adapter_id' = [slot_adapter_id EXCEPT ![s] = NoAdapter]
            /\ copy_issued' = [copy_issued EXCEPT ![s] = FALSE]
       ELSE UNCHANGED <<slot_adapter_id, copy_issued>>
  /\ UNCHANGED prefetch_stream

EventPending(s) ==
  \E i \in DOMAIN prefetch_stream : prefetch_stream[i].slot = s

(* A bug to rule out: issued is taken for completed. *)
IsReadyOnceIssued(s) == s \in Slots /\ copy_issued[s]

IsReady(s) == s \in Slots /\ copy_issued[s] /\ ~EventPending(s)
=============================================================================
