-------------------------- MODULE WarpPipeExtension --------------------------
(***************************************************************************)
(* The extension object behind WarpPipeEngine,                             *)
(* csrc/pybind/warp_pipe_bindings.cpp, on its registered-adapter path:     *)
(* register / evict, prefetch / poll / release, build_segments, shrink and *)
(* expand.  It composes the adapter store and the staging pool with        *)
(*   - device memory, and PyTorch's allocator that hands freed addresses   *)
(*     out again (external: modelled from how the extension holds tensors),*)
(*   - the segment table: host-pinned memory the host writes directly and  *)
(*     a kernel reads when it runs, not when it is launched,               *)
(*   - two CUDA streams: torch's current stream (main_stream), and the     *)
(*     extension's own non-blocking prefetch stream, unordered with it.    *)
(* Host calls run under the GIL, so each is one action; the streams        *)
(* progress between any two of them.                                       *)
(*                                                                         *)
(* A weight pair is abstracted to its version, the order of its creation;  *)
(* 0 is memory never written.  The caller writes a pair once, when it      *)
(* creates it, and may register it any number of times, under any ids.     *)
(*                                                                         *)
(* The engine does not synchronise on behalf of its caller.  ClientRules   *)
(* names the precautions a caller takes (see Obeys below); the harnesses   *)
(* under tests/ and benchmarks/ take some of them and not others.          *)
(***************************************************************************)
EXTENDS AdapterStore, StagingBufferPool

CONSTANTS
  Addrs,                 (* device allocations that can hold a weight pair *)
  MaxSegments,           (* WP_MAX_SEGMENTS                                *)
  ClientRules,           (* precautions of the caller                      *)
  MaxVersion,            (* bound: weight pairs created in a behaviour     *)
  MaxQueued,             (* bound: operations waiting on the main stream   *)
  MaxCopies              (* bound: requests waiting on the prefetch stream *)

AllRules == {
  "release_first",   (* release_prefetch(a) before a is evicted or re-registered *)
  "settled_weights", (* a's weights are written before prefetch_adapter(a)       *)
  "idle_rebuild",    (* main stream drained before build_segments                *)
  "idle_release",    (* main stream drained before release_prefetch              *)
  "rebuild_first"    (* build_segments again after an adapter of the table was   *)
                     (* registered, evicted or released, or after it threw       *)
}

ASSUME ExtensionAssumption ==
  /\ NoAdapter \notin Adapters
  /\ NoAddr \notin Addrs
  /\ NumSlots \in Nat \ {0}
  /\ MaxSegments \in Nat /\ MaxVersion \in Nat
  /\ MaxQueued \in Nat /\ MaxCopies \in Nat
  /\ ClientRules \subseteq AllRules

VARIABLES
  held_tensors,     (* held_tensors_: the references that keep memory alive    *)
  a_buf, b_buf,     (* contents of each slot's A and B staging buffer          *)
  dev_mem,          (* contents of each allocation                             *)
  main_stream,      (* operations launched and not finished                    *)
  segments, num_segments,   (* *meta_host_                                     *)
  next_version,     (* weight pairs created                                    *)
  pair_in,          (* the pair last created in each allocation, 0 if none     *)
  registered,       (* version each adapter is registered with, 0 if none      *)
  batch,            (* what the last successful build_segments asked for       *)
  table_fresh       (* the caller has not invalidated its table since          *)

clientVars == <<next_version, pair_in, registered, batch, table_fresh>>
tableVars  == <<segments, num_segments>>
stagedVars == <<a_buf, b_buf>>
vars == <<entries, held_tensors, poolVars, stagedVars, dev_mem, main_stream,
          tableVars, clientVars>>

Obeys(rule, precaution) == rule \in ClientRules => precaution

Versions == 0 .. MaxVersion
Segments == [adapter_id : Adapters \cup {NoAdapter}, ptr : Addrs \cup {NoAddr},
             use_staging : BOOLEAN, staging : Slots \cup {NoSlot}]

(* The metadata block is zeroed on construction. *)
NullSegment == [adapter_id |-> NoAdapter, ptr |-> NoAddr,
                use_staging |-> FALSE, staging |-> NoSlot]

Requests == [slot : Slots, src : Addrs, step : {"copy_A", "copy_B", "event"}]

Wanted == [adapter_id : Adapters, version : Versions]
Ops == [op : {"write"}, addr : Addrs, version : Versions]
         \cup [op : {"shrink", "expand"}, want : Seq(Wanted)]

TypeOK ==
  /\ entries \in [Adapters -> Addrs \cup {NoAddr}]
  /\ held_tensors \in [Adapters -> Addrs \cup {NoAddr}]
  /\ slot_adapter_id \in [Slots -> Adapters \cup {NoAdapter}]
  /\ copy_issued \in [Slots -> BOOLEAN]
  /\ prefetch_stream \in Seq(Requests)
  /\ a_buf \in [Slots -> Versions]
  /\ b_buf \in [Slots -> Versions]
  /\ dev_mem \in [Addrs -> Versions]
  /\ main_stream \in Seq(Ops)
  /\ segments \in [1 .. MaxSegments -> Segments]
  /\ num_segments \in 0 .. MaxSegments
  /\ next_version \in Versions
  /\ pair_in \in [Addrs -> Versions]
  /\ registered \in [Adapters -> Versions]
  /\ batch \in Seq(Wanted)
  /\ table_fresh \in BOOLEAN

Init ==
  /\ StoreInit
  /\ held_tensors = [a \in Adapters |-> NoAddr]
  /\ PoolInit
  /\ a_buf = [s \in Slots |-> 0]
  /\ b_buf = [s \in Slots |-> 0]
  /\ dev_mem = [d \in Addrs |-> 0]
  /\ main_stream = << >>
  /\ segments = [i \in 1 .. MaxSegments |-> NullSegment]
  /\ num_segments = 0
  /\ next_version = 0
  /\ pair_in = [d \in Addrs |-> 0]
  /\ registered = [a \in Adapters |-> 0]
  /\ batch = << >>
  /\ table_fresh = TRUE

-----------------------------------------------------------------------------
(* Host calls. *)

InTable(a) == \E i \in DOMAIN batch : batch[i].adapter_id = a

Settled(addr) ==
  \A i \in DOMAIN main_stream : main_stream[i].op = "write" => main_stream[i].addr # addr

(* The caller creates a weight pair.  PyTorch's allocator places it in memory
   no live tensor occupies, and its contents are written on the main stream, in
   launch order.  Live are the tensors the extension holds: the caller drops
   its own references, or still has the pair (KeptPair). *)
CreatePair(addr) ==
  /\ next_version < MaxVersion
  /\ Len(main_stream) < MaxQueued
  /\ \A b \in Adapters : held_tensors[b] # addr
  /\ next_version' = next_version + 1
  /\ pair_in' = [pair_in EXCEPT ![addr] = next_version + 1]
  /\ main_stream' = Append(main_stream,
       [op |-> "write", addr |-> addr, version |-> next_version + 1])

(* The caller hands over a pair it has kept: one evicted a moment ago, or the
   very tensors already registered, under this id or under another. *)
KeptPair(addr) ==
  /\ pair_in[addr] # 0
  /\ UNCHANGED <<next_version, pair_in, main_stream>>

(* A bug to rule out: tensors held under another id are not held again. *)
HoldIfUnheld(a, addr) ==
  held_tensors' = [held_tensors EXCEPT
                     ![a] = IF \E b \in Adapters : held_tensors[b] = addr THEN NoAddr ELSE addr]

Hold(a, addr) == held_tensors' = [held_tensors EXCEPT ![a] = addr]

(* An entry already under the id is overwritten and its tensors dropped;
   nothing asks whether another id holds the same tensors.  The staging pool
   is not told. *)
RegisterAdapter(a) ==
  /\ Obeys("release_first", OwnedBy(a) = {})
  /\ \E addr \in Addrs :
       /\ CreatePair(addr) \/ KeptPair(addr)
       /\ StoreRegister(a, addr)
       /\ Hold(a, addr)
       /\ registered' = [registered EXCEPT ![a] = pair_in'[addr]]
  /\ table_fresh' = (table_fresh /\ ~InTable(a))
  /\ UNCHANGED <<poolVars, stagedVars, dev_mem, tableVars, batch>>

(* Dropping the held tensors returns the memory to the allocator at once.
   A staging slot the adapter owns stays as it is. *)
EvictAdapter(a) ==
  /\ Contains(a)
  /\ Obeys("release_first", OwnedBy(a) = {})
  /\ StoreEvict(a)
  /\ held_tensors' = [held_tensors EXCEPT ![a] = NoAddr]
  /\ registered' = [registered EXCEPT ![a] = 0]
  /\ table_fresh' = (table_fresh /\ ~InTable(a))
  /\ UNCHANGED <<poolVars, stagedVars, dev_mem, main_stream, tableVars,
                 next_version, pair_in, batch>>

(* A bug to rule out: the -1 of a full pool is used as a slot. *)
PrefetchAdapterUnchecked(a) ==
  /\ Contains(a)
  /\ Len(prefetch_stream) < MaxCopies
  /\ AcquireAndMark(a, SlotFor(a),
       [slot |-> SlotFor(a), src |-> Lookup(a), step |-> "copy_A"])
  /\ UNCHANGED <<entries, held_tensors, stagedVars, dev_mem, main_stream,
                 tableVars, clientVars>>

(* Returns -1 and changes nothing when the adapter is unknown or no slot is
   free. *)
PrefetchAdapter(a) ==
  /\ Contains(a)
  /\ SlotFor(a) # NoSlot
  /\ Len(prefetch_stream) < MaxCopies
  /\ Obeys("settled_weights", Settled(Lookup(a)))
  /\ AcquireAndMark(a, SlotFor(a),
       [slot |-> SlotFor(a), src |-> Lookup(a), step |-> "copy_A"])
  /\ UNCHANGED <<entries, held_tensors, stagedVars, dev_mem, main_stream,
                 tableVars, clientVars>>

ReleasePrefetch(a) ==
  /\ OwnedBy(a) # {}
  /\ Obeys("idle_release", main_stream = << >>)
  /\ ReleaseSlot(FindSlotForAdapter(a))
  /\ table_fresh' = (table_fresh /\ ~InTable(a))
  /\ UNCHANGED <<entries, held_tensors, stagedVars, dev_mem, main_stream,
                 tableVars, next_version, pair_in, registered, batch>>

(* A bug to rule out: owning a slot is taken for being staged. *)
DescribeByOwnership(a) ==
  LET slot == FindSlotForAdapter(a)
  IN [adapter_id |-> a, ptr |-> Lookup(a), use_staging |-> slot # NoSlot,
      staging |-> slot]

(* One descriptor of build_segment_table: the staging pointers and use_staging
   are set together, and only for a slot whose copy has completed. *)
Describe(a) ==
  LET slot   == FindSlotForAdapter(a)
      staged == IsReady(slot)
  IN [adapter_id |-> a, ptr |-> Lookup(a), use_staging |-> staged,
      staging |-> IF staged THEN slot ELSE NoSlot]

(* The descriptors are written one by one into the live table.  An unknown
   adapter throws from the middle of the loop: the rows before it are already
   overwritten and num_segments still counts the previous batch. *)
BuildSegments(ids) ==
  LET unknown == {i \in DOMAIN ids : ~Contains(ids[i])}
      written == {i \in DOMAIN ids : \A j \in unknown : i < j}
  IN /\ Len(ids) <= MaxSegments
     /\ Obeys("idle_rebuild", main_stream = << >>)
     /\ segments' = [i \in 1 .. MaxSegments |->
                       IF i \in written THEN Describe(ids[i]) ELSE segments[i]]
     /\ IF unknown = {}
          THEN /\ num_segments' = Len(ids)
               /\ batch' = [i \in 1 .. Len(ids) |->
                     [adapter_id |-> ids[i], version |-> registered[ids[i]]]]
          ELSE UNCHANGED <<num_segments, batch>>
     /\ table_fresh' = (unknown = {})
     /\ UNCHANGED <<entries, held_tensors, poolVars, stagedVars, dev_mem,
                    main_stream, next_version, pair_in, registered>>

(* shrink() and expand() queue one kernel each; neither waits for it. *)
Launch(kernel) ==
  /\ Len(main_stream) < MaxQueued
  /\ Obeys("rebuild_first", table_fresh)
  /\ main_stream' = Append(main_stream, [op |-> kernel, want |-> batch])
  /\ UNCHANGED <<entries, held_tensors, poolVars, stagedVars, dev_mem,
                 tableVars, clientVars>>

-----------------------------------------------------------------------------
(* The device. *)

(* The operation at the head of the main stream completes. *)
MainStreamStep ==
  /\ main_stream # << >>
  /\ main_stream' = Tail(main_stream)
  /\ LET o == Head(main_stream)
     IN dev_mem' = IF o.op = "write" THEN [dev_mem EXCEPT ![o.addr] = o.version]
                                     ELSE dev_mem
  /\ UNCHANGED <<entries, held_tensors, poolVars, stagedVars, tableVars, clientVars>>

(* The request at the head of the prefetch stream copies A, then B, then
   completes its event.  It reads whatever its source holds at that moment. *)
PrefetchStreamStep ==
  /\ prefetch_stream # << >>
  /\ LET r == Head(prefetch_stream)
     IN \/ /\ r.step = "copy_A"
           /\ a_buf' = [a_buf EXCEPT ![r.slot] = dev_mem[r.src]]
           /\ prefetch_stream' = [prefetch_stream EXCEPT ![1].step = "copy_B"]
           /\ UNCHANGED b_buf
        \/ /\ r.step = "copy_B"
           /\ b_buf' = [b_buf EXCEPT ![r.slot] = dev_mem[r.src]]
           /\ prefetch_stream' = [prefetch_stream EXCEPT ![1].step = "event"]
           /\ UNCHANGED a_buf
        \/ /\ r.step = "event"
           /\ prefetch_stream' = Tail(prefetch_stream)
           /\ UNCHANGED stagedVars
  /\ UNCHANGED <<entries, held_tensors, slot_adapter_id, copy_issued, dev_mem,
                 main_stream, tableVars, clientVars>>

Batches == UNION {[1 .. n -> Adapters] : n \in 0 .. MaxSegments}

Next ==
  \/ \E a \in Adapters : \/ RegisterAdapter(a)
                         \/ EvictAdapter(a)
                         \/ PrefetchAdapter(a)
                         \/ ReleasePrefetch(a)
  \/ \E ids \in Batches : BuildSegments(ids)
  \/ \E kernel \in {"shrink", "expand"} : Launch(kernel)
  \/ MainStreamStep
  \/ PrefetchStreamStep

Spec == Init /\ [][Next]_vars

(* CUDA makes progress on both streams; nothing obliges the caller to call. *)
FairSpec == Spec /\ WF_vars(MainStreamStep) /\ WF_vars(PrefetchStreamStep)

-----------------------------------------------------------------------------
(* Properties. *)

(* A slot that is_ready() reports, and that build_segments will therefore     *)
(* point kernels at, holds the weights its adapter is registered with now:    *)
(* not those of an earlier registration of the id, not a copy that overtook   *)
(* the write of its source, not half of a copy (staging_buffer.h, is_ready).  *)
StagedWeightsAreCurrent ==
  \A s \in Slots, a \in Adapters :
    IsReady(s) /\ slot_adapter_id[s] = a => a_buf[s] = registered[a] /\ b_buf[s] = registered[a]

WeightsRead(seg, half) ==
  CASE seg.use_staging /\ half = "A" -> a_buf[seg.staging]
    [] seg.use_staging /\ half = "B" -> b_buf[seg.staging]
    [] OTHER -> dev_mem[seg.ptr]

ReadsWhatWasAsked(kernel) ==
  /\ num_segments = Len(kernel.want)
  /\ \A i \in 1 .. num_segments :
       /\ segments[i].adapter_id = kernel.want[i].adapter_id
       /\ WeightsRead(segments[i], IF kernel.op = "shrink" THEN "A" ELSE "B")
            = kernel.want[i].version

(* While a shrink or expand kernel runs (it is the head of the main stream),  *)
(* the table it reads is the batch it was launched for, and every segment's   *)
(* pointer, staged or not, leads to the weights that batch asked for, however *)
(* registrations, evictions, prefetches and releases interleaved with the     *)
(* streams (bgmv_shrink_kernel / bgmv_expand_kernel, build_segments).         *)
KernelReadsRegisteredWeights ==
  main_stream # << >> /\ Head(main_stream).op # "write"
    => ReadsWhatWasAsked(Head(main_stream))

(* An adapter never occupies two slots: acquire_slot reuses the adapter's     *)
(* own slot, so that find_slot_for_adapter and release_prefetch, which stop   *)
(* at the first match, see all there is to see.                               *)
SlotsHoldDistinctAdapters ==
  \A s, t \in Slots :
    slot_adapter_id[s] = slot_adapter_id[t] /\ slot_adapter_id[s] # NoAdapter => s = t

(* Every pointer the store hands to build_segments or to a prefetch copy      *)
(* leads, once the writes in flight have landed, to the weights registered    *)
(* under that id, whatever the caller does: neither registering over an id    *)
(* nor evicting one of several ids that share their tensors lets the          *)
(* allocator give that memory to another adapter (register_adapter,           *)
(* evict_adapter, held_tensors_).                                             *)
StoredPointersReachTheirWeights ==
  \A a \in Adapters :
    Contains(a) /\ Settled(Lookup(a)) => dev_mem[Lookup(a)] = registered[a]

(* A prefetched adapter's slot becomes ready unless the caller takes it back, *)
(* provided the caller does not prefetch for ever: prefetching an adapter     *)
(* again restarts its copy, the event then answers for the newer record and   *)
(* readiness recedes (mark_copy_issued).                                      *)
PrefetchBecomesReady ==
  <>[][\A a \in Adapters : ~PrefetchAdapter(a)]_vars =>
    \A s \in Slots, a \in Adapters :
      slot_adapter_id[s] = a ~> (IsReady(s) \/ slot_adapter_id[s] # a)
=============================================================================
