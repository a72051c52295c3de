--------------------------- MODULE SegBoundsKernel ---------------------------
(***************************************************************************)
(* build_seg_bounds_kernel (csrc/kernels/warp_pipe_r32.cu): one block of   *)
(* WP_MAX_SEGMENTS threads, one per token position.  Each thread that      *)
(* starts a run of a real adapter contributes its number of pieces; an     *)
(* in-place Hillis-Steele scan over shared memory, with a barrier before   *)
(* and after every addition, turns the contributions into row ranges; then *)
(* each such thread writes its own rows of the table.                      *)
(***************************************************************************)
EXTENDS Segments

CONSTANTS
  Loras,
  ScanSegments   (* WP_MAX_SEGMENTS: threads of the block, rows of its table *)

ASSUME ScanAssumption == ScanSegments \in Nat \ {0}

VARIABLES
  token_lora_indices,
  pc,           (* where each thread is                          *)
  offset,       (* each thread's own scan offset                 *)
  v,            (* value fetched for the next addition           *)
  contrib,      (* shared                                        *)
  scan_segments, scan_num_segments   (* the table, *meta *)

scanVars == <<token_lora_indices, pc, offset, v, contrib, scan_segments, scan_num_segments>>

Threads == 0 .. ScanSegments - 1

(* total_tokens <= WP_MAX_SEGMENTS is checked before the launch. *)
Batches == UNION {[0 .. n - 1 -> Loras \cup {NoLora}] : n \in 0 .. ScanSegments}

SegmentRows == [adapter_id : Loras \cup {NoLora}, token_start : Threads,
                token_count : 0 .. MaxSegmentTokens]

(* Rows of an earlier step; never read beyond num_segments. *)
StaleRow == [adapter_id |-> NoLora, token_start |-> 0, token_count |-> 0]

Labels == {"contribute", "contributed", "fetch", "fetched", "add", "added", "emit", "done"}

ScanTypeOK ==
  /\ token_lora_indices \in Batches
  /\ pc \in [Threads -> Labels]
  /\ offset \in [Threads -> Nat]
  /\ v \in [Threads -> 0 .. ScanSegments]
  /\ contrib \in [Threads -> 0 .. ScanSegments]
  /\ scan_segments \in [Threads -> SegmentRows]
  /\ scan_num_segments \in 0 .. ScanSegments

(* contrib is shared memory: undefined until written, and written before it
   is read. *)
ScanInit ==
  /\ token_lora_indices \in Batches
  /\ pc = [i \in Threads |-> "contribute"]
  /\ offset = [i \in Threads |-> 1]
  /\ v = [i \in Threads |-> 0]
  /\ contrib = [i \in Threads |-> 0]
  /\ scan_segments = [i \in Threads |-> StaleRow]
  /\ scan_num_segments = 0

Goto(i, label) == pc' = [pc EXCEPT ![i] = label]

(* my_contrib, in a register of thread i. *)
MyContrib(i) ==
  IF /\ i \in Tokens(token_lora_indices)
     /\ IsRunStart(token_lora_indices, i)
     /\ token_lora_indices[i] # NoLora
    THEN Pieces(RunLen(token_lora_indices, i))
    ELSE 0

Contribute(i) ==
  /\ pc[i] = "contribute"
  /\ contrib' = [contrib EXCEPT ![i] = MyContrib(i)]
  /\ Goto(i, "contributed")
  /\ UNCHANGED <<token_lora_indices, offset, v, scan_segments, scan_num_segments>>

(* A bug to rule out: no barrier between the fetch and the addition. *)
FetchWithoutBarrier(i) ==
  /\ pc[i] = "fetch"
  /\ v' = [v EXCEPT ![i] = IF i >= offset[i] THEN contrib[i - offset[i]] ELSE 0]
  /\ Goto(i, "add")
  /\ UNCHANGED <<token_lora_indices, offset, contrib, scan_segments, scan_num_segments>>

Fetch(i) ==
  /\ pc[i] = "fetch"
  /\ v' = [v EXCEPT ![i] = IF i >= offset[i] THEN contrib[i - offset[i]] ELSE 0]
  /\ Goto(i, "fetched")
  /\ UNCHANGED <<token_lora_indices, offset, contrib, scan_segments, scan_num_segments>>

Add(i) ==
  /\ pc[i] = "add"
  /\ contrib' = [contrib EXCEPT ![i] = @ + v[i]]
  /\ Goto(i, "added")
  /\ UNCHANGED <<token_lora_indices, offset, v, scan_segments, scan_num_segments>>

(* contrib[i] is now the inclusive sum, so the rows before this thread's are
   as many as the exclusive one. *)
Emit(i) ==
  LET base_slot == contrib[i] - MyContrib(i)
      mine == {r \in Threads : base_slot <= r /\ r < contrib[i]}
  IN /\ pc[i] = "emit"
     /\ scan_num_segments' = IF i = ScanSegments - 1 THEN contrib[i] ELSE scan_num_segments
     /\ scan_segments' = [r \in Threads |->
          IF r \in mine THEN Segment(token_lora_indices, i, r - base_slot) ELSE scan_segments[r]]
     /\ Goto(i, "done")
     /\ UNCHANGED <<token_lora_indices, offset, v, contrib>>

PastBarrier(i) ==
  CASE pc[i] = "fetched" -> "add"
    [] pc[i] \in {"contributed", "added"} ->
         IF (IF pc[i] = "added" THEN 2 * offset[i] ELSE 1) < ScanSegments
           THEN "fetch" ELSE "emit"

(* __syncthreads: every thread has arrived at one. *)
Barrier ==
  /\ \A i \in Threads : pc[i] \in {"contributed", "fetched", "added"}
  /\ pc' = [i \in Threads |-> PastBarrier(i)]
  /\ offset' = [i \in Threads |-> IF pc[i] = "added" THEN 2 * offset[i] ELSE offset[i]]
  /\ UNCHANGED <<token_lora_indices, v, contrib, scan_segments, scan_num_segments>>

Finished == \A i \in Threads : pc[i] = "done"

(* The kernel is over. *)
Stop == Finished /\ UNCHANGED scanVars

Step(i) == Contribute(i) \/ Fetch(i) \/ Add(i) \/ Emit(i)

ScanNext == (\E i \in Threads : Step(i)) \/ Barrier \/ Stop

ScanSpec == ScanInit /\ [][ScanNext]_scanVars

ScanTable == [k \in 1 .. scan_num_segments |-> scan_segments[k - 1]]

-----------------------------------------------------------------------------
(* Properties. *)

(* Whatever order the threads run in between barriers, the table is the one   *)
(* the single-threaded build_segments_kernel writes, rows in token order: no  *)
(* scan addition sees a neighbour's sum of the same round, and no two threads *)
(* write one row.                                                             *)
SameTableAsSerial == Finished => ScanTable = SerialTable(token_lora_indices, ScanSegments)

(* A launch over the finished table gives every row of the batch its own      *)
(* adapter exactly once and touches no other row: runs longer than a segment  *)
(* are split, not truncated (warp_pipe_metadata.h, WP_MAX_SEGMENT_TOKENS).    *)
TableServesBatch == Finished => ServesBatch(ScanTable, token_lora_indices)
=============================================================================
