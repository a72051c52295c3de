------------------------------ MODULE PunicaStep ------------------------------
(***************************************************************************)
(* The live serving path: the wrapper classes of                           *)
(* lora_warp_pipe/punica_wrapper.py over build_seg_bounds and              *)
(* add_lora_packed (csrc/pybind/warp_pipe_bindings.cpp), with the model    *)
(* runner's CUDA graphs and the LoRA manager's slots (both external).      *)
(*                                                                         *)
(* Once per step update_metadata takes the new batch and, on a decode      *)
(* step, rebuilds the segment table on the device; then every LoRA layer   *)
(* calls add_lora, eagerly or by replaying a graph captured for the same   *)
(* number of rows.  A replay runs the recorded launches: it reads the      *)
(* table and the stacked weights as they are now, and the scratch tensor H *)
(* where it was at capture.  Between steps the manager may put another     *)
(* adapter in a slot and an operator may reassign the wrapper's class.     *)
(* All of it is on one thread and one stream.  build_seg_bounds_kernel is  *)
(* taken by its result, SerialTable (SegBoundsKernel!SameTableAsSerial).   *)
(***************************************************************************)
EXTENDS Segments

CONSTANTS
  Loras,         (* slots of the stacked LoRA weights                         *)
  Adapters,      (* adapters a slot may hold                                  *)
  NoAdapter,     (* an empty slot                                             *)
  MaxNumSeqs,    (* the server's max_num_seqs: largest decode batch           *)
  CaptureSizes,  (* rows of the batches graphs are captured for               *)
  CarefulOperator,  (* over captured graphs of the engine an operator installs
                       only a class that goes on building their table         *)
  MaxScratch     (* bound: scratch tensors allocated in a behaviour           *)

ASSUME PunicaAssumption ==
  /\ Loras \subseteq Nat
  /\ NoAdapter \notin Adapters
  /\ MaxNumSeqs \in Nat /\ CaptureSizes \subseteq 0 .. MaxNumSeqs
  /\ MaxScratch \in Nat
  /\ CarefulOperator \in BOOLEAN

VARIABLES
  extension,            (* importable, and switched on by AS_WARP_PIPE        *)
  wrapper_class,        (* wrapper.__class__                                  *)
  slots,                (* the adapter in each slot                           *)
  step_open,            (* update_metadata has run for the batch below        *)
  token_lora_indices, is_prefill,
  engine,               (* _engine exists                                     *)
  table,                (* segments[0 .. num_segments - 1]                    *)
  H_buf,                (* scratch tensor: identity and rows                  *)
  graphs,               (* captured layers: rows, launches, scratch recorded  *)
  y                     (* what the last add_lora added                       *)

vars == <<extension, wrapper_class, slots, step_open, token_lora_indices, is_prefill,
          engine, table, H_buf, graphs, y>>

Classes == {"stock", "warp_pipe", "metadata_only", "dummy"}

(* The classes that override update_metadata. *)
TableBuilders == {"warp_pipe", "metadata_only"}

Batches == UNION {[0 .. n - 1 -> Loras \cup {NoLora}] : n \in 0 .. MaxNumSeqs}
Rows(idx) == Cardinality(Tokens(idx))

NoBuffer == [id |-> 0, rows |-> 0]
NotRun   == [row \in {} |-> << >>]

Buffers == [id : 0 .. MaxScratch, rows : Nat]
Graphs  == [rows : CaptureSizes, launches : {"stock", "engine"}, scratch : 0 .. MaxScratch]
SegmentRows == [adapter_id : Loras, token_start : Nat, token_count : 1 .. MaxSegmentTokens]

TypeOK ==
  /\ extension \in {"missing", "off", "on"}
  /\ wrapper_class \in Classes
  /\ slots \in [Loras -> Adapters \cup {NoAdapter}]
  /\ step_open \in BOOLEAN
  /\ token_lora_indices \in Batches
  /\ is_prefill \in BOOLEAN
  /\ engine \in BOOLEAN
  /\ table \in Seq(SegmentRows) /\ Len(table) <= MaxSegments
  /\ H_buf \in Buffers
  /\ graphs \subseteq Graphs
  /\ y = NotRun \/ y \in [Tokens(token_lora_indices) -> [Adapters -> 0 .. MaxSegments]]

Init ==
  /\ extension \in {"missing", "off", "on"}
  /\ wrapper_class = "stock"
  /\ slots = [l \in Loras |-> NoAdapter]
  /\ step_open = FALSE
  /\ token_lora_indices = [i \in {} |-> NoLora]
  /\ is_prefill = FALSE
  /\ engine = FALSE
  /\ table = << >>
  /\ H_buf = NoBuffer
  /\ graphs = {}
  /\ y = NotRun

(* warp_pipe_available *)
Available == extension = "on"

HasEngineGraph == \E g \in graphs : g.launches = "engine"

-----------------------------------------------------------------------------
(* Between steps. *)

StepEnds == step_open' = FALSE /\ y' = NotRun

(* A wrapper that already is of the class is refused.  Captured graphs are not
   looked at: that is the operator's precaution, if it is taken. *)
Reassign(class) ==
  /\ wrapper_class # class
  /\ CarefulOperator => (HasEngineGraph => class \in TableBuilders)
  /\ wrapper_class' = class
  /\ StepEnds
  /\ UNCHANGED <<extension, slots, token_lora_indices, is_prefill, engine, table, H_buf, graphs>>

InstallDummy        == Reassign("dummy")
InstallMetadataOnly == extension # "missing" /\ Reassign("metadata_only")
InstallAddLora      == extension # "missing" /\ Reassign("warp_pipe")

(* External: the LoRA manager activates an adapter in a slot, evicting the one
   that was there, or empties the slot.  An adapter is in one slot at most. *)
AssignSlot(l, a) ==
  /\ slots[l] # a
  /\ a # NoAdapter => \A m \in Loras : slots[m] # a
  /\ slots' = [slots EXCEPT ![l] = a]
  /\ StepEnds
  /\ UNCHANGED <<extension, wrapper_class, token_lora_indices, is_prefill, engine, table,
                 H_buf, graphs>>

-----------------------------------------------------------------------------
(* A step. *)

(* A bug to rule out: the table of a batch of the same size is reused. *)
BuildWhenResized(idx) ==
  table' = IF Rows(idx) <= MaxSegments /\ Rows(idx) # Rows(token_lora_indices)
             THEN SerialTable(idx, MaxSegments) ELSE table

(* build_seg_bounds: a batch with more rows than the table is not built, and
   the caller is told so by a result. *)
BuildSegBounds(idx) ==
  table' = IF Rows(idx) <= MaxSegments THEN SerialTable(idx, MaxSegments) ELSE table

(* A bug to rule out: the class without kernels of its own needs no table. *)
BuildsForKernels(idx, prefill) == ~prefill /\ wrapper_class = "warp_pipe" /\ Available

(* A bug to rule out: a batch without LoRA rows is not worth a table. *)
BuildsWhenLora(idx, prefill) ==
  ~prefill /\ wrapper_class \in TableBuilders /\ Available
    /\ \E t \in Tokens(idx) : idx[t] # NoLora

Builds(idx, prefill) == ~prefill /\ wrapper_class \in TableBuilders /\ Available

(* update_metadata, which drops the result of build_seg_bounds.  The rows' slots
   were filled before (external). *)
UpdateMetadata(idx, prefill) ==
  /\ \A t \in Tokens(idx) : idx[t] # NoLora => slots[idx[t]] # NoAdapter
  /\ step_open' = TRUE
  /\ token_lora_indices' = idx
  /\ is_prefill' = prefill
  /\ IF Builds(idx, prefill)
       THEN engine' = TRUE /\ BuildSegBounds(idx)
       ELSE UNCHANGED <<engine, table>>
  /\ y' = NotRun
  /\ UNCHANGED <<extension, wrapper_class, slots, H_buf, graphs>>

(* A bug to rule out: a prefill takes the kernels too. *)
TakesEngineAlways(eligible) == wrapper_class = "warp_pipe" /\ Available /\ eligible

(* add_lora calls the engine.  eligible stands for the conditions on the layer:
   no y_offset or y_slice_size, CUDA tensors, rank 32. *)
TakesEngine(eligible) ==
  wrapper_class = "warp_pipe" /\ ~is_prefill /\ Available /\ eligible

(* A bug to rule out: the scratch tensor is made as large as the call needs. *)
ScratchAsNeeded(n) ==
  IF H_buf = NoBuffer \/ H_buf.rows < n
    THEN [id |-> H_buf.id + 1, rows |-> n]
    ELSE H_buf

(* The scratch tensor grows, and never by less than a whole table of rows. *)
ScratchFor(n) ==
  IF H_buf = NoBuffer \/ H_buf.rows < n
    THEN [id |-> H_buf.id + 1, rows |-> Max({n, MaxSegments})]
    ELSE H_buf

(* add_lora_packed on the host: _get_engine, then the scratch of the batch. *)
PrepareEngine ==
  /\ engine' = TRUE
  /\ H_buf' = ScratchFor(Rows(token_lora_indices))
  /\ H_buf'.id <= MaxScratch

(* The stock path of the parent class (external): each row its own adapter. *)
StockResult ==
  [t \in Tokens(token_lora_indices) |->
     [a \in Adapters |->
        IF token_lora_indices[t] # NoLora /\ slots[token_lora_indices[t]] = a THEN 1 ELSE 0]]

(* The two DSAK kernels: every segment of the table adds the product of the
   adapter its slot holds to the rows it visits. *)
EngineResult ==
  [t \in Tokens(token_lora_indices) |->
     [a \in Adapters |->
        Cardinality({k \in AppliedTo(table, t) : slots[table[k].adapter_id] = a})]]

AddLora(eligible) ==
  /\ step_open
  /\ IF TakesEngine(eligible)
       THEN PrepareEngine /\ y' = EngineResult
       ELSE y' = StockResult /\ UNCHANGED <<engine, H_buf>>
  /\ UNCHANGED <<extension, wrapper_class, slots, step_open, token_lora_indices, is_prefill,
                 table, graphs>>

(* The same call while a decode graph is captured: the host code runs, the
   launches are recorded with the tensors' addresses, and nothing is computed. *)
Capture(eligible) ==
  /\ step_open /\ ~is_prefill
  /\ Rows(token_lora_indices) \in CaptureSizes
  /\ IF TakesEngine(eligible)
       THEN /\ PrepareEngine
            /\ graphs' = graphs \cup {[rows |-> Rows(token_lora_indices),
                                       launches |-> "engine", scratch |-> H_buf'.id]}
       ELSE /\ graphs' = graphs \cup {[rows |-> Rows(token_lora_indices),
                                       launches |-> "stock", scratch |-> 0]}
            /\ UNCHANGED <<engine, H_buf>>
  /\ UNCHANGED <<extension, wrapper_class, slots, step_open, token_lora_indices, is_prefill,
                 table, y>>

(* Python does not run: neither the class nor the scratch are looked at. *)
Replay ==
  /\ step_open /\ ~is_prefill
  /\ \E g \in graphs :
       /\ g.rows = Rows(token_lora_indices)
       /\ y' = IF g.launches = "engine" THEN EngineResult ELSE StockResult
  /\ UNCHANGED <<extension, wrapper_class, slots, step_open, token_lora_indices, is_prefill,
                 engine, table, H_buf, graphs>>

Next ==
  \/ InstallDummy \/ InstallMetadataOnly \/ InstallAddLora
  \/ \E l \in Loras, a \in Adapters \cup {NoAdapter} : AssignSlot(l, a)
  \/ \E idx \in Batches, prefill \in BOOLEAN : UpdateMetadata(idx, prefill)
  \/ \E eligible \in BOOLEAN : AddLora(eligible) \/ Capture(eligible)
  \/ Replay

Spec == Init /\ [][Next]_vars

-----------------------------------------------------------------------------
(* Properties. *)

(* Whatever steps came before it, prefill or decode, eager, captured or       *)
(* replayed, under whichever class and with whichever adapters in the slots,  *)
(* an add_lora call gives each row of this step's batch the product of the    *)
(* row's own adapter, once, and nothing to rows without one: what the engine  *)
(* cannot serve goes to the stock path (punica_wrapper.py, docstring).        *)
RowsGetTheirAdapter == y # NotRun => y = StockResult

(* While a decode step can reach the engine's kernels, by a call or by a      *)
(* graph, the table they read is the one of this step's batch: no prefill, no *)
(* capture and no class installed meanwhile with care left an older one       *)
(* (build_seg_bounds; docstring of add_lora_packed: must already have run).   *)
TableIsOfThisBatch ==
  step_open /\ ~is_prefill /\ (TakesEngine(TRUE) \/ HasEngineGraph)
    => table = SerialTable(token_lora_indices, MaxSegments)

(* A captured graph's scratch is the engine's live H tensor: growing H would  *)
(* free the memory every recorded launch still writes (add_lora_packed).      *)
CapturedScratchIsLive ==
  \A g \in graphs : g.launches = "engine" => g.scratch = H_buf.id

(* The engine, whose constructor allocates pinned host memory, is never       *)
(* created by a call that is being captured: update_metadata, which is never  *)
(* captured, has created it before (_get_engine, update_metadata).            *)
EngineCreatedEagerly == [][engine' # engine => graphs' = graphs]_vars
=============================================================================
