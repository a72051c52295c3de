# AdapterSlots++ in TLA+

AdapterSlots++ serves many LoRA adapters on one GPU. It has two halves: a CUDA
extension that multiplies each row of a batch with its own adapter (csrc/,
lora_warp_pipe/), and speculative decoding loops in which a small draft model
with per-tenant adapters proposes tokens that the target verifies
(benchmarks/e2e/). This directory models both, checks them with TLC on small
instances and proves with TLAPS, for all instances, every invariant and every
safety property of a step that the passing runs check: in the first half that
kernels read the weights and rows they were asked for, in the second that the
captured loops and the batched ones, with caches and without, are lossless and
that a draft is routed to its tenant. Liveness is checked by TLC alone.

Paths below are relative to the repository. Every definition that stands for
code is mapped to its lines in PROJECT.json under `map`; operators preceded by
the words "a bug to rule out" are deliberate mutations, used by no
specification, one for each property.

## 1. The system

### Parts, their state and their operations

| Part | State | Operations | Model |
|---|---|---|---|
| Adapter store, csrc/memory/adapter_store.h and the registration calls of csrc/pybind/warp_pipe_bindings.cpp | map id to device pointers; the held tensors that keep them alive | register, evict, contains, lookup | AdapterStore, WarpPipeExtension |
| Staging pool and prefetch engine, csrc/memory/staging_buffer.h, csrc/kernels/prefetch_kernel.cu | owner and issued flag of each slot, its A and B buffers and its event; the prefetch stream | acquire, release, mark, find, is_ready; prefetch_adapter, release_prefetch, is_prefetch_ready | StagingBufferPool, WarpPipeExtension |
| Segment table, csrc/dispatch/segment_builder.cpp | host-pinned descriptors read by kernels in flight | build_segments | WarpPipeExtension |
| Shrink and expand kernels, csrc/kernels/warp_pipe_r32.cu, warp_pipe_rgen.cuh | two shared-memory stages, copies in flight, a loop counter per warp | producers load, consumers compute, barriers | WarpBlock, ShrinkKernel, ExpandKernel, AdapterKernels |
| Segment bounds on the device, warp_pipe_r32.cu | shared contributions, the table | scan, emit | Segments, SegBoundsKernel |
| Launch grid and limits, warp_pipe_common.cuh, csrc/bridge/warp_pipe_metadata.h | none | which rows a launch visits | Segments |
| Live wrapper, lora_warp_pipe/punica_wrapper.py over build_seg_bounds and add_lora_packed | the wrapper's class, the engine, slots, the step's mapping, table, scratch tensor, captured graphs | install functions, update_metadata, add_lora, capture, replay | PunicaStep |
| Id map, AdapterIdMap of lora_warp_pipe/scheduler_bridge.py | name to id and back | get_or_assign | AdapterIdMap |
| Registered table by names, segments_to_warp_pipe over build_segment_table | store, table, pointers | register, evict, build | RegisteredTable |
| Scheduler bridge, scheduler_bridge.py over csrc/bridge/ | moving averages, step counter, pinned page | write, readback | SchedulerBridge |
| Decode of one sequence, eager, benchmarks/e2e/spec_loops.py | two DynamicCaches, committed tokens, pending token | propose, verify, crop | SpecKV |
| Decode of one sequence, captured, serve_kv_graph.py | two StaticCaches, write position | prefill, propose, verify, rewind; plain step | GraphedSpec |
| Mixed batch, captured, batched_spec_loop.py | StaticCaches, slot masks, write head, deferred proposal, token counts | prefill, run_tier | BatchedSpec |
| Batch to completion, eager, serve_kv_eager.py | append-only caches with masks, finish marks | run_kv, spec_kv_iter | EagerBatch |
| Loops without caches, serve_multitenant.py, serve_to_completion.py, run_nokv of serve_kv_eager.py | the rows, finish marks | nospec_iter, spec_iter, draft_step; run_strategy, run_to_completion, run_nokv | RecomputeBatch |
| Draft-side SGMV, serve_multitenant.py and Step of batched_spec_loop.py | routing vector | routing of a draft pass | DraftRouting |
| Draft distillation and selection, recipe.py, distill.py | checkpoints | distill_draft_es | no, see section 8 |
| Load gate and lossless check | none | one-shot measurements | no, see section 8 |
| Rank dispatch, tensor-core fragments, benchmarks, drivers of other systems, build | none | | no, see section 8 |

### How they interact

- `WarpPipeEngine` is one extension object. Host calls run under Python's GIL,
  one after another. They launch work on torch's current stream and return;
  `prefetch_adapter` copies on a second, non-blocking stream that nothing orders
  with the first.
- The segment table is shared memory in the literal sense: the host overwrites
  it in place, and a kernel reads it when it runs.
- The store keeps raw pointers; a dictionary of held tensors keeps the memory
  from going back to PyTorch's allocator, which hands freed addresses out again.
- On the live path a step is one `update_metadata`, which builds the table on
  the device, then one `add_lora` for each LoRA layer, eager or replayed.
- Between steps the LoRA manager changes what the slots hold, and an install
  function may change the wrapper's class under graphs already captured.
- Names are the scheduler's, ids the kernels'. One AdapterIdMap joins them: it
  is asked by register_adapter calls, by batches and by the bridge.
- WarpPipeMetadata, which every launch is given, has a table with two writers,
  one for each serving path, and a pointer to the page, which has one.
- The decoding loops are sequential programs over two models and their caches.
  What makes them hard is that a cache is rolled back after every verification,
  and each of the four loops does it differently.

### What is hard here, and what makes each part correct

- **Streams against host calls.** A copy runs while its source is evicted,
  registered again or reused; a table is rewritten under a queued kernel.
  Correct means: a kernel reads the weights its batch asked for.
- **Cached readiness.** is_ready vouches for a slot. Correct means: it vouches
  for what the slot's owner is registered with now.
- **Warps against warps.** Correct means: no consumer reads a stage that is
  incomplete or being refilled, each tile counts once, every warp returns.
- **Threads in a scan.** Correct means: the parallel table is the serial one,
  and every row of the batch is in exactly one visited segment.
- **Steps against captured graphs.** Correct means: whatever the sequence of
  prefill and decode steps, captures and replays, each row gets its adapter.
- **Two sides, two id spaces.** Correct means: index i of the page, id i of a
  segment and entry i of the store are one adapter, and a page shows one tick.
- **Routing.** A misrouted token costs acceptance and nothing else. Correct
  means: the draft attends a row's own tokens with the row's own adapter.
- **Rollback.** Correct means: the committed tokens are the target's own greedy
  ones whatever the draft proposes; and, for acceptance, the draft proposes from
  the committed tokens and nothing else.

`hazards` in PROJECT.json lists these at their lines, with the properties that
watch each, or the reason why none does.

## 2. Modules

| Module | What it is |
|---|---|
| AdapterStore, StagingBufferPool | the two host-side components of the extension |
| WarpPipeExtension | composes them with device memory, the table and both streams |
| WarpPipeExtensionProofs | theorems about it |
| TileReduction | abstract: every consumer works through every tile once, then all finish |
| WarpBlock | one thread block: warps, stages, asynchronous copies; the properties of both kernels |
| ShrinkKernel, ExpandKernel | the order of steps in each kernel |
| AdapterKernels | a block that runs either |
| AdapterKernelsProofs | theorems about it |
| Segments | cutting a batch into segments, and which rows a launch visits |
| SegmentsProofs | lemmas: what SerialTable computes, and that a table like it serves its batch |
| SegBoundsKernel | build_seg_bounds_kernel, thread by thread |
| AdapterIdMap | get_or_assign for a series of names |
| RegisteredTable | a scheduler's batch, by names, as a table of ids, rows and pointers; over Segments, AdapterIdMap and AdapterStore |
| SchedulerBridge | moving averages and the page; over AdapterIdMap |
| KernelMetadata | composes the three writers of WarpPipeMetadata: SegBoundsKernel, RegisteredTable, SchedulerBridge |
| KernelMetadataProofs | theorems about it and about its three writers |
| PunicaStep | the live path, over Segments |
| PunicaStepProofs | theorems about it |
| GreedyDecode | abstract: the committed tokens grow by the target's greedy continuation |
| Decoding | acceptance and what an iteration commits, shared by the loops |
| DraftRouting | routing vectors of a draft pass |
| SpecKV, GraphedSpec, BatchedSpec | a loop each |
| GraphedSpecProofs, BatchedSpecProofs | theorems about GraphedSpec and BatchedSpec |
| RecomputeBatch | the iterations without caches, under their three loops |
| EagerBatch | adds the cached loop run_kv and composes all four |
| EagerBatchProofs | theorems about EagerBatch, and so about RecomputeBatch |
| MC* | the values TLC uses for constants |

Composition: WarpPipeExtension EXTENDS the store and the pool, whose actions are
conjuncts of its own; AdapterKernels INSTANCEs both kernels; WarpBlock INSTANCEs
TileReduction and GraphedSpec INSTANCEs GreedyDecode, each under a refinement
mapping, and BatchedSpec and EagerBatch INSTANCE it once for every row;
RegisteredTable INSTANCEs AdapterStore with ids for adapters and names for
memory; PunicaStep takes build_seg_bounds_kernel by its result, which
SegBoundsKernel justifies. KernelMetadata EXTENDS its three writers, and the size of
the device's table (ScanSegments) and of the host's (MaxSegments) are constants of
their own. A behaviour has one writer at work:
all that the host's two share is the id map, and SchedulerBridge lets that grow
at any time by any names.

### How the modules follow the code

- **WarpPipeExtension.** One action per host call, the whole call: e.g.
  `BuildSegments` writes all its descriptors, and stops with the code's throw at
  the first unknown adapter, leaving the rows before it overwritten and
  num_segments as it was. `MainStreamStep` completes the operation at the head
  of the main stream; `PrefetchStreamStep` does an A copy, a B copy and the
  event record as three steps. A weight pair is its version number, so stale
  and half-copied weights are told from current ones. `registered`, `batch` and
  `table_fresh` are history: what the caller asked for. `RegisterAdapter` takes
  whatever tensors it is given, as the code does: a new pair (`CreatePair`), or one
  its caller has kept (`KeptPair`; `pair_in` remembers what each allocation was
  given), the tensors registered under another id among them. Both are external.
- **Kernels.** A warp is the unit of interleaving (its lanes run in lockstep). A
  stage is, for each producer, the tile whose share it holds. A copy lands at
  any time until its own warp waits for it. `__syncthreads` releases all warps
  in one step and does not tell one call site from another, as the hardware.
- **SegBoundsKernel.** A thread is the unit; fetch and addition of the scan are
  separate steps with the code's two barriers.
- **PunicaStep.** The conditions on layers (offset, slice, rank, device) are one
  Boolean input. A graph records the scratch tensor's identity; a replay reads
  the table as it is and consults no condition. Segments speak of slots, and a
  slot's adapter is looked up when a launch runs. A call of an install function
  or of the LoRA manager ends the step, as in vLLM's model runner. An install
  function asks nothing of captured graphs; an operator who does is
  `CarefulOperator`.
- **AdapterIdMap.** A series of get_or_assign calls is one operator: which
  positions are first seen, and which number each gets.
- **RegisteredTable.** `Build` is segments_to_warp_pipe and build_segment_table
  together: ids for all names first, registered or not, then the rows, up to the
  first adapter the store lacks. The weights under an id are known by the name
  they were registered for; memory and streams are WarpPipeExtension's.
- **SchedulerBridge.** A column's value is the adapter and tick it was read for,
  or zero when this call of write was given no object for it: every argument is
  optional per call, so a tick without readings may stand between two with them.
  The average is computed, in thousandths with the code's alpha, and the tile code
  from its thresholds. `shown`, `sources` and `past_readings` are history.
  `Tick`, `EmptyTick` and `RefusedTick` are write's three outcomes.
- **Decoding loops.** A cache is what was fed: tokens at positions, per slot. A
  model is `Target`, a function of what its query attends, so a hole, a stale
  slot or a token at a wrong position changes its answer. The draft's proposals
  are arbitrary. Where the draft is routed, what it computed of a token also
  carries the adapter, read from a routing vector by the token's place in the
  flattened batch, padding included; `seen` of RecomputeBatch records what each
  row's proposals were made from.

## 3. Runs

| Run | What it shows |
|---|---|
| extension_safety | With a caller that takes every precaution of section 5, staged weights are current and every kernel reads what its batch asked for |
| extension_any_caller | With no precaution at all: no adapter in two slots; every stored pointer leads to the weights registered under its id, though tensors are shared between ids, kept, dropped and their memory reused; and a prefetched slot becomes ready |
| staged_stale | Violated: without release before evict or re-register, a slot stays ready with old weights |
| adapter_kernels | Both pipelines are free of races on their stages and implement TileReduction, termination included |
| seg_bounds | The three writers of KernelMetadata. The device's parallel table is the serial one and serves every row once; the host's serves every row of the scheduler's batch with the weights registered for its name, whatever order ids were handed out in; the page's rows are of one adapter and one tick, and it is the last tick's while there are rows enough; the tile an adapter is shown lies between those its readings deserve |
| punica_steps | Any sequence of steps, installs (with the care of section 5), slot changes, captures and replays gives each row its adapter from this batch's table; a captured scratch tensor is never freed; the engine is never created inside a capture |
| punica_oversized | Violated: a decode batch larger than the table is served from an old one |
| spec_kv | Violated: the eager loop's committed tokens need not be greedy |
| graphed_spec | The captured loops refine GreedyDecode on caches full of earlier requests; the draft sees the committed tokens |
| batched_spec | Every row of a mixed batch refines GreedyDecode; what the draft attends was computed with the row's own adapter; the throughput counts committed tokens |
| eager_batch | Every row refines GreedyDecode, with caches and without; all strategies show the draft the same; no loop gives up on a row (NoRowIsGivenUp) and every loop does end (EveryRowFinishes) |
| eager_draft | Violated: after a rejection the draft no longer sees the last kept token |

### Bounds, and why they are enough

- **Extension, careful.** 2 adapters, 2 allocations, so that an adapter is
  registered anew in the other or, after an eviction, in the memory just freed,
  and two adapters have one each or share one; 1 slot so that adapters compete
  for it, 2 segments, 3 registrations (each adapter and one more), 2
  operations on each stream, so a copy and a kernel are always caught waiting
  behind another. Adapters and allocations are symmetric; no temporal property
  is checked in this run.
- **Extension, any caller.** 2 slots so that an adapter could occupy both; 2
  allocations and 2 pairs of weights, so that two ids share a pair, one of them is
  evicted or registered over, and the second pair is placed in what was freed; the
  table is absent (MaxSegments 0), since these properties do not speak of it. The
  temporal property is checked without symmetry.
- **Kernels.** The real 2 producers and 6 consumers. 4 tiles: each stage is
  refilled, and prologue, a middle iteration and the last iteration are all
  different.
- **Segments.** 5 rows and a segment limit of 3 tokens with chunks of 2: runs
  shorter than, equal to and longer than a segment, a segment of a chunk and a
  half, a full table, and a scan of three rounds. 5 is not a power of 2, the
  harder case; the code has 256 threads.
- **PunicaStep.** A table of 3 rows, every batch up to that size over 2 slots
  and none, 2 symmetric adapters to put in them, segments of 2 tokens, graphs of
  2 rows, two scratch tensors: one more than the code ever allocates when
  batches fit the table. punica_oversized has a table of 2 and batches of 3.
- **Registered table.** 3 names against a table of 2 rows: a batch leaves out an
  adapter, names it later, or is too long; runs of 1 to 3 rows. A run longer than
  WP_MAX_SEGMENT_TOKENS is the caller's to avoid (section 5), so MaxRun is it.
- **Bridge.** 3 names against a page of 2 rows: the third freezes it. 3 ticks
  and readings of 0, 0.6 and 1 cross both thresholds from either side; each call
  is given all arguments, all but readings, or none, so a tick without readings
  falls before, between and after ticks with them.
- **Decoding.** 2 tokens, 2 proposals, prompts of lengths 2 and 3. The loops of one
  sequence ask for 4 tokens, the mixed batch runs 3 iterations: enough for an
  iteration that rejects, one that accepts in part and one that accepts in full
  to follow one another in any order. The target of MCDecoding depends on every token and position it
  sees. The captured loop serves requests without end on the same caches, whose
  size (8) is the least GraphedAssumption allows; the mixed batch has the least
  BatchedAssumption allows, the cache of serve_mixed_traffic.py:189 without the 8
  slots it adds for slack. In EagerBatch the
  prompts are such that one row may meet EOS early and the other ends by its
  length; MaxIt is OutTokens, the least RecomputeAssumption allows, so that a row
  one token short when its iterations end is given up (the code gives up after
  4000 or 6000). Two rows have two tenants, so a misrouted token is seen, or one, so a
  sub-batch has two rows; prompts of different lengths make the padding of a
  batch and of a sub-batch differ.

Bounded counters: MaxVersion, MaxQueued, MaxCopies (WarpPipeExtension),
MaxScratch (PunicaStep), MaxTicks and MaxAsked (SchedulerBridge), Iters and
MaxIt (arguments in the code too).

## 4. Findings

1. **staged_stale.** `evict_adapter`, and `register_adapter` over an id, leave
   the adapter's slot assigned with its event complete, so `is_ready` answers
   true for the old copy (warp_pipe_bindings.cpp:121), where staging_buffer.h:24
   says it tells when a kernel may be pointed at the slot.
2. **punica_oversized.** `build_seg_bounds` says by its result that a batch does
   not fit; `update_metadata` drops the result (punica_wrapper.py:124). Beyond
   256 rows, which no configuration of the repository reaches.
3. **spec_kv.** The first crop after prefill is one token short (spec_loops.py:94):
   the target's cache holds N - 1 tokens then, and N - 2 in later iterations, which
   is what the formula fits. A token is lost from the target's cache and later
   tokens may differ from greedy ones.
4. **eager_draft.** The mask keeps the first `acc` of the draft's slots, the
   pending token's being one of them (serve_kv_eager.py:98), so the last kept
   token is hidden from the draft. Output is unaffected (eager_batch),
   acceptance is.

A further observation is stated as a precaution rather than as a finding,
because no doc promises otherwise: the prefetch copy may overtake the write of
the weights it copies (`settled_weights`, warp_pipe_bindings.cpp:53).

Observations on the bridge that no property contradicts, met while modelling:

- Past 64 adapters every write throws, and since ids are never taken back the
  page then stays as it is for good (PageIsOfLastTick says while).
- The first page has step_id 0 and so cannot be told from the zeroed page by it;
  num_active_adapters tells them apart.
- A refused tick still updates the averages, but no later page shows them, for
  the same reason (this is what makes PageRowsAreOfOneTick provable).
- The first reading of an adapter is its own average (scheduler_bridge.py:73), so
  an adapter may go from the smallest tile to the largest in one tick; and in a
  tick without readings every adapter has the smallest, however hot it was
  (lines 150, 151). TileIsWarranted allows for both.

## 5. Assumptions about the caller

The engine synchronises nothing for its caller. `ClientRules` names what a caller
may do for itself: release_first, settled_weights, idle_rebuild, idle_release,
rebuild_first (see WarpPipeExtension). extension_safety and the theorems on staged
weights and kernel reads assume those they need; extension_any_caller and three
theorems assume none. The tests and benchmarks of the
repository synchronise or register once at the start, which amounts to the rules;
nothing in the engine enforces them.

Nothing is asked of the tensors a caller registers: they may be registered under
several ids, or be dropped or kept. That memory which the extension holds is not
handed out again is a property of PyTorch's allocator (`CreatePair`).

More rules are part of other modules:

- PunicaStep, CarefulOperator: over captured graphs of the engine an operator
  installs only a class that goes on building the table. No install function asks
  (punica_wrapper.py:171-238). punica_steps and the theorems on rows and table assume
  it; with FALSE for it in PunicaSteps.cfg TLC finds TableIsOfThisBatch violated, and
  without that RowsGetTheirAdapter, by a replay under the ablation class. The other
  theorems do not depend on it.
- PunicaStepProofs: max_num_seqs does not exceed the table (256 rows); run
  punica_oversized shows what happens otherwise.
- RegisteredTable, MaxRun: a run of one adapter's rows fits a segment.
  warp_pipe_metadata.h:22 says a longer one must be rejected; build_segments does
  not, segment_and_promote (outside the repository) is expected to cut it.
- BatchedSpec, BatchedAssumption: the cache has room for the iterations run.
  serve_mixed_traffic.py:189 sizes it by args.iters, but lines 216 and 225 run 24
  iterations whatever that is: for an args.iters so far below 24 that the 8 spare
  slots do not make up for it, the assumption fails, and what a write past a
  StaticCache does is not modelled.

## 6. Fairness

- **Streams** (PrefetchBecomesReady). Weak fairness of MainStreamStep and
  PrefetchStreamStep: CUDA runs what is at the head of a stream. Nothing obliges
  the caller to call. The property is of callers that stop prefetching at some
  time, because each prefetch of an adapter records its event again and
  readiness recedes.
- **Blocks** (ReducesEveryTileOnce). Weak fairness of each warp's step, of each
  producer's copies landing and of the barrier: all warps of a block are
  resident, and the hardware schedules resident warps and completes copies.
- **Loops** (EveryRowFinishes). Weak fairness of Next: the Python loop runs on.

## 7. Proofs

WarpPipeExtensionProofs, for every set of adapters and allocations, every pool
and table size and every bound, from ExtensionAssumption alone:

- **TypeCorrect**: Spec => []TypeOK. One lemma for each action. The library
  theorem on finite sets is used to show that a non-empty set of slots has a
  first one (`FirstSlot` is a CHOOSE).
- **StoredPointersSafe** and **SlotsDistinct**: no assumption on the caller.
  The first is StoredPointersReachTheirWeights. MemoryInv adds what makes it hold
  though ids may share tensors: *PairsLand*, an allocation holds the pair last
  created in it, or the last write queued for it will put it there; and
  *StoreIsHeld*, held tensors mirror the store, and an id is registered with the
  pair its memory was last given. A new pair goes where nothing is held, so it
  disturbs no registered id, however many share the memory next to it. SlotsDistinct
  is inductive with types, since `SlotFor` looks for the adapter's own slot first.
- **StagedWeightsCorrect**: StagedWeightsAreCurrent, given CarefulStaging (the
  rules release_first and settled_weights; the other three are not needed). It
  is not inductive: it speaks of slots whose copy has completed, and says
  nothing while the copy is on its way. StagingInv adds, in this order:
  MemoryInv, as above;
  *OnlyHeadInProgress*: requests behind the head of the prefetch stream have
  copied nothing, which is what makes a half-done copy identifiable;
  *SourceSettled*: an adapter that owns a slot is registered and nothing is
  queued against its memory; *LastCopyIsCurrent*: the last request queued for an
  owned slot reads the owner's memory, and the halves it has already copied are
  current, as are both when no request is left. The step from there to the
  property is immediate. Requests left over by an earlier owner may still write
  to the slot, but only before that last one: this is the point of the whole
  invariant, and the reason `release_slot` need not cancel copies.

- **KernelReadsSafe**: KernelReadsRegisteredWeights, given EveryPrecaution (the
  caller keeps all five rules). Main-stream work runs long after it was launched,
  so LaunchedInv says of every kernel waiting at a position of the stream what
  will hold when it gets there: the table it will read then describes held memory
  (*TableServes*, *TableIsHeld*), that memory will hold the registered version
  (*WillHold*, by the last write queued before that position), and a slot it
  reads is settled (*SlotServes*, which is where StagingInv enters).

AdapterKernelsProofs, for any number of producer and consumer warps and any
number of tiles, for both kernels:

- **KernelTypeSafe** and **StageSafe**: TypeOK and StageIsStableWhileRead. A
  barrier releases all warps or none, so between two barriers all of them are in
  one phase of one tile (ShrinkPhases, ExpandPhases, OneTile). Given the phase, a
  producer's share says which of its copies have landed (ShrinkShare,
  ExpandShare) and a consumer's work which tiles it has added (ShrinkWork,
  ExpandWork). That producers fill one stage while consumers read the other
  follows from the parity of the tile.
- **KernelsReduce**: both kernels implement TileReduction without its fairness,
  from the same invariant: a consumer that adds a tile adds the next one.

SegmentsProofs has lemmas only, about a batch of any length. SerialTable is a
recursive function, and what such a function computes is a statement about every
argument, which wants induction. The induction is done by hand: the library says
that < on Nat is well founded, so a set of numbers has a least member (LeastNumber),
and a set with 0 that is closed under successor is Nat (Induction); at each number
the function is unfolded once.

- With P the sums of the contributions, the table holds the pieces of the run that
  starts at position i at the places after P[i] (Tabulates, SerialTabulates): what
  the serial pass walks, each thread of the scan can find for itself.
- A table with one row for each piece serves the batch: every row of it is in one
  visited segment, of its own slot, or in none if it has no slot (TabulatedServes).

KernelMetadataProofs, for every set of names, table, page, arguments and readings,
and for every number of threads and batch. The invariant KernelInv is that of each
writer, kept together: a writer leaves the state of the others alone but for the id
map, which it only adds to.

- **MetadataTyped**: TypeOK, of all three writers.
- **ScanIsSerial**: SameTableAsSerial. ScanInv says that the barriers keep all
  threads in one of four phases (contribute, fetch, add, emit), and what each has
  summed: before an addition with offset o the o positions that end at its own,
  after it twice as many (Window, WindowDoubles); what it fetched is therefore
  always a neighbour's sum of this round. When the offset has passed the block's
  size the sum is P, the thread's place in the table.
- **ScanServes**: TableServesBatch, from that and SegmentsProofs.
- **IdsSafe**: IdsNameAdapters. The numbers NewId gives to first-seen positions are
  consecutive (RankNumbers), so get_or_assign keeps both directions inverse to each
  other (GetOrAssignExtends), and there are never more ids than names.
- **RegisteredRowsSafe**: RegisteredRowsGetTheirAdapter, given that MaxRun, the
  longest run of one adapter's rows, is within a segment; the code does not check
  that (section 5). RowsRight says what a fresh table holds: the last batch built,
  segment by segment, under ids its adapters still have and at weights registered
  for them. AskedRows, recursive too, lines the rows of the batch up behind one
  another, so each row is in the segment of its own piece (AskedRowsAre).
- **PageRowsSafe**, **PageFresh**: PageRowsAreOfOneTick and PageIsOfLastTick.
  Neither is inductive. The strengthening says that until the ids outgrow the
  page no tick was refused, so ewma = shown and step_id = tick; afterwards the
  page does not change and the ids it speaks of are never taken back.
- **TileSafe**: TileIsWarranted. BridgeInv says that an average lies between two
  readings it is of (AveragesAreOfReadings), which one averaging step preserves
  (AverageStaysBetween), a tick without readings trivially; the tile size code
  grows with the average (TileSizeGrows).

PunicaStepProofs, for every set of slots and adapters and every table of at least
max_num_seqs rows:

- **TableSafe**: TableIsOfThisBatch, given CarefulOperator. A change of class ends
  the step, so when a step is open the class that built the table is the class at
  work, or graphs exist and both classes build.
- **RowsSafe**: RowsGetTheirAdapter, given CarefulOperator too, from that and
  SegmentsProofs: the table of this batch serves this batch, and a replay reads
  slots and table as they are.
- **CapturedScratchSafe**: CapturedScratchIsLive. The first scratch tensor has a
  table of rows, so no batch outgrows it and there is never a second.
- **EngineEager**: EngineCreatedEagerly, from: an open decode step of a class
  that takes the engine has already created it. No assumption on sizes.
- **PunicaTyped**: TypeOK. No assumption on sizes.

GraphedSpecProofs, for any target, draft, prompts, cache and number of proposals.
The one hypothesis is TargetIsToken: an argmax over the vocabulary is a token of it.

- **GraphedIsGreedy**: CommitsGreedyTokens, that is, GraphedSpec implements
  GreedyDecode. GraphedInv says what the write positions stand for: below clen - 1
  the target's cache holds the committed tokens at their positions, and so does the
  draft's, followed by the proposals it was fed (Holds). Above lies what earlier
  steps and requests left, which no query reaches before it is overwritten. So the
  target's i-th prediction is its greedy token after the committed ones and i - 1
  proposals (TargetPredicts); of the accepted proposals each equals the prediction
  before it, and the token added is a prediction (CommitIs): the step is Extend.
- **DraftSafe**, **GraphedTyped**: DraftSeesCommitted and TypeOK, from the same
  invariant. RoomLeft is what keeps the caches' domains: a request under way has
  slots left for its tokens and for gamma proposals beyond them.

BatchedSpecProofs, for any batch, prompts of any lengths, routing, cache of the size
serve_mixed_traffic.py asks for (BatchedAssumption), number of iterations and of
proposals. All but the first take the hypothesis TargetIsToken, as above.

- **DraftRouted**: DraftIsRouted. By the arithmetic of a flattened batch
  (PlaceOfRow), the entry of `repeat_interleave(S)` at any column of a row is the
  row's adapter (RoutingIsOwn), for prompts padded to a common length as for the
  passes of two tokens and of one. Verification makes slots valid again; the
  strengthening says the proposals have written all of these in this iteration.
- **RowsAreGreedy**: RowsDecodeGreedily, that is, every row implements GreedyDecode.
  Rows share a write head and drop different proposals, so a row's tokens lie in
  slots full of holes. BatchedInv says that the valid slots of a row, in the order
  of slots, hold exactly its committed tokens in the order of positions (Holds):
  in the target's cache all but the pending one (TargetHolds); in the draft's the
  same, followed by the proposals it was fed, or before the first of them one less
  where the last proposal was kept and is written only now (DraftHolds). So what
  mask4d lets a query see is the row's own sequence (AttendedIs), each prediction is the
  target's greedy token, and what is committed is a part of the greedy
  continuation. Verification re-establishes Holds under the new masks from the
  equality of kept proposals and predictions.
- **DraftSafe**: DraftSeesCommitted, from DraftHolds.
- **CountSafe**: CountsCommitted. A row has committed one token per iteration, and
  those accepted (RowOK); summed over the rows that is what the loop counts
  (`total` plus `acc_tot`), by a lemma on the sum over a finite set.
- **BatchedTyped**: TypeOK. W + iters * (Gamma + 1) <= MaxCache is what keeps the
  caches' domains: the head moves by Gamma + 1 however little is kept.

EagerBatchProofs, for any batch, prompts, routing, number of proposals and of tokens
asked for (up to the count at which the loops give up, RecomputeAssumption), under the
hypothesis TargetIsToken. One behaviour is one of four loops, so the invariant says
what they have in common. EagerInv adds to TypeOK:

- *RowsDecode*: behind every row there is a sequence x it has decoded. While the row
  takes what is committed, x is its committed tokens; once it is through, the batch
  goes on decoding it and x runs ahead of what is committed. A loop without caches
  has x in `rows`. The loop with caches has it in the target's: the real slots, in
  the order of slots, hold the tokens of x but the pending one, in the order of
  positions (Holds), and rejected and padding slots lie between them unseen.
- *InStep*: in the loop with caches all rows have made the same number of proposals,
  and verification starts when it is Gamma.
- *Progress*: an iteration commits a token at least, so a row not yet finished has
  as many new tokens as there were iterations; it is finished by its length before
  they are MaxIt.
- *Recorded*: what the draft was seen to read is DraftSeesItsTenant, and in the loops
  and strategies that record nothing there is nothing.

From it follow:

- **EagerTyped**: TypeOK.
- **RowsAreGreedy**: RowsDecodeGreedily. What a query attends is the prefix of x at
  its position (AttendedIs, by GreatestBelow and the order in Holds), so predictions
  are the target's greedy tokens of x, and what is committed is a part of the greedy
  continuation (CommitIs, VerifiedYields). Keeping acc + 1 of the slots verified
  re-establishes Holds for the longer x (MaskHolds). Of the draft's cache only its
  type is known and only that is needed: finding 4 is that it does not hold the
  committed tokens, so DraftSeesCommitted, proved of the two captured loops, is not
  a theorem here.
- **TenantSafe**: DraftSeesItsTenant. A tenant's sub-batch lists its rows in order,
  once each (SubBatchIs; ListingExists shows that there is such a listing), so
  `nt[sub] = ...` gives a row its own proposal; padding is masked and positions
  count from the row's first token (PassIs); the routing vector at any column of a
  row is the row's adapter, whether it is repeated over the columns (RepeatedIs) or
  uniform over a sub-batch (AdapterPassIs), and none for the shared draft (UniformIs).
- **NoneGivenUp**: NoRowIsGivenUp, from Progress.

Only model-checked:

- Liveness: PrefetchBecomesReady, the termination in ReducesEveryTileOnce and
  EveryRowFinishes. It is out of the prover's reach, as is ENABLED. NoneGivenUp and
  KernelsReduce are the safety half of the last two.
- SpecKV: its run is a finding (CommittedIsGreedy is violated), so there is nothing
  to prove. The same goes for the properties of staged_stale, punica_oversized and
  eager_draft.

The library's induction theorems take an operator as a parameter and cannot be used;
Induction, in SegmentsProofs and EagerBatchProofs, stands in for them.
No module has a RECURSIVE operator, so theorems can be added to any of them.

## 8. What is left out, and why

- Alignment, dtype, device and contiguity checks: they reject a call before it
  changes anything. Sizes of weights and buffers: nothing compares them, which
  is listed as a hazard.
- build_segments polls readiness slot by slot; the model polls at one instant.
  A slot that becomes ready in between would be described as staged a moment
  later, and a slot never stops being ready by itself.
- num_segments and global_load, which write passes through to the page.
- What a scheduler object computes: a value is known by what it was read for.
- Arithmetic. The products, half precision and ties of argmax are not modelled;
  `Target` is a function. Where ranks and adapters only scale or select, they
  are not told apart.
- The tile sizes: NumTiles is the quotient; a remainder is not handled by the
  kernels and listed as a hazard.
- Draft distillation: training. Its choice of a checkpoint is a maximum taken in
  sequence over measured numbers; the load gate and the lossless check are
  measurements made once. None keeps state that a later operation uses.
- Wall-clock accounting: goodput, latency percentiles, the cost sweep.
- Several calls of run_tier on one cache: a slot this call has not written is
  `Unset`, and no query may attend one (DraftSeesCommitted, RowsDecodeGreedily).
  GraphedSpec does serve request after request on one cache.
- Warp-per-token paths (unreachable, their threshold is 0), rank dispatch (a
  switch over instances of one template), tensor-core fragments (data movement
  in one instruction), measurement scripts, drivers of other systems, build.
- Library code is modelled from its use: DynamicCache and its crop, StaticCache
  attention, graph capture and replay, the stock Punica path. These definitions
  are marked external in the map.

## 9. Plan

What this project set out to model, check and prove is done. What would come next:

1. **SpecKV**, once spec_loops.py:94 is corrected: the refinement of GreedyDecode, by
   the invariant of GraphedSpecProofs with a cache's length in place of its write
   position.
2. **Draft cache of EagerBatch**, once serve_kv_eager.py:98 is corrected:
   DraftSeesCommitted as a passing property, by Holds of the draft's cache.
3. **Selection** (distill_draft_es) as an algorithm, should it come to keep state.

## 10. Running

In this directory, `tlc -config X.cfg M` with the module and configuration of a
run in PROJECT.json, and `tlapm M.tla` for each module of proofs. The runs take
between one second and about two minutes each, the proofs up to ten minutes. Leaves that take
a prover more than a second name it with a longer limit (SMTT, Z3T, ZenonT), so that a
slower machine proves them too.
