--------------------------- MODULE PunicaStepProofs ---------------------------
(***************************************************************************)
(* Theorems of PunicaStep.                                                 *)
(*                                                                         *)
(* The engine's kernels can only run in a step that began under a class    *)
(* that builds the table, because every change of class ends the step and  *)
(* a careful operator installs none that does not build over graphs of the *)
(* engine; and with max_num_seqs within the table no batch is refused and  *)
(* the scratch tensor, never smaller than the table, is allocated once.    *)
(*                                                                         *)
(* A row then ends with its own adapter's product because that table       *)
(* serves its batch (SegmentsProofs!SerialServes), which the engine's      *)
(* kernels and the stock path do alike.                                    *)
(***************************************************************************)
EXTENDS PunicaStep, SegmentsProofs

(* A decode step under a class that builds has its engine and its table. *)
StepIsPrepared ==
  step_open /\ Builds(token_lora_indices, is_prefill)
    => /\ engine
       /\ Rows(token_lora_indices) <= MaxSegments => table = SerialTable(token_lora_indices, MaxSegments)

GraphsKeepBuilding ==
  CarefulOperator /\ HasEngineGraph => wrapper_class \in TableBuilders /\ Available

PrepInv ==
  /\ token_lora_indices \in Batches
  /\ engine \in BOOLEAN
  /\ StepIsPrepared
  /\ GraphsKeepBuilding

ScratchInv ==
  /\ H_buf \in [id : Nat, rows : Nat]
  /\ H_buf # NoBuffer => H_buf.rows >= MaxSegments
  /\ HasEngineGraph => H_buf # NoBuffer
  /\ CapturedScratchIsLive

-----------------------------------------------------------------------------
(* A batch has as many rows as it has sequences. *)
LEMMA BatchRows == ASSUME NEW idx \in Batches PROVE Rows(idx) \in 0 .. MaxNumSeqs
<1>1. PICK n \in 0 .. MaxNumSeqs : idx \in [0 .. n - 1 -> Loras \cup {NoLora}]
  BY DEF Batches
<1>2. n \in Nat /\ DOMAIN idx = 0 .. n - 1
  BY <1>1, PunicaAssumption
<1>3. Cardinality(0 .. n - 1) = n
  <2>1. 0 \in Int /\ n - 1 \in Int
    BY <1>2
  <2>2. Cardinality(0 .. n - 1) = IF 0 > n - 1 THEN 0 ELSE n - 1 - 0 + 1
    BY <2>1, FS_Interval
  <2> QED
    BY <1>2, <2>2
<1> QED
  BY <1>2, <1>3 DEF Rows, Tokens

LEMMA LargerOfTwo ==
  ASSUME NEW m \in Nat, NEW n \in Nat
  PROVE  Max({m, n}) \in Nat /\ Max({m, n}) >= n
<1>1. \E x \in {m, n} : \A z \in {m, n} : x >= z
  <2>1. m >= n \/ n >= m
    OBVIOUS
  <2> QED
    BY <2>1
<1>2. Max({m, n}) \in {m, n} /\ \A z \in {m, n} : Max({m, n}) >= z
  BY <1>1 DEF Max
<1> QED
  BY <1>2

-----------------------------------------------------------------------------
LEMMA PrepStarts == ASSUME Init PROVE PrepInv
<1>1. token_lora_indices \in Batches
  <2>1. 0 \in 0 .. MaxNumSeqs /\ 0 .. 0 - 1 = {}
    BY PunicaAssumption
  <2>2. token_lora_indices \in [0 .. 0 - 1 -> Loras \cup {NoLora}]
    BY <2>1 DEF Init
  <2> QED
    BY <2>1, <2>2 DEF Batches
<1>2. engine \in BOOLEAN /\ ~step_open /\ graphs = {}
  BY DEF Init
<1> QED
  BY <1>1, <1>2 DEF PrepInv, StepIsPrepared, GraphsKeepBuilding, HasEngineGraph

(* Between steps nothing is promised of the table; only a class may change,   *)
(* and with care over graphs of the engine only to one that builds.           *)
LEMMA ReassignPrepares ==
  ASSUME PrepInv, NEW class, Reassign(class)
  PROVE  PrepInv'
<1>1. UNCHANGED <<token_lora_indices, engine, graphs, extension>> /\ ~step_open'
      /\ wrapper_class' = class
      /\ (CarefulOperator => (HasEngineGraph => class \in TableBuilders))
  BY DEF Reassign, StepEnds
<1>2. StepIsPrepared'
  BY <1>1 DEF StepIsPrepared
<1>3. GraphsKeepBuilding'
  BY <1>1 DEF PrepInv, GraphsKeepBuilding, HasEngineGraph, Available
<1> QED
  BY <1>1, <1>2, <1>3 DEF PrepInv

LEMMA AssignSlotPrepares ==
  ASSUME PrepInv, NEW l \in Loras, NEW a \in Adapters \cup {NoAdapter}, AssignSlot(l, a)
  PROVE  PrepInv'
<1>1. UNCHANGED <<token_lora_indices, engine, graphs, extension, wrapper_class>> /\ ~step_open'
  BY DEF AssignSlot, StepEnds
<1>2. StepIsPrepared'
  BY <1>1 DEF StepIsPrepared
<1>3. GraphsKeepBuilding'
  BY <1>1 DEF PrepInv, GraphsKeepBuilding, HasEngineGraph, Available
<1> QED
  BY <1>1, <1>2, <1>3 DEF PrepInv

LEMMA UpdateMetadataPrepares ==
  ASSUME PrepInv, NEW idx \in Batches, NEW prefill \in BOOLEAN, UpdateMetadata(idx, prefill)
  PROVE  PrepInv'
<1>1. UNCHANGED <<extension, wrapper_class, graphs>>
      /\ token_lora_indices' = idx /\ is_prefill' = prefill
  BY DEF UpdateMetadata
<1>2. Builds(token_lora_indices, is_prefill)' <=> Builds(idx, prefill)
  BY <1>1 DEF Builds, Available
<1>3. CASE Builds(idx, prefill)
  <2>1. engine' = TRUE /\ (Rows(idx) <= MaxSegments => table' = SerialTable(idx, MaxSegments))
    BY <1>3 DEF UpdateMetadata, BuildSegBounds
  <2>2. StepIsPrepared'
    BY <2>1, <1>1 DEF StepIsPrepared
  <2> QED
    BY <2>1, <2>2, <1>1 DEF PrepInv, GraphsKeepBuilding, HasEngineGraph, Available
<1>4. CASE ~Builds(idx, prefill)
  <2>1. engine' = engine
    BY <1>4 DEF UpdateMetadata
  <2>2. StepIsPrepared'
    BY <1>2, <1>4 DEF StepIsPrepared
  <2> QED
    BY <2>1, <2>2, <1>1 DEF PrepInv, GraphsKeepBuilding, HasEngineGraph, Available
<1> QED
  BY <1>3, <1>4

(* A call of add_lora that takes the engine finds it created. *)
LEMMA EngineIsThere ==
  ASSUME PrepInv, NEW eligible \in BOOLEAN, step_open, TakesEngine(eligible)
  PROVE  engine = TRUE /\ wrapper_class \in TableBuilders /\ Available
BY DEF PrepInv, StepIsPrepared, TakesEngine, Builds, TableBuilders

LEMMA AddLoraPrepares ==
  ASSUME PrepInv, NEW eligible \in BOOLEAN, AddLora(eligible)
  PROVE  PrepInv'
<1>1. UNCHANGED <<extension, wrapper_class, step_open, token_lora_indices, is_prefill, table,
                  graphs>>
  BY DEF AddLora
<1>2. engine' = engine
  <2>1. CASE TakesEngine(eligible)
    BY <2>1, EngineIsThere DEF AddLora, PrepareEngine
  <2>2. CASE ~TakesEngine(eligible)
    BY <2>2 DEF AddLora
  <2> QED
    BY <2>1, <2>2
<1> QED
  BY <1>1, <1>2 DEF PrepInv, StepIsPrepared, GraphsKeepBuilding, HasEngineGraph, Available, Builds

LEMMA CapturePrepares ==
  ASSUME PrepInv, NEW eligible \in BOOLEAN, Capture(eligible)
  PROVE  PrepInv' /\ engine' = engine
<1>1. UNCHANGED <<extension, wrapper_class, step_open, token_lora_indices, is_prefill, table>>
      /\ step_open
  BY DEF Capture
<1>2. engine' = engine /\ GraphsKeepBuilding'
  <2>1. CASE TakesEngine(eligible)
    <3>1. engine = TRUE /\ wrapper_class \in TableBuilders /\ Available
      BY <2>1, <1>1, EngineIsThere
    <3>2. engine' = TRUE
      BY <2>1 DEF Capture, PrepareEngine
    <3> QED
      BY <3>1, <3>2, <1>1 DEF GraphsKeepBuilding, Available
  <2>2. CASE ~TakesEngine(eligible)
    <3>1. engine' = engine
          /\ graphs' = graphs \cup {[rows |-> Rows(token_lora_indices),
                                     launches |-> "stock", scratch |-> 0]}
      BY <2>2 DEF Capture
    <3>2. HasEngineGraph' => HasEngineGraph
      BY <3>1 DEF HasEngineGraph
    <3> QED
      BY <3>1, <3>2, <1>1 DEF PrepInv, GraphsKeepBuilding, Available
  <2> QED
    BY <2>1, <2>2
<1>3. StepIsPrepared'
  BY <1>1, <1>2 DEF PrepInv, StepIsPrepared, Builds, Available
<1> QED
  BY <1>1, <1>2, <1>3 DEF PrepInv

LEMMA PrepInductive == ASSUME PrepInv, [Next]_vars PROVE PrepInv'
<1>1. CASE InstallDummy \/ InstallMetadataOnly \/ InstallAddLora
  BY <1>1, ReassignPrepares DEF InstallDummy, InstallMetadataOnly, InstallAddLora
<1>2. CASE \E l \in Loras, a \in Adapters \cup {NoAdapter} : AssignSlot(l, a)
  BY <1>2, AssignSlotPrepares
<1>3. CASE \E idx \in Batches, prefill \in BOOLEAN : UpdateMetadata(idx, prefill)
  BY <1>3, UpdateMetadataPrepares
<1>4. CASE \E eligible \in BOOLEAN : AddLora(eligible)
  BY <1>4, AddLoraPrepares
<1>5. CASE \E eligible \in BOOLEAN : Capture(eligible)
  BY <1>5, CapturePrepares
<1>6. CASE Replay \/ UNCHANGED vars
  <2>1. UNCHANGED <<extension, wrapper_class, step_open, token_lora_indices, is_prefill,
                    engine, table, graphs>>
    BY <1>6 DEF Replay, vars
  <2> QED
    BY <2>1 DEF PrepInv, StepIsPrepared, GraphsKeepBuilding, HasEngineGraph, Available, Builds
<1> QED
  BY <1>1, <1>2, <1>3, <1>4, <1>5, <1>6 DEF Next

-----------------------------------------------------------------------------
LEMMA ScratchStarts == ASSUME Init PROVE ScratchInv
BY DEF Init, ScratchInv, NoBuffer, HasEngineGraph, CapturedScratchIsLive

(* With the batch within the table, a scratch tensor once there is kept.      *)
LEMMA ScratchIsKept ==
  ASSUME MaxNumSeqs <= MaxSegments, PrepInv, ScratchInv, PrepareEngine
  PROVE  /\ H_buf' \in [id : Nat, rows : Nat]
         /\ H_buf' # NoBuffer /\ H_buf'.rows >= MaxSegments
         /\ H_buf # NoBuffer => H_buf' = H_buf
<1> DEFINE n == Rows(token_lora_indices)
<1>1. n \in Nat /\ n <= MaxSegments /\ MaxSegments \in Nat
  <2>1. n \in 0 .. MaxNumSeqs
    BY BatchRows DEF PrepInv
  <2> QED
    BY <2>1, PunicaAssumption, SegmentsAssumption
<1>2. H_buf' = ScratchFor(n)
  BY DEF PrepareEngine
<1> HIDE DEF n
<1>3. CASE H_buf = NoBuffer
  <2>1. H_buf' = [id |-> 1, rows |-> Max({n, MaxSegments})]
    BY <1>2, <1>3 DEF ScratchFor, NoBuffer
  <2>2. Max({n, MaxSegments}) \in Nat /\ Max({n, MaxSegments}) >= MaxSegments
    BY <1>1, LargerOfTwo
  <2> QED
    BY <2>1, <2>2, <1>3 DEF NoBuffer
<1>4. CASE H_buf # NoBuffer
  <2>1. H_buf.rows \in Nat /\ H_buf.rows >= MaxSegments
    BY <1>4 DEF ScratchInv
  <2>2. ~(H_buf.rows < n)
    BY <2>1, <1>1
  <2>3. H_buf' = H_buf
    BY <2>2, <1>2, <1>4 DEF ScratchFor
  <2> QED
    BY <2>1, <2>3, <1>4 DEF ScratchInv
<1> QED
  BY <1>3, <1>4

LEMMA ScratchInductive ==
  ASSUME MaxNumSeqs <= MaxSegments, PrepInv, ScratchInv, [Next]_vars
  PROVE  ScratchInv'
<1>1. CASE UNCHANGED <<H_buf, graphs>>
  BY <1>1 DEF ScratchInv, HasEngineGraph, CapturedScratchIsLive
<1>2. CASE PrepareEngine /\ UNCHANGED graphs
  <2>1. HasEngineGraph => H_buf' = H_buf
    BY <1>2, ScratchIsKept DEF ScratchInv
  <2>2. CapturedScratchIsLive'
    BY <1>2, <2>1 DEF ScratchInv, CapturedScratchIsLive, HasEngineGraph
  <2> QED
    BY <2>2, <1>2, ScratchIsKept DEF ScratchInv
<1>3. ASSUME PrepareEngine, NEW rows,
             graphs' = graphs \cup {[rows |-> rows, launches |-> "engine",
                                     scratch |-> H_buf'.id]}
      PROVE  ScratchInv'
  <2>1. HasEngineGraph => H_buf' = H_buf
    BY <1>3, ScratchIsKept DEF ScratchInv
  <2>2. ASSUME NEW g \in graphs', g.launches = "engine"
        PROVE  g.scratch = H_buf'.id
    <3>1. CASE g \in graphs
      BY <3>1, <2>1, <2>2 DEF ScratchInv, CapturedScratchIsLive, HasEngineGraph
    <3>2. CASE g \notin graphs
      BY <3>2, <1>3
    <3> QED
      BY <3>1, <3>2
  <2>3. CapturedScratchIsLive'
    BY <2>2 DEF CapturedScratchIsLive
  <2> QED
    BY <2>3, <1>3, ScratchIsKept DEF ScratchInv
<1>4. ASSUME UNCHANGED H_buf, NEW rows,
             graphs' = graphs \cup {[rows |-> rows, launches |-> "stock", scratch |-> 0]}
      PROVE  ScratchInv'
  BY <1>4 DEF ScratchInv, HasEngineGraph, CapturedScratchIsLive
<1>5. CASE \E eligible \in BOOLEAN : AddLora(eligible)
  BY <1>1, <1>2, <1>5 DEF AddLora
<1>6. CASE \E eligible \in BOOLEAN : Capture(eligible)
  BY <1>3, <1>4, <1>6 DEF Capture
<1>7. CASE ~(\E eligible \in BOOLEAN : AddLora(eligible) \/ Capture(eligible))
  <2>1. UNCHANGED <<H_buf, graphs>>
    BY <1>7 DEF Next, InstallDummy, InstallMetadataOnly, InstallAddLora, Reassign,
                           AssignSlot, UpdateMetadata, Replay, vars
  <2> QED
    BY <2>1, <1>1
<1> QED
  BY <1>5, <1>6, <1>7

-----------------------------------------------------------------------------
(* For any slots, batches and sizes of graph, the kernels never read a table  *)
(* of another step, provided that the operator is careful (update_metadata,   *)
(* build_seg_bounds).                                                         *)
THEOREM TableSafe ==
  ASSUME MaxNumSeqs <= MaxSegments, CarefulOperator
  PROVE  Spec => []TableIsOfThisBatch
<1>1. ASSUME PrepInv
      PROVE  TableIsOfThisBatch
  <2> SUFFICES ASSUME step_open, ~is_prefill, TakesEngine(TRUE) \/ HasEngineGraph
               PROVE  table = SerialTable(token_lora_indices, MaxSegments)
    BY DEF TableIsOfThisBatch
  <2>1. Builds(token_lora_indices, is_prefill)
    BY <1>1 DEF Builds, TakesEngine, TableBuilders, PrepInv, GraphsKeepBuilding
  <2>2. Rows(token_lora_indices) <= MaxSegments
    <3>1. Rows(token_lora_indices) \in 0 .. MaxNumSeqs
      BY <1>1, BatchRows DEF PrepInv
    <3> QED
      BY <3>1, PunicaAssumption, SegmentsAssumption
  <2> QED
    BY <2>1, <2>2, <1>1 DEF PrepInv, StepIsPrepared
<1> QED
  BY <1>1, PrepStarts, PrepInductive, PTL DEF Spec

(* The memory a graph recorded is never freed, in whatever order batches are  *)
(* served and graphs captured (add_lora_packed).                              *)
THEOREM CapturedScratchSafe ==
  ASSUME MaxNumSeqs <= MaxSegments
  PROVE  Spec => []CapturedScratchIsLive
<1>1. ASSUME PrepInv /\ ScratchInv, [Next]_vars
      PROVE  (PrepInv /\ ScratchInv)'
  BY <1>1, PrepInductive, ScratchInductive
<1>2. ASSUME Init
      PROVE  PrepInv /\ ScratchInv
  BY <1>2, PrepStarts, ScratchStarts
<1>3. ScratchInv => CapturedScratchIsLive
  BY DEF ScratchInv
<1> QED
  BY <1>1, <1>2, <1>3, PTL DEF Spec

(* No capture ever creates the engine (_get_engine).  *)
THEOREM EngineEager == Spec => EngineCreatedEagerly
<1>1. ASSUME PrepInv, [Next]_vars
      PROVE  [engine' # engine => graphs' = graphs]_vars
  <2>1. CASE \E eligible \in BOOLEAN : Capture(eligible)
    BY <1>1, <2>1, CapturePrepares
  <2>2. CASE ~\E eligible \in BOOLEAN : Capture(eligible)
    BY <1>1, <2>2 DEF Next, InstallDummy, InstallMetadataOnly, InstallAddLora, Reassign,
                           AssignSlot, UpdateMetadata, AddLora, Replay, vars
  <2> QED
    BY <2>1, <2>2
<1> QED
  BY <1>1, PrepStarts, PrepInductive, PTL DEF Spec, EngineCreatedEagerly

-----------------------------------------------------------------------------
(* What a row receives. *)

LEMMA BatchIs == ASSUME NEW idx \in Batches PROVE IsBatch(idx, Rows(idx))
<1>1. PICK n \in 0 .. MaxNumSeqs : idx \in [0 .. n - 1 -> Loras \cup {NoLora}]
  BY DEF Batches
<1>2. IsBatch(idx, n)
  BY <1>1, PunicaAssumption DEF IsBatch
<1> QED
  BY <1>2, BatchSize DEF Rows

(* The kernels over a table that serves the batch do what the stock path does. *)
LEMMA EngineIsStock ==
  ASSUME ServesBatch(table, token_lora_indices)
  PROVE  EngineResult = StockResult
<1> SUFFICES ASSUME NEW t \in Tokens(token_lora_indices), NEW a \in Adapters
             PROVE  Cardinality({k \in AppliedTo(table, t) : slots[table[k].adapter_id] = a})
                    = IF token_lora_indices[t] # NoLora /\ slots[token_lora_indices[t]] = a
                        THEN 1 ELSE 0
  BY DEF EngineResult, StockResult
<1> DEFINE S == {k \in AppliedTo(table, t) : slots[table[k].adapter_id] = a}
<1>1. ServesToken(table, token_lora_indices, t)
  BY DEF ServesBatch
<1>2. CASE token_lora_indices[t] = NoLora
  <2>1. S = {}
    BY <1>1, <1>2 DEF ServesToken
  <2> QED
    BY <1>2, <2>1, FS_EmptySet
<1>3. CASE token_lora_indices[t] # NoLora
  <2>1. PICK k : AppliedTo(table, t) = {k} /\ table[k].adapter_id = token_lora_indices[t]
    BY <1>1, <1>3 DEF ServesToken
  <2>2. CASE slots[token_lora_indices[t]] = a
    <3>1. S = {k}
      BY <2>1, <2>2
    <3>2. Cardinality({k}) = 1
      BY FS_Singleton
    <3> QED
      BY <1>3, <2>2, <3>1, <3>2
  <2>3. CASE slots[token_lora_indices[t]] # a
    <3>1. S = {}
      BY <2>1, <2>3
    <3> QED
      BY <1>3, <2>3, <3>1, FS_EmptySet
  <2> QED
    BY <2>2, <2>3
<1> QED
  BY <1>2, <1>3

(* A step that can reach the kernels finds a table that serves its batch. *)
LEMMA KernelsServe ==
  ASSUME MaxNumSeqs <= MaxSegments, PrepInv, step_open,
         Builds(token_lora_indices, is_prefill)
  PROVE  EngineResult = StockResult
<1>1. token_lora_indices \in Batches
  BY DEF PrepInv
<1>2. MaxSegments \in Nat /\ Rows(token_lora_indices) <= MaxSegments
  <2>1. Rows(token_lora_indices) \in 0 .. MaxNumSeqs
    BY <1>1, BatchRows
  <2> QED
    BY <2>1, PunicaAssumption, SegmentsAssumption
<1>3. table = SerialTable(token_lora_indices, MaxSegments)
  BY <1>2 DEF PrepInv, StepIsPrepared
<1>4. IsBatch(token_lora_indices, Rows(token_lora_indices))
  BY <1>1, BatchIs
<1>5. ServesBatch(table, token_lora_indices)
  BY <1>2, <1>3, <1>4, SerialServes
<1> QED
  BY <1>5, EngineIsStock

LEMMA RowsInductive ==
  ASSUME MaxNumSeqs <= MaxSegments, CarefulOperator, PrepInv, RowsGetTheirAdapter, [Next]_vars
  PROVE  RowsGetTheirAdapter'
<1>1. ASSUME UNCHANGED <<slots, token_lora_indices>>, y' = StockResult
      PROVE  RowsGetTheirAdapter'
  <2>1. StockResult' = StockResult
    BY <1>1 DEF StockResult
  <2> QED
    BY <1>1, <2>1 DEF RowsGetTheirAdapter
<1>2. ASSUME UNCHANGED <<slots, token_lora_indices, y>>
      PROVE  RowsGetTheirAdapter'
  <2>1. StockResult' = StockResult
    BY <1>2 DEF StockResult
  <2> QED
    BY <1>2, <2>1 DEF RowsGetTheirAdapter
<1>3. ASSUME y' = NotRun PROVE RowsGetTheirAdapter'
  BY <1>3 DEF RowsGetTheirAdapter, NotRun
<1>4. ASSUME NEW eligible \in BOOLEAN, AddLora(eligible) PROVE RowsGetTheirAdapter'
  <2>1. TakesEngine(eligible) => EngineResult = StockResult
    BY <1>4, KernelsServe DEF AddLora, TakesEngine, Builds, TableBuilders
  <2> QED
    BY <1>1, <1>4, <2>1 DEF AddLora
<1>5. CASE Replay
  <2>1. PICK g \in graphs : y' = IF g.launches = "engine" THEN EngineResult ELSE StockResult
    BY <1>5 DEF Replay
  <2>2. g.launches = "engine" => EngineResult = StockResult
    BY <1>5, KernelsServe DEF Replay, PrepInv, GraphsKeepBuilding, HasEngineGraph, Builds
  <2>3. y' = StockResult
    BY <2>1, <2>2
  <2> QED
    BY <1>1, <1>5, <2>3 DEF Replay
<1>6. CASE \E eligible \in BOOLEAN : Capture(eligible)
  BY <1>2, <1>6 DEF Capture
<1>7. CASE InstallDummy \/ InstallMetadataOnly \/ InstallAddLora
  BY <1>3, <1>7 DEF InstallDummy, InstallMetadataOnly, InstallAddLora, Reassign, StepEnds
<1>8. CASE \E l \in Loras, a \in Adapters \cup {NoAdapter} : AssignSlot(l, a)
  BY <1>3, <1>8 DEF AssignSlot, StepEnds
<1>9. CASE \E idx \in Batches, prefill \in BOOLEAN : UpdateMetadata(idx, prefill)
  BY <1>3, <1>9 DEF UpdateMetadata
<1>10. CASE UNCHANGED vars
  BY <1>2, <1>10 DEF vars
<1> QED
  BY <1>4, <1>5, <1>6, <1>7, <1>8, <1>9, <1>10 DEF Next

(* In every step, decode or prefill, called or replayed, under any class and  *)
(* with any adapters in the slots, each row gets its own adapter's product    *)
(* once: for any number of slots and adapters, and any sizes of table, piece  *)
(* and chunk with max_num_seqs within the table, provided that no class is    *)
(* installed that would leave captured graphs without their table.            *)
THEOREM RowsSafe ==
  ASSUME MaxNumSeqs <= MaxSegments, CarefulOperator
  PROVE  Spec => []RowsGetTheirAdapter
<1>1. ASSUME PrepInv /\ RowsGetTheirAdapter, [Next]_vars
      PROVE  (PrepInv /\ RowsGetTheirAdapter)'
  BY <1>1, PrepInductive, RowsInductive
<1>2. ASSUME Init
      PROVE  PrepInv /\ RowsGetTheirAdapter
  BY <1>2, PrepStarts DEF Init, RowsGetTheirAdapter
<1> QED
  BY <1>1, <1>2, PTL DEF Spec

-----------------------------------------------------------------------------
(* Types. *)

LEMMA SerialTyped ==
  ASSUME NEW idx \in Batches, Rows(idx) <= MaxSegments
  PROVE  SerialTable(idx, MaxSegments) \in Seq(SegmentRows) /\ Len(SerialTable(idx, MaxSegments)) <= MaxSegments
<1> DEFINE ser == SerialTable(idx, MaxSegments)
<1>1. PICK n \in Nat : n = Rows(idx) /\ IsBatch(idx, n) /\ n <= MaxSegments /\ MaxSegments \in Nat
  BY BatchIs, SegmentsAssumption DEF IsBatch
<1>2. ser \in Seq(Segs(idx)) /\ Len(ser) \in 0 .. n
  BY <1>1, SerialRows
<1>3. ASSUME NEW k \in 1 .. Len(ser) PROVE ser[k] \in SegmentRows
  <2>1. PICK i \in 0 .. n - 1 : \E s \in 0 .. Contribution(idx, i) - 1 : ser[k] = Segment(idx, i, s)
    BY <1>1, <1>3, SerialRows
  <2>2. PICK s \in 0 .. Contribution(idx, i) - 1 : ser[k] = Segment(idx, i, s)
    BY <2>1
  <2>3. /\ idx[i] # NoLora /\ s * MaxSegmentTokens \in Nat
        /\ Segment(idx, i, s).token_count \in 1 .. MaxSegmentTokens
    BY <1>1, SegmentIs
  <2>4. idx[i] \in Loras
    <3>1. PICK m \in 0 .. MaxNumSeqs : idx \in [0 .. m - 1 -> Loras \cup {NoLora}]
      BY DEF Batches
    <3>2. i \in DOMAIN idx
      BY <1>1 DEF IsBatch
    <3> QED
      BY <2>3, <3>1, <3>2
  <2>5. i + s * MaxSegmentTokens \in Nat
    <3>1. PICK b \in Nat : b = s * MaxSegmentTokens
      BY <2>3
    <3>2. i + b \in Nat
      BY <1>1
    <3> QED
      BY <3>1, <3>2
  <2> QED
    BY <2>2, <2>3, <2>4, <2>5 DEF Segment, SegmentRows
<1>4. ser = [k \in 1 .. Len(ser) |-> ser[k]] /\ Len(ser) \in Nat
  BY <1>1, <1>2
<1> HIDE DEF ser
<1>5. ser \in [1 .. Len(ser) -> SegmentRows]
  BY <1>3, <1>4
<1>6. ser \in Seq(SegmentRows)
  BY <1>4, <1>5
<1>7. Len(ser) <= MaxSegments
  BY <1>1, <1>2, SegmentsAssumption
<1> QED
  BY <1>6, <1>7 DEF ser

LEMMA EngineResultTyped ==
  ASSUME TypeOK
  PROVE  EngineResult \in [Tokens(token_lora_indices) -> [Adapters -> 0 .. MaxSegments]]
<1> SUFFICES ASSUME NEW t \in Tokens(token_lora_indices), NEW a \in Adapters
             PROVE  Cardinality({k \in AppliedTo(table, t) : slots[table[k].adapter_id] = a})
                    \in 0 .. MaxSegments
  BY DEF EngineResult
<1> DEFINE S == {k \in AppliedTo(table, t) : slots[table[k].adapter_id] = a}
<1>1. PICK l \in Nat : l = Len(table) /\ l <= MaxSegments /\ DOMAIN table = 1 .. l
  BY DEF TypeOK
<1>2. S \subseteq 1 .. l
  BY <1>1 DEF AppliedTo
<1>3. IsFiniteSet(1 .. l) /\ Cardinality(1 .. l) = l
  BY FS_Interval
<1> HIDE DEF S
<1>4. IsFiniteSet(S) /\ Cardinality(S) <= l
  BY <1>2, <1>3, FS_Subset
<1>5. Cardinality(S) \in Nat
  BY <1>4, FS_CardinalityType
<1>6. Cardinality(S) \in 0 .. MaxSegments
  BY <1>1, <1>4, <1>5, SegmentsAssumption
<1> QED
  BY <1>6 DEF S

LEMMA StockResultTyped ==
  StockResult \in [Tokens(token_lora_indices) -> [Adapters -> 0 .. MaxSegments]]
<1>1. 0 \in 0 .. MaxSegments /\ 1 \in 0 .. MaxSegments
  BY SegmentsAssumption
<1> QED
  BY <1>1 DEF StockResult

LEMMA PrepareEngineTyped ==
  ASSUME TypeOK, PrepareEngine
  PROVE  engine' \in BOOLEAN /\ H_buf' \in Buffers
<1> DEFINE n == Rows(token_lora_indices)
<1>1. n \in Nat
  <2>1. n \in 0 .. MaxNumSeqs
    BY BatchRows DEF TypeOK
  <2> QED
    BY <2>1, PunicaAssumption
<1>2. Max({n, MaxSegments}) \in Nat
  BY <1>1, LargerOfTwo, SegmentsAssumption
<1>3. H_buf' = ScratchFor(n) /\ H_buf'.id <= MaxScratch
  BY DEF PrepareEngine
<1> HIDE DEF n
<1>4. H_buf \in Buffers /\ MaxScratch \in Nat
  BY PunicaAssumption DEF TypeOK
<1>5. H_buf' \in Buffers
  <2>1. CASE H_buf' = H_buf
    BY <1>4, <2>1
  <2>2. CASE H_buf' # H_buf
    <3>1. H_buf' = [id |-> H_buf.id + 1, rows |-> Max({n, MaxSegments})]
      BY <1>3, <2>2 DEF ScratchFor
    <3>2. H_buf.id + 1 \in 0 .. MaxScratch
      BY <1>3, <1>4, <3>1 DEF Buffers
    <3> QED
      BY <1>2, <3>1, <3>2 DEF Buffers
  <2> QED
    BY <2>1, <2>2
<1> QED
  BY <1>5 DEF PrepareEngine

LEMMA InitTyped == Init => TypeOK
<1> SUFFICES ASSUME Init PROVE TypeOK
  OBVIOUS
<1>1. token_lora_indices \in Batches
  BY PrepStarts DEF PrepInv
<1>2. table \in Seq(SegmentRows) /\ Len(table) <= MaxSegments
  BY SegmentsAssumption DEF Init
<1>3. H_buf \in Buffers
  BY PunicaAssumption DEF Init, NoBuffer, Buffers
<1>4. y = NotRun
  BY DEF Init
<1> QED
  BY <1>1, <1>2, <1>3, <1>4 DEF Init, TypeOK, Classes

LEMMA NextTyped ==
  ASSUME TypeOK, [Next]_vars
  PROVE  TypeOK'
<1>1. ASSUME NEW class \in Classes, Reassign(class) PROVE TypeOK'
  BY <1>1 DEF TypeOK, Reassign, StepEnds
<1>2. CASE InstallDummy \/ InstallMetadataOnly \/ InstallAddLora
  BY <1>1, <1>2 DEF InstallDummy, InstallMetadataOnly, InstallAddLora, Classes
<1>3. ASSUME NEW l \in Loras, NEW a \in Adapters \cup {NoAdapter}, AssignSlot(l, a)
      PROVE  TypeOK'
  BY <1>3 DEF TypeOK, AssignSlot, StepEnds
<1>4. ASSUME NEW idx \in Batches, NEW prefill \in BOOLEAN, UpdateMetadata(idx, prefill)
      PROVE  TypeOK'
  <2>1. table' = table \/ (Rows(idx) <= MaxSegments /\ table' = SerialTable(idx, MaxSegments))
    BY <1>4 DEF UpdateMetadata, BuildSegBounds
  <2>2. table' \in Seq(SegmentRows) /\ Len(table') <= MaxSegments
    BY <1>4, <2>1, SerialTyped DEF TypeOK
  <2>3. engine' \in BOOLEAN
    BY <1>4 DEF TypeOK, UpdateMetadata
  <2> QED
    BY <1>4, <2>2, <2>3 DEF TypeOK, UpdateMetadata
<1>5. ASSUME NEW eligible \in BOOLEAN, AddLora(eligible) PROVE TypeOK'
  <2>1. engine' \in BOOLEAN /\ H_buf' \in Buffers
    BY <1>5, PrepareEngineTyped DEF AddLora, TypeOK
  <2>2. y' \in [Tokens(token_lora_indices) -> [Adapters -> 0 .. MaxSegments]]
    BY <1>5, EngineResultTyped, StockResultTyped DEF AddLora
  <2> QED
    BY <1>5, <2>1, <2>2 DEF AddLora, TypeOK
<1>6. ASSUME NEW eligible \in BOOLEAN, Capture(eligible) PROVE TypeOK'
  <2>1. engine' \in BOOLEAN /\ H_buf' \in Buffers
    BY <1>6, PrepareEngineTyped DEF Capture, TypeOK
  <2>2. 0 \in 0 .. MaxScratch /\ H_buf'.id \in 0 .. MaxScratch
    BY <2>1, PunicaAssumption DEF Buffers
  <2>3. graphs' \subseteq Graphs
    BY <1>6, <2>2 DEF Capture, TypeOK, Graphs
  <2> QED
    BY <1>6, <2>1, <2>3 DEF Capture, TypeOK
<1>7. CASE Replay
  <2>1. y' \in [Tokens(token_lora_indices) -> [Adapters -> 0 .. MaxSegments]]
    BY <1>7, EngineResultTyped, StockResultTyped DEF Replay
  <2> QED
    BY <1>7, <2>1 DEF Replay, TypeOK
<1>8. CASE UNCHANGED vars
  BY <1>8 DEF vars, TypeOK
<1> QED
  BY <1>2, <1>3, <1>4, <1>5, <1>6, <1>7, <1>8 DEF Next

(* The table has at most WP_MAX_SEGMENTS rows, each a piece of at most        *)
(* WP_MAX_SEGMENT_TOKENS tokens of a slot that exists, and a graph replays at *)
(* a size it was captured for, whatever happened before.                      *)
THEOREM PunicaTyped == Spec => []TypeOK
BY InitTyped, NextTyped, PTL DEF Spec
=============================================================================
