--------------------------- MODULE RegisteredTable ---------------------------
(***************************************************************************)
(* The segment table of the registered-adapter path by names and rows:     *)
(* segments_to_warp_pipe (lora_warp_pipe/scheduler_bridge.py) turns a      *)
(* scheduler's batch into ids and offsets, build_segment_table             *)
(* (csrc/dispatch/segment_builder.cpp) into the table the kernels read.    *)
(*                                                                         *)
(* A batch speaks of adapters by name, the table by id, and the weights    *)
(* come from the store, where the caller registered them under an id.      *)
(* Here the weights under an id are known by the name they were registered *)
(* for; memory, staging and streams are WarpPipeExtension's matter.        *)
(***************************************************************************)
EXTENDS Segments, AdapterIdMap

CONSTANT MaxRun   (* rows of the longest segment a caller asks for  *)

ASSUME TableAssumption == MaxRun \in Nat

VARIABLES
  entries,                  (* the store: name registered under each id *)
  segments, num_segments,   (* *meta_host_                              *)
  pointers,                 (* whose weights each row of it points at   *)
  asked,                    (* history: the last batch that was built   *)
  table_fresh               (* the caller has not invalidated it since  *)

tableVars == <<str_to_int, int_to_str, entries, segments, num_segments, pointers,
               asked, table_fresh>>

(* No name has an id beyond these. *)
Ids == 0 .. Cardinality(Names) - 1

INSTANCE AdapterStore WITH Adapters <- Ids, NoAddr <- NoName

TableRows == 0 .. MaxSegments - 1
NullRow == [adapter_id |-> NoLora, token_start |-> 0, token_count |-> 0]

NamesOf(b) == [i \in DOMAIN b |-> b[i].adapter_id]

(* segment_and_promote (external) sorts the tokens by adapter, so a batch has
   one run of rows for each of its adapters. *)
OneRunEach(names) == \A i, j \in DOMAIN names : names[i] = names[j] => i = j

ScheduledBatches ==
  {b \in UNION {[1 .. k -> [adapter_id : Names, segment_size : 1 .. MaxRun]]
                  : k \in 0 .. MaxSegments} : OneRunEach(NamesOf(b))}

(* A bug to rule out: the size of the segment before instead of all of them. *)
RowsOfPrevious(b, i) == IF i = 1 THEN 0 ELSE b[i - 1].segment_size

(* The running sum of segments_to_warp_pipe, before segment i. *)
RowsBefore(b, i) ==
  Cardinality({r \in (1 .. i - 1) \X (1 .. MaxRun) : r[2] <= b[r[1]].segment_size})

(* One row of build_segment_table: sizes come from the offsets as given; no
   run is too long for it. *)
Row(b, i, id) ==
  [adapter_id  |-> id,
   token_start |-> RowsBefore(b, i),
   token_count |-> RowsBefore(b, i + 1) - RowsBefore(b, i)]

Register(name) ==
  /\ GetOrAssign(name)
  /\ StoreRegister(str_to_int'[name], name)
  /\ UNCHANGED <<segments, num_segments, pointers, asked, table_fresh>>

(* The id stays the adapter's. *)
Evict(name) ==
  /\ Known(name)
  /\ StoreEvict(str_to_int[name])
  /\ table_fresh' = (table_fresh /\ \A i \in DOMAIN asked : asked[i].adapter_id # name)
  /\ UNCHANGED <<str_to_int, int_to_str, segments, num_segments, pointers, asked>>

(* segments_to_warp_pipe gives an id to every adapter of the batch, registered
   or not.  build_segment_table then writes row after row and throws at the
   first adapter the store does not know: the rows before it are overwritten,
   num_segments is not. *)
Build(b) ==
  LET ids     == [i \in DOMAIN b |-> str_to_int'[b[i].adapter_id]]
      unknown == {i \in DOMAIN b : ~Contains(ids[i])}
      written == {i \in DOMAIN b : \A j \in unknown : i < j}
  IN /\ GetOrAssignAll(NamesOf(b))
     /\ segments' = [r \in TableRows |->
          IF r + 1 \in written THEN Row(b, r + 1, ids[r + 1]) ELSE segments[r]]
     /\ pointers' = [r \in TableRows |->
          IF r + 1 \in written THEN Lookup(ids[r + 1]) ELSE pointers[r]]
     /\ num_segments' = IF unknown = {} THEN Len(b) ELSE num_segments
     /\ asked' = IF unknown = {} THEN b ELSE asked
     /\ table_fresh' = (unknown = {} \/ (table_fresh /\ written = {}))
     /\ UNCHANGED entries

(* A batch longer than the table is refused, after its adapters got ids. *)
BuildTooLong(names) ==
  /\ OneRunEach(names)
  /\ GetOrAssignAll(names)
  /\ UNCHANGED <<entries, segments, num_segments, pointers, asked, table_fresh>>

TableTypeOK ==
  /\ str_to_int \in [Names -> Ids \cup {NoId}]
  /\ int_to_str \in Seq(Names) /\ Len(int_to_str) <= Cardinality(Names)
  /\ entries \in [Ids -> Names \cup {NoName}]
  /\ segments \in [TableRows -> [adapter_id : Ids \cup {NoLora},
                                 token_start : Nat, token_count : Nat]]
  /\ num_segments \in 0 .. MaxSegments
  /\ pointers \in [TableRows -> Names \cup {NoName}]
  /\ asked \in ScheduledBatches
  /\ table_fresh \in BOOLEAN

TableInit ==
  /\ IdMapInit
  /\ StoreInit
  /\ segments = [r \in TableRows |-> NullRow]
  /\ num_segments = 0
  /\ pointers = [r \in TableRows |-> NoName]
  /\ asked = << >>
  /\ table_fresh = TRUE

TableNext ==
  \/ \E name \in Names : Register(name) \/ Evict(name)
  \/ \E b \in ScheduledBatches : Build(b)
  \/ \E names \in [1 .. MaxSegments + 1 -> Names] : BuildTooLong(names)

TableSpec == TableInit /\ [][TableNext]_tableVars

-----------------------------------------------------------------------------
(* Properties. *)

(* The two directions of the map are inverse to each other, and the store     *)
(* holds, under each id, weights registered for that id's adapter: the two    *)
(* id spaces do not drift apart (scheduler_bridge.py, docstring), whatever    *)
(* order register_adapter, evict_adapter and segments_to_warp_pipe ask in.    *)
IdsNameAdapters ==
  /\ \A x \in Names : Known(x) => str_to_int[x] < Len(int_to_str) /\ NameOf(str_to_int[x]) = x
  /\ \A id \in 0 .. Len(int_to_str) - 1 : str_to_int[NameOf(id)] = id
  /\ \A id \in Ids : Contains(id) => id < Len(int_to_str) /\ Lookup(id) = NameOf(id)

Table == [k \in 1 .. num_segments |-> segments[k - 1]]

(* The batch as the scheduler means it: the adapter of each row. *)
AskedRows ==
  LET rows[i \in 0 .. Len(asked)] ==
        IF i = 0 THEN << >>
        ELSE rows[i - 1] \o [r \in 1 .. asked[i].segment_size |-> asked[i].adapter_id]
  IN rows[Len(asked)]

(* While the caller's table is valid, each row of its batch is visited by one *)
(* segment, which carries the id of the row's own adapter and points at the   *)
(* weights registered for its name, and no other row is visited, although the *)
(* scheduler speaks of names and sizes, the table of ids and offsets, and the *)
(* pointers come from the store (segments_to_warp_pipe, build_segment_table). *)
RegisteredRowsGetTheirAdapter ==
  table_fresh =>
    /\ ServesBatch(Table, [t \in 0 .. Len(AskedRows) - 1 |-> str_to_int[AskedRows[t + 1]]])
    /\ \A k \in DOMAIN Table : \A t \in Visited(Table[k]) :
         pointers[k - 1] = AskedRows[t + 1]
=============================================================================
