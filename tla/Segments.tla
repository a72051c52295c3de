------------------------------- MODULE Segments -------------------------------
(***************************************************************************)
(* The arithmetic of segments: how a batch's token_lora_indices is cut     *)
(* into segments, which tokens the kernels' fixed launch grid visits for a *)
(* segment, and what each token of the batch ends up with.                 *)
(*                                                                         *)
(* A batch is a function from 0 .. n - 1 (rows of X and Y) to a lora index *)
(* or NoLora, as in token_lora_indices.                                    *)
(***************************************************************************)
EXTENDS Integers, Sequences, FiniteSets, FiniteSetsExt

CONSTANTS
  MaxSegments,       (* WP_MAX_SEGMENTS                                     *)
  MaxSegmentTokens,  (* WP_MAX_SEGMENT_TOKENS                               *)
  TokenChunk         (* WP_TOKEN_CHUNK, tokens of one block                 *)

ASSUME SegmentsAssumption ==
  /\ MaxSegments \in Nat \ {0}
  /\ MaxSegmentTokens \in Nat \ {0}
  /\ TokenChunk \in 1 .. MaxSegmentTokens

NoLora == -1

Tokens(idx) == DOMAIN idx

IsRunStart(idx, i) == i = 0 \/ idx[i - 1] # idx[i]

(* Length of the run of equal indices that starts at i. *)
RunLen(idx, i) ==
  Max({l \in 1 .. Cardinality(Tokens(idx)) - i : \A k \in i .. i + l - 1 : idx[k] = idx[i]})

(* A bug to rule out: a whole number of pieces gets an empty one more. *)
PiecesOneMore(len) == len \div MaxSegmentTokens + 1

(* Segments a run of this length is split into. *)
Pieces(len) == (len + MaxSegmentTokens - 1) \div MaxSegmentTokens

Segment(idx, i, s) ==
  [adapter_id  |-> idx[i],
   token_start |-> i + s * MaxSegmentTokens,
   token_count |-> Min({MaxSegmentTokens, RunLen(idx, i) - s * MaxSegmentTokens})]

(* build_segments_kernel: one thread walks the runs in order, skips those of  *)
(* no adapter, and stops emitting when the table, of `size' rows, is full.     *)
SerialTable(idx, size) ==
  LET n == Cardinality(Tokens(idx))
      from[i \in 0 .. n] ==
        IF i = n THEN << >>
        ELSE (IF idx[i] = NoLora THEN << >>
              ELSE [s \in 1 .. Pieces(RunLen(idx, i)) |-> Segment(idx, i, s - 1)])
             \o from[i + RunLen(idx, i)]
  IN SubSeq(from[0], 1, Min({size, Len(from[0])}))

(* grid.y of every launch. *)
MaxChunks == (MaxSegmentTokens + TokenChunk - 1) \div TokenChunk

(* A bug to rule out: grid.y is rounded down. *)
VisitedShort(seg) ==
  {t \in seg.token_start .. seg.token_start + seg.token_count - 1 :
     (t - seg.token_start) \div TokenChunk < MaxSegmentTokens \div TokenChunk}

(* Tokens some block of the launch visits: block (seg, y) takes chunk y of the
   segment, and there is no block beyond grid.y. *)
Visited(seg) ==
  {t \in seg.token_start .. seg.token_start + seg.token_count - 1 :
     (t - seg.token_start) \div TokenChunk < MaxChunks}

(* The segments whose product a launch adds to row t of Y. *)
AppliedTo(table, t) == {k \in DOMAIN table : t \in Visited(table[k])}

(* Row t receives its own adapter's product, once, or nothing if it has none. *)
ServesToken(table, idx, t) ==
  IF idx[t] = NoLora
    THEN AppliedTo(table, t) = {}
    ELSE \E k \in DOMAIN table : /\ AppliedTo(table, t) = {k}
                                 /\ table[k].adapter_id = idx[t]

(* PunicaWrapper.add_lora for every row, and no row past the batch. *)
ServesBatch(table, idx) ==
  /\ \A t \in Tokens(idx) : ServesToken(table, idx, t)
  /\ \A k \in DOMAIN table : Visited(table[k]) \subseteq Tokens(idx)
=============================================================================
