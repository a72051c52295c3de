----------------------------- MODULE ExpandKernel -----------------------------
(***************************************************************************)
(* A block of bgmv_expand_kernel (csrc/kernels/warp_pipe_r32.cu): each     *)
(* output tile of B is loaded, waited for and consumed in one iteration.   *)
(* The stages alternate, but nothing is loaded ahead.  The rank-generic    *)
(* and the DSAK copy of the kernel run the same steps.                     *)
(***************************************************************************)
EXTENDS WarpBlock

Labels == {"load", "wait", "tile_ready", "compute", "tile_consumed", "return",
           "done"}

TypeOK == BlockTypeOK(Labels)

Init == BlockInit("load")

Load(w) ==
  /\ pc[w] = "load"
  /\ Goto(w, "wait")
  /\ IF w \in Producers THEN IssueLoad(w, tile[w]) ELSE UNCHANGED copies
  /\ UNCHANGED <<tile, smem, acc>>

WaitAll(w) ==
  /\ pc[w] = "wait"
  /\ Waited(w)
  /\ Goto(w, "tile_ready")
  /\ UNCHANGED <<tile, smem, copies, acc>>

(* The consumer adds the tile to its columns of Y. *)
Compute(c) == pc[c] = "compute" /\ WorkThrough(c)

(* A bug to rule out: one iteration too many. *)
PastBarrierOneLong(w) ==
  CASE pc[w] = "tile_ready" -> IF w \in Producers THEN "tile_consumed" ELSE "compute"
    [] pc[w] = "tile_consumed" /\ tile[w] < NumTiles -> "load"
    [] OTHER -> "return"

PastBarrier(w) ==
  CASE pc[w] = "tile_ready" -> IF w \in Producers THEN "tile_consumed" ELSE "compute"
    [] pc[w] = "tile_consumed" /\ tile[w] + 1 < NumTiles -> "load"
    [] OTHER -> "return"

Barrier ==
  /\ \A w \in Warps : AtBarrier(w)
  /\ pc' = [w \in Warps |-> PastBarrier(w)]
  /\ tile' = [w \in Warps |-> IF PastBarrier(w) = "load" THEN tile[w] + 1 ELSE tile[w]]
  /\ UNCHANGED <<smem, copies, acc>>

Return(w) ==
  /\ pc[w] = "return"
  /\ Goto(w, "done")
  /\ UNCHANGED <<tile, smem, copies, acc>>

Step(w) == Load(w) \/ WaitAll(w) \/ Return(w)

Done == (\A w \in Warps : pc[w] = "done") /\ UNCHANGED vars

Next ==
  \/ \E w \in Warps : Step(w)
  \/ \E c \in Consumers : Compute(c)
  \/ \E p \in Producers : CopyLands(p)
  \/ Barrier
  \/ Done

Spec == Init /\ [][Next]_vars
=============================================================================
