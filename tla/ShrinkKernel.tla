----------------------------- MODULE ShrinkKernel -----------------------------
(***************************************************************************)
(* A block of bgmv_shrink_kernel (csrc/kernels/warp_pipe_r32.cu): tile 0   *)
(* is loaded before the loop, and iteration t loads tile t + 1 while tile  *)
(* t is consumed.  The kernel's rank-generic copy in warp_pipe_rgen.cuh    *)
(* and its DSAK copy run the same steps.                                   *)
(*                                                                         *)
(* Blocks are independent, and one with no chunk of its segment returns    *)
(* before its first barrier, so one block is the whole model.              *)
(***************************************************************************)
EXTENDS WarpBlock

Labels == {"prologue", "wait", "tile_ready", "load", "compute", "tile_consumed",
           "write", "done"}

TypeOK == BlockTypeOK(Labels)

Init == BlockInit("prologue")

(* issue_load(0, 0): only producers issue. *)
Prologue(w) ==
  /\ pc[w] = "prologue"
  /\ Goto(w, "wait")
  /\ IF w \in Producers THEN IssueLoad(w, 0) ELSE UNCHANGED copies
  /\ UNCHANGED <<tile, smem, acc>>

WaitAll(w) ==
  /\ pc[w] = "wait"
  /\ Waited(w)
  /\ Goto(w, "tile_ready")
  /\ UNCHANGED <<tile, smem, copies, acc>>

(* The start of iteration t: producers issue tile t + 1 and go to the barrier. *)
Load(w) ==
  /\ pc[w] = "load"
  /\ IF w \in Producers
       THEN /\ Goto(w, "tile_consumed")
            /\ IF tile[w] + 1 < NumTiles THEN IssueLoad(w, tile[w] + 1)
                                         ELSE UNCHANGED copies
       ELSE /\ Goto(w, "compute")
            /\ UNCHANGED copies
  /\ UNCHANGED <<tile, smem, acc>>

Compute(c) == pc[c] = "compute" /\ WorkThrough(c)

(* A bug to rule out: the last tile is skipped with the last load. *)
PastBarrierOneShort(w) ==
  CASE pc[w] = "tile_ready"                                -> "load"
    [] pc[w] = "tile_consumed" /\ tile[w] + 2 < NumTiles   -> "wait"
    [] OTHER                                               -> "write"

(* Where the warp goes from the barrier it is at. *)
PastBarrier(w) ==
  CASE pc[w] = "tile_ready"                                -> "load"
    [] pc[w] = "tile_consumed" /\ tile[w] + 1 < NumTiles   -> "wait"
    [] OTHER                                               -> "write"

(* __syncthreads counts arrivals, it does not tell one call site from another. *)
Barrier ==
  /\ \A w \in Warps : AtBarrier(w)
  /\ pc' = [w \in Warps |-> PastBarrier(w)]
  /\ tile' = [w \in Warps |-> IF PastBarrier(w) = "wait" THEN tile[w] + 1 ELSE tile[w]]
  /\ UNCHANGED <<smem, copies, acc>>

(* Consumers write their rows of H; every warp returns. *)
Write(w) ==
  /\ pc[w] = "write"
  /\ Goto(w, "done")
  /\ UNCHANGED <<tile, smem, copies, acc>>

Step(w) == Prologue(w) \/ WaitAll(w) \/ Load(w) \/ Write(w)

Done == (\A w \in Warps : pc[w] = "done") /\ UNCHANGED vars

Next ==
  \/ \E w \in Warps : Step(w)
  \/ \E c \in Consumers : Compute(c)
  \/ \E p \in Producers : CopyLands(p)
  \/ Barrier
  \/ Done

Spec == Init /\ [][Next]_vars
=============================================================================
