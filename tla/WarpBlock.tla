------------------------------ MODULE WarpBlock ------------------------------
(***************************************************************************)
(* One thread block of a warp-specialised kernel: producer warps that fill *)
(* two shared-memory stages with cp.async, consumer warps that read them,  *)
(* and __syncthreads.  Shared by ShrinkKernel and ExpandKernel, which give *)
(* the order of the steps.                                                 *)
(*                                                                         *)
(* The producers split a tile between them (load_tile_async), so a stage   *)
(* is a function from producer to the number of the tile its share holds.  *)
(* An issued copy lands at any moment until its own warp waits for it:     *)
(* cp.async.wait_group says nothing of another warp's copies.              *)
(***************************************************************************)
EXTENDS Integers, Sequences

CONSTANTS
  Producers, Consumers,   (* warps                                       *)
  NumTiles                (* d_model / TILE_K, or out_features / TILE_O  *)

ASSUME WarpBlockAssumption ==
  /\ Producers # {} /\ Producers \cap Consumers = {}
  /\ NumTiles \in Nat \ {0}

VARIABLES
  pc,        (* where each warp is                                          *)
  tile,      (* t, or ot: each warp's own loop counter                      *)
  smem,      (* smem[stage][p]: tile in producer p's share of the stage     *)
  copies,    (* copies[p]: cp.async copies of p issued and not landed       *)
  acc        (* acc[c]: contents of the stage at each tile c worked through *)

vars == <<pc, tile, smem, copies, acc>>

Warps  == Producers \cup Consumers
Stages == {0, 1}
Tiles  == 0 .. NumTiles - 1
Garbage == -1

Copies == [stage : Stages, tile : Tiles]

BlockTypeOK(labels) ==
  /\ pc \in [Warps -> labels]
  /\ tile \in [Warps -> Tiles]
  /\ smem \in [Stages -> [Producers -> Tiles \cup {Garbage}]]
  /\ copies \in [Producers -> SUBSET Copies]
  /\ acc \in [Consumers -> Seq([Producers -> Tiles \cup {Garbage}])]

(* Every warp starts at the kernel's first label, shared memory undefined. *)
BlockInit(first) ==
  /\ pc = [w \in Warps |-> first]
  /\ tile = [w \in Warps |-> 0]
  /\ smem = [s \in Stages |-> [p \in Producers |-> Garbage]]
  /\ copies = [p \in Producers |-> {}]
  /\ acc = [c \in Consumers |-> << >>]

Goto(w, label) == pc' = [pc EXCEPT ![w] = label]

(* load_tile_async for the warp's share of tile t, into stage t % 2. *)
IssueLoad(p, t) ==
  copies' = [copies EXCEPT ![p] = @ \cup {[stage |-> t % 2, tile |-> t]}]

CopyLands(p) ==
  /\ \E k \in copies[p] :
       /\ smem' = [smem EXCEPT ![k.stage][p] = k.tile]
       /\ copies' = [copies EXCEPT ![p] = @ \ {k}]
  /\ UNCHANGED <<pc, tile, acc>>

(* A bug to rule out: the barrier is taken to order cp.async copies too. *)
NoWait(w) == TRUE

(* cp_async_wait_all returns. *)
Waited(w) == w \in Producers => copies[w] = {}

(* The consumer reads its stage and goes to the barrier. *)
WorkThrough(c) ==
  /\ acc' = [acc EXCEPT ![c] = Append(@, smem[tile[c] % 2])]
  /\ Goto(c, "tile_consumed")
  /\ UNCHANGED <<tile, smem, copies>>

AtBarrier(w) == pc[w] \in {"tile_ready", "tile_consumed"}

(* What TileReduction calls worked and finished: a tile counts only when all *)
(* its shares are there.                                                     *)
Whole(content, t) == \A p \in Producers : content[p] = t

worked_through ==
  [c \in Consumers |-> [i \in 1 .. Len(acc[c]) |->
                          IF Whole(acc[c][i], i - 1) THEN i - 1 ELSE Garbage]]

-----------------------------------------------------------------------------
(* Properties of both kernels. *)

(* A consumer working through a tile finds all of it in its stage, and no     *)
(* copy of any producer is in flight to that stage meanwhile: a producer runs *)
(* at most one tile ahead of the slowest consumer, and no consumer starts     *)
(* before the slowest producer's copies have landed (double buffer and        *)
(* barriers of bgmv_shrink_kernel and bgmv_expand_kernel).                    *)
StageIsStableWhileRead ==
  \A c \in Consumers : pc[c] = "compute" =>
    /\ Whole(smem[tile[c] % 2], tile[c])
    /\ \A p \in Producers : \A k \in copies[p] : k.stage # tile[c] % 2

Reduction == INSTANCE TileReduction WITH
  worked <- worked_through,
  finished <- {c \in Consumers : pc[c] = "done"}

(* A block implements the reduction: each consumer works through every tile   *)
(* exactly once, whole and in order, and every warp gets to its return, so no *)
(* barrier waits for a warp that never comes.                                 *)
ReducesEveryTileOnce == Reduction!Spec
=============================================================================
