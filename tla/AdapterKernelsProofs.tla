------------------------- MODULE AdapterKernelsProofs -------------------------
(***************************************************************************)
(* Theorems of AdapterKernels, for any number of producer and consumer     *)
(* warps and of tiles.                                                     *)
(*                                                                         *)
(* Barriers keep all warps in one phase of one tile.  Within a phase, what *)
(* a producer's label says of its own share is enough: a copy it has not   *)
(* waited for is of the tile after the one being read, hence goes to the   *)
(* other stage.                                                            *)
(***************************************************************************)
EXTENDS AdapterKernels, TLAPS

Copy(t) == [stage |-> t % 2, tile |-> t]

(* The share of producer p in tile t is in its stage, and will stay. *)
Held(p, t) ==
  /\ smem[t % 2][p] = t
  /\ \A k \in copies[p] : k.stage # t % 2

(* It is there or on its way, and nothing else of p is. *)
Arriving(p, t) ==
  /\ copies[p] \subseteq {Copy(t)}
  /\ smem[t % 2][p] = t \/ Copy(t) \in copies[p]

(* Consumer c has worked through tiles 0 .. n - 1. *)
Worked(c, n) ==
  /\ Len(acc[c]) = n
  /\ \A i \in 1 .. n : Whole(acc[c][i], i - 1)

InPhase(labels) == \A w \in Warps : pc[w] \in labels
OneTile == \A v, w \in Warps : tile[v] = tile[w]

ShrinkPhases ==
  \/ InPhase({"prologue", "wait", "tile_ready"})
  \/ InPhase({"load", "compute", "tile_consumed"})
  \/ InPhase({"write", "done"})

ShrinkShare(p) ==
  /\ pc[p] = "prologue" => tile[p] = 0 /\ copies[p] = {}
  /\ pc[p] = "wait" => Arriving(p, tile[p])
  /\ pc[p] \in {"tile_ready", "load"} => Held(p, tile[p]) /\ copies[p] = {}
  /\ pc[p] = "tile_consumed" =>
       /\ Held(p, tile[p])
       /\ tile[p] + 1 < NumTiles => Arriving(p, tile[p] + 1)
  /\ pc[p] # "compute"

ShrinkWork(c) ==
  /\ pc[c] \in {"prologue", "wait", "tile_ready", "load", "compute"} => Worked(c, tile[c])
  /\ pc[c] = "tile_consumed" => Worked(c, tile[c] + 1)
  /\ pc[c] \in {"write", "done"} => Worked(c, NumTiles)

ShrinkInv ==
  /\ Shrink!TypeOK
  /\ OneTile
  /\ ShrinkPhases
  /\ \A p \in Producers : ShrinkShare(p)
  /\ \A c \in Consumers : ShrinkWork(c)

ExpandPhases ==
  \/ InPhase({"load", "wait", "tile_ready"})
  \/ InPhase({"compute", "tile_consumed"})
  \/ InPhase({"return", "done"})

ExpandShare(p) ==
  /\ pc[p] = "wait" => Arriving(p, tile[p])
  /\ pc[p] # "wait" => copies[p] = {}
  /\ pc[p] \in {"tile_ready", "tile_consumed"} => Held(p, tile[p])
  /\ pc[p] # "compute"

ExpandWork(c) ==
  /\ pc[c] \in {"load", "wait", "tile_ready", "compute"} => Worked(c, tile[c])
  /\ pc[c] = "tile_consumed" => Worked(c, tile[c] + 1)
  /\ pc[c] \in {"return", "done"} => Worked(c, NumTiles)

ExpandInv ==
  /\ Expand!TypeOK
  /\ OneTile
  /\ ExpandPhases
  /\ \A p \in Producers : ExpandShare(p)
  /\ \A c \in Consumers : ExpandWork(c)

-----------------------------------------------------------------------------
(* The two stages alternate. *)
LEMMA OtherStage ==
  ASSUME NEW t \in Nat
  PROVE  t % 2 \in Stages /\ (t + 1) % 2 \in Stages /\ (t + 1) % 2 # t % 2
BY DEF Stages

(* A landing copy is the one its producer awaits, or goes to the other stage. *)
LEMMA LandingKeepsShares ==
  ASSUME smem \in [Stages -> [Producers -> Tiles \cup {Garbage}]],
         copies \in [Producers -> SUBSET Copies],
         NEW q \in Producers, CopyLands(q),
         NEW p \in Producers, NEW t \in Nat
  PROVE  /\ Arriving(p, t) => Arriving(p, t)'
         /\ Held(p, t) => Held(p, t)'
         /\ copies[p] = {} => copies'[p] = {}
<1>1. PICK k \in copies[q] :
        /\ smem' = [smem EXCEPT ![k.stage][q] = k.tile]
        /\ copies' = [copies EXCEPT ![q] = @ \ {k}]
  BY DEF CopyLands
<1>2. t % 2 \in Stages /\ k \in Copies /\ k.stage \in Stages
  BY OtherStage DEF Copies
<1>3. CASE p # q
  <2>1. copies'[p] = copies[p] /\ smem'[t % 2][p] = smem[t % 2][p]
    BY <1>1, <1>2, <1>3
  <2> QED
    BY <2>1 DEF Arriving, Held
<1>4. CASE p = q
  <2>1. copies'[p] = copies[p] \ {k}
    BY <1>1, <1>4
  <2>2. smem'[t % 2][p] = IF k.stage = t % 2 THEN k.tile ELSE smem[t % 2][p]
    BY <1>1, <1>2, <1>4
  <2>3. Held(p, t) => Held(p, t)'
    BY <2>1, <2>2, <1>1, <1>4 DEF Held
  <2>4. Arriving(p, t) => Arriving(p, t)'
    BY <2>1, <2>2, <1>1, <1>4 DEF Arriving, Copy
  <2> QED
    BY <1>1, <1>4, <2>1, <2>3, <2>4
<1> QED
  BY <1>3, <1>4

(* Working through a whole stage adds one tile. *)
LEMMA WorkAddsTile ==
  ASSUME acc \in [Consumers -> Seq([Producers -> Tiles \cup {Garbage}])],
         smem \in [Stages -> [Producers -> Tiles \cup {Garbage}]],
         NEW c \in Consumers, NEW t \in Nat,
         Worked(c, t), Whole(smem[t % 2], t),
         acc' = [acc EXCEPT ![c] = Append(@, smem[t % 2])]
  PROVE  Worked(c, t + 1)'
<1>1. acc'[c] = Append(acc[c], smem[t % 2]) /\ Len(acc[c]) = t
  BY DEF Worked
<1>2. smem[t % 2] \in [Producers -> Tiles \cup {Garbage}]
  BY OtherStage
<1>3. Len(acc'[c]) = t + 1
  BY <1>1, <1>2
<1>4. ASSUME NEW i \in 1 .. t + 1 PROVE Whole(acc'[c][i], i - 1)
  <2>1. acc'[c][i] = IF i = t + 1 THEN smem[t % 2] ELSE acc[c][i]
    BY <1>1, <1>2, SMTT(30)
  <2>2. CASE i = t + 1
    <3>1. i - 1 = t
      BY <2>2
    <3> QED
      BY <2>1, <2>2, <3>1
  <2>3. CASE i # t + 1
    <3>1. i \in 1 .. t
      BY <2>3
    <3> QED
      BY <2>1, <2>3, <3>1 DEF Worked
  <2> QED
    BY <2>2, <2>3
<1> QED
  BY <1>3, <1>4 DEF Worked, Whole

-----------------------------------------------------------------------------
(* The shrink kernel. *)

USE DEF Shrink!Warps, Shrink!Stages, Shrink!Tiles, Shrink!Garbage, Shrink!Copies,
        Shrink!Goto, Shrink!IssueLoad, Warps

LEMMA ShrinkStarts ==
  ASSUME Shrink!Init
  PROVE  ShrinkInv
<1>1. /\ pc = [w \in Warps |-> "prologue"]
      /\ tile = [w \in Warps |-> 0]
      /\ smem = [s \in Stages |-> [p \in Producers |-> Garbage]]
      /\ copies = [p \in Producers |-> {}]
      /\ acc = [c \in Consumers |-> << >>]
  BY DEF Shrink!Init, Shrink!BlockInit, Stages, Garbage
<1>2. Shrink!TypeOK
  BY <1>1, WarpBlockAssumption
     DEF Shrink!TypeOK, Shrink!BlockTypeOK, Shrink!Labels, Stages, Garbage
<1>3. OneTile /\ ShrinkPhases
  BY <1>1 DEF OneTile, ShrinkPhases, InPhase
<1>4. \A p \in Producers : ShrinkShare(p)
  BY <1>1 DEF ShrinkShare
<1>5. \A c \in Consumers : ShrinkWork(c)
  BY <1>1, WarpBlockAssumption DEF ShrinkWork, Worked
<1> QED
  BY <1>2, <1>3, <1>4, <1>5 DEF ShrinkInv

LEMMA ShrinkTypes ==
  ASSUME Shrink!TypeOK
  PROVE  /\ pc \in [Warps -> Shrink!Labels]
         /\ tile \in [Warps -> Tiles]
         /\ smem \in [Stages -> [Producers -> Tiles \cup {Garbage}]]
         /\ copies \in [Producers -> SUBSET Copies]
         /\ acc \in [Consumers -> Seq([Producers -> Tiles \cup {Garbage}])]
BY DEF Shrink!TypeOK, Shrink!BlockTypeOK, Stages, Garbage, Tiles, Copies

LEMMA TileNumber ==
  ASSUME tile \in [Warps -> Tiles], NEW w \in Warps
  PROVE  tile[w] \in Nat /\ tile[w] < NumTiles
BY WarpBlockAssumption DEF Tiles

LEMMA ShrinkCopyLands ==
  ASSUME ShrinkInv, NEW q \in Producers, CopyLands(q)
  PROVE  ShrinkInv'
<1>1. UNCHANGED <<pc, tile, acc>>
  BY DEF CopyLands
<1>2. Shrink!TypeOK'
  BY <1>1 DEF ShrinkInv, CopyLands, Shrink!TypeOK, Shrink!BlockTypeOK
<1>3. ASSUME NEW p \in Producers PROVE ShrinkShare(p)'
  <2>1. tile[p] \in Nat /\ tile[p] + 1 \in Nat
    BY ShrinkTypes, TileNumber DEF ShrinkInv
  <2> QED
    BY <1>1, <2>1, ShrinkTypes, LandingKeepsShares DEF ShrinkInv, ShrinkShare
<1> QED
  BY <1>1, <1>2, <1>3
     DEF ShrinkInv, OneTile, ShrinkPhases, InPhase, ShrinkWork, Worked

(* What a warp does on its own disturbs only its own part of the invariant. *)
LEMMA ShrinkOneWarp ==
  ASSUME ShrinkInv, NEW w \in Warps, NEW label \in Shrink!Labels,
         Goto(w, label), UNCHANGED <<tile, smem>>,
         copies' \in [Producers -> SUBSET Copies],
         \A p \in Producers \ {w} : copies'[p] = copies[p],
         acc' \in [Consumers -> Seq([Producers -> Tiles \cup {Garbage}])],
         \A c \in Consumers \ {w} : acc'[c] = acc[c],
         ShrinkPhases',
         w \in Producers => ShrinkShare(w)',
         w \in Consumers => ShrinkWork(w)'
  PROVE  ShrinkInv'
<1>1. pc' = [pc EXCEPT ![w] = label]
  BY DEF Goto
<1>2. Shrink!TypeOK'
  BY <1>1 DEF ShrinkInv, Shrink!TypeOK, Shrink!BlockTypeOK, Stages, Garbage, Tiles, Copies
<1>3. ASSUME NEW p \in Producers PROVE ShrinkShare(p)'
  <2>1. CASE p # w
    <3>1. pc'[p] = pc[p] /\ copies'[p] = copies[p] /\ tile' = tile /\ smem' = smem
      BY <1>1, <2>1
    <3> QED
      BY <3>1 DEF ShrinkInv, ShrinkShare, Held, Arriving
  <2> QED
    BY <2>1
<1>4. ASSUME NEW c \in Consumers PROVE ShrinkWork(c)'
  <2>1. CASE c # w
    <3>1. pc'[c] = pc[c] /\ acc'[c] = acc[c] /\ tile' = tile
      BY <1>1, <2>1
    <3> QED
      BY <3>1 DEF ShrinkInv, ShrinkWork, Worked
  <2> QED
    BY <2>1
<1> QED
  BY <1>2, <1>3, <1>4 DEF ShrinkInv, OneTile

(* A warp that stays in its phase. *)
LEMMA ShrinkPhaseKept ==
  ASSUME ShrinkInv, NEW w \in Warps, NEW label, Goto(w, label),
         NEW phase \in {{"prologue", "wait", "tile_ready"},
                        {"load", "compute", "tile_consumed"}, {"write", "done"}},
         pc[w] \in phase, label \in phase
  PROVE  ShrinkPhases'
<1>1. InPhase(phase)
  BY DEF ShrinkInv, ShrinkPhases, InPhase
<1>2. \A v \in Warps : pc'[v] \in phase
  BY <1>1, ShrinkTypes DEF InPhase, Goto, ShrinkInv
<1> QED
  BY <1>2 DEF ShrinkPhases, InPhase

LEMMA NewCopyArrives ==
  ASSUME copies \in [Producers -> SUBSET Copies], NEW p \in Producers,
         NEW t \in Tiles, copies[p] = {}, smem' = smem,
         copies' = [copies EXCEPT ![p] = @ \cup {[stage |-> t % 2, tile |-> t]}]
  PROVE  copies' \in [Producers -> SUBSET Copies] /\ Arriving(p, t)'
<1>1. t \in Nat /\ t % 2 \in Stages
  BY OtherStage, WarpBlockAssumption DEF Tiles
<1>2. Copy(t) \in Copies
  BY <1>1 DEF Copy, Copies
<1>3. copies'[p] = {Copy(t)}
  BY DEF Copy
<1> QED
  BY <1>2, <1>3 DEF Arriving, Copy

LEMMA ShrinkPrologue ==
  ASSUME ShrinkInv, NEW w \in Warps, Shrink!Prologue(w)
  PROVE  ShrinkInv'
<1>1. /\ pc[w] = "prologue" /\ Goto(w, "wait") /\ UNCHANGED <<tile, smem, acc>>
      /\ pc'[w] = "wait"
  BY ShrinkTypes DEF Shrink!Prologue, Goto, ShrinkInv
<1>2. ShrinkPhases'
  BY <1>1, ShrinkPhaseKept
<1>3. CASE w \in Producers
  <2>1. tile[w] = 0 /\ copies[w] = {} /\ 0 \in Tiles
    BY <1>1, <1>3, WarpBlockAssumption DEF ShrinkInv, ShrinkShare, Tiles
  <2>2. copies' = [copies EXCEPT ![w] = @ \cup {[stage |-> 0 % 2, tile |-> 0]}]
    BY <1>3 DEF Shrink!Prologue
  <2>3. copies' \in [Producers -> SUBSET Copies] /\ Arriving(w, 0)'
    BY <1>1, <1>3, <2>1, <2>2, NewCopyArrives, ShrinkTypes DEF ShrinkInv
  <2>4. ShrinkShare(w)'
    BY <1>1, <2>1, <2>3 DEF ShrinkShare
  <2>5. w \notin Consumers
    BY <1>3, WarpBlockAssumption
  <2> QED
    BY <1>1, <1>2, <2>2, <2>3, <2>4, <2>5, ShrinkTypes, ShrinkOneWarp
       DEF ShrinkInv, Shrink!Labels
<1>4. CASE w \notin Producers
  <2>1. copies' = copies
    BY <1>4 DEF Shrink!Prologue
  <2>2. ShrinkWork(w)' \/ w \notin Consumers
    BY <1>1 DEF ShrinkInv, ShrinkWork, Worked
  <2> QED
    BY <1>1, <1>2, <1>4, <2>1, <2>2, ShrinkTypes, ShrinkOneWarp DEF ShrinkInv, Shrink!Labels
<1> QED
  BY <1>3, <1>4

LEMMA ShrinkWaitAll ==
  ASSUME ShrinkInv, NEW w \in Warps, Shrink!WaitAll(w)
  PROVE  ShrinkInv'
<1>1. /\ pc[w] = "wait" /\ Goto(w, "tile_ready") /\ UNCHANGED <<tile, smem, copies, acc>>
      /\ pc'[w] = "tile_ready" /\ (w \in Producers => copies[w] = {})
  BY ShrinkTypes DEF Shrink!WaitAll, Shrink!Waited, Goto, ShrinkInv
<1>2. ShrinkPhases'
  BY <1>1, ShrinkPhaseKept
<1>3. w \in Producers => ShrinkShare(w)'
  BY <1>1 DEF ShrinkInv, ShrinkShare, Arriving, Held
<1>4. w \in Consumers => ShrinkWork(w)'
  BY <1>1 DEF ShrinkInv, ShrinkWork, Worked
<1> QED
  BY <1>1, <1>2, <1>3, <1>4, ShrinkTypes, ShrinkOneWarp DEF ShrinkInv, Shrink!Labels

LEMMA ShrinkLoad ==
  ASSUME ShrinkInv, NEW w \in Warps, Shrink!Load(w)
  PROVE  ShrinkInv'
<1>1. pc[w] = "load" /\ UNCHANGED <<tile, smem, acc>>
  BY DEF Shrink!Load
<1>2. CASE w \in Producers
  <2>1. Goto(w, "tile_consumed") /\ pc'[w] = "tile_consumed"
    BY <1>2, ShrinkTypes DEF Shrink!Load, Goto, ShrinkInv
  <2>2. Held(w, tile[w]) /\ copies[w] = {}
    BY <1>1, <1>2 DEF ShrinkInv, ShrinkShare
  <2>3. tile[w] \in Nat
    BY ShrinkTypes, TileNumber DEF ShrinkInv
  <2>4. copies' \in [Producers -> SUBSET Copies] /\ ShrinkShare(w)'
        /\ \A p \in Producers \ {w} : copies'[p] = copies[p]
    <3>1. CASE tile[w] + 1 < NumTiles
      <4>1. copies' = [copies EXCEPT ![w] = @ \cup
                         {[stage |-> (tile[w] + 1) % 2, tile |-> tile[w] + 1]}]
        BY <1>2, <3>1 DEF Shrink!Load
      <4>2. tile[w] + 1 \in Tiles
        BY <2>3, <3>1, WarpBlockAssumption DEF Tiles
      <4>3. copies' \in [Producers -> SUBSET Copies] /\ Arriving(w, tile[w] + 1)'
        BY <1>1, <1>2, <2>2, <4>1, <4>2, NewCopyArrives, ShrinkTypes DEF ShrinkInv
      <4>4. Held(w, tile[w])'
        BY <1>1, <1>2, <2>2, <2>3, <4>3, OtherStage DEF Held, Arriving, Copy
      <4> QED
        BY <1>1, <2>1, <4>1, <4>3, <4>4, ShrinkTypes DEF ShrinkShare, ShrinkInv
    <3>2. CASE ~(tile[w] + 1 < NumTiles)
      <4>1. copies' = copies
        BY <1>2, <3>2 DEF Shrink!Load
      <4> QED
        BY <1>1, <2>1, <2>2, <3>2, <4>1, WarpBlockAssumption, ShrinkTypes
           DEF ShrinkShare, ShrinkInv, Held
    <3> QED
      BY <3>1, <3>2
  <2>5. w \notin Consumers /\ ShrinkPhases'
    BY <1>1, <1>2, <2>1, ShrinkPhaseKept, WarpBlockAssumption
  <2> QED
    BY <1>1, <2>1, <2>4, <2>5, ShrinkTypes, ShrinkOneWarp DEF ShrinkInv, Shrink!Labels
<1>3. CASE w \notin Producers
  <2>1. Goto(w, "compute") /\ pc'[w] = "compute" /\ copies' = copies
    BY <1>3, ShrinkTypes DEF Shrink!Load, Goto, ShrinkInv
  <2>2. w \in Consumers => ShrinkWork(w)'
    BY <1>1, <2>1 DEF ShrinkInv, ShrinkWork, Worked
  <2>3. ShrinkPhases'
    BY <1>1, <2>1, ShrinkPhaseKept
  <2> QED
    BY <1>1, <1>3, <2>1, <2>2, <2>3, ShrinkTypes, ShrinkOneWarp DEF ShrinkInv, Shrink!Labels
<1> QED
  BY <1>2, <1>3

LEMMA ShrinkWrite ==
  ASSUME ShrinkInv, NEW w \in Warps, Shrink!Write(w)
  PROVE  ShrinkInv'
<1>1. /\ pc[w] = "write" /\ Goto(w, "done") /\ UNCHANGED <<tile, smem, copies, acc>>
      /\ pc'[w] = "done"
  BY ShrinkTypes DEF Shrink!Write, Goto, ShrinkInv
<1>2. ShrinkPhases'
  BY <1>1, ShrinkPhaseKept
<1>3. w \in Producers => ShrinkShare(w)'
  BY <1>1 DEF ShrinkShare
<1>4. w \in Consumers => ShrinkWork(w)'
  BY <1>1 DEF ShrinkInv, ShrinkWork, Worked
<1> QED
  BY <1>1, <1>2, <1>3, <1>4, ShrinkTypes, ShrinkOneWarp DEF ShrinkInv, Shrink!Labels

(* A consumer at work has the whole tile in its stage, since every producer   *)
(* is between the same two barriers.                                          *)
LEMMA ShrinkStageWhole ==
  ASSUME ShrinkInv, NEW c \in Consumers, pc[c] = "compute"
  PROVE  \A p \in Producers : Held(p, tile[c])
<1>1. InPhase({"load", "compute", "tile_consumed"})
  BY DEF ShrinkInv, ShrinkPhases, InPhase
<1> SUFFICES ASSUME NEW p \in Producers PROVE Held(p, tile[p]) /\ tile[c] = tile[p]
  OBVIOUS
<1>2. pc[p] \in {"load", "tile_consumed"}
  BY <1>1 DEF InPhase, ShrinkInv, ShrinkShare
<1> QED
  BY <1>2 DEF ShrinkInv, ShrinkShare, OneTile

LEMMA ShrinkCompute ==
  ASSUME ShrinkInv, NEW c \in Consumers, Shrink!Compute(c)
  PROVE  ShrinkInv'
<1>1. /\ pc[c] = "compute" /\ Goto(c, "tile_consumed") /\ UNCHANGED <<tile, smem, copies>>
      /\ pc'[c] = "tile_consumed"
      /\ acc' = [acc EXCEPT ![c] = Append(@, smem[tile[c] % 2])]
  BY ShrinkTypes DEF Shrink!Compute, Shrink!WorkThrough, Goto, ShrinkInv
<1>2. ShrinkPhases'
  BY <1>1, ShrinkPhaseKept
<1>3. tile[c] \in Nat
  BY ShrinkTypes, TileNumber DEF ShrinkInv
<1>4. Worked(c, tile[c]) /\ Whole(smem[tile[c] % 2], tile[c])
  BY <1>1, ShrinkStageWhole DEF ShrinkInv, ShrinkWork, Whole, Held
<1>5. ShrinkWork(c)'
  <2>1. Worked(c, tile[c] + 1)'
    BY <1>1, <1>3, <1>4, ShrinkTypes, WorkAddsTile DEF ShrinkInv
  <2> QED
    BY <1>1, <2>1 DEF ShrinkWork, Worked
<1>6. acc' \in [Consumers -> Seq([Producers -> Tiles \cup {Garbage}])]
  BY <1>1, <1>3, OtherStage, ShrinkTypes DEF ShrinkInv
<1>7. c \notin Producers
  BY WarpBlockAssumption
<1> QED
  BY <1>1, <1>2, <1>5, <1>6, <1>7, ShrinkTypes, ShrinkOneWarp DEF ShrinkInv, Shrink!Labels

(* All warps are at the same call of the barrier, which lets them on to the   *)
(* same label of the same tile.                                               *)
LEMMA ShrinkBarrier ==
  ASSUME ShrinkInv, Shrink!Barrier
  PROVE  ShrinkInv'
<1>1. /\ \A w \in Warps : pc[w] \in {"tile_ready", "tile_consumed"}
      /\ \A w \in Warps : pc'[w] = Shrink!PastBarrier(w)
      /\ \A w \in Warps : tile'[w] = IF Shrink!PastBarrier(w) = "wait" THEN tile[w] + 1
                                                                      ELSE tile[w]
      /\ UNCHANGED <<smem, copies, acc>>
  BY DEF Shrink!Barrier, Shrink!AtBarrier
<1>2. pc' = [w \in Warps |-> Shrink!PastBarrier(w)]
      /\ tile' = [w \in Warps |-> IF Shrink!PastBarrier(w) = "wait" THEN tile[w] + 1
                                                                   ELSE tile[w]]
  BY DEF Shrink!Barrier
<1>3. /\ \A w \in Warps : tile[w] \in Nat /\ tile[w] < NumTiles
      /\ NumTiles \in Nat
  BY ShrinkTypes, TileNumber, WarpBlockAssumption DEF ShrinkInv
<1>4. Shrink!TypeOK'
  <2>1. ASSUME NEW w \in Warps
        PROVE  Shrink!PastBarrier(w) \in Shrink!Labels
               /\ (Shrink!PastBarrier(w) = "wait" => tile[w] + 1 \in Tiles)
    BY <1>3, WarpBlockAssumption DEF Shrink!PastBarrier, Shrink!Labels, Tiles
  <2>2. pc' \in [Warps -> Shrink!Labels] /\ tile' \in [Warps -> Tiles]
    BY <1>2, <2>1, ShrinkTypes DEF ShrinkInv
  <2> QED
    BY <1>1, <2>2 DEF ShrinkInv, Shrink!TypeOK, Shrink!BlockTypeOK, Tiles
<1>5. CASE InPhase({"tile_ready"})
  <2>1. \A w \in Warps : pc[w] = "tile_ready" /\ pc'[w] = "load" /\ tile'[w] = tile[w]
    BY <1>1, <1>5 DEF InPhase, Shrink!PastBarrier
  <2>2. OneTile' /\ ShrinkPhases'
    BY <2>1 DEF ShrinkInv, OneTile, ShrinkPhases, InPhase
  <2>3. \A p \in Producers : ShrinkShare(p)'
    BY <1>1, <2>1 DEF ShrinkInv, ShrinkShare, Held
  <2>4. \A c \in Consumers : ShrinkWork(c)'
    BY <1>1, <2>1 DEF ShrinkInv, ShrinkWork, Worked
  <2> QED
    BY <1>4, <2>2, <2>3, <2>4 DEF ShrinkInv
<1>6. CASE InPhase({"tile_consumed"}) /\ \A w \in Warps : tile[w] + 1 < NumTiles
  <2>1. \A w \in Warps : pc[w] = "tile_consumed" /\ pc'[w] = "wait" /\ tile'[w] = tile[w] + 1
    BY <1>1, <1>6 DEF InPhase, Shrink!PastBarrier
  <2>2. OneTile' /\ ShrinkPhases'
    BY <2>1 DEF ShrinkInv, OneTile, ShrinkPhases, InPhase
  <2>3. ASSUME NEW p \in Producers PROVE ShrinkShare(p)'
    <3>1. Arriving(p, tile[p] + 1)
      BY <1>6, <2>1 DEF ShrinkInv, ShrinkShare
    <3> QED
      BY <1>1, <2>1, <3>1 DEF ShrinkShare, Arriving
  <2>4. \A c \in Consumers : ShrinkWork(c)'
    BY <1>1, <2>1 DEF ShrinkInv, ShrinkWork, Worked
  <2> QED
    BY <1>4, <2>2, <2>3, <2>4 DEF ShrinkInv
<1>7. CASE InPhase({"tile_consumed"}) /\ \A w \in Warps : tile[w] + 1 = NumTiles
  <2>1. \A w \in Warps : pc[w] = "tile_consumed" /\ pc'[w] = "write" /\ tile'[w] = tile[w]
    BY <1>1, <1>3, <1>7 DEF InPhase, Shrink!PastBarrier
  <2>2. OneTile' /\ ShrinkPhases'
    BY <2>1 DEF ShrinkInv, OneTile, ShrinkPhases, InPhase
  <2>3. \A p \in Producers : ShrinkShare(p)'
    BY <2>1 DEF ShrinkShare
  <2>4. ASSUME NEW c \in Consumers PROVE ShrinkWork(c)'
    <3>1. Worked(c, tile[c] + 1) /\ tile[c] + 1 = NumTiles
      BY <1>7, <2>1 DEF ShrinkInv, ShrinkWork
    <3> QED
      BY <1>1, <2>1, <3>1 DEF ShrinkWork, Worked
  <2> QED
    BY <1>4, <2>2, <2>3, <2>4 DEF ShrinkInv
<1>8. InPhase({"tile_ready"}) \/ InPhase({"tile_consumed"})
  BY <1>1 DEF ShrinkInv, ShrinkPhases, InPhase
<1>9. \/ \A w \in Warps : tile[w] + 1 < NumTiles
      \/ \A w \in Warps : tile[w] + 1 = NumTiles
  <2>1. PICK v : v \in Warps
    BY WarpBlockAssumption
  <2>2. \A w \in Warps : tile[w] = tile[v]
    BY <2>1 DEF ShrinkInv, OneTile
  <2> QED
    BY <1>3, <2>1, <2>2
<1> QED
  BY <1>5, <1>6, <1>7, <1>8, <1>9

LEMMA ShrinkInductive ==
  ASSUME ShrinkInv, Shrink!Next \/ UNCHANGED vars
  PROVE  ShrinkInv'
<1>1. CASE \E w \in Warps : Shrink!Step(w)
  BY <1>1, ShrinkPrologue, ShrinkWaitAll, ShrinkLoad, ShrinkWrite DEF Shrink!Step
<1>2. CASE \E c \in Consumers : Shrink!Compute(c)
  BY <1>2, ShrinkCompute
<1>3. CASE \E p \in Producers : Shrink!CopyLands(p)
  BY <1>3, ShrinkCopyLands DEF Shrink!CopyLands, CopyLands
<1>4. CASE Shrink!Barrier
  BY <1>4, ShrinkBarrier
<1>5. CASE UNCHANGED vars
  BY <1>5 DEF vars, ShrinkInv, Shrink!TypeOK, Shrink!BlockTypeOK, OneTile, ShrinkPhases,
              InPhase, ShrinkShare, ShrinkWork, Worked, Held, Arriving
<1> QED
  BY <1>1, <1>2, <1>3, <1>4, <1>5 DEF Shrink!Next, Shrink!Done, Shrink!vars, vars

-----------------------------------------------------------------------------
(* The expand kernel: the same argument, with nothing loaded ahead. *)

USE DEF Expand!Warps, Expand!Stages, Expand!Tiles, Expand!Garbage, Expand!Copies,
        Expand!Goto, Expand!IssueLoad

LEMMA ExpandStarts ==
  ASSUME Expand!Init
  PROVE  ExpandInv
<1>1. /\ pc = [w \in Warps |-> "load"]
      /\ tile = [w \in Warps |-> 0]
      /\ smem = [s \in Stages |-> [p \in Producers |-> Garbage]]
      /\ copies = [p \in Producers |-> {}]
      /\ acc = [c \in Consumers |-> << >>]
  BY DEF Expand!Init, Expand!BlockInit, Stages, Garbage
<1>2. Expand!TypeOK
  BY <1>1, WarpBlockAssumption
     DEF Expand!TypeOK, Expand!BlockTypeOK, Expand!Labels, Stages, Garbage
<1>3. OneTile /\ ExpandPhases
  BY <1>1 DEF OneTile, ExpandPhases, InPhase
<1>4. \A p \in Producers : ExpandShare(p)
  BY <1>1 DEF ExpandShare
<1>5. \A c \in Consumers : ExpandWork(c)
  BY <1>1, WarpBlockAssumption DEF ExpandWork, Worked
<1> QED
  BY <1>2, <1>3, <1>4, <1>5 DEF ExpandInv

LEMMA ExpandTypes ==
  ASSUME Expand!TypeOK
  PROVE  /\ pc \in [Warps -> Expand!Labels]
         /\ tile \in [Warps -> Tiles]
         /\ smem \in [Stages -> [Producers -> Tiles \cup {Garbage}]]
         /\ copies \in [Producers -> SUBSET Copies]
         /\ acc \in [Consumers -> Seq([Producers -> Tiles \cup {Garbage}])]
BY DEF Expand!TypeOK, Expand!BlockTypeOK, Stages, Garbage, Tiles, Copies

LEMMA ExpandCopyLands ==
  ASSUME ExpandInv, NEW q \in Producers, CopyLands(q)
  PROVE  ExpandInv'
<1>1. UNCHANGED <<pc, tile, acc>>
  BY DEF CopyLands
<1>2. Expand!TypeOK'
  BY <1>1 DEF ExpandInv, CopyLands, Expand!TypeOK, Expand!BlockTypeOK
<1>3. ASSUME NEW p \in Producers PROVE ExpandShare(p)'
  <2>1. tile[p] \in Nat
    BY ExpandTypes, TileNumber DEF ExpandInv
  <2> QED
    BY <1>1, <2>1, ExpandTypes, LandingKeepsShares DEF ExpandInv, ExpandShare
<1> QED
  BY <1>1, <1>2, <1>3
     DEF ExpandInv, OneTile, ExpandPhases, InPhase, ExpandWork, Worked

LEMMA ExpandOneWarp ==
  ASSUME ExpandInv, NEW w \in Warps, NEW label \in Expand!Labels,
         Goto(w, label), UNCHANGED <<tile, smem>>,
         copies' \in [Producers -> SUBSET Copies],
         \A p \in Producers \ {w} : copies'[p] = copies[p],
         acc' \in [Consumers -> Seq([Producers -> Tiles \cup {Garbage}])],
         \A c \in Consumers \ {w} : acc'[c] = acc[c],
         ExpandPhases',
         w \in Producers => ExpandShare(w)',
         w \in Consumers => ExpandWork(w)'
  PROVE  ExpandInv'
<1>1. pc' = [pc EXCEPT ![w] = label]
  BY DEF Goto
<1>2. Expand!TypeOK'
  BY <1>1 DEF ExpandInv, Expand!TypeOK, Expand!BlockTypeOK, Stages, Garbage, Tiles, Copies
<1>3. ASSUME NEW p \in Producers PROVE ExpandShare(p)'
  <2>1. CASE p # w
    <3>1. pc'[p] = pc[p] /\ copies'[p] = copies[p] /\ tile' = tile /\ smem' = smem
      BY <1>1, <2>1
    <3> QED
      BY <3>1 DEF ExpandInv, ExpandShare, Held, Arriving
  <2> QED
    BY <2>1
<1>4. ASSUME NEW c \in Consumers PROVE ExpandWork(c)'
  <2>1. CASE c # w
    <3>1. pc'[c] = pc[c] /\ acc'[c] = acc[c] /\ tile' = tile
      BY <1>1, <2>1
    <3> QED
      BY <3>1 DEF ExpandInv, ExpandWork, Worked
  <2> QED
    BY <2>1
<1> QED
  BY <1>2, <1>3, <1>4 DEF ExpandInv, OneTile

LEMMA ExpandPhaseKept ==
  ASSUME ExpandInv, NEW w \in Warps, NEW label, Goto(w, label),
         NEW phase \in {{"load", "wait", "tile_ready"},
                        {"compute", "tile_consumed"}, {"return", "done"}},
         pc[w] \in phase, label \in phase
  PROVE  ExpandPhases'
<1>1. InPhase(phase)
  BY DEF ExpandInv, ExpandPhases, InPhase
<1>2. \A v \in Warps : pc'[v] \in phase
  BY <1>1, ExpandTypes DEF InPhase, Goto, ExpandInv
<1> QED
  BY <1>2 DEF ExpandPhases, InPhase

LEMMA ExpandLoad ==
  ASSUME ExpandInv, NEW w \in Warps, Expand!Load(w)
  PROVE  ExpandInv'
<1>1. /\ pc[w] = "load" /\ Goto(w, "wait") /\ UNCHANGED <<tile, smem, acc>>
      /\ pc'[w] = "wait"
  BY ExpandTypes DEF Expand!Load, Goto, ExpandInv
<1>2. ExpandPhases'
  BY <1>1, ExpandPhaseKept
<1>3. CASE w \in Producers
  <2>1. copies[w] = {} /\ tile[w] \in Tiles
    BY <1>1, <1>3, ExpandTypes DEF ExpandInv, ExpandShare
  <2>2. copies' = [copies EXCEPT ![w] = @ \cup {[stage |-> tile[w] % 2, tile |-> tile[w]]}]
    BY <1>3 DEF Expand!Load
  <2>3. copies' \in [Producers -> SUBSET Copies] /\ Arriving(w, tile[w])'
    BY <1>1, <1>3, <2>1, <2>2, NewCopyArrives, ExpandTypes DEF ExpandInv
  <2>4. ExpandShare(w)'
    BY <1>1, <2>3 DEF ExpandShare
  <2>5. w \notin Consumers
    BY <1>3, WarpBlockAssumption
  <2> QED
    BY <1>1, <1>2, <2>2, <2>3, <2>4, <2>5, ExpandTypes, ExpandOneWarp
       DEF ExpandInv, Expand!Labels
<1>4. CASE w \notin Producers
  <2>1. copies' = copies
    BY <1>4 DEF Expand!Load
  <2>2. w \in Consumers => ExpandWork(w)'
    BY <1>1 DEF ExpandInv, ExpandWork, Worked
  <2> QED
    BY <1>1, <1>2, <1>4, <2>1, <2>2, ExpandTypes, ExpandOneWarp DEF ExpandInv, Expand!Labels
<1> QED
  BY <1>3, <1>4

LEMMA ExpandWaitAll ==
  ASSUME ExpandInv, NEW w \in Warps, Expand!WaitAll(w)
  PROVE  ExpandInv'
<1>1. /\ pc[w] = "wait" /\ Goto(w, "tile_ready") /\ UNCHANGED <<tile, smem, copies, acc>>
      /\ pc'[w] = "tile_ready" /\ (w \in Producers => copies[w] = {})
  BY ExpandTypes DEF Expand!WaitAll, Expand!Waited, Goto, ExpandInv
<1>2. ExpandPhases'
  BY <1>1, ExpandPhaseKept
<1>3. w \in Producers => ExpandShare(w)'
  BY <1>1 DEF ExpandInv, ExpandShare, Arriving, Held
<1>4. w \in Consumers => ExpandWork(w)'
  BY <1>1 DEF ExpandInv, ExpandWork, Worked
<1> QED
  BY <1>1, <1>2, <1>3, <1>4, ExpandTypes, ExpandOneWarp DEF ExpandInv, Expand!Labels

LEMMA ExpandReturn ==
  ASSUME ExpandInv, NEW w \in Warps, Expand!Return(w)
  PROVE  ExpandInv'
<1>1. /\ pc[w] = "return" /\ Goto(w, "done") /\ UNCHANGED <<tile, smem, copies, acc>>
      /\ pc'[w] = "done"
  BY ExpandTypes DEF Expand!Return, Goto, ExpandInv
<1>2. ExpandPhases'
  BY <1>1, ExpandPhaseKept
<1>3. w \in Producers => ExpandShare(w)'
  BY <1>1 DEF ExpandInv, ExpandShare
<1>4. w \in Consumers => ExpandWork(w)'
  BY <1>1 DEF ExpandInv, ExpandWork, Worked
<1> QED
  BY <1>1, <1>2, <1>3, <1>4, ExpandTypes, ExpandOneWarp DEF ExpandInv, Expand!Labels

LEMMA ExpandStageWhole ==
  ASSUME ExpandInv, NEW c \in Consumers, pc[c] = "compute"
  PROVE  \A p \in Producers : Held(p, tile[c])
<1>1. InPhase({"compute", "tile_consumed"})
  BY DEF ExpandInv, ExpandPhases, InPhase
<1> SUFFICES ASSUME NEW p \in Producers PROVE Held(p, tile[p]) /\ tile[c] = tile[p]
  OBVIOUS
<1>2. pc[p] = "tile_consumed"
  BY <1>1 DEF InPhase, ExpandInv, ExpandShare
<1> QED
  BY <1>2 DEF ExpandInv, ExpandShare, OneTile

LEMMA ExpandCompute ==
  ASSUME ExpandInv, NEW c \in Consumers, Expand!Compute(c)
  PROVE  ExpandInv'
<1>1. /\ pc[c] = "compute" /\ Goto(c, "tile_consumed") /\ UNCHANGED <<tile, smem, copies>>
      /\ pc'[c] = "tile_consumed"
      /\ acc' = [acc EXCEPT ![c] = Append(@, smem[tile[c] % 2])]
  BY ExpandTypes DEF Expand!Compute, Expand!WorkThrough, Goto, ExpandInv
<1>2. ExpandPhases'
  BY <1>1, ExpandPhaseKept
<1>3. tile[c] \in Nat
  BY ExpandTypes, TileNumber DEF ExpandInv
<1>4. Worked(c, tile[c]) /\ Whole(smem[tile[c] % 2], tile[c])
  BY <1>1, ExpandStageWhole DEF ExpandInv, ExpandWork, Whole, Held
<1>5. ExpandWork(c)'
  <2>1. Worked(c, tile[c] + 1)'
    BY <1>1, <1>3, <1>4, ExpandTypes, WorkAddsTile DEF ExpandInv
  <2> QED
    BY <1>1, <2>1 DEF ExpandWork, Worked
<1>6. acc' \in [Consumers -> Seq([Producers -> Tiles \cup {Garbage}])]
  BY <1>1, <1>3, OtherStage, ExpandTypes DEF ExpandInv
<1>7. c \notin Producers
  BY WarpBlockAssumption
<1> QED
  BY <1>1, <1>2, <1>5, <1>6, <1>7, ExpandTypes, ExpandOneWarp DEF ExpandInv, Expand!Labels

LEMMA ExpandBarrier ==
  ASSUME ExpandInv, Expand!Barrier
  PROVE  ExpandInv'
<1>1. /\ \A w \in Warps : pc[w] \in {"tile_ready", "tile_consumed"}
      /\ \A w \in Warps : pc'[w] = Expand!PastBarrier(w)
      /\ \A w \in Warps : tile'[w] = IF Expand!PastBarrier(w) = "load" THEN tile[w] + 1
                                                                      ELSE tile[w]
      /\ UNCHANGED <<smem, copies, acc>>
  BY DEF Expand!Barrier, Expand!AtBarrier
<1>2. pc' = [w \in Warps |-> Expand!PastBarrier(w)]
      /\ tile' = [w \in Warps |-> IF Expand!PastBarrier(w) = "load" THEN tile[w] + 1
                                                                   ELSE tile[w]]
  BY DEF Expand!Barrier
<1>3. /\ \A w \in Warps : tile[w] \in Nat /\ tile[w] < NumTiles
      /\ NumTiles \in Nat
  BY ExpandTypes, TileNumber, WarpBlockAssumption DEF ExpandInv
<1>4. Expand!TypeOK'
  <2>1. ASSUME NEW w \in Warps
        PROVE  Expand!PastBarrier(w) \in Expand!Labels
               /\ (Expand!PastBarrier(w) = "load" => tile[w] + 1 \in Tiles)
    BY <1>3, WarpBlockAssumption DEF Expand!PastBarrier, Expand!Labels, Tiles
  <2>2. pc' \in [Warps -> Expand!Labels] /\ tile' \in [Warps -> Tiles]
    BY <1>2, <2>1, ExpandTypes DEF ExpandInv
  <2> QED
    BY <1>1, <2>2 DEF ExpandInv, Expand!TypeOK, Expand!BlockTypeOK, Tiles
<1>5. CASE InPhase({"tile_ready"})
  <2>1. \A w \in Warps :
          /\ pc[w] = "tile_ready" /\ tile'[w] = tile[w]
          /\ pc'[w] = IF w \in Producers THEN "tile_consumed" ELSE "compute"
    BY <1>1, <1>5 DEF InPhase, Expand!PastBarrier
  <2>2. OneTile' /\ ExpandPhases'
    BY <2>1 DEF ExpandInv, OneTile, ExpandPhases, InPhase
  <2>3. \A p \in Producers : ExpandShare(p)'
    BY <1>1, <2>1 DEF ExpandInv, ExpandShare, Held
  <2>4. ASSUME NEW c \in Consumers PROVE ExpandWork(c)'
    <3>1. c \notin Producers
      BY WarpBlockAssumption
    <3> QED
      BY <1>1, <2>1, <3>1 DEF ExpandInv, ExpandWork, Worked
  <2> QED
    BY <1>4, <2>2, <2>3, <2>4 DEF ExpandInv
<1>6. CASE InPhase({"tile_consumed"}) /\ \A w \in Warps : tile[w] + 1 < NumTiles
  <2>1. \A w \in Warps : pc[w] = "tile_consumed" /\ pc'[w] = "load" /\ tile'[w] = tile[w] + 1
    BY <1>1, <1>6 DEF InPhase, Expand!PastBarrier
  <2>2. OneTile' /\ ExpandPhases'
    BY <2>1 DEF ExpandInv, OneTile, ExpandPhases, InPhase
  <2>3. \A p \in Producers : ExpandShare(p)'
    BY <1>1, <2>1 DEF ExpandInv, ExpandShare
  <2>4. \A c \in Consumers : ExpandWork(c)'
    BY <1>1, <2>1 DEF ExpandInv, ExpandWork, Worked
  <2> QED
    BY <1>4, <2>2, <2>3, <2>4 DEF ExpandInv
<1>7. CASE InPhase({"tile_consumed"}) /\ \A w \in Warps : tile[w] + 1 = NumTiles
  <2>1. \A w \in Warps : pc[w] = "tile_consumed" /\ pc'[w] = "return" /\ tile'[w] = tile[w]
    BY <1>1, <1>3, <1>7 DEF InPhase, Expand!PastBarrier
  <2>2. OneTile' /\ ExpandPhases'
    BY <2>1 DEF ExpandInv, OneTile, ExpandPhases, InPhase
  <2>3. \A p \in Producers : ExpandShare(p)'
    BY <1>1, <2>1 DEF ExpandInv, ExpandShare
  <2>4. ASSUME NEW c \in Consumers PROVE ExpandWork(c)'
    <3>1. Worked(c, tile[c] + 1) /\ tile[c] + 1 = NumTiles
      BY <1>7, <2>1 DEF ExpandInv, ExpandWork
    <3> QED
      BY <1>1, <2>1, <3>1 DEF ExpandWork, Worked
  <2> QED
    BY <1>4, <2>2, <2>3, <2>4 DEF ExpandInv
<1>8. InPhase({"tile_ready"}) \/ InPhase({"tile_consumed"})
  BY <1>1 DEF ExpandInv, ExpandPhases, InPhase
<1>9. \/ \A w \in Warps : tile[w] + 1 < NumTiles
      \/ \A w \in Warps : tile[w] + 1 = NumTiles
  <2>1. PICK v : v \in Warps
    BY WarpBlockAssumption
  <2>2. \A w \in Warps : tile[w] = tile[v]
    BY <2>1 DEF ExpandInv, OneTile
  <2> QED
    BY <1>3, <2>1, <2>2
<1> QED
  BY <1>5, <1>6, <1>7, <1>8, <1>9

LEMMA ExpandInductive ==
  ASSUME ExpandInv, Expand!Next \/ UNCHANGED vars
  PROVE  ExpandInv'
<1>1. CASE \E w \in Warps : Expand!Step(w)
  BY <1>1, ExpandLoad, ExpandWaitAll, ExpandReturn DEF Expand!Step
<1>2. CASE \E c \in Consumers : Expand!Compute(c)
  BY <1>2, ExpandCompute
<1>3. CASE \E p \in Producers : Expand!CopyLands(p)
  BY <1>3, ExpandCopyLands DEF Expand!CopyLands, CopyLands
<1>4. CASE Expand!Barrier
  BY <1>4, ExpandBarrier
<1>5. CASE UNCHANGED vars
  BY <1>5 DEF vars, ExpandInv, Expand!TypeOK, Expand!BlockTypeOK, OneTile, ExpandPhases,
              InPhase, ExpandShare, ExpandWork, Worked, Held, Arriving
<1> QED
  BY <1>1, <1>2, <1>3, <1>4, <1>5 DEF Expand!Next, Expand!Done, Expand!vars, vars

-----------------------------------------------------------------------------
(* Both kernels. *)

KernelInv ==
  \/ kernel = "shrink" /\ ShrinkInv
  \/ kernel = "expand" /\ ExpandInv

LEMMA KernelStarts == ASSUME Init PROVE KernelInv
BY ShrinkStarts, ExpandStarts DEF Init, KernelInv

LEMMA KernelInductive == ASSUME KernelInv, [Next]_allVars PROVE KernelInv'
<1>1. /\ kernel' = kernel
      /\ kernel = "shrink" => Shrink!Next \/ UNCHANGED vars
      /\ kernel = "expand" => Expand!Next \/ UNCHANGED vars
  BY DEF Next, allVars
<1> QED
  BY <1>1, ShrinkInductive, ExpandInductive DEF KernelInv

LEMMA KernelTypes == ASSUME KernelInv PROVE TypeOK
BY DEF KernelInv, ShrinkInv, ExpandInv, TypeOK

LEMMA KernelStable == ASSUME KernelInv PROVE StageIsStableWhileRead
<1> SUFFICES ASSUME NEW c \in Consumers, pc[c] = "compute"
             PROVE  /\ Whole(smem[tile[c] % 2], tile[c])
                    /\ \A p \in Producers : \A k \in copies[p] : k.stage # tile[c] % 2
  BY DEF StageIsStableWhileRead
<1>1. \A p \in Producers : Held(p, tile[c])
  BY ShrinkStageWhole, ExpandStageWhole DEF KernelInv
<1> QED
  BY <1>1 DEF Whole, Held

(* Shared memory, the copies in flight and every consumer's sequence of       *)
(* stages keep their types in both kernels (bgmv_shrink_kernel and            *)
(* bgmv_expand_kernel), for any number of warps and tiles.                    *)
THEOREM KernelTypeSafe == Spec => []TypeOK
<1> QED
  BY KernelStarts, KernelInductive, KernelTypes, PTL DEF Spec

(* No consumer of either kernel reads a stage that is incomplete or being     *)
(* refilled (wp_barrier_tile_ready, wp_barrier_tile_consumed), for any number *)
(* of producer and consumer warps and any number of tiles.                    *)
THEOREM StageSafe == Spec => []StageIsStableWhileRead
<1> QED
  BY KernelStarts, KernelInductive, KernelStable, PTL DEF Spec

-----------------------------------------------------------------------------
(* Refinement of TileReduction, its fairness apart. *)

FinishedIn == {c \in Consumers : pc[c] = "done"}

LEMMA WorkedThroughIs ==
  ASSUME NEW c \in Consumers, NEW n \in Nat, Worked(c, n)
  PROVE  worked_through[c] = [i \in 1 .. n |-> i - 1]
BY DEF Worked, worked_through

LEMMA ReductionStutters ==
  ASSUME acc' = acc, FinishedIn' = FinishedIn
  PROVE  UNCHANGED Reduction!vars
BY DEF Reduction!vars, worked_through, FinishedIn

(* Both kernels' consumer step is a step of TileReduction. *)
LEMMA WorkRefines ==
  ASSUME acc \in [Consumers -> Seq([Producers -> Tiles \cup {Garbage}])],
         smem \in [Stages -> [Producers -> Tiles \cup {Garbage}]],
         NEW c \in Consumers, NEW t \in Nat, t < NumTiles,
         Worked(c, t), Whole(smem[t % 2], t),
         acc' = [acc EXCEPT ![c] = Append(@, smem[t % 2])],
         FinishedIn' = FinishedIn
  PROVE  Reduction!WorkThrough(c)
<1>1. worked_through[c] = [i \in 1 .. t |-> i - 1]
  BY WorkedThroughIs
<1>2. worked_through'[c] = [i \in 1 .. t + 1 |-> i - 1]
  <2>1. Worked(c, t + 1)'
    BY WorkAddsTile
  <2> QED
    BY <2>1 DEF Worked, worked_through
<1>3. Len(worked_through[c]) = t
  BY <1>1
<1>4. Append(worked_through[c], t) = worked_through'[c]
  <2>1. worked_through[c] \in Seq(Int) /\ worked_through'[c] \in Seq(Int)
    BY <1>1, <1>2
  <2> QED
    BY <1>1, <1>2, <1>3, <2>1
<1>5. \A d \in Consumers : d # c => worked_through'[d] = worked_through[d]
  BY DEF worked_through
<1>6. worked_through' = [worked_through EXCEPT ![c] = Append(@, Len(@))]
  <2>1. worked_through = [d \in Consumers |-> worked_through[d]]
        /\ worked_through' = [d \in Consumers |-> worked_through'[d]]
    BY DEF worked_through
  <2> QED
    BY <1>3, <1>4, <1>5, <2>1
<1> QED
  BY <1>3, <1>6 DEF Reduction!WorkThrough, FinishedIn

LEMMA ReturnRefines ==
  ASSUME pc = [w \in Warps |-> pc[w]], NEW c \in Consumers, Worked(c, NumTiles),
         pc[c] # "done", pc' = [pc EXCEPT ![c] = "done"], acc' = acc
  PROVE  Reduction!Finish(c)
<1>1. worked_through' = worked_through
  BY DEF worked_through
<1>2. Len(worked_through[c]) = NumTiles
  <2>1. NumTiles \in Nat /\ worked_through[c] = [i \in 1 .. NumTiles |-> i - 1]
    BY WorkedThroughIs, WarpBlockAssumption
  <2> QED
    BY <2>1
<1>3. FinishedIn' = FinishedIn \cup {c} /\ c \notin FinishedIn
  BY DEF FinishedIn
<1> QED
  BY <1>1, <1>2, <1>3 DEF Reduction!Finish, FinishedIn

(* A step of one warp to a label other than done, with no tile worked through. *)
LEMMA NotFinished ==
  ASSUME pc = [v \in Warps |-> pc[v]], NEW w \in Warps, pc[w] # "done",
         NEW label, label # "done" \/ w \notin Consumers,
         pc' = [pc EXCEPT ![w] = label]
  PROVE  FinishedIn' = FinishedIn
BY DEF FinishedIn

LEMMA ShrinkRefines ==
  ASSUME ShrinkInv, Shrink!Next \/ UNCHANGED vars
  PROVE  [Reduction!Next]_Reduction!vars
<1>1. pc = [w \in Warps |-> pc[w]]
  BY ShrinkTypes DEF ShrinkInv
<1>2. ASSUME NEW w \in Warps, Shrink!Prologue(w) \/ Shrink!WaitAll(w) \/ Shrink!Load(w)
      PROVE  UNCHANGED Reduction!vars
  <2>1. PICK label \in {"wait", "tile_ready", "tile_consumed", "compute"} :
          pc' = [pc EXCEPT ![w] = label]
    BY <1>2 DEF Shrink!Prologue, Shrink!WaitAll, Shrink!Load
  <2>2. acc' = acc /\ pc[w] # "done"
    BY <1>2 DEF Shrink!Prologue, Shrink!WaitAll, Shrink!Load
  <2> QED
    BY <1>1, <2>1, <2>2, NotFinished, ReductionStutters
<1>3. ASSUME NEW w \in Warps, Shrink!Write(w)
      PROVE  [Reduction!Next]_Reduction!vars
  <2>1. pc[w] = "write" /\ pc' = [pc EXCEPT ![w] = "done"] /\ acc' = acc
    BY <1>3 DEF Shrink!Write
  <2>2. CASE w \in Consumers
    <3>1. Worked(w, NumTiles)
      BY <2>1, <2>2 DEF ShrinkInv, ShrinkWork
    <3> QED
      BY <1>1, <2>1, <2>2, <3>1, ReturnRefines DEF Reduction!Next
  <2>3. CASE w \notin Consumers
    BY <1>1, <2>1, <2>3, NotFinished, ReductionStutters
  <2> QED
    BY <2>2, <2>3
<1>4. ASSUME NEW c \in Consumers, Shrink!Compute(c)
      PROVE  Reduction!Next
  <2>1. /\ pc[c] = "compute" /\ pc' = [pc EXCEPT ![c] = "tile_consumed"]
        /\ acc' = [acc EXCEPT ![c] = Append(@, smem[tile[c] % 2])]
    BY <1>4 DEF Shrink!Compute, Shrink!WorkThrough
  <2>2. tile[c] \in Nat /\ tile[c] < NumTiles
    BY ShrinkTypes, TileNumber DEF ShrinkInv
  <2>3. Worked(c, tile[c]) /\ Whole(smem[tile[c] % 2], tile[c])
    BY <2>1, ShrinkStageWhole DEF ShrinkInv, ShrinkWork, Whole, Held
  <2>4. FinishedIn' = FinishedIn
    BY <1>1, <2>1, NotFinished
  <2>5. Reduction!WorkThrough(c)
    BY <2>1, <2>2, <2>3, <2>4, ShrinkTypes, WorkRefines DEF ShrinkInv
  <2> QED
    BY <2>5 DEF Reduction!Next
<1>5. ASSUME Shrink!Barrier PROVE UNCHANGED Reduction!vars
  <2>1. acc' = acc /\ \A w \in Warps : pc[w] # "done" /\ pc'[w] # "done"
    BY <1>5 DEF Shrink!Barrier, Shrink!AtBarrier, Shrink!PastBarrier
  <2> QED
    BY <2>1, ReductionStutters DEF FinishedIn
<1>6. ASSUME (\E p \in Producers : Shrink!CopyLands(p)) \/ UNCHANGED vars
      PROVE  UNCHANGED Reduction!vars
  BY <1>6, ReductionStutters DEF Shrink!CopyLands, vars, FinishedIn
<1> QED
  BY <1>2, <1>3, <1>4, <1>5, <1>6
     DEF Shrink!Next, Shrink!Step, Shrink!Done, Shrink!vars, vars

LEMMA ExpandRefines ==
  ASSUME ExpandInv, Expand!Next \/ UNCHANGED vars
  PROVE  [Reduction!Next]_Reduction!vars
<1>1. pc = [w \in Warps |-> pc[w]]
  BY ExpandTypes DEF ExpandInv
<1>2. ASSUME NEW w \in Warps, Expand!WaitAll(w) \/ Expand!Load(w)
      PROVE  UNCHANGED Reduction!vars
  <2>1. PICK label \in {"wait", "tile_ready"} : pc' = [pc EXCEPT ![w] = label]
    BY <1>2 DEF Expand!WaitAll, Expand!Load
  <2>2. acc' = acc /\ pc[w] # "done"
    BY <1>2 DEF Expand!WaitAll, Expand!Load
  <2> QED
    BY <1>1, <2>1, <2>2, NotFinished, ReductionStutters
<1>3. ASSUME NEW w \in Warps, Expand!Return(w)
      PROVE  [Reduction!Next]_Reduction!vars
  <2>1. pc[w] = "return" /\ pc' = [pc EXCEPT ![w] = "done"] /\ acc' = acc
    BY <1>3 DEF Expand!Return
  <2>2. CASE w \in Consumers
    <3>1. Worked(w, NumTiles)
      BY <2>1, <2>2 DEF ExpandInv, ExpandWork
    <3> QED
      BY <1>1, <2>1, <2>2, <3>1, ReturnRefines DEF Reduction!Next
  <2>3. CASE w \notin Consumers
    BY <1>1, <2>1, <2>3, NotFinished, ReductionStutters
  <2> QED
    BY <2>2, <2>3
<1>4. ASSUME NEW c \in Consumers, Expand!Compute(c)
      PROVE  Reduction!Next
  <2>1. /\ pc[c] = "compute" /\ pc' = [pc EXCEPT ![c] = "tile_consumed"]
        /\ acc' = [acc EXCEPT ![c] = Append(@, smem[tile[c] % 2])]
    BY <1>4 DEF Expand!Compute, Expand!WorkThrough
  <2>2. tile[c] \in Nat /\ tile[c] < NumTiles
    BY ExpandTypes, TileNumber DEF ExpandInv
  <2>3. Worked(c, tile[c]) /\ Whole(smem[tile[c] % 2], tile[c])
    BY <2>1, ExpandStageWhole DEF ExpandInv, ExpandWork, Whole, Held
  <2>4. FinishedIn' = FinishedIn
    BY <1>1, <2>1, NotFinished
  <2>5. Reduction!WorkThrough(c)
    BY <2>1, <2>2, <2>3, <2>4, ExpandTypes, WorkRefines DEF ExpandInv
  <2> QED
    BY <2>5 DEF Reduction!Next
<1>5. ASSUME Expand!Barrier PROVE UNCHANGED Reduction!vars
  <2>1. acc' = acc /\ \A w \in Warps : pc[w] # "done" /\ pc'[w] # "done"
    BY <1>5 DEF Expand!Barrier, Expand!AtBarrier, Expand!PastBarrier
  <2> QED
    BY <2>1, ReductionStutters DEF FinishedIn
<1>6. ASSUME (\E p \in Producers : Expand!CopyLands(p)) \/ UNCHANGED vars
      PROVE  UNCHANGED Reduction!vars
  BY <1>6, ReductionStutters DEF Expand!CopyLands, vars, FinishedIn
<1> QED
  BY <1>2, <1>3, <1>4, <1>5, <1>6
     DEF Expand!Next, Expand!Step, Expand!Done, Expand!vars, vars

LEMMA KernelStartsReduction == ASSUME Init PROVE Reduction!Init
<1>1. \A c \in Consumers : acc[c] = << >> /\ pc[c] # "done"
  BY DEF Init, Shrink!Init, Shrink!BlockInit, Expand!Init, Expand!BlockInit
<1>2. worked_through = [c \in Consumers |-> << >>]
  <2>1. \A c \in Consumers : worked_through[c] = << >>
    BY <1>1 DEF worked_through
  <2> QED
    BY <2>1 DEF worked_through
<1> QED
  BY <1>1, <1>2 DEF Reduction!Init

(* Every step of a block of either kernel is a step of TileReduction or       *)
(* changes nothing it speaks of: each consumer works through tiles in order,  *)
(* each whole and once, and returns only after the last                       *)
(* (bgmv_shrink_kernel, bgmv_expand_kernel).                                  *)
THEOREM KernelsReduce == Spec => Reduction!Init /\ [][Reduction!Next]_(Reduction!vars)
<1>1. ASSUME KernelInv, [Next]_allVars PROVE [Reduction!Next]_(Reduction!vars)
  BY <1>1, ShrinkRefines, ExpandRefines DEF KernelInv, Next, allVars
<1> QED
  BY <1>1, KernelStarts, KernelInductive, KernelStartsReduction, PTL DEF Spec
=============================================================================
