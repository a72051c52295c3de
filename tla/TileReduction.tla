---------------------------- MODULE TileReduction ----------------------------
(***************************************************************************)
(* What a block of the shrink or expand kernel promises: every consumer    *)
(* warp works through tiles 0 .. NumTiles - 1 in order, each once and      *)
(* whole, and finishes.  For shrink, "works through" is the accumulation   *)
(* of a partial dot product; for expand, the update of the output columns  *)
(* of the tile.                                                            *)
(***************************************************************************)
EXTENDS Integers, Sequences

CONSTANTS Consumers, NumTiles

VARIABLES
  worked,    (* the tiles each consumer has worked through *)
  finished   (* consumers that have finished               *)

vars == <<worked, finished>>

Init ==
  /\ worked = [c \in Consumers |-> << >>]
  /\ finished = {}

WorkThrough(c) ==
  /\ Len(worked[c]) < NumTiles
  /\ worked' = [worked EXCEPT ![c] = Append(@, Len(@))]
  /\ UNCHANGED finished

Finish(c) ==
  /\ c \notin finished
  /\ Len(worked[c]) = NumTiles
  /\ finished' = finished \cup {c}
  /\ UNCHANGED worked

Next == \E c \in Consumers : WorkThrough(c) \/ Finish(c)

Spec == Init /\ [][Next]_vars /\ \A c \in Consumers : WF_vars(WorkThrough(c) \/ Finish(c))
=============================================================================
