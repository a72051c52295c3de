-------------------------------- MODULE SpecKV --------------------------------
(***************************************************************************)
(* spec_kv (benchmarks/e2e/spec_loops.py): speculative decode of one       *)
(* sequence over DynamicCaches, rolled back by cropping.  A DynamicCache   *)
(* is a sequence of entries; the model places what it is fed after what    *)
(* the cache holds.                                                        *)
(***************************************************************************)
EXTENDS Decoding

CONSTANT NNew    (* n_new: tokens asked for *)

VARIABLES
  pc,             (* "propose", "verify" or "done"            *)
  committed,      (* ids followed by committed_extra          *)
  start,          (* length of ids                            *)
  N,              (* committed length, as the code counts it  *)
  pending,        (* pending_d = pending_t                    *)
  prop,           (* proposals so far                         *)
  dc, tc          (* draft and target DynamicCache            *)

vars == <<pc, committed, start, N, pending, prop, dc, tc>>

TypeOK ==
  /\ pc \in {"propose", "verify", "done"}
  /\ committed \in Seq(Tokens) /\ start \in 2 .. Len(committed) /\ N = Len(committed)
  /\ pending = Last(committed)
  /\ prop \in Seq(Tokens) /\ Len(prop) <= Gamma
  /\ dc \in Seq(Entries) /\ tc \in Seq(Entries)

(* A forward pass: the tokens' entries follow the cache's. *)
Fed(cache, toks) ==
  cache \o [i \in 1 .. Len(toks) |-> [tok |-> toks[i], pos |-> Len(cache) + i - 1]]

(* DynamicCache.crop. *)
Crop(cache, n) == SubSeq(cache, 1, IF n < Len(cache) THEN n ELSE Len(cache))

(* Both caches are prefilled with all but the last token of the prompt. *)
Init ==
  /\ committed \in Prompts
  /\ pc = "propose"
  /\ start = Len(committed)
  /\ N = Len(committed)
  /\ pending = Last(committed)
  /\ prop = << >>
  /\ dc = Placed(Front(committed))
  /\ tc = Placed(Front(committed))

Propose ==
  /\ pc = "propose"
  /\ dc' = Fed(dc, << IF prop = << >> THEN pending ELSE Last(prop) >>)
  /\ \E t \in Tokens : prop' = Append(prop, t)
  /\ pc' = IF Len(prop') = Gamma THEN "verify" ELSE "propose"
  /\ UNCHANGED <<committed, start, N, pending, tc>>

Verify ==
  LET fed  == Fed(tc, <<pending>> \o prop)
      pred == [i \in 1 .. Gamma + 1 |-> Target(SubSeq(fed, 1, Len(tc) + i))]
      a    == Accepted(prop, pred)
  IN /\ pc = "verify"
     /\ committed' = committed \o Commits(prop, pred)
     /\ tc' = Crop(fed, N - 1 + a)
     /\ dc' = IF a = Gamma THEN Fed(dc, <<Last(prop)>>) ELSE Crop(dc, N - 1 + a)
     /\ pending' = pred[a + 1]
     /\ N' = N + a + 1
     /\ prop' = << >>
     /\ pc' = IF Len(committed') - start < NNew THEN "propose" ELSE "done"
     /\ UNCHANGED start

Done == pc = "done" /\ UNCHANGED vars

Next == Propose \/ Verify \/ Done

Spec == Init /\ [][Next]_vars

-----------------------------------------------------------------------------
(* Properties. *)

(* The committed tokens are the target's plain greedy output ("spec output == *)
(* target greedy (greedy spec is exact)", asserted by spec_loops.py's main).  *)
CommittedIsGreedy ==
  \A i \in start + 1 .. Len(committed) :
    committed[i] = Target(Placed(SubSeq(committed, 1, i - 1)))
=============================================================================
