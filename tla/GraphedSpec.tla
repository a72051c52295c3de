----------------------------- MODULE GraphedSpec -----------------------------
(***************************************************************************)
(* graphed_spec and graphed_nospec (benchmarks/e2e/serve_kv_graph.py):     *)
(* decode of one sequence at a time over StaticCaches, with captured       *)
(* steps.  A StaticCache is an array of slots that is never cleared: a     *)
(* step writes its tokens at the cache positions it is given and attends   *)
(* every slot up to its own, so rollback is only a matter of where the     *)
(* next step writes.  The same caches serve one prompt after another; the  *)
(* loop without speculation has a target cache of its own, so a behaviour  *)
(* is of one kind and tcache is that kind's.                               *)
(***************************************************************************)
EXTENDS Decoding

CONSTANTS
  NNew,       (* n_new: tokens asked for *)
  MaxCache    (* slots of a cache        *)

ASSUME GraphedAssumption ==
  /\ NNew \in Nat \ {0} /\ MaxCache \in Nat
  /\ \A p \in Prompts : Len(p) + NNew + Gamma - 1 <= MaxCache

VARIABLES
  kind,         (* "spec" or "no_spec"                    *)
  pc,           (* "plain", "propose", "verify" or "done" *)
  committed,    (* prompt_ids followed by committed       *)
  start,        (* P, length of the prompt                *)
  clen,         (* committed length, as the code counts it *)
  pending,
  prop,         (* proposals so far                       *)
  dcache, tcache

vars == <<kind, pc, committed, start, clen, pending, prop, dcache, tcache>>

Slots  == 0 .. MaxCache - 1
Unset  == [tok |-> 0, pos |-> -1]     (* zeros of a new cache *)
Caches == [Slots -> Entries \cup {Unset}]

TypeOK ==
  /\ kind \in {"spec", "no_spec"}
  /\ pc \in {"plain", "propose", "verify", "done"}
  /\ committed \in Seq(Tokens) /\ start \in 2 .. Len(committed) /\ clen = Len(committed)
  /\ pending = Last(committed)
  /\ prop \in Seq(Tokens) /\ Len(prop) <= Gamma
  /\ dcache \in Caches /\ tcache \in Caches

(* Graphed.run: tokens at slots, and positions, first, first + 1, ... *)
Written(cache, toks, first) ==
  [s \in DOMAIN cache \cup (first .. first + Len(toks) - 1) |->
     IF s \in first .. first + Len(toks) - 1
       THEN [tok |-> toks[s - first + 1], pos |-> s]
       ELSE cache[s]]

(* What the query at slot q attends. *)
Attended(cache, q) == [i \in 1 .. q + 1 |-> cache[i - 1]]

First(k) == IF k = "spec" THEN "propose" ELSE "plain"

(* Graphed.prefill of the caches in use, and the head of the loop. *)
Serve(prompt, dc, tc) ==
  /\ pc' = First(kind)
  /\ committed' = prompt
  /\ start' = Len(prompt)
  /\ clen' = Len(prompt)
  /\ pending' = Last(prompt)
  /\ prop' = << >>
  /\ dcache' = IF kind = "spec" THEN Written(dc, Front(prompt), 0) ELSE dc
  /\ tcache' = Written(tc, Front(prompt), 0)

EmptyCache == [s \in Slots |-> Unset]

Init ==
  /\ kind \in {"spec", "no_spec"}
  /\ committed \in Prompts
  /\ pc = First(kind)
  /\ start = Len(committed)
  /\ clen = Len(committed)
  /\ pending = Last(committed)
  /\ prop = << >>
  /\ dcache = IF kind = "spec" THEN Written(EmptyCache, Front(committed), 0) ELSE EmptyCache
  /\ tcache = Written(EmptyCache, Front(committed), 0)

Again(repeat) == IF Len(committed') - start < NNew THEN repeat ELSE "done"

(* graphed_nospec: the pending token is fed and the next one decoded. *)
PlainStep ==
  LET fed == Written(tcache, <<pending>>, clen - 1)
      nt  == Target(Attended(fed, clen - 1))
  IN /\ pc = "plain"
     /\ tcache' = fed
     /\ committed' = Append(committed, nt)
     /\ pending' = nt
     /\ clen' = clen + 1
     /\ pc' = Again("plain")
     /\ UNCHANGED <<kind, start, prop, dcache>>

Propose ==
  /\ pc = "propose"
  /\ dcache' = Written(dcache, << IF prop = << >> THEN pending ELSE Last(prop) >>,
                       clen - 1 + Len(prop))
  /\ \E t \in Tokens : prop' = Append(prop, t)
  /\ pc' = IF Len(prop') = Gamma THEN "verify" ELSE "propose"
  /\ UNCHANGED <<kind, committed, start, clen, pending, tcache>>

(* A bug to rule out: the draft is never fed the last proposal. *)
FeedNothing(a) == dcache' = dcache

(* When every proposal is accepted, the draft has not been fed the last one. *)
FeedLast(a) ==
  dcache' = IF a = Gamma THEN Written(dcache, <<Last(prop)>>, clen - 1 + Gamma) ELSE dcache

(* A bug to rule out: the next step writes over the last accepted token. *)
RewindTooFar(a) == clen' = clen + a

(* The rollback: the next step writes at clen' - 1. *)
Rewind(a) == clen' = clen + a + 1

Verify ==
  LET fed  == Written(tcache, <<pending>> \o prop, clen - 1)
      pred == [i \in 1 .. Gamma + 1 |-> Target(Attended(fed, clen - 2 + i))]
      a    == Accepted(prop, pred)
  IN /\ pc = "verify"
     /\ tcache' = fed
     /\ committed' = committed \o Commits(prop, pred)
     /\ FeedLast(a)
     /\ Rewind(a)
     /\ pending' = pred[a + 1]
     /\ prop' = << >>
     /\ pc' = Again("propose")
     /\ UNCHANGED <<kind, start>>

(* The next request on the same caches. *)
NextPrompt ==
  /\ pc = "done"
  /\ \E p \in Prompts : Serve(p, dcache, tcache)
  /\ UNCHANGED kind

Next == PlainStep \/ Propose \/ Verify \/ NextPrompt

Spec == Init /\ [][Next]_vars

-----------------------------------------------------------------------------
(* Properties. *)

G == INSTANCE GreedyDecode

(* Whatever the draft proposes and whatever earlier requests left in the      *)
(* slots, the committed tokens are the target's greedy ones.                  *)
CommitsGreedyTokens == G!Spec

(* Every proposal is made from exactly the committed tokens and the proposals *)
(* before it: after a fully accepted iteration the draft holds the last       *)
(* proposal, after a rejection no rejected one is attended.                   *)
DraftSeesCommitted ==
  prop # << >> =>
    Attended(dcache, clen - 2 + Len(prop)) = Placed(committed \o Front(prop))
=============================================================================
