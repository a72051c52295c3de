------------------------------- MODULE Decoding -------------------------------
(***************************************************************************)
(* What the speculative loops of benchmarks/e2e have in common: the draft  *)
(* proposes Gamma tokens, the target predicts after each of them in one    *)
(* pass, the longest matching prefix is accepted and the target's own next *)
(* token is added.  The loops differ in how they keep and roll back the KV *)
(* caches.                                                                 *)
(*                                                                         *)
(* A cache is what it holds of the tokens fed: entries [tok, pos].  What a *)
(* draft proposes is left open, so any draft is covered.                   *)
(***************************************************************************)
EXTENDS Integers, Sequences, FiniteSets, SequencesExt

CONSTANTS
  Tokens,
  Target(_),
  Prompts,
  Gamma      (* proposals per iteration *)

ASSUME DecodingAssumption ==
  /\ Prompts \subseteq Seq(Tokens)
  /\ \A p \in Prompts : Len(p) >= 2
  /\ Gamma \in Nat \ {0}

Entries == [tok : Tokens, pos : Nat]

Placed(s) == [i \in 1 .. Len(s) |-> [tok |-> s[i], pos |-> i - 1]]

(* A bug to rule out: matches after the first mismatch count too. *)
AcceptedAnywhere(prop, pred) == Cardinality({j \in 1 .. Gamma : pred[j] = prop[j]})

(* Length of the longest prefix of the proposals that the target agrees with. *)
Accepted(prop, pred) ==
  CHOOSE a \in 0 .. Gamma :
    /\ \A j \in 1 .. a : pred[j] = prop[j]
    /\ a < Gamma => pred[a + 1] # prop[a + 1]

(* The tokens an iteration commits: pred[a + 1] is the target's own. *)
Commits(prop, pred) ==
  LET a == Accepted(prop, pred) IN Append(SubSeq(prop, 1, a), pred[a + 1])
=============================================================================
