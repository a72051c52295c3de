----------------------------- MODULE GreedyDecode -----------------------------
(***************************************************************************)
(* What every decoding loop of benchmarks/e2e promises of one sequence:    *)
(* the committed tokens are the prompt followed by the target model's own  *)
(* greedy continuation.  How many tokens a step commits, and with whose    *)
(* help, is left open.                                                     *)
(*                                                                         *)
(* A model sees tokens at positions, so its argument is a sequence of      *)
(* [tok, pos] entries, those its attention reaches, and Target gives the   *)
(* argmax of its logits.  Ties are not modelled: argmax is a function.     *)
(***************************************************************************)
EXTENDS Integers, Sequences

CONSTANTS
  Tokens,
  Target(_),    (* entries -> the target's next token   *)
  Prompts,      (* prompts a request may have           *)
  NNew          (* tokens a request asks for            *)

VARIABLES
  committed,    (* prompt and generated tokens          *)
  start         (* length of the prompt                 *)

vars == <<committed, start>>

(* Tokens at positions 0, 1, 2 ... *)
Placed(s) == [i \in 1 .. Len(s) |-> [tok |-> s[i], pos |-> i - 1]]

Greedy(s) == Target(Placed(s))

Begin(prompt) == committed = prompt /\ start = Len(prompt)

Init == \E p \in Prompts : Begin(p)

(* The next request, once this one has what it asked for. *)
NextRequest ==
  /\ Len(committed) - start >= NNew
  /\ \E p \in Prompts : Begin(p)'

Extend ==
  /\ Len(committed') > Len(committed)
  /\ SubSeq(committed', 1, Len(committed)) = committed
  /\ \A i \in Len(committed) + 1 .. Len(committed') :
       committed'[i] = Greedy(SubSeq(committed', 1, i - 1))
  /\ UNCHANGED start

Next == NextRequest \/ Extend

Spec == Init /\ [][Next]_vars
=============================================================================
