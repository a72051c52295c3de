------------------------------ MODULE EagerBatch ------------------------------
(***************************************************************************)
(* run_kv and spec_kv_iter (benchmarks/e2e/serve_kv_eager.py): a batch     *)
(* decoded to completion over append-only caches.  Every forward pass      *)
(* appends its tokens to every row; rollback marks a row's rejected slots  *)
(* as not real.  A slot is [tok, pos, real], real being the row's bit of   *)
(* KVBatch.mask.  A row that has finished decodes on until the last one    *)
(* has, but commits nothing more.                                          *)
(*                                                                         *)
(* The loops without caches, run_nokv among them, which the file compares  *)
(* run_kv with, are those of RecomputeBatch.  A behaviour runs one loop.   *)
(***************************************************************************)
EXTENDS RecomputeBatch

VARIABLES
  real_len,           (* per row: true length, finished rows' too        *)
  pending,            (* per row: last token, not yet in the caches      *)
  prop,               (* per row: proposals so far                       *)
  dstate, tstate      (* per row: slots of the draft and of the target   *)

cachedVars == <<real_len, pending, prop, dstate, tstate>>
vars == <<recomputeVars, cachedVars>>

(* run_kv's draft is merged with its adapter: there is nothing to route. *)
AllStrategies ==
  [l \in {"run_kv"} \cup DOMAIN Strategies |->
     IF l = "run_kv" THEN {"no_spec", "merged_draft"} ELSE Strategies[l]]

Cached == loop = "run_kv"

SlotType == [tok : Tokens, pos : Nat, real : BOOLEAN]

TypeOK ==
  /\ loop \in DOMAIN AllStrategies /\ strategy \in AllStrategies[loop]
  /\ adapter \in Routings
  /\ pc \in {"iterate", "verify", "done"}
  /\ it \in 0 .. IF loop = "run_strategy" THEN Iters ELSE MaxIt
  /\ committed \in [Rows -> Seq(Tokens)]
  /\ start \in [Rows -> Nat]
  /\ finish \in [Rows -> 0 .. MaxIt]
  /\ \A r \in Receivers :
       IF Cached
         THEN real_len[r] = Len(committed[r]) /\ pending[r] = Last(committed[r])
         ELSE rows[r] = committed[r]
  /\ prop \in [Rows -> Seq(Tokens)]
  /\ dstate \in [Rows -> Seq(SlotType)] /\ tstate \in [Rows -> Seq(SlotType)]
  /\ rows \in [Rows -> Seq(Tokens)]
  /\ seen \in [Rows -> Seq(Seq(RoutedEntries))]

(* KVBatch.forward: the tokens are appended, all real. *)
Fed(state, toks, pos) ==
  state \o [i \in 1 .. Len(toks) |->
              [tok |-> toks[i], pos |-> pos + i - 1, real |-> TRUE]]

(* What the query at slot q attends: a query sees nothing fed after it. *)
Attended(state, q) ==
  LET upto[k \in 0 .. q] ==
        IF k = 0 THEN << >>
        ELSE IF state[k].real
          THEN Append(upto[k - 1], [tok |-> state[k].tok, pos |-> state[k].pos])
          ELSE upto[k - 1]
  IN upto[q]

(* The last n slots are real from the first of them up to the kept-th. *)
MaskTail(state, n, kept) ==
  [i \in 1 .. Len(state) |->
     IF i > Len(state) - n
       THEN [state[i] EXCEPT !.real = i <= Len(state) - n + kept]
       ELSE state[i]]

(* pad_left and KVBatch.prefill, all but the last token of each prompt. *)
Prefilled(prompt, S) ==
  [i \in 1 .. S - Len(prompt) |-> [tok |-> EOS, pos |-> 0, real |-> FALSE]]
    \o Fed(<< >>, Front(prompt), 0)

Init ==
  \E prompt \in [Rows -> Prompts] :
    LET none  == [r \in Rows |-> << >>]
        cache == [r \in Rows |-> Prefilled(prompt[r], Width(prompt))]
    IN /\ loop \in DOMAIN AllStrategies /\ strategy \in AllStrategies[loop]
       /\ adapter \in Routings
       /\ pc = "iterate"
       /\ it = 0
       /\ committed = prompt
       /\ start = [r \in Rows |-> Len(prompt[r])]
       /\ finish = [r \in Rows |-> 0]
       /\ real_len = start
       /\ pending = [r \in Rows |-> Last(prompt[r])]
       /\ prop = none
       /\ dstate = IF Cached /\ strategy # "no_spec" THEN cache ELSE none
       /\ tstate = IF Cached THEN cache ELSE none
       /\ rows = IF Cached THEN none ELSE prompt
       /\ seen = none

(* The end of an iteration: every row's length and pending token move on. *)
Commit(new) ==
  /\ Deliver(new)
  /\ pending' = [r \in Rows |-> Last(new[r])]
  /\ real_len' = [r \in Rows |-> real_len[r] + Len(new[r])]
  /\ UNCHANGED <<rows, seen>>

(* An iteration without speculation. *)
PlainStep ==
  LET fed == [r \in Rows |-> Fed(tstate[r], <<pending[r]>>, real_len[r] - 1)]
  IN /\ pc = "iterate" /\ Cached /\ strategy = "no_spec"
     /\ tstate' = fed
     /\ Commit([r \in Rows |-> <<Target(Attended(fed[r], Len(fed[r])))>>])
     /\ UNCHANGED <<prop, dstate>>

Propose ==
  /\ pc = "iterate" /\ Cached /\ strategy # "no_spec"
  /\ dstate' = [r \in Rows |->
       Fed(dstate[r], << IF prop[r] = << >> THEN pending[r] ELSE Last(prop[r]) >>,
           real_len[r] - 1 + Len(prop[r]))]
  /\ \E t \in [Rows -> Tokens] : prop' = [r \in Rows |-> Append(prop[r], t[r])]
  /\ pc' = IF \A r \in Rows : Len(prop'[r]) = Gamma THEN "verify" ELSE "iterate"
  /\ UNCHANGED <<loop, strategy, adapter, it, committed, start, finish, rows, seen, real_len, pending, tstate>>

(* A bug to rule out: of the target's slots, too, one fewer is kept. *)
KeptAccepted(a) == a

(* acc + 1 verified slots are kept: the pending token and the accepted ones. *)
KeptVerified(a) == a + 1

(* The target's predictions after the pending token and every proposal. *)
Predicted(fed) ==
  [r \in Rows |-> [i \in 1 .. Gamma + 1 |->
     Target(Attended(fed[r], Len(tstate[r]) + i))]]

Verify ==
  LET fed == [r \in Rows |-> Fed(tstate[r], <<pending[r]>> \o prop[r], real_len[r] - 1)]
  IN /\ pc = "verify"
     /\ \E pred \in {Predicted(fed)} :
          LET acc  == [r \in Rows |-> Accepted(prop[r], pred[r])]
              kept == [r \in Rows |-> MaskTail(dstate[r], Gamma, acc[r])]
              last == [r \in Rows |-> Fed(kept[r], <<Last(prop[r])>>, real_len[r] - 1 + Gamma)]
          IN /\ tstate' = [r \in Rows |-> MaskTail(fed[r], Gamma + 1, KeptVerified(acc[r]))]
             /\ dstate' = IF \E r \in Rows : acc[r] = Gamma
                            THEN [r \in Rows |->
                                    MaskTail(last[r], 1, IF acc[r] = Gamma THEN 1 ELSE 0)]
                            ELSE kept
             /\ prop' = [r \in Rows |-> << >>]
             /\ Commit([r \in Rows |-> Commits(prop[r], pred[r])])

Done == pc = "done" /\ UNCHANGED vars

CachedNext == PlainStep \/ Propose \/ Verify

Next == CachedNext \/ (RecomputeNext /\ UNCHANGED cachedVars) \/ Done

Spec == Init /\ [][Next]_vars

(* The loop runs until it ends. *)
FairSpec == Spec /\ WF_vars(Next)

-----------------------------------------------------------------------------
(* Properties. *)

Row(r) == INSTANCE GreedyDecode
            WITH committed <- committed[r], start <- start[r], NNew <- OutTokens

(* Every row implements GreedyDecode, with caches and without                 *)
(* (serve_kv_eager.py asserts that both loops commit the same): what it       *)
(* commits is never taken back and is what the target decodes greedily,       *)
(* though rows accept different numbers of proposals and a finished row keeps *)
(* being decoded with the rest.                                               *)
RowsDecodeGreedily ==
  /\ \A r \in Rows : Row(r)!Init
  /\ [][\A r \in Rows : [Row(r)!Next]_<<committed[r], start[r]>>]_vars

(* A loop that has ended has finished every row: an iteration commits         *)
(* something to every row, whatever is accepted, so the count at which the    *)
(* loops give up (6000 in serve_kv_eager.py, 4000 in serve_to_completion.py) *)
(* is never reached.  run_strategy counts its iterations instead.             *)
NoRowIsGivenUp ==
  pc = "done" /\ loop # "run_strategy" => \A r \in Rows : finish[r] # 0

(* And the loop does end.                                                     *)
EveryRowFinishes ==
  <>(pc = "done" /\ (loop = "run_strategy" \/ \A r \in Rows : finish[r] # 0))

(* Rollback hides the rejected tokens and only those ("a rejected token stays *)
(* physically in the cache but is marked 0", serve_kv_eager.py): every        *)
(* proposal is made from the row's tokens and its proposals so far.           *)
DraftSeesCommitted ==
  \A r \in Rows : finish[r] = 0 /\ prop[r] # << >> =>
    Attended(dstate[r], Len(dstate[r])) = Placed(committed[r] \o Front(prop[r]))
=============================================================================
