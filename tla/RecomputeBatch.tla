---------------------------- MODULE RecomputeBatch ----------------------------
(***************************************************************************)
(* nospec_iter and spec_iter of benchmarks/e2e/serve_multitenant.py, which *)
(* keep no cache and recompute every row's tokens in every pass, under the *)
(* loops that call them:                                                   *)
(*   "run_strategy"       (same file) a fixed number of iterations,        *)
(*   "run_to_completion"  (serve_to_completion.py) until every row is long *)
(*                        enough; rows that are go on with the others,     *)
(*   "run_nokv"           (serve_kv_eager.py) until every row has met EOS  *)
(*                        or is long enough; such a row commits no more.   *)
(* The untimed warm-up works on copies of the rows and is left out.        *)
(***************************************************************************)
EXTENDS DraftRouting

CONSTANTS
  OutTokens,    (* out_tokens                                      *)
  EOS,          (* pad_id, the end-of-sequence token               *)
  MaxIt,        (* the loop gives up after this many iterations    *)
  Iters         (* iters of run_strategy                           *)

ASSUME RecomputeAssumption ==
  /\ EOS \in Tokens
  /\ OutTokens \in Nat \ {0} /\ MaxIt \in Nat /\ OutTokens <= MaxIt
  /\ Iters \in Nat \ {0}

VARIABLES
  loop,               (* the calling loop                              *)
  strategy,           (* no_spec, or how the draft is routed           *)
  adapter,            (* the tenant of each row                        *)
  pc,                 (* "iterate", "verify" or "done"                 *)
  it,                 (* iterations begun                              *)
  committed, start,   (* per row: prompt and tokens, length of prompt  *)
  finish,             (* per row: iteration it finished in, 0 before   *)
  rows,               (* per row: its tokens, those after its end too  *)
  seen                (* history: per row, what each of the draft's    *)
                      (* steps in the last spec_iter saw               *)

loopVars == <<loop, strategy, adapter, pc, it, committed, start, finish>>
recomputeVars == <<loopVars, rows, seen>>

(* The strategies each loop is called with. *)
Strategies ==
  [run_strategy      |-> {"no_spec", "shared_draft", "per_adapter", "sgmv_draft"},
   run_to_completion |-> {"no_spec", "shared_draft"},
   run_nokv          |-> {"no_spec", "shared_draft"}]

Recomputes == loop \in DOMAIN Strategies

-----------------------------------------------------------------------------
(* draft_step. *)

(* pad_batch: the columns of a batch. *)
Width(batch) == Max({Len(batch[k]) : k \in DOMAIN batch})

(* One forward pass of the draft over left-padded rows. *)
Pass(batch, idx) ==
  LET S == Width(batch)
  IN [k \in DOMAIN batch |-> Routed(batch[k], 0, idx, k, S - Len(batch[k]), S)]

(* nonzero: the rows of a tenant in order. *)
SubBatch(a) ==
  LET mine == {r \in Rows : adapter[r] = a}
  IN CHOOSE s \in [1 .. Cardinality(mine) -> mine] :
       /\ \A r \in mine : \E k \in DOMAIN s : s[k] = r
       /\ \A j, k \in DOMAIN s : j < k => s[j] < s[k]

(* A bug to rule out: a row takes the token of the sub-batch's last row. *)
PlaceLast(sub, r) == Len(sub)

(* nt[sub] = ...: where in its sub-batch a row is. *)
Place(sub, r) == CHOOSE k \in DOMAIN sub : sub[k] = r

(* What each row's next proposal is made from. *)
DraftStep(work) ==
  CASE strategy = "shared_draft" -> Pass(work, Uniform(Len(work), Width(work), NoLora))
    [] strategy = "sgmv_draft"   -> Pass(work, RepeatInterleave(adapter, Width(work)))
    [] strategy = "per_adapter"  ->
         [r \in Rows |->
            LET sub     == SubBatch(adapter[r])
                subrows == [k \in DOMAIN sub |-> work[sub[k]]]
            IN Pass(subrows, Uniform(Len(sub), Width(subrows), adapter[r]))[Place(sub, r)]]

-----------------------------------------------------------------------------
(* Bugs to rule out: EOS is not looked for and one token too many is asked for; *)
(* an iteration that commits several tokens steps over out_tokens.             *)
EosDoneByLength(seq) == Len(seq) > OutTokens
EosDoneExactly(seq) == EOS \in Range(seq) \/ Len(seq) = OutTokens

(* _eos_done, of the tokens after the prompt. *)
EosDone(seq) == EOS \in Range(seq) \/ Len(seq) >= OutTokens

(* A row is through; run_strategy does not ask. *)
Through(seq) ==
  \/ loop \in {"run_kv", "run_nokv"} /\ EosDone(seq)
  \/ loop = "run_to_completion" /\ Len(seq) >= OutTokens

(* The rows that an iteration's tokens go to. *)
Receivers ==
  IF loop \in {"run_kv", "run_nokv"} THEN {r \in Rows : finish[r] = 0} ELSE Rows

(* The end of an iteration, with tokens new[r] for row r. *)
Deliver(new) ==
  /\ it' = it + 1
  /\ committed' = [r \in Rows |->
       IF r \in Receivers THEN committed[r] \o new[r] ELSE committed[r]]
  /\ finish' = [r \in Rows |->
       IF finish[r] = 0 /\ Through(SubSeq(committed'[r], start[r] + 1, Len(committed'[r])))
         THEN it' ELSE finish[r]]
  /\ pc' = IF IF loop = "run_strategy"
                THEN it' = Iters
                ELSE it' > MaxIt \/ \A r \in Rows : finish'[r] # 0
             THEN "done" ELSE "iterate"
  /\ UNCHANGED <<loop, strategy, adapter, start>>

(* nospec_iter: one token per row. *)
NospecIter ==
  LET nt == [r \in Rows |-> Target(Placed(rows[r]))]
  IN /\ pc = "iterate" /\ Recomputes /\ strategy = "no_spec"
     /\ rows' = [r \in Rows |-> Append(rows[r], nt[r])]
     /\ Deliver([r \in Rows |-> <<nt[r]>>])
     /\ UNCHANGED seen

(* spec_iter: Gamma proposals per row, verified in one pass over the rows with
   their proposals.  pad_batch's mask hides the padding. *)
SpecIter ==
  /\ pc = "iterate" /\ Recomputes /\ strategy # "no_spec"
  /\ \E proposed \in [Rows -> [1 .. Gamma -> Tokens]] :
       LET work(i) == [r \in Rows |-> rows[r] \o SubSeq(proposed[r], 1, i - 1)]
           pred == [r \in Rows |-> [i \in 1 .. Gamma + 1 |-> Target(Placed(work(i)[r]))]]
           new  == [r \in Rows |-> Commits(proposed[r], pred[r])]
       IN /\ seen' = [r \in Rows |-> [i \in 1 .. Gamma |-> DraftStep(work(i))[r]]]
          /\ rows' = [r \in Rows |-> rows[r] \o new[r]]
          /\ Deliver(new)

RecomputeNext == NospecIter \/ SpecIter

-----------------------------------------------------------------------------
(* Properties. *)

(* Whichever strategy brings the adapters to the draft, and however the rows  *)
(* are padded or split up by tenant, each step of spec_iter proposes for a    *)
(* row from that row's tokens alone, at their own positions, with the row's   *)
(* own adapter for each of them: per_adapter and sgmv_draft can only differ   *)
(* in cost (serve_multitenant.py: identical weights and therefore identical   *)
(* acceptance).                                                               *)
DraftSeesItsTenant ==
  \A r \in Rows : \A i \in DOMAIN seen[r] :
    LET view == seen[r][i]
        old  == Len(seen[r][1])
    IN /\ Len(view) = old + i - 1
       /\ SubSeq(rows[r], 1, old) = [p \in 1 .. old |-> view[p].tok]
       /\ \A p \in DOMAIN view :
            /\ view[p].pos = p - 1
            /\ view[p].lora = IF strategy = "shared_draft" THEN NoLora ELSE adapter[r]
            /\ view[p] = seen[r][Gamma][p]
=============================================================================
