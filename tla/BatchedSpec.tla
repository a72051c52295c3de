------------------------------ MODULE BatchedSpec ------------------------------
(***************************************************************************)
(* run_tier (benchmarks/e2e/batched_spec_loop.py): a full batch decoded    *)
(* over StaticCaches, with captured steps of one shape.  Rows accept       *)
(* different numbers of proposals, but all write at the same slots, from   *)
(* the write head W on, so a row's committed tokens are scattered and      *)
(* valid says which slots its attention reaches; rejected slots are        *)
(* dropped from valid.  A row's last proposal is fed to the draft only in  *)
(* the next iteration, in the slot below W, and counts only if it was      *)
(* kept.  Tier "warp" routes each token of the draft to its row's adapter. *)
(***************************************************************************)
EXTENDS DraftRouting

CONSTANTS
  Iters,     (* iters: iterations of one call                 *)
  MaxCache   (* MAX, as serve_mixed_traffic.py computes it    *)

(* serve_mixed_traffic.py: the longest prompt, a free slot and all iterations. *)
ASSUME BatchedAssumption ==
  /\ Rows # {} /\ 0 \in Tokens
  /\ Iters \in Nat /\ MaxCache \in Nat
  /\ \A p \in Prompts : Len(p) + 1 + Iters * (Gamma + 1) <= MaxCache

VARIABLES
  kind,             (* the tier: no_spec, shared or warp                   *)
  adapter,          (* per row: its tenant                                 *)
  pc,               (* "prefill", "plain", "propose", "verify" or "done"   *)
  iters,            (* iterations left                                     *)
  committed, start, (* per row: prompt and tokens, length of the prompt    *)
  L,                (* per row: committed length without the pending token *)
  W,                (* write head                                          *)
  pend,             (* per row: the committed token not yet in the cache   *)
  prop,             (* per row: proposals so far                           *)
  last, fully,      (* per row: previous last proposal, and if it was kept *)
  dcache, tcache,   (* per row: entries by slot                            *)
  dvalid, valid,    (* per row: slots attended                             *)
  acc_tot,          (* per row: proposals accepted                         *)
  total             (* tokens counted for the throughput                   *)

tierVars == <<kind, adapter, start>>
headVars == <<committed, L, W, pend, last, fully, acc_tot, total>>
vars == <<tierVars, headVars, pc, iters, prop, dcache, tcache, dvalid, valid>>

Slots == 0 .. MaxCache - 1
(* What a slot holds that this call has not written. *)
Unset == [tok |-> 0, pos |-> 0, lora |-> NoLora]

TypeOK ==
  /\ kind \in {"no_spec", "shared", "warp"} /\ adapter \in Routings
  /\ pc \in {"prefill", "plain", "propose", "verify", "done"}
  /\ iters \in 0 .. Iters
  /\ committed \in [Rows -> Seq(Tokens)]
  /\ start \in [Rows -> Nat]
  /\ pc # "prefill" =>
       \A r \in Rows : L[r] = Len(committed[r]) - 1 /\ pend[r] = Last(committed[r])
  /\ W \in 0 .. MaxCache
  /\ prop \in [Rows -> Seq(Tokens)]
  /\ last \in [Rows -> Tokens] /\ fully \in [Rows -> BOOLEAN]
  /\ dcache \in [Rows -> [Slots -> RoutedEntries]] /\ tcache \in [Rows -> [Slots -> RoutedEntries]]
  /\ dvalid \in [Rows -> SUBSET Slots] /\ valid \in [Rows -> SUBSET Slots]
  /\ acc_tot \in [Rows -> 0 .. Iters * Gamma] /\ total \in Nat

(* A step's entries go to the slots from first on. *)
Written(cache, entries, first) ==
  [s \in DOMAIN cache \cup (first .. first + Len(entries) - 1) |->
     IF s \in first .. first + Len(entries) - 1 THEN entries[s - first + 1] ELSE cache[s]]

(* The target's LoRA is merged. *)
Merged(toks, pos) == Routed(toks, pos, Uniform(1, Len(toks), NoLora), 1, 0, Len(toks))

(* The routing vector of a draft pass over S tokens of each row: a graph that
   was captured without LoRA never looks at it. *)
Routing(S) ==
  IF kind = "warp" THEN RepeatInterleave(adapter, S) ELSE Uniform(Len(adapter), S, NoLora)

(* A draft step of row r. *)
Drafted(r, toks, pos) == Routed(toks, pos, Routing(Len(toks)), r, 0, Len(toks))

(* The numbers of S below n, from the least on. *)
InOrder(S, n) ==
  LET below[k \in 0 .. n] ==
        IF k = 0 THEN << >>
        ELSE IF k - 1 \in S THEN Append(below[k - 1], k - 1) ELSE below[k - 1]
  IN below[n]

(* mask4d: the query at slot q attends the row's valid slots up to its own. *)
Attended(cache, ok, q) ==
  LET seen == InOrder(ok, q + 1)
  IN [i \in 1 .. Len(seen) |-> [tok |-> cache[seen[i]].tok, pos |-> cache[seen[i]].pos]]

Init ==
  \E prompt \in [Rows -> Prompts] :
    /\ kind \in {"no_spec", "shared", "warp"} /\ adapter \in Routings
    /\ pc = "prefill"
    /\ iters = Iters
    /\ committed = prompt
    /\ start = [r \in Rows |-> Len(prompt[r])]
    /\ L = start
    /\ W = 0
    /\ pend = [r \in Rows |-> 0]
    /\ prop = [r \in Rows |-> << >>]
    /\ last = [r \in Rows |-> 0]
    /\ fully = [r \in Rows |-> FALSE]
    /\ dcache = [r \in Rows |-> [s \in Slots |-> Unset]] /\ tcache = dcache
    /\ dvalid = [r \in Rows |-> {}] /\ valid = dvalid
    /\ acc_tot = [r \in Rows |-> 0]
    /\ total = 0

(* prefill of both models, rows left-padded to the longest prompt's length S0;
   positions count from 0 after the padding.  The slot at S0 stays free for
   the first deferred write. *)
Prefill ==
  LET S0      == Max({Len(committed[r]) : r \in Rows})
      pad(r)  == S0 - Len(committed[r])
      real    == [r \in Rows |-> pad(r) .. S0 - 1]
      nt      == [r \in Rows |-> Target(Placed(committed[r]))]
  IN /\ pc = "prefill"
     /\ tcache' = [r \in Rows |-> Written(tcache[r], Merged(committed[r], 0), pad(r))]
     /\ valid' = real
     /\ IF kind = "no_spec"
          THEN UNCHANGED <<dcache, dvalid>>
          ELSE /\ dcache' = [r \in Rows |->
                    Written(dcache[r], Routed(committed[r], 0, Routing(S0), r, pad(r), S0), pad(r))]
               /\ dvalid' = real
     /\ committed' = [r \in Rows |-> Append(committed[r], nt[r])]
     /\ pend' = nt
     /\ W' = S0 + 1
     /\ pc' = IF kind = "no_spec" THEN "plain" ELSE "propose"
     /\ UNCHANGED <<tierVars, iters, L, prop, last, fully, acc_tot, total>>

(* A bug to rule out: all that was verified is counted. *)
VerifiedPerIteration == Cardinality(Rows) * (Gamma + 1)

(* total += B: the target's own token of each row. *)
CountedPerIteration == Cardinality(Rows)

(* An iteration of the tier without speculation. *)
PlainStep ==
  LET fed == [r \in Rows |-> Written(tcache[r], Merged(<<pend[r]>>, L[r]), W)]
      ok  == [r \in Rows |-> valid[r] \cup {W}]
      nt  == [r \in Rows |-> Target(Attended(fed[r], ok[r], W))]
  IN /\ pc = "plain" /\ iters > 0
     /\ tcache' = fed /\ valid' = ok
     /\ pend' = nt
     /\ committed' = [r \in Rows |-> Append(committed[r], nt[r])]
     /\ L' = [r \in Rows |-> L[r] + 1]
     /\ W' = W + 1
     /\ iters' = iters - 1
     /\ total' = total + CountedPerIteration
     /\ UNCHANGED <<tierVars, pc, prop, last, fully, dcache, dvalid, acc_tot>>

Proposes ==
  /\ \E t \in [Rows -> Tokens] : prop' = [r \in Rows |-> Append(prop[r], t[r])]
  /\ pc' = IF \A r \in Rows : Len(prop'[r]) = Gamma THEN "verify" ELSE "propose"

(* A bug to rule out: the deferred slot counts for every row. *)
DeferredForAll == [r \in Rows |-> dvalid[r] \cup {W - 1, W}]

(* The deferred slot W - 1 counts where the token was kept. *)
DeferredWhereKept ==
  [r \in Rows |-> (dvalid[r] \ {W - 1}) \cup (IF fully[r] THEN {W - 1, W} ELSE {W})]

(* drf2: the deferred last proposal and the pending token, in one step. *)
ProposeFirst ==
  /\ pc = "propose" /\ iters > 0
  /\ \A r \in Rows : prop[r] = << >>
  /\ dvalid' = DeferredWhereKept
  /\ dcache' = [r \in Rows |-> 
       Written(dcache[r], Drafted(r, <<last[r], pend[r]>>, L[r] - 1), W - 1)]
  /\ Proposes
  /\ UNCHANGED <<tierVars, headVars, iters, tcache, valid>>

(* drf1: the proposal before this one. *)
ProposeNext ==
  /\ pc = "propose"
  /\ \E j \in 1 .. Gamma - 1 :
       /\ \A r \in Rows : Len(prop[r]) = j
       /\ dvalid' = [r \in Rows |-> dvalid[r] \cup {W + j}]
       /\ dcache' = [r \in Rows |-> 
            Written(dcache[r], Drafted(r, <<Last(prop[r])>>, L[r] + j), W + j)]
  /\ Proposes
  /\ UNCHANGED <<tierVars, headVars, iters, tcache, valid>>

(* keep: the pending token's slot and those of the accepted proposals. *)
Kept(acc) == W .. W + acc

(* A bug to rule out: the target's own token is not counted. *)
ExtendedByAccepted(len, acc) == len + acc

(* L after an iteration: the pending token of before and the accepted ones. *)
Extended(len, acc) == len + acc + 1

(* The target's pass over the pending token and every proposal. *)
Fed ==
  [r \in Rows |-> Written(tcache[r], Merged(<<pend[r]>> \o prop[r], L[r]), W)]

(* A bug to rule out: a query's mask reaches one slot too far. *)
PredictedAhead(fed, ok) ==
  [r \in Rows |-> [i \in 1 .. Gamma + 1 |-> Target(Attended(fed[r], ok[r], W + i))]]

Predicted(fed, ok) ==
  [r \in Rows |-> [i \in 1 .. Gamma + 1 |-> Target(Attended(fed[r], ok[r], W + i - 1))]]

Verify ==
  LET ok == [r \in Rows |-> valid[r] \cup W .. W + Gamma]
  IN /\ pc = "verify"
     /\ tcache' = Fed
     /\ \E pred \in {Predicted(tcache', ok)} :
          LET acc == [r \in Rows |-> Accepted(prop[r], pred[r])]
          IN /\ committed' = [r \in Rows |-> committed[r] \o Commits(prop[r], pred[r])]
             /\ pend' = [r \in Rows |-> pred[r][acc[r] + 1]]
             /\ valid' = [r \in Rows |-> (ok[r] \ (W .. W + Gamma)) \cup Kept(acc[r])]
             /\ dvalid' = [r \in Rows |-> (dvalid[r] \ (W .. W + Gamma))
                                            \cup (Kept(acc[r]) \cap W .. W + Gamma - 1)]
             /\ fully' = [r \in Rows |-> acc[r] = Gamma]
             /\ L' = [r \in Rows |-> Extended(L[r], acc[r])]
             /\ acc_tot' = [r \in Rows |-> acc_tot[r] + acc[r]]
     /\ last' = [r \in Rows |-> Last(prop[r])]
     /\ W' = W + Gamma + 1
     /\ prop' = [r \in Rows |-> << >>]
     /\ pc' = "propose"
     /\ iters' = iters - 1
     /\ total' = total + CountedPerIteration
     /\ UNCHANGED <<tierVars, dcache>>

(* The clock has stopped: accepted tokens are counted at the end. *)
Finish ==
  /\ pc \in {"plain", "propose"} /\ iters = 0
  /\ pc' = "done"
  /\ total' = IF kind = "no_spec" THEN total ELSE total + SumFunction(acc_tot)
  /\ UNCHANGED <<tierVars, iters, committed, L, W, pend, prop, last, fully,
                 dcache, tcache, dvalid, valid, acc_tot>>

Done == pc = "done" /\ UNCHANGED vars

Next == Prefill \/ PlainStep \/ ProposeFirst \/ ProposeNext \/ Verify \/ Finish \/ Done

Spec == Init /\ [][Next]_vars

-----------------------------------------------------------------------------
(* Properties. *)

Row(r) == INSTANCE GreedyDecode
            WITH committed <- committed[r], start <- start[r], NNew <- Iters + 1

(* Every row implements GreedyDecode: what it commits is never taken back and *)
(* is what the target decodes greedily, whatever the rows next to it accept   *)
(* and wherever its own tokens lie (serve_mixed_traffic.py checks its tiers   *)
(* against plain decode).                                                     *)
RowsDecodeGreedily ==
  /\ \A r \in Rows : Row(r)!Init
  /\ [][\A r \in Rows : [Row(r)!Next]_<<committed[r], start[r]>>]_vars

(* Every proposal of every row is made from exactly the row's committed       *)
(* tokens and its proposals so far: no rejected slot, no padding, no deferred *)
(* slot of a rejected token, and the kept one not missing.                    *)
DraftSeesCommitted ==
  \A r \in Rows : prop[r] # << >> =>
    Attended(dcache[r], dvalid[r], W + Len(prop[r]) - 1)
      = Placed(committed[r] \o Front(prop[r]))

(* All that the draft attends of a row, fed at prefill, by the two-token step *)
(* or by the one-token step, was computed with the row's own adapter, or with *)
(* none in the shared tier: a routing vector that is off costs acceptance and *)
(* nothing else would show it (batched_spec_loop.py, Step: misroutes).        *)
DraftIsRouted ==
  \A r \in Rows : \A s \in dvalid[r] :
    dcache[r][s].lora = IF kind = "warp" THEN adapter[r] ELSE NoLora

(* Every token counted is a committed token (batched_spec_loop.py): in every  *)
(* tier the throughput counts what the rows committed in the iterations, and  *)
(* neither what was proposed nor what prefill yields.                         *)
CountsCommitted ==
  pc = "done" =>
    total = SumFunction([r \in Rows |-> Len(committed[r]) - start[r] - 1])
=============================================================================
