-------------------------- MODULE BatchedSpecProofs --------------------------
(***************************************************************************)
(* Theorems of BatchedSpec, for any batch, any prompts and any number of   *)
(* proposals: the draft's tokens are routed to their rows' adapters, a     *)
(* draft step sees what the row has committed, every row decodes greedily  *)
(* and the tokens counted are the tokens committed.                        *)
(***************************************************************************)
EXTENDS BatchedSpec, FiniteSetTheorems, WellFoundedInduction, SequenceTheorems, TLAPS

-----------------------------------------------------------------------------
(***************************************************************************)
(* Routing.                                                                *)
(***************************************************************************)

(* What row r's tokens should be computed with. *)
Own(r) == IF kind = "warp" THEN adapter[r] ELSE NoLora

RoutedSlots(r) ==
  \A s \in dvalid[r] : s \in DOMAIN dcache[r] /\ dcache[r][s].lora = Own(r)

(* k proposals of each row, made from the slots from the write head on. *)
Proposed(k) ==
  \A r \in Rows : Len(prop[r]) = k /\ W .. W + k - 1 \subseteq dvalid[r]

RoutedInv ==
  /\ adapter \in Routings
  /\ prop \in [Rows -> Seq(Tokens)]
  /\ pc = "prefill" => committed \in [Rows -> Prompts] /\ prop = [r \in Rows |-> << >>]
  /\ pc # "prefill" => \A r \in Rows : W \in Nat
  /\ pc = "propose" => \E k \in 0 .. Gamma - 1 : Proposed(k)
  /\ pc = "verify" => Proposed(Gamma)
  /\ \A r \in Rows : RoutedSlots(r)

-----------------------------------------------------------------------------
(* A finite set of numbers has a greatest element: a minimal set of the form  *)
(* {y : y >= x}.                                                              *)
LEMMA GreatestNumber ==
  ASSUME NEW T \in SUBSET Nat, T # {}, IsFiniteSet(T)
  PROVE  Max(T) \in T /\ \A y \in T : y <= Max(T)
<1> DEFINE Above(x) == {y \in T : y >= x}
<1> DEFINE F == {Above(x) : x \in T}
<1>1. \A x \in T : Above(x) \in FiniteSubsetsOf(T)
  BY FS_Subset DEF FiniteSubsetsOf
<1>2. F \subseteq FiniteSubsetsOf(T) /\ F # {}
  BY <1>1
<1>3. PICK S \in F : \A U \in F : <<U, S>> \notin StrictSubsetOrdering(T)
  <2> HIDE DEF F
  <2>1. IsWellFoundedOn(StrictSubsetOrdering(T), FiniteSubsetsOf(T))
    BY FS_StrictSubsetOrderingWellFounded
  <2> QED
    BY <1>2, <2>1, WFMin
<1>4. PICK x \in T : S = Above(x)
  BY <1>3
<1>5. ASSUME NEW y \in T, ~(y <= x) PROVE FALSE
  <2>1. y > x /\ x \in Nat /\ y \in Nat
    BY <1>5
  <2>2. (\A z \in Above(y) : z \in Above(x)) /\ x \in Above(x) /\ x \notin Above(y)
    BY <2>1
  <2>3. Above(y) \in F
    OBVIOUS
  <2>4. <<Above(y), Above(x)>> \in StrictSubsetOrdering(T)
    <3>1. Above(y) \in FiniteSubsetsOf(T) /\ Above(x) \in FiniteSubsetsOf(T)
      BY <1>1
    <3> HIDE DEF Above
    <3> QED
      BY <2>2, <3>1 DEF StrictSubsetOrdering, FiniteSubsetsOf
  <2> QED
    BY <1>3, <1>4, <2>3, <2>4
<1>6. x \in T /\ \A y \in T : x >= y
  BY <1>5
<1>7. Max(T) \in T /\ \A y \in T : Max(T) >= y
  BY <1>6 DEF Max
<1> QED
  BY <1>7

(* The place of column c of row k in a flattened batch of n rows S wide. *)
LEMMA PlaceOfRow ==
  ASSUME NEW n \in Nat, NEW S \in Nat, NEW k \in 1 .. n, NEW c \in 0 .. S - 1
  PROVE  /\ (k - 1) * S + c \in 0 .. n * S - 1
         /\ ((k - 1) * S + c) \div S = k - 1
<1>1. (k - 1) * S \in Nat /\ S > 0
  OBVIOUS
<1>2. k * S <= n * S
  OBVIOUS
<1>3. k * S = (k - 1) * S + S
  OBVIOUS
<1>4. (k - 1) * S + c \in 0 .. n * S - 1
  BY <1>1, <1>2, <1>3
<1>5. ((k - 1) * S + c) \div S = k - 1
  BY <1>1
<1> QED
  BY <1>4, <1>5

(* A routing vector gives every token of a row the row's own adapter. *)
LEMMA RoutingIsOwn ==
  ASSUME adapter \in Routings, NEW r \in Rows, NEW S \in Nat, NEW c \in 0 .. S - 1
  PROVE  Routing(S)[(r - 1) * S + c] = Own(r)
<1>1. PICK n \in Nat : n = Len(adapter) /\ Rows = 1 .. n
  <2>1. Rows = 1 .. Len(adapter)
    BY RoutingAssumption
  <2> QED
    BY <2>1
<1>2. (r - 1) * S + c \in 0 .. n * S - 1 /\ ((r - 1) * S + c) \div S = r - 1
  BY <1>1, PlaceOfRow
<1>3. (r - 1) + 1 = r
  BY <1>1
<1>4. CASE kind = "warp"
  BY <1>1, <1>2, <1>3, <1>4 DEF Routing, RepeatInterleave, Own
<1>5. CASE kind # "warp"
  BY <1>1, <1>2, <1>5 DEF Routing, Uniform, Own
<1> QED
  BY <1>4, <1>5

(* A write of row r's tokens keeps what is valid in the row routed. *)
LEMMA WriteIsRouted ==
  ASSUME adapter \in Routings, UNCHANGED <<kind, adapter>>,
         NEW r \in Rows, RoutedSlots(r), NEW S \in Nat, NEW c \in Nat, NEW pos, NEW first \in Int,
         NEW toks, NEW n \in Nat, Len(toks) = n, c + n <= S,
         dcache'[r] = Written(dcache[r], Routed(toks, pos, Routing(S), r, c, S), first),
         dvalid'[r] \subseteq dvalid[r] \cup first .. first + n - 1
  PROVE  RoutedSlots(r)'
<1> DEFINE entries == Routed(toks, pos, Routing(S), r, c, S)
<1>1. Len(entries) = n /\ \A i \in 1 .. n : entries[i].lora = Own(r)
  <2>1. Len(entries) = n
    BY DEF Routed
  <2>2. ASSUME NEW i \in 1 .. n PROVE entries[i].lora = Own(r)
    <3>1. entries[i].lora = Routing(S)[(r - 1) * S + c + i - 1]
      BY <2>2 DEF Routed
    <3>2. (r - 1) * S + c + i - 1 = (r - 1) * S + (c + i - 1) /\ c + i - 1 \in 0 .. S - 1
      <4>1. r \in Nat /\ (r - 1) * S \in Int
        BY RoutingAssumption
      <4> QED
        BY <4>1
    <3> QED
      BY <3>1, <3>2, RoutingIsOwn
  <2> QED
    BY <2>1, <2>2
<1> HIDE DEF entries
<1>2. dcache'[r] = [s \in DOMAIN dcache[r] \cup (first .. first + n - 1) |->
                      IF s \in first .. first + n - 1 THEN entries[s - first + 1]
                                                     ELSE dcache[r][s]]
  BY <1>1 DEF entries, Written
<1>3. ASSUME NEW s \in dvalid'[r]
      PROVE  s \in DOMAIN dcache'[r] /\ dcache'[r][s].lora = Own(r)
  <2>1. CASE s \in first .. first + n - 1
    <3>1. s - first + 1 \in 1 .. n
      BY <2>1
    <3> QED
      BY <1>1, <1>2, <2>1, <3>1
  <2>2. CASE s \notin first .. first + n - 1
    BY <1>2, <1>3, <2>2 DEF RoutedSlots
  <2> QED
    BY <2>1, <2>2
<1> QED
  BY <1>3 DEF RoutedSlots, Own

LEMMA RoutedStarts == ASSUME Init PROVE RoutedInv
<1>1. PICK prompt \in [Rows -> Prompts] : committed = prompt /\ pc = "prefill"
        /\ adapter \in Routings /\ prop = [r \in Rows |-> << >>]
        /\ dvalid = [r \in Rows |-> {}]
  BY DEF Init
<1> QED
  BY <1>1 DEF RoutedInv, RoutedSlots

(* Prefill writes the prompts left-padded to the longest, S0. *)
LEMMA PrefillKeepsRouting == ASSUME RoutedInv, Prefill PROVE RoutedInv'
<1> DEFINE S0 == Max({Len(committed[r]) : r \in Rows})
<1> DEFINE pad(r) == S0 - Len(committed[r])
<1>1. /\ pc = "prefill" /\ committed \in [Rows -> Prompts] /\ prop = [r \in Rows |-> << >>]
      /\ adapter \in Routings /\ UNCHANGED <<kind, adapter, prop>>
  BY DEF RoutedInv, Prefill, tierVars
<1>2. W' = S0 + 1 /\ pc' \in {"plain", "propose"}
  BY DEF Prefill
<1>3. \/ UNCHANGED <<dcache, dvalid>>
      \/ /\ dcache' = [r \in Rows |->
              Written(dcache[r], Routed(committed[r], 0, Routing(S0), r, pad(r), S0), pad(r))]
         /\ dvalid' = [r \in Rows |-> pad(r) .. S0 - 1]
  BY DEF Prefill
<1>4. \A r \in Rows : S0 \in Nat /\ Len(committed[r]) \in Nat /\ Len(committed[r]) <= S0
  <2> DEFINE T == {Len(committed[r]) : r \in Rows}
  <2>1. \A r \in Rows : Len(committed[r]) \in Nat
    BY <1>1, DecodingAssumption
  <2>2. T \in SUBSET Nat
    BY <2>1
  <2>3. IsFiniteSet(T)
    <3>1. IsFiniteSet(Rows)
      BY <1>1, RoutingAssumption, FS_Interval
    <3> DEFINE f == [r \in Rows |-> Len(committed[r])]
    <3>2. f \in Surjection(Rows, T)
      BY DEF Surjection
    <3> HIDE DEF f, T
    <3> QED
      BY <3>1, <3>2, FS_Surjection
  <2> HIDE DEF T
  <2>4. ASSUME T # {} PROVE Max(T) \in T /\ \A y \in T : y <= Max(T)
    BY <2>2, <2>3, <2>4, GreatestNumber
  <2> QED
    BY <2>1, <2>2, <2>4 DEF T
<1> HIDE DEF S0
<1>5. ASSUME NEW r \in Rows PROVE RoutedSlots(r)'
  <2>1. RoutedSlots(r)
    BY DEF RoutedInv
  <2>2. CASE UNCHANGED <<dcache, dvalid>>
    BY <1>1, <2>1, <2>2 DEF RoutedSlots, Own
  <2>3. CASE /\ dcache'[r] = Written(dcache[r],
                  Routed(committed[r], 0, Routing(S0), r, pad(r), S0), pad(r))
             /\ dvalid'[r] = pad(r) .. S0 - 1
    <3>1. PICK n \in Nat : n = Len(committed[r]) /\ S0 \in Nat /\ n <= S0 /\ pad(r) = S0 - n
      BY <1>4
    <3>2. pad(r) \in Nat /\ pad(r) + n <= S0 /\ pad(r) + n - 1 = S0 - 1
      BY <3>1
    <3> HIDE DEF pad
    <3>3. dvalid'[r] \subseteq dvalid[r] \cup pad(r) .. pad(r) + n - 1
      BY <2>3, <3>2
    <3>4. S0 \in Nat /\ pad(r) \in Int
      BY <3>1, <3>2
    <3> QED
      BY <1>1, <2>1, <2>3, <3>1, <3>2, <3>3, <3>4, WriteIsRouted
  <2> QED
    BY <1>3, <2>2, <2>3
<1>6. pc' = "propose" => Proposed(0)'
  BY <1>1, <1>2, <1>4 DEF Proposed
<1>7. \A r \in Rows : W' \in Nat
  BY <1>2, <1>4
<1>8. prop' \in [Rows -> Seq(Tokens)]
  BY <1>1
<1> QED
  BY <1>1, <1>2, <1>5, <1>6, <1>7, <1>8, DecodingAssumption DEF RoutedInv

LEMMA PlainKeepsRouting == ASSUME RoutedInv, PlainStep PROVE RoutedInv'
<1>1. /\ pc = "plain" /\ W' = W + 1
      /\ UNCHANGED <<kind, adapter, pc, prop, dcache, dvalid>>
  BY DEF PlainStep, tierVars
<1> QED
  BY <1>1 DEF RoutedInv, RoutedSlots, Own, Proposed

(* The proposals grow together, and the last of Gamma leads to verification. *)
LEMMA OneMoreProposal ==
  ASSUME RoutedInv, pc = "propose", Proposes, UNCHANGED W,
         NEW k \in Nat, \A r \in Rows : Len(prop[r]) = k /\ W .. W + k \subseteq dvalid'[r],
         k < Gamma
  PROVE  /\ prop' \in [Rows -> Seq(Tokens)]
         /\ pc' \in {"propose", "verify"}
         /\ pc' = "propose" => \E j \in 0 .. Gamma - 1 : Proposed(j)'
         /\ pc' = "verify" => Proposed(Gamma)'
<1>1. PICK t \in [Rows -> Tokens] : prop' = [r \in Rows |-> Append(prop[r], t[r])]
  BY DEF Proposes
<1>2. prop \in [Rows -> Seq(Tokens)] /\ \A r \in Rows : W \in Nat
  BY DEF RoutedInv
<1>3. prop' \in [Rows -> Seq(Tokens)]
  BY <1>1, <1>2
<1>4. \A r \in Rows : Len(prop'[r]) = k + 1
  BY <1>1, <1>2
<1>5. Proposed(k + 1)'
  BY <1>2, <1>4 DEF Proposed
<1>6. CASE \A r \in Rows : Len(prop'[r]) = Gamma
  BY <1>2, <1>3, <1>4, <1>5, <1>6 DEF Proposes, Proposed
<1>7. CASE ~ \A r \in Rows : Len(prop'[r]) = Gamma
  <2>1. k + 1 # Gamma
    BY <1>4, <1>7
  <2>2. k + 1 \in 0 .. Gamma - 1
    BY <2>1, DecodingAssumption
  <2> QED
    BY <1>3, <1>5, <1>7, <2>2 DEF Proposes
<1> QED
  BY <1>6, <1>7

LEMMA FirstKeepsRouting == ASSUME RoutedInv, ProposeFirst PROVE RoutedInv'
<1>1. /\ pc = "propose" /\ Proposes
      /\ UNCHANGED <<kind, adapter, W>> /\ \A r \in Rows : prop[r] = << >>
  BY DEF ProposeFirst, tierVars, headVars
<1>2. adapter \in Routings /\ \A r \in Rows : W \in Nat /\ RoutedSlots(r)
  BY <1>1 DEF RoutedInv
<1>3. ASSUME NEW r \in Rows
      PROVE  W .. W \subseteq dvalid'[r] /\ dvalid'[r] \subseteq dvalid[r] \cup (W - 1) .. (W - 1) + 2 - 1
  <2>1. \/ dvalid'[r] = (dvalid[r] \ {W - 1}) \cup {W - 1, W}
        \/ dvalid'[r] = (dvalid[r] \ {W - 1}) \cup {W}
    BY DEF ProposeFirst, DeferredWhereKept
  <2> QED
    BY <1>2, <2>1
<1>4. ASSUME NEW r \in Rows PROVE RoutedSlots(r)'
  <2> DEFINE toks == <<last[r], pend[r]>>
  <2>1. dcache'[r] = Written(dcache[r],
           Routed(toks, L[r] - 1, Routing(2), r, 0, 2), W - 1)
    BY DEF ProposeFirst, Drafted
  <2>2. PICK n \in Nat, c \in Nat, first \in Int : n = 2 /\ c = 0 /\ first = W - 1
    BY <1>2
  <2>3. Len(toks) = n /\ c + n <= n
    BY <2>2
  <2> HIDE DEF toks
  <2>4. dcache'[r] = Written(dcache[r], Routed(toks, L[r] - 1, Routing(n), r, c, n), first)
    BY <2>1, <2>2
  <2>5. dvalid'[r] \subseteq dvalid[r] \cup first .. first + n - 1
    BY <1>3, <2>2
  <2> QED
    BY <1>1, <1>2, <2>3, <2>4, <2>5, WriteIsRouted
<1>5. \A r \in Rows : Len(prop[r]) = 0 /\ W .. W + 0 \subseteq dvalid'[r]
  BY <1>1, <1>2, <1>3
<1>6. /\ prop' \in [Rows -> Seq(Tokens)]
      /\ pc' \in {"propose", "verify"}
      /\ pc' = "propose" => \E j \in 0 .. Gamma - 1 : Proposed(j)'
      /\ pc' = "verify" => Proposed(Gamma)'
  <2>1. 0 \in Nat /\ 0 < Gamma
    BY DecodingAssumption
  <2> QED
    BY <1>1, <1>5, <2>1, OneMoreProposal
<1> QED
  BY <1>1, <1>2, <1>4, <1>6 DEF RoutedInv

LEMMA NextKeepsRouting == ASSUME RoutedInv, ProposeNext PROVE RoutedInv'
<1>1. PICK j \in 1 .. Gamma - 1 :
        /\ \A r \in Rows : Len(prop[r]) = j
        /\ dvalid' = [r \in Rows |-> dvalid[r] \cup {W + j}]
        /\ dcache' = [r \in Rows |-> 
             Written(dcache[r], Drafted(r, <<Last(prop[r])>>, L[r] + j), W + j)]
  BY DEF ProposeNext
<1>2. pc = "propose" /\ Proposes /\ UNCHANGED <<kind, adapter, W>>
  BY DEF ProposeNext, tierVars, headVars
<1>3. j \in Nat /\ j < Gamma
  BY DecodingAssumption
<1>4. adapter \in Routings /\ \A r \in Rows : W \in Nat /\ RoutedSlots(r)
  BY <1>2 DEF RoutedInv
<1>5. ASSUME NEW r \in Rows
      PROVE W .. W + j \subseteq dvalid'[r] /\ dvalid'[r] \subseteq dvalid[r] \cup (W + j) .. (W + j) + 1 - 1
  <2>1. W .. W + j - 1 \subseteq dvalid[r]
    <3>1. PICK k \in 0 .. Gamma - 1 : Proposed(k)
      BY <1>2 DEF RoutedInv
    <3> QED
      BY <1>1, <3>1 DEF Proposed
  <2> QED
    BY <1>1, <1>3, <1>4, <2>1
<1>6. ASSUME NEW r \in Rows PROVE RoutedSlots(r)'
  <2> DEFINE toks == <<Last(prop[r])>>
  <2>1. dcache'[r] = Written(dcache[r], Routed(toks, L[r] + j, Routing(1), r, 0, 1), W + j)
    BY <1>1 DEF Drafted
  <2>2. PICK n \in Nat, c \in Nat, first \in Int : n = 1 /\ c = 0 /\ first = W + j
    BY <1>3, <1>4
  <2>3. Len(toks) = n /\ c + n <= n
    BY <2>2
  <2> HIDE DEF toks
  <2>4. dcache'[r] = Written(dcache[r], Routed(toks, L[r] + j, Routing(n), r, c, n), first)
    BY <2>1, <2>2
  <2>5. dvalid'[r] \subseteq dvalid[r] \cup first .. first + n - 1
    BY <1>5, <2>2
  <2> QED
    BY <1>2, <1>4, <2>3, <2>4, <2>5, WriteIsRouted
<1>7. /\ prop' \in [Rows -> Seq(Tokens)]
      /\ pc' \in {"propose", "verify"}
      /\ pc' = "propose" => \E i \in 0 .. Gamma - 1 : Proposed(i)'
      /\ pc' = "verify" => Proposed(Gamma)'
  BY <1>1, <1>2, <1>3, <1>5, OneMoreProposal
<1> QED
  BY <1>2, <1>4, <1>6, <1>7 DEF RoutedInv

(* What verification makes valid for the draft, the proposals wrote. *)
LEMMA VerifyKeepsRouting == ASSUME RoutedInv, Verify PROVE RoutedInv'
<1>1. /\ pc = "verify" /\ pc' = "propose" /\ W' = W + Gamma + 1
      /\ prop' = [r \in Rows |-> << >>] /\ UNCHANGED <<kind, adapter, dcache>>
  BY DEF Verify, tierVars
<1>2. ASSUME NEW r \in Rows PROVE dvalid'[r] \subseteq dvalid[r]
  <2>1. W .. W + Gamma - 1 \subseteq dvalid[r]
    BY <1>1 DEF RoutedInv, Proposed
  <2>2. PICK acc : dvalid' = [q \in Rows |-> (dvalid[q] \ (W .. W + Gamma))
                                              \cup (Kept(acc[q]) \cap W .. W + Gamma - 1)]
    <3> DEFINE ok == [q \in Rows |-> valid[q] \cup W .. W + Gamma]
    <3>1. PICK pred \in {Predicted(tcache', ok)} :
            dvalid' = [q \in Rows |->
              (dvalid[q] \ (W .. W + Gamma))
                \cup (Kept([p \in Rows |-> Accepted(prop[p], pred[p])][q]) \cap W .. W + Gamma - 1)]
      BY DEF Verify
    <3> QED
      BY <3>1
  <2> QED
    BY <2>1, <2>2
<1>3. \A r \in Rows : RoutedSlots(r)'
  BY <1>1, <1>2 DEF RoutedInv, RoutedSlots, Own
<1>4. \A r \in Rows : W' \in Nat
  BY <1>1, DecodingAssumption DEF RoutedInv
<1>5. Proposed(0)' /\ 0 \in 0 .. Gamma - 1
  BY <1>1, <1>4, DecodingAssumption DEF Proposed
<1> QED
  BY <1>1, <1>3, <1>4, <1>5 DEF RoutedInv

LEMMA RestKeepsRouting ==
  ASSUME RoutedInv, Finish \/ Done \/ UNCHANGED vars PROVE RoutedInv'
<1>1. \/ pc' = "done" /\ pc # "prefill" /\ UNCHANGED <<kind, adapter, W, prop, dcache, dvalid>>
      \/ UNCHANGED <<kind, adapter, pc, committed, W, prop, dcache, dvalid>>
  BY DEF Finish, Done, vars, tierVars, headVars
<1> QED
  BY <1>1 DEF RoutedInv, RoutedSlots, Own, Proposed

(* DraftIsRouted for any batch, prompts, routing and number of proposals:     *)
(* every token the draft attends of a row was computed with the row's own     *)
(* adapter, whichever of the three passes of run_tier wrote it                *)
(* (batched_spec_loop.py, Step).                                              *)
THEOREM DraftRouted == Spec => []DraftIsRouted
<1>1. Init => RoutedInv
  BY RoutedStarts
<1>2. RoutedInv /\ [Next]_vars => RoutedInv'
  BY PrefillKeepsRouting, PlainKeepsRouting, FirstKeepsRouting, NextKeepsRouting,
     VerifyKeepsRouting, RestKeepsRouting DEF Next
<1>3. RoutedInv => DraftIsRouted
  BY DEF RoutedInv, RoutedSlots, Own, DraftIsRouted
<1> QED
  BY <1>1, <1>2, <1>3, PTL DEF Spec

-----------------------------------------------------------------------------
(***************************************************************************)
(* Numbers.                                                                *)
(***************************************************************************)

(* Induction, for a set of numbers. *)
LEMMA Induction ==
  ASSUME NEW S \in SUBSET Nat, 0 \in S, \A n \in S : n + 1 \in S
  PROVE  \A n \in Nat : n \in S
<1> DEFINE T == Nat \ S
           R == OpToRel(<, Nat)
<1>1. SUFFICES ASSUME T # {} PROVE FALSE
  OBVIOUS
<1>2. \A x, y \in Nat : y < x => <<y, x>> \in R
  BY DEF OpToRel
<1>3. PICK x \in T : \A y \in T : <<y, x>> \notin R
  <2>1. IsWellFoundedOn(R, Nat) /\ T \in SUBSET Nat
    BY NatLessThanWellFounded
  <2> HIDE DEF R, T
  <2> QED
    BY <1>1, <2>1, WFMin
<1> HIDE DEF R
<1>4. x # 0 /\ x - 1 \in Nat /\ x - 1 < x
  OBVIOUS
<1>5. x - 1 \in S
  BY <1>2, <1>3, <1>4
<1> QED
  BY <1>4, <1>5

-----------------------------------------------------------------------------
(***************************************************************************)
(* What a query attends.                                                   *)
(***************************************************************************)

(* f[k] lists the numbers of S below k. *)
IsListing(f, S, n) ==
  /\ f \in [0 .. n -> Seq(Nat)]
  /\ \A k \in 0 .. n : f[k] = IF k = 0 THEN << >>
                              ELSE IF k - 1 \in S THEN Append(f[k - 1], k - 1) ELSE f[k - 1]

(* The recursion is over numbers, so there is such a function. *)
LEMMA ListingExists ==
  ASSUME NEW S, NEW n \in Nat
  PROVE  \E f : IsListing(f, S, n)
<1> DEFINE N == {m \in Nat : \E f : IsListing(f, S, m)}
<1>1. 0 \in N
  <2> DEFINE f == [k \in 0 .. 0 |-> << >>]
  <2>1. f \in [0 .. 0 -> Seq(Nat)] /\ \A k \in 0 .. 0 : k = 0 /\ f[k] = << >>
    OBVIOUS
  <2> HIDE DEF f
  <2>2. IsListing(f, S, 0)
    BY <2>1 DEF IsListing
  <2> QED
    BY <2>2
<1>2. ASSUME NEW m \in N PROVE m + 1 \in N
  <2>1. PICK f : IsListing(f, S, m)
    OBVIOUS
  <2>2. /\ f \in [0 .. m -> Seq(Nat)] /\ m \in Nat
        /\ \A k \in 0 .. m : f[k] = IF k = 0 THEN << >>
                                    ELSE IF k - 1 \in S THEN Append(f[k - 1], k - 1) ELSE f[k - 1]
    BY <2>1 DEF IsListing
  <2> DEFINE next == IF m \in S THEN Append(f[m], m) ELSE f[m]
             h == [k \in 0 .. m + 1 |-> IF k = m + 1 THEN next ELSE f[k]]
  <2>3. next \in Seq(Nat)
    <3>1. f[m] \in Seq(Nat) /\ m \in Nat
      BY <2>2
    <3> QED
      BY <3>1
  <2>4. /\ h \in [0 .. m + 1 -> Seq(Nat)] /\ h[m + 1] = next
        /\ \A k \in 0 .. m : h[k] = f[k]
    <3> HIDE DEF next
    <3> QED
      BY <2>2, <2>3
  <2> HIDE DEF h
  <2>5. ASSUME NEW k \in 0 .. m + 1
        PROVE  h[k] = IF k = 0 THEN << >>
                      ELSE IF k - 1 \in S THEN Append(h[k - 1], k - 1) ELSE h[k - 1]
    <3>1. CASE k = m + 1
      <4>1. k # 0 /\ k - 1 = m /\ h[m] = f[m]
        BY <2>2, <2>4, <3>1
      <4> QED
        BY <2>4, <3>1, <4>1
    <3>2. CASE k # m + 1
      <4>1. k \in 0 .. m /\ (k # 0 => k - 1 \in 0 .. m)
        BY <2>2, <3>2
      <4> QED
        BY <2>2, <2>4, <4>1
    <3> QED
      BY <3>1, <3>2
  <2>6. IsListing(h, S, m + 1)
    BY <2>4, <2>5 DEF IsListing
  <2> QED
    BY <2>2, <2>6
<1>3. N \in SUBSET Nat
  OBVIOUS
<1> HIDE DEF N
<1>4. n \in N
  BY <1>1, <1>2, <1>3, Induction
<1> QED
  BY <1>4 DEF N

(* InOrder gives such a list. *)
LEMMA InOrderLists ==
  ASSUME NEW S, NEW n \in Nat
  PROVE  \E f : IsListing(f, S, n) /\ InOrder(S, n) = f[n]
<1> DEFINE below[k \in 0 .. n] ==
             IF k = 0 THEN << >>
             ELSE IF k - 1 \in S THEN Append(below[k - 1], k - 1) ELSE below[k - 1]
           Below(f) == [k \in 0 .. n |->
             IF k = 0 THEN << >>
             ELSE IF k - 1 \in S THEN Append(f[k - 1], k - 1) ELSE f[k - 1]]
<1>1. \E f : f = Below(f)
  <2>1. PICK f : IsListing(f, S, n)
    BY ListingExists
  <2>2. f = Below(f)
    BY <2>1 DEF IsListing
  <2> HIDE DEF Below
  <2> QED
    BY <2>2
<1>2. below = Below(below)
  BY <1>1, Zenon
<1>3. InOrder(S, n) = below[n]
  BY DEF InOrder
<1>4. /\ below = [k \in 0 .. n |-> below[k]]
      /\ \A k \in 0 .. n : below[k] = IF k = 0 THEN << >>
           ELSE IF k - 1 \in S THEN Append(below[k - 1], k - 1) ELSE below[k - 1]
  BY <1>2 DEF below
<1> HIDE DEF below
<1> DEFINE N == {m \in Nat : m <= n => below[m] \in Seq(Nat)}
<1>5. 0 \in N
  BY <1>4, SMTT(30)
<1>6. ASSUME NEW m \in N PROVE m + 1 \in N
  <2> SUFFICES ASSUME m + 1 <= n PROVE below[m + 1] \in Seq(Nat)
    OBVIOUS
  <2>1. m \in Nat /\ m + 1 \in 0 .. n /\ m + 1 # 0 /\ (m + 1) - 1 = m /\ below[m] \in Seq(Nat)
    OBVIOUS
  <2>2. below[m + 1] = IF m \in S THEN Append(below[m], m) ELSE below[m]
    BY <1>4, <2>1
  <2> QED
    BY <2>1, <2>2
<1>7. N \in SUBSET Nat
  OBVIOUS
<1>8. \A m \in Nat : m \in N
  <2> HIDE DEF N
  <2> QED
    BY <1>5, <1>6, <1>7, Induction
<1>9. \A m \in 0 .. n : below[m] \in Seq(Nat)
  BY <1>8
<1>10. below \in [0 .. n -> Seq(Nat)]
  <2> HIDE DEF N
  <2> QED
    BY <1>4, <1>9
<1> QED
  BY <1>3, <1>4, <1>10 DEF IsListing

(* The slots of S hold, in order, the first m tokens of x at their positions. *)
Holds(cache, S, x, m) ==
  /\ \A s \in S : cache[s].pos \in 0 .. m - 1 /\ cache[s].tok = x[cache[s].pos + 1]
  /\ \A p \in 0 .. m - 1 : \E s \in S : cache[s].pos = p
  /\ \A s, t \in S : s < t => cache[s].pos < cache[t].pos

(* l lists slots of S at the positions 0, 1, 2 ...: all those below k.        *)
Counts(cache, S, l, k) ==
  /\ \A i \in 1 .. Len(l) : l[i] \in S /\ l[i] < k /\ cache[l[i]].pos = i - 1
  /\ \A s \in S : s < k => cache[s].pos < Len(l)

(* A slot more. *)
LEMMA CountsOneMore ==
  ASSUME NEW cache, NEW S \in SUBSET Nat, NEW x, NEW m \in Nat, Holds(cache, S, x, m),
         NEW k \in Nat, NEW l \in Seq(Nat), Counts(cache, S, l, k), k \in S
  PROVE  Counts(cache, S, Append(l, k), k + 1)
<1>1. PICK c \in Nat : c = Len(l)
  OBVIOUS
<1>2. /\ \A i \in 1 .. c : l[i] \in S /\ l[i] < k /\ cache[l[i]].pos = i - 1
      /\ \A s \in S : s < k => cache[s].pos < c
  BY <1>1 DEF Counts
<1>3. PICK p \in 0 .. m - 1 : p = cache[k].pos
  BY DEF Holds
<1>4. p >= c
  <2> SUFFICES ASSUME p < c PROVE FALSE
    BY <1>3
  <2>1. p + 1 \in 1 .. c /\ (p + 1) - 1 = p
    BY <1>3, SMTT(30)
  <2>2. l[p + 1] \in S /\ l[p + 1] < k /\ cache[l[p + 1]].pos = p
    BY <1>2, <2>1
  <2>3. PICK u \in Nat : u = l[p + 1]
    BY <2>2
  <2>4. cache[u].pos < cache[k].pos
    BY <2>2, <2>3 DEF Holds
  <2> QED
    BY <1>3, <2>2, <2>3, <2>4
<1>5. p <= c
  <2> SUFFICES ASSUME p > c PROVE FALSE
    BY <1>3
  <2>1. c \in 0 .. m - 1
    BY <1>3
  <2>2. PICK s \in S : cache[s].pos = c
    BY <2>1 DEF Holds
  <2>3. CASE s < k
    BY <1>2, <2>2, <2>3
  <2>4. CASE s = k
    BY <1>3, <2>2, <2>4
  <2>5. CASE s > k
    <3>1. cache[k].pos < cache[s].pos
      BY <2>5 DEF Holds
    <3> QED
      BY <1>3, <2>2, <3>1
  <2> QED
    BY <2>3, <2>4, <2>5
<1>6. p = c
  BY <1>3, <1>4, <1>5
<1>7. PICK a \in Seq(Nat) : a = Append(l, k)
  <2>1. Append(l, k) \in Seq(Nat)
    OBVIOUS
  <2> QED
    BY <2>1
<1>8. Len(a) = c + 1 /\ a[c + 1] = k /\ \A i \in 1 .. c : a[i] = l[i]
  BY <1>1, <1>7
<1>9. ASSUME NEW i \in 1 .. c + 1
      PROVE  a[i] \in S /\ a[i] < k + 1 /\ cache[a[i]].pos = i - 1
  <2>1. CASE i = c + 1
    <3>1. a[i] = k /\ i - 1 = c
      BY <1>8, <2>1
    <3>2. k < k + 1 /\ cache[k].pos = c
      BY <1>3, <1>6
    <3> QED
      BY <3>1, <3>2
  <2>2. CASE i # c + 1
    <3>1. i \in 1 .. c
      BY <2>2
    <3>2. a[i] = l[i] /\ l[i] \in S /\ l[i] < k /\ cache[l[i]].pos = i - 1
      BY <1>2, <1>8, <3>1
    <3>3. PICK u \in Nat : u = l[i]
      BY <3>2
    <3> QED
      BY <3>2, <3>3
  <2> QED
    BY <2>1, <2>2
<1>10. ASSUME NEW s \in S, s < k + 1 PROVE cache[s].pos < c + 1
  <2>1. CASE s = k
    <3>1. cache[k].pos = c /\ c < c + 1
      BY <1>3, <1>6
    <3>2. cache[s] = cache[k]
      BY <2>1
    <3> QED
      BY <3>1, <3>2
  <2>2. CASE s # k
    <3>1. s < k
      BY <1>10, <2>2
    <3>2. PICK v \in 0 .. m - 1 : v = cache[s].pos
      BY DEF Holds
    <3>3. v < c
      BY <1>2, <3>1, <3>2
    <3> QED
      BY <3>2, <3>3
  <2> QED
    BY <2>1, <2>2
<1>11. Len(Append(l, k)) = c + 1 /\ Append(l, k) = a
  BY <1>7, <1>8
<1> QED
  BY <1>9, <1>10, <1>11 DEF Counts

(* The slots of S below n. *)
Below(S, n) == {s \in S : s < n}

(* In order, the slots that hold the first m tokens have positions 0, 1, ... *)
LEMMA ListedInOrder ==
  ASSUME NEW cache, NEW S \in SUBSET Nat, NEW x, NEW m \in Nat, NEW n \in Nat,
         Holds(cache, Below(S, n), x, m)
  PROVE  \E l \in Seq(Nat) :
            /\ l = InOrder(S, n) /\ Len(l) = m
            /\ \A i \in 1 .. m : l[i] \in Below(S, n) /\ cache[l[i]].pos = i - 1
<1>1. PICK f : IsListing(f, S, n) /\ InOrder(S, n) = f[n]
  BY InOrderLists
<1>2. /\ f \in [0 .. n -> Seq(Nat)]
      /\ \A k \in 0 .. n : f[k] = IF k = 0 THEN << >>
                                  ELSE IF k - 1 \in S THEN Append(f[k - 1], k - 1) ELSE f[k - 1]
  BY <1>1 DEF IsListing
<1> DEFINE B == Below(S, n)
<1>3. B \in SUBSET Nat /\ \A s \in B : s \in Nat /\ s < n
  BY DEF Below
<1> DEFINE N == {k \in Nat : k <= n => Counts(cache, B, f[k], k)}
<1>4. 0 \in N
  <2>1. f[0] = << >>
    BY <1>2
  <2>2. \A s \in B : ~(s < 0)
    BY <1>3
  <2> HIDE DEF B
  <2> QED
    BY <2>1, <2>2 DEF Counts
<1>5. ASSUME NEW k \in N PROVE k + 1 \in N
  <2> SUFFICES ASSUME k + 1 <= n PROVE Counts(cache, B, f[k + 1], k + 1)
    OBVIOUS
  <2>1. /\ k \in Nat /\ k \in 0 .. n /\ k + 1 \in 0 .. n /\ k + 1 # 0 /\ (k + 1) - 1 = k
        /\ Counts(cache, B, f[k], k)
    OBVIOUS
  <2>2. f[k + 1] = (IF k \in S THEN Append(f[k], k) ELSE f[k]) /\ f[k] \in Seq(Nat)
    BY <1>2, <2>1
  <2>3. k \in S <=> k \in B
    BY <2>1 DEF Below
  <2> HIDE DEF B
  <2>4. CASE k \in B
    BY <1>3, <2>1, <2>2, <2>3, <2>4, CountsOneMore DEF B
  <2>5. CASE k \notin B
    <3>1. PICK c \in Nat : c = Len(f[k])
      BY <2>2
    <3>2. \A s \in B : s < k + 1 => s < k
      BY <1>3, <2>1, <2>5
    <3>3. \A i \in 1 .. c : f[k][i] \in Nat
      BY <2>2, <3>1, SMTT(30)
    <3> QED
      BY <2>1, <2>2, <2>3, <2>5, <3>1, <3>2, <3>3, SMTT(30) DEF Counts
  <2> QED
    BY <2>4, <2>5
<1>6. N \in SUBSET Nat
  OBVIOUS
<1> HIDE DEF N
<1>7. n \in N
  BY <1>4, <1>5, <1>6, Induction
<1>8. Counts(cache, B, f[n], n)
  BY <1>7 DEF N
<1>9. Holds(cache, B, x, m)
  OBVIOUS
<1> HIDE DEF B
<1>10. PICK l \in Seq(Nat) : l = f[n]
  BY <1>2
<1>11. PICK c \in Nat : c = Len(l)
  BY <1>10
<1>12. /\ \A i \in 1 .. c : l[i] \in B /\ cache[l[i]].pos = i - 1
       /\ \A s \in B : cache[s].pos < c
  BY <1>3, <1>8, <1>10, <1>11 DEF Counts
<1>13. c <= m
  <2> SUFFICES ASSUME c > m PROVE FALSE
    OBVIOUS
  <2>1. m + 1 \in 1 .. c /\ (m + 1) - 1 = m
    OBVIOUS
  <2>2. cache[l[m + 1]].pos = m /\ l[m + 1] \in B
    BY <1>12, <2>1
  <2>3. cache[l[m + 1]].pos \in 0 .. m - 1
    BY <1>9, <2>2 DEF Holds
  <2> QED
    BY <2>2, <2>3
<1>14. m <= c
  <2> SUFFICES ASSUME m > c PROVE FALSE
    OBVIOUS
  <2>1. c \in 0 .. m - 1
    OBVIOUS
  <2>2. PICK s \in B : cache[s].pos = c
    BY <1>9, <2>1 DEF Holds
  <2> QED
    BY <1>12, <2>2
<1>15. c = m
  BY <1>13, <1>14
<1> QED
  BY <1>1, <1>10, <1>11, <1>12, <1>15 DEF B

(* A query at slot q sees the tokens that the slots up to its own hold. *)
LEMMA AttendedIs ==
  ASSUME NEW cache, NEW S \in SUBSET Nat, NEW q \in Nat,
         NEW x \in Seq(Tokens), NEW m \in 0 .. Len(x), Holds(cache, Below(S, q + 1), x, m)
  PROVE  /\ Attended(cache, S, q) = Placed(SubSeq(x, 1, m))
         /\ Placed(SubSeq(x, 1, m)) \in Seq(Entries)
<1>1. m \in Nat /\ q + 1 \in Nat
  OBVIOUS
<1>2. PICK l \in Seq(Nat) :
        /\ l = InOrder(S, q + 1) /\ Len(l) = m
        /\ \A i \in 1 .. m : l[i] \in Below(S, q + 1) /\ cache[l[i]].pos = i - 1
  BY <1>1, ListedInOrder, ZenonT(60)
<1>3. SubSeq(x, 1, m) \in Seq(Tokens) /\ Len(SubSeq(x, 1, m)) = m
      /\ \A i \in 1 .. m : SubSeq(x, 1, m)[i] = x[i]
  OBVIOUS
<1>4. ASSUME NEW i \in 1 .. m
      PROVE  cache[l[i]].tok = x[i] /\ cache[l[i]].pos = i - 1
  <2>1. (i - 1) + 1 = i
    OBVIOUS
  <2> QED
    BY <1>2, <2>1, SMTT(30) DEF Holds
<1>5. Attended(cache, S, q) = [i \in 1 .. m |-> [tok |-> cache[l[i]].tok, pos |-> cache[l[i]].pos]]
  BY <1>2 DEF Attended
<1>6. Attended(cache, S, q) = Placed(SubSeq(x, 1, m))
  BY <1>3, <1>4, <1>5, SMTT(30) DEF Placed
<1>7. Placed(SubSeq(x, 1, m)) \in [1 .. m -> Entries]
  BY <1>3 DEF Placed, Entries
<1> QED
  BY <1>6, <1>7

(* From slot first on, n slots hold the tokens of x that follow the first m. *)
Follows(cache, first, n, x, m) ==
  \A i \in 1 .. n : cache[first + i - 1].tok = x[m + i] /\ cache[first + i - 1].pos = m + i - 1

(* A write above what is held extends it. *)
LEMMA HoldsMore ==
  ASSUME NEW cache, NEW new, NEW S \in SUBSET Nat, NEW x, NEW m \in Nat,
         NEW first \in Nat, NEW n \in Nat, Holds(cache, S, x, m),
         \A s \in S : s < first /\ new[s] = cache[s], Follows(new, first, n, x, m)
  PROVE  Holds(new, S \cup first .. first + n - 1, x, m + n)
<1> DEFINE U == S \cup first .. first + n - 1
<1>1. ASSUME NEW s \in U
      PROVE  \/ /\ s \in S /\ s < first /\ new[s].pos \in 0 .. m - 1 /\ new[s].pos = cache[s].pos
                /\ new[s].tok = x[new[s].pos + 1]
             \/ /\ s \notin S /\ s >= first /\ s - first + m \in m .. m + n - 1
                /\ new[s].pos = s - first + m /\ new[s].tok = x[s - first + m + 1]
  <2>1. CASE s \in S
    BY <2>1 DEF Holds
  <2>2. CASE s \notin S
    <3>1. s \in first .. first + n - 1
      BY <2>2
    <3>2. PICK i \in 1 .. n : i = s - first + 1
      BY <3>1
    <3>3. first + i - 1 = s /\ m + i = s - first + m + 1 /\ m + i - 1 = s - first + m
      BY <3>1, <3>2
    <3>4. new[s].pos = s - first + m /\ new[s].tok = x[s - first + m + 1]
      BY <3>3 DEF Follows
    <3> QED
      BY <2>2, <3>1, <3>4
  <2> QED
    BY <2>1, <2>2
<1>2. U \in SUBSET Nat /\ S \subseteq U /\ first .. first + n - 1 \subseteq U
  OBVIOUS
<1> HIDE DEF U
<1>3. ASSUME NEW s \in U
      PROVE  new[s].pos \in 0 .. m + n - 1 /\ new[s].tok = x[new[s].pos + 1]
  BY <1>1
<1>4. ASSUME NEW p \in 0 .. m + n - 1 PROVE \E s \in U : new[s].pos = p
  <2>1. CASE p < m
    <3>1. PICK s \in S : cache[s].pos = p
      BY <2>1 DEF Holds
    <3> QED
      BY <1>2, <3>1
  <2>2. CASE p >= m
    <3>1. PICK i \in 1 .. n : i = p - m + 1
      BY <2>2
    <3>2. first + i - 1 \in first .. first + n - 1 /\ m + i - 1 = p
      BY <3>1
    <3>3. first + i - 1 \in U /\ new[first + i - 1].pos = p
      BY <1>2, <3>2 DEF Follows
    <3> QED
      BY <3>3
  <2> QED
    BY <2>1, <2>2
<1>5. ASSUME NEW s \in U, NEW t \in U, s < t PROVE new[s].pos < new[t].pos
  <2>1. s \in Nat /\ t \in Nat
    BY <1>2
  <2>2. CASE s \in S /\ t \in S
    <3>1. cache[s].pos < cache[t].pos
      BY <1>5, <2>2 DEF Holds
    <3> QED
      BY <2>2, <3>1
  <2>3. CASE s \in S /\ t \notin S
    <3>1. new[s].pos \in 0 .. m - 1
      BY <1>1, <2>3
    <3>2. new[t].pos = t - first + m /\ t - first + m \in m .. m + n - 1
      BY <1>1, <2>3
    <3> QED
      BY <3>1, <3>2
  <2>4. CASE s \notin S
    <3>1. new[s].pos = s - first + m /\ s >= first
      BY <1>1, <2>4
    <3>2. t \notin S
      BY <1>1, <1>5, <2>1, <3>1
    <3>3. new[t].pos = t - first + m
      BY <1>1, <3>2
    <3> QED
      BY <1>5, <2>1, <3>1, <3>3
  <2> QED
    BY <2>2, <2>3, <2>4
<1> QED
  BY <1>3, <1>4, <1>5 DEF Holds, U

(* Without the slots from first + j on, a cache holds j of the n tokens there. *)
LEMMA HoldsLess ==
  ASSUME NEW cache, NEW S \in SUBSET Nat, NEW x, NEW m \in Nat, NEW n \in Nat, NEW first \in Nat,
         Holds(cache, S, x, m + n),
         \A i \in 1 .. n : first + i - 1 \in S /\ cache[first + i - 1].pos = m + i - 1,
         \A s \in S : s < first + n, NEW j \in 0 .. n
  PROVE  Holds(cache, Below(S, first + j), x, m + j)
<1> DEFINE B == Below(S, first + j)
<1>1. \A s \in B : s \in S /\ s \in Nat /\ s < first + j
  BY DEF Below
<1>2. \A s \in S : s < first + j => s \in B
  BY DEF Below
<1> HIDE DEF B
<1>3. ASSUME NEW s \in S, s >= first PROVE cache[s].pos = s - first + m
  <2>1. PICK i \in 1 .. n : i = s - first + 1
    BY <1>3
  <2>2. first + i - 1 = s /\ m + i - 1 = s - first + m
    BY <2>1
  <2> QED
    BY <2>2
<1>4. ASSUME NEW s \in B PROVE cache[s].pos \in 0 .. m + j - 1 /\ cache[s].tok = x[cache[s].pos + 1]
  <2>1. s \in S /\ s \in Nat /\ s < first + j
    BY <1>1
  <2>2. PICK p \in 0 .. m + n - 1 : p = cache[s].pos /\ cache[s].tok = x[p + 1]
    BY <2>1 DEF Holds
  <2>3. p < m + j
    <3>1. CASE s >= first
      BY <1>3, <2>1, <2>2, <3>1
    <3>2. CASE s < first /\ n > 0
      <4>1. 1 \in 1 .. n /\ first + 1 - 1 = first /\ m + 1 - 1 = m
        BY <3>2
      <4>2. first \in S /\ cache[first].pos = m
        BY <4>1
      <4>3. cache[s].pos < cache[first].pos
        BY <2>1, <3>2, <4>2 DEF Holds
      <4> QED
        BY <2>2, <4>2, <4>3
    <3>3. CASE n = 0
      BY <2>2, <3>3
    <3> QED
      BY <2>1, <3>1, <3>2, <3>3
  <2> QED
    BY <2>2, <2>3
<1>5. ASSUME NEW p \in 0 .. m + j - 1 PROVE \E s \in B : cache[s].pos = p
  <2>1. p \in 0 .. m + n - 1
    OBVIOUS
  <2>2. PICK s \in S : cache[s].pos = p
    BY <2>1 DEF Holds
  <2>3. s < first + j
    <3> SUFFICES ASSUME s >= first + j PROVE FALSE
      OBVIOUS
    <3>1. cache[s].pos = s - first + m
      BY <1>3
    <3> QED
      BY <2>2, <3>1
  <2> QED
    BY <1>2, <2>2, <2>3
<1>6. \A s, t \in B : s < t => cache[s].pos < cache[t].pos
  BY <1>1 DEF Holds
<1> QED
  BY <1>4, <1>5, <1>6 DEF Holds, B

(* Only the first m tokens matter. *)
LEMMA HoldsAlike ==
  ASSUME NEW cache, NEW S, NEW x, NEW z, NEW m \in Int, Holds(cache, S, x, m),
         \A i \in 1 .. m : z[i] = x[i]
  PROVE  Holds(cache, S, z, m)
<1>1. ASSUME NEW s \in S PROVE cache[s].pos \in 0 .. m - 1 /\ cache[s].tok = z[cache[s].pos + 1]
  <2>1. PICK p \in 0 .. m - 1 : p = cache[s].pos /\ cache[s].tok = x[p + 1]
    BY DEF Holds
  <2>2. p + 1 \in 1 .. m
    BY <2>1
  <2> QED
    BY <2>1, <2>2
<1> QED
  BY <1>1 DEF Holds

-----------------------------------------------------------------------------
(***************************************************************************)
(* What a step writes.                                                     *)
(***************************************************************************)

Caches == [Slots -> RoutedEntries]

(* The entries of n tokens, at positions pos, pos + 1, ... *)
EntriesOf(entries, toks, n, pos) ==
  /\ Len(entries) = n
  /\ \A i \in 1 .. n :
       /\ entries[i] \in RoutedEntries
       /\ entries[i].tok = toks[i] /\ entries[i].pos = pos + i - 1

(* Whatever the routing vector. *)
LEMMA RoutedIs ==
  ASSUME NEW toks \in Seq(Tokens), NEW n \in Nat, n = Len(toks), NEW pos \in Nat,
         NEW idx, NEW k, NEW c, NEW S,
         \A i \in 1 .. n : idx[(k - 1) * S + c + i - 1] \in Loras \cup {NoLora}
  PROVE  EntriesOf(Routed(toks, pos, idx, k, c, S), toks, n, pos)
<1> DEFINE entries == Routed(toks, pos, idx, k, c, S)
<1>1. entries = [i \in 1 .. n |-> [tok  |-> toks[i], pos  |-> pos + i - 1,
                                   lora |-> idx[(k - 1) * S + c + i - 1]]]
  BY DEF Routed
<1>2. Len(entries) = n
  BY <1>1
<1>3. ASSUME NEW i \in 1 .. n
      PROVE  /\ entries[i] \in RoutedEntries
             /\ entries[i].tok = toks[i] /\ entries[i].pos = pos + i - 1
  <2>1. entries[i] = [tok |-> toks[i], pos |-> pos + i - 1, lora |-> idx[(k - 1) * S + c + i - 1]]
    BY <1>1
  <2>2. toks[i] \in Tokens /\ pos + i - 1 \in Nat
    OBVIOUS
  <2>3. idx[(k - 1) * S + c + i - 1] \in Loras \cup {NoLora}
    OBVIOUS
  <2> HIDE DEF entries
  <2> QED
    BY <2>1, <2>2, <2>3 DEF RoutedEntries
<1> HIDE DEF entries
<1> QED
  BY <1>2, <1>3 DEF EntriesOf, entries

(* The target has no routing vector. *)
LEMMA MergedIs ==
  ASSUME NEW toks \in Seq(Tokens), NEW n \in Nat, n = Len(toks), NEW pos \in Nat
  PROVE  EntriesOf(Merged(toks, pos), toks, n, pos)
<1> DEFINE idx == Uniform(1, n, NoLora)
<1>1. ASSUME NEW i \in 1 .. n PROVE idx[(1 - 1) * n + 0 + i - 1] \in Loras \cup {NoLora}
  <2>1. (1 - 1) * n + 0 + i - 1 = i - 1 /\ i - 1 \in 0 .. 1 * n - 1
    OBVIOUS
  <2> QED
    BY <2>1 DEF Uniform
<1>2. Merged(toks, pos) = Routed(toks, pos, idx, 1, 0, n)
  BY DEF Merged
<1> HIDE DEF idx
<1>3. \A k, c : k = 1 /\ c = 0 => EntriesOf(Routed(toks, pos, idx, k, c, n), toks, n, pos)
  BY <1>1, RoutedIs
<1> QED
  BY <1>2, <1>3

(* Row r's tokens in columns c, c + 1, ... of a draft pass S tokens wide. *)
LEMMA DraftedIs ==
  ASSUME adapter \in Routings, NEW r \in Rows, NEW toks \in Seq(Tokens), NEW n \in Nat,
         n = Len(toks), NEW pos \in Nat, NEW c \in Nat, NEW S \in Nat, c + n <= S
  PROVE  EntriesOf(Routed(toks, pos, Routing(S), r, c, S), toks, n, pos)
<1>1. Own(r) \in Loras \cup {NoLora}
  <2>1. adapter[r] \in Range(adapter)
    BY RoutingAssumption DEF Range
  <2> QED
    BY <2>1 DEF Loras, Own
<1>2. ASSUME NEW i \in 1 .. n PROVE Routing(S)[(r - 1) * S + c + i - 1] \in Loras \cup {NoLora}
  <2>1. (r - 1) * S + c + i - 1 = (r - 1) * S + (c + i - 1) /\ c + i - 1 \in 0 .. S - 1
    <3>1. r \in Nat /\ (r - 1) * S \in Int
      BY RoutingAssumption
    <3> QED
      BY <3>1
  <2> QED
    BY <1>1, <2>1, RoutingIsOwn
<1> QED
  BY <1>2, RoutedIs

(* w is cache with n tokens written from slot first and position pos on. *)
WrittenAs(w, cache, toks, n, first, pos) ==
  /\ w \in Caches
  /\ \A s \in Slots : s \notin first .. first + n - 1 => w[s] = cache[s]
  /\ \A i \in 1 .. n : w[first + i - 1].tok = toks[i] /\ w[first + i - 1].pos = pos + i - 1

(* Written is such a write. *)
LEMMA WriteIs ==
  ASSUME NEW cache \in Caches, NEW toks \in Seq(Tokens), NEW n \in Nat, NEW first \in Nat,
         first + n <= MaxCache, NEW pos \in Nat, NEW entries, EntriesOf(entries, toks, n, pos)
  PROVE  WrittenAs(Written(cache, entries, first), cache, toks, n, first, pos)
<1> DEFINE w == Written(cache, entries, first)
<1>1. MaxCache \in Nat /\ first .. first + n - 1 \subseteq Slots /\ DOMAIN cache = Slots
  BY BatchedAssumption DEF Slots, Caches
<1>2. Len(entries) = n
  BY DEF EntriesOf
<1>3. w = [s \in Slots |-> IF s \in first .. first + n - 1 THEN entries[s - first + 1] ELSE cache[s]]
  <2>1. Slots \cup (first .. first + n - 1) = Slots
    BY <1>1
  <2> QED
    BY <1>1, <1>2, <2>1 DEF Written
<1> HIDE DEF w
<1>4. ASSUME NEW i \in 1 .. n
      PROVE  w[first + i - 1].tok = toks[i] /\ w[first + i - 1].pos = pos + i - 1
  <2>1. first + i - 1 \in first .. first + n - 1 /\ (first + i - 1) - first + 1 = i
    OBVIOUS
  <2>2. w[first + i - 1] = entries[i]
    BY <1>1, <1>3, <2>1
  <2> QED
    BY <2>2 DEF EntriesOf
<1>5. ASSUME NEW s \in first .. first + n - 1 PROVE entries[s - first + 1] \in RoutedEntries
  <2>1. s - first + 1 \in 1 .. n
    OBVIOUS
  <2> QED
    BY <2>1 DEF EntriesOf
<1>6. w \in Caches
  BY <1>3, <1>5 DEF Caches
<1>7. \A s \in Slots : s \notin first .. first + n - 1 => w[s] = cache[s]
  BY <1>3
<1> QED
  BY <1>4, <1>6, <1>7 DEF w, WrittenAs

(* What w, written n tokens from slot first on, holds of x beside the slots S. *)
MoreHeld(w, cache, S, x, m, n, first) ==
  /\ w \in Caches
  /\ Holds(w, S \cup first .. first + n - 1, x, m + n)
  /\ \A i \in 1 .. n : w[first + i - 1].pos = m + i - 1
  /\ \A s \in Slots : s < first => w[s] = cache[s]

(* A step that writes, above what is held, the tokens that follow. *)
LEMMA WriteHolds ==
  ASSUME NEW cache \in Caches, NEW S \in SUBSET Slots, NEW x, NEW m \in Nat, Holds(cache, S, x, m),
         NEW toks \in Seq(Tokens), NEW n \in Nat, NEW first \in Nat,
         first + n <= MaxCache, NEW entries, EntriesOf(entries, toks, n, m),
         \A s \in S : s < first, \A i \in 1 .. n : toks[i] = x[m + i]
  PROVE  MoreHeld(Written(cache, entries, first), cache, S, x, m, n, first)
<1> DEFINE w == Written(cache, entries, first)
<1>1. /\ w \in Caches
      /\ \A s \in Slots : s \notin first .. first + n - 1 => w[s] = cache[s]
      /\ \A i \in 1 .. n : w[first + i - 1].tok = toks[i] /\ w[first + i - 1].pos = m + i - 1
  <2> HIDE DEF w
  <2>1. WrittenAs(w, cache, toks, n, first, m)
    BY WriteIs DEF w
  <2> QED
    BY <2>1 DEF WrittenAs
<1>2. S \in SUBSET Nat /\ \A s \in Slots : s \in Nat
  BY BatchedAssumption DEF Slots
<1> HIDE DEF w
<1>3. \A s \in Slots : s < first => w[s] = cache[s]
  BY <1>1, <1>2
<1>4. \A s \in S : s < first /\ w[s] = cache[s]
  BY <1>3
<1>5. Follows(w, first, n, x, m)
  BY <1>1 DEF Follows
<1>6. Holds(w, S \cup first .. first + n - 1, x, m + n)
  BY <1>2, <1>4, <1>5, HoldsMore
<1> QED
  BY <1>1, <1>3, <1>6 DEF w, MoreHeld

-----------------------------------------------------------------------------
(***************************************************************************)
(* Sums over the rows.                                                     *)
(***************************************************************************)

(* SumFunction sums what is left after its own choice of an element. *)
AnyOf(s) == CHOOSE x \in s : TRUE

Summed(it, f, S) ==
  /\ it \in [SUBSET S -> Int]
  /\ \A s \in SUBSET S : it[s] = IF s = {} THEN 0 ELSE f[AnyOf(s)] + it[s \ {AnyOf(s)}]

(* Cardinality of what is left when an element is removed. *)
LEMMA OneLess ==
  ASSUME NEW S, IsFiniteSet(S), NEW s \in SUBSET S, s # {}
  PROVE  /\ AnyOf(s) \in s /\ s \ {AnyOf(s)} \in SUBSET S
         /\ Cardinality(s) \in Nat \ {0} /\ Cardinality(s \ {AnyOf(s)}) = Cardinality(s) - 1
<1>1. AnyOf(s) \in s
  BY DEF AnyOf
<1>2. IsFiniteSet(s)
  BY FS_Subset
<1>3. Cardinality(s) \in Nat /\ Cardinality(s) # 0
  BY <1>2, FS_CardinalityType, FS_EmptySet
<1>4. Cardinality(s \ {AnyOf(s)}) = Cardinality(s) - 1
  BY <1>1, <1>2, FS_RemoveElement
<1> QED
  BY <1>1, <1>3, <1>4

(* The sums of the subsets of S, by induction on their size. *)
LEMMA SummedExists ==
  ASSUME NEW S, IsFiniteSet(S), NEW f \in [S -> Int]
  PROVE  \E it : Summed(it, f, S)
<1> DEFINE Upto(it, m) ==
             \A s \in SUBSET S : Cardinality(s) <= m =>
               it[s] = IF s = {} THEN 0 ELSE f[AnyOf(s)] + it[s \ {AnyOf(s)}]
           N == {m \in Nat : \E it \in [SUBSET S -> Int] : Upto(it, m)}
<1>1. \A s \in SUBSET S : Cardinality(s) \in Nat /\ (Cardinality(s) = 0 <=> s = {})
  BY FS_Subset, FS_CardinalityType, FS_EmptySet
<1>2. 0 \in N
  <2> DEFINE it == [s \in SUBSET S |-> 0]
  <2>1. it \in [SUBSET S -> Int] /\ it[{}] = 0
    OBVIOUS
  <2> HIDE DEF it
  <2>2. ASSUME NEW s \in SUBSET S, Cardinality(s) <= 0 PROVE s = {}
    <3>1. PICK c \in Nat : c = Cardinality(s)
      BY <1>1
    <3>2. c = 0
      BY <2>2, <3>1
    <3> QED
      BY <1>1, <3>1, <3>2
  <2>3. Upto(it, 0)
    BY <2>1, <2>2
  <2> QED
    BY <2>1, <2>3
<1>3. ASSUME NEW m \in N PROVE m + 1 \in N
  <2>1. PICK it \in [SUBSET S -> Int] : Upto(it, m)
    OBVIOUS
  <2>2. m \in Nat
    OBVIOUS
  <2> DEFINE h == [s \in SUBSET S |->
                     IF Cardinality(s) = m + 1 THEN f[AnyOf(s)] + it[s \ {AnyOf(s)}] ELSE it[s]]
  <2>3. \A s \in SUBSET S : /\ Cardinality(s) = m + 1 => h[s] = f[AnyOf(s)] + it[s \ {AnyOf(s)}]
                            /\ Cardinality(s) # m + 1 => h[s] = it[s]
    OBVIOUS
  <2>4. h \in [SUBSET S -> Int]
    <3> SUFFICES ASSUME NEW s \in SUBSET S, Cardinality(s) = m + 1
                 PROVE  f[AnyOf(s)] + it[s \ {AnyOf(s)}] \in Int
      OBVIOUS
    <3>1. s # {}
      BY <1>1, <2>2
    <3>2. AnyOf(s) \in S /\ s \ {AnyOf(s)} \in SUBSET S
      BY <3>1, OneLess
    <3> QED
      BY <3>2
  <2> HIDE DEF h
  <2>5. ASSUME NEW s \in SUBSET S, Cardinality(s) <= m + 1
        PROVE  h[s] = IF s = {} THEN 0 ELSE f[AnyOf(s)] + h[s \ {AnyOf(s)}]
    <3>1. CASE s = {}
      <4>1. Cardinality(s) = 0
        BY <1>1, <3>1
      <4>2. Cardinality(s) <= m /\ Cardinality(s) # m + 1
        BY <2>2, <4>1
      <4> QED
        BY <2>1, <2>3, <3>1, <4>2
    <3>2. CASE s # {}
      <4>1. PICK t \in SUBSET S : t = s \ {AnyOf(s)} /\ Cardinality(t) = Cardinality(s) - 1
        BY <3>2, OneLess
      <4>2. PICK c \in Nat : c = Cardinality(s) /\ c <= m + 1
        BY <1>1, <2>5
      <4>3. h[t] = it[t]
        <5>1. c - 1 # m + 1
          BY <2>2, <4>2
        <5>2. Cardinality(t) # m + 1
          BY <4>1, <4>2, <5>1
        <5> QED
          BY <2>3, <5>2
      <4>4. CASE Cardinality(s) = m + 1
        BY <2>3, <3>2, <4>1, <4>3, <4>4
      <4>5. CASE Cardinality(s) # m + 1
        <5>1. Cardinality(s) <= m
          BY <2>2, <2>5, <4>2, <4>5
        <5>2. it[s] = f[AnyOf(s)] + it[t]
          BY <2>1, <3>2, <4>1, <5>1
        <5> QED
          BY <2>3, <3>2, <4>1, <4>3, <4>5, <5>2
      <4> QED
        BY <4>4, <4>5
    <3> QED
      BY <3>1, <3>2
  <2>6. Upto(h, m + 1)
    BY <2>5
  <2> HIDE DEF Upto
  <2> QED
    BY <2>2, <2>4, <2>6
<1>4. N \in SUBSET Nat
  OBVIOUS
<1>5. PICK n \in Nat : n = Cardinality(S)
  BY FS_CardinalityType
<1>6. n \in N
  <2> HIDE DEF N
  <2> QED
    BY <1>2, <1>3, <1>4, <1>5, Induction
<1>7. PICK it \in [SUBSET S -> Int] : Upto(it, n)
  BY <1>6
<1>8. \A s \in SUBSET S : Cardinality(s) <= n
  BY <1>5, FS_Subset
<1>9. Summed(it, f, S)
  BY <1>7, <1>8 DEF Summed
<1> QED
  BY <1>9

(* SumFunction is the last of them. *)
LEMMA SumIs ==
  ASSUME NEW S, IsFiniteSet(S), NEW f \in [S -> Int]
  PROVE  \E it : Summed(it, f, S) /\ SumFunction(f) = it[S]
<1> DEFINE iter[s \in SUBSET S] ==
             IF s = {} THEN 0
             ELSE LET x == CHOOSE x \in s : TRUE IN f[x] + iter[s \ {x}]
           Body(it) == [s \in SUBSET S |->
             IF s = {} THEN 0
             ELSE LET x == CHOOSE x \in s : TRUE IN f[x] + it[s \ {x}]]
<1>1. PICK it : Summed(it, f, S)
  BY SummedExists
<1>2. it = Body(it)
  BY <1>1 DEF Summed, AnyOf
<1>3. iter = Body(iter)
  <2>1. \E g : g = Body(g)
    <3> HIDE DEF Body
    <3> QED
      BY <1>2
  <2> QED
    BY <2>1, Zenon
<1>4. DOMAIN f = S
  OBVIOUS
<1>5. SumFunction(f) = iter[S]
  BY <1>4 DEF SumFunction, SumFunctionOnSet, FoldFunctionOnSet, MapThenFoldSet
<1> HIDE DEF iter, Body
<1>6. /\ iter = [s \in SUBSET S |-> iter[s]]
      /\ \A s \in SUBSET S : iter[s] = IF s = {} THEN 0 ELSE f[AnyOf(s)] + iter[s \ {AnyOf(s)}]
  BY <1>3 DEF Body, AnyOf
<1> DEFINE N == {m \in Nat : \A s \in SUBSET S : Cardinality(s) = m => iter[s] \in Int}
<1>7. 0 \in N
  <2>1. ASSUME NEW s \in SUBSET S, Cardinality(s) = 0 PROVE iter[s] = 0
    <3>1. s = {}
      BY <2>1, FS_Subset, FS_EmptySet
    <3> QED
      BY <1>6, <3>1
  <2> QED
    BY <2>1
<1>8. ASSUME NEW m \in N PROVE m + 1 \in N
  <2>1. ASSUME NEW s \in SUBSET S, Cardinality(s) = m + 1 PROVE iter[s] \in Int
    <3>1. m \in Nat /\ m + 1 # 0 /\ (m + 1) - 1 = m
      OBVIOUS
    <3>2. s # {}
      BY <2>1, <3>1, FS_EmptySet
    <3>3. PICK t \in SUBSET S : t = s \ {AnyOf(s)} /\ Cardinality(t) = m /\ AnyOf(s) \in S
      <4>1. /\ AnyOf(s) \in s /\ s \ {AnyOf(s)} \in SUBSET S
            /\ Cardinality(s \ {AnyOf(s)}) = Cardinality(s) - 1
        BY <3>2, OneLess
      <4>2. Cardinality(s) - 1 = m
        BY <2>1, <3>1
      <4> QED
        BY <4>1, <4>2
    <3>4. iter[t] \in Int /\ f[AnyOf(s)] \in Int
      BY <3>3
    <3>5. iter[s] = f[AnyOf(s)] + iter[t]
      BY <1>6, <3>2, <3>3
    <3> QED
      BY <3>4, <3>5
  <2> QED
    BY <2>1
<1>9. N \in SUBSET Nat
  OBVIOUS
<1>10. ASSUME NEW s \in SUBSET S PROVE iter[s] \in Int
  <2>1. Cardinality(s) \in Nat
    BY FS_Subset, FS_CardinalityType
  <2>2. Cardinality(s) \in N
    <3> HIDE DEF N
    <3> QED
      BY <1>7, <1>8, <1>9, <2>1, Induction
  <2> QED
    BY <2>2
<1>11. Summed(iter, f, S)
  <2> HIDE DEF N
  <2>1. iter \in [SUBSET S -> Int]
    BY <1>6, <1>10
  <2> QED
    BY <1>6, <2>1 DEF Summed
<1> QED
  BY <1>5, <1>11

(* The same amount more in every row. *)
LEMMA SumShifted ==
  ASSUME NEW S, IsFiniteSet(S), NEW f \in [S -> Int], NEW g \in [S -> Int], NEW k \in Nat,
         \A r \in S : f[r] = k + g[r]
  PROVE  SumFunction(f) = k * Cardinality(S) + SumFunction(g)
<1>1. PICK u : Summed(u, f, S) /\ SumFunction(f) = u[S]
  BY SumIs
<1>2. PICK v : Summed(v, g, S) /\ SumFunction(g) = v[S]
  BY SumIs
<1> DEFINE N == {m \in Nat : \A s \in SUBSET S : Cardinality(s) = m => u[s] = k * m + v[s]}
<1>3. 0 \in N
  <2>1. ASSUME NEW s \in SUBSET S, Cardinality(s) = 0 PROVE u[s] = k * 0 + v[s]
    <3>1. s = {}
      BY <2>1, FS_Subset, FS_EmptySet
    <3>2. u[s] = 0 /\ v[s] = 0
      BY <1>1, <1>2, <3>1 DEF Summed
    <3> QED
      BY <3>2
  <2> QED
    BY <2>1
<1>4. ASSUME NEW m \in N PROVE m + 1 \in N
  <2>1. ASSUME NEW s \in SUBSET S, Cardinality(s) = m + 1 PROVE u[s] = k * (m + 1) + v[s]
    <3>1. m \in Nat /\ m + 1 # 0 /\ (m + 1) - 1 = m
      OBVIOUS
    <3>2. s # {}
      BY <2>1, <3>1, FS_EmptySet
    <3>3. PICK t \in SUBSET S : t = s \ {AnyOf(s)} /\ Cardinality(t) = m /\ AnyOf(s) \in S
      <4>1. /\ AnyOf(s) \in s /\ s \ {AnyOf(s)} \in SUBSET S
            /\ Cardinality(s \ {AnyOf(s)}) = Cardinality(s) - 1
        BY <3>2, OneLess
      <4>2. Cardinality(s) - 1 = m
        BY <2>1, <3>1
      <4> QED
        BY <4>1, <4>2
    <3>4. u[s] = f[AnyOf(s)] + u[t] /\ v[s] = g[AnyOf(s)] + v[t]
      BY <1>1, <1>2, <3>2, <3>3 DEF Summed
    <3>5. u[t] = k * m + v[t]
      BY <3>3
    <3>6. PICK a \in Int, b \in Int : a = g[AnyOf(s)] /\ b = v[t] /\ f[AnyOf(s)] = k + a
      BY <1>2, <3>3 DEF Summed
    <3>7. k * (m + 1) = k * m + k /\ k * m \in Int
      BY <3>1
    <3> QED
      BY <3>4, <3>5, <3>6, <3>7
  <2> QED
    BY <2>1
<1>5. N \in SUBSET Nat
  OBVIOUS
<1>6. PICK n \in Nat : n = Cardinality(S)
  BY FS_CardinalityType
<1>7. n \in N
  <2> HIDE DEF N
  <2> QED
    BY <1>3, <1>4, <1>5, <1>6, Induction
<1> QED
  BY <1>1, <1>2, <1>6, <1>7

(* A sum of natural numbers. *)
LEMMA SumIsNat ==
  ASSUME NEW S, IsFiniteSet(S), NEW f \in [S -> Nat]
  PROVE  SumFunction(f) \in Nat /\ ((\A r \in S : f[r] = 0) => SumFunction(f) = 0)
<1>1. PICK u : Summed(u, f, S) /\ SumFunction(f) = u[S]
  <2>1. f \in [S -> Int]
    OBVIOUS
  <2> QED
    BY <2>1, SumIs
<1> DEFINE N == {m \in Nat : \A s \in SUBSET S : Cardinality(s) = m =>
                    u[s] \in Nat /\ ((\A r \in S : f[r] = 0) => u[s] = 0)}
<1>2. 0 \in N
  <2>1. ASSUME NEW s \in SUBSET S, Cardinality(s) = 0 PROVE u[s] = 0
    <3>1. s = {}
      BY <2>1, FS_Subset, FS_EmptySet
    <3> QED
      BY <1>1, <3>1 DEF Summed
  <2> QED
    BY <2>1
<1>3. ASSUME NEW m \in N PROVE m + 1 \in N
  <2>1. ASSUME NEW s \in SUBSET S, Cardinality(s) = m + 1
        PROVE  u[s] \in Nat /\ ((\A r \in S : f[r] = 0) => u[s] = 0)
    <3>1. m \in Nat /\ m + 1 # 0 /\ (m + 1) - 1 = m
      OBVIOUS
    <3>2. s # {}
      BY <2>1, <3>1, FS_EmptySet
    <3>3. PICK t \in SUBSET S : t = s \ {AnyOf(s)} /\ Cardinality(t) = m /\ AnyOf(s) \in S
      <4>1. /\ AnyOf(s) \in s /\ s \ {AnyOf(s)} \in SUBSET S
            /\ Cardinality(s \ {AnyOf(s)}) = Cardinality(s) - 1
        BY <3>2, OneLess
      <4>2. Cardinality(s) - 1 = m
        BY <2>1, <3>1
      <4> QED
        BY <4>1, <4>2
    <3>4. u[s] = f[AnyOf(s)] + u[t]
      BY <1>1, <3>2, <3>3 DEF Summed
    <3>5. u[t] \in Nat /\ ((\A r \in S : f[r] = 0) => u[t] = 0)
      BY <3>3
    <3>6. f[AnyOf(s)] \in Nat /\ ((\A r \in S : f[r] = 0) => f[AnyOf(s)] = 0)
      BY <3>3
    <3> QED
      BY <3>4, <3>5, <3>6
  <2> QED
    BY <2>1
<1>4. N \in SUBSET Nat
  OBVIOUS
<1>5. PICK n \in Nat : n = Cardinality(S)
  BY FS_CardinalityType
<1>6. n \in N
  <2> HIDE DEF N
  <2> QED
    BY <1>2, <1>3, <1>4, <1>5, Induction
<1> QED
  BY <1>1, <1>5, <1>6

-----------------------------------------------------------------------------
(***************************************************************************)
(* What is accepted and committed.                                         *)
(***************************************************************************)

(* A set of numbers up to n has a greatest. *)
LEMMA GreatestBelow ==
  ASSUME NEW n \in Nat, NEW T \in SUBSET (0 .. n), T # {}
  PROVE  \E x \in T : \A z \in T : z <= x
<1> DEFINE U == {n - z : z \in T}
<1>1. U \in SUBSET Nat /\ U # {}
  <2>1. \A z \in T : n - z \in Nat
    OBVIOUS
  <2>2. PICK z \in T : TRUE
    OBVIOUS
  <2> QED
    BY <2>1, <2>2
<1>2. PICK u \in U : \A z \in U : <<z, u>> \notin OpToRel(<, Nat)
  <2> HIDE DEF U
  <2> QED
    BY <1>1, NatLessThanWellFounded, WFMin
<1>3. \A z \in U : ~(z < u)
  <2> HIDE DEF U
  <2> QED
    BY <1>1, <1>2 DEF OpToRel
<1>4. PICK x \in T : u = n - x
  BY <1>2
<1>5. ASSUME NEW z \in T PROVE z <= x
  <2>1. ~(n - z < n - x)
    BY <1>3, <1>4
  <2> QED
    BY <2>1
<1> QED
  BY <1>5

(* What c followed by w is. *)
LEMMA JoinIs ==
  ASSUME NEW c \in Seq(Tokens), NEW w \in Seq(Tokens), NEW x, x = c \o w
  PROVE  /\ x \in Seq(Tokens) /\ Len(x) = Len(c) + Len(w)
         /\ \A i \in 1 .. Len(c) : x[i] = c[i]
         /\ \A j \in 1 .. Len(w) : x[Len(c) + j] = w[j]
<1>1. PICK n \in Nat, b \in Nat : n = Len(c) /\ b = Len(w)
  OBVIOUS
<1>2. /\ x \in Seq(Tokens) /\ Len(x) = n + b
      /\ \A i \in 1 .. n + b : x[i] = IF i <= n THEN c[i] ELSE w[i - n]
  BY <1>1, ConcatProperties
<1>3. ASSUME NEW j \in 1 .. b PROVE x[n + j] = w[j]
  <2>1. n + j \in 1 .. n + b /\ ~(n + j <= n) /\ (n + j) - n = j
    OBVIOUS
  <2> QED
    BY <1>2, <2>1
<1>4. \A i \in 1 .. n : i \in 1 .. n + b /\ i <= n
  OBVIOUS
<1> QED
  BY <1>1, <1>2, <1>3, <1>4

(* The target agrees with the first a proposals. *)
Agreed(a, p, pred) == a \in 0 .. Gamma /\ \A j \in 1 .. a : pred[j] = p[j]

(* There is a longest prefix the target agrees with. *)
LEMMA AcceptedIs ==
  ASSUME NEW p, NEW pred
  PROVE  Agreed(Accepted(p, pred), p, pred)
<1> DEFINE T == {a \in 0 .. Gamma : \A j \in 1 .. a : pred[j] = p[j]}
<1>1. Gamma \in Nat /\ T \in SUBSET (0 .. Gamma) /\ 0 \in T
  BY DecodingAssumption
<1>2. PICK a \in T : \A z \in T : z <= a
  <2> HIDE DEF T
  <2> QED
    BY <1>1, GreatestBelow
<1>3. a \in 0 .. Gamma /\ \A j \in 1 .. a : pred[j] = p[j]
  OBVIOUS
<1>4. a < Gamma => pred[a + 1] # p[a + 1]
  <2> SUFFICES ASSUME a < Gamma, pred[a + 1] = p[a + 1] PROVE FALSE
    OBVIOUS
  <2>1. a + 1 \in T
    BY <1>1, <1>3
  <2> QED
    BY <1>2, <1>3, <2>1
<1>5. \E z \in 0 .. Gamma : /\ \A j \in 1 .. z : pred[j] = p[j]
                            /\ z < Gamma => pred[z + 1] # p[z + 1]
  BY <1>3, <1>4
<1> QED
  BY <1>5 DEF Accepted, Agreed

(* d extends c by what the target decodes greedily. *)
Extends(d, c) ==
  /\ Len(d) > Len(c)
  /\ SubSeq(d, 1, Len(c)) = c
  /\ \A i \in Len(c) + 1 .. Len(d) : d[i] = Target(Placed(SubSeq(d, 1, i - 1)))

(* new is c, of length n, with a of the proposals prp and the token t. *)
IsCommit(new, c, prp, n, a, t) ==
  /\ new \in Seq(Tokens) /\ Len(new) = n + a + 1 /\ new[n + a + 1] = t
  /\ \A i \in 1 .. n + a : new[i] = (c \o prp)[i]
  /\ Extends(new, c)

(* An iteration that commits a proposals the target agrees with and a token   *)
(* of the target's own extends the row greedily.                              *)
LEMMA CommitIs ==
  ASSUME NEW c \in Seq(Tokens), NEW n, n = Len(c), NEW prp \in Seq(Tokens), NEW a \in 0 .. Len(prp),
         NEW t \in Tokens,
         t = Target(Placed(SubSeq(c \o prp, 1, n + a))),
         \A j \in 1 .. a : prp[j] = Target(Placed(SubSeq(c \o prp, 1, n - 1 + j))),
         NEW new, new = c \o Append(SubSeq(prp, 1, a), t)
  PROVE  IsCommit(new, c, prp, n, a, t)
<1>1. PICK x \in Seq(Tokens) : x = c \o prp
  BY JoinIs
<1>2. n \in Nat
  OBVIOUS
<1>3. PICK k \in Nat : k = Len(prp) /\ a <= k
  OBVIOUS
<1>4. /\ Len(x) = n + k
      /\ \A i \in 1 .. n : x[i] = c[i]
      /\ \A j \in 1 .. k : x[n + j] = prp[j]
  <2>1. /\ Len(x) = Len(c) + Len(prp)
        /\ \A i \in 1 .. Len(c) : x[i] = c[i]
        /\ \A j \in 1 .. Len(prp) : x[Len(c) + j] = prp[j]
    BY <1>1, JoinIs
  <2> QED
    BY <1>2, <1>3, <2>1
<1>5. PICK w \in Seq(Tokens) :
        /\ w = Append(SubSeq(prp, 1, a), t) /\ Len(w) = a + 1 /\ w[a + 1] = t
        /\ \A j \in 1 .. a : w[j] = prp[j]
  <2>1. /\ SubSeq(prp, 1, a) \in Seq(Tokens) /\ Len(SubSeq(prp, 1, a)) = a
        /\ \A j \in 1 .. a : SubSeq(prp, 1, a)[j] = prp[j]
    BY <1>3
  <2>2. PICK z \in Seq(Tokens) : z = SubSeq(prp, 1, a) /\ Len(z) = a
    BY <2>1
  <2>3. /\ Append(z, t) \in Seq(Tokens) /\ Len(Append(z, t)) = a + 1 /\ Append(z, t)[a + 1] = t
        /\ \A j \in 1 .. a : Append(z, t)[j] = z[j]
    BY <1>3, <2>2
  <2>4. PICK w \in Seq(Tokens) :
          /\ w = Append(z, t) /\ Len(w) = a + 1 /\ w[a + 1] = t
          /\ \A j \in 1 .. a : w[j] = z[j]
    BY <2>3
  <2>5. w = Append(SubSeq(prp, 1, a), t)
    BY <2>2, <2>4
  <2>6. \A j \in 1 .. a : w[j] = prp[j]
    BY <2>1, <2>2, <2>4
  <2> QED
    BY <2>4, <2>5, <2>6
<1>6. PICK d \in Seq(Tokens) :
        /\ d = new /\ Len(d) = n + (a + 1)
        /\ \A i \in 1 .. n : d[i] = c[i]
        /\ \A j \in 1 .. a + 1 : d[n + j] = w[j]
  <2>1. new = c \o w
    BY <1>5
  <2>2. /\ c \o w \in Seq(Tokens) /\ Len(c \o w) = n + (a + 1)
        /\ \A i \in 1 .. n : (c \o w)[i] = c[i]
        /\ \A j \in 1 .. a + 1 : (c \o w)[n + j] = w[j]
    <3>1. PICK b \in Nat : b = a + 1 /\ b = Len(w)
      BY <1>3, <1>5
    <3>2. /\ c \o w \in Seq(Tokens) /\ Len(c \o w) = n + b
          /\ \A i \in 1 .. n : (c \o w)[i] = c[i]
          /\ \A j \in 1 .. b : (c \o w)[n + j] = w[j]
      <4>1. n = Len(c) /\ b = Len(w)
        BY <1>2, <3>1
      <4> QED
        BY <4>1, JoinIs
    <3> QED
      BY <3>1, <3>2
  <2> QED
    BY <2>1, <2>2
<1>7. \A i \in 1 .. n + a : d[i] = x[i]
  <2> SUFFICES ASSUME NEW i \in 1 .. n + a PROVE d[i] = x[i]
    OBVIOUS
  <2>1. CASE i \in 1 .. n
    BY <1>4, <1>6, <2>1
  <2>2. CASE i \notin 1 .. n
    <3>1. PICK j \in 1 .. a : i = n + j
      <4>1. i - n \in 1 .. a /\ i = n + (i - n)
        BY <2>2
      <4> QED
        BY <4>1
    <3>2. j \in 1 .. k /\ j \in 1 .. a + 1
      BY <1>3
    <3> QED
      BY <1>4, <1>5, <1>6, <3>1, <3>2
  <2> QED
    BY <2>1, <2>2
<1>8. \A q \in 0 .. n + a : SubSeq(d, 1, q) = SubSeq(x, 1, q)
  BY <1>3, <1>4, <1>6, <1>7
<1>9. ASSUME NEW i \in n + 1 .. n + (a + 1)
       PROVE  d[i] = Target(Placed(SubSeq(d, 1, i - 1)))
  <2>1. PICK j \in 1 .. a + 1 : i = n + j
    <3>1. i - n \in 1 .. a + 1 /\ i = n + (i - n)
      OBVIOUS
    <3> QED
      BY <3>1
  <2>2. i - 1 \in 0 .. n + a /\ i - 1 = n - 1 + j
    BY <2>1
  <2>3. SubSeq(d, 1, i - 1) = SubSeq(x, 1, n - 1 + j)
    BY <1>8, <2>2
  <2>4. CASE j \in 1 .. a
    <3>1. prp[j] = Target(Placed(SubSeq(x, 1, n - 1 + j)))
      BY <1>1, <1>2, <2>4
    <3>2. d[i] = prp[j]
      BY <1>5, <1>6, <2>1, <2>4
    <3> QED
      BY <2>3, <3>1, <3>2
  <2>5. CASE j \notin 1 .. a
    <3>1. j = a + 1 /\ n - 1 + j = n + a
      BY <1>2, <2>5
    <3> QED
      BY <1>1, <1>2, <1>5, <1>6, <2>1, <2>3, <3>1
  <2> QED
    BY <2>4, <2>5
<1>10. Extends(new, c)
  <2>1. n + (a + 1) > n /\ SubSeq(d, 1, n) = c
    BY <1>2, <1>6
  <2> QED
    BY <1>2, <1>6, <1>9, <2>1 DEF Extends
<1>11. new[n + a + 1] = t /\ Len(new) = n + a + 1
  <2>1. a + 1 \in 1 .. a + 1 /\ n + (a + 1) = n + a + 1
    OBVIOUS
  <2> QED
    BY <1>5, <1>6, <2>1
<1> QED
  BY <1>1, <1>2, <1>6, <1>7, <1>10, <1>11 DEF IsCommit

-----------------------------------------------------------------------------
(***************************************************************************)
(* What the caches hold of a row.                                          *)
(***************************************************************************)

(* An argmax over the vocabulary is a token of it. *)
TargetIsToken == \A view \in Seq(Entries) : Target(view) \in Tokens

(* new is c, of length n, and the token t the target decodes after it. *)
IsGrown(new, c, n, t) ==
  /\ new \in Seq(Tokens) /\ Len(new) = n + 1 /\ new[n + 1] = t
  /\ \A i \in 1 .. n : new[i] = c[i]
  /\ Extends(new, c)

(* A step that commits the target's next token. *)
LEMMA OneMore ==
  ASSUME NEW c \in Seq(Tokens), NEW n, n = Len(c), NEW t \in Tokens, t = Target(Placed(c))
  PROVE  IsGrown(Append(c, t), c, n, t)
<1>1. PICK d \in Seq(Tokens) : d = Append(c, t)
  <2>1. Append(c, t) \in Seq(Tokens)
    OBVIOUS
  <2> QED
    BY <2>1
<1>2. n \in Nat /\ Len(d) = n + 1 /\ d[n + 1] = t /\ \A i \in 1 .. n : d[i] = c[i]
  BY <1>1
<1>3. SubSeq(d, 1, n) = c
  BY <1>2
<1>4. ASSUME NEW i \in n + 1 .. n + 1 PROVE d[i] = Target(Placed(SubSeq(d, 1, i - 1)))
  <2>1. i = n + 1 /\ i - 1 = n
    BY <1>2
  <2> QED
    BY <1>2, <1>3, <2>1
<1>5. Extends(d, c)
  BY <1>2, <1>3, <1>4 DEF Extends
<1> QED
  BY <1>1, <1>2, <1>5 DEF IsGrown

(* w is a cache whose slots S hold the first n tokens of z. *)
IsFilled(w, S, z, n) == w \in Caches /\ Holds(w, S, z, n)

(* Prefill fills an unused cache of a row from slot pad on. *)
LEMMA PrefillRow ==
  ASSUME NEW cache \in Caches, NEW p \in Seq(Tokens), NEW n \in Nat, n = Len(p),
         NEW pad \in Nat, pad + n <= MaxCache, NEW entries, EntriesOf(entries, p, n, 0),
         NEW z, \A i \in 1 .. n : z[i] = p[i], NEW R, R = pad .. pad + n - 1
  PROVE  IsFilled(Written(cache, entries, pad), R, z, n)
<1>1. PICK w : w = Written(cache, entries, pad)
  OBVIOUS
<1>2. PICK S \in SUBSET Slots, m \in Nat : S = {} /\ m = 0
  OBVIOUS
<1>3. Holds(cache, S, p, m)
  BY <1>2 DEF Holds
<1>4. \A i \in 1 .. n : p[i] = p[m + i]
  BY <1>2
<1>5. (\A s \in S : s < pad) /\ EntriesOf(entries, p, n, m)
  BY <1>2
<1>6. MoreHeld(w, cache, S, p, m, n, pad)
  BY <1>1, <1>2, <1>3, <1>4, <1>5, WriteHolds
<1>7. S \cup pad .. pad + n - 1 = R /\ m + n = n
  BY <1>2
<1>8. Holds(w, R, p, n) /\ w \in Caches
  BY <1>6, <1>7 DEF MoreHeld
<1>9. Holds(w, R, z, n)
  BY <1>8, HoldsAlike
<1> QED
  BY <1>1, <1>8, <1>9 DEF IsFilled

(* fed, a cache with the g + 1 tokens of x after the l-th written from slot   *)
(* first on: the target's prediction after i of them is what it would say of  *)
(* x itself, and the slots kept when a are accepted hold what follows.        *)
Scored(fed, ok, S, x, l, g, first) ==
  /\ fed \in Caches
  /\ \A i \in 1 .. g + 1 :
       /\ Attended(fed, ok, first + i - 1) = Placed(SubSeq(x, 1, l + i))
       /\ Target(Attended(fed, ok, first + i - 1)) \in Tokens
  /\ \A a \in 0 .. g : Holds(fed, S \cup first .. first + a, x, l + a + 1)

(* The pending token and the proposals go through the target. *)
LEMMA TargetRow ==
  ASSUME TargetIsToken, NEW cache \in Caches, NEW W0 \in Nat, NEW S \in SUBSET (0 .. W0 - 1),
         NEW x \in Seq(Tokens), NEW l \in Nat, Holds(cache, S, x, l),
         NEW g \in Nat, Len(x) = l + 1 + g, W0 + g + 1 <= MaxCache,
         NEW toks \in Seq(Tokens), Len(toks) = g + 1, \A i \in 1 .. g + 1 : toks[i] = x[l + i],
         NEW ok, ok = S \cup W0 .. W0 + g
  PROVE  Scored(Written(cache, Merged(toks, l), W0), ok, S, x, l, g, W0)
<1>1. PICK fed : fed = Written(cache, Merged(toks, l), W0)
  OBVIOUS
<1>2. PICK n \in Nat : n = g + 1 /\ n = Len(toks) /\ W0 + n <= MaxCache
  OBVIOUS
<1>3. EntriesOf(Merged(toks, l), toks, n, l)
  BY <1>2, MergedIs
<1>4. S \in SUBSET Slots /\ S \in SUBSET Nat /\ \A s \in S : s < W0
  BY BatchedAssumption DEF Slots
<1>5. /\ fed \in Caches /\ Holds(fed, S \cup W0 .. W0 + n - 1, x, l + n)
      /\ \A i \in 1 .. n : fed[W0 + i - 1].pos = l + i - 1
  <2>1. \A i \in 1 .. n : toks[i] = x[l + i]
    BY <1>2
  <2>2. PICK entries : entries = Merged(toks, l)
    OBVIOUS
  <2>3. EntriesOf(entries, toks, n, l) /\ fed = Written(cache, entries, W0)
    BY <1>1, <1>3, <2>2
  <2> QED
    <3>1. MoreHeld(fed, cache, S, x, l, n, W0)
      BY <1>2, <1>4, <2>1, <2>3, WriteHolds
    <3> QED
      BY <3>1 DEF MoreHeld
<1>6. ok = S \cup W0 .. W0 + n - 1 /\ ok \in SUBSET Nat
  <2>1. W0 + n - 1 = W0 + g /\ W0 .. W0 + g \subseteq Nat
    BY <1>2
  <2> QED
    BY <1>4, <2>1
<1>7. ASSUME NEW j \in 0 .. n PROVE Holds(fed, Below(ok, W0 + j), x, l + j)
  <2>1. \A i \in 1 .. n : W0 + i - 1 \in ok /\ fed[W0 + i - 1].pos = l + i - 1
    <3> SUFFICES ASSUME NEW i \in 1 .. n PROVE W0 + i - 1 \in ok /\ fed[W0 + i - 1].pos = l + i - 1
      OBVIOUS
    <3>1. W0 + i - 1 \in W0 .. W0 + n - 1
      BY <1>2, SMTT(30)
    <3>2. W0 + i - 1 \in ok
      BY <1>6, <3>1
    <3> QED
      BY <1>5, <3>2
  <2>2. \A s \in ok : s < W0 + n
    <3>1. \A s \in W0 .. W0 + n - 1 : s < W0 + n
      BY <1>2
    <3>2. \A s \in S : s < W0 + n
      BY <1>2, <1>4
    <3> QED
      BY <1>6, <3>1, <3>2
  <2> QED
    BY <1>5, <1>6, <2>1, <2>2, HoldsLess
<1>8. ASSUME NEW i \in 1 .. g + 1
       PROVE  /\ Attended(fed, ok, W0 + i - 1) = Placed(SubSeq(x, 1, l + i))
              /\ Placed(SubSeq(x, 1, l + i)) \in Seq(Entries)
  <2>1. PICK q \in Nat, m \in 0 .. Len(x) : q = W0 + i - 1 /\ q + 1 = W0 + i /\ m = l + i
    <3>1. W0 + i - 1 \in Nat /\ (W0 + i - 1) + 1 = W0 + i /\ l + i \in 0 .. l + 1 + g
      OBVIOUS
    <3> QED
      BY <3>1
  <2>2. i \in 0 .. n
    BY <1>2
  <2>3. Holds(fed, Below(ok, q + 1), x, m)
    BY <1>7, <2>1, <2>2
  <2>4. Attended(fed, ok, q) = Placed(SubSeq(x, 1, m)) /\ Placed(SubSeq(x, 1, m)) \in Seq(Entries)
    BY <1>6, <2>3, AttendedIs
  <2> QED
    BY <2>1, <2>4
<1>9. ASSUME NEW a \in 0 .. g PROVE Holds(fed, S \cup W0 .. W0 + a, x, l + a + 1)
  <2>1. PICK j \in 0 .. n : j = a + 1 /\ W0 + j - 1 = W0 + a /\ l + j = l + a + 1
    <3>1. a + 1 \in 0 .. n /\ W0 + (a + 1) - 1 = W0 + a /\ l + (a + 1) = l + a + 1
      BY <1>2
    <3> QED
      BY <3>1
  <2>2. Below(ok, W0 + j) = S \cup W0 .. W0 + j - 1
    <3>1. ASSUME NEW s \in ok PROVE s < W0 + j <=> s \in S \cup W0 .. W0 + j - 1
      <4>1. CASE s \in S
        <5>1. s \in Nat /\ s < W0 /\ j >= 0
          BY <1>4, <4>1
        <5> QED
          BY <4>1, <5>1
      <4>2. CASE s \notin S
        BY <1>6, <4>2
      <4> QED
        BY <4>1, <4>2
    <3>2. S \cup W0 .. W0 + j - 1 \subseteq ok
      BY <1>6
    <3> QED
      BY <3>1, <3>2 DEF Below
  <2> QED
    BY <1>7, <2>1, <2>2
<1>10. \A i \in 1 .. g + 1 : Target(Attended(fed, ok, W0 + i - 1)) \in Tokens
  BY <1>8 DEF TargetIsToken
<1>11. Scored(fed, ok, S, x, l, g, W0)
  BY <1>5, <1>8, <1>9, <1>10 DEF Scored
<1> QED
  BY <1>1, <1>11

(* The draft's slots U, below first + g, hold what is committed of z when a   *)
(* of g proposals are accepted: the last one's entry is never there.          *)
RolledBack(cache, U, z, l, g, a, first) ==
  /\ U \in SUBSET (0 .. first + g - 1)
  /\ Holds(cache, U, z, IF a = g THEN l + g ELSE l + a + 1)

(* What is valid for the draft after a of its g proposals are accepted. *)
LEMMA DraftRow ==
  ASSUME NEW cache, NEW W0 \in Nat, NEW g \in Nat, NEW S \in SUBSET (0 .. W0 + g - 1),
         NEW x, NEW l \in Nat, NEW m, m = l + g, Holds(cache, S, x, m),
         \A i \in 1 .. g : W0 + i - 1 \in S /\ cache[W0 + i - 1].pos = l + i - 1,
         NEW a \in 0 .. g, NEW z, \A i \in 1 .. l + a + 1 : i <= l + g => z[i] = x[i],
         NEW U, U = (S \ (W0 .. W0 + g)) \cup ((W0 .. W0 + a) \cap (W0 .. W0 + g - 1))
  PROVE  RolledBack(cache, U, z, l, g, a, W0)
<1>1. PICK j \in 0 .. g : j = IF a = g THEN g ELSE a + 1
  OBVIOUS
<1>2. S \in SUBSET Nat /\ \A s \in S : s < W0 + g
  OBVIOUS
<1>3. Holds(cache, Below(S, W0 + j), x, l + j)
  BY <1>2, HoldsLess
<1>4. \A s \in W0 .. W0 + g - 1 : s \in S
  <2> SUFFICES ASSUME NEW s \in W0 .. W0 + g - 1 PROVE s \in S
    OBVIOUS
  <2>1. PICK i \in 1 .. g : i = s - W0 + 1 /\ W0 + i - 1 = s
    OBVIOUS
  <2> QED
    BY <2>1
<1>5. ASSUME NEW s \in Nat PROVE s \in U <=> s \in S /\ s < W0 + j
  <2>1. CASE s < W0
    BY <2>1
  <2>2. CASE s >= W0
    BY <1>1, <1>2, <1>4, <2>2
  <2> QED
    BY <2>1, <2>2
<1>6. U \in SUBSET Nat
  BY <1>2
<1>7. U = Below(S, W0 + j)
  BY <1>2, <1>5, <1>6 DEF Below
<1>8. Holds(cache, U, z, l + j)
  <2>1. \A i \in 1 .. l + j : z[i] = x[i]
    BY <1>1
  <2>2. l + j \in Int
    OBVIOUS
  <2> QED
    BY <1>3, <1>7, <2>1, <2>2, HoldsAlike
<1>9. U \subseteq S
  BY <1>7 DEF Below
<1> QED
  BY <1>1, <1>8, <1>9 DEF RolledBack

(* x is c, of length n, followed by w, of length b. *)
IsJoin(x, c, w, n, b) ==
  /\ x \in Seq(Tokens) /\ Len(x) = n + b
  /\ \A i \in 1 .. n : x[i] = c[i]
  /\ \A j \in 1 .. b : x[n + j] = w[j]

(* The same in one word. *)
LEMMA Joined ==
  ASSUME NEW c \in Seq(Tokens), NEW w \in Seq(Tokens), NEW n, n = Len(c), NEW b, b = Len(w)
  PROVE  IsJoin(c \o w, c, w, n, b)
<1>1. PICK x \in Seq(Tokens) : x = c \o w
  <2>1. c \o w \in Seq(Tokens)
    OBVIOUS
  <2> QED
    BY <2>1
<1> QED
  BY <1>1, JoinIs DEF IsJoin

(* x is c and the proposals prp; toks are the g + 1 tokens of it after the    *)
(* l-th, the pending token t and the proposals.                               *)
Feeding(x, toks, c, prp, l, g) ==
  /\ x \in Seq(Tokens) /\ Len(x) = l + 1 + g
  /\ \A i \in 1 .. l + 1 : x[i] = c[i]
  /\ toks \in Seq(Tokens) /\ Len(toks) = g + 1
  /\ \A i \in 1 .. g + 1 : toks[i] = x[l + i]

(* The sequence a row's proposals extend, and the tokens its target is fed. *)
LEMMA FedTokens ==
  ASSUME NEW c \in Seq(Tokens), NEW l \in Nat, Len(c) = l + 1, NEW t, t = c[l + 1],
         NEW prp \in Seq(Tokens), NEW g \in Nat, Len(prp) = g
  PROVE  Feeding(c \o prp, <<t>> \o prp, c, prp, l, g)
<1>1. PICK x : x = c \o prp
  OBVIOUS
<1>2. /\ x \in Seq(Tokens) /\ Len(x) = l + 1 + g
      /\ \A i \in 1 .. l + 1 : x[i] = c[i]
      /\ \A j \in 1 .. g : x[l + 1 + j] = prp[j]
  <2>1. PICK n : n = l + 1
    OBVIOUS
  <2>2. IsJoin(x, c, prp, n, g)
    BY <1>1, <2>1, Joined
  <2> QED
    BY <2>1, <2>2 DEF IsJoin
<1>3. PICK o \in Seq(Tokens) : o = <<t>> /\ Len(o) = 1 /\ o[1] = t
  <2>1. t \in Tokens
    <3>1. l + 1 \in 1 .. Len(c)
      OBVIOUS
    <3> QED
      BY <3>1
  <2>2. <<t>> \in Seq(Tokens) /\ Len(<<t>>) = 1 /\ <<t>>[1] = t
    BY <2>1
  <2> QED
    BY <2>2
<1>4. PICK u : u = o \o prp
  OBVIOUS
<1>5. /\ u \in Seq(Tokens) /\ Len(u) = 1 + g /\ u[1] = t
      /\ \A j \in 1 .. g : u[1 + j] = prp[j]
  <2>1. PICK n : n = 1
    OBVIOUS
  <2>2. IsJoin(u, o, prp, n, g)
    BY <1>3, <1>4, <2>1, Joined
  <2> QED
    BY <1>3, <2>1, <2>2 DEF IsJoin
<1>6. ASSUME NEW i \in 1 .. g + 1 PROVE u[i] = x[l + i]
  <2>1. CASE i = 1
    BY <1>2, <1>5, <2>1
  <2>2. CASE i # 1
    <3>1. PICK j \in 1 .. g : i = 1 + j /\ l + i = l + 1 + j
      <4>1. i - 1 \in 1 .. g /\ i = 1 + (i - 1) /\ l + i = l + 1 + (i - 1)
        BY <2>2
      <4> QED
        BY <4>1
    <3> QED
      BY <1>2, <1>5, <3>1
  <2> QED
    BY <2>1, <2>2
<1>7. Len(u) = g + 1
  BY <1>5
<1> QED
  BY <1>1, <1>2, <1>3, <1>4, <1>5, <1>6, <1>7 DEF Feeding

-----------------------------------------------------------------------------
(***************************************************************************)
(* The invariant.                                                          *)
(***************************************************************************)

(* What a row has committed, in step with its counters. *)
RowOK(r) ==
  /\ committed[r] \in Seq(Tokens) /\ Len(committed[r]) >= 3
  /\ L[r] = Len(committed[r]) - 1 /\ pend[r] = committed[r][L[r] + 1]
  /\ start[r] \in Nat /\ Len(committed[r]) - start[r] - 1 = (Iters - iters) + acc_tot[r]
  /\ acc_tot[r] \in 0 .. (Iters - iters) * Gamma
  /\ kind = "no_spec" => acc_tot[r] = 0

(* The target's cache holds the row's tokens up to the pending one. *)
TargetHolds(r) ==
  valid[r] \subseteq 0 .. W - 1 /\ Holds(tcache[r], valid[r], committed[r], L[r])

(* The draft's cache after k proposals.  Before the first, a last proposal    *)
(* that was kept is still missing.                                            *)
DraftHolds(r, k) ==
  /\ Len(prop[r]) = k
  /\ k = 0 =>
       /\ dvalid[r] \subseteq 0 .. W - 2
       /\ Holds(dcache[r], dvalid[r], committed[r], IF fully[r] THEN L[r] - 1 ELSE L[r])
       /\ fully[r] => last[r] = committed[r][L[r]]
  /\ k > 0 =>
       /\ dvalid[r] \subseteq 0 .. W + k - 1
       /\ Holds(dcache[r], dvalid[r], committed[r] \o prop[r], L[r] + k)
       /\ \A i \in 1 .. k : W + i - 1 \in dvalid[r] /\ dcache[r][W + i - 1].pos = L[r] + i - 1

(* Nothing is committed yet. *)
Fresh(r) ==
  /\ committed[r] \in Prompts /\ start[r] = Len(committed[r]) /\ L[r] = start[r]
  /\ prop[r] = << >> /\ fully[r] = FALSE /\ acc_tot[r] = 0 /\ valid[r] = {} /\ dvalid[r] = {}

(* Before prefill. *)
Unstarted ==
  pc = "prefill" => iters = Iters /\ W = 0 /\ total = 0 /\ \A r \in Rows : Fresh(r)

(* The rows have slots left for the iterations left. *)
UnderWay ==
  pc # "prefill" =>
    /\ W \in Nat \ {0} /\ W + iters * (Gamma + 1) <= MaxCache
    /\ \A r \in Rows : RowOK(r) /\ TargetHolds(r)

(* The steps of an iteration, and the count of its tokens. *)
PhaseOK ==
  /\ pc = "plain" => kind = "no_spec" /\ \A r \in Rows : prop[r] = << >>
  /\ pc = "propose" =>
       /\ kind # "no_spec"
       /\ \E k \in 0 .. Gamma - 1 : (k > 0 => iters > 0) /\ \A r \in Rows : DraftHolds(r, k)
  /\ pc = "verify" => kind # "no_spec" /\ iters > 0 /\ \A r \in Rows : DraftHolds(r, Gamma)
  /\ pc = "done" => iters = 0 /\ CountsCommitted /\ \A r \in Rows : prop[r] = << >>
  /\ pc # "done" => total = (Iters - iters) * Cardinality(Rows)

BatchedInv == TypeOK /\ Unstarted /\ UnderWay /\ PhaseOK

-----------------------------------------------------------------------------
(* The bounds the steps stay in. *)
LEMMA Sizes ==
  ASSUME TypeOK
  PROVE  /\ Gamma \in Nat \ {0} /\ Iters \in Nat /\ MaxCache \in Nat
         /\ iters \in 0 .. Iters /\ adapter \in Routings
         /\ Rows # {} /\ IsFiniteSet(Rows) /\ Cardinality(Rows) \in Nat
<1>1. adapter \in Routings /\ iters \in 0 .. Iters
  BY DEF TypeOK
<1>2. PICK n \in Nat : n = Len(adapter) /\ Rows = 1 .. n
  <2>1. Rows = 1 .. Len(adapter) /\ Rows # {}
    BY <1>1, RoutingAssumption, BatchedAssumption
  <2> QED
    BY <2>1
<1>3. IsFiniteSet(Rows) /\ Cardinality(Rows) = n
  <2>1. IsFiniteSet(1 .. n) /\ Cardinality(1 .. n) = n
    <3>1. 1 \in Int /\ n \in Int /\ (1 > n => n = 0) /\ n - 1 + 1 = n
      OBVIOUS
    <3> QED
      BY <3>1, FS_Interval
  <2> QED
    BY <1>2, <2>1
<1> QED
  BY <1>1, <1>2, <1>3, DecodingAssumption, BatchedAssumption

(* The room one iteration takes, and what is left. *)
LEMMA RoomForOne ==
  ASSUME TypeOK, NEW w \in Nat, w + iters * (Gamma + 1) <= MaxCache, iters > 0
  PROVE  /\ w + Gamma + 1 <= MaxCache /\ iters - 1 \in 0 .. Iters
         /\ (w + Gamma + 1) + (iters - 1) * (Gamma + 1) <= MaxCache
<1>1. PICK i \in Nat, g \in Nat, m \in Nat : i = iters - 1 /\ iters = i + 1 /\ g = Gamma + 1 /\ m = MaxCache
  BY Sizes
<1>2. (i + 1) * g = i * g + g /\ i * g \in Nat
  BY <1>1
<1>3. w + (i * g + g) <= m
  BY <1>1, <1>2
<1>4. (w + g) + i * g <= m /\ w + g <= m
  BY <1>2, <1>3
<1> QED
  BY <1>1, <1>4, Sizes

(* One iteration more, in which a proposals are accepted. *)
LEMMA OneIteration ==
  ASSUME TypeOK, iters > 0, NEW a \in 0 .. Gamma, NEW s \in 0 .. (Iters - iters) * Gamma
  PROVE  /\ s + a \in 0 .. (Iters - (iters - 1)) * Gamma
         /\ s + a \in 0 .. Iters * Gamma
         /\ (Iters - (iters - 1)) * Cardinality(Rows)
              = (Iters - iters) * Cardinality(Rows) + Cardinality(Rows)
<1>1. PICK d \in Nat, g \in Nat, n \in Nat, b \in Nat :
        /\ d = Iters - iters /\ Iters - (iters - 1) = d + 1 /\ d + 1 <= n
        /\ g = Gamma /\ n = Iters /\ b = Cardinality(Rows)
  BY Sizes
<1>2. (d + 1) * g = d * g + g /\ (d + 1) * b = d * b + b /\ d * g \in Nat
  BY <1>1
<1>3. s \in 0 .. d * g /\ a \in 0 .. g
  BY <1>1
<1>4. s + a \in 0 .. (d + 1) * g
  BY <1>2, <1>3
<1>5. (d + 1) * g <= n * g
  BY <1>1
<1>6. s + a \in 0 .. n * g
  BY <1>2, <1>4, <1>5
<1> QED
  BY <1>1, <1>2, <1>4, <1>6

-----------------------------------------------------------------------------
(***************************************************************************)
(* The steps.                                                              *)
(***************************************************************************)

(* The initial states satisfy the invariant. *)
LEMMA InitInv == Init => BatchedInv
<1> SUFFICES ASSUME Init PROVE BatchedInv
  OBVIOUS
<1>1. PICK prompt \in [Rows -> Prompts] :
        /\ kind \in {"no_spec", "shared", "warp"} /\ adapter \in Routings
        /\ pc = "prefill" /\ iters = Iters /\ committed = prompt
        /\ start = [r \in Rows |-> Len(prompt[r])] /\ L = start /\ W = 0
        /\ prop = [r \in Rows |-> << >>] /\ last = [r \in Rows |-> 0] /\ fully = [r \in Rows |-> FALSE]
        /\ dcache = [r \in Rows |-> [s \in Slots |-> Unset]] /\ tcache = dcache
        /\ dvalid = [r \in Rows |-> {}] /\ valid = dvalid
        /\ acc_tot = [r \in Rows |-> 0] /\ total = 0
  BY DEF Init
<1>2. \A p \in Prompts : p \in Seq(Tokens) /\ Len(p) \in Nat
  BY DecodingAssumption
<1>3. Unset \in RoutedEntries
  BY BatchedAssumption DEF Unset, RoutedEntries
<1>4. /\ Iters \in Nat /\ MaxCache \in Nat /\ Gamma \in Nat /\ 0 \in Tokens
  BY DecodingAssumption, BatchedAssumption
<1>5. 0 \in 0 .. Iters * Gamma
  <2>1. PICK i \in Nat, g \in Nat : i = Iters /\ g = Gamma
    BY <1>4
  <2>2. i * g \in Nat
    OBVIOUS
  <2> QED
    BY <2>1, <2>2
<1>6. TypeOK
  <2>1. committed \in [Rows -> Seq(Tokens)] /\ start \in [Rows -> Nat]
    BY <1>1, <1>2
  <2>2. dcache \in [Rows -> [Slots -> RoutedEntries]] /\ tcache \in [Rows -> [Slots -> RoutedEntries]]
    BY <1>1, <1>3
  <2>3. W \in 0 .. MaxCache /\ iters \in 0 .. Iters /\ total \in Nat
    BY <1>1, <1>4
  <2>4. prop \in [Rows -> Seq(Tokens)] /\ last \in [Rows -> Tokens] /\ fully \in [Rows -> BOOLEAN]
    BY <1>1, <1>4
  <2>5. dvalid \in [Rows -> SUBSET Slots] /\ valid \in [Rows -> SUBSET Slots]
        /\ acc_tot \in [Rows -> 0 .. Iters * Gamma]
    BY <1>1, <1>5
  <2> QED
    BY <1>1, <2>1, <2>2, <2>3, <2>4, <2>5 DEF TypeOK
<1>7. Unstarted
  BY <1>1 DEF Unstarted, Fresh
<1>8. total = (Iters - iters) * Cardinality(Rows)
  <2>1. Cardinality(Rows) \in Nat /\ Iters \in Nat
    BY <1>6, Sizes
  <2> QED
    BY <1>1, <2>1
<1> QED
  BY <1>1, <1>6, <1>7, <1>8 DEF BatchedInv, UnderWay, PhaseOK

(* What a step does to the sequence of row r. *)
LEMMA RowExtends ==
  ASSUME NEW r \in Rows, Extends(committed'[r], committed[r]), start'[r] = start[r]
  PROVE  Row(r)!Extend
<1>1. \A s : Row(r)!Greedy(s) = Target(Placed(s))
  BY DEF Row!Greedy, Row!Placed, Placed
<1> QED
  BY <1>1 DEF Extends, Row!Extend

(* Prefill pads every row to the longest prompt's length S0. *)
LEMMA LongestPrompt ==
  ASSUME TypeOK, \A r \in Rows : committed[r] \in Prompts,
         NEW S0, S0 = Max({Len(committed[r]) : r \in Rows})
  PROVE  /\ S0 \in Nat /\ S0 >= 2 /\ S0 + 1 + Iters * (Gamma + 1) <= MaxCache
         /\ \A r \in Rows : Len(committed[r]) \in Nat /\ Len(committed[r]) <= S0
<1> DEFINE T == {Len(committed[r]) : r \in Rows}
<1>1. \A p \in Prompts : /\ Len(p) \in Nat /\ Len(p) >= 2
                         /\ Len(p) + 1 + Iters * (Gamma + 1) <= MaxCache
  BY DecodingAssumption, BatchedAssumption
<1>2. \A n \in T : n \in Nat /\ n >= 2 /\ n + 1 + Iters * (Gamma + 1) <= MaxCache
  BY <1>1
<1>3. IsFiniteSet(T) /\ T # {}
  <2>1. IsFiniteSet(Rows) /\ Rows # {}
    BY Sizes
  <2> DEFINE f == [r \in Rows |-> Len(committed[r])]
  <2>2. f \in Surjection(Rows, T) /\ T # {}
    BY <2>1 DEF Surjection
  <2> HIDE DEF f, T
  <2> QED
    BY <2>1, <2>2, FS_Surjection
<1>4. \A r \in Rows : Len(committed[r]) \in T
  OBVIOUS
<1>5. S0 = Max(T)
  OBVIOUS
<1> HIDE DEF T
<1>6. T \in SUBSET Nat
  BY <1>2
<1>7. S0 \in T /\ \A n \in T : n <= S0
  BY <1>3, <1>5, <1>6, GreatestNumber
<1> QED
  BY <1>2, <1>4, <1>7

(* Both caches hold the prompts, and the target's first token is committed. *)
LEMMA PrefillInv ==
  ASSUME TargetIsToken, BatchedInv, Prefill
  PROVE  BatchedInv' /\ \A r \in Rows : Row(r)!Extend
<1> DEFINE S0      == Max({Len(committed[r]) : r \in Rows})
           pad(r)  == S0 - Len(committed[r])
           nt(r)   == Target(Placed(committed[r]))
<1>1. /\ pc = "prefill"
      /\ tcache' = [r \in Rows |-> Written(tcache[r], Merged(committed[r], 0), pad(r))]
      /\ valid' = [r \in Rows |-> pad(r) .. S0 - 1]
      /\ IF kind = "no_spec"
           THEN UNCHANGED <<dcache, dvalid>>
           ELSE /\ dcache' = [r \in Rows |->
                     Written(dcache[r], Routed(committed[r], 0, Routing(S0), r, pad(r), S0), pad(r))]
                /\ dvalid' = [r \in Rows |-> pad(r) .. S0 - 1]
      /\ committed' = [r \in Rows |-> Append(committed[r], nt(r))]
      /\ pend' = [r \in Rows |-> nt(r)]
      /\ W' = S0 + 1
      /\ pc' = (IF kind = "no_spec" THEN "plain" ELSE "propose")
      /\ UNCHANGED <<kind, adapter, start, iters, L, prop, last, fully, acc_tot, total>>
  BY DEF Prefill, tierVars
<1>2. TypeOK /\ iters = Iters /\ total = 0 /\ \A r \in Rows : Fresh(r)
  BY <1>1 DEF BatchedInv, Unstarted
<1>3. /\ Gamma \in Nat \ {0} /\ Iters \in Nat /\ MaxCache \in Nat /\ Cardinality(Rows) \in Nat
      /\ adapter \in Routings
  BY <1>2, Sizes
<1>4. PICK s0 \in Nat : /\ s0 = S0 /\ s0 >= 2 /\ s0 + 1 + Iters * (Gamma + 1) <= MaxCache
                        /\ \A r \in Rows : Len(committed[r]) \in Nat /\ Len(committed[r]) <= s0
  <2>1. \A r \in Rows : committed[r] \in Prompts
    BY <1>2 DEF Fresh
  <2>2. /\ S0 \in Nat /\ S0 >= 2 /\ S0 + 1 + Iters * (Gamma + 1) <= MaxCache
        /\ \A r \in Rows : Len(committed[r]) \in Nat /\ Len(committed[r]) <= S0
    BY <1>2, <2>1, LongestPrompt
  <2> HIDE DEF S0
  <2> QED
    BY <2>2
<1> HIDE DEF S0
<1>5. s0 + 1 <= MaxCache
  <2>1. PICK x \in Nat : x = Iters * (Gamma + 1)
    BY <1>3
  <2> QED
    BY <1>3, <1>4, <2>1
<1>6. ASSUME NEW r \in Rows
      PROVE  /\ committed'[r] \in Seq(Tokens) /\ nt(r) \in Tokens /\ RowOK(r)'
             /\ Extends(committed'[r], committed[r])
             /\ tcache'[r] \in Caches /\ valid'[r] \in SUBSET Slots /\ TargetHolds(r)'
             /\ dcache'[r] \in Caches /\ dvalid'[r] \in SUBSET Slots
             /\ kind # "no_spec" => DraftHolds(r, 0)'
  <2>1. PICK p \in Seq(Tokens), n \in Nat : 
          /\ p = committed[r] /\ n = Len(p) /\ n >= 2 /\ n <= s0
          /\ start[r] = n /\ L[r] = n /\ prop[r] = << >> /\ fully[r] = FALSE /\ acc_tot[r] = 0
    <3>1. Fresh(r)
      BY <1>2
    <3>2. committed[r] \in Seq(Tokens) /\ Len(committed[r]) \in Nat /\ Len(committed[r]) >= 2
      BY <3>1, DecodingAssumption DEF Fresh
    <3> QED
      BY <1>4, <3>1, <3>2 DEF Fresh
  <2>2. PICK d \in Nat : d = pad(r) /\ d + n = s0 /\ d + n <= MaxCache /\ d + n - 1 = s0 - 1
    <3>1. s0 - n \in Nat /\ (s0 - n) + n = s0 /\ (s0 - n) + n <= MaxCache
      BY <1>3, <1>5, <2>1
    <3>2. pad(r) = s0 - n /\ (s0 - n) + n - 1 = s0 - 1
      BY <1>4, <2>1
    <3> QED
      BY <3>1, <3>2
  <2>3. PICK t \in Tokens : t = nt(r) /\ t = Target(Placed(p))
    <3>1. Placed(p) \in [1 .. n -> Entries]
      BY <2>1 DEF Placed, Entries
    <3>2. Placed(p) \in Seq(Entries)
      BY <3>1
    <3> QED
      BY <2>1, <3>2 DEF TargetIsToken
  <2> HIDE DEF pad, nt
  <2>4. PICK z : z = committed'[r] /\ z = Append(p, t)
    BY <1>1, <2>1, <2>3
  <2>5. /\ z \in Seq(Tokens) /\ Len(z) = n + 1 /\ z[n + 1] = t /\ \A i \in 1 .. n : z[i] = p[i]
        /\ Extends(z, p)
    <3>1. IsGrown(z, p, n, t)
      BY <2>1, <2>3, <2>4, OneMore
    <3> QED
      BY <3>1 DEF IsGrown
  <2>6. valid'[r] = d .. d + n - 1 /\ d .. d + n - 1 \in SUBSET Slots /\ d .. d + n - 1 \subseteq 0 .. s0 - 1
    <3>1. valid'[r] = d .. s0 - 1
      BY <1>1, <1>4, <2>2
    <3>2. d .. s0 - 1 \subseteq 0 .. MaxCache - 1 /\ d .. s0 - 1 \subseteq 0 .. s0 - 1
      BY <1>3, <1>5
    <3> QED
      BY <2>2, <3>1, <3>2 DEF Slots
  <2>7. d + n <= MaxCache /\ n = Len(p) /\ \A i \in 1 .. n : z[i] = p[i]
    BY <2>1, <2>2, <2>5
  <2>8. tcache'[r] \in Caches /\ Holds(tcache'[r], valid'[r], z, n)
    <3>1. tcache[r] \in Caches
      BY <1>2 DEF TypeOK, Caches
    <3>2. PICK entries : entries = Merged(p, 0)
      OBVIOUS
    <3>3. EntriesOf(entries, p, n, 0)
      BY <2>1, <3>2, MergedIs
    <3>4. tcache'[r] = Written(tcache[r], entries, d)
      BY <1>1, <2>1, <2>2, <3>2
    <3>5. PICK S : S = valid'[r] /\ S = d .. d + n - 1
      BY <2>6
    <3>6. IsFilled(tcache'[r], S, z, n)
      <4>1. PICK cache \in Caches : cache = tcache[r]
        BY <3>1
      <4>2. IsFilled(Written(cache, entries, d), S, z, n)
        BY <2>7, <3>3, <3>5, PrefillRow
      <4> QED
        BY <3>4, <4>1, <4>2
    <3> QED
      BY <3>5, <3>6 DEF IsFilled
  <2>9. /\ dcache'[r] \in Caches /\ dvalid'[r] \in SUBSET Slots
        /\ kind # "no_spec" => dvalid'[r] = d .. d + n - 1 /\ Holds(dcache'[r], dvalid'[r], z, n)
    <3>1. dcache[r] \in Caches /\ dvalid[r] \in SUBSET Slots
      BY <1>2 DEF TypeOK, Caches
    <3>2. CASE kind = "no_spec"
      BY <1>1, <3>1, <3>2
    <3>3. CASE kind # "no_spec"
      <4>1. PICK entries : entries = Routed(p, 0, Routing(s0), r, d, s0)
        OBVIOUS
      <4>2. EntriesOf(entries, p, n, 0)
        BY <1>3, <2>1, <2>2, <4>1, DraftedIs
      <4>3. dcache'[r] = Written(dcache[r], entries, d) /\ dvalid'[r] = d .. s0 - 1
        BY <1>1, <1>4, <2>1, <2>2, <3>3, <4>1
      <4>4. dvalid'[r] = d .. d + n - 1
        BY <2>2, <4>3
      <4>5. dcache'[r] \in Caches /\ Holds(dcache'[r], d .. d + n - 1, z, n)
        <5>1. PICK S : S = d .. d + n - 1
          OBVIOUS
        <5>2. IsFilled(dcache'[r], S, z, n)
          <6>1. PICK cache \in Caches : cache = dcache[r]
            BY <3>1
          <6>2. IsFilled(Written(cache, entries, d), S, z, n)
            BY <2>7, <4>2, <5>1, PrefillRow
          <6> QED
            BY <4>3, <6>1, <6>2
        <5> QED
          BY <5>1, <5>2 DEF IsFilled
      <4> QED
        BY <2>6, <4>4, <4>5
    <3> QED
      BY <3>2, <3>3
  <2>10. L'[r] = n /\ W' - 1 = s0 /\ W' - 2 = s0 - 1 /\ pend'[r] = t
    <3>1. L'[r] = n /\ W' = s0 + 1 /\ pend'[r] = t
      BY <1>1, <1>4, <2>1, <2>3
    <3>2. (s0 + 1) - 1 = s0 /\ (s0 + 1) - 2 = s0 - 1
      OBVIOUS
    <3> QED
      BY <3>1, <3>2
  <2>11. RowOK(r)'
    <3>1. (Iters' - iters') = 0 /\ 0 * Gamma = 0
      BY <1>1, <1>2, <1>3
    <3> QED
      BY <1>1, <1>2, <1>3, <2>1, <2>4, <2>5, <2>10, <3>1 DEF RowOK
  <2>12. TargetHolds(r)'
    <3>1. valid'[r] \subseteq 0 .. W' - 1
      <4>1. 0 .. s0 - 1 \subseteq 0 .. s0
        OBVIOUS
      <4> QED
        BY <2>6, <2>10, <4>1
    <3> QED
      BY <2>4, <2>8, <2>10, <3>1 DEF TargetHolds
  <2>13. kind # "no_spec" => DraftHolds(r, 0)'
    <3> SUFFICES ASSUME kind # "no_spec" PROVE DraftHolds(r, 0)'
      OBVIOUS
    <3>1. dvalid'[r] \subseteq 0 .. W' - 2 /\ Holds(dcache'[r], dvalid'[r], z, n)
      BY <2>6, <2>9, <2>10
    <3>2. prop'[r] = << >> /\ fully'[r] = FALSE
      BY <1>1, <2>1
    <3> QED
      BY <2>4, <2>10, <3>1, <3>2 DEF DraftHolds
  <2> QED
    BY <2>1, <2>3, <2>4, <2>5, <2>6, <2>8, <2>9, <2>11, <2>12, <2>13
<1>7. TypeOK'
  <2>1. pend' = [r \in Rows |-> nt(r)] /\ \A r \in Rows : RowOK(r)'
    BY <1>1, <1>6
  <2>2. \A r \in Rows : L'[r] = Len(committed'[r]) - 1 /\ pend'[r] = Last(committed'[r])
    <3> SUFFICES ASSUME NEW r \in Rows PROVE L'[r] = Len(committed'[r]) - 1 /\ pend'[r] = Last(committed'[r])
      OBVIOUS
    <3>1. PICK n \in Nat : n = Len(committed'[r])
      BY <1>6
    <3>2. L'[r] = n - 1 /\ pend'[r] = committed'[r][L'[r] + 1] /\ (n - 1) + 1 = n
      BY <2>1, <3>1 DEF RowOK
    <3> QED
      BY <3>1, <3>2 DEF Last
  <2> HIDE DEF nt, pad
  <2>3. committed' \in [Rows -> Seq(Tokens)]
    BY <1>1, <1>6
  <2>4. tcache' \in [Rows -> [Slots -> RoutedEntries]] /\ valid' \in [Rows -> SUBSET Slots]
    BY <1>1, <1>6 DEF Caches
  <2>5. dcache' \in [Rows -> [Slots -> RoutedEntries]] /\ dvalid' \in [Rows -> SUBSET Slots]
    <3>1. CASE kind = "no_spec"
      BY <1>1, <1>2, <3>1 DEF TypeOK
    <3>2. CASE kind # "no_spec"
      BY <1>1, <1>6, <3>2 DEF Caches
    <3> QED
      BY <3>1, <3>2
  <2>6. W' \in 0 .. MaxCache
    BY <1>1, <1>3, <1>4, <1>5
  <2> QED
    BY <1>1, <1>2, <2>2, <2>3, <2>4, <2>5, <2>6 DEF TypeOK
<1>8. UnderWay'
  <2>1. W' \in Nat \ {0} /\ W' + iters' * (Gamma + 1) <= MaxCache
    BY <1>1, <1>2, <1>4
  <2> QED
    BY <1>6, <2>1 DEF UnderWay
<1>9. PhaseOK'
  <2>1. total' = (Iters' - iters') * Cardinality(Rows)
    BY <1>1, <1>2, <1>3
  <2>2. \A r \in Rows : prop'[r] = << >>
    BY <1>1, <1>2 DEF Fresh
  <2>3. kind # "no_spec" => \A r \in Rows : DraftHolds(r, 0)'
    BY <1>6
  <2>4. 0 \in 0 .. Gamma - 1
    BY <1>3
  <2>5. pc' = "propose" => \E k \in 0 .. Gamma - 1 : (k > 0 => iters' > 0) /\ \A r \in Rows : DraftHolds(r, k)'
    <3>1. ~(0 > 0)
      OBVIOUS
    <3> QED
      BY <1>1, <2>3, <2>4, <3>1
  <2>6. kind' = kind /\ pc' = (IF kind = "no_spec" THEN "plain" ELSE "propose")
    BY <1>1
  <2> QED
    BY <2>1, <2>2, <2>5, <2>6 DEF PhaseOK
<1>10. Unstarted'
  BY <1>1 DEF Unstarted
<1>11. \A r \in Rows : Row(r)!Extend
  BY <1>1, <1>6, RowExtends
<1> QED
  BY <1>7, <1>8, <1>9, <1>10, <1>11 DEF BatchedInv

(* Without speculation a row's step commits the target's next token. *)
LEMMA PlainStepInv ==
  ASSUME TargetIsToken, BatchedInv, PlainStep
  PROVE  BatchedInv' /\ \A r \in Rows : Row(r)!Extend
<1> DEFINE fed == [r \in Rows |-> Written(tcache[r], Merged(<<pend[r]>>, L[r]), W)]
           ok  == [r \in Rows |-> valid[r] \cup {W}]
           nt  == [r \in Rows |-> Target(Attended(fed[r], ok[r], W))]
<1>1. /\ pc = "plain" /\ iters > 0
      /\ tcache' = fed /\ valid' = ok /\ pend' = nt
      /\ committed' = [r \in Rows |-> Append(committed[r], nt[r])]
      /\ L' = [r \in Rows |-> L[r] + 1]
      /\ W' = W + 1
      /\ iters' = iters - 1
      /\ total' = total + Cardinality(Rows)
      /\ UNCHANGED <<kind, adapter, start, pc, prop, last, fully, dcache, dvalid, acc_tot>>
  BY DEF PlainStep, tierVars, CountedPerIteration
<1>2. /\ TypeOK /\ kind = "no_spec" /\ \A r \in Rows : prop[r] = << >> /\ RowOK(r) /\ TargetHolds(r)
      /\ total = (Iters - iters) * Cardinality(Rows)
      /\ W \in Nat \ {0} /\ W + iters * (Gamma + 1) <= MaxCache
  BY <1>1 DEF BatchedInv, UnderWay, PhaseOK
<1>3. /\ Gamma \in Nat \ {0} /\ Iters \in Nat /\ MaxCache \in Nat /\ Cardinality(Rows) \in Nat
      /\ adapter \in Routings /\ iters \in 0 .. Iters
  BY <1>2, Sizes
<1>4. PICK w0 \in Nat : /\ w0 = W /\ w0 # 0 /\ w0 + 1 <= MaxCache /\ iters - 1 \in 0 .. Iters
                        /\ (w0 + 1) + (iters - 1) * (Gamma + 1) <= MaxCache
  <2>1. /\ W + Gamma + 1 <= MaxCache /\ iters - 1 \in 0 .. Iters
        /\ (W + Gamma + 1) + (iters - 1) * (Gamma + 1) <= MaxCache
    BY <1>1, <1>2, RoomForOne
  <2>2. PICK x \in Int : x = (iters - 1) * (Gamma + 1)
    BY <1>3
  <2> QED
    BY <1>2, <1>3, <2>1, <2>2
<1>5. ASSUME NEW r \in Rows
      PROVE  /\ committed'[r] \in Seq(Tokens) /\ nt[r] \in Tokens /\ RowOK(r)'
             /\ Extends(committed'[r], committed[r])
             /\ tcache'[r] \in Caches /\ valid'[r] \in SUBSET Slots /\ TargetHolds(r)'
  <2>1. PICK c \in Seq(Tokens), l \in Nat, t \in {pend[r]} :
          /\ c = committed[r] /\ l = L[r] /\ Len(c) = l + 1 /\ Len(c) >= 3 /\ t = pend[r] /\ t = c[l + 1]
    <3>1. /\ committed[r] \in Seq(Tokens) /\ Len(committed[r]) >= 3
          /\ L[r] = Len(committed[r]) - 1 /\ pend[r] = committed[r][L[r] + 1]
      BY <1>2 DEF RowOK
    <3>2. PICK n \in Nat : n = Len(committed[r])
      BY <3>1
    <3>3. n - 1 \in Nat /\ (n - 1) + 1 = n
      BY <3>1, <3>2
    <3> QED
      BY <3>1, <3>2, <3>3
  <2>2. PICK S \in SUBSET (0 .. w0 - 1) : S = valid[r] /\ Holds(tcache[r], S, c, l)
    BY <1>2, <1>4, <2>1 DEF TargetHolds
  <2>3. PICK cache \in Caches : cache = tcache[r]
    BY <1>2 DEF TypeOK, Caches
  <2>4. PICK toks \in Seq(Tokens), g \in Nat :
          /\ toks = <<t>> /\ g = 0 /\ Len(toks) = g + 1 /\ \A i \in 1 .. g + 1 : toks[i] = c[l + i]
    <3>1. t \in Tokens
      BY <2>1
    <3>2. <<t>> \in Seq(Tokens) /\ Len(<<t>>) = 0 + 1 /\ <<t>>[1] = t
      BY <3>1
    <3>3. \A i \in 1 .. 0 + 1 : i = 1 /\ l + i = l + 1
      OBVIOUS
    <3>4. \A i \in 1 .. 0 + 1 : <<t>>[i] = c[l + i]
      BY <2>1, <3>2, <3>3
    <3> QED
      BY <3>2, <3>4
  <2>5. PICK u : u = S \cup w0 .. w0 + g
    OBVIOUS
  <2>6. PICK f : f = Written(cache, Merged(toks, l), w0)
    OBVIOUS
  <2>7. Scored(f, u, S, c, l, g, w0)
    <3>1. Len(c) = l + 1 + g /\ w0 + g + 1 <= MaxCache
      BY <1>4, <2>1, <2>4
    <3> QED
      BY <2>2, <2>3, <2>4, <2>5, <2>6, <3>1, TargetRow, ZenonT(60)
  <2>8. tcache'[r] = f /\ valid'[r] = u /\ fed[r] = f /\ ok[r] = u /\ u = S \cup {w0}
    <3>1. w0 .. w0 + g = {w0}
      BY <2>4
    <3> QED
      BY <1>1, <1>4, <2>1, <2>2, <2>3, <2>4, <2>5, <2>6, <3>1
  <2> HIDE DEF fed, ok
  <2>9. /\ f \in Caches /\ Attended(f, u, w0) = Placed(c) /\ Target(Attended(f, u, w0)) \in Tokens
        /\ Holds(f, u, c, l + 1)
    <3>1. PICK i \in 1 .. g + 1, a \in 0 .. g :
            /\ i = 1 /\ a = 0 /\ w0 + i - 1 = w0 /\ w0 + a = w0
            /\ l + i = l + 1 /\ l + a + 1 = l + 1
      <4>1. 1 \in 1 .. g + 1 /\ 0 \in 0 .. g /\ w0 + 1 - 1 = w0 /\ w0 + 0 = w0 /\ l + 0 + 1 = l + 1
        BY <2>4
      <4> QED
        BY <4>1
    <3>2. SubSeq(c, 1, l + 1) = c
      BY <2>1
    <3>3. /\ f \in Caches /\ Attended(f, u, w0) = Placed(SubSeq(c, 1, l + 1))
          /\ Target(Attended(f, u, w0)) \in Tokens /\ Holds(f, S \cup w0 .. w0 + a, c, l + 1)
      BY <2>7, <3>1 DEF Scored
    <3>4. S \cup w0 .. w0 + a = u
      BY <2>4, <2>5, <3>1
    <3> QED
      BY <3>2, <3>3, <3>4
  <2>10. PICK k \in Tokens, n \in Nat : k = nt[r] /\ k = Target(Placed(c)) /\ n = Len(c) /\ n = l + 1 /\ n >= 3
    <3>1. nt[r] = Target(Attended(f, u, w0))
      BY <1>4, <2>8
    <3> HIDE DEF nt
    <3>2. l + 1 \in Nat
      OBVIOUS
    <3> QED
      BY <2>1, <2>9, <3>1, <3>2
  <2> HIDE DEF nt
  <2>11. PICK z : z = committed'[r] /\ z = Append(c, k)
    BY <1>1, <2>1, <2>10
  <2>12. z \in Seq(Tokens) /\ Len(z) = n + 1 /\ z[n + 1] = k /\ (\A i \in 1 .. n : z[i] = c[i]) /\ Extends(z, c)
    <3>1. IsGrown(z, c, n, k)
      BY <2>10, <2>11, OneMore
    <3> QED
      BY <3>1 DEF IsGrown
  <2>13. /\ L'[r] = n /\ W' = w0 + 1 /\ pend'[r] = k /\ start'[r] = start[r] /\ acc_tot'[r] = acc_tot[r]
         /\ kind' = kind /\ iters' = iters - 1
    BY <1>1, <1>4, <2>1, <2>10
  <2>14. Holds(f, u, z, n)
    <3>1. Holds(f, u, c, n) /\ n \in Int
      BY <2>9, <2>10
    <3> QED
      BY <2>12, <3>1, HoldsAlike
  <2>15. u \subseteq 0 .. W' - 1 /\ u \in SUBSET Slots
    <3>1. /\ 0 .. w0 - 1 \subseteq 0 .. w0 /\ w0 \in 0 .. w0
          /\ 0 .. w0 \subseteq 0 .. MaxCache - 1 /\ (w0 + 1) - 1 = w0
      BY <1>3, <1>4
    <3> QED
      BY <2>8, <2>13, <3>1 DEF Slots
  <2>16. TargetHolds(r)'
    BY <2>8, <2>11, <2>13, <2>14, <2>15 DEF TargetHolds
  <2>17. RowOK(r)'
    <3>1. start[r] \in Nat /\ acc_tot[r] = 0 /\ n - start[r] - 1 = (Iters - iters) + 0
      BY <1>2, <2>1, <2>10 DEF RowOK
    <3>2. (n + 1) - start[r] - 1 = (Iters - (iters - 1)) + 0
      <4>1. PICK s \in Nat, i \in Int : s = start[r] /\ i = Iters - iters
        BY <1>3, <3>1
      <4>2. n - s - 1 = i + 0 /\ Iters - (iters - 1) = i + 1
        BY <1>3, <3>1, <4>1
      <4>3. (n + 1) - s - 1 = (i + 1) + 0
        BY <4>2
      <4> QED
        BY <4>1, <4>2, <4>3
    <3>3. 0 \in 0 .. (Iters - (iters - 1)) * Gamma
      <4>1. PICK i \in Nat, g1 \in Nat : i = Iters - (iters - 1) /\ g1 = Gamma
        BY <1>3, <1>4
      <4>2. i * g1 \in Nat
        OBVIOUS
      <4> QED
        BY <4>1, <4>2
    <3>4. n = (n + 1) - 1 /\ n + 1 >= 3
      BY <2>10
    <3> QED
      BY <2>11, <2>12, <2>13, <3>1, <3>2, <3>3, <3>4 DEF RowOK
  <2> QED
    BY <2>1, <2>8, <2>9, <2>10, <2>11, <2>12, <2>15, <2>16, <2>17
<1>6. total' = (Iters' - iters') * Cardinality(Rows) /\ total' \in Nat
  <2>1. PICK d \in Nat, b \in Nat : d = Iters - iters /\ b = Cardinality(Rows) /\ Iters - (iters - 1) = d + 1
    <3>1. Iters - iters \in Nat /\ Iters - (iters - 1) = (Iters - iters) + 1
      BY <1>3
    <3> QED
      BY <1>3, <3>1
  <2>2. (d + 1) * b = d * b + b /\ d * b + b \in Nat
    OBVIOUS
  <2> QED
    BY <1>1, <1>2, <2>1, <2>2
<1>7. TypeOK'
  <2> HIDE DEF nt, ok, fed
  <2>1. \A r \in Rows : L'[r] = Len(committed'[r]) - 1 /\ pend'[r] = Last(committed'[r])
    <3> SUFFICES ASSUME NEW r \in Rows PROVE L'[r] = Len(committed'[r]) - 1 /\ pend'[r] = Last(committed'[r])
      OBVIOUS
    <3>1. PICK n \in Nat : n = Len(committed'[r])
      BY <1>5
    <3>2. L'[r] = n - 1 /\ pend'[r] = committed'[r][L'[r] + 1] /\ (n - 1) + 1 = n
      BY <1>5, <3>1 DEF RowOK
    <3> QED
      BY <3>1, <3>2 DEF Last
  <2>2. committed' \in [Rows -> Seq(Tokens)]
    BY <1>1, <1>5
  <2>3. tcache' \in [Rows -> [Slots -> RoutedEntries]] /\ valid' \in [Rows -> SUBSET Slots]
    BY <1>1, <1>5 DEF Caches, fed, ok
  <2>4. W' \in 0 .. MaxCache /\ iters' \in 0 .. Iters
    BY <1>1, <1>3, <1>4
  <2> QED
    BY <1>1, <1>2, <1>6, <2>1, <2>2, <2>3, <2>4 DEF TypeOK
<1>8. UnderWay'
  <2>1. W' \in Nat \ {0} /\ W' + iters' * (Gamma + 1) <= MaxCache
    BY <1>1, <1>4
  <2> QED
    BY <1>5, <2>1 DEF UnderWay
<1>9. PhaseOK'
  BY <1>1, <1>2, <1>6 DEF PhaseOK
<1>10. Unstarted'
  BY <1>1 DEF Unstarted
<1>11. \A r \in Rows : Row(r)!Extend
  BY <1>1, <1>5, RowExtends
<1> QED
  BY <1>7, <1>8, <1>9, <1>10, <1>11 DEF BatchedInv

-----------------------------------------------------------------------------
(***************************************************************************)
(* Proposing.                                                              *)
(***************************************************************************)

(* Cache w after k draft steps: the slots U hold the committed tokens and the *)
(* k - 1 proposals fed, those of this iteration from slot first on.           *)
DraftHeld(w, U, x, l, k, first) ==
  /\ w \in Caches /\ U \in SUBSET Slots /\ U \subseteq 0 .. first + k - 1
  /\ Holds(w, U, x, l + k)
  /\ \A i \in 1 .. k : first + i - 1 \in U /\ w[first + i - 1].pos = l + i - 1

(* The first draft step feeds the last proposal again, kept or not, and the   *)
(* pending token.                                                             *)
LEMMA ProposeFirstRow ==
  ASSUME adapter \in Routings, NEW r \in Rows, NEW cache \in Caches,
         NEW w0 \in Nat, w0 > 0, w0 + 1 <= MaxCache, NEW S \in SUBSET (0 .. w0 - 2),
         NEW c \in Seq(Tokens), NEW l \in Nat, l >= 1, Len(c) = l + 1,
         NEW kept \in BOOLEAN, Holds(cache, S, c, IF kept THEN l - 1 ELSE l),
         NEW lst \in Tokens, kept => lst = c[l], NEW t, t = c[l + 1],
         NEW U, U = (S \ {w0 - 1}) \cup (IF kept THEN {w0 - 1, w0} ELSE {w0}), NEW j, j = 1
  PROVE  DraftHeld(Written(cache, Drafted(r, <<lst, t>>, l - 1), w0 - 1), U, c, l, j, w0)
<1>1. PICK toks \in Seq(Tokens), n \in Nat :
        toks = <<lst, t>> /\ n = 2 /\ n = Len(toks) /\ toks[1] = lst /\ toks[2] = t
  <2>1. t \in Tokens
    OBVIOUS
  <2>2. /\ <<lst, t>> \in Seq(Tokens) /\ 2 \in Nat /\ 2 = Len(<<lst, t>>)
        /\ <<lst, t>>[1] = lst /\ <<lst, t>>[2] = t
    BY <2>1
  <2> QED
    BY <2>2
<1>2. PICK first \in Nat, pos \in Nat :
        /\ first = w0 - 1 /\ first + 1 = w0 /\ first + n <= MaxCache
        /\ pos = l - 1 /\ pos + 1 = l /\ pos + n = l + 1
  <2>1. /\ w0 - 1 \in Nat /\ (w0 - 1) + 1 = w0 /\ (w0 - 1) + n <= MaxCache
        /\ l - 1 \in Nat /\ (l - 1) + 1 = l /\ (l - 1) + n = l + 1
    BY <1>1, BatchedAssumption
  <2> QED
    BY <2>1
<1>3. PICK entries : entries = Drafted(r, toks, pos)
  OBVIOUS
<1>4. EntriesOf(entries, toks, n, pos)
  <2>1. PICK col \in Nat : col = 0 /\ col + n <= n
    OBVIOUS
  <2>2. EntriesOf(Routed(toks, pos, Routing(n), r, col, n), toks, n, pos)
    BY <1>1, <2>1, DraftedIs
  <2> QED
    BY <1>1, <1>3, <2>1, <2>2 DEF Drafted
<1>5. PICK w : w = Written(cache, entries, first)
  OBVIOUS
<1>6. /\ S \in SUBSET Slots /\ S \in SUBSET Nat /\ \A s \in S : s < first /\ s < w0
      /\ first \in Slots /\ w0 \in Slots
  BY <1>1, <1>2, BatchedAssumption DEF Slots
<1>7. /\ w \in Caches
      /\ \A s \in Slots : s \notin first .. first + n - 1 => w[s] = cache[s]
      /\ w[w0].tok = t /\ w[w0].pos = l
  <2>1. WrittenAs(w, cache, toks, n, first, pos)
    BY <1>1, <1>2, <1>4, <1>5, WriteIs
  <2>2. PICK i \in 1 .. n : i = 2 /\ first + i - 1 = w0 /\ pos + i - 1 = l
    <3>1. 2 \in 1 .. n /\ first + 2 - 1 = w0 /\ pos + 2 - 1 = l
      BY <1>1, <1>2
    <3> QED
      BY <3>1
  <2>3. w[w0].tok = toks[2] /\ w[w0].pos = l
    BY <2>1, <2>2 DEF WrittenAs
  <2> QED
    BY <1>1, <2>1, <2>3 DEF WrittenAs
<1>8. Holds(w, U, c, l + 1)
  <2>1. CASE kept
    <3>1. Holds(cache, S, c, pos) /\ lst = c[l]
      BY <1>2, <2>1
    <3>2. \A i \in 1 .. n : toks[i] = c[pos + i]
      <4>1. \A i \in 1 .. n : i = 1 \/ i = 2
        BY <1>1
      <4>2. pos + 1 = l /\ pos + 2 = l + 1
        BY <1>1, <1>2
      <4> QED
        BY <1>1, <3>1, <4>1, <4>2
    <3>3. MoreHeld(w, cache, S, c, pos, n, first)
      BY <1>2, <1>4, <1>5, <1>6, <3>1, <3>2, WriteHolds
    <3>4. S \cup first .. first + n - 1 = U
      <4>1. first .. first + n - 1 = {w0 - 1, w0}
        BY <1>1, <1>2
      <4>2. w0 - 1 \notin S
        BY <1>2, <1>6
      <4> QED
        BY <2>1, <4>1, <4>2
    <3> QED
      BY <1>2, <3>3, <3>4 DEF MoreHeld
  <2>2. CASE ~kept
    <3>1. Holds(cache, S, c, l)
      BY <2>2
    <3>2. \A s \in S : s < w0 /\ w[s] = cache[s]
      <4>1. \A s \in S : s \notin first .. first + n - 1
        BY <1>6
      <4> QED
        BY <1>6, <1>7, <4>1
    <3>3. PICK k \in Nat : k = 1
      OBVIOUS
    <3>4. Follows(w, w0, k, c, l)
      <4>1. \A i \in 1 .. k : w0 + i - 1 = w0 /\ l + i = l + 1 /\ l + i - 1 = l
        BY <3>3
      <4> QED
        BY <1>7, <4>1 DEF Follows
    <3>5. Holds(w, S \cup w0 .. w0 + k - 1, c, l + k)
      BY <1>6, <3>1, <3>2, <3>4, HoldsMore
    <3>6. S \cup w0 .. w0 + k - 1 = U
      <4>1. w0 .. w0 + k - 1 = {w0}
        BY <3>3
      <4>2. w0 - 1 \notin S
        BY <1>2, <1>6
      <4> QED
        BY <2>2, <4>1, <4>2
    <3> QED
      BY <3>3, <3>5, <3>6
  <2> QED
    BY <2>1, <2>2
<1>9. U \in SUBSET Slots /\ U \subseteq 0 .. w0 /\ w0 \in U
  <2>1. w0 - 1 \in Slots /\ w0 - 1 \in 0 .. w0 /\ w0 \in 0 .. w0 /\ S \subseteq 0 .. w0
    BY <1>2, <1>6
  <2> QED
    BY <1>6, <2>1
<1>10. DraftHeld(w, U, c, l, 1, w0)
  <2>1. w0 + 1 - 1 = w0 /\ \A i \in 1 .. 1 : w0 + i - 1 = w0 /\ l + i - 1 = l
    OBVIOUS
  <2> QED
    BY <1>7, <1>8, <1>9, <2>1 DEF DraftHeld
<1> QED
  BY <1>1, <1>2, <1>3, <1>5, <1>10

(* A later one feeds the proposal before. *)
LEMMA ProposeNextRow ==
  ASSUME adapter \in Routings, NEW r \in Rows, NEW cache, NEW w0 \in Nat, NEW k \in Nat,
         w0 + k + 1 <= MaxCache, NEW x \in Seq(Tokens), NEW l \in Nat, Len(x) = l + 1 + k,
         NEW S, DraftHeld(cache, S, x, l, k, w0), NEW t, t = x[l + k + 1],
         NEW pos, pos = l + k, NEW first, first = w0 + k,
         NEW U, U = S \cup {first}, NEW j, j = k + 1
  PROVE  DraftHeld(Written(cache, Drafted(r, <<t>>, pos), first), U, x, l, j, w0)
<1>1. PICK toks \in Seq(Tokens), n \in Nat : toks = <<t>> /\ n = 1 /\ n = Len(toks) /\ toks[1] = t
  <2>1. t \in Tokens
    <3>1. l + k + 1 \in 1 .. Len(x)
      OBVIOUS
    <3> QED
      BY <3>1
  <2>2. <<t>> \in Seq(Tokens) /\ 1 \in Nat /\ 1 = Len(<<t>>) /\ <<t>>[1] = t
    BY <2>1
  <2> QED
    BY <2>2
<1>2. pos \in Nat /\ first \in Nat /\ j \in Nat /\ first + n <= MaxCache /\ pos + n = l + j /\ j = k + 1
  BY <1>1
<1>3. PICK entries : entries = Drafted(r, toks, pos)
  OBVIOUS
<1>4. EntriesOf(entries, toks, n, pos)
  <2>1. PICK col \in Nat : col = 0 /\ col + n <= n
    OBVIOUS
  <2>2. EntriesOf(Routed(toks, pos, Routing(n), r, col, n), toks, n, pos)
    BY <1>1, <1>2, <2>1, DraftedIs
  <2> QED
    BY <1>1, <1>3, <2>1, <2>2 DEF Drafted
<1>5. PICK w : w = Written(cache, entries, first)
  OBVIOUS
<1>6. /\ cache \in Caches /\ S \in SUBSET Slots /\ S \subseteq 0 .. first - 1
      /\ Holds(cache, S, x, pos)
      /\ \A i \in 1 .. k : w0 + i - 1 \in S /\ cache[w0 + i - 1].pos = l + i - 1
  BY DEF DraftHeld
<1>7. \A s \in S : s < first
  <2>1. \A s \in 0 .. first - 1 : s < first
    BY <1>2
  <2> QED
    BY <1>6, <2>1
<1>8. \A i \in 1 .. n : toks[i] = x[pos + i]
  <2>1. \A i \in 1 .. n : i = 1
    BY <1>1
  <2> QED
    BY <1>1, <2>1
<1>9. MoreHeld(w, cache, S, x, pos, n, first)
  BY <1>1, <1>2, <1>4, <1>5, <1>6, <1>7, <1>8, WriteHolds, ZenonT(60)
<1>10. /\ w \in Caches /\ Holds(w, S \cup first .. first + n - 1, x, pos + n)
       /\ \A i \in 1 .. n : w[first + i - 1].pos = pos + i - 1
       /\ \A s \in Slots : s < first => w[s] = cache[s]
  BY <1>9 DEF MoreHeld
<1>11. Holds(w, U, x, l + j)
  <2>1. first .. first + n - 1 = {first}
    BY <1>1, <1>2
  <2> QED
    BY <1>2, <1>10, <2>1
<1>12. first \in Slots /\ U \in SUBSET Slots /\ U \subseteq 0 .. w0 + j - 1
  <2>1. /\ w0 + j - 1 = first /\ first \in 0 .. MaxCache - 1
        /\ first \in 0 .. first /\ 0 .. first - 1 \subseteq 0 .. first
    BY <1>1, <1>2, BatchedAssumption
  <2> QED
    BY <1>6, <2>1 DEF Slots
<1>13. ASSUME NEW i \in 1 .. j PROVE w0 + i - 1 \in U /\ w[w0 + i - 1].pos = l + i - 1
  <2>1. CASE i \in 1 .. k
    <3>1. w0 + i - 1 < first
      BY <1>2, <2>1
    <3>2. PICK s \in S : s = w0 + i - 1
      BY <1>6, <2>1
    <3> QED
      BY <1>6, <1>10, <2>1, <3>1, <3>2
  <2>2. CASE i \notin 1 .. k
    <3>1. w0 + i - 1 = first /\ l + i - 1 = pos
      BY <1>2, <2>2
    <3>2. PICK d \in 1 .. n : d = 1 /\ first + d - 1 = first /\ pos + d - 1 = pos
      <4>1. 1 \in 1 .. n /\ first + 1 - 1 = first /\ pos + 1 - 1 = pos
        BY <1>1, <1>2
      <4> QED
        BY <4>1
    <3> QED
      BY <1>10, <3>1, <3>2
  <2> QED
    BY <2>1, <2>2
<1>14. DraftHeld(w, U, x, l, j, w0)
  BY <1>10, <1>11, <1>12, <1>13 DEF DraftHeld
<1> QED
  BY <1>1, <1>3, <1>5, <1>14

(* The same first m tokens. *)
Alike(z, x, m) == \A i \in 1 .. m : z[i] = x[i]

(* A proposal more changes nothing of what comes before it. *)
LEMMA JoinMore ==
  ASSUME NEW c \in Seq(Tokens), NEW prp \in Seq(Tokens), NEW t \in Tokens,
         NEW m, m = Len(c) + Len(prp)
  PROVE  Alike(c \o Append(prp, t), c \o prp, m)
<1>1. PICK n \in Nat, k \in Nat : n = Len(c) /\ k = Len(prp) /\ m = n + k
  OBVIOUS
<1>2. PICK x, z : x = c \o prp /\ z = c \o Append(prp, t)
  OBVIOUS
<1>3. PICK more \in Seq(Tokens), b \in Nat :
        /\ more = Append(prp, t) /\ b = Len(more) /\ b = k + 1
        /\ \A j \in 1 .. k : more[j] = prp[j]
  <2>1. /\ Append(prp, t) \in Seq(Tokens) /\ k + 1 = Len(Append(prp, t)) /\ k + 1 \in Nat
        /\ \A j \in 1 .. k : Append(prp, t)[j] = prp[j]
    BY <1>1
  <2> QED
    BY <1>1, <2>1
<1>4. IsJoin(x, c, prp, n, k) /\ IsJoin(z, c, more, n, b)
  BY <1>2, <1>1, <1>3, Joined
<1>5. ASSUME NEW i \in 1 .. n + k PROVE z[i] = x[i]
  <2>1. CASE i \in 1 .. n
    BY <1>4, <2>1 DEF IsJoin
  <2>2. CASE i \notin 1 .. n
    <3>1. PICK j \in 1 .. k : i = n + j
      <4>1. i - n \in 1 .. k /\ i = n + (i - n)
        BY <1>1, <2>2
      <4> QED
        BY <4>1
    <3>2. j \in 1 .. b
      BY <1>1, <1>3
    <3> QED
      BY <1>3, <1>4, <3>1, <3>2 DEF IsJoin
  <2> QED
    BY <2>1, <2>2
<1> QED
  BY <1>2, <1>1, <1>5 DEF Alike

(* A step of the draft: proposal k + 1 of every row. *)
LEMMA ProposesInv ==
  ASSUME BatchedInv, pc = "propose", iters > 0, NEW k \in 0 .. Gamma - 1,
         \A r \in Rows : Len(prop[r]) = k, Proposes,
         UNCHANGED <<tierVars, headVars, iters, tcache, valid>>,
         dcache' \in [Rows -> [Slots -> RoutedEntries]], dvalid' \in [Rows -> SUBSET Slots],
         \A r \in Rows : \E x, l, j, w0 :
           /\ x = committed[r] \o prop[r] /\ l = L[r] /\ j = k + 1 /\ w0 = W
           /\ DraftHeld(dcache'[r], dvalid'[r], x, l, j, w0)
  PROVE  BatchedInv'
<1>1. /\ kind' = kind /\ adapter' = adapter /\ start' = start
      /\ committed' = committed /\ L' = L /\ W' = W /\ pend' = pend /\ last' = last
      /\ fully' = fully /\ acc_tot' = acc_tot /\ total' = total
      /\ iters' = iters /\ tcache' = tcache /\ valid' = valid
  BY DEF tierVars, headVars
<1>2. /\ TypeOK /\ kind # "no_spec" /\ \A r \in Rows : RowOK(r) /\ TargetHolds(r)
      /\ total = (Iters - iters) * Cardinality(Rows)
      /\ W \in Nat \ {0} /\ W + iters * (Gamma + 1) <= MaxCache
  BY DEF BatchedInv, UnderWay, PhaseOK
<1>3. Gamma \in Nat \ {0} /\ Rows # {}
  BY <1>2, Sizes
<1>4. PICK t \in [Rows -> Tokens] : prop' = [r \in Rows |-> Append(prop[r], t[r])]
  BY DEF Proposes
<1>5. pc' = IF \A r \in Rows : Len(prop'[r]) = Gamma THEN "verify" ELSE "propose"
  BY DEF Proposes
<1>6. PICK j \in Nat : j = k + 1 /\ j \in 1 .. Gamma
  <2>1. k + 1 \in Nat /\ k + 1 \in 1 .. Gamma
    BY <1>3
  <2> QED
    BY <2>1
<1>7. ASSUME NEW r \in Rows PROVE prop'[r] \in Seq(Tokens) /\ DraftHolds(r, j)'
  <2>1. PICK c \in Seq(Tokens), l \in Nat, n \in Nat :
          c = committed[r] /\ l = L[r] /\ n = Len(c) /\ n = l + 1
    <3>1. committed[r] \in Seq(Tokens) /\ Len(committed[r]) >= 3 /\ L[r] = Len(committed[r]) - 1
      BY <1>2 DEF RowOK
    <3>2. PICK n \in Nat : n = Len(committed[r]) /\ n >= 3
      BY <3>1
    <3>3. n - 1 \in Nat /\ n = (n - 1) + 1
      BY <3>2
    <3> QED
      BY <3>1, <3>2, <3>3
  <2>2. PICK prp \in Seq(Tokens), u \in Tokens : prp = prop[r] /\ k = Len(prp) /\ u = t[r]
    BY <1>2, <1>4 DEF TypeOK
  <2>3. prop'[r] = Append(prp, u) /\ prop'[r] \in Seq(Tokens) /\ Len(prop'[r]) = j
    BY <1>4, <1>6, <2>2
  <2>4. PICK x, w0 : x = c \o prp /\ w0 = W /\ DraftHeld(dcache'[r], dvalid'[r], x, l, j, w0)
    BY <1>6, <2>1, <2>2
  <2>5. PICK z : z = committed'[r] \o prop'[r] /\ z = c \o Append(prp, u)
    BY <1>1, <2>1, <2>3
  <2>6. PICK m \in Int : m = n + k /\ m = l + j
    <3>1. k \in Nat
      BY <1>3
    <3>2. j = k + 1 /\ n = l + 1
      BY <1>6, <2>1
    <3>3. n + k \in Int /\ (l + 1) + k = l + (k + 1)
      BY <3>1
    <3> QED
      BY <3>2, <3>3
  <2>7. Alike(z, x, m)
    BY <2>1, <2>2, <2>4, <2>5, <2>6, JoinMore
  <2>8. Holds(dcache'[r], dvalid'[r], z, m)
    <3>1. Holds(dcache'[r], dvalid'[r], x, m)
      BY <2>4, <2>6 DEF DraftHeld
    <3> QED
      BY <2>7, <3>1, HoldsAlike DEF Alike
  <2>9. /\ dvalid'[r] \subseteq 0 .. w0 + j - 1
        /\ \A i \in 1 .. j : w0 + i - 1 \in dvalid'[r] /\ dcache'[r][w0 + i - 1].pos = l + i - 1
    BY <2>4 DEF DraftHeld
  <2>10. L'[r] = l /\ W' = w0 /\ j > 0 /\ j # 0
    BY <1>1, <1>6, <2>1, <2>4
  <2>11. DraftHolds(r, j)'
    BY <2>3, <2>5, <2>6, <2>8, <2>9, <2>10 DEF DraftHolds
  <2> QED
    BY <2>3, <2>11
<1>8. TypeOK'
  <2>1. prop' \in [Rows -> Seq(Tokens)]
    BY <1>4, <1>7
  <2>2. \A r \in Rows : L'[r] = Len(committed'[r]) - 1 /\ pend'[r] = Last(committed'[r])
    BY <1>1, <1>2 DEF TypeOK
  <2> QED
    BY <1>1, <1>2, <1>5, <2>1, <2>2 DEF TypeOK
<1>9. UnderWay'
  <2>1. \A r \in Rows : RowOK(r)' /\ TargetHolds(r)'
    BY <1>1, <1>2 DEF RowOK, TargetHolds
  <2> QED
    BY <1>1, <1>2, <2>1 DEF UnderWay
<1>10. PhaseOK'
  <2>1. \A r \in Rows : Len(prop'[r]) = j
    BY <1>7 DEF DraftHolds
  <2>2. CASE j = Gamma
    BY <1>1, <1>2, <1>5, <1>7, <2>1, <2>2 DEF PhaseOK
  <2>3. CASE j # Gamma
    <3>1. j \in 0 .. Gamma - 1
      BY <1>3, <1>6, <2>3
    <3>2. pc' = "propose"
      BY <1>3, <1>5, <2>1, <2>3
    <3> QED
      BY <1>1, <1>2, <1>7, <3>1, <3>2 DEF PhaseOK
  <2> QED
    BY <2>2, <2>3
<1>11. Unstarted'
  BY <1>5 DEF Unstarted
<1> QED
  BY <1>8, <1>9, <1>10, <1>11 DEF BatchedInv

(* drf2, with the slot below the write head valid where its token was kept. *)
LEMMA ProposeFirstInv ==
  ASSUME BatchedInv, ProposeFirst
  PROVE  BatchedInv'
<1>1. /\ pc = "propose" /\ iters > 0 /\ \A r \in Rows : prop[r] = << >>
      /\ dvalid' = DeferredWhereKept
      /\ dcache' = [r \in Rows |->
           Written(dcache[r], Drafted(r, <<last[r], pend[r]>>, L[r] - 1), W - 1)]
      /\ Proposes
      /\ UNCHANGED <<tierVars, headVars, iters, tcache, valid>>
  BY DEF ProposeFirst
<1>2. /\ TypeOK /\ \A r \in Rows : RowOK(r)
      /\ W \in Nat \ {0} /\ W + iters * (Gamma + 1) <= MaxCache
  BY <1>1 DEF BatchedInv, UnderWay
<1>3. Gamma \in Nat \ {0} /\ Rows # {} /\ MaxCache \in Nat /\ adapter \in Routings
  BY <1>2, Sizes
<1>4. PICK k \in 0 .. Gamma - 1 : \A r \in Rows : DraftHolds(r, k)
  BY <1>1 DEF BatchedInv, PhaseOK
<1>5. k = 0
  BY <1>1, <1>3, <1>4 DEF DraftHolds
<1>6. PICK w0 \in Nat : w0 = W /\ w0 > 0 /\ w0 + 1 <= MaxCache
  <2>1. W + Gamma + 1 <= MaxCache
    BY <1>1, <1>2, RoomForOne
  <2> QED
    BY <1>2, <1>3, <2>1
<1>7. ASSUME NEW r \in Rows
      PROVE  \E x, l, j, w1 :
           /\ x = committed[r] \o prop[r] /\ l = L[r] /\ j = k + 1 /\ w1 = W
           /\ DraftHeld(dcache'[r], dvalid'[r], x, l, j, w1)
  <2>1. PICK c \in Seq(Tokens), l \in Nat, t \in {pend[r]} :
          /\ c = committed[r] /\ l = L[r] /\ Len(c) = l + 1 /\ l >= 1 /\ t = pend[r] /\ t = c[l + 1]
    <3>1. /\ committed[r] \in Seq(Tokens) /\ Len(committed[r]) >= 3 /\ L[r] = Len(committed[r]) - 1
          /\ pend[r] = committed[r][L[r] + 1]
      BY <1>2 DEF RowOK
    <3>2. PICK n \in Nat : n = Len(committed[r]) /\ n >= 3
      BY <3>1
    <3>3. n - 1 \in Nat /\ n = (n - 1) + 1 /\ n - 1 >= 1
      BY <3>2
    <3> QED
      BY <3>1, <3>2, <3>3
  <2>2. PICK kept \in BOOLEAN, lst \in Tokens : kept = fully[r] /\ lst = last[r]
    <3>1. fully[r] \in BOOLEAN /\ last[r] \in Tokens
      BY <1>2 DEF TypeOK
    <3> QED
      BY <3>1
  <2>3. PICK S :
          /\ S = dvalid[r]
          /\ S \in SUBSET (0 .. w0 - 2)
          /\ Holds(dcache[r], S, c, IF kept THEN l - 1 ELSE l)
          /\ (kept => lst = c[l])
    <3>1. PICK S : S = dvalid[r]
      OBVIOUS
    <3>2. /\ dvalid[r] \subseteq 0 .. w0 - 2
          /\ Holds(dcache[r], dvalid[r], c, IF fully[r] THEN l - 1 ELSE l)
          /\ (fully[r] => last[r] = c[l])
      BY <1>4, <1>5, <1>6, <2>1 DEF DraftHolds
    <3>3. S \in SUBSET (0 .. w0 - 2) /\ (kept => lst = c[l])
      BY <2>2, <3>1, <3>2
    <3>4. Holds(dcache[r], S, c, IF kept THEN l - 1 ELSE l)
      BY <2>2, <3>1, <3>2
    <3> QED
      BY <3>1, <3>3, <3>4
  <2>4. PICK cache \in Caches : cache = dcache[r]
    BY <1>2 DEF TypeOK, Caches
  <2>5. PICK U : U = dvalid'[r] /\ U = (S \ {w0 - 1}) \cup (IF kept THEN {w0 - 1, w0} ELSE {w0})
    <3>1. dvalid'[r] = (dvalid[r] \ {W - 1}) \cup (IF fully[r] THEN {W - 1, W} ELSE {W})
      BY <1>1 DEF DeferredWhereKept
    <3> QED
      BY <1>6, <2>2, <2>3, <3>1
  <2>6. PICK j : j = 1 /\ j = k + 1
    BY <1>5
  <2>7. DraftHeld(Written(cache, Drafted(r, <<lst, t>>, l - 1), w0 - 1), U, c, l, j, w0)
    <3>1. Holds(cache, S, c, IF kept THEN l - 1 ELSE l)
      BY <2>4, <2>3
    <3>2. w0 > 0 /\ w0 + 1 <= MaxCache /\ adapter \in Routings /\ l >= 1 /\ Len(c) = l + 1 /\ t = c[l + 1]
      BY <1>3, <1>6, <2>1
    <3> QED
      BY <2>3, <2>5, <2>6, <3>1, <3>2, ProposeFirstRow
  <2>8. dcache'[r] = Written(cache, Drafted(r, <<lst, t>>, l - 1), w0 - 1)
    BY <1>1, <1>6, <2>1, <2>2, <2>4
  <2>9. c = committed[r] \o prop[r]
    <3>1. c \o << >> = c
      OBVIOUS
    <3> QED
      BY <1>1, <2>1, <3>1
  <2>10. DraftHeld(dcache'[r], dvalid'[r], c, l, j, w0)
    BY <2>5, <2>7, <2>8
  <2> QED
    BY <1>6, <2>1, <2>9, <2>6, <2>10
<1>8. /\ dcache' \in [Rows -> [Slots -> RoutedEntries]] /\ dvalid' \in [Rows -> SUBSET Slots]
  <2>1. \A r \in Rows : dcache'[r] \in Caches /\ dvalid'[r] \in SUBSET Slots
    BY <1>7 DEF DraftHeld
  <2>2. dvalid' = [r \in Rows |-> dvalid'[r]] /\ dcache' = [r \in Rows |-> dcache'[r]]
    BY <1>1 DEF DeferredWhereKept
  <2> QED
    BY <2>1, <2>2 DEF Caches
<1>9. \A r \in Rows : Len(prop[r]) = k
  BY <1>4 DEF DraftHolds
<1> QED
  BY <1>1, <1>7, <1>8, <1>9, ProposesInv

(* drf1. *)
LEMMA ProposeNextInv ==
  ASSUME BatchedInv, ProposeNext
  PROVE  BatchedInv'
<1>1. /\ pc = "propose" /\ Proposes
      /\ UNCHANGED <<tierVars, headVars, iters, tcache, valid>>
  BY DEF ProposeNext
<1>2. PICK k \in 1 .. Gamma - 1 :
        /\ \A r \in Rows : Len(prop[r]) = k
        /\ dvalid' = [r \in Rows |-> dvalid[r] \cup {W + k}]
        /\ dcache' = [r \in Rows |->
             Written(dcache[r], Drafted(r, <<Last(prop[r])>>, L[r] + k), W + k)]
  BY DEF ProposeNext
<1>3. /\ TypeOK /\ \A r \in Rows : RowOK(r)
      /\ W \in Nat \ {0} /\ W + iters * (Gamma + 1) <= MaxCache
  BY <1>1 DEF BatchedInv, UnderWay
<1>4. Gamma \in Nat \ {0} /\ Rows # {} /\ MaxCache \in Nat /\ adapter \in Routings
  BY <1>3, Sizes
<1>5. iters > 0 /\ k \in 0 .. Gamma - 1 /\ \A r \in Rows : DraftHolds(r, k)
  <2>1. PICK i \in 0 .. Gamma - 1 : (i > 0 => iters > 0) /\ \A r \in Rows : DraftHolds(r, i)
    BY <1>1 DEF BatchedInv, PhaseOK
  <2>2. i = k
    BY <1>2, <1>4, <2>1 DEF DraftHolds
  <2> QED
    BY <2>1, <2>2
<1>6. PICK w0 \in Nat : w0 = W /\ w0 > 0 /\ w0 + k + 1 <= MaxCache
  <2>1. W + Gamma + 1 <= MaxCache
    BY <1>3, <1>5, RoomForOne
  <2> QED
    BY <1>3, <1>4, <2>1
<1>7. ASSUME NEW r \in Rows
      PROVE  \E x, l, j, w1 :
           /\ x = committed[r] \o prop[r] /\ l = L[r] /\ j = k + 1 /\ w1 = W
           /\ DraftHeld(dcache'[r], dvalid'[r], x, l, j, w1)
  <2>1. PICK c \in Seq(Tokens), l \in Nat, n \in Nat :
          c = committed[r] /\ l = L[r] /\ n = Len(c) /\ n = l + 1
    <3>1. committed[r] \in Seq(Tokens) /\ Len(committed[r]) >= 3 /\ L[r] = Len(committed[r]) - 1
      BY <1>3 DEF RowOK
    <3>2. PICK n \in Nat : n = Len(committed[r]) /\ n >= 3
      BY <3>1
    <3>3. n - 1 \in Nat /\ n = (n - 1) + 1
      BY <3>2
    <3> QED
      BY <3>1, <3>2, <3>3
  <2>2. PICK prp \in Seq(Tokens) : prp = prop[r] /\ k = Len(prp)
    BY <1>2, <1>3 DEF TypeOK
  <2>3. PICK x : x = c \o prp
    OBVIOUS
  <2>4. IsJoin(x, c, prp, n, k)
    BY <2>1, <2>2, <2>3, Joined
  <2>5. x \in Seq(Tokens) /\ Len(x) = l + 1 + k
    BY <2>1, <2>4 DEF IsJoin
  <2>6. PICK t : t = Last(prop[r]) /\ t = x[l + k + 1]
    <3>1. k \in 1 .. k /\ n + k = l + k + 1
      BY <2>1
    <3>2. x[l + k + 1] = prp[k]
      BY <2>4, <3>1 DEF IsJoin
    <3> QED
      BY <2>2, <3>2 DEF Last
  <2>7. PICK S, cache : S = dvalid[r] /\ cache = dcache[r] /\ DraftHeld(cache, S, x, l, k, w0)
    <3>1. dcache[r] \in Caches /\ dvalid[r] \in SUBSET Slots
      BY <1>3 DEF TypeOK, Caches
    <3>2. /\ dvalid[r] \subseteq 0 .. w0 + k - 1 /\ Holds(dcache[r], dvalid[r], x, l + k)
          /\ \A i \in 1 .. k : w0 + i - 1 \in dvalid[r] /\ dcache[r][w0 + i - 1].pos = l + i - 1
      BY <1>5, <1>6, <2>1, <2>2, <2>3, SMTT(30) DEF DraftHolds
    <3> QED
      BY <3>1, <3>2 DEF DraftHeld
  <2>8. PICK pos, first, j : pos = l + k /\ first = w0 + k /\ j = k + 1
    OBVIOUS
  <2>9. PICK U : U = dvalid'[r] /\ U = S \cup {first}
    BY <1>2, <1>6, <2>7, <2>8
  <2>10. DraftHeld(Written(cache, Drafted(r, <<t>>, pos), first), U, x, l, j, w0)
    <3>1. k \in Nat
      OBVIOUS
    <3> QED
      BY <1>4, <1>6, <2>5, <2>6, <2>7, <2>8, <2>9, <3>1, ProposeNextRow
  <2>11. dcache'[r] = Written(cache, Drafted(r, <<t>>, pos), first)
    <3>1. dcache'[r] = Written(dcache[r], Drafted(r, <<Last(prop[r])>>, L[r] + k), W + k)
      BY <1>2
    <3>2. dcache[r] = cache /\ Last(prop[r]) = t /\ L[r] + k = pos /\ W + k = first
      BY <1>6, <2>1, <2>6, <2>7, <2>8
    <3> QED
      BY <3>1, <3>2
  <2>12. x = committed[r] \o prop[r] /\ l = L[r] /\ j = k + 1 /\ w0 = W
    BY <1>6, <2>1, <2>2, <2>3, <2>8
  <2>13. DraftHeld(dcache'[r], dvalid'[r], x, l, j, w0)
    BY <2>9, <2>10, <2>11
  <2> QED
    BY <2>12, <2>13
<1>8. /\ dcache' \in [Rows -> [Slots -> RoutedEntries]] /\ dvalid' \in [Rows -> SUBSET Slots]
  <2>1. \A r \in Rows : dcache'[r] \in Caches /\ dvalid'[r] \in SUBSET Slots
    BY <1>7 DEF DraftHeld
  <2>2. dvalid' = [r \in Rows |-> dvalid'[r]] /\ dcache' = [r \in Rows |-> dcache'[r]]
    BY <1>2
  <2> QED
    BY <2>1, <2>2 DEF Caches
<1> QED
  BY <1>1, <1>2, <1>5, <1>7, <1>8, ProposesInv

-----------------------------------------------------------------------------
(***************************************************************************)
(* Verifying.                                                              *)
(***************************************************************************)

(* What the target's pass decides of a row: a proposals are accepted, new is  *)
(* committed, and the slots kept hold it up to the token added last.          *)
Decided(f, S, c, l, prp, pred, a, new, w0) ==
  /\ f \in Caches /\ a \in 0 .. Gamma /\ pred[a + 1] \in Tokens
  /\ IsCommit(new, c, prp, l + 1, a, pred[a + 1])
  /\ Holds(f, S \cup w0 .. w0 + a, new, l + a + 1)

(* The target reads the row's own tokens, so it accepts and adds greedily. *)
LEMMA VerifyRow ==
  ASSUME TargetIsToken, NEW cache \in Caches, NEW w0 \in Nat, w0 + Gamma + 1 <= MaxCache,
         NEW S \in SUBSET (0 .. w0 - 1), NEW c \in Seq(Tokens), NEW l \in Nat, Len(c) = l + 1,
         Holds(cache, S, c, l), NEW prp \in Seq(Tokens), Len(prp) = Gamma, NEW t, t = c[l + 1],
         NEW f, f = Written(cache, Merged(<<t>> \o prp, l), w0),
         NEW u, u = S \cup w0 .. w0 + Gamma,
         NEW pred, pred = [i \in 1 .. Gamma + 1 |-> Target(Attended(f, u, w0 + i - 1))],
         NEW a, a = Accepted(prp, pred), NEW new, new = c \o Commits(prp, pred)
  PROVE  Decided(f, S, c, l, prp, pred, a, new, w0)
<1>1. PICK g \in Nat : g = Gamma
  BY DecodingAssumption
<1>2. PICK x \in Seq(Tokens), toks \in Seq(Tokens) :
        /\ x = c \o prp /\ Len(x) = l + 1 + g
        /\ \A i \in 1 .. l + 1 : x[i] = c[i]
        /\ toks = <<t>> \o prp /\ Len(toks) = g + 1
        /\ \A i \in 1 .. g + 1 : toks[i] = x[l + i]
  <2>1. Feeding(c \o prp, <<t>> \o prp, c, prp, l, g)
    BY <1>1, FedTokens
  <2> QED
    BY <2>1 DEF Feeding
<1>3. Holds(cache, S, x, l)
  <2>1. \A i \in 1 .. l : x[i] = c[i]
    BY <1>2
  <2>2. l \in Int
    OBVIOUS
  <2> QED
    BY <2>1, <2>2, HoldsAlike
<1>4. Scored(f, u, S, x, l, g, w0)
  <2>1. f = Written(cache, Merged(toks, l), w0) /\ u = S \cup w0 .. w0 + g /\ w0 + g + 1 <= MaxCache
    BY <1>1, <1>2
  <2>2. Scored(Written(cache, Merged(toks, l), w0), u, S, x, l, g, w0)
    BY <1>2, <1>3, <2>1, TargetRow
  <2> QED
    BY <2>1, <2>2
<1>5. \A i \in 1 .. g + 1 : pred[i] = Target(Placed(SubSeq(x, 1, l + i))) /\ pred[i] \in Tokens
  <2> SUFFICES ASSUME NEW i \in 1 .. g + 1
               PROVE  pred[i] = Target(Placed(SubSeq(x, 1, l + i))) /\ pred[i] \in Tokens
    OBVIOUS
  <2>1. pred[i] = Target(Attended(f, u, w0 + i - 1))
    BY <1>1
  <2>2. /\ Attended(f, u, w0 + i - 1) = Placed(SubSeq(x, 1, l + i))
        /\ Target(Attended(f, u, w0 + i - 1)) \in Tokens
    BY <1>4 DEF Scored
  <2> QED
    BY <2>1, <2>2
<1>6. a \in 0 .. g /\ \A j \in 1 .. a : pred[j] = prp[j]
  <2>1. Agreed(a, prp, pred)
    BY AcceptedIs
  <2> QED
    BY <1>1, <2>1 DEF Agreed
<1>7. PICK k \in Tokens, n \in Nat :
        /\ k = pred[a + 1] /\ n = l + 1 /\ n = Len(c)
        /\ k = Target(Placed(SubSeq(x, 1, n + a)))
        /\ \A j \in 1 .. a : prp[j] = Target(Placed(SubSeq(x, 1, n - 1 + j)))
  <2>1. a + 1 \in 1 .. g + 1 /\ l + (a + 1) = (l + 1) + a /\ l + 1 \in Nat
    <3>1. PICK b \in 0 .. g : b = a
      BY <1>6
    <3>2. b + 1 \in 1 .. g + 1 /\ l + (b + 1) = (l + 1) + b /\ l + 1 \in Nat
      OBVIOUS
    <3> QED
      BY <3>1, <3>2
  <2>2. pred[a + 1] \in Tokens /\ pred[a + 1] = Target(Placed(SubSeq(x, 1, (l + 1) + a)))
    BY <1>5, <2>1
  <2>3. ASSUME NEW j \in 1 .. a PROVE prp[j] = Target(Placed(SubSeq(x, 1, (l + 1) - 1 + j)))
    <3>1. j \in 1 .. g + 1 /\ (l + 1) - 1 + j = l + j
      BY <1>6
    <3> QED
      BY <1>5, <1>6, <3>1
  <2> QED
    BY <2>1, <2>2, <2>3
<1>8. IsCommit(new, c, prp, n, a, k)
  <2>1. new = c \o Append(SubSeq(prp, 1, a), k)
    BY <1>7 DEF Commits
  <2>2. a \in 0 .. Len(prp)
    BY <1>1, <1>6
  <2>3. k = Target(Placed(SubSeq(c \o prp, 1, n + a)))
    BY <1>2, <1>7
  <2>4. \A j \in 1 .. a : prp[j] = Target(Placed(SubSeq(c \o prp, 1, n - 1 + j)))
    BY <1>2, <1>7
  <2>5. n = Len(c)
    BY <1>7
  <2> QED
    BY <2>1, <2>2, <2>3, <2>4, <2>5, CommitIs
<1>9. Holds(f, S \cup w0 .. w0 + a, new, l + a + 1)
  <2>1. Holds(f, S \cup w0 .. w0 + a, x, l + a + 1)
    <3>1. \A i \in 0 .. g : Holds(f, S \cup w0 .. w0 + i, x, l + i + 1)
      BY <1>4 DEF Scored
    <3> QED
      BY <1>6, <3>1
  <2>2. PICK m \in Int : m = l + a + 1 /\ m = n + a
    <3>1. l + a + 1 \in Int /\ l + a + 1 = (l + 1) + a
      BY <1>6, SMTT(30)
    <3> QED
      BY <1>7, <3>1
  <2>3. \A i \in 1 .. m : new[i] = x[i]
    BY <1>2, <1>8, <2>2 DEF IsCommit
  <2>4. PICK R : R = S \cup w0 .. w0 + a
    OBVIOUS
  <2>5. Holds(f, R, x, m)
    BY <2>1, <2>2, <2>4
  <2>6. Holds(f, R, new, m)
    BY <2>3, <2>5, HoldsAlike
  <2> QED
    BY <2>2, <2>4, <2>6
<1>10. f \in Caches
  BY <1>4 DEF Scored
<1> QED
  BY <1>1, <1>6, <1>7, <1>8, <1>9, <1>10 DEF Decided

(* An iteration ends with both caches rolled back to what is committed. *)
LEMMA VerifyInv ==
  ASSUME TargetIsToken, BatchedInv, Verify
  PROVE  BatchedInv' /\ \A r \in Rows : Row(r)!Extend
<1> DEFINE ok == [r \in Rows |-> valid[r] \cup W .. W + Gamma]
<1>1. PICK pred :
        /\ pred = Predicted(tcache', ok)
        /\ LET acc == [r \in Rows |-> Accepted(prop[r], pred[r])]
           IN /\ committed' = [r \in Rows |-> committed[r] \o Commits(prop[r], pred[r])]
              /\ pend' = [r \in Rows |-> pred[r][acc[r] + 1]]
              /\ valid' = [r \in Rows |-> (ok[r] \ (W .. W + Gamma)) \cup Kept(acc[r])]
              /\ dvalid' = [r \in Rows |-> (dvalid[r] \ (W .. W + Gamma))
                                             \cup (Kept(acc[r]) \cap W .. W + Gamma - 1)]
              /\ fully' = [r \in Rows |-> acc[r] = Gamma]
              /\ L' = [r \in Rows |-> Extended(L[r], acc[r])]
              /\ acc_tot' = [r \in Rows |-> acc_tot[r] + acc[r]]
  BY DEF Verify
<1> DEFINE acc == [r \in Rows |-> Accepted(prop[r], pred[r])]
<1>2. /\ pc = "verify"
      /\ tcache' = Fed
      /\ pred = [r \in Rows |-> [i \in 1 .. Gamma + 1 |-> Target(Attended(tcache'[r], ok[r], W + i - 1))]]
      /\ acc = [r \in Rows |-> Accepted(prop[r], pred[r])]
      /\ committed' = [r \in Rows |-> committed[r] \o Commits(prop[r], pred[r])]
      /\ pend' = [r \in Rows |-> pred[r][acc[r] + 1]]
      /\ valid' = [r \in Rows |-> (ok[r] \ (W .. W + Gamma)) \cup W .. W + acc[r]]
      /\ dvalid' = [r \in Rows |-> (dvalid[r] \ (W .. W + Gamma))
                                     \cup (W .. W + acc[r] \cap W .. W + Gamma - 1)]
      /\ fully' = [r \in Rows |-> acc[r] = Gamma]
      /\ L' = [r \in Rows |-> L[r] + acc[r] + 1]
      /\ acc_tot' = [r \in Rows |-> acc_tot[r] + acc[r]]
      /\ last' = [r \in Rows |-> Last(prop[r])]
      /\ W' = W + Gamma + 1
      /\ prop' = [r \in Rows |-> << >>]
      /\ pc' = "propose"
      /\ iters' = iters - 1
      /\ total' = total + Cardinality(Rows)
      /\ kind' = kind /\ adapter' = adapter /\ start' = start /\ dcache' = dcache
  <2>1. /\ pred = [r \in Rows |-> [i \in 1 .. Gamma + 1 |-> Target(Attended(tcache'[r], ok[r], W + i - 1))]]
        /\ committed' = [r \in Rows |-> committed[r] \o Commits(prop[r], pred[r])]
        /\ pend' = [r \in Rows |-> pred[r][acc[r] + 1]]
        /\ valid' = [r \in Rows |-> (ok[r] \ (W .. W + Gamma)) \cup W .. W + acc[r]]
        /\ dvalid' = [r \in Rows |-> (dvalid[r] \ (W .. W + Gamma))
                                       \cup (W .. W + acc[r] \cap W .. W + Gamma - 1)]
        /\ fully' = [r \in Rows |-> acc[r] = Gamma]
        /\ L' = [r \in Rows |-> L[r] + acc[r] + 1]
        /\ acc_tot' = [r \in Rows |-> acc_tot[r] + acc[r]]
    BY <1>1, Zenon DEF Predicted, Kept, Extended
  <2>2. /\ pc = "verify" /\ tcache' = Fed
        /\ last' = [r \in Rows |-> Last(prop[r])]
        /\ W' = W + Gamma + 1
        /\ prop' = [r \in Rows |-> << >>]
        /\ pc' = "propose"
        /\ iters' = iters - 1
        /\ total' = total + Cardinality(Rows)
        /\ kind' = kind /\ adapter' = adapter /\ start' = start /\ dcache' = dcache
    BY DEF Verify, CountedPerIteration, tierVars
  <2> HIDE DEF acc, ok
  <2>3. acc = [r \in Rows |-> Accepted(prop[r], pred[r])]
    BY DEF acc
  <2> QED
    BY <2>1, <2>2, <2>3
<1> HIDE DEF acc, ok
<1>3. /\ TypeOK /\ kind # "no_spec" /\ iters > 0
      /\ \A r \in Rows : RowOK(r) /\ TargetHolds(r) /\ DraftHolds(r, Gamma)
      /\ total = (Iters - iters) * Cardinality(Rows)
      /\ W \in Nat \ {0} /\ W + iters * (Gamma + 1) <= MaxCache
  BY <1>2 DEF BatchedInv, UnderWay, PhaseOK
<1>4. /\ Gamma \in Nat \ {0} /\ Iters \in Nat /\ MaxCache \in Nat /\ Cardinality(Rows) \in Nat
      /\ iters \in 0 .. Iters
  BY <1>3, Sizes
<1>5. PICK w0 \in Nat, g \in Nat :
        /\ w0 = W /\ w0 # 0 /\ g = Gamma /\ g > 0 /\ w0 + Gamma + 1 <= MaxCache /\ w0 + g + 1 <= MaxCache
        /\ iters - 1 \in 0 .. Iters
        /\ (w0 + Gamma + 1) + (iters - 1) * (Gamma + 1) <= MaxCache
  BY <1>3, <1>4, RoomForOne
<1>6. ASSUME NEW r \in Rows
      PROVE  /\ committed'[r] \in Seq(Tokens) /\ Extends(committed'[r], committed[r])
             /\ RowOK(r)' /\ tcache'[r] \in Caches /\ TargetHolds(r)' /\ DraftHolds(r, 0)'
             /\ valid'[r] \in SUBSET Slots /\ dvalid'[r] \in SUBSET Slots
             /\ last'[r] \in Tokens /\ acc_tot'[r] \in 0 .. Iters * Gamma
  <2>1. PICK c \in Seq(Tokens), l \in Nat, t \in {pend[r]} :
          /\ c = committed[r] /\ l = L[r] /\ Len(c) = l + 1 /\ l + 1 >= 3 /\ t = pend[r] /\ t = c[l + 1]
    <3>1. /\ committed[r] \in Seq(Tokens) /\ Len(committed[r]) >= 3
          /\ L[r] = Len(committed[r]) - 1 /\ pend[r] = committed[r][L[r] + 1]
      BY <1>3 DEF RowOK
    <3>2. PICK n \in Nat : n = Len(committed[r])
      BY <3>1
    <3>3. n - 1 \in Nat /\ (n - 1) + 1 = n
      BY <3>1, <3>2
    <3> QED
      BY <3>1, <3>2, <3>3
  <2>2. PICK S \in SUBSET (0 .. w0 - 1) : S = valid[r] /\ Holds(tcache[r], S, c, l)
    BY <1>3, <1>5, <2>1 DEF TargetHolds
  <2>3. PICK cache \in Caches : cache = tcache[r]
    BY <1>3 DEF TypeOK, Caches
  <2>4. PICK prp \in Seq(Tokens) : prp = prop[r] /\ Len(prp) = Gamma
    BY <1>3 DEF TypeOK, DraftHolds
  <2>5. PICK u, f, p, a, new :
          /\ u = ok[r] /\ f = tcache'[r] /\ p = pred[r] /\ a = acc[r] /\ new = committed'[r]
    OBVIOUS
  <2>6. /\ u = S \cup w0 .. w0 + Gamma
        /\ f = Written(cache, Merged(<<t>> \o prp, l), w0)
        /\ p = [i \in 1 .. Gamma + 1 |-> Target(Attended(f, u, w0 + i - 1))]
        /\ a = Accepted(prp, p) /\ new = c \o Commits(prp, p)
    <3>1. u = S \cup w0 .. w0 + Gamma
      BY <1>5, <2>2, <2>5 DEF ok
    <3>2. f = Written(cache, Merged(<<t>> \o prp, l), w0)
      BY <1>2, <1>5, <2>1, <2>3, <2>4, <2>5 DEF Fed
    <3>3. p = [i \in 1 .. Gamma + 1 |-> Target(Attended(f, u, w0 + i - 1))]
      BY <1>2, <1>5, <2>5
    <3> QED
      BY <1>2, <2>1, <2>4, <2>5, <3>1, <3>2, <3>3
  <2>7. Decided(f, S, c, l, prp, p, a, new, w0)
    BY <1>5, <2>1, <2>2, <2>3, <2>4, <2>6, VerifyRow, ZenonT(60)
  <2>8. PICK b \in 0 .. g, n \in Nat, k \in Tokens :
          b = a /\ n = l + 1 /\ n >= 3 /\ k = p[a + 1] /\ IsCommit(new, c, prp, n, b, k)
    <3>1. a \in 0 .. g /\ l + 1 \in Nat /\ p[a + 1] \in Tokens /\ IsCommit(new, c, prp, l + 1, a, p[a + 1])
      BY <1>5, <2>7 DEF Decided
    <3> QED
      BY <2>1, <3>1
  <2>9. /\ new \in Seq(Tokens) /\ Len(new) = n + b + 1 /\ new[n + b + 1] = k
        /\ \A i \in 1 .. n + b : new[i] = (c \o prp)[i]
        /\ Extends(new, c)
    BY <2>8 DEF IsCommit
  <2>10. f \in Caches /\ Holds(f, S \cup w0 .. w0 + b, new, l + b + 1)
    BY <2>7, <2>8 DEF Decided
  <2>11. /\ L'[r] = l + b + 1 /\ pend'[r] = k /\ prop'[r] = << >> /\ fully'[r] = (b = g)
         /\ acc_tot'[r] = acc_tot[r] + b /\ start'[r] = start[r] /\ last'[r] = prp[g]
         /\ valid'[r] = (u \ (w0 .. w0 + g)) \cup w0 .. w0 + b
         /\ dvalid'[r] = (dvalid[r] \ (w0 .. w0 + g)) \cup (w0 .. w0 + b \cap w0 .. w0 + g - 1)
         /\ kind' = kind /\ iters' = iters - 1 /\ dcache'[r] = dcache[r]
    <3>1. a = acc[r] /\ acc[r] = b /\ k = pred[r][acc[r] + 1] /\ g = Gamma /\ w0 = W /\ l = L[r]
      BY <1>5, <2>1, <2>5, <2>8
    <3>2. /\ L'[r] = l + b + 1 /\ pend'[r] = k /\ prop'[r] = << >> /\ fully'[r] = (b = g)
          /\ acc_tot'[r] = acc_tot[r] + b
      BY <1>2, <3>1
    <3>3. /\ valid'[r] = (u \ (w0 .. w0 + g)) \cup w0 .. w0 + b
          /\ dvalid'[r] = (dvalid[r] \ (w0 .. w0 + g)) \cup (w0 .. w0 + b \cap w0 .. w0 + g - 1)
      BY <1>2, <2>5, <3>1
    <3>4. start'[r] = start[r] /\ kind' = kind /\ iters' = iters - 1 /\ dcache'[r] = dcache[r]
      BY <1>2
    <3>5. last'[r] = prp[g]
      BY <1>2, <2>4, <3>1 DEF Last
    <3> QED
      BY <3>2, <3>3, <3>4, <3>5
  <2>12. W' - 1 = w0 + g /\ W' - 2 = w0 + g - 1
    <3>1. W' = w0 + g + 1 /\ (w0 + g + 1) - 1 = w0 + g /\ (w0 + g + 1) - 2 = w0 + g - 1
      BY <1>2, <1>5
    <3> QED
      BY <3>1
  <2>13. valid'[r] = S \cup w0 .. w0 + b
    <3>1. u \ (w0 .. w0 + g) = S
      <4>1. \A s \in S : s \notin w0 .. w0 + g
        OBVIOUS
      <4> QED
        BY <1>5, <2>6, <4>1
    <3> QED
      BY <2>11, <3>1
  <2>14. S \cup w0 .. w0 + b \subseteq 0 .. w0 + g /\ 0 .. w0 + g \subseteq Slots
    <3>1. 0 .. w0 - 1 \subseteq 0 .. w0 + g /\ w0 .. w0 + b \subseteq 0 .. w0 + g
      OBVIOUS
    <3>2. 0 .. w0 + g \subseteq 0 .. MaxCache - 1
      BY <1>4, <1>5
    <3> QED
      BY <3>1, <3>2 DEF Slots
  <2>15. TargetHolds(r)'
    BY <2>5, <2>10, <2>11, <2>12, <2>13, <2>14 DEF TargetHolds
  <2>16. acc_tot'[r] \in 0 .. (Iters - (iters - 1)) * Gamma /\ acc_tot'[r] \in 0 .. Iters * Gamma
    <3>1. acc_tot[r] \in 0 .. (Iters - iters) * Gamma
      BY <1>3 DEF RowOK
    <3>2. b \in 0 .. Gamma
      BY <1>5
    <3> QED
      BY <1>3, <2>11, <3>1, <3>2, OneIteration
  <2>17. RowOK(r)'
    <3>1. PICK s \in Nat, d \in Int : /\ s = start[r] /\ d = acc_tot[r]
                                     /\ n - s - 1 = (Iters - iters) + d
      <4>1. start[r] \in Nat /\ acc_tot[r] \in 0 .. (Iters - iters) * Gamma
            /\ Len(committed[r]) - start[r] - 1 = (Iters - iters) + acc_tot[r]
        BY <1>3 DEF RowOK
      <4>2. acc_tot[r] \in Int
        BY <4>1
      <4> QED
        BY <2>1, <2>8, <4>1, <4>2
    <3>2. (n + b + 1) - s - 1 = (Iters - (iters - 1)) + (d + b)
      <4>1. PICK i \in Int : i = Iters - iters /\ Iters - (iters - 1) = i + 1
        <5>1. Iters - iters \in Int /\ Iters - (iters - 1) = (Iters - iters) + 1
          BY <1>4
        <5> QED
          BY <5>1
      <4>2. n - s - 1 = i + d
        BY <3>1, <4>1
      <4>3. (n + b + 1) - s - 1 = (i + 1) + (d + b)
        BY <4>2
      <4> QED
        BY <4>1, <4>3
    <3>3. n + b + 1 >= 3 /\ l + b + 1 = (n + b + 1) - 1 /\ (l + b + 1) + 1 = n + b + 1
      BY <2>8
    <3>4. /\ committed'[r] \in Seq(Tokens) /\ Len(committed'[r]) >= 3
          /\ L'[r] = Len(committed'[r]) - 1 /\ pend'[r] = committed'[r][L'[r] + 1]
      BY <2>5, <2>9, <2>11, <3>3
    <3>5. start'[r] \in Nat /\ Len(committed'[r]) - start'[r] - 1 = (Iters - iters') + acc_tot'[r]
      BY <2>5, <2>9, <2>11, <3>1, <3>2
    <3> QED
      BY <1>3, <2>11, <2>16, <3>4, <3>5 DEF RowOK
  <2>18. PICK x : x = c \o prp
    OBVIOUS
  <2>19. IsJoin(x, c, prp, n, g)
    BY <1>5, <2>1, <2>4, <2>8, <2>18, Joined
  <2>20. PICK U : U = dvalid'[r] /\ U = (dvalid[r] \ (w0 .. w0 + g)) \cup (w0 .. w0 + b \cap w0 .. w0 + g - 1)
    BY <2>11
  <2>21. RolledBack(dcache[r], U, new, l, g, b, w0)
    <3>1. PICK D \in SUBSET (0 .. w0 + g - 1), m \in {l + g} :
            /\ D = dvalid[r] /\ m = l + g /\ Holds(dcache[r], D, x, m)
            /\ \A i \in 1 .. g : w0 + i - 1 \in D /\ dcache[r][w0 + i - 1].pos = l + i - 1
      <4>1. DraftHolds(r, Gamma)
        BY <1>3
      <4>2. /\ dvalid[r] \subseteq 0 .. w0 + g - 1 /\ Holds(dcache[r], dvalid[r], x, l + g)
            /\ \A i \in 1 .. g : w0 + i - 1 \in dvalid[r] /\ dcache[r][w0 + i - 1].pos = l + i - 1
        BY <1>5, <2>1, <2>4, <2>18, <4>1 DEF DraftHolds
      <4> QED
        BY <4>2
    <3>2. ASSUME NEW i \in 1 .. l + b + 1, i <= l + g PROVE new[i] = x[i]
      <4>1. i \in 1 .. n + b
        BY <2>8
      <4> QED
        BY <2>9, <2>18, <4>1
    <3>3. PICK e : e = dcache[r]
      OBVIOUS
    <3>4. RolledBack(e, U, new, l, g, b, w0)
      BY <2>20, <3>1, <3>2, <3>3, DraftRow
    <3> QED
      BY <3>3, <3>4
  <2>22. DraftHolds(r, 0)'
    <3>1. U \subseteq 0 .. w0 + g - 1 /\ Holds(dcache[r], U, new, IF b = g THEN l + g ELSE l + b + 1)
      BY <2>21 DEF RolledBack
    <3>2. (IF fully'[r] THEN L'[r] - 1 ELSE L'[r]) = (IF b = g THEN l + g ELSE l + b + 1)
      <4>1. (l + b + 1) - 1 = l + b
        OBVIOUS
      <4> QED
        BY <2>11, <4>1
    <3>3. fully'[r] => last'[r] = committed'[r][L'[r]]
      <4> SUFFICES ASSUME b = g PROVE last'[r] = new[l + b + 1]
        BY <2>5, <2>11
      <4>1. l + b + 1 = n + b /\ n + b \in 1 .. n + b /\ g \in 1 .. g
        BY <1>5, <2>8
      <4>2. new[n + b] = x[n + b] /\ x[n + g] = prp[g]
        BY <2>9, <2>18, <2>19, <4>1 DEF IsJoin
      <4> QED
        BY <2>11, <4>1, <4>2
    <3>4. Len(prop'[r]) = 0 /\ ~(0 > 0)
      BY <2>11
    <3>5. dvalid'[r] \subseteq 0 .. W' - 2
      BY <2>12, <2>20, <3>1
    <3>6. Holds(dcache'[r], dvalid'[r], committed'[r], IF fully'[r] THEN L'[r] - 1 ELSE L'[r])
      BY <2>5, <2>11, <2>20, <3>1, <3>2
    <3> QED
      BY <3>3, <3>4, <3>5, <3>6 DEF DraftHolds
  <2>23. dvalid'[r] \in SUBSET Slots
    <3>1. U \subseteq 0 .. w0 + g - 1 /\ 0 .. w0 + g - 1 \subseteq 0 .. w0 + g
      BY <2>21 DEF RolledBack
    <3> QED
      BY <2>14, <2>20, <3>1
  <2>24. last'[r] \in Tokens
    <3>1. g \in 1 .. Len(prp)
      BY <1>5, <2>4
    <3> QED
      BY <2>11, <3>1
  <2> QED
    BY <2>1, <2>5, <2>9, <2>10, <2>13, <2>14, <2>15, <2>16, <2>17, <2>22, <2>23, <2>24
<1>7. total' = (Iters' - iters') * Cardinality(Rows) /\ total' \in Nat
  <2>1. PICK d \in Nat, b \in Nat : d = Iters - iters /\ b = Cardinality(Rows) /\ Iters - (iters - 1) = d + 1
    <3>1. Iters - iters \in Nat /\ Iters - (iters - 1) = (Iters - iters) + 1
      BY <1>4
    <3> QED
      BY <1>4, <3>1
  <2>2. (d + 1) * b = d * b + b /\ d * b + b \in Nat
    OBVIOUS
  <2> QED
    BY <1>2, <1>3, <2>1, <2>2
<1>8. TypeOK'
  <2>1. \A r \in Rows : L'[r] = Len(committed'[r]) - 1 /\ pend'[r] = Last(committed'[r])
    <3> SUFFICES ASSUME NEW r \in Rows PROVE L'[r] = Len(committed'[r]) - 1 /\ pend'[r] = Last(committed'[r])
      OBVIOUS
    <3>1. PICK n \in Nat : n = Len(committed'[r])
      BY <1>6
    <3>2. L'[r] = n - 1 /\ pend'[r] = committed'[r][L'[r] + 1] /\ (n - 1) + 1 = n
      BY <1>6, <3>1 DEF RowOK
    <3> QED
      BY <3>1, <3>2 DEF Last
  <2>2. committed' \in [Rows -> Seq(Tokens)]
    BY <1>2, <1>6
  <2>3. tcache' \in [Rows -> [Slots -> RoutedEntries]] /\ valid' \in [Rows -> SUBSET Slots]
    BY <1>2, <1>6 DEF Caches, Fed
  <2>4. dvalid' \in [Rows -> SUBSET Slots] /\ last' \in [Rows -> Tokens]
    BY <1>2, <1>6
  <2>5. W' \in 0 .. MaxCache /\ iters' \in 0 .. Iters
    <3>1. W' = w0 + g + 1 /\ w0 + g + 1 \in 0 .. MaxCache
      BY <1>2, <1>4, <1>5
    <3> QED
      BY <1>2, <1>5, <3>1
  <2>6. prop' \in [Rows -> Seq(Tokens)] /\ fully' \in [Rows -> BOOLEAN]
    BY <1>2
  <2>7. acc_tot' \in [Rows -> 0 .. Iters * Gamma]
    BY <1>2, <1>6
  <2>8. /\ kind' \in {"no_spec", "shared", "warp"} /\ adapter' \in Routings /\ pc' = "propose"
        /\ start' \in [Rows -> Nat] /\ dcache' \in [Rows -> [Slots -> RoutedEntries]]
    BY <1>2, <1>3 DEF TypeOK
  <2> QED
    BY <1>7, <2>1, <2>2, <2>3, <2>4, <2>5, <2>6, <2>7, <2>8 DEF TypeOK
<1>9. UnderWay'
  <2>1. W' \in Nat \ {0} /\ W' + iters' * (Gamma + 1) <= MaxCache
    BY <1>2, <1>5
  <2> QED
    BY <1>6, <2>1 DEF UnderWay
<1>10. PhaseOK'
  <2>1. 0 \in 0 .. Gamma - 1 /\ ~(0 > 0)
    BY <1>4
  <2> QED
    BY <1>2, <1>3, <1>6, <1>7, <2>1 DEF PhaseOK
<1>11. Unstarted'
  BY <1>2 DEF Unstarted
<1>12. \A r \in Rows : Row(r)!Extend
  BY <1>2, <1>6, RowExtends
<1> QED
  BY <1>8, <1>9, <1>10, <1>11, <1>12 DEF BatchedInv

(* The last step counts what was accepted. *)
LEMMA FinishInv ==
  ASSUME BatchedInv, Finish
  PROVE  BatchedInv'
<1>1. /\ pc \in {"plain", "propose"} /\ iters = 0 /\ pc' = "done"
      /\ total' = IF kind = "no_spec" THEN total ELSE total + SumFunction(acc_tot)
      /\ kind' = kind /\ adapter' = adapter /\ start' = start
      /\ UNCHANGED <<iters, committed, L, W, pend, prop, last, fully,
                     dcache, tcache, dvalid, valid, acc_tot>>
  BY DEF Finish, tierVars
<1>2. /\ TypeOK /\ total = (Iters - iters) * Cardinality(Rows)
      /\ W \in Nat \ {0} /\ W + iters * (Gamma + 1) <= MaxCache
      /\ \A r \in Rows : RowOK(r) /\ TargetHolds(r)
  BY <1>1 DEF BatchedInv, UnderWay, PhaseOK
<1>3. /\ Gamma \in Nat \ {0} /\ Iters \in Nat /\ IsFiniteSet(Rows) /\ Cardinality(Rows) \in Nat
  BY <1>2, Sizes
<1>4. \A r \in Rows : prop[r] = << >>
  <2>1. CASE pc = "plain"
    BY <2>1 DEF BatchedInv, PhaseOK
  <2>2. CASE pc = "propose"
    <3>1. PICK k \in 0 .. Gamma - 1 : (k > 0 => iters > 0) /\ \A r \in Rows : DraftHolds(r, k)
      BY <2>2 DEF BatchedInv, PhaseOK
    <3>2. k = 0
      BY <1>1, <1>3, <3>1
    <3>3. \A r \in Rows : Len(prop[r]) = 0 /\ prop[r] \in Seq(Tokens)
      BY <1>2, <3>1, <3>2 DEF DraftHolds, TypeOK
    <3> QED
      BY <3>3
  <2> QED
    BY <1>1, <2>1, <2>2
<1> DEFINE f == [r \in Rows |-> Len(committed[r]) - start[r] - 1]
<1>5. \A r \in Rows : acc_tot[r] \in Nat /\ f[r] = Iters + acc_tot[r] /\ (kind = "no_spec" => acc_tot[r] = 0)
  <2> SUFFICES ASSUME NEW r \in Rows
               PROVE  acc_tot[r] \in Nat /\ f[r] = Iters + acc_tot[r] /\ (kind = "no_spec" => acc_tot[r] = 0)
    OBVIOUS
  <2>1. /\ acc_tot[r] \in 0 .. (Iters - iters) * Gamma
        /\ Len(committed[r]) - start[r] - 1 = (Iters - iters) + acc_tot[r]
        /\ kind = "no_spec" => acc_tot[r] = 0
    BY <1>2 DEF RowOK
  <2>2. Iters - iters = Iters /\ acc_tot[r] \in Nat
    BY <1>1, <1>3, <2>1
  <2> QED
    BY <2>1, <2>2
<1>6. acc_tot \in [Rows -> Nat] /\ acc_tot \in [Rows -> Int] /\ f \in [Rows -> Int]
  <2>1. acc_tot = [r \in Rows |-> acc_tot[r]]
    BY <1>2 DEF TypeOK
  <2>2. f = [r \in Rows |-> f[r]] /\ \A r \in Rows : f[r] \in Int
    BY <1>3, <1>5
  <2> HIDE DEF f
  <2> QED
    BY <1>5, <2>1, <2>2
<1> HIDE DEF f
<1>7. SumFunction(f) = Iters * Cardinality(Rows) + SumFunction(acc_tot)
  BY <1>3, <1>5, <1>6, SumShifted
<1>8. SumFunction(acc_tot) \in Nat /\ (kind = "no_spec" => SumFunction(acc_tot) = 0)
  BY <1>3, <1>5, <1>6, SumIsNat
<1>9. total' = SumFunction(f) /\ total' \in Nat
  <2>1. PICK b \in Nat, n \in Nat, s \in Nat, m \in Nat :
          b = Cardinality(Rows) /\ n = Iters /\ s = SumFunction(acc_tot) /\ m = n * b
    <3>1. PICK b \in Nat, n \in Nat : b = Cardinality(Rows) /\ n = Iters
      BY <1>3
    <3>2. n * b \in Nat
      OBVIOUS
    <3> QED
      BY <1>8, <3>1, <3>2
  <2>2. Iters - iters = Iters
    BY <1>1, <1>3
  <2>3. total = m
    BY <1>2, <2>1, <2>2
  <2>4. SumFunction(f) = m + s
    BY <1>7, <2>1
  <2> QED
    BY <1>1, <1>8, <2>1, <2>3, <2>4
<1>10. CountsCommitted'
  <2>1. f = [r \in Rows |-> Len(committed'[r]) - start'[r] - 1]
    BY <1>1 DEF f
  <2> QED
    BY <1>9, <2>1 DEF CountsCommitted
<1>11. TypeOK'
  BY <1>1, <1>2, <1>9 DEF TypeOK
<1>12. UnderWay'
  <2>1. \A r \in Rows : RowOK(r)' /\ TargetHolds(r)'
    BY <1>1, <1>2 DEF RowOK, TargetHolds
  <2> QED
    BY <1>1, <1>2, <2>1 DEF UnderWay
<1>13. PhaseOK'
  BY <1>1, <1>4, <1>10 DEF PhaseOK
<1>14. Unstarted'
  BY <1>1 DEF Unstarted
<1> QED
  BY <1>11, <1>12, <1>13, <1>14 DEF BatchedInv

(* Nothing changes. *)
LEMMA SameInv ==
  ASSUME BatchedInv, UNCHANGED vars
  PROVE  BatchedInv'
<1>1. UNCHANGED <<kind, adapter, start, committed, L, W, pend, last, fully, acc_tot, total, pc, iters, prop,
                  dcache, tcache, dvalid, valid>>
  BY DEF vars, tierVars, headVars
<1>2. TypeOK'
  BY <1>1 DEF BatchedInv, TypeOK
<1>3. Unstarted'
  BY <1>1 DEF BatchedInv, Unstarted, Fresh
<1>4. UnderWay'
  BY <1>1 DEF BatchedInv, UnderWay, RowOK, TargetHolds
<1>5. CountsCommitted' <=> CountsCommitted
  BY <1>1 DEF CountsCommitted
<1>6. \A r \in Rows : \A k : DraftHolds(r, k)' <=> DraftHolds(r, k)
  BY <1>1 DEF DraftHolds
<1>7. PhaseOK'
  BY <1>1, <1>5, <1>6 DEF BatchedInv, PhaseOK
<1> QED
  BY <1>2, <1>3, <1>4, <1>7 DEF BatchedInv

(* What the draft attends for a proposal. *)
LEMMA DraftAttends ==
  ASSUME BatchedInv
  PROVE  DraftSeesCommitted
<1> SUFFICES ASSUME NEW r \in Rows, prop[r] # << >>
             PROVE  Attended(dcache[r], dvalid[r], W + Len(prop[r]) - 1)
                      = Placed(committed[r] \o Front(prop[r]))
  BY DEF DraftSeesCommitted
<1>1. TypeOK /\ pc \in {"prefill", "plain", "propose", "verify", "done"} /\ Gamma \in Nat
  BY Sizes DEF BatchedInv, TypeOK
<1>2. PICK k \in Nat : DraftHolds(r, k) /\ pc # "prefill"
  <2>1. pc # "prefill" /\ pc # "plain" /\ pc # "done"
    BY DEF BatchedInv, Unstarted, Fresh, PhaseOK
  <2>2. CASE pc = "propose"
    <3>1. PICK k \in 0 .. Gamma - 1 : \A s \in Rows : DraftHolds(s, k)
      BY <2>2 DEF BatchedInv, PhaseOK
    <3>2. k \in Nat
      BY <1>1
    <3> QED
      BY <2>1, <3>1, <3>2
  <2>3. CASE pc = "verify"
    BY <1>1, <2>1, <2>3 DEF BatchedInv, PhaseOK
  <2> QED
    BY <1>1, <2>1, <2>2, <2>3
<1>3. PICK c \in Seq(Tokens), n \in Nat, l \in Nat, w0 \in Nat :
        c = committed[r] /\ n = Len(c) /\ n = l + 1 /\ l = L[r] /\ w0 = W
  <2>1. /\ committed[r] \in Seq(Tokens) /\ Len(committed[r]) >= 3
        /\ L[r] = Len(committed[r]) - 1 /\ W \in Nat
    BY <1>2 DEF BatchedInv, UnderWay, RowOK
  <2>2. PICK n \in Nat : n = Len(committed[r]) /\ n >= 3
    BY <2>1
  <2>3. n - 1 \in Nat /\ n = (n - 1) + 1
    BY <2>2
  <2> QED
    BY <2>1, <2>2, <2>3
<1>4. PICK prp \in Seq(Tokens) : prp = prop[r] /\ Len(prp) = k /\ k > 0
  <2>1. prop[r] \in Seq(Tokens) /\ Len(prop[r]) = k
    BY <1>1, <1>2 DEF TypeOK, DraftHolds
  <2> QED
    BY <2>1
<1>5. PICK x \in Seq(Tokens) : x = c \o prp /\ Len(x) = n + k /\ IsJoin(x, c, prp, n, k)
  <2>1. PICK x : x = c \o prp
    OBVIOUS
  <2>2. IsJoin(x, c, prp, n, k)
    BY <1>3, <1>4, <2>1, Joined
  <2> QED
    BY <2>1, <2>2 DEF IsJoin
<1>6. PICK m \in 0 .. Len(x), q \in Nat : m = l + k /\ q = w0 + k - 1 /\ q + 1 = w0 + k /\ m = n + (k - 1)
  <2>1. n = l + 1 /\ k > 0
    BY <1>3, <1>4
  <2>2. l + k \in 0 .. (l + 1) + k /\ w0 + k - 1 \in Nat
    BY <2>1
  <2>3. (w0 + k - 1) + 1 = w0 + k /\ l + k = (l + 1) + (k - 1)
    OBVIOUS
  <2> QED
    BY <1>5, <2>1, <2>2, <2>3
<1>7. PICK D, e : /\ D = dvalid[r] /\ e = dcache[r]
                  /\ D \subseteq 0 .. w0 + k - 1 /\ Holds(e, D, x, m)
  BY <1>2, <1>3, <1>4, <1>5, <1>6 DEF DraftHolds
<1>8. D \in SUBSET Nat /\ Below(D, q + 1) = D
  <2>1. \A s \in D : s \in Nat /\ s < q + 1
    BY <1>6, <1>7
  <2> QED
    BY <2>1 DEF Below
<1>9. Attended(e, D, q) = Placed(SubSeq(x, 1, m))
  <2>1. Holds(e, Below(D, q + 1), x, m)
    BY <1>7, <1>8
  <2> QED
    BY <1>8, <2>1, AttendedIs
<1>10. SubSeq(x, 1, m) = c \o Front(prp)
  <2>1. PICK j \in Nat : j = k - 1 /\ j < k /\ m = n + j
    <3>1. k - 1 \in Nat /\ k - 1 < k
      BY <1>4
    <3> QED
      BY <1>6, <3>1
  <2>2. PICK w \in Seq(Tokens) :
          w = Front(prp) /\ j = Len(w) /\ \A i \in 1 .. j : w[i] = prp[i]
    <3>1. Front(prp) = SubSeq(prp, 1, j)
      BY <1>4, <2>1 DEF Front
    <3>2. /\ SubSeq(prp, 1, j) \in Seq(Tokens) /\ j = Len(SubSeq(prp, 1, j))
          /\ \A i \in 1 .. j : SubSeq(prp, 1, j)[i] = prp[i]
      BY <1>4, <2>1
    <3> QED
      BY <3>1, <3>2
  <2>3. PICK z \in Seq(Tokens) : z = c \o w /\ IsJoin(z, c, w, n, j)
    <3>1. PICK z : z = c \o w
      OBVIOUS
    <3>2. IsJoin(z, c, w, n, j)
      BY <1>3, <2>2, <3>1, Joined
    <3> QED
      BY <3>1, <3>2 DEF IsJoin
  <2>4. Len(z) = m /\ \A i \in 1 .. m : z[i] = x[i]
    <3>1. Len(z) = m
      BY <2>1, <2>3 DEF IsJoin
    <3>2. ASSUME NEW i \in 1 .. m PROVE z[i] = x[i]
      <4>1. CASE i \in 1 .. n
        BY <1>5, <2>3, <4>1 DEF IsJoin
      <4>2. CASE i \notin 1 .. n
        <5>1. PICK h \in 1 .. j : i = n + h
          <6>1. i - n \in 1 .. j /\ i = n + (i - n)
            BY <2>1, <4>2
          <6> QED
            BY <6>1
        <5>2. h \in 1 .. k
          BY <2>1
        <5> QED
          BY <1>5, <2>2, <2>3, <5>1, <5>2, SMTT(30) DEF IsJoin
      <4> QED
        BY <4>1, <4>2
    <3> QED
      BY <3>1, <3>2
  <2>5. m \in 0 .. Len(x)
    OBVIOUS
  <2>6. SubSeq(x, 1, m) = z
    BY <2>4, <2>5
  <2> QED
    BY <2>2, <2>3, <2>6
<1> QED
  BY <1>3, <1>4, <1>6, <1>7, <1>9, <1>10

-----------------------------------------------------------------------------
(***************************************************************************)
(* The theorems.                                                           *)
(***************************************************************************)

(* Every step preserves the invariant. *)
LEMMA StepInv ==
  ASSUME TargetIsToken, BatchedInv, [Next]_vars
  PROVE  BatchedInv'
<1>1. CASE Prefill
  BY <1>1, PrefillInv
<1>2. CASE PlainStep
  BY <1>2, PlainStepInv
<1>3. CASE ProposeFirst
  BY <1>3, ProposeFirstInv
<1>4. CASE ProposeNext
  BY <1>4, ProposeNextInv
<1>5. CASE Verify
  BY <1>5, VerifyInv
<1>6. CASE Finish
  BY <1>6, FinishInv
<1>7. CASE Done
  BY <1>7, SameInv DEF Done
<1>8. CASE UNCHANGED vars
  BY <1>8, SameInv
<1> QED
  BY <1>1, <1>2, <1>3, <1>4, <1>5, <1>6, <1>7, <1>8 DEF Next

(* The invariant holds throughout. *)
LEMMA BatchedInvariant ==
  ASSUME TargetIsToken
  PROVE  Spec => []BatchedInv
<1>1. Init => BatchedInv
  BY InitInv
<1>2. BatchedInv /\ [Next]_vars => BatchedInv'
  BY StepInv
<1> QED
  BY <1>1, <1>2, PTL DEF Spec

(* TypeOK for any batch, prompts, number of proposals and of iterations: no   *)
(* step of run_tier leaves the MAX slots serve_mixed_traffic.py allots, L is  *)
(* the committed length without the pending token, and pend is that token     *)
(* (batched_spec_loop.py, run_tier).                                          *)
THEOREM BatchedTyped ==
  ASSUME TargetIsToken
  PROVE  Spec => []TypeOK
<1>1. BatchedInv => TypeOK
  BY DEF BatchedInv
<1> QED
  BY <1>1, BatchedInvariant, PTL

(* DraftSeesCommitted for any batch: every proposal of every row is made from *)
(* exactly the row's committed tokens and its proposals so far, though        *)
(* rejected and deferred slots lie between them (batched_spec_loop.py: keep   *)
(* and fully).                                                                *)
THEOREM DraftSafe ==
  ASSUME TargetIsToken
  PROVE  Spec => []DraftSeesCommitted
<1>1. BatchedInv => DraftSeesCommitted
  BY DraftAttends
<1> QED
  BY <1>1, BatchedInvariant, PTL

(* CountsCommitted for any batch and number of iterations: the throughput     *)
(* counts what the rows committed in the iterations and nothing else          *)
(* (batched_spec_loop.py, the total that run_tier returns).                   *)
THEOREM CountSafe ==
  ASSUME TargetIsToken
  PROVE  Spec => []CountsCommitted
<1>1. BatchedInv => CountsCommitted
  BY DEF BatchedInv, PhaseOK, CountsCommitted
<1> QED
  BY <1>1, BatchedInvariant, PTL

(* A step commits, in every row, nothing or what the target decodes greedily. *)
LEMMA StepExtends ==
  ASSUME TargetIsToken, BatchedInv, [Next]_vars, NEW r \in Rows
  PROVE  [Row(r)!Next]_<<committed[r], start[r]>>
<1>1. CASE Prefill
  <2>1. Row(r)!Extend
    BY <1>1, PrefillInv
  <2> QED
    BY <2>1 DEF Row!Next
<1>2. CASE PlainStep
  <2>1. Row(r)!Extend
    BY <1>2, PlainStepInv
  <2> QED
    BY <2>1 DEF Row!Next
<1>3. CASE Verify
  <2>1. Row(r)!Extend
    BY <1>3, VerifyInv
  <2> QED
    BY <2>1 DEF Row!Next
<1>4. CASE ProposeFirst \/ ProposeNext
  BY <1>4 DEF ProposeFirst, ProposeNext, headVars, tierVars
<1>5. CASE Finish
  BY <1>5 DEF Finish, tierVars
<1>6. CASE Done \/ UNCHANGED vars
  BY <1>6 DEF Done, vars, headVars, tierVars
<1> QED
  BY <1>1, <1>2, <1>3, <1>4, <1>5, <1>6 DEF Next

(* Every row begins with its prompt. *)
LEMMA RowsBegin ==
  Init => \A r \in Rows : Row(r)!Init
<1> SUFFICES ASSUME Init, NEW r \in Rows PROVE Row(r)!Init
  OBVIOUS
<1>1. PICK p \in Prompts : committed[r] = p /\ start[r] = Len(p)
  BY DEF Init
<1> QED
  BY <1>1 DEF Row!Init, Row!Begin

(* RowsDecodeGreedily for any batch: every row implements GreedyDecode, however *)
(* many proposals the rows beside it accept and wherever its own tokens lie   *)
(* (batched_spec_loop.py; serve_mixed_traffic.py checks it of one batch).     *)
THEOREM RowsAreGreedy ==
  ASSUME TargetIsToken
  PROVE  Spec => RowsDecodeGreedily
<1>1. BatchedInv /\ [Next]_vars => [\A r \in Rows : [Row(r)!Next]_<<committed[r], start[r]>>]_vars
  BY StepExtends
<1> QED
  BY <1>1, RowsBegin, BatchedInvariant, PTL DEF Spec, RowsDecodeGreedily, Row!Init, Row!Next
=============================================================================
