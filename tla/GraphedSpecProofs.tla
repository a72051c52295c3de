-------------------------- MODULE GraphedSpecProofs --------------------------
(***************************************************************************)
(* Proofs about the captured decode of one sequence (GraphedSpec): for any *)
(* target model, any draft, any prompts and numbers of tokens, the loop    *)
(* with speculation commits what the loop without it commits, the target's *)
(* greedy tokens, over caches that are never cleared.                      *)
(*                                                                         *)
(* The invariant says what the write positions stand for: of the target's  *)
(* cache the slots below clen - 1 hold the committed tokens at their own   *)
(* positions, of the draft's cache so do they, followed by the proposals   *)
(* it has been fed.  What lies above is whatever earlier steps and earlier *)
(* requests left, and no query of this step reaches it before it is        *)
(* overwritten.                                                            *)
(***************************************************************************)
EXTENDS GraphedSpec, WellFoundedInduction, SequenceTheorems, TLAPS

(* The argmax of a model's logits is a token of its vocabulary. *)
TargetIsToken == \A view \in Seq(Entries) : Target(view) \in Tokens

(* z and x begin with the same k tokens. *)
Alike(z, x, k) == \A i \in 1 .. k : z[i] = x[i]

(* The first m slots hold the first m tokens of x at their positions. *)
Holds(cache, x, m) == \A s \in 0 .. m - 1 : cache[s] = [tok |-> x[s + 1], pos |-> s]

PhaseOK ==
  /\ kind = "no_spec" => pc \in {"plain", "done"}
  /\ kind = "spec" => pc \in {"propose", "verify", "done"}
  /\ pc \in {"plain", "done"} => prop = << >>
  /\ pc = "propose" => Len(prop) < Gamma
  /\ pc = "verify" => Len(prop) = Gamma

(* A request under way has tokens left to ask for, and slots left for them. *)
RoomLeft ==
  /\ start + NNew + Gamma - 1 <= MaxCache
  /\ IF pc = "done" THEN clen - start >= NNew ELSE clen - start < NNew

GraphedInv ==
  /\ TypeOK
  /\ PhaseOK
  /\ RoomLeft
  /\ Holds(tcache, committed, clen - 1)
  /\ kind = "spec" => Holds(dcache, committed \o prop, clen + Len(prop) - 1)

-----------------------------------------------------------------------------
(* Sequences and caches. *)

LEMMA GreatestBelow ==
  ASSUME NEW n \in Nat, NEW T \in SUBSET (0 .. n), T # {}
  PROVE  \E x \in T : \A z \in T : z <= x
<1> DEFINE U == {n - z : z \in T}
<1>1. U \in SUBSET Nat /\ U # {}
  <2>1. \A z \in T : n - z \in Nat
    OBVIOUS
  <2>2. PICK z \in T : TRUE
    OBVIOUS
  <2> QED
    BY <2>1, <2>2
<1>2. PICK u \in U : \A z \in U : <<z, u>> \notin OpToRel(<, Nat)
  <2> HIDE DEF U
  <2> QED
    BY <1>1, NatLessThanWellFounded, WFMin
<1>3. \A z \in U : ~(z < u)
  <2> HIDE DEF U
  <2> QED
    BY <1>1, <1>2 DEF OpToRel
<1>4. PICK x \in T : u = n - x
  BY <1>2
<1>5. ASSUME NEW z \in T PROVE z <= x
  <2>1. ~(n - z < n - x)
    BY <1>3, <1>4
  <2> QED
    BY <2>1
<1> QED
  BY <1>5

LEMMA JoinIs ==
  ASSUME NEW c \in Seq(Tokens), NEW w \in Seq(Tokens), NEW x, x = c \o w
  PROVE  /\ x \in Seq(Tokens) /\ Len(x) = Len(c) + Len(w)
         /\ \A i \in 1 .. Len(c) : x[i] = c[i]
         /\ \A j \in 1 .. Len(w) : x[Len(c) + j] = w[j]
<1>1. PICK n \in Nat, b \in Nat : n = Len(c) /\ b = Len(w)
  OBVIOUS
<1>2. /\ x \in Seq(Tokens) /\ Len(x) = n + b
      /\ \A i \in 1 .. n + b : x[i] = IF i <= n THEN c[i] ELSE w[i - n]
  BY <1>1, ConcatProperties
<1>3. ASSUME NEW j \in 1 .. b PROVE x[n + j] = w[j]
  <2>1. n + j \in 1 .. n + b /\ ~(n + j <= n) /\ (n + j) - n = j
    OBVIOUS
  <2> QED
    BY <1>2, <2>1
<1>4. \A i \in 1 .. n : i \in 1 .. n + b /\ i <= n
  OBVIOUS
<1> QED
  BY <1>1, <1>2, <1>3, <1>4

(* The accepted prefix is as long as it can be. *)
LEMMA AcceptedIs ==
  ASSUME NEW p, NEW pred
  PROVE  /\ Accepted(p, pred) \in 0 .. Gamma
         /\ \A j \in 1 .. Accepted(p, pred) : pred[j] = p[j]
<1> DEFINE T == {a \in 0 .. Gamma : \A j \in 1 .. a : pred[j] = p[j]}
<1>1. Gamma \in Nat /\ T \in SUBSET (0 .. Gamma) /\ 0 \in T
  BY DecodingAssumption
<1>2. PICK a \in T : \A z \in T : z <= a
  <2> HIDE DEF T
  <2> QED
    BY <1>1, GreatestBelow
<1>3. a \in 0 .. Gamma /\ \A j \in 1 .. a : pred[j] = p[j]
  OBVIOUS
<1>4. a < Gamma => pred[a + 1] # p[a + 1]
  <2> SUFFICES ASSUME a < Gamma, pred[a + 1] = p[a + 1] PROVE FALSE
    OBVIOUS
  <2>1. a + 1 \in T
    BY <1>1, <1>3
  <2> QED
    BY <1>2, <1>3, <2>1
<1>5. \E z \in 0 .. Gamma : /\ \A j \in 1 .. z : pred[j] = p[j]
                            /\ z < Gamma => pred[z + 1] # p[z + 1]
  BY <1>3, <1>4
<1> QED
  BY <1>5 DEF Accepted

(* What is attended of a cache that holds x. *)
LEMMA AttendedIs ==
  ASSUME NEW x \in Seq(Tokens), NEW m \in 0 .. Len(x), NEW cache, Holds(cache, x, m)
  PROVE  /\ Attended(cache, m - 1) = Placed(SubSeq(x, 1, m))
         /\ Placed(SubSeq(x, 1, m)) \in Seq(Entries)
<1>1. SubSeq(x, 1, m) \in Seq(Tokens) /\ Len(SubSeq(x, 1, m)) = m
      /\ \A i \in 1 .. m : SubSeq(x, 1, m)[i] = x[i]
  OBVIOUS
<1>2. \A i \in 1 .. m : cache[i - 1] = [tok |-> x[i], pos |-> i - 1]
  <2> SUFFICES ASSUME NEW i \in 1 .. m PROVE cache[i - 1] = [tok |-> x[i], pos |-> i - 1]
    OBVIOUS
  <2>1. i - 1 \in 0 .. m - 1 /\ (i - 1) + 1 = i
    OBVIOUS
  <2> QED
    BY <2>1 DEF Holds
<1>3. Attended(cache, m - 1) = Placed(SubSeq(x, 1, m))
  BY <1>1, <1>2 DEF Attended, Placed
<1>4. Placed(SubSeq(x, 1, m)) \in [1 .. m -> Entries]
  BY <1>1 DEF Placed, Entries
<1> QED
  BY <1>3, <1>4

(* A step that writes the tokens of x from `first' on extends what is held. *)
LEMMA WrittenHolds ==
  ASSUME NEW cache \in Caches, NEW x \in Seq(Tokens), NEW m \in Nat, Holds(cache, x, m),
         NEW toks \in Seq(Tokens), NEW n \in Nat, n = Len(toks), m + n <= Len(x),
         \A i \in 1 .. n : toks[i] = x[m + i], m + n <= MaxCache
  PROVE  Written(cache, toks, m) \in Caches /\ Holds(Written(cache, toks, m), x, m + n)
<1> DEFINE w == Written(cache, toks, m)
<1>1. DOMAIN cache = Slots /\ MaxCache \in Nat
  BY GraphedAssumption DEF Caches
<1>2. m .. m + n - 1 \subseteq Slots
  BY <1>1 DEF Slots
<1>3. w = [s \in Slots |-> IF s \in m .. m + n - 1
                             THEN [tok |-> toks[s - m + 1], pos |-> s] ELSE cache[s]]
  BY <1>1, <1>2 DEF Written
<1>4. ASSUME NEW s \in m .. m + n - 1
      PROVE  w[s] = [tok |-> x[s + 1], pos |-> s] /\ w[s] \in Entries
  <2>1. s - m + 1 \in 1 .. n /\ m + (s - m + 1) = s + 1 /\ s \in Nat
    OBVIOUS
  <2>2. toks[s - m + 1] = x[s + 1] /\ toks[s - m + 1] \in Tokens
    BY <2>1
  <2>3. s \in Slots
    BY <1>2
  <2>4. w[s] = [tok |-> toks[s - m + 1], pos |-> s]
    BY <1>3, <2>3
  <2> QED
    BY <2>1, <2>2, <2>4 DEF Entries
<1>5. w \in Caches
  BY <1>3, <1>4 DEF Caches
<1>6. ASSUME NEW s \in 0 .. m + n - 1 PROVE w[s] = [tok |-> x[s + 1], pos |-> s]
  <2>1. CASE s \in m .. m + n - 1
    BY <1>4, <2>1
  <2>2. CASE s \notin m .. m + n - 1
    <3>1. s \in 0 .. m - 1 /\ s \in Slots
      BY <1>1, <2>2 DEF Slots
    <3>2. w[s] = cache[s]
      BY <1>3, <2>2, <3>1
    <3> QED
      BY <3>1, <3>2 DEF Holds
  <2> QED
    BY <2>1, <2>2
<1> QED
  BY <1>5, <1>6 DEF Holds

(* What is held of a sequence is held of one that begins alike. *)
LEMMA HeldPrefix ==
  ASSUME NEW cache, NEW x, NEW z, NEW m \in Int, NEW k \in Int, k <= m,
         Holds(cache, x, m), Alike(z, x, k)
  PROVE  Holds(cache, z, k)
<1> SUFFICES ASSUME NEW s \in 0 .. k - 1 PROVE cache[s] = [tok |-> z[s + 1], pos |-> s]
  BY DEF Holds
<1>1. s \in 0 .. m - 1 /\ s + 1 \in 1 .. k
  OBVIOUS
<1> QED
  BY <1>1 DEF Holds, Alike

-----------------------------------------------------------------------------
(* The start of a request. *)

LEMMA PromptFits ==
  ASSUME NEW p \in Prompts
  PROVE  /\ p \in Seq(Tokens) /\ Len(p) \in Nat /\ Len(p) >= 2 /\ Last(p) = p[Len(p)]
         /\ Len(p) + NNew + Gamma - 1 <= MaxCache
         /\ NNew \in Nat \ {0} /\ Gamma \in Nat \ {0} /\ MaxCache \in Nat
BY DecodingAssumption, GraphedAssumption DEF Last

(* A prefill covers the prompt up to its last token, whatever the cache held. *)
LEMMA PrefillHolds ==
  ASSUME NEW p \in Prompts, NEW cache \in Caches
  PROVE  /\ Written(cache, Front(p), 0) \in Caches
         /\ Holds(Written(cache, Front(p), 0), p, Len(p) - 1)
<1>1. PICK n \in Nat : n = Len(p) - 1 /\ n <= Len(p) /\ n <= MaxCache
  <2>1. PICK l \in Nat : l = Len(p) /\ l >= 2 /\ l + NNew + Gamma - 1 <= MaxCache
    BY PromptFits
  <2>2. l - 1 \in Nat /\ l - 1 <= MaxCache /\ l - 1 <= l
    BY <2>1, PromptFits
  <2> QED
    BY <2>1, <2>2
<1>2. /\ p \in Seq(Tokens) /\ Front(p) \in Seq(Tokens) /\ Len(Front(p)) = n
      /\ \A i \in 1 .. n : Front(p)[i] = p[i]
  BY <1>1, PromptFits DEF Front
<1>3. Holds(cache, p, 0)
  BY DEF Holds
<1> HIDE DEF Front
<1>4. 0 + n <= Len(p) /\ 0 + n <= MaxCache /\ 0 + n = n /\ 0 \in Nat
  BY <1>1
<1>5. \A i \in 1 .. n : Front(p)[i] = p[0 + i]
  BY <1>2
<1>6. Written(cache, Front(p), 0) \in Caches /\ Holds(Written(cache, Front(p), 0), p, 0 + n)
  BY <1>2, <1>3, <1>4, <1>5, WrittenHolds
<1> QED
  BY <1>1, <1>4, <1>6

LEMMA StartInv ==
  ASSUME NEW p \in Prompts, kind \in {"spec", "no_spec"}, pc = First(kind), committed = p,
         start = Len(p), clen = Len(p), pending = Last(p), prop = << >>,
         dcache \in Caches, kind = "spec" => Holds(dcache, p, Len(p) - 1),
         tcache \in Caches, Holds(tcache, p, Len(p) - 1)
  PROVE  GraphedInv
<1>1. PICK n \in Nat : n = Len(p) /\ n >= 2 /\ p \in Seq(Tokens) /\ n + NNew + Gamma - 1 <= MaxCache
  BY PromptFits
<1>2. TypeOK
  BY <1>1, PromptFits DEF TypeOK, First
<1>3. PhaseOK
  BY PromptFits DEF PhaseOK, First
<1>4. RoomLeft
  BY <1>1, PromptFits DEF RoomLeft, First
<1>5. p \o << >> = p /\ Len(p) + Len(<< >>) - 1 = Len(p) - 1
  BY <1>1
<1> QED
  BY <1>2, <1>3, <1>4, <1>5 DEF GraphedInv

LEMMA InitInv == Init => GraphedInv
<1> SUFFICES ASSUME Init PROVE GraphedInv
  OBVIOUS
<1>1. PICK p \in Prompts : p = committed
  BY DEF Init
<1>2. EmptyCache \in Caches
  BY DEF EmptyCache, Caches
<1>3. dcache \in Caches /\ (kind = "spec" => Holds(dcache, p, Len(p) - 1))
  BY <1>1, <1>2, PrefillHolds DEF Init
<1>4. tcache \in Caches /\ Holds(tcache, p, Len(p) - 1)
  BY <1>1, <1>2, PrefillHolds DEF Init
<1> QED
  BY <1>1, <1>3, <1>4, StartInv DEF Init

(* The next request finds the caches as the last one left them. *)
LEMMA NextPromptInv ==
  ASSUME GraphedInv, NextPrompt
  PROVE  GraphedInv' /\ G!NextRequest
<1>1. PICK p \in Prompts : Serve(p, dcache, tcache)
  BY DEF NextPrompt
<1>2. dcache \in Caches /\ tcache \in Caches /\ kind \in {"spec", "no_spec"} /\ kind' = kind
  BY DEF GraphedInv, TypeOK, NextPrompt
<1>3. dcache' \in Caches /\ (kind = "spec" => Holds(dcache', p, Len(p) - 1))
  BY <1>1, <1>2, PrefillHolds DEF Serve
<1>4. tcache' \in Caches /\ Holds(tcache', p, Len(p) - 1)
  BY <1>1, <1>2, PrefillHolds DEF Serve
<1>5. /\ pc' = First(kind') /\ committed' = p /\ start' = Len(p) /\ clen' = Len(p)
      /\ pending' = Last(p) /\ prop' = << >>
  BY <1>1, <1>2 DEF Serve
<1>6. TypeOK'
  <2>1. PICK n \in Nat : n = Len(p) /\ n >= 2 /\ p \in Seq(Tokens)
    BY PromptFits
  <2> QED
    BY <1>2, <1>3, <1>4, <1>5, <2>1, PromptFits DEF TypeOK, First
<1>7. PhaseOK'
  BY <1>2, <1>5, PromptFits DEF PhaseOK, First
<1>8. RoomLeft'
  <2>1. PICK n \in Nat : n = Len(p) /\ n + NNew + Gamma - 1 <= MaxCache
    BY PromptFits
  <2> QED
    BY <1>2, <1>5, <2>1, PromptFits DEF RoomLeft, First
<1>9. Holds(tcache, committed, clen - 1)'
  BY <1>4, <1>5
<1>10. kind' = "spec" => Holds(dcache, committed \o prop, clen + Len(prop) - 1)'
  <2>1. p \o << >> = p /\ Len(p) + Len(<< >>) - 1 = Len(p) - 1
    BY PromptFits
  <2> QED
    BY <1>2, <1>3, <1>5, <2>1
<1>11. G!NextRequest
  <2>1. Len(committed) - start >= NNew
    BY DEF NextPrompt, GraphedInv, RoomLeft, TypeOK
  <2> QED
    BY <1>5, <2>1 DEF G!NextRequest, G!Begin
<1> QED
  BY <1>6, <1>7, <1>8, <1>9, <1>10, <1>11 DEF GraphedInv

-----------------------------------------------------------------------------
(* A step of the target. *)

LEMMA UnderWay ==
  ASSUME GraphedInv, pc # "done"
  PROVE  /\ committed \in Seq(Tokens) /\ prop \in Seq(Tokens) /\ committed \o prop \in Seq(Tokens)
         /\ clen \in Nat /\ clen >= 2 /\ Len(committed) = clen /\ pending = committed[clen]
         /\ Len(prop) \in Nat /\ Len(prop) <= Gamma /\ Gamma \in Nat
         /\ Len(committed \o prop) = clen + Len(prop)
         /\ \A i \in 1 .. clen : (committed \o prop)[i] = committed[i]
         /\ \A j \in 1 .. Len(prop) : (committed \o prop)[clen + j] = prop[j]
         /\ clen + Gamma <= MaxCache /\ MaxCache \in Nat
         /\ dcache \in Caches /\ tcache \in Caches
<1>1. /\ committed \in Seq(Tokens) /\ prop \in Seq(Tokens) /\ clen = Len(committed)
      /\ pending = Last(committed) /\ start \in 2 .. Len(committed) /\ Len(prop) <= Gamma
      /\ dcache \in Caches /\ tcache \in Caches
  BY DEF GraphedInv, TypeOK
<1>2. Gamma \in Nat /\ NNew \in Nat /\ MaxCache \in Nat
  BY DecodingAssumption, GraphedAssumption
<1>3. PICK n \in Nat : n = clen /\ n >= 2
  BY <1>1
<1>4. n + Gamma <= MaxCache
  BY <1>1, <1>2, <1>3 DEF GraphedInv, RoomLeft
<1> QED
  BY <1>1, <1>2, <1>3, <1>4 DEF Last

(* The target is fed the pending token and the proposals; its i-th prediction *)
(* is what it would say of the tokens committed and the i - 1 proposals.      *)
LEMMA TargetPredicts ==
  ASSUME TargetIsToken, GraphedInv, pc # "done", NEW fed,
         fed = Written(tcache, <<pending>> \o prop, clen - 1)
  PROVE  /\ fed \in Caches
         /\ Holds(fed, committed \o prop, clen + Len(prop))
         /\ \A i \in 1 .. Len(prop) + 1 :
              /\ Attended(fed, clen - 2 + i) = Placed(SubSeq(committed \o prop, 1, clen - 1 + i))
              /\ Target(Attended(fed, clen - 2 + i)) \in Tokens
<1>1. PICK x \in Seq(Tokens) : x = committed \o prop
  BY UnderWay
<1>2. PICK n \in Nat : n = clen /\ n >= 2
  BY UnderWay
<1>3. PICK k \in Nat : k = Len(prop) /\ k <= Gamma
  BY UnderWay
<1>4. PICK toks \in Seq(Tokens) : toks = <<pending>> \o prop
  <2>1. pending \in Tokens /\ prop \in Seq(Tokens)
    BY UnderWay
  <2>2. <<pending>> \in Seq(Tokens)
    BY <2>1
  <2>3. <<pending>> \o prop \in Seq(Tokens)
    BY <2>1, <2>2
  <2> QED
    BY <2>3
<1>5. /\ Len(toks) = k + 1 /\ toks[1] = pending
      /\ \A i \in 2 .. k + 1 : toks[i] = prop[i - 1]
  <2>1. prop \in Seq(Tokens)
    BY UnderWay
  <2> QED
    BY <1>3, <1>4, <2>1
<1>6. /\ Len(x) = n + k /\ x[n] = pending /\ \A j \in 1 .. k : x[n + j] = prop[j]
  BY <1>1, <1>2, <1>3, UnderWay
<1>7. PICK m \in Nat : m = n - 1
  BY <1>2
<1>8. \A i \in 1 .. k + 1 : toks[i] = x[m + i]
  <2> SUFFICES ASSUME NEW i \in 1 .. k + 1 PROVE toks[i] = x[m + i]
    OBVIOUS
  <2>1. CASE i = 1
    <3>1. m + 1 = n
      BY <1>7
    <3> QED
      BY <1>5, <1>6, <2>1, <3>1
  <2>2. CASE i # 1
    <3>1. i \in 2 .. k + 1 /\ i - 1 \in 1 .. k /\ n + (i - 1) = m + i
      BY <1>7, <2>2
    <3> QED
      BY <1>5, <1>6, <3>1
  <2> QED
    BY <2>1, <2>2
<1>9. Holds(tcache, x, m)
  <2>1. Alike(x, committed, m)
    BY <1>1, <1>2, <1>7, UnderWay DEF Alike
  <2>2. Holds(tcache, committed, m)
    BY <1>2, <1>7 DEF GraphedInv
  <2> QED
    BY <2>1, <2>2, HeldPrefix
<1>10. m + (k + 1) <= Len(x) /\ m + (k + 1) <= MaxCache /\ k + 1 \in Nat
  BY <1>2, <1>3, <1>6, <1>7, UnderWay
<1>11. fed = Written(tcache, toks, m) /\ tcache \in Caches
  BY <1>2, <1>4, <1>7, UnderWay
<1>12. fed \in Caches /\ Holds(fed, x, m + (k + 1))
  BY <1>5, <1>8, <1>9, <1>10, <1>11, WrittenHolds, ZenonT(60)
<1>13. m + (k + 1) = clen + Len(prop)
  BY <1>2, <1>3, <1>7
<1>14. ASSUME NEW i \in 1 .. k + 1
       PROVE  /\ Attended(fed, clen - 2 + i) = Placed(SubSeq(x, 1, clen - 1 + i))
              /\ Target(Attended(fed, clen - 2 + i)) \in Tokens
  <2>1. PICK q \in 0 .. Len(x) : q = clen - 1 + i /\ q <= m + (k + 1) /\ q - 1 = clen - 2 + i
    <3>1. n - 1 + i \in 0 .. n + k /\ n - 1 + i <= m + (k + 1) /\ (n - 1 + i) - 1 = n - 2 + i
      BY <1>2, <1>7
    <3> QED
      BY <1>2, <1>6, <3>1
  <2>2. Holds(fed, x, q)
    <3>1. Alike(x, x, q) /\ q \in Int /\ m + (k + 1) \in Int
      BY <1>10 DEF Alike
    <3> QED
      BY <1>12, <2>1, <3>1, HeldPrefix
  <2>3. Attended(fed, q - 1) = Placed(SubSeq(x, 1, q)) /\ Placed(SubSeq(x, 1, q)) \in Seq(Entries)
    BY <2>2, AttendedIs
  <2> QED
    BY <2>1, <2>3 DEF TargetIsToken
<1> QED
  BY <1>1, <1>3, <1>12, <1>13, <1>14

(* An iteration that commits a proposals the target agrees with and a token   *)
(* of the target's own extends the sequence greedily.                         *)
LEMMA CommitIs ==
  ASSUME GraphedInv, pc # "done", NEW a \in 0 .. Len(prop), NEW t \in Tokens,
         t = Target(Placed(SubSeq(committed \o prop, 1, clen + a))),
         \A j \in 1 .. a : prop[j] = Target(Placed(SubSeq(committed \o prop, 1, clen - 1 + j))),
         committed' = committed \o Append(SubSeq(prop, 1, a), t), start' = start
  PROVE  /\ committed' \in Seq(Tokens) /\ Len(committed') = clen + a + 1 /\ Last(committed') = t
         /\ Alike(committed', committed \o prop, clen + a)
         /\ G!Extend
<1>1. PICK x \in Seq(Tokens) : x = committed \o prop
  BY UnderWay
<1>2. PICK n \in Nat : n = clen /\ n >= 2
  BY UnderWay
<1>3. PICK k \in Nat : k = Len(prop) /\ a <= k
  BY UnderWay
<1>4. PICK c \in Seq(Tokens) : c = committed /\ Len(c) = n
  BY <1>2, UnderWay
<1>5. /\ prop \in Seq(Tokens) /\ Len(x) = n + k
      /\ \A i \in 1 .. n : x[i] = c[i]
      /\ \A j \in 1 .. k : x[n + j] = prop[j]
  BY <1>1, <1>2, <1>3, <1>4, UnderWay
<1>6. PICK w \in Seq(Tokens) :
        /\ w = Append(SubSeq(prop, 1, a), t) /\ Len(w) = a + 1 /\ w[a + 1] = t
        /\ \A j \in 1 .. a : w[j] = prop[j]
  <2>1. /\ SubSeq(prop, 1, a) \in Seq(Tokens) /\ Len(SubSeq(prop, 1, a)) = a
        /\ \A j \in 1 .. a : SubSeq(prop, 1, a)[j] = prop[j]
    BY <1>3, <1>5
  <2>2. PICK z \in Seq(Tokens) : z = SubSeq(prop, 1, a) /\ Len(z) = a
    BY <2>1
  <2>3. /\ Append(z, t) \in Seq(Tokens) /\ Len(Append(z, t)) = a + 1 /\ Append(z, t)[a + 1] = t
        /\ \A j \in 1 .. a : Append(z, t)[j] = z[j]
    BY <1>3, <2>2
  <2> QED
    BY <2>1, <2>2, <2>3, ZenonT(60)
<1>7. PICK d \in Seq(Tokens) :
        /\ d = committed' /\ Len(d) = n + (a + 1)
        /\ \A i \in 1 .. n : d[i] = c[i]
        /\ \A j \in 1 .. a + 1 : d[n + j] = w[j]
  <2>1. committed' = c \o w
    BY <1>4, <1>6
  <2>2. /\ c \o w \in Seq(Tokens) /\ Len(c \o w) = n + (a + 1)
        /\ \A i \in 1 .. n : (c \o w)[i] = c[i]
        /\ \A j \in 1 .. a + 1 : (c \o w)[n + j] = w[j]
    <3>1. PICK b \in Nat : b = a + 1 /\ b = Len(w)
      BY <1>3, <1>6
    <3>2. /\ c \o w \in Seq(Tokens) /\ Len(c \o w) = n + b
          /\ \A i \in 1 .. n : (c \o w)[i] = c[i]
          /\ \A j \in 1 .. b : (c \o w)[n + j] = w[j]
      <4>1. n = Len(c) /\ b = Len(w)
        BY <1>4, <3>1
      <4> QED
        BY <4>1, JoinIs
    <3> QED
      BY <3>1, <3>2
  <2> QED
    BY <2>1, <2>2
<1>8. \A i \in 1 .. n + a : d[i] = x[i]
  <2> SUFFICES ASSUME NEW i \in 1 .. n + a PROVE d[i] = x[i]
    OBVIOUS
  <2>1. CASE i \in 1 .. n
    BY <1>5, <1>7, <2>1
  <2>2. CASE i \notin 1 .. n
    <3>1. PICK j \in 1 .. a : i = n + j
      <4>1. i - n \in 1 .. a /\ i = n + (i - n)
        BY <2>2
      <4> QED
        BY <4>1
    <3>2. j \in 1 .. k /\ j \in 1 .. a + 1
      BY <1>3
    <3> QED
      BY <1>5, <1>6, <1>7, <3>1, <3>2
  <2> QED
    BY <2>1, <2>2
<1>9. \A q \in 0 .. n + a : SubSeq(d, 1, q) = SubSeq(x, 1, q)
  BY <1>3, <1>5, <1>7, <1>8, SMTT(30)
<1>10. ASSUME NEW i \in n + 1 .. n + (a + 1)
       PROVE  d[i] = Target(Placed(SubSeq(d, 1, i - 1)))
  <2>1. PICK j \in 1 .. a + 1 : i = n + j
    <3>1. i - n \in 1 .. a + 1 /\ i = n + (i - n)
      OBVIOUS
    <3> QED
      BY <3>1
  <2>2. i - 1 \in 0 .. n + a /\ i - 1 = n - 1 + j
    BY <2>1
  <2>3. SubSeq(d, 1, i - 1) = SubSeq(x, 1, n - 1 + j)
    BY <1>9, <2>2
  <2>4. CASE j \in 1 .. a
    <3>1. prop[j] = Target(Placed(SubSeq(x, 1, n - 1 + j)))
      BY <1>1, <1>2, <2>4
    <3>2. d[i] = prop[j]
      BY <1>6, <1>7, <2>1, <2>4
    <3> QED
      BY <2>3, <3>1, <3>2
  <2>5. CASE j \notin 1 .. a
    <3>1. j = a + 1 /\ n - 1 + j = n + a
      BY <2>5
    <3> QED
      BY <1>1, <1>2, <1>6, <1>7, <2>1, <2>3, <3>1
  <2> QED
    BY <2>4, <2>5
<1>11. G!Extend
  <2>1. Len(committed') > Len(committed)
    BY <1>4, <1>7
  <2>2. SubSeq(committed', 1, Len(committed)) = committed
    <3>1. SubSeq(d, 1, n) = c
      BY <1>4, <1>7
    <3> QED
      BY <1>4, <1>7, <3>1
  <2>3. ASSUME NEW i \in Len(committed) + 1 .. Len(committed')
        PROVE  committed'[i] = G!Greedy(SubSeq(committed', 1, i - 1))
    <3>1. i \in n + 1 .. n + (a + 1)
      BY <1>4, <1>7
    <3>2. committed'[i] = Target(Placed(SubSeq(committed', 1, i - 1)))
      BY <1>7, <1>10, <3>1
    <3>3. \A z : G!Greedy(z) = Target(Placed(z))
      BY DEF G!Greedy, G!Placed, Placed
    <3> QED
      BY <3>2, <3>3
  <2> QED
    BY <2>1, <2>2, <2>3 DEF G!Extend
<1>12. Last(committed') = t
  BY <1>6, <1>7, SMTT(30) DEF Last
<1>13. Len(committed') = clen + a + 1
  BY <1>2, <1>7
<1> QED
  BY <1>1, <1>2, <1>7, <1>8, <1>11, <1>12, <1>13 DEF Alike

(* After a commit the loop goes on or stops as the count of tokens says. *)
LEMMA CommitKeepsRoom ==
  ASSUME GraphedInv, pc # "done", NEW m \in Nat, Len(committed') = clen + m + 1,
         clen' = clen + m + 1, start' = start, NEW repeat, repeat # "done", pc' = Again(repeat)
  PROVE  RoomLeft' /\ start \in 2 .. Len(committed')
<1>1. /\ start + NNew + Gamma - 1 <= MaxCache /\ start \in 2 .. Len(committed)
      /\ committed \in Seq(Tokens)
  BY DEF GraphedInv, RoomLeft, TypeOK
<1>2. PICK n \in Nat : n = clen /\ Len(committed) = n
  BY UnderWay
<1>3. NNew \in Nat /\ start \in 2 .. n
  BY <1>1, <1>2, GraphedAssumption
<1>4. IF pc' = "done" THEN clen' - start' >= NNew ELSE clen' - start' < NNew
  BY <1>2, <1>3 DEF Again
<1> QED
  BY <1>1, <1>2, <1>3, <1>4 DEF RoomLeft

LEMMA PlainStepInv ==
  ASSUME TargetIsToken, GraphedInv, PlainStep
  PROVE  GraphedInv' /\ G!Extend
<1> DEFINE fed == Written(tcache, <<pending>>, clen - 1)
<1> DEFINE nt == Target(Attended(fed, clen - 1))
<1>1. pc # "done" /\ prop = << >> /\ kind = "no_spec" /\ pending \in Tokens
  <2>1. kind \in {"spec", "no_spec"} /\ pc = "plain" /\ PhaseOK
    BY DEF PlainStep, GraphedInv, TypeOK
  <2>2. pc # "done"
    BY <2>1
  <2> QED
    BY <2>1, <2>2, UnderWay DEF PhaseOK
<1>2. fed = Written(tcache, <<pending>> \o prop, clen - 1)
  BY <1>1
<1> HIDE DEF fed
<1>3. PICK n \in Nat : n = clen /\ n - 2 + 1 = n - 1 /\ n - 1 + 1 = n /\ n >= 2
  BY <1>1, UnderWay
<1>4. Len(prop) = 0 /\ 0 \in 0 .. Len(prop) /\ 1 \in 1 .. Len(prop) + 1
  BY <1>1
<1>5. /\ fed \in Caches /\ Holds(fed, committed \o prop, n + 0)
      /\ nt \in Tokens /\ nt = Target(Placed(SubSeq(committed \o prop, 1, n + 0)))
  BY <1>1, <1>2, <1>3, <1>4, TargetPredicts
<1>6. /\ tcache' = fed /\ committed' = Append(committed, nt) /\ pending' = nt
      /\ clen' = clen + 1 /\ pc' = Again("plain")
      /\ UNCHANGED <<kind, start, prop, dcache>>
  BY DEF PlainStep, fed
<1>7. committed' = committed \o Append(SubSeq(prop, 1, 0), nt)
  <2>0. SubSeq(prop, 1, 0) = << >>
    BY <1>1
  <2>1. Append(SubSeq(prop, 1, 0), nt) = <<nt>>
    <3> HIDE DEF nt
    <3>1. Append(<< >>, nt) = <<nt>>
      OBVIOUS
    <3> QED
      BY <2>0, <3>1
  <2>2. committed \in Seq(Tokens)
    BY <1>1, UnderWay
  <2> QED
    BY <1>5, <1>6, <2>1, <2>2
<1> HIDE DEF nt
<1>8. /\ committed' \in Seq(Tokens) /\ Len(committed') = clen + 0 + 1 /\ Last(committed') = nt
      /\ Alike(committed', committed \o prop, clen + 0)
      /\ G!Extend
  BY <1>1, <1>3, <1>4, <1>5, <1>6, <1>7, CommitIs
<1>9. clen' = clen + 0 + 1 /\ clen' = n + 1 /\ n + 0 = n
  BY <1>3, <1>6
<1>10. RoomLeft' /\ start \in 2 .. Len(committed')
  BY <1>1, <1>6, <1>8, <1>9, CommitKeepsRoom
<1>11. TypeOK'
  BY <1>5, <1>6, <1>8, <1>9, <1>10 DEF GraphedInv, TypeOK, Again
<1>12. PhaseOK'
  BY <1>1, <1>6 DEF PhaseOK, Again
<1>13. Holds(tcache', committed', clen' - 1)
  <2>1. clen' - 1 = n /\ clen + 0 = n /\ n <= n
    BY <1>3, <1>9
  <2>2. Alike(committed', committed \o prop, n)
    BY <1>8, <2>1
  <2>3. Holds(tcache', committed \o prop, n)
    BY <1>5, <1>6, <1>9
  <2> QED
    BY <2>1, <2>2, <2>3, HeldPrefix
<1> QED
  BY <1>1, <1>6, <1>8, <1>10, <1>11, <1>12, <1>13 DEF GraphedInv

(* What the draft is fed next is the last token of what it has to see. *)
LEMMA DraftFed ==
  ASSUME GraphedInv, pc # "done", kind = "spec", NEW t, t = IF prop = << >> THEN pending ELSE Last(prop),
         clen + Len(prop) <= MaxCache
  PROVE  /\ Written(dcache, <<t>>, clen - 1 + Len(prop)) \in Caches
         /\ Holds(Written(dcache, <<t>>, clen - 1 + Len(prop)), committed \o prop, clen + Len(prop))
<1>1. PICK x \in Seq(Tokens) : x = committed \o prop
  BY UnderWay
<1>2. PICK n \in Nat : n = clen /\ n >= 2
  BY UnderWay
<1>3. PICK k \in Nat : k = Len(prop)
  BY UnderWay
<1>4. PICK m \in Nat : m = n - 1 + k /\ m + 1 = n + k /\ m = clen + Len(prop) - 1
  <2>1. n - 1 + k \in Nat /\ (n - 1 + k) + 1 = n + k /\ n - 1 + k = n + k - 1
    BY <1>2
  <2> QED
    BY <1>2, <1>3, <2>1
<1>5. Len(x) = n + k /\ x[m + 1] = t /\ t \in Tokens
  <2>1. Len(x) = n + k
    BY <1>1, <1>2, <1>3, UnderWay
  <2>2. CASE prop = << >>
    <3>1. k = 0 /\ m + 1 = n
      BY <1>2, <1>3, <1>4, <2>2
    <3>2. x[n] = committed[n] /\ pending = committed[n]
      BY <1>1, <1>2, UnderWay
    <3>3. x[n] \in Tokens
      BY <1>2, <1>3, <2>1
    <3> QED
      BY <2>1, <2>2, <3>1, <3>2, <3>3
  <2>3. CASE prop # << >>
    <3>1. prop \in Seq(Tokens)
      BY UnderWay
    <3>2. k \in 1 .. k /\ Last(prop) = prop[k] /\ prop[k] \in Tokens
      BY <1>3, <2>3, <3>1 DEF Last
    <3>3. x[n + k] = prop[k]
      BY <1>1, <1>2, <1>3, <3>2, UnderWay
    <3> QED
      BY <1>4, <2>1, <2>3, <3>2, <3>3
  <2> QED
    BY <2>2, <2>3
<1>6. dcache \in Caches /\ Holds(dcache, x, m)
  BY <1>1, <1>4, UnderWay DEF GraphedInv
<1>7. /\ <<t>> \in Seq(Tokens) /\ 1 = Len(<<t>>) /\ 1 \in Nat
      /\ \A i \in 1 .. 1 : <<t>>[i] = x[m + i]
  BY <1>5
<1>8. m + 1 <= Len(x) /\ m + 1 <= MaxCache
  BY <1>2, <1>3, <1>4, <1>5
<1>9. Written(dcache, <<t>>, m) \in Caches /\ Holds(Written(dcache, <<t>>, m), x, m + 1)
  BY <1>6, <1>7, <1>8, WrittenHolds
<1>10. m = clen - 1 + Len(prop) /\ m + 1 = clen + Len(prop)
  BY <1>2, <1>3, <1>4
<1> QED
  BY <1>1, <1>9, <1>10

LEMMA ProposeInv ==
  ASSUME GraphedInv, Propose
  PROVE  GraphedInv'
<1> DEFINE t == IF prop = << >> THEN pending ELSE Last(prop)
<1>1. pc = "propose" /\ pc # "done" /\ kind = "spec" /\ Len(prop) < Gamma
  BY DEF Propose, GraphedInv, TypeOK, PhaseOK
<1>2. PICK n \in Nat : n = clen /\ n >= 2
  BY <1>1, UnderWay
<1>3. PICK k \in Nat : k = Len(prop) /\ k < Gamma
  BY <1>1, UnderWay
<1>4. clen + Len(prop) <= MaxCache
  <2>1. n + Gamma <= MaxCache /\ Gamma \in Nat /\ MaxCache \in Nat
    BY <1>1, <1>2, UnderWay
  <2> QED
    BY <1>2, <1>3, <2>1
<1>5. dcache' \in Caches /\ Holds(dcache', committed \o prop, clen + Len(prop))
  BY <1>1, <1>4, DraftFed DEF Propose
<1>6. PICK u \in Tokens : prop' = Append(prop, u)
  BY DEF Propose
<1>7. /\ prop' \in Seq(Tokens) /\ Len(prop') = k + 1 /\ prop' # << >>
      /\ \A j \in 1 .. k : prop'[j] = prop[j]
  <2>1. prop \in Seq(Tokens)
    BY <1>1, UnderWay
  <2> QED
    BY <1>3, <1>6, <2>1
<1>8. UNCHANGED <<kind, committed, start, clen, pending, tcache>>
      /\ pc' = IF Len(prop') = Gamma THEN "verify" ELSE "propose"
  BY DEF Propose
<1>9. Gamma \in Nat
  BY DecodingAssumption
<1>10. TypeOK'
  BY <1>3, <1>5, <1>7, <1>8, <1>9 DEF GraphedInv, TypeOK
<1>11. PhaseOK'
  BY <1>1, <1>3, <1>7, <1>8, <1>9 DEF PhaseOK
<1>12. RoomLeft'
  BY <1>1, <1>8 DEF GraphedInv, RoomLeft
<1>13. Holds(dcache', committed' \o prop', clen' + Len(prop') - 1)
  <2>1. committed \in Seq(Tokens) /\ prop \in Seq(Tokens) /\ Len(committed) = n
    BY <1>1, <1>2, UnderWay
  <2>2. PICK x, z : x = committed \o prop /\ z = committed \o prop'
    OBVIOUS
  <2>3. /\ \A i \in 1 .. n : x[i] = committed[i]
        /\ \A j \in 1 .. k : x[n + j] = prop[j]
    <3>1. /\ \A i \in 1 .. Len(committed) : x[i] = committed[i]
          /\ \A j \in 1 .. Len(prop) : x[Len(committed) + j] = prop[j]
      BY <2>1, <2>2, JoinIs, SMTT(30)
    <3> QED
      BY <1>3, <2>1, <3>1
  <2>4. PICK b \in Nat : b = k + 1 /\ b = Len(prop')
    BY <1>7
  <2>5. /\ \A i \in 1 .. n : z[i] = committed[i]
        /\ \A j \in 1 .. b : z[n + j] = prop'[j]
    <3>1. /\ \A i \in 1 .. Len(committed) : z[i] = committed[i]
          /\ \A j \in 1 .. Len(prop') : z[Len(committed) + j] = prop'[j]
      <4>1. PICK w \in Seq(Tokens) : w = prop'
        BY <1>7
      <4>2. z = committed \o w
        BY <2>2, <4>1
      <4>3. /\ \A i \in 1 .. Len(committed) : z[i] = committed[i]
            /\ \A j \in 1 .. Len(w) : z[Len(committed) + j] = w[j]
        BY <2>1, <4>2, JoinIs
      <4> QED
        BY <4>1, <4>3
    <3> QED
      BY <2>1, <2>4, <3>1
  <2>6. Alike(z, x, n + k)
    <3> SUFFICES ASSUME NEW i \in 1 .. n + k PROVE z[i] = x[i]
      BY DEF Alike
    <3>1. CASE i \in 1 .. n
      BY <2>3, <2>5, <3>1
    <3>2. CASE i \notin 1 .. n
      <4>1. i - n \in 1 .. k /\ i - n \in 1 .. b /\ n + (i - n) = i
        BY <2>4, <3>2
      <4> QED
        BY <1>7, <2>3, <2>5, <4>1, ZenonT(60)
    <3> QED
      BY <3>1, <3>2
  <2>7. PICK q \in Int : q = n + k
    OBVIOUS
  <2>8. Holds(dcache', x, q) /\ q <= q /\ Alike(z, x, q)
    BY <1>2, <1>3, <1>5, <2>2, <2>6, <2>7
  <2>9. Holds(dcache', z, q)
    BY <2>8, HeldPrefix
  <2>10. clen' + Len(prop') - 1 = q
    BY <1>2, <1>7, <1>8, <2>7
  <2> QED
    BY <1>8, <2>2, <2>9, <2>10
<1>14. Holds(tcache, committed, clen - 1)'
  BY <1>8 DEF GraphedInv
<1> QED
  BY <1>10, <1>11, <1>12, <1>13, <1>14 DEF GraphedInv

LEMMA VerifyInv ==
  ASSUME TargetIsToken, GraphedInv, Verify
  PROVE  GraphedInv' /\ G!Extend
<1> DEFINE fed == Written(tcache, <<pending>> \o prop, clen - 1)
<1> DEFINE pred == [i \in 1 .. Gamma + 1 |-> Target(Attended(fed, clen - 2 + i))]
<1> DEFINE a == Accepted(prop, pred)
<1> DEFINE x == committed \o prop
<1>1. pc = "verify" /\ pc # "done" /\ kind = "spec" /\ Len(prop) = Gamma
  <2>1. pc = "verify" /\ kind \in {"spec", "no_spec"} /\ PhaseOK
    BY DEF Verify, GraphedInv, TypeOK
  <2> QED
    BY <2>1 DEF PhaseOK
<1>2. PICK n \in Nat : n = clen /\ n >= 2
  BY <1>1, UnderWay
<1>3. Gamma \in Nat \ {0}
  BY DecodingAssumption
<1>4. /\ tcache' = fed /\ committed' = committed \o Append(SubSeq(prop, 1, a), pred[a + 1])
      /\ dcache' = (IF a = Gamma THEN Written(dcache, <<Last(prop)>>, clen - 1 + Gamma) ELSE dcache)
      /\ clen' = clen + a + 1 /\ pending' = pred[a + 1] /\ prop' = << >> /\ pc' = Again("propose")
      /\ UNCHANGED <<kind, start>>
  BY DEF Verify, Commits, FeedLast, Rewind
<1>5. a \in 0 .. Gamma /\ \A j \in 1 .. a : pred[j] = prop[j]
  <2> HIDE DEF pred
  <2> QED
    BY AcceptedIs
<1>6. fed \in Caches /\ Holds(fed, x, clen + Gamma)
  BY <1>1, TargetPredicts
<1>7. ASSUME NEW i \in 1 .. Gamma + 1
      PROVE  pred[i] = Target(Placed(SubSeq(x, 1, clen - 1 + i))) /\ pred[i] \in Tokens
  <2>1. i \in 1 .. Len(prop) + 1
    BY <1>1
  <2> HIDE DEF fed, x
  <2>2. pred[i] = Target(Attended(fed, clen - 2 + i))
    OBVIOUS
  <2> HIDE DEF pred
  <2> USE DEF fed, x
  <2> QED
    BY <1>1, <2>1, <2>2, TargetPredicts
<1> HIDE DEF fed, pred, a, x
<1>8. PICK q \in 0 .. Gamma : q = a
  BY <1>5
<1>9. PICK t \in Tokens : t = pred[q + 1] /\ t = Target(Placed(SubSeq(x, 1, clen + q)))
  <2>1. q + 1 \in 1 .. Gamma + 1 /\ clen - 1 + (q + 1) = clen + q
    BY <1>2, <1>3
  <2> QED
    BY <1>7, <2>1
<1>10. \A j \in 1 .. q : prop[j] = Target(Placed(SubSeq(x, 1, clen - 1 + j)))
  <2> SUFFICES ASSUME NEW j \in 1 .. q
               PROVE  prop[j] = Target(Placed(SubSeq(x, 1, clen - 1 + j)))
    OBVIOUS
  <2>1. j \in 1 .. Gamma + 1 /\ j \in 1 .. a
    BY <1>3, <1>8
  <2> QED
    BY <1>5, <1>7, <2>1
<1>11. committed' = committed \o Append(SubSeq(prop, 1, q), t)
  BY <1>4, <1>8, <1>9
<1>12. /\ committed' \in Seq(Tokens) /\ Len(committed') = clen + q + 1 /\ Last(committed') = t
       /\ Alike(committed', x, clen + q)
       /\ G!Extend
  <2>1. q \in 0 .. Len(prop)
    BY <1>1
  <2>2. start' = start
    BY <1>4
  <2> QED
    BY <1>1, <1>9, <1>10, <1>11, <2>1, <2>2, CommitIs DEF x
<1>13. clen' = clen + q + 1 /\ pending' = t
  BY <1>4, <1>8, <1>9
<1>14. RoomLeft' /\ start \in 2 .. Len(committed')
  <2>1. q \in Nat /\ start' = start /\ pc' = Again("propose")
    BY <1>3, <1>4
  <2> QED
    BY <1>1, <1>12, <1>13, <2>1, CommitKeepsRoom
<1>15. dcache' \in Caches /\ Holds(dcache', x, clen + q)
  <2>1. PICK k \in Int : k = n + q
    BY <1>2
  <2>2. Alike(x, x, k)
    BY DEF Alike
  <2>3. CASE q = Gamma
    <3>1. prop # << >> /\ clen + Len(prop) <= MaxCache
      BY <1>1, <1>3, UnderWay
    <3>2. /\ Written(dcache, <<Last(prop)>>, clen - 1 + Len(prop)) \in Caches
          /\ Holds(Written(dcache, <<Last(prop)>>, clen - 1 + Len(prop)), x, clen + Len(prop))
      BY <1>1, <3>1, DraftFed DEF x
    <3> QED
      BY <1>1, <1>4, <1>8, <2>3, <3>2
  <2>4. CASE q # Gamma
    <3>1. dcache' = dcache /\ dcache \in Caches
      BY <1>1, <1>4, <1>8, <2>4, UnderWay
    <3>2. PICK m \in Int : m = clen + Gamma - 1 /\ k <= m
      <4>1. n + Gamma - 1 \in Int /\ n + q <= n + Gamma - 1
        BY <1>3, <2>4
      <4> QED
        BY <1>2, <2>1, <4>1
    <3>3. Holds(dcache, x, m)
      BY <1>1, <3>2 DEF GraphedInv, x
    <3>4. Holds(dcache, x, k)
      BY <2>2, <3>2, <3>3, HeldPrefix
    <3> QED
      BY <1>2, <2>1, <3>1, <3>4
  <2> QED
    BY <2>3, <2>4
<1>16. PICK k \in Int : k = clen + q /\ k = clen' - 1
  <2>1. n + q \in Int /\ n + q = n + q + 1 - 1
    BY <1>2
  <2> QED
    BY <1>2, <1>13, <2>1
<1>17. Holds(dcache', committed', k)
  <2>1. k <= k /\ Holds(dcache', x, k) /\ Alike(committed', x, k)
    BY <1>12, <1>15, <1>16
  <2> QED
    BY <2>1, HeldPrefix
<1>18. Holds(tcache', committed', k)
  <2>1. PICK m \in Int : m = clen + Gamma /\ k <= m
    <3>1. n + Gamma \in Int /\ n + q <= n + Gamma
      BY <1>3
    <3> QED
      BY <1>2, <1>16, <3>1
  <2>2. Holds(tcache', x, m) /\ Alike(committed', x, k)
    BY <1>4, <1>6, <1>12, <1>16, <2>1
  <2> QED
    BY <2>1, <2>2, HeldPrefix
<1>19. TypeOK'
  <2>1. Len(prop') <= Gamma /\ prop' \in Seq(Tokens)
    BY <1>3, <1>4
  <2> QED
    BY <1>4, <1>6, <1>12, <1>13, <1>14, <1>15, <2>1 DEF GraphedInv, TypeOK, Again
<1>20. PhaseOK'
  BY <1>1, <1>3, <1>4 DEF PhaseOK, Again
<1>21. Holds(dcache', committed' \o prop', clen' + Len(prop') - 1)
  <2>1. committed' \o << >> = committed' /\ clen' + Len(<< >>) - 1 = k
    <3>1. PICK c \in Seq(Tokens) : c = committed'
      BY <1>12
    <3>2. c \o << >> = c
      OBVIOUS
    <3>3. PICK l \in Int : l = clen'
      BY <1>2, <1>13
    <3>4. l + Len(<< >>) - 1 = l - 1
      BY <3>3
    <3>5. k = l - 1
      BY <1>16, <3>3
    <3>6. clen' + Len(<< >>) - 1 = k
      BY <3>3, <3>4, <3>5
    <3> QED
      BY <3>1, <3>2, <3>6
  <2> QED
    BY <1>4, <1>17, <2>1
<1>22. Holds(tcache', committed', clen' - 1)
  BY <1>16, <1>18
<1> QED
  BY <1>12, <1>14, <1>19, <1>20, <1>21, <1>22 DEF GraphedInv

LEMMA NextInv ==
  ASSUME TargetIsToken, GraphedInv, [Next]_vars
  PROVE  GraphedInv' /\ [G!Next]_<<committed, start>>
<1>1. CASE PlainStep
  BY <1>1, PlainStepInv DEF G!Next
<1>2. CASE Propose
  BY <1>2, ProposeInv DEF Propose
<1>3. CASE Verify
  BY <1>3, VerifyInv DEF G!Next
<1>4. CASE NextPrompt
  BY <1>4, NextPromptInv DEF G!Next
<1>5. CASE UNCHANGED vars
  BY <1>5 DEF vars, GraphedInv, TypeOK, PhaseOK, RoomLeft
<1> QED
  BY <1>1, <1>2, <1>3, <1>4, <1>5 DEF Next

-----------------------------------------------------------------------------
(* Theorems. *)

(* The count clen, the pending token and the committed sequence agree after   *)
(* every step, and no step writes outside the slots a StaticCache has: n_new  *)
(* and gamma past the longest prompt are room enough.                         *)
THEOREM GraphedTyped ==
  ASSUME TargetIsToken
  PROVE  Spec => []TypeOK
<1>1. GraphedInv /\ [Next]_vars => GraphedInv'
  BY NextInv
<1>2. GraphedInv => TypeOK
  BY DEF GraphedInv
<1> QED
  BY <1>1, <1>2, InitInv, PTL DEF Spec

(* Each proposal of the draft is made from the committed tokens and the       *)
(* proposals before it, whatever rejected tokens and earlier requests left in *)
(* the slots (graphed_spec's rollback and its extra feed).                    *)
THEOREM DraftSafe ==
  ASSUME TargetIsToken
  PROVE  Spec => []DraftSeesCommitted
<1>1. GraphedInv /\ [Next]_vars => GraphedInv'
  BY NextInv
<1>2. GraphedInv => DraftSeesCommitted
  <2> SUFFICES ASSUME GraphedInv, prop # << >>
               PROVE  Attended(dcache, clen - 2 + Len(prop)) = Placed(committed \o Front(prop))
    BY DEF DraftSeesCommitted
  <2>1. kind = "spec" /\ pc # "done"
    BY DEF GraphedInv, TypeOK, PhaseOK
  <2>2. PICK n \in Nat : n = clen /\ n >= 2 /\ n = Len(committed)
    BY <2>1, UnderWay
  <2>3. prop \in Seq(Tokens) /\ committed \in Seq(Tokens)
    BY <2>1, UnderWay
  <2>4. PICK k \in Nat : k = Len(prop) /\ k >= 1
    BY <2>3
  <2>5. PICK x \in Seq(Tokens) : x = committed \o prop /\ Len(x) = n + k
    <3>1. /\ committed \o prop \in Seq(Tokens)
          /\ Len(committed \o prop) = Len(committed) + Len(prop)
      BY <2>3, JoinIs
    <3>2. Len(committed \o prop) = n + k
      BY <2>2, <2>4, <3>1
    <3> QED
      BY <3>1, <3>2
  <2>6. PICK m \in 0 .. Len(x) : m = n + (k - 1) /\ m = clen + Len(prop) - 1
                                  /\ m - 1 = clen - 2 + Len(prop)
    <3>1. /\ n + (k - 1) \in 0 .. n + k /\ n + (k - 1) = n + k - 1
          /\ n + (k - 1) - 1 = n - 2 + k
      BY <2>2, <2>4
    <3>2. clen + Len(prop) - 1 = n + k - 1 /\ clen - 2 + Len(prop) = n - 2 + k
      BY <2>2, <2>4
    <3>3. PICK m \in 0 .. n + k : m = n + (k - 1) /\ m = n + k - 1 /\ m - 1 = n - 2 + k
      BY <3>1
    <3>4. m \in 0 .. Len(x)
      BY <2>5, <3>3
    <3>5. m = clen + Len(prop) - 1 /\ m - 1 = clen - 2 + Len(prop)
      BY <3>2, <3>3
    <3> QED
      BY <3>3, <3>4, <3>5
  <2>7. Holds(dcache, x, m)
    BY <2>1, <2>5, <2>6 DEF GraphedInv
  <2>8. Attended(dcache, m - 1) = Placed(SubSeq(x, 1, m))
    BY <2>7, AttendedIs
  <2>9. SubSeq(x, 1, m) = committed \o Front(prop)
    <3>1. PICK f \in Seq(Tokens) : /\ f = Front(prop) /\ Len(f) = k - 1
                                   /\ \A j \in 1 .. k - 1 : f[j] = prop[j]
      <4>1. PICK y \in Seq(Tokens) : y = prop /\ Len(y) = k
        BY <2>3, <2>4
      <4>2. /\ SubSeq(y, 1, k - 1) \in Seq(Tokens) /\ Len(SubSeq(y, 1, k - 1)) = k - 1
            /\ \A j \in 1 .. k - 1 : SubSeq(y, 1, k - 1)[j] = y[j]
        BY <2>4, <4>1
      <4>3. Front(prop) = SubSeq(y, 1, k - 1)
        BY <2>4, <4>1 DEF Front
      <4> QED
        BY <4>1, <4>2, <4>3
    <3>2. PICK z : z = committed \o f
      OBVIOUS
    <3>3. z \in Seq(Tokens) /\ Len(z) = m /\ \A i \in 1 .. m : z[i] = x[i]
      <4>1. /\ z \in Seq(Tokens) /\ Len(z) = Len(committed) + Len(f)
            /\ \A i \in 1 .. Len(committed) : z[i] = committed[i]
            /\ \A j \in 1 .. Len(f) : z[Len(committed) + j] = f[j]
        BY <2>3, <3>2, JoinIs
      <4>2. /\ \A i \in 1 .. Len(committed) : x[i] = committed[i]
            /\ \A j \in 1 .. Len(prop) : x[Len(committed) + j] = prop[j]
        BY <2>3, <2>5, JoinIs
      <4>3. ASSUME NEW i \in 1 .. m PROVE z[i] = x[i]
        <5>1. CASE i \in 1 .. n
          BY <2>2, <4>1, <4>2, <5>1
        <5>2. CASE i \notin 1 .. n
          <6>1. i - n \in 1 .. k - 1 /\ i - n \in 1 .. k /\ n + (i - n) = i
            BY <2>6, <5>2
          <6>2. PICK j \in 1 .. k - 1 : j = i - n /\ j \in 1 .. k /\ n + j = i
            BY <6>1
          <6>3. z[n + j] = f[j]
            BY <2>2, <3>1, <4>1, <6>2
          <6>4. x[n + j] = prop[j]
            BY <2>2, <2>4, <4>2, <6>2
          <6>5. f[j] = prop[j]
            BY <3>1, <6>2
          <6> QED
            BY <6>2, <6>3, <6>4, <6>5
        <5> QED
          BY <5>1, <5>2
      <4> QED
        BY <2>2, <2>6, <3>1, <4>1, <4>3
    <3>4. SubSeq(x, 1, m) \in Seq(Tokens) /\ Len(SubSeq(x, 1, m)) = m
          /\ \A i \in 1 .. m : SubSeq(x, 1, m)[i] = x[i]
      OBVIOUS
    <3>5. SubSeq(x, 1, m) = z
      BY <3>3, <3>4, SeqEqual
    <3> QED
      BY <3>1, <3>2, <3>5
  <2> QED
    BY <2>6, <2>8, <2>9
<1> QED
  BY <1>1, <1>2, InitInv, PTL DEF Spec

(* Both loops of serve_kv_graph.py commit the target's greedy tokens: the     *)
(* loop with speculation is lossless, for any draft and over caches that are  *)
(* reused from request to request and never cleared.                          *)
THEOREM GraphedIsGreedy ==
  ASSUME TargetIsToken
  PROVE  Spec => CommitsGreedyTokens
<1>1. Init => G!Init
  BY DEF Init, G!Init, G!Begin
<1>2. GraphedInv /\ [Next]_vars => GraphedInv' /\ [G!Next]_<<committed, start>>
  BY NextInv
<1>3. GraphedInv /\ [Next]_vars => GraphedInv' /\ [G!Next]_(G!vars)
  BY <1>2 DEF G!vars
<1> QED
  BY <1>1, <1>3, InitInv, PTL DEF Spec, CommitsGreedyTokens, G!Spec
=============================================================================
