--------------------------- MODULE EagerBatchProofs ---------------------------
(***************************************************************************)
(* Theorems of EagerBatch, for any batch, prompts, routing and number of   *)
(* proposals: what the draft sees of a row is the row's own, every row     *)
(* decodes greedily, with caches and without, and no loop ends with a row  *)
(* unfinished.                                                             *)
(*                                                                         *)
(* The draft's cache plays no part in what is committed, and what is known *)
(* of it is its type alone: rollback hides a slot of it that was kept.     *)
(***************************************************************************)
EXTENDS EagerBatch, FiniteSetTheorems, WellFoundedInduction, SequenceTheorems, TLAPS

-----------------------------------------------------------------------------
(***************************************************************************)
(* The invariant.                                                          *)
(***************************************************************************)

(* The real slots among the first k of a cache hold, in order, the first m    *)
(* tokens of x at their positions.                                            *)
Holds(state, k, x, m) ==
  /\ \A i \in 1 .. k : state[i].real =>
       state[i].pos \in 0 .. m - 1 /\ state[i].tok = x[state[i].pos + 1]
  /\ \A p \in 0 .. m - 1 : \E i \in 1 .. k : state[i].real /\ state[i].pos = p
  /\ \A i, j \in 1 .. k :
       i < j /\ state[i].real /\ state[j].real => state[i].pos < state[j].pos

(* x is what row r has decoded: a row that has finished decodes on, and what  *)
(* it decodes then is committed nowhere but still fills its cache.            *)
Decodes(r, x) ==
  /\ x \in Seq(Tokens) /\ Len(x) >= 1
  /\ r \in Receivers => x = committed[r]
  /\ ~Cached => rows[r] = x
  /\ Cached => /\ real_len[r] = Len(x) /\ pending[r] = x[Len(x)]
               /\ Holds(tstate[r], Len(tstate[r]), x, Len(x) - 1)

RowsDecode == \A r \in Rows : \E x \in Seq(Tokens) : Decodes(r, x)

(* The rows propose in step, in the loop with caches only. *)
InStep ==
  /\ pc = "iterate" => \E k \in 0 .. Gamma - 1 : \A r \in Rows : Len(prop[r]) = k
  /\ pc = "verify" => Cached /\ \A r \in Rows : Len(prop[r]) = Gamma

(* An iteration commits a token at least, so a row that has not finished has  *)
(* one for each, and the loops end before their last iteration.               *)
Progress ==
  /\ \A r \in Rows : start[r] <= Len(committed[r])
  /\ \A r \in Rows : finish[r] = 0 => it <= Len(committed[r]) - start[r]
  /\ pc # "done" => it < (IF loop = "run_strategy" THEN Iters ELSE OutTokens)
  /\ pc = "done" /\ loop # "run_strategy" => \A r \in Rows : finish[r] # 0

(* What the draft saw is known of the loops that record it. *)
Recorded ==
  /\ DraftSeesItsTenant
  /\ Cached \/ strategy = "no_spec" => seen = [r \in Rows |-> << >>]

EagerInv == TypeOK /\ RowsDecode /\ InStep /\ Progress /\ Recorded

-----------------------------------------------------------------------------
(***************************************************************************)
(* Numbers.                                                                *)
(***************************************************************************)

(* Induction, for a set of numbers. *)
LEMMA Induction ==
  ASSUME NEW S \in SUBSET Nat, 0 \in S, \A n \in S : n + 1 \in S
  PROVE  \A n \in Nat : n \in S
<1> DEFINE T == Nat \ S
           R == OpToRel(<, Nat)
<1>1. SUFFICES ASSUME T # {} PROVE FALSE
  OBVIOUS
<1>2. \A x, y \in Nat : y < x => <<y, x>> \in R
  BY DEF OpToRel
<1>3. PICK x \in T : \A y \in T : <<y, x>> \notin R
  <2>1. IsWellFoundedOn(R, Nat) /\ T \in SUBSET Nat
    BY NatLessThanWellFounded
  <2> HIDE DEF R, T
  <2> QED
    BY <1>1, <2>1, WFMin
<1> HIDE DEF R
<1>4. x # 0 /\ x - 1 \in Nat /\ x - 1 < x
  OBVIOUS
<1>5. x - 1 \in S
  BY <1>2, <1>3, <1>4
<1> QED
  BY <1>4, <1>5

(* A finite set of numbers has a greatest element: a minimal set of the form  *)
(* {y : y >= x}.                                                              *)
LEMMA GreatestNumber ==
  ASSUME NEW T \in SUBSET Nat, T # {}, IsFiniteSet(T)
  PROVE  Max(T) \in T /\ \A y \in T : y <= Max(T)
<1> DEFINE Above(x) == {y \in T : y >= x}
<1> DEFINE F == {Above(x) : x \in T}
<1>1. \A x \in T : Above(x) \in FiniteSubsetsOf(T)
  BY FS_Subset DEF FiniteSubsetsOf
<1>2. F \subseteq FiniteSubsetsOf(T) /\ F # {}
  BY <1>1
<1>3. PICK S \in F : \A U \in F : <<U, S>> \notin StrictSubsetOrdering(T)
  <2> HIDE DEF F
  <2>1. IsWellFoundedOn(StrictSubsetOrdering(T), FiniteSubsetsOf(T))
    BY FS_StrictSubsetOrderingWellFounded
  <2> QED
    BY <1>2, <2>1, WFMin
<1>4. PICK x \in T : S = Above(x)
  BY <1>3
<1>5. ASSUME NEW y \in T, ~(y <= x) PROVE FALSE
  <2>1. y > x /\ x \in Nat /\ y \in Nat
    BY <1>5
  <2>2. (\A z \in Above(y) : z \in Above(x)) /\ x \in Above(x) /\ x \notin Above(y)
    BY <2>1
  <2>3. Above(y) \in F
    OBVIOUS
  <2>4. <<Above(y), Above(x)>> \in StrictSubsetOrdering(T)
    <3>1. Above(y) \in FiniteSubsetsOf(T) /\ Above(x) \in FiniteSubsetsOf(T)
      BY <1>1
    <3> HIDE DEF Above
    <3> QED
      BY <2>2, <3>1 DEF StrictSubsetOrdering, FiniteSubsetsOf
  <2> QED
    BY <1>3, <1>4, <2>3, <2>4
<1>6. x \in T /\ \A y \in T : x >= y
  BY <1>5
<1>7. Max(T) \in T /\ \A y \in T : Max(T) >= y
  BY <1>6 DEF Max
<1> QED
  BY <1>7

(* A set of numbers up to n has a greatest. *)
LEMMA GreatestBelow ==
  ASSUME NEW n \in Nat, NEW T \in SUBSET (0 .. n), T # {}
  PROVE  \E x \in T : \A z \in T : z <= x
<1> DEFINE U == {n - z : z \in T}
<1>1. U \in SUBSET Nat /\ U # {}
  <2>1. \A z \in T : n - z \in Nat
    OBVIOUS
  <2>2. PICK z \in T : TRUE
    OBVIOUS
  <2> QED
    BY <2>1, <2>2
<1>2. PICK u \in U : \A z \in U : <<z, u>> \notin OpToRel(<, Nat)
  <2> HIDE DEF U
  <2> QED
    BY <1>1, NatLessThanWellFounded, WFMin
<1>3. \A z \in U : ~(z < u)
  <2> HIDE DEF U
  <2> QED
    BY <1>1, <1>2 DEF OpToRel
<1>4. PICK x \in T : u = n - x
  BY <1>2
<1>5. ASSUME NEW z \in T PROVE z <= x
  <2>1. ~(n - z < n - x)
    BY <1>3, <1>4
  <2> QED
    BY <2>1
<1> QED
  BY <1>5


-----------------------------------------------------------------------------
(***************************************************************************)
(* What a query attends.                                                   *)
(***************************************************************************)

(* What a slot gives the queries that attend it. *)
Entry(slot) == [tok |-> slot.tok, pos |-> slot.pos]

(* f[k] is what the real slots among the first k hold. *)
IsUpto(f, state, q) ==
  /\ f \in [0 .. q -> Seq(Entries)]
  /\ \A k \in 0 .. q : f[k] = IF k = 0 THEN << >>
                              ELSE IF state[k].real THEN Append(f[k - 1], Entry(state[k]))
                              ELSE f[k - 1]

(* What a slot of a cache is. *)
LEMMA SlotIs ==
  ASSUME NEW state \in Seq(SlotType), NEW i \in 1 .. Len(state)
  PROVE  /\ state[i].tok \in Tokens /\ state[i].pos \in Nat /\ state[i].real \in BOOLEAN
         /\ Entry(state[i]) \in Entries
<1>1. state[i] \in SlotType
  OBVIOUS
<1>2. state[i].tok \in Tokens /\ state[i].pos \in Nat /\ state[i].real \in BOOLEAN
  BY <1>1 DEF SlotType
<1> QED
  BY <1>2 DEF Entry, Entries

(* The recursion is over numbers, so there is such a function. *)
LEMMA UptoExists ==
  ASSUME NEW state \in Seq(SlotType), NEW q \in 0 .. Len(state)
  PROVE  \E f : IsUpto(f, state, q)
<1> DEFINE N == {m \in Nat : m <= q => \E f : IsUpto(f, state, m)}
<1>1. 0 \in N
  <2> DEFINE f == [k \in 0 .. 0 |-> << >>]
  <2>1. f \in [0 .. 0 -> Seq(Entries)] /\ \A k \in 0 .. 0 : k = 0 /\ f[k] = << >>
    OBVIOUS
  <2> HIDE DEF f
  <2>2. IsUpto(f, state, 0)
    BY <2>1 DEF IsUpto
  <2> QED
    BY <2>2
<1>2. ASSUME NEW m \in N PROVE m + 1 \in N
  <2> SUFFICES ASSUME m + 1 <= q PROVE \E f : IsUpto(f, state, m + 1)
    OBVIOUS
  <2>1. PICK f : IsUpto(f, state, m)
    OBVIOUS
  <2>2. /\ f \in [0 .. m -> Seq(Entries)] /\ m \in Nat
        /\ \A k \in 0 .. m : f[k] = IF k = 0 THEN << >>
                                    ELSE IF state[k].real THEN Append(f[k - 1], Entry(state[k]))
                                    ELSE f[k - 1]
    BY <2>1 DEF IsUpto
  <2> DEFINE next == IF state[m + 1].real THEN Append(f[m], Entry(state[m + 1])) ELSE f[m]
             h == [k \in 0 .. m + 1 |-> IF k = m + 1 THEN next ELSE f[k]]
  <2>3. next \in Seq(Entries)
    <3>1. f[m] \in Seq(Entries) /\ m + 1 \in 1 .. Len(state)
      BY <2>2
    <3>2. Entry(state[m + 1]) \in Entries
      BY <3>1, SlotIs
    <3> QED
      BY <3>1, <3>2
  <2>4. /\ h \in [0 .. m + 1 -> Seq(Entries)] /\ h[m + 1] = next
        /\ \A k \in 0 .. m : h[k] = f[k]
    <3> HIDE DEF next
    <3> QED
      BY <2>2, <2>3
  <2> HIDE DEF h
  <2>5. ASSUME NEW k \in 0 .. m + 1
        PROVE  h[k] = IF k = 0 THEN << >>
                      ELSE IF state[k].real THEN Append(h[k - 1], Entry(state[k])) ELSE h[k - 1]
    <3>1. CASE k = m + 1
      <4>1. k # 0 /\ k - 1 = m /\ h[m] = f[m]
        BY <2>2, <2>4, <3>1
      <4> QED
        BY <2>4, <3>1, <4>1
    <3>2. CASE k # m + 1
      <4>1. k \in 0 .. m /\ (k # 0 => k - 1 \in 0 .. m)
        BY <2>2, <3>2
      <4> QED
        BY <2>2, <2>4, <4>1
    <3> QED
      BY <3>1, <3>2
  <2>6. IsUpto(h, state, m + 1)
    BY <2>4, <2>5 DEF IsUpto
  <2> QED
    BY <2>6
<1>3. N \in SUBSET Nat
  OBVIOUS
<1> HIDE DEF N
<1>4. q \in N
  BY <1>1, <1>2, <1>3, Induction
<1> QED
  BY <1>4 DEF N

(* And Attended is its last value. *)
LEMMA AttendedUpto ==
  ASSUME NEW state \in Seq(SlotType), NEW q \in 0 .. Len(state)
  PROVE  \E f : IsUpto(f, state, q) /\ Attended(state, q) = f[q]
<1> DEFINE Upto(f) == [k \in 0 .. q |->
             IF k = 0 THEN << >>
             ELSE IF state[k].real
               THEN Append(f[k - 1], [tok |-> state[k].tok, pos |-> state[k].pos])
               ELSE f[k - 1]]
           upto[k \in 0 .. q] ==
             IF k = 0 THEN << >>
             ELSE IF state[k].real
               THEN Append(upto[k - 1], [tok |-> state[k].tok, pos |-> state[k].pos])
               ELSE upto[k - 1]
<1>1. \E f : f = Upto(f)
  <2>1. PICK f : IsUpto(f, state, q)
    BY UptoExists
  <2>2. f = Upto(f)
    BY <2>1 DEF IsUpto, Entry
  <2> HIDE DEF Upto
  <2> QED
    BY <2>2
<1>2. upto = Upto(upto)
  BY <1>1, Zenon
<1>3. Attended(state, q) = upto[q]
  BY DEF Attended
<1>4. /\ upto = [k \in 0 .. q |-> upto[k]]
      /\ \A k \in 0 .. q : upto[k] = IF k = 0 THEN << >>
           ELSE IF state[k].real THEN Append(upto[k - 1], Entry(state[k])) ELSE upto[k - 1]
  BY <1>2 DEF upto, Entry
<1> HIDE DEF upto
<1> DEFINE N == {m \in Nat : m <= q => upto[m] \in Seq(Entries)}
<1>5. 0 \in N
  BY <1>4
<1>6. ASSUME NEW m \in N PROVE m + 1 \in N
  <2> SUFFICES ASSUME m + 1 <= q PROVE upto[m + 1] \in Seq(Entries)
    OBVIOUS
  <2>1. /\ m \in Nat /\ m + 1 \in 0 .. q /\ m + 1 # 0 /\ (m + 1) - 1 = m
        /\ upto[m] \in Seq(Entries) /\ m + 1 \in 1 .. Len(state)
    OBVIOUS
  <2>2. upto[m + 1] = IF state[m + 1].real THEN Append(upto[m], Entry(state[m + 1])) ELSE upto[m]
    BY <1>4, <2>1
  <2>3. Entry(state[m + 1]) \in Entries
    BY <2>1, SlotIs
  <2> QED
    BY <2>1, <2>2, <2>3
<1>7. N \in SUBSET Nat
  OBVIOUS
<1>8. \A m \in Nat : m \in N
  <2> HIDE DEF N
  <2> QED
    BY <1>5, <1>6, <1>7, Induction
<1>9. \A m \in 0 .. q : upto[m] \in Seq(Entries)
  BY <1>8
<1>10. upto \in [0 .. q -> Seq(Entries)]
  <2> HIDE DEF N
  <2> QED
    BY <1>4, <1>9
<1> QED
  BY <1>3, <1>4, <1>10 DEF IsUpto

(* Without its last slot a cache holds as much, or a token less. *)
LEMMA HoldsOneLess ==
  ASSUME NEW state \in Seq(SlotType), NEW k \in Nat, k + 1 <= Len(state),
         NEW x, NEW m \in Nat, Holds(state, k + 1, x, m)
  PROVE  IF state[k + 1].real
           THEN /\ m >= 1 /\ Holds(state, k, x, m - 1)
                /\ state[k + 1].pos = m - 1 /\ state[k + 1].tok = x[m]
           ELSE Holds(state, k, x, m)
<1> DEFINE s == state[k + 1]
<1>1. k + 1 \in 1 .. k + 1 /\ \A i \in 1 .. k : i \in 1 .. k + 1 /\ i < k + 1
  OBVIOUS
<1>2. \A i \in 1 .. k + 1 : state[i].pos \in Nat
  <2>1. \A i \in 1 .. k + 1 : i \in 1 .. Len(state)
    OBVIOUS
  <2> QED
    BY <2>1, SlotIs
<1>3. CASE ~s.real
  <2>1. ASSUME NEW p \in 0 .. m - 1 PROVE \E i \in 1 .. k : state[i].real /\ state[i].pos = p
    <3>1. PICK i \in 1 .. k + 1 : state[i].real /\ state[i].pos = p
      BY DEF Holds
    <3>2. i # k + 1
      BY <1>3, <3>1
    <3>3. i \in 1 .. k
      BY <3>2
    <3> QED
      BY <3>1, <3>3
  <2> QED
    BY <1>1, <1>3, <2>1 DEF Holds
<1>4. CASE s.real
  <2>1. PICK p \in 0 .. m - 1 : p = s.pos /\ s.tok = x[p + 1]
    BY <1>1, <1>4 DEF Holds
  <2>2. \A i \in 1 .. k : state[i].real => state[i].pos < p
    BY <1>1, <1>4, <2>1 DEF Holds
  <2>3. p = m - 1
    <3> SUFFICES ASSUME p < m - 1 PROVE FALSE
      BY <2>1
    <3>1. p + 1 \in 0 .. m - 1
      OBVIOUS
    <3>2. PICK i \in 1 .. k + 1 : state[i].real /\ state[i].pos = p + 1
      BY <3>1 DEF Holds
    <3>3. CASE i = k + 1
      BY <2>1, <3>2, <3>3
    <3>4. CASE i # k + 1
      <4>1. i \in 1 .. k
        BY <3>4
      <4> QED
        BY <2>2, <3>2, <4>1
    <3> QED
      BY <3>3, <3>4
  <2>4. ASSUME NEW i \in 1 .. k, state[i].real
        PROVE  state[i].pos \in 0 .. (m - 1) - 1 /\ state[i].tok = x[state[i].pos + 1]
    <3>1. state[i].pos < m - 1 /\ state[i].pos \in Nat
      BY <1>1, <1>2, <2>2, <2>3, <2>4
    <3>2. state[i].tok = x[state[i].pos + 1]
      BY <1>1, <2>4 DEF Holds
    <3> QED
      BY <3>1, <3>2
  <2>5. ASSUME NEW o \in 0 .. (m - 1) - 1 PROVE \E i \in 1 .. k : state[i].real /\ state[i].pos = o
    <3>1. o \in 0 .. m - 1 /\ o # p
      BY <2>3
    <3>2. PICK i \in 1 .. k + 1 : state[i].real /\ state[i].pos = o
      BY <3>1 DEF Holds
    <3>3. i # k + 1
      BY <2>1, <3>1, <3>2
    <3>4. i \in 1 .. k
      BY <3>3
    <3> QED
      BY <3>2, <3>4
  <2>6. Holds(state, k, x, m - 1)
    BY <1>1, <2>4, <2>5 DEF Holds
  <2> QED
    BY <1>4, <2>1, <2>3, <2>6
<1> QED
  BY <1>3, <1>4

(* A query sees the tokens that the slots up to its own hold. *)
LEMMA AttendedIs ==
  ASSUME NEW state \in Seq(SlotType), NEW q \in 0 .. Len(state),
         NEW x \in Seq(Tokens), NEW m \in 0 .. Len(x), Holds(state, q, x, m)
  PROVE  /\ Attended(state, q) = Placed(SubSeq(x, 1, m))
         /\ Attended(state, q) \in Seq(Entries)
<1>1. PICK f : IsUpto(f, state, q) /\ Attended(state, q) = f[q]
  BY AttendedUpto
<1>2. /\ f \in [0 .. q -> Seq(Entries)]
      /\ \A k \in 0 .. q : f[k] = IF k = 0 THEN << >>
                                  ELSE IF state[k].real THEN Append(f[k - 1], Entry(state[k]))
                                  ELSE f[k - 1]
  BY <1>1 DEF IsUpto
<1> DEFINE Sees(k) == \A n \in 0 .. Len(x) : Holds(state, k, x, n) => f[k] = Placed(SubSeq(x, 1, n))
           N == {k \in Nat : k <= q => Sees(k)}
<1>3. 0 \in N
  <2> SUFFICES ASSUME NEW n \in 0 .. Len(x), Holds(state, 0, x, n)
               PROVE  f[0] = Placed(SubSeq(x, 1, n))
    OBVIOUS
  <2>1. n = 0
    <3> SUFFICES ASSUME n # 0 PROVE FALSE
      OBVIOUS
    <3>1. 0 \in 0 .. n - 1 /\ 1 .. 0 = {}
      OBVIOUS
    <3> QED
      BY <3>1 DEF Holds
  <2>2. f[0] = << >>
    BY <1>2
  <2>3. SubSeq(x, 1, 0) = << >>
    OBVIOUS
  <2> QED
    BY <2>1, <2>2, <2>3 DEF Placed
<1>4. ASSUME NEW k \in N PROVE k + 1 \in N
  <2> SUFFICES ASSUME k + 1 <= q, NEW n \in 0 .. Len(x), Holds(state, k + 1, x, n)
               PROVE  f[k + 1] = Placed(SubSeq(x, 1, n))
    OBVIOUS
  <2>1. k \in Nat /\ k + 1 \in 0 .. q /\ k + 1 # 0 /\ (k + 1) - 1 = k /\ Sees(k) /\ k + 1 <= Len(state)
    OBVIOUS
  <2>2. f[k + 1] = IF state[k + 1].real THEN Append(f[k], Entry(state[k + 1])) ELSE f[k]
    BY <1>2, <2>1
  <2>3. n \in Nat
    OBVIOUS
  <2>4. CASE ~state[k + 1].real
    <3>1. Holds(state, k, x, n)
      BY <2>1, <2>3, <2>4, HoldsOneLess
    <3> QED
      BY <2>1, <2>2, <2>4, <3>1
  <2>5. CASE state[k + 1].real
    <3>1. /\ n >= 1 /\ Holds(state, k, x, n - 1)
          /\ state[k + 1].pos = n - 1 /\ state[k + 1].tok = x[n]
      BY <2>1, <2>3, <2>5, HoldsOneLess
    <3>2. PICK b \in 0 .. Len(x) : b = n - 1 /\ n = b + 1
      BY <3>1
    <3>3. f[k] = Placed(SubSeq(x, 1, b))
      BY <2>1, <3>1, <3>2
    <3>4. Entry(state[k + 1]) = [tok |-> x[n], pos |-> b]
      BY <3>1, <3>2 DEF Entry
    <3>5. /\ Len(SubSeq(x, 1, b)) = b /\ Len(SubSeq(x, 1, n)) = b + 1
          /\ \A i \in 1 .. b : SubSeq(x, 1, b)[i] = x[i]
          /\ \A i \in 1 .. b + 1 : SubSeq(x, 1, n)[i] = x[i]
      BY <3>2
    <3>6. Placed(SubSeq(x, 1, b)) = [i \in 1 .. b |-> [tok |-> x[i], pos |-> i - 1]]
      BY <3>5 DEF Placed
    <3>7. Placed(SubSeq(x, 1, n)) = [i \in 1 .. b + 1 |-> [tok |-> x[i], pos |-> i - 1]]
      BY <3>5 DEF Placed
    <3>8. \A g, e : g = [i \in 1 .. b |-> [tok |-> x[i], pos |-> i - 1]] /\ e = [tok |-> x[b + 1], pos |-> b]
            => Append(g, e) = [i \in 1 .. b + 1 |-> [tok |-> x[i], pos |-> i - 1]]
      OBVIOUS
    <3>9. PICK g, e : g = f[k] /\ e = Entry(state[k + 1])
      OBVIOUS
    <3>10. g = [i \in 1 .. b |-> [tok |-> x[i], pos |-> i - 1]]
      BY <3>3, <3>6, <3>9
    <3>11. e = [tok |-> x[b + 1], pos |-> b]
      BY <3>2, <3>4, <3>9
    <3>12. Append(g, e) = [i \in 1 .. b + 1 |-> [tok |-> x[i], pos |-> i - 1]]
      BY <3>8, <3>10, <3>11
    <3>13. Append(g, e) = Placed(SubSeq(x, 1, n))
      BY <3>7, <3>12
    <3> QED
      BY <2>2, <2>5, <3>9, <3>13
  <2> QED
    BY <2>4, <2>5
<1>5. N \in SUBSET Nat
  OBVIOUS
<1> HIDE DEF N
<1>6. q \in N
  BY <1>3, <1>4, <1>5, Induction, SMTT(30)
<1>7. Sees(q)
  BY <1>6 DEF N
<1>8. f[q] \in Seq(Entries)
  BY <1>2
<1> QED
  BY <1>1, <1>7, <1>8

-----------------------------------------------------------------------------
(***************************************************************************)
(* What feeding and masking do to a cache.                                 *)
(***************************************************************************)

(* What c followed by w is. *)
LEMMA JoinIs ==
  ASSUME NEW T, NEW c \in Seq(T), NEW w \in Seq(T), NEW x, x = c \o w
  PROVE  /\ x \in Seq(T) /\ Len(x) = Len(c) + Len(w)
         /\ \A i \in 1 .. Len(c) : x[i] = c[i]
         /\ \A j \in 1 .. Len(w) : x[Len(c) + j] = w[j]
<1>1. PICK n \in Nat, b \in Nat : n = Len(c) /\ b = Len(w)
  OBVIOUS
<1>2. /\ x \in Seq(T) /\ Len(x) = n + b
      /\ \A i \in 1 .. n + b : x[i] = IF i <= n THEN c[i] ELSE w[i - n]
  BY <1>1, ConcatProperties
<1>3. ASSUME NEW j \in 1 .. b PROVE x[n + j] = w[j]
  <2>1. n + j \in 1 .. n + b /\ ~(n + j <= n) /\ (n + j) - n = j
    OBVIOUS
  <2> QED
    BY <1>2, <2>1
<1>4. \A i \in 1 .. n : i \in 1 .. n + b /\ i <= n
  OBVIOUS
<1> QED
  BY <1>1, <1>2, <1>3, <1>4

(* fed is a cache of n slots and g more, with toks from position pos on. *)
IsFed(fed, state, n, toks, g, pos) ==
  /\ fed \in Seq(SlotType) /\ Len(fed) = n + g
  /\ \A i \in 1 .. n : fed[i] = state[i]
  /\ \A i \in 1 .. g : fed[n + i] = [tok |-> toks[i], pos |-> pos + i - 1, real |-> TRUE]

(* Fed is such a cache. *)
LEMMA FedIs ==
  ASSUME NEW state \in Seq(SlotType), NEW n, n = Len(state),
         NEW toks \in Seq(Tokens), NEW g, g = Len(toks), NEW pos \in Nat
  PROVE  IsFed(Fed(state, toks, pos), state, n, toks, g, pos)
<1> DEFINE more == [i \in 1 .. g |-> [tok |-> toks[i], pos |-> pos + i - 1, real |-> TRUE]]
<1>1. n \in Nat /\ g \in Nat
  OBVIOUS
<1>2. more \in [1 .. g -> SlotType]
  <2> SUFFICES ASSUME NEW i \in 1 .. g
               PROVE  [tok |-> toks[i], pos |-> pos + i - 1, real |-> TRUE] \in SlotType
    OBVIOUS
  <2>1. toks[i] \in Tokens /\ pos + i - 1 \in Nat
    BY <1>1
  <2> QED
    BY <2>1 DEF SlotType
<1>3. more \in Seq(SlotType) /\ Len(more) = g
  BY <1>1, <1>2
<1>4. Fed(state, toks, pos) = state \o more
  BY DEF Fed
<1>5. \A i \in 1 .. g : more[i] = [tok |-> toks[i], pos |-> pos + i - 1, real |-> TRUE]
  OBVIOUS
<1> HIDE DEF more
<1>6. PICK w \in Seq(SlotType) : w = more
  BY <1>3
<1>7. PICK fed : fed = state \o w
  OBVIOUS
<1>8. /\ fed \in Seq(SlotType) /\ Len(fed) = Len(state) + Len(w)
      /\ \A i \in 1 .. Len(state) : fed[i] = state[i]
      /\ \A i \in 1 .. Len(w) : fed[Len(state) + i] = w[i]
  BY <1>7, JoinIs
<1> QED
  BY <1>3, <1>4, <1>5, <1>6, <1>7, <1>8 DEF IsFed

(* Feeding what follows the tokens held makes a cache hold as many more. *)
LEMMA FedHolds ==
  ASSUME NEW state \in Seq(SlotType), NEW n, n = Len(state), NEW x, NEW m \in Nat,
         Holds(state, n, x, m), NEW toks, NEW g \in Nat,
         \A i \in 1 .. g : toks[i] = x[m + i],
         NEW fed, IsFed(fed, state, n, toks, g, m), NEW k \in 0 .. g
  PROVE  Holds(fed, n + k, x, m + k)
<1>1. n \in Nat /\ \A i \in 1 .. n : state[i].pos \in Nat
  BY SlotIs
<1>2. /\ \A i \in 1 .. n : fed[i] = state[i]
      /\ \A i \in 1 .. g : fed[n + i].tok = x[m + i] /\ fed[n + i].pos = m + i - 1 /\ fed[n + i].real
  <2>1. ASSUME NEW i \in 1 .. g
        PROVE  fed[n + i].tok = x[m + i] /\ fed[n + i].pos = m + i - 1 /\ fed[n + i].real
    <3>1. fed[n + i] = [tok |-> toks[i], pos |-> m + i - 1, real |-> TRUE]
      BY DEF IsFed
    <3>2. toks[i] = x[m + i]
      OBVIOUS
    <3> QED
      BY <3>1, <3>2
  <2> QED
    BY <2>1 DEF IsFed
<1>3. /\ \A i \in 1 .. n : state[i].real => state[i].pos \in 0 .. m - 1 /\ state[i].tok = x[state[i].pos + 1]
      /\ \A p \in 0 .. m - 1 : \E i \in 1 .. n : state[i].real /\ state[i].pos = p
      /\ \A i, j \in 1 .. n : i < j /\ state[i].real /\ state[j].real => state[i].pos < state[j].pos
  BY DEF Holds
<1>4. ASSUME NEW i \in 1 .. n + k
      PROVE  \/ i \in 1 .. n /\ fed[i] = state[i]
             \/ \E l \in 1 .. k : i = n + l /\ fed[i].pos = m + l - 1 /\ fed[i].tok = x[m + l] /\ fed[i].real
  <2>1. CASE i <= n
    BY <1>1, <1>2, <2>1
  <2>2. CASE i > n
    <3>1. PICK l \in 1 .. k : i = n + l /\ l \in 1 .. g
      <4>1. i - n \in 1 .. k /\ i = n + (i - n) /\ i - n \in 1 .. g
        BY <1>1, <2>2
      <4> QED
        BY <4>1
    <3> QED
      BY <1>2, <3>1
  <2> QED
    BY <1>1, <2>1, <2>2
<1>5. ASSUME NEW i \in 1 .. n + k, fed[i].real
      PROVE  fed[i].pos \in 0 .. (m + k) - 1 /\ fed[i].tok = x[fed[i].pos + 1]
  <2>1. CASE i \in 1 .. n /\ fed[i] = state[i]
    <3>1. fed[i].pos \in 0 .. m - 1 /\ fed[i].tok = x[fed[i].pos + 1]
      BY <1>3, <1>5, <2>1
    <3> QED
      BY <3>1
  <2>2. ASSUME NEW l \in 1 .. k, fed[i].pos = m + l - 1, fed[i].tok = x[m + l]
        PROVE  fed[i].pos \in 0 .. (m + k) - 1 /\ fed[i].tok = x[fed[i].pos + 1]
    <3>1. m + l - 1 \in 0 .. (m + k) - 1 /\ (m + l - 1) + 1 = m + l
      OBVIOUS
    <3> QED
      BY <2>2, <3>1
  <2> QED
    BY <1>4, <2>1, <2>2
<1>6. ASSUME NEW p \in 0 .. (m + k) - 1 PROVE \E i \in 1 .. n + k : fed[i].real /\ fed[i].pos = p
  <2>1. CASE p < m
    <3>1. p \in 0 .. m - 1
      BY <2>1
    <3>2. PICK i \in 1 .. n : state[i].real /\ state[i].pos = p
      BY <1>3, <3>1
    <3>3. i \in 1 .. n + k
      BY <1>1
    <3> QED
      BY <1>2, <3>2, <3>3
  <2>2. CASE p >= m
    <3>1. PICK l \in 1 .. g : l = p - m + 1 /\ n + l \in 1 .. n + k /\ m + l - 1 = p
      <4>1. p - m + 1 \in 1 .. g /\ n + (p - m + 1) \in 1 .. n + k /\ m + (p - m + 1) - 1 = p
        BY <1>1, <2>2
      <4> QED
        BY <4>1
    <3>2. fed[n + l].real /\ fed[n + l].pos = m + l - 1
      BY <1>2
    <3> QED
      BY <3>1, <3>2
  <2> QED
    BY <2>1, <2>2
<1>7. ASSUME NEW i \in 1 .. n + k, NEW j \in 1 .. n + k, i < j, fed[i].real, fed[j].real
      PROVE  fed[i].pos < fed[j].pos
  <2>1. CASE j \in 1 .. n /\ fed[j] = state[j]
    <3>1. i \in 1 .. n
      BY <1>1, <1>7, <2>1
    <3> QED
      BY <1>2, <1>3, <1>7, <2>1, <3>1
  <2>2. ASSUME NEW l \in 1 .. k, j = n + l, fed[j].pos = m + l - 1
        PROVE  fed[i].pos < fed[j].pos
    <3>1. CASE i \in 1 .. n /\ fed[i] = state[i]
      <4>1. fed[i].pos \in 0 .. m - 1
        BY <1>3, <1>7, <3>1
      <4> QED
        BY <2>2, <4>1, SMTT(30)
    <3>2. ASSUME NEW h \in 1 .. k, i = n + h, fed[i].pos = m + h - 1
          PROVE  fed[i].pos < fed[j].pos
      BY <1>1, <1>7, <2>2, <3>2
    <3> QED
      BY <1>4, <3>1, <3>2
  <2> QED
    BY <1>4, <2>1, <2>2
<1> QED
  BY <1>5, <1>6, <1>7 DEF Holds

(* w is a cache like state, but of its last g slots the first a are real. *)
IsMasked(w, state, b, g, a) ==
  /\ w \in Seq(SlotType) /\ Len(w) = b + g
  /\ \A i \in 1 .. b + g :
       /\ w[i].tok = state[i].tok /\ w[i].pos = state[i].pos
       /\ i <= b => w[i] = state[i]
       /\ i > b => (w[i].real <=> i <= b + a)

(* MaskTail is such a cache. *)
LEMMA MaskIs ==
  ASSUME NEW state \in Seq(SlotType), NEW b \in Nat, NEW g \in Nat, Len(state) = b + g, NEW a \in Nat
  PROVE  IsMasked(MaskTail(state, g, a), state, b, g, a)
<1> DEFINE slot(i) == IF i > b THEN [state[i] EXCEPT !.real = i <= b + a] ELSE state[i]
<1>1. PICK n \in Nat : n = b + g /\ n = Len(state) /\ n - g = b
  OBVIOUS
<1>2. MaskTail(state, g, a) = [i \in 1 .. n |-> slot(i)]
  BY <1>1 DEF MaskTail
<1>3. ASSUME NEW i \in 1 .. n
      PROVE  /\ slot(i) \in SlotType
             /\ slot(i).tok = state[i].tok /\ slot(i).pos = state[i].pos
             /\ i <= b => slot(i) = state[i]
             /\ i > b => (slot(i).real <=> i <= b + a)
  <2>1. state[i] \in SlotType
    BY <1>1
  <2>2. \A e \in SlotType : \A c \in BOOLEAN :
          /\ [e EXCEPT !.real = c] \in SlotType /\ [e EXCEPT !.real = c].tok = e.tok
          /\ [e EXCEPT !.real = c].pos = e.pos /\ [e EXCEPT !.real = c].real = c
    BY DEF SlotType
  <2>3. PICK c \in BOOLEAN : c <=> i <= b + a
    OBVIOUS
  <2>4. CASE i > b
    <3>1. slot(i) = [state[i] EXCEPT !.real = c]
      BY <2>3, <2>4
    <3> HIDE DEF slot
    <3> QED
      BY <2>1, <2>2, <2>3, <2>4, <3>1
  <2>5. CASE ~(i > b)
    BY <2>1, <2>5
  <2> QED
    BY <2>4, <2>5
<1> HIDE DEF slot
<1>4. PICK w : w = [i \in 1 .. n |-> slot(i)]
  OBVIOUS
<1>5. w \in Seq(SlotType) /\ Len(w) = n
  <2>1. w \in [1 .. n -> SlotType]
    BY <1>3, <1>4
  <2> QED
    BY <1>4, <2>1
<1>6. \A i \in 1 .. n : w[i] = slot(i)
  BY <1>4
<1> QED
  BY <1>1, <1>2, <1>3, <1>4, <1>5, <1>6 DEF IsMasked

(* The first a of the last g slots are kept and the rest hidden: the cache    *)
(* holds what it held up to there.                                            *)
LEMMA MaskHolds ==
  ASSUME NEW state \in Seq(SlotType), NEW b \in Nat, NEW g \in Nat, Len(state) = b + g,
         NEW a \in 0 .. g, \A i \in 1 .. a : state[b + i].real,
         NEW x, NEW m, Holds(state, b + a, x, m)
  PROVE  Holds(MaskTail(state, g, a), b + g, x, m)
<1>1. PICK w : w = MaskTail(state, g, a)
  OBVIOUS
<1>2. ASSUME NEW i \in 1 .. b + g
      PROVE  /\ w[i].tok = state[i].tok /\ w[i].pos = state[i].pos
             /\ i > b => (w[i].real <=> i <= b + a)
             /\ i <= b => w[i].real = state[i].real
  <2>1. IsMasked(w, state, b, g, a)
    BY <1>1, MaskIs
  <2> QED
    BY <2>1 DEF IsMasked
<1>3. ASSUME NEW i \in 1 .. b + g PROVE w[i].real => i \in 1 .. b + a /\ state[i].real
  <2> SUFFICES ASSUME w[i].real PROVE i \in 1 .. b + a /\ state[i].real
    OBVIOUS
  <2>1. CASE i > b
    <3>1. i <= b + a
      BY <1>2, <2>1
    <3>2. i - b \in 1 .. a /\ b + (i - b) = i
      BY <2>1, <3>1
    <3> QED
      BY <3>1, <3>2
  <2>2. CASE i <= b
    BY <1>2, <2>2
  <2> QED
    BY <2>1, <2>2
<1>4. ASSUME NEW i \in 1 .. b + a PROVE i \in 1 .. b + g /\ (state[i].real => w[i].real)
  <2>1. i \in 1 .. b + g
    OBVIOUS
  <2>2. CASE i > b
    BY <1>2, <2>1, <2>2
  <2>3. CASE i <= b
    BY <1>2, <2>1, <2>3
  <2> QED
    BY <2>1, <2>2, <2>3
<1>5. /\ \A i \in 1 .. b + a : state[i].real => state[i].pos \in 0 .. m - 1 /\ state[i].tok = x[state[i].pos + 1]
      /\ \A p \in 0 .. m - 1 : \E i \in 1 .. b + a : state[i].real /\ state[i].pos = p
      /\ \A i, j \in 1 .. b + a : i < j /\ state[i].real /\ state[j].real => state[i].pos < state[j].pos
  BY DEF Holds
<1>6. \A i \in 1 .. b + g : w[i].real => w[i].pos \in 0 .. m - 1 /\ w[i].tok = x[w[i].pos + 1]
  BY <1>2, <1>3, <1>5
<1>7. \A p \in 0 .. m - 1 : \E i \in 1 .. b + g : w[i].real /\ w[i].pos = p
  BY <1>2, <1>4, <1>5, Z3T(30)
<1>8. \A i, j \in 1 .. b + g : i < j /\ w[i].real /\ w[j].real => w[i].pos < w[j].pos
  BY <1>2, <1>3, <1>5
<1> QED
  BY <1>1, <1>6, <1>7, <1>8 DEF Holds

(* Prefill leaves a row with all but the last token of its prompt. *)
LEMMA PrefilledHolds ==
  ASSUME NEW prompt \in Seq(Tokens), NEW n, n = Len(prompt), n >= 1, NEW S \in Nat, n <= S
  PROVE  /\ Prefilled(prompt, S) \in Seq(SlotType)
         /\ Holds(Prefilled(prompt, S), Len(Prefilled(prompt, S)), prompt, n - 1)
<1> DEFINE pad == [i \in 1 .. S - n |-> [tok |-> EOS, pos |-> 0, real |-> FALSE]]
<1>1. n \in Nat /\ S - n \in Nat
  OBVIOUS
<1>2. pad \in Seq(SlotType) /\ Len(pad) = S - n
  <2>1. [tok |-> EOS, pos |-> 0, real |-> FALSE] \in SlotType
    BY RecomputeAssumption DEF SlotType
  <2>2. pad \in [1 .. S - n -> SlotType]
    BY <2>1
  <2>3. PICK l \in Nat : l = S - n
    BY <1>1
  <2> HIDE DEF pad
  <2> QED
    BY <2>2, <2>3
<1>3. \A i \in 1 .. S - n : ~pad[i].real
  OBVIOUS
<1>4. PICK toks \in Seq(Tokens) : toks = Front(prompt) /\ Len(toks) = n - 1 /\ \A i \in 1 .. n - 1 : toks[i] = prompt[i]
  <2>1. Front(prompt) \in Seq(Tokens) /\ Len(Front(prompt)) = n - 1
        /\ \A i \in 1 .. n - 1 : Front(prompt)[i] = prompt[i]
    BY <1>1 DEF Front
  <2> QED
    BY <2>1
<1>5. PICK g \in Nat : g = n - 1
  BY <1>1
<1>6. Prefilled(prompt, S) = Fed(pad, toks, 0)
  <2> DEFINE more == [i \in 1 .. Len(toks) |-> [tok |-> toks[i], pos |-> 0 + i - 1, real |-> TRUE]]
  <2>1. Fed(<< >>, toks, 0) = << >> \o more /\ Fed(pad, toks, 0) = pad \o more
    BY DEF Fed
  <2>2. << >> \o more = more
    <3>1. more \in [1 .. g -> SlotType]
      <4> SUFFICES ASSUME NEW i \in 1 .. g
                   PROVE  [tok |-> toks[i], pos |-> 0 + i - 1, real |-> TRUE] \in SlotType
        BY <1>4, <1>5
      <4>1. toks[i] \in Tokens /\ 0 + i - 1 \in Nat
        BY <1>4, <1>5
      <4> QED
        BY <4>1 DEF SlotType
    <3>2. more \in Seq(SlotType)
      BY <3>1
    <3> HIDE DEF more
    <3> QED
      BY <3>2
  <2>3. Prefilled(prompt, S) = pad \o Fed(<< >>, toks, 0)
    BY <1>4 DEF Prefilled
  <2> HIDE DEF pad
  <2> QED
    BY <2>1, <2>2, <2>3
<1> HIDE DEF pad
<1>7. PICK state \in Seq(SlotType), l \in Nat : state = pad /\ l = S - n /\ l = Len(state)
  BY <1>1, <1>2
<1>8. PICK fed : fed = Fed(state, toks, 0)
  OBVIOUS
<1>9. IsFed(fed, state, l, toks, g, 0)
  BY <1>4, <1>5, <1>7, <1>8, FedIs
<1>10. PICK m \in Nat : m = 0 /\ Holds(state, l, prompt, m)
  BY <1>3, <1>7 DEF Holds
<1>11. Holds(fed, l + g, prompt, g)
  <2>1. \A i \in 1 .. g : toks[i] = prompt[m + i]
    BY <1>4, <1>5, <1>10
  <2>2. IsFed(fed, state, l, toks, g, m) /\ g \in 0 .. g /\ m + g = g
    BY <1>9, <1>10
  <2>3. Holds(fed, l + g, prompt, m + g)
    BY <1>7, <1>10, <2>1, <2>2, FedHolds
  <2> QED
    BY <2>2, <2>3
<1>12. fed \in Seq(SlotType) /\ Len(fed) = l + g
  BY <1>9 DEF IsFed
<1> QED
  BY <1>5, <1>6, <1>7, <1>8, <1>11, <1>12

-----------------------------------------------------------------------------
(***************************************************************************)
(* What is accepted and committed.                                         *)
(***************************************************************************)

(* The target agrees with the first a proposals. *)
Agreed(a, p, pred) == a \in 0 .. Gamma /\ \A j \in 1 .. a : pred[j] = p[j]

(* There is a longest prefix the target agrees with. *)
LEMMA AcceptedIs ==
  ASSUME NEW p, NEW pred
  PROVE  Agreed(Accepted(p, pred), p, pred)
<1> DEFINE T == {a \in 0 .. Gamma : \A j \in 1 .. a : pred[j] = p[j]}
<1>1. Gamma \in Nat /\ T \in SUBSET (0 .. Gamma) /\ 0 \in T
  BY DecodingAssumption
<1>2. PICK a \in T : \A z \in T : z <= a
  <2> HIDE DEF T
  <2> QED
    BY <1>1, GreatestBelow
<1>3. a \in 0 .. Gamma /\ \A j \in 1 .. a : pred[j] = p[j]
  OBVIOUS
<1>4. a < Gamma => pred[a + 1] # p[a + 1]
  <2> SUFFICES ASSUME a < Gamma, pred[a + 1] = p[a + 1] PROVE FALSE
    OBVIOUS
  <2>1. a + 1 \in T
    BY <1>1, <1>3
  <2> QED
    BY <1>2, <1>3, <2>1
<1>5. \E z \in 0 .. Gamma : /\ \A j \in 1 .. z : pred[j] = p[j]
                            /\ z < Gamma => pred[z + 1] # p[z + 1]
  BY <1>3, <1>4
<1> QED
  BY <1>5 DEF Accepted, Agreed

(* d extends c by what the target decodes greedily. *)
Extends(d, c) ==
  /\ Len(d) > Len(c)
  /\ SubSeq(d, 1, Len(c)) = c
  /\ \A i \in Len(c) + 1 .. Len(d) : d[i] = Target(Placed(SubSeq(d, 1, i - 1)))

(* new is c, of length n, with a of the proposals prp and the token t. *)
IsCommit(new, c, prp, n, a, t) ==
  /\ new \in Seq(Tokens) /\ Len(new) = n + a + 1 /\ new[n + a + 1] = t
  /\ \A i \in 1 .. n + a : new[i] = (c \o prp)[i]
  /\ Extends(new, c)

(* An iteration that commits a proposals the target agrees with and a token   *)
(* of the target's own extends the row greedily.                              *)
LEMMA CommitIs ==
  ASSUME NEW c \in Seq(Tokens), NEW n, n = Len(c), NEW prp \in Seq(Tokens), NEW a \in 0 .. Len(prp),
         NEW t \in Tokens,
         t = Target(Placed(SubSeq(c \o prp, 1, n + a))),
         \A j \in 1 .. a : prp[j] = Target(Placed(SubSeq(c \o prp, 1, n - 1 + j))),
         NEW new, new = c \o Append(SubSeq(prp, 1, a), t)
  PROVE  IsCommit(new, c, prp, n, a, t)
<1>1. PICK x \in Seq(Tokens) : x = c \o prp
  BY JoinIs
<1>2. n \in Nat
  OBVIOUS
<1>3. PICK k \in Nat : k = Len(prp) /\ a <= k
  OBVIOUS
<1>4. /\ Len(x) = n + k
      /\ \A i \in 1 .. n : x[i] = c[i]
      /\ \A j \in 1 .. k : x[n + j] = prp[j]
  <2>1. /\ Len(x) = Len(c) + Len(prp)
        /\ \A i \in 1 .. Len(c) : x[i] = c[i]
        /\ \A j \in 1 .. Len(prp) : x[Len(c) + j] = prp[j]
    BY <1>1, JoinIs
  <2> QED
    BY <1>2, <1>3, <2>1
<1>5. PICK w \in Seq(Tokens) :
        /\ w = Append(SubSeq(prp, 1, a), t) /\ Len(w) = a + 1 /\ w[a + 1] = t
        /\ \A j \in 1 .. a : w[j] = prp[j]
  <2>1. /\ SubSeq(prp, 1, a) \in Seq(Tokens) /\ Len(SubSeq(prp, 1, a)) = a
        /\ \A j \in 1 .. a : SubSeq(prp, 1, a)[j] = prp[j]
    BY <1>3
  <2>2. PICK z \in Seq(Tokens) : z = SubSeq(prp, 1, a) /\ Len(z) = a
    BY <2>1
  <2>3. /\ Append(z, t) \in Seq(Tokens) /\ Len(Append(z, t)) = a + 1 /\ Append(z, t)[a + 1] = t
        /\ \A j \in 1 .. a : Append(z, t)[j] = z[j]
    BY <1>3, <2>2
  <2>4. PICK w \in Seq(Tokens) :
          /\ w = Append(z, t) /\ Len(w) = a + 1 /\ w[a + 1] = t
          /\ \A j \in 1 .. a : w[j] = z[j]
    BY <2>3
  <2>5. w = Append(SubSeq(prp, 1, a), t)
    BY <2>2, <2>4
  <2>6. \A j \in 1 .. a : w[j] = prp[j]
    BY <2>1, <2>2, <2>4
  <2> QED
    BY <2>4, <2>5, <2>6
<1>6. PICK d \in Seq(Tokens) :
        /\ d = new /\ Len(d) = n + (a + 1)
        /\ \A i \in 1 .. n : d[i] = c[i]
        /\ \A j \in 1 .. a + 1 : d[n + j] = w[j]
  <2>1. new = c \o w
    BY <1>5
  <2>2. /\ c \o w \in Seq(Tokens) /\ Len(c \o w) = n + (a + 1)
        /\ \A i \in 1 .. n : (c \o w)[i] = c[i]
        /\ \A j \in 1 .. a + 1 : (c \o w)[n + j] = w[j]
    <3>1. PICK b \in Nat : b = a + 1 /\ b = Len(w)
      BY <1>3, <1>5
    <3>2. /\ c \o w \in Seq(Tokens) /\ Len(c \o w) = n + b
          /\ \A i \in 1 .. n : (c \o w)[i] = c[i]
          /\ \A j \in 1 .. b : (c \o w)[n + j] = w[j]
      <4>1. n = Len(c) /\ b = Len(w)
        BY <1>2, <3>1
      <4> QED
        BY <4>1, JoinIs
    <3> QED
      BY <3>1, <3>2
  <2> QED
    BY <2>1, <2>2
<1>7. \A i \in 1 .. n + a : d[i] = x[i]
  <2> SUFFICES ASSUME NEW i \in 1 .. n + a PROVE d[i] = x[i]
    OBVIOUS
  <2>1. CASE i \in 1 .. n
    BY <1>4, <1>6, <2>1
  <2>2. CASE i \notin 1 .. n
    <3>1. PICK j \in 1 .. a : i = n + j
      <4>1. i - n \in 1 .. a /\ i = n + (i - n)
        BY <2>2
      <4> QED
        BY <4>1
    <3>2. j \in 1 .. k /\ j \in 1 .. a + 1
      BY <1>3
    <3> QED
      BY <1>4, <1>5, <1>6, <3>1, <3>2, SMTT(30)
  <2> QED
    BY <2>1, <2>2
<1>8. \A q \in 0 .. n + a : SubSeq(d, 1, q) = SubSeq(x, 1, q)
  BY <1>3, <1>4, <1>6, <1>7
<1>9. ASSUME NEW i \in n + 1 .. n + (a + 1)
       PROVE  d[i] = Target(Placed(SubSeq(d, 1, i - 1)))
  <2>1. PICK j \in 1 .. a + 1 : i = n + j
    <3>1. i - n \in 1 .. a + 1 /\ i = n + (i - n)
      OBVIOUS
    <3> QED
      BY <3>1
  <2>2. i - 1 \in 0 .. n + a /\ i - 1 = n - 1 + j
    BY <2>1
  <2>3. SubSeq(d, 1, i - 1) = SubSeq(x, 1, n - 1 + j)
    BY <1>8, <2>2
  <2>4. CASE j \in 1 .. a
    <3>1. prp[j] = Target(Placed(SubSeq(x, 1, n - 1 + j)))
      BY <1>1, <1>2, <2>4
    <3>2. d[i] = prp[j]
      BY <1>5, <1>6, <2>1, <2>4, SMTT(30)
    <3> QED
      BY <2>3, <3>1, <3>2
  <2>5. CASE j \notin 1 .. a
    <3>1. j = a + 1 /\ n - 1 + j = n + a
      BY <1>2, <2>5
    <3> QED
      BY <1>1, <1>2, <1>5, <1>6, <2>1, <2>3, <3>1
  <2> QED
    BY <2>4, <2>5
<1>10. Extends(new, c)
  <2>1. n + (a + 1) > n /\ SubSeq(d, 1, n) = c
    BY <1>2, <1>6
  <2> QED
    BY <1>2, <1>6, <1>9, <2>1 DEF Extends
<1>11. new[n + a + 1] = t /\ Len(new) = n + a + 1
  <2>1. a + 1 \in 1 .. a + 1 /\ n + (a + 1) = n + a + 1
    OBVIOUS
  <2> QED
    BY <1>5, <1>6, <2>1
<1> QED
  BY <1>1, <1>2, <1>6, <1>7, <1>10, <1>11 DEF IsCommit

(* An argmax over the vocabulary is a token of it. *)
TargetIsToken == \A view \in Seq(Entries) : Target(view) \in Tokens

(* new is c, of length n, and the token t the target decodes after it. *)
IsGrown(new, c, n, t) ==
  /\ new \in Seq(Tokens) /\ Len(new) = n + 1 /\ new[n + 1] = t
  /\ \A i \in 1 .. n : new[i] = c[i]
  /\ Extends(new, c)

(* A step that commits the target's next token. *)
LEMMA OneMore ==
  ASSUME NEW c \in Seq(Tokens), NEW n, n = Len(c), NEW t \in Tokens, t = Target(Placed(c))
  PROVE  IsGrown(Append(c, t), c, n, t)
<1>1. PICK d \in Seq(Tokens) : d = Append(c, t)
  <2>1. Append(c, t) \in Seq(Tokens)
    OBVIOUS
  <2> QED
    BY <2>1
<1>2. n \in Nat /\ Len(d) = n + 1 /\ d[n + 1] = t /\ \A i \in 1 .. n : d[i] = c[i]
  BY <1>1
<1>3. SubSeq(d, 1, n) = c
  BY <1>2
<1>4. ASSUME NEW i \in n + 1 .. n + 1 PROVE d[i] = Target(Placed(SubSeq(d, 1, i - 1)))
  <2>1. i = n + 1 /\ i - 1 = n
    BY <1>2
  <2> QED
    BY <1>2, <1>3, <2>1
<1>5. Extends(d, c)
  BY <1>2, <1>3, <1>4 DEF Extends
<1> QED
  BY <1>1, <1>2, <1>5 DEF IsGrown

(* new is what the target decodes greedily after x, a token at least. *)
Yields(x, new) ==
  /\ new \in Seq(Tokens) /\ Len(new) >= 1
  /\ x \o new \in Seq(Tokens) /\ Len(x \o new) = Len(x) + Len(new)
  /\ (x \o new)[Len(x) + Len(new)] = new[Len(new)]
  /\ Extends(x \o new, x)

(* The target predicts, after x and each of the proposals, its own next token. *)
IsVerified(pred, x, prp) ==
  \A i \in 1 .. Gamma + 1 :
    pred[i] \in Tokens /\ pred[i] = Target(Placed(SubSeq(x \o prp, 1, Len(x) - 1 + i)))

(* An iteration with proposals yields the accepted ones and the target's own. *)
LEMMA VerifiedYields ==
  ASSUME NEW x \in Seq(Tokens), NEW prp \in Seq(Tokens), Len(prp) = Gamma,
         NEW pred, IsVerified(pred, x, prp)
  PROVE  /\ Yields(x, Commits(prp, pred))
         /\ Accepted(prp, pred) \in 0 .. Gamma
         /\ Len(Commits(prp, pred)) = Accepted(prp, pred) + 1
         /\ \A i \in 1 .. Len(x) + Accepted(prp, pred) : (x \o Commits(prp, pred))[i] = (x \o prp)[i]
<1>1. PICK a \in 0 .. Gamma : a = Accepted(prp, pred) /\ Agreed(a, prp, pred)
  <2>1. Agreed(Accepted(prp, pred), prp, pred)
    BY AcceptedIs
  <2> QED
    BY <2>1 DEF Agreed
<1>2. Gamma \in Nat /\ a \in 0 .. Len(prp) /\ a + 1 \in 1 .. Gamma + 1
  BY DecodingAssumption
<1>3. PICK n \in Nat : n = Len(x)
  OBVIOUS
<1>4. PICK t \in Tokens : t = pred[a + 1] /\ t = Target(Placed(SubSeq(x \o prp, 1, n + a)))
  <2>1. n - 1 + (a + 1) = n + a
    BY <1>3
  <2> QED
    BY <1>2, <1>3, <2>1 DEF IsVerified
<1>5. \A j \in 1 .. a : prp[j] = Target(Placed(SubSeq(x \o prp, 1, n - 1 + j)))
  <2> SUFFICES ASSUME NEW j \in 1 .. a PROVE prp[j] = Target(Placed(SubSeq(x \o prp, 1, n - 1 + j)))
    OBVIOUS
  <2>1. j \in 1 .. Gamma + 1
    BY <1>2
  <2>2. pred[j] = prp[j]
    BY <1>1 DEF Agreed
  <2> QED
    BY <1>3, <2>1, <2>2 DEF IsVerified
<1>6. PICK new \in Seq(Tokens) :
        new = Append(SubSeq(prp, 1, a), t) /\ Len(new) = a + 1 /\ new[a + 1] = t
  <2>1. PICK z \in Seq(Tokens) : z = SubSeq(prp, 1, a) /\ Len(z) = a
    <3>1. PICK k \in Nat : k = Len(prp) /\ a <= k
      BY <1>2
    <3>2. SubSeq(prp, 1, a) \in Seq(Tokens) /\ Len(SubSeq(prp, 1, a)) = a
      BY <3>1
    <3> QED
      BY <3>2
  <2>2. Append(z, t) \in Seq(Tokens) /\ Len(Append(z, t)) = a + 1 /\ Append(z, t)[a + 1] = t
    BY <2>1
  <2> QED
    BY <2>1, <2>2
<1>7. Commits(prp, pred) = new
  BY <1>1, <1>4, <1>6 DEF Commits
<1>8. PICK y : y = x \o new
  OBVIOUS
<1>9. IsCommit(y, x, prp, n, a, t)
  BY <1>2, <1>3, <1>4, <1>5, <1>6, <1>8, CommitIs
<1>10. Yields(x, new)
  <2>1. Len(new) >= 1 /\ n + a + 1 = n + Len(new)
    BY <1>3, <1>6
  <2> QED
    BY <1>3, <1>6, <1>8, <1>9, <2>1 DEF IsCommit, Yields
<1> QED
  BY <1>1, <1>3, <1>6, <1>7, <1>8, <1>9, <1>10 DEF IsCommit

(* An iteration without proposals yields the target's next token. *)
LEMMA OneYields ==
  ASSUME NEW x \in Seq(Tokens), NEW t \in Tokens, t = Target(Placed(x))
  PROVE  Yields(x, <<t>>) /\ x \o <<t>> = Append(x, t)
<1>1. PICK n \in Nat : n = Len(x)
  OBVIOUS
<1>2. PICK y : y = Append(x, t)
  OBVIOUS
<1>3. IsGrown(y, x, n, t)
  BY <1>1, <1>2, OneMore
<1>4. x \o <<t>> = Append(x, t)
  OBVIOUS
<1>5. <<t>> \in Seq(Tokens) /\ Len(<<t>>) = 1 /\ <<t>>[1] = t
  OBVIOUS
<1>6. PICK new : new = <<t>>
  OBVIOUS
<1>7. Yields(x, new)
  <2>1. x \o new = y /\ new \in Seq(Tokens) /\ Len(new) = 1 /\ new[1] = t
    BY <1>2, <1>4, <1>5, <1>6
  <2>2. y \in Seq(Tokens) /\ Len(y) = n + 1 /\ y[n + 1] = t /\ Extends(y, x)
    BY <1>3 DEF IsGrown
  <2> QED
    BY <1>1, <2>1, <2>2 DEF Yields
<1> QED
  BY <1>4, <1>6, <1>7

-----------------------------------------------------------------------------
(***************************************************************************)
(* What a draft step sees of a row.                                        *)
(***************************************************************************)

(* The place of column c of row k in a flattened batch of n rows S wide. *)
LEMMA PlaceOfRow ==
  ASSUME NEW n \in Nat, NEW S \in Nat, NEW k \in 1 .. n, NEW c \in 0 .. S - 1
  PROVE  /\ (k - 1) * S + c \in 0 .. n * S - 1
         /\ ((k - 1) * S + c) \div S = k - 1
<1>1. (k - 1) * S \in Nat /\ S > 0
  OBVIOUS
<1>2. k * S <= n * S
  OBVIOUS
<1>3. k * S = (k - 1) * S + S
  OBVIOUS
<1>4. (k - 1) * S + c \in 0 .. n * S - 1
  BY <1>1, <1>2, <1>3
<1>5. ((k - 1) * S + c) \div S = k - 1
  BY <1>1
<1> QED
  BY <1>4, <1>5

(* Tokens at their own positions, computed with one adapter. *)
Viewed(toks, lora) == [i \in 1 .. Len(toks) |-> [tok |-> toks[i], pos |-> i - 1, lora |-> lora]]

(* Every row fits in the width of its batch. *)
LEMMA WidthIs ==
  ASSUME NEW n \in Nat, NEW batch \in [1 .. n -> Seq(Tokens)], NEW k \in 1 .. n
  PROVE  Width(batch) \in Nat /\ Len(batch[k]) \in 0 .. Width(batch)
<1> DEFINE T == {Len(batch[l]) : l \in 1 .. n}
           f == [l \in 1 .. n |-> Len(batch[l])]
<1>1. \A l \in 1 .. n : Len(batch[l]) \in Nat /\ Len(batch[l]) \in T
  OBVIOUS
<1>2. f \in Surjection(1 .. n, T)
  BY DEF Surjection
<1>3. IsFiniteSet(1 .. n)
  BY FS_Interval
<1>4. Width(batch) = Max(T)
  BY DEF Width
<1>5. T \in SUBSET Nat /\ T # {}
  BY <1>1
<1> HIDE DEF f, T
<1>6. IsFiniteSet(T)
  BY <1>2, <1>3, FS_Surjection
<1>7. Max(T) \in T /\ \A y \in T : y <= Max(T)
  BY <1>5, <1>6, GreatestNumber
<1>8. PICK w \in Nat : w = Max(T) /\ \A y \in T : y <= w
  BY <1>5, <1>7
<1>9. Len(batch[k]) \in Nat /\ Len(batch[k]) <= w
  BY <1>1, <1>8
<1> QED
  BY <1>4, <1>8, <1>9

(* In a vector of S columns a row, every column of row k is of one adapter. *)
Brings(idx, k, S, lora) == \A c \in 0 .. S - 1 : idx[(k - 1) * S + c] = lora

(* A pass whose routing vector gives a row's columns one adapter. *)
LEMMA PassIs ==
  ASSUME NEW n \in Nat, NEW batch \in [1 .. n -> Seq(Tokens)], NEW k \in 1 .. n,
         NEW idx, NEW lora, Brings(idx, k, Width(batch), lora)
  PROVE  Pass(batch, idx)[k] = Viewed(batch[k], lora)
<1>0. PICK S \in Nat : S = Width(batch)
  BY WidthIs
<1>1. S \in Nat /\ Len(batch[k]) \in 0 .. S /\ Brings(idx, k, S, lora)
  BY <1>0, WidthIs
<1>2. PICK m \in 0 .. S : m = Len(batch[k])
  BY <1>1
<1>3. PICK c \in Nat : c = S - m
  BY <1>1
<1>4. ASSUME NEW i \in 1 .. m PROVE idx[(k - 1) * S + c + i - 1] = lora
  <2>1. c + i - 1 \in 0 .. S - 1 /\ (k - 1) * S \in Int
    BY <1>1, <1>3
  <2>2. (k - 1) * S + c + i - 1 = (k - 1) * S + (c + i - 1)
    BY <1>3, <2>1
  <2> QED
    BY <1>1, <2>1, <2>2 DEF Brings
<1>5. Pass(batch, idx)[k] = Routed(batch[k], 0, idx, k, c, S)
  BY <1>0, <1>2, <1>3 DEF Pass
<1>6. Routed(batch[k], 0, idx, k, c, S) =
        [i \in 1 .. m |-> [tok |-> batch[k][i], pos |-> i - 1, lora |-> lora]]
  <2>1. \A i \in 1 .. m : 0 + i - 1 = i - 1
    OBVIOUS
  <2> QED
    BY <1>2, <1>4, <2>1 DEF Routed
<1> QED
  BY <1>2, <1>5, <1>6 DEF Viewed

(* A routing vector of one adapter brings it to every row. *)
LEMMA UniformIs ==
  ASSUME NEW n \in Nat, NEW S \in Nat, NEW k \in 1 .. n, NEW lora, NEW idx,
         idx = Uniform(n, S, lora)
  PROVE  Brings(idx, k, S, lora)
<1> SUFFICES ASSUME NEW c \in 0 .. S - 1 PROVE idx[(k - 1) * S + c] = lora
  BY DEF Brings
<1>1. PICK p \in 0 .. n * S - 1 : p = (k - 1) * S + c
  BY PlaceOfRow
<1>2. idx[p] = lora
  BY DEF Uniform
<1> QED
  BY <1>1, <1>2

(* A pass of rows that all use one adapter. *)
LEMMA AdapterPassIs ==
  ASSUME NEW n \in Nat, NEW batch \in [1 .. n -> Seq(Tokens)], NEW k \in 1 .. n, NEW lora
  PROVE  Pass(batch, Uniform(n, Width(batch), lora))[k] = Viewed(batch[k], lora)
<1>1. PICK S \in Nat : S = Width(batch)
  BY WidthIs
<1>2. PICK idx : idx = Uniform(n, S, lora)
  OBVIOUS
<1>3. Brings(idx, k, S, lora)
  BY <1>2, UniformIs
<1>4. Brings(idx, k, Width(batch), lora)
  BY <1>1, <1>3
<1>5. Pass(batch, idx)[k] = Viewed(batch[k], lora)
  BY <1>4, PassIs, Z3
<1> QED
  BY <1>1, <1>2, <1>5

(* A row's entry, repeated, brings its own adapter to each of its columns. *)
LEMMA RepeatedIs ==
  ASSUME NEW n \in Nat, NEW S \in Nat, NEW k \in 1 .. n, NEW tenants, NEW idx,
         Len(tenants) = n, idx = RepeatInterleave(tenants, S)
  PROVE  Brings(idx, k, S, tenants[k])
<1> SUFFICES ASSUME NEW c \in 0 .. S - 1 PROVE idx[(k - 1) * S + c] = tenants[k]
  BY DEF Brings
<1>1. PICK p \in 0 .. n * S - 1 : p = (k - 1) * S + c /\ p \div S = k - 1
  BY PlaceOfRow
<1>2. (p \div S) + 1 = k
  BY <1>1
<1>3. idx[p] = tenants[k]
  BY <1>2 DEF RepeatInterleave
<1> QED
  BY <1>1, <1>3

(* s lists the numbers of S in order. *)
IsListing(s, S) ==
  /\ s \in [1 .. Cardinality(S) -> S]
  /\ \A r \in S : \E k \in DOMAIN s : s[k] = r
  /\ \A j, k \in DOMAIN s : j < k => s[j] < s[k]

(* Every set of row numbers can be listed. *)
LEMMA ListingExists ==
  ASSUME NEW n \in Nat, NEW S \in SUBSET (1 .. n)
  PROVE  IsFiniteSet(S) /\ \E s : IsListing(s, S)
<1> DEFINE Listed(m) == \A R \in SUBSET (1 .. m) : IsFiniteSet(R) /\ \E s : IsListing(s, R)
           N == {m \in Nat : Listed(m)}
<1>1. 0 \in N
  <2> SUFFICES ASSUME NEW R \in SUBSET (1 .. 0) PROVE IsFiniteSet(R) /\ \E s : IsListing(s, R)
    OBVIOUS
  <2>1. R = {}
    OBVIOUS
  <2>2. IsFiniteSet(R) /\ Cardinality(R) = 0
    BY <2>1, FS_EmptySet
  <2> DEFINE s == [k \in 1 .. 0 |-> k]
  <2>3. IsListing(s, R)
    BY <2>1, <2>2 DEF IsListing
  <2> QED
    BY <2>2, <2>3
<1>2. ASSUME NEW m \in N PROVE m + 1 \in N
  <2> SUFFICES ASSUME NEW R \in SUBSET (1 .. m + 1) PROVE IsFiniteSet(R) /\ \E s : IsListing(s, R)
    OBVIOUS
  <2>1. m \in Nat /\ Listed(m)
    OBVIOUS
  <2>2. CASE m + 1 \notin R
    <3>1. R \in SUBSET (1 .. m)
      BY <2>1, <2>2
    <3> QED
      BY <2>1, <3>1
  <2>3. CASE m + 1 \in R
    <3>1. PICK Q \in SUBSET (1 .. m) : Q = R \ {m + 1} /\ R = Q \cup {m + 1} /\ m + 1 \notin Q
      <4>1. R \ {m + 1} \in SUBSET (1 .. m)
        BY <2>1
      <4> QED
        BY <2>3, <4>1
    <3>2. PICK s : IsListing(s, Q)
      BY <2>1
    <3>3. IsFiniteSet(Q)
      BY <2>1
    <3>4. PICK c \in Nat : c = Cardinality(Q)
      BY <3>3, FS_CardinalityType
    <3>5. IsFiniteSet(R) /\ Cardinality(R) = c + 1
      BY <3>1, <3>3, <3>4, FS_AddElement, SMTT(30)
    <3>6. /\ s \in [1 .. c -> Q]
          /\ \A r \in Q : \E k \in 1 .. c : s[k] = r
          /\ \A j, k \in 1 .. c : j < k => s[j] < s[k]
      BY <3>2, <3>4 DEF IsListing
    <3>7. PICK w : w = [k \in 1 .. c + 1 |-> IF k = c + 1 THEN m + 1 ELSE s[k]]
      OBVIOUS
    <3>8. /\ w \in [1 .. c + 1 -> R] /\ w[c + 1] = m + 1
          /\ \A k \in 1 .. c : k \in 1 .. c + 1 /\ w[k] = s[k] /\ w[k] \in Q
      BY <3>1, <3>6, <3>7
    <3>9. \A r \in R : \E k \in 1 .. c + 1 : w[k] = r
      <4> SUFFICES ASSUME NEW r \in R PROVE \E k \in 1 .. c + 1 : w[k] = r
        OBVIOUS
      <4>1. CASE r = m + 1
        BY <3>8, <4>1
      <4>2. CASE r # m + 1
        <5>1. r \in Q
          BY <3>1, <4>2
        <5> QED
          BY <3>6, <3>8, <5>1
      <4> QED
        BY <4>1, <4>2
    <3>10. ASSUME NEW j \in 1 .. c + 1, NEW k \in 1 .. c + 1, j < k PROVE w[j] < w[k]
      <4>1. j \in 1 .. c
        BY <3>10
      <4>2. CASE k = c + 1
        <5>1. w[j] \in 1 .. m
          BY <3>8, <4>1
        <5> QED
          BY <2>1, <3>8, <4>2, <5>1
      <4>3. CASE k # c + 1
        <5>1. k \in 1 .. c
          BY <4>3
        <5> QED
          BY <3>6, <3>8, <3>10, <4>1, <5>1
      <4> QED
        BY <4>2, <4>3
    <3>11. IsListing(w, R)
      <4>1. DOMAIN w = 1 .. c + 1
        BY <3>8
      <4> QED
        BY <3>5, <3>8, <3>9, <3>10, <4>1 DEF IsListing
    <3> QED
      BY <3>5, <3>11
  <2> QED
    BY <2>2, <2>3
<1>3. N \in SUBSET Nat
  OBVIOUS
<1> HIDE DEF N
<1>4. n \in N
  BY <1>1, <1>2, <1>3, Induction
<1> QED
  BY <1>4 DEF N

(* A row is found in its tenant's sub-batch. *)
LEMMA SubBatchIs ==
  ASSUME adapter \in Routings, NEW r \in Rows
  PROVE  \E m \in Nat : /\ SubBatch(adapter[r]) \in [1 .. m -> Rows]
                        /\ Place(SubBatch(adapter[r]), r) \in 1 .. m
                        /\ SubBatch(adapter[r])[Place(SubBatch(adapter[r]), r)] = r
<1> DEFINE mine == {q \in Rows : adapter[q] = adapter[r]}
<1>1. PICK n \in Nat : Rows = 1 .. n
  <2>1. Rows = 1 .. Len(adapter)
    BY RoutingAssumption
  <2>2. Len(adapter) \in Nat
    BY RoutingAssumption
  <2> QED
    BY <2>1, <2>2
<1>2. mine \in SUBSET (1 .. n) /\ r \in mine
  BY <1>1
<1>3. SubBatch(adapter[r]) = CHOOSE s \in [1 .. Cardinality(mine) -> mine] :
        /\ \A q \in mine : \E k \in DOMAIN s : s[k] = q
        /\ \A j, k \in DOMAIN s : j < k => s[j] < s[k]
  BY DEF SubBatch
<1> HIDE DEF mine
<1>4. IsFiniteSet(mine) /\ \E s : IsListing(s, mine)
  BY <1>2, ListingExists
<1>5. PICK m \in Nat : m = Cardinality(mine)
  BY <1>4, FS_CardinalityType
<1>6. IsListing(SubBatch(adapter[r]), mine)
  <2>1. \E s \in [1 .. Cardinality(mine) -> mine] :
          /\ \A q \in mine : \E k \in DOMAIN s : s[k] = q
          /\ \A j, k \in DOMAIN s : j < k => s[j] < s[k]
    BY <1>4 DEF IsListing
  <2> QED
    BY <1>3, <2>1 DEF IsListing
<1>7. PICK s : s = SubBatch(adapter[r])
  OBVIOUS
<1>8. s \in [1 .. m -> mine] /\ \E k \in DOMAIN s : s[k] = r
  BY <1>2, <1>5, <1>6, <1>7 DEF IsListing
<1>9. s \in [1 .. m -> Rows]
  BY <1>8 DEF mine
<1>10. Place(s, r) \in DOMAIN s /\ s[Place(s, r)] = r
  BY <1>8 DEF Place
<1> QED
  BY <1>7, <1>8, <1>9, <1>10

(* The adapter the draft should have used for row r. *)
DraftLora(r) == IF strategy = "shared_draft" THEN NoLora ELSE adapter[r]

(* Whatever the strategy, a draft step sees the row's tokens and its adapter. *)
LEMMA DraftStepIs ==
  ASSUME adapter \in Routings, strategy \in {"shared_draft", "per_adapter", "sgmv_draft"},
         NEW work \in [Rows -> Seq(Tokens)], NEW r \in Rows
  PROVE  DraftStep(work)[r] = Viewed(work[r], DraftLora(r))
<1>1. PICK n \in Nat : n = Len(adapter) /\ Rows = 1 .. n
  <2>1. Rows = 1 .. Len(adapter)
    BY RoutingAssumption
  <2> QED
    BY <2>1
<1>2. work \in [1 .. n -> Seq(Tokens)] /\ r \in 1 .. n
  BY <1>1
<1>3. Len(work) = n
  BY <1>2
<1>4. PICK S \in Nat : S = Width(work)
  BY <1>2, WidthIs
<1>5. CASE strategy = "shared_draft"
  <2>0. PICK idx : idx = Uniform(n, S, NoLora)
    OBVIOUS
  <2>1. DraftStep(work) = Pass(work, idx)
    BY <1>3, <1>4, <1>5, <2>0 DEF DraftStep
  <2>2. Brings(idx, r, S, NoLora)
    BY <1>2, <2>0, UniformIs
  <2>3. Pass(work, idx)[r] = Viewed(work[r], NoLora)
    BY <1>2, <1>4, <2>2, PassIs
  <2> QED
    BY <1>5, <2>1, <2>3 DEF DraftLora
<1>6. CASE strategy = "sgmv_draft"
  <2>0. PICK idx : idx = RepeatInterleave(adapter, S)
    OBVIOUS
  <2>1. DraftStep(work) = Pass(work, idx)
    BY <1>4, <1>6, <2>0 DEF DraftStep
  <2>2. Brings(idx, r, S, adapter[r])
    BY <1>1, <1>2, <2>0, RepeatedIs
  <2>3. Pass(work, idx)[r] = Viewed(work[r], adapter[r])
    BY <1>2, <1>4, <2>2, PassIs, Z3T(30)
  <2> QED
    BY <1>6, <2>1, <2>3 DEF DraftLora
<1>7. CASE strategy = "per_adapter"
  <2>1. PICK m \in Nat : /\ SubBatch(adapter[r]) \in [1 .. m -> Rows]
                         /\ Place(SubBatch(adapter[r]), r) \in 1 .. m
                         /\ SubBatch(adapter[r])[Place(SubBatch(adapter[r]), r)] = r
    BY SubBatchIs
  <2>2. PICK sub \in [1 .. m -> Rows] : sub = SubBatch(adapter[r])
    BY <2>1
  <2>3. PICK k \in 1 .. m : k = Place(sub, r) /\ sub[k] = r
    BY <2>1, <2>2
  <2>4. PICK batch \in [1 .. m -> Seq(Tokens)] : batch = [l \in DOMAIN sub |-> work[sub[l]]]
    <3>1. [l \in DOMAIN sub |-> work[sub[l]]] \in [1 .. m -> Seq(Tokens)]
      OBVIOUS
    <3> QED
      BY <3>1
  <2>5. batch[k] = work[r] /\ Len(sub) = m
    BY <2>3, <2>4
  <2>6. PICK T \in Nat : T = Width(batch)
    BY <2>3, WidthIs
  <2>0. PICK idx : idx = Uniform(m, T, adapter[r])
    OBVIOUS
  <2>7. DraftStep(work)[r] = Pass(batch, idx)[k]
    BY <1>7, <2>2, <2>3, <2>0, <2>4, <2>5, <2>6 DEF DraftStep
  <2>8. PICK lora : lora = adapter[r]
    OBVIOUS
  <2>9. idx = Uniform(m, Width(batch), lora)
    BY <2>0, <2>6, <2>8
  <2>10. Pass(batch, idx)[k] = Viewed(batch[k], lora)
    BY <2>9, AdapterPassIs, ZenonT(60)
  <2> QED
    BY <1>7, <2>5, <2>7, <2>8, <2>10 DEF DraftLora
<1> QED
  BY <1>5, <1>6, <1>7

-----------------------------------------------------------------------------
(***************************************************************************)
(* What spec_iter records.                                                 *)
(***************************************************************************)

(* A loop without caches that speculates routes its draft in one of three ways. *)
LEMMA StrategyIs ==
  ASSUME loop \in DOMAIN AllStrategies, strategy \in AllStrategies[loop], Recomputes,
         strategy # "no_spec"
  PROVE  ~Cached /\ strategy \in {"shared_draft", "per_adapter", "sgmv_draft"}
<1>1. loop \in {"run_strategy", "run_to_completion", "run_nokv"}
  BY DEF Recomputes, Strategies
<1>2. AllStrategies[loop] = Strategies[loop]
  BY <1>1 DEF AllStrategies, Strategies
<1> QED
  BY <1>1, <1>2 DEF Strategies, Cached

(* v is what a step sees of x and the first i - 1 of the proposals p. *)
IsView(v, x, p, i, lora) ==
  /\ v \in Seq(RoutedEntries) /\ Len(v) = Len(x) + i - 1
  /\ \A k \in 1 .. Len(x) + i - 1 : v[k] = [tok |-> (x \o p)[k], pos |-> k - 1, lora |-> lora]

(* Viewed is such a view. *)
LEMMA ViewIs ==
  ASSUME NEW x \in Seq(Tokens), NEW p \in Seq(Tokens), Len(p) = Gamma, NEW i \in 1 .. Gamma,
         NEW lora \in Loras \cup {NoLora}
  PROVE  IsView(Viewed(x \o SubSeq(p, 1, i - 1), lora), x, p, i, lora)
<1>1. PICK n \in Nat : n = Len(x)
  OBVIOUS
<1>2. PICK m \in Nat : m = i - 1 /\ m <= Len(p)
  BY DecodingAssumption
<1>3. PICK b \in Seq(Tokens) : b = SubSeq(p, 1, m) /\ Len(b) = m /\ \A k \in 1 .. m : b[k] = p[k]
  <2>1. PICK g \in Nat : g = Len(p) /\ m <= g
    BY <1>2
  <2>2. SubSeq(p, 1, m) \in Seq(Tokens) /\ Len(SubSeq(p, 1, m)) = m
    BY <1>2, <2>1
  <2>3. \A k \in 1 .. m : SubSeq(p, 1, m)[k] = p[k]
    BY <1>2, <2>1
  <2> QED
    BY <2>2, <2>3
<1>4. PICK w : w = x \o b
  OBVIOUS
<1>5. /\ w \in Seq(Tokens) /\ Len(w) = n + m
      /\ \A k \in 1 .. n : w[k] = x[k]
      /\ \A k \in 1 .. m : w[n + k] = b[k]
  BY <1>1, <1>3, <1>4, JoinIs
<1>6. PICK y : y = x \o p
  OBVIOUS
<1>7. /\ y \in Seq(Tokens)
      /\ \A k \in 1 .. n : y[k] = x[k]
      /\ \A k \in 1 .. Len(p) : y[n + k] = p[k]
  <2>1. /\ y \in Seq(Tokens)
        /\ \A k \in 1 .. Len(x) : y[k] = x[k]
        /\ \A k \in 1 .. Len(p) : y[Len(x) + k] = p[k]
    BY <1>6, JoinIs, SMTT(30)
  <2> QED
    BY <1>1, <2>1
<1>8. ASSUME NEW k \in 1 .. n + m PROVE w[k] = y[k]
  <2>1. CASE k <= n
    BY <1>5, <1>7, <2>1
  <2>2. CASE k > n
    <3>1. PICK j \in 1 .. m : k = n + j
      <4>1. k - n \in 1 .. m /\ k = n + (k - n)
        BY <2>2
      <4> QED
        BY <4>1
    <3>2. j \in 1 .. Len(p)
      BY <1>2
    <3> QED
      BY <1>3, <1>5, <1>7, <3>1, <3>2
  <2> QED
    BY <1>1, <2>1, <2>2
<1>9. PICK v : v = Viewed(w, lora)
  OBVIOUS
<1>10. v = [k \in 1 .. n + m |-> [tok |-> w[k], pos |-> k - 1, lora |-> lora]]
  BY <1>5, <1>9 DEF Viewed
<1>11. ASSUME NEW k \in 1 .. n + m PROVE [tok |-> w[k], pos |-> k - 1, lora |-> lora] \in RoutedEntries
  <2>1. w[k] \in Tokens /\ k - 1 \in Nat
    BY <1>5
  <2> QED
    BY <2>1 DEF RoutedEntries
<1>12. v \in Seq(RoutedEntries) /\ Len(v) = n + m
  <2>1. n + m \in Nat
    BY <1>1, <1>2
  <2> HIDE DEF RoutedEntries
  <2> QED
    BY <1>10, <1>11, <2>1
<1>13. \A k \in 1 .. n + m : v[k] = [tok |-> y[k], pos |-> k - 1, lora |-> lora]
  BY <1>8, <1>10
<1>14. n + m = Len(x) + i - 1
  BY <1>1, <1>2
<1>15. IsView(v, x, p, i, lora)
  BY <1>6, <1>12, <1>13, <1>14 DEF IsView
<1> QED
  BY <1>2, <1>3, <1>4, <1>9, <1>15

(* The adapter the draft should use is one there is. *)
LEMMA DraftLoraIs ==
  ASSUME adapter \in Routings, NEW r \in Rows
  PROVE  DraftLora(r) \in Loras \cup {NoLora}
<1>1. adapter[r] \in Range(adapter)
  BY RoutingAssumption DEF Range
<1> QED
  BY <1>1 DEF Loras, DraftLora

(* What a step's work is: the row and the proposals made so far. *)
Work(proposed, i) == [r \in Rows |-> rows[r] \o SubSeq(proposed[r], 1, i - 1)]

(* spec_iter's draft steps see, row by row, what they should. *)
LEMMA DraftSaw ==
  ASSUME adapter \in Routings, strategy \in {"shared_draft", "per_adapter", "sgmv_draft"},
         rows \in [Rows -> Seq(Tokens)],
         NEW proposed \in [Rows -> [1 .. Gamma -> Tokens]], NEW r \in Rows, NEW i \in 1 .. Gamma
  PROVE  IsView(DraftStep(Work(proposed, i))[r], rows[r], proposed[r], i, DraftLora(r))
<1>1. PICK p \in Seq(Tokens) : p = proposed[r] /\ Len(p) = Gamma
  BY DecodingAssumption
<1>2. PICK work : work = Work(proposed, i)
  OBVIOUS
<1>3. work \in [Rows -> Seq(Tokens)]
  <2> SUFFICES ASSUME NEW q \in Rows PROVE rows[q] \o SubSeq(proposed[q], 1, i - 1) \in Seq(Tokens)
    BY <1>2 DEF Work
  <2>1. PICK g \in Nat : g = Gamma /\ i - 1 \in 0 .. g
    BY DecodingAssumption
  <2>2. proposed[q] \in Seq(Tokens) /\ Len(proposed[q]) = g
    BY <2>1
  <2>3. SubSeq(proposed[q], 1, i - 1) \in Seq(Tokens)
    BY <2>1, <2>2
  <2> QED
    BY <2>3
<1>4. work[r] = rows[r] \o SubSeq(p, 1, i - 1)
  BY <1>1, <1>2 DEF Work
<1>5. DraftStep(work)[r] = Viewed(work[r], DraftLora(r))
  BY <1>3, DraftStepIs
<1>6. PICK x \in Seq(Tokens) : x = rows[r]
  OBVIOUS
<1>7. PICK lora \in Loras \cup {NoLora} : lora = DraftLora(r)
  BY DraftLoraIs
<1>8. IsView(Viewed(x \o SubSeq(p, 1, i - 1), lora), x, p, i, lora)
  BY <1>1, ViewIs
<1> QED
  BY <1>1, <1>2, <1>4, <1>5, <1>6, <1>7, <1>8

(* A record of such views, and rows that grow, is what DraftSeesItsTenant      *)
(* asks of one row.                                                            *)
SeesItsTenant(views, row, lora) ==
  \A i \in DOMAIN views :
    /\ Len(views[i]) = Len(views[1]) + i - 1
    /\ SubSeq(row, 1, Len(views[1])) = [p \in 1 .. Len(views[1]) |-> views[i][p].tok]
    /\ \A p \in DOMAIN views[i] :
         /\ views[i][p].pos = p - 1
         /\ views[i][p].lora = lora
         /\ views[i][p] = views[Gamma][p]

(* Views of a row and its proposals agree with one another and the row. *)
LEMMA ViewsAgree ==
  ASSUME NEW x \in Seq(Tokens), NEW p \in Seq(Tokens), NEW new \in Seq(Tokens), NEW lora,
         NEW views, views = [i \in 1 .. Gamma |-> views[i]],
         \A i \in 1 .. Gamma : IsView(views[i], x, p, i, lora)
  PROVE  /\ views \in [1 .. Gamma -> Seq(RoutedEntries)]
         /\ SeesItsTenant(views, x \o new, lora)
<1>0. Gamma \in Nat /\ 1 \in 1 .. Gamma /\ Gamma \in 1 .. Gamma
  BY DecodingAssumption
<1>1. PICK n \in Nat : n = Len(x)
  OBVIOUS
<1>2. PICK y : y = x \o p
  OBVIOUS
<1>3. ASSUME NEW i \in 1 .. Gamma
      PROVE  /\ views[i] \in Seq(RoutedEntries) /\ Len(views[i]) = n + i - 1
             /\ DOMAIN views[i] = 1 .. n + i - 1
             /\ \A k \in 1 .. n + i - 1 :
                  views[i][k] = [tok |-> y[k], pos |-> k - 1, lora |-> lora]
  <2>1. IsView(views[i], x, p, i, lora)
    OBVIOUS
  <2>2. views[i] \in Seq(RoutedEntries) /\ Len(views[i]) = n + i - 1
    BY <1>1, <2>1 DEF IsView
  <2>3. \A k \in 1 .. n + i - 1 : views[i][k] = [tok |-> y[k], pos |-> k - 1, lora |-> lora]
    BY <1>1, <1>2, <2>1 DEF IsView
  <2>4. DOMAIN views[i] = 1 .. n + i - 1
    <3> HIDE DEF RoutedEntries
    <3> QED
      BY <2>2
  <2> QED
    BY <2>2, <2>3, <2>4
<1>4. \A i \in 1 .. Gamma : \A k \in 1 .. n + i - 1 :
        views[i][k] = [tok |-> y[k], pos |-> k - 1, lora |-> lora]
  BY <1>3
<1>5. Len(views[1]) = n
  <2>1. n + 1 - 1 = n
    OBVIOUS
  <2> QED
    BY <1>0, <1>3, <2>1
<1>6. SubSeq(x \o new, 1, n) = x
  BY <1>1
<1>7. \A k \in 1 .. n : y[k] = x[k]
  BY <1>1, <1>2, JoinIs
<1>8. ASSUME NEW i \in DOMAIN views
      PROVE  /\ Len(views[i]) = n + i - 1
             /\ x = [k \in 1 .. n |-> views[i][k].tok]
             /\ \A k \in DOMAIN views[i] :
                  /\ views[i][k].pos = k - 1
                  /\ views[i][k].lora = lora
                  /\ views[i][k] = views[Gamma][k]
  <2>1. i \in 1 .. Gamma
    OBVIOUS
  <2>2. \A k \in 1 .. n : k \in 1 .. n + i - 1
    BY <1>0, <2>1
  <2>3. ASSUME NEW k \in 1 .. n PROVE views[i][k].tok = x[k]
    <3>1. views[i][k] = [tok |-> y[k], pos |-> k - 1, lora |-> lora]
      BY <1>4, <2>1, <2>2
    <3> QED
      BY <1>7, <3>1
  <2>4. x = [k \in 1 .. n |-> views[i][k].tok]
    BY <1>1, <2>3
  <2>5. ASSUME NEW k \in DOMAIN views[i]
        PROVE  views[i][k].pos = k - 1 /\ views[i][k].lora = lora /\ views[i][k] = views[Gamma][k]
    <3>1. k \in 1 .. n + i - 1 /\ k \in 1 .. n + Gamma - 1
      BY <1>0, <1>3, <2>1, SMTT(30)
    <3>2. views[i][k] = [tok |-> y[k], pos |-> k - 1, lora |-> lora]
      BY <1>4, <2>1, <3>1
    <3>3. views[Gamma][k] = [tok |-> y[k], pos |-> k - 1, lora |-> lora]
      BY <1>0, <1>4, <3>1
    <3> QED
      BY <3>2, <3>3
  <2> QED
    BY <1>3, <2>1, <2>4, <2>5
<1>9. SeesItsTenant(views, x \o new, lora)
  BY <1>5, <1>6, <1>8 DEF SeesItsTenant
<1>10. views \in [1 .. Gamma -> Seq(RoutedEntries)]
  <2>1. \A i \in 1 .. Gamma : views[i] \in Seq(RoutedEntries)
    BY <1>3
  <2> QED
    BY <2>1
<1> QED
  BY <1>9, <1>10

(* What an iteration of spec_iter leaves on record. *)
LEMMA RecordedStep ==
  ASSUME adapter \in Routings, strategy \in {"shared_draft", "per_adapter", "sgmv_draft"},
         adapter' = adapter, strategy' = strategy, rows \in [Rows -> Seq(Tokens)],
         NEW proposed \in [Rows -> [1 .. Gamma -> Tokens]], NEW new,
         \A r \in Rows : new[r] \in Seq(Tokens), rows' = [r \in Rows |-> rows[r] \o new[r]],
         seen' = [r \in Rows |-> [i \in 1 .. Gamma |-> DraftStep(Work(proposed, i))[r]]]
  PROVE  seen' \in [Rows -> Seq(Seq(RoutedEntries))] /\ DraftSeesItsTenant'
<1>1. ASSUME NEW r \in Rows
      PROVE  /\ seen'[r] \in [1 .. Gamma -> Seq(RoutedEntries)]
             /\ SeesItsTenant(seen'[r], rows'[r], DraftLora(r))
  <2>1. PICK x \in Seq(Tokens) : x = rows[r]
    OBVIOUS
  <2>2. PICK p \in Seq(Tokens) : p = proposed[r]
    BY DecodingAssumption
  <2>3. PICK w \in Seq(Tokens) : w = new[r]
    OBVIOUS
  <2>4. PICK views : views = [i \in 1 .. Gamma |-> DraftStep(Work(proposed, i))[r]]
    OBVIOUS
  <2>5. PICK lora : lora = DraftLora(r)
    OBVIOUS
  <2>6. \A i \in 1 .. Gamma : IsView(views[i], x, p, i, lora)
    BY <2>1, <2>2, <2>4, <2>5, DraftSaw
  <2>7. views = [i \in 1 .. Gamma |-> views[i]]
    BY <2>4
  <2>8. views \in [1 .. Gamma -> Seq(RoutedEntries)] /\ SeesItsTenant(views, x \o w, lora)
    BY <2>6, <2>7, ViewsAgree
  <2>9. seen'[r] = views /\ rows'[r] = x \o w
    BY <2>1, <2>3, <2>4
  <2> QED
    BY <2>5, <2>8, <2>9
<1>2. seen' \in [Rows -> Seq(Seq(RoutedEntries))]
  <2>1. Gamma \in Nat
    BY DecodingAssumption
  <2>2. ASSUME NEW r \in Rows PROVE seen'[r] \in Seq(Seq(RoutedEntries))
    <3>1. PICK T : T = Seq(RoutedEntries)
      OBVIOUS
    <3>2. seen'[r] \in [1 .. Gamma -> T]
      BY <1>1, <3>1
    <3>3. seen'[r] \in Seq(T)
      BY <2>1, <3>2
    <3> QED
      BY <3>1, <3>3
  <2> QED
    BY <2>2
<1>3. DraftSeesItsTenant'
  <2>1. \A r \in Rows : SeesItsTenant(seen'[r], rows'[r], IF strategy' = "shared_draft" THEN NoLora ELSE adapter'[r])
    BY <1>1 DEF DraftLora
  <2> QED
    BY <2>1 DEF DraftSeesItsTenant, SeesItsTenant
<1> QED
  BY <1>2, <1>3

-----------------------------------------------------------------------------
(***************************************************************************)
(* The end of an iteration.                                                *)
(***************************************************************************)

(* The iterations a loop may begin before its last: fewer than Limit. *)
Limit == IF loop = "run_strategy" THEN Iters ELSE OutTokens

(* A row that is not through has fewer tokens than were asked for. *)
LEMMA NotThrough ==
  ASSUME loop \in DOMAIN AllStrategies, loop # "run_strategy", NEW seq, ~Through(seq)
  PROVE  ~(Len(seq) >= OutTokens)
<1>1. loop \in {"run_kv", "run_to_completion", "run_nokv"}
  BY DEF AllStrategies, Strategies
<1> QED
  BY <1>1 DEF Through, EosDone

(* What an iteration delivers, of one row. *)
LEMMA DeliveredRow ==
  ASSUME TypeOK, Progress, pc # "done", NEW new, Deliver(new), NEW r \in Rows,
         new[r] \in Seq(Tokens), Len(new[r]) >= 1
  PROVE  /\ committed'[r] = IF r \in Receivers THEN committed[r] \o new[r] ELSE committed[r]
         /\ committed'[r] \in Seq(Tokens)
         /\ start[r] <= Len(committed'[r])
         /\ finish'[r] \in 0 .. MaxIt /\ (finish'[r] = 0 => finish[r] = 0)
         /\ finish'[r] = 0 => it' <= Len(committed'[r]) - start[r]
         /\ finish'[r] = 0 /\ loop # "run_strategy" => it' < OutTokens
<1>1. /\ it \in Nat /\ it' = it + 1 /\ it < Limit
      /\ loop \in DOMAIN AllStrategies
  BY DEF TypeOK, Progress, Deliver, Limit
<1>2. PICK c \in Seq(Tokens) : c = committed[r]
  BY DEF TypeOK
<1>3. PICK w \in Seq(Tokens) : w = new[r] /\ Len(w) >= 1
  OBVIOUS
<1>4. PICK s \in Nat : s = start[r] /\ s <= Len(c)
  BY <1>2 DEF TypeOK, Progress
<1>5. PICK d : d = committed'[r]
  OBVIOUS
<1>6. d = IF r \in Receivers THEN c \o w ELSE c
  BY <1>2, <1>3, <1>5 DEF Deliver
<1>7. d \in Seq(Tokens) /\ Len(d) \in Nat /\ Len(d) >= Len(c)
      /\ (r \in Receivers => Len(d) = Len(c) + Len(w))
  BY <1>6, JoinIs
<1>8. PICK gen : gen = SubSeq(d, s + 1, Len(d))
  OBVIOUS
<1>9. Len(gen) = Len(d) - s
  <2>1. PICK l \in Nat : l = Len(d) /\ s <= l
    BY <1>2, <1>4, <1>7
  <2>2. Len(SubSeq(d, s + 1, l)) = l - s
    BY <1>7, <2>1
  <2> QED
    BY <1>8, <2>1, <2>2
<1>10. PICK f \in 0 .. MaxIt : f = finish[r]
  BY DEF TypeOK
<1>11. finish'[r] = IF f = 0 /\ Through(gen) THEN it' ELSE f
  BY <1>4, <1>5, <1>8, <1>10 DEF Deliver
<1>12. Through(gen) => loop # "run_strategy"
  BY DEF Through
<1>13. it' \in Nat /\ it' >= 1 /\ (loop # "run_strategy" => it' <= MaxIt)
  <2>1. loop # "run_strategy" => it < OutTokens
    BY <1>1 DEF Limit
  <2>2. OutTokens \in Nat /\ MaxIt \in Nat /\ OutTokens <= MaxIt
    BY RecomputeAssumption
  <2> QED
    BY <1>1, <2>1, <2>2
<1>14. finish'[r] \in 0 .. MaxIt /\ (finish'[r] = 0 => f = 0 /\ ~Through(gen))
  BY <1>10, <1>11, <1>12, <1>13
<1>15. f = 0 => r \in Receivers
  BY <1>10 DEF Receivers
<1>16. f = 0 => it <= Len(c) - s
  BY <1>2, <1>4, <1>10 DEF Progress
<1>17. finish'[r] = 0 => it' <= Len(d) - s
  <2> SUFFICES ASSUME finish'[r] = 0 PROVE it' <= Len(d) - s
    OBVIOUS
  <2>1. PICK a \in Nat : a = Len(c)
    BY <1>2
  <2>2. PICK b \in Nat : b = Len(w) /\ b >= 1
    BY <1>3
  <2>3. Len(d) = a + b
    BY <1>7, <1>14, <1>15, <2>1, <2>2
  <2>4. it <= a - s
    BY <1>14, <1>16, <2>1
  <2> QED
    BY <1>1, <1>4, <2>2, <2>3, <2>4
<1>18. finish'[r] = 0 /\ loop # "run_strategy" => it' < OutTokens
  <2> SUFFICES ASSUME finish'[r] = 0, loop # "run_strategy" PROVE it' < OutTokens
    OBVIOUS
  <2>1. ~(Len(d) - s >= OutTokens)
    BY <1>1, <1>9, <1>14, NotThrough
  <2>2. OutTokens \in Nat /\ Len(d) - s \in Int
    BY <1>4, <1>7, RecomputeAssumption
  <2> QED
    BY <1>13, <1>17, <2>1, <2>2
<1>19. s <= Len(d)
  <2>1. PICK a \in Nat : a = Len(c)
    BY <1>2
  <2>2. PICK b \in Nat : b = Len(d) /\ b >= a
    BY <1>7, <2>1
  <2> QED
    BY <1>4, <2>1, <2>2
<1>20. committed'[r] = IF r \in Receivers THEN committed[r] \o new[r] ELSE committed[r]
  BY <1>2, <1>3, <1>5, <1>6
<1>21. committed'[r] \in Seq(Tokens)
  BY <1>5, <1>7
<1> QED
  BY <1>4, <1>5, <1>10, <1>14, <1>17, <1>18, <1>19, <1>20, <1>21

(* What an iteration delivers, of the loop. *)
Delivered(new) ==
  /\ loop' = loop /\ strategy' = strategy /\ adapter' = adapter /\ start' = start
  /\ pc' \in {"iterate", "done"}
  /\ it' \in 0 .. IF loop' = "run_strategy" THEN Iters ELSE MaxIt
  /\ committed' \in [Rows -> Seq(Tokens)] /\ start' \in [Rows -> Nat] /\ finish' \in [Rows -> 0 .. MaxIt]
  /\ \A r \in Rows :
       committed'[r] = IF r \in Receivers THEN committed[r] \o new[r] ELSE committed[r]
  /\ \A r \in Rows : r \in Receivers' => r \in Receivers
  /\ Progress'

(* Deliver is such an iteration. *)
LEMMA DeliverIs ==
  ASSUME TypeOK, Progress, pc # "done", NEW new, Deliver(new),
         \A r \in Rows : new[r] \in Seq(Tokens) /\ Len(new[r]) >= 1
  PROVE  Delivered(new)
<1>1. loop' = loop /\ strategy' = strategy /\ adapter' = adapter /\ start' = start
  BY DEF Deliver
<1>2. it \in Nat /\ it' = it + 1 /\ it < Limit
  BY DEF TypeOK, Progress, Deliver, Limit
<1>3. Iters \in Nat /\ OutTokens \in Nat /\ MaxIt \in Nat /\ OutTokens <= MaxIt
  BY RecomputeAssumption
<1>4. \A r \in Rows :
        /\ committed'[r] = IF r \in Receivers THEN committed[r] \o new[r] ELSE committed[r]
        /\ committed'[r] \in Seq(Tokens)
        /\ start[r] <= Len(committed'[r])
        /\ finish'[r] \in 0 .. MaxIt /\ (finish'[r] = 0 => finish[r] = 0)
        /\ finish'[r] = 0 => it' <= Len(committed'[r]) - start[r]
        /\ finish'[r] = 0 /\ loop # "run_strategy" => it' < OutTokens
  BY DeliveredRow
<1>5. /\ pc' \in {"iterate", "done"}
      /\ it' \in 0 .. IF loop' = "run_strategy" THEN Iters ELSE MaxIt
      /\ pc' # "done" => it' < (IF loop' = "run_strategy" THEN Iters ELSE OutTokens)
      /\ pc' = "done" /\ loop' # "run_strategy" => \A r \in Rows : finish'[r] # 0
  <2>1. pc' \in {"iterate", "done"}
    BY DEF Deliver
  <2>2. CASE loop = "run_strategy"
    <3>1. /\ it' \in 0 .. IF loop' = "run_strategy" THEN Iters ELSE MaxIt
          /\ it' # Iters => it' < Iters
      BY <1>1, <1>2, <1>3, <2>2 DEF Limit
    <3>2. pc' = IF it' = Iters THEN "done" ELSE "iterate"
      BY <2>2 DEF Deliver
    <3> QED
      BY <1>1, <2>1, <2>2, <3>1, <3>2
  <2>3. CASE loop # "run_strategy"
    <3>1. it' \in 0 .. (IF loop' = "run_strategy" THEN Iters ELSE MaxIt) /\ ~(it' > MaxIt)
      BY <1>1, <1>2, <1>3, <2>3 DEF Limit
    <3>2. pc' = IF \A r \in Rows : finish'[r] # 0 THEN "done" ELSE "iterate"
      BY <2>3, <3>1 DEF Deliver
    <3>3. /\ pc' # "done" => it' < (IF loop' = "run_strategy" THEN Iters ELSE OutTokens)
          /\ pc' = "done" => \A r \in Rows : finish'[r] # 0
      <4>1. CASE \A r \in Rows : finish'[r] # 0
        BY <3>2, <4>1
      <4>2. CASE ~ \A r \in Rows : finish'[r] # 0
        <5>1. it' < OutTokens
          BY <1>4, <2>3, <4>2
        <5> QED
          BY <1>1, <2>3, <3>2, <4>2, <5>1
      <4> QED
        BY <4>1, <4>2
    <3> QED
      BY <2>1, <3>1, <3>3
  <2> QED
    BY <2>2, <2>3
<1>6. committed' \in [Rows -> Seq(Tokens)]
  BY <1>4 DEF Deliver
<1>7. finish' \in [Rows -> 0 .. MaxIt]
  <2>1. finish' = [r \in Rows |-> finish'[r]]
    BY DEF Deliver
  <2> QED
    BY <1>4, <2>1
<1>8. start' \in [Rows -> Nat]
  BY <1>1 DEF TypeOK
<1>9. \A r \in Rows : r \in Receivers' => r \in Receivers
  BY <1>1, <1>4 DEF Receivers
<1>10. /\ \A r \in Rows : start'[r] <= Len(committed'[r])
       /\ \A r \in Rows : finish'[r] = 0 => it' <= Len(committed'[r]) - start'[r]
  BY <1>1, <1>4
<1>11. Progress'
  BY <1>5, <1>10 DEF Progress
<1> QED
  BY <1>1, <1>4, <1>5, <1>6, <1>7, <1>8, <1>9, <1>11 DEF Delivered

(* What row r has decoded. *)
Decoded(r) == CHOOSE x \in Seq(Tokens) : Decodes(r, x)

(* RowsDecode says there is such a sequence. *)
LEMMA DecodedIs ==
  ASSUME RowsDecode, NEW r \in Rows
  PROVE  Decoded(r) \in Seq(Tokens) /\ Decodes(r, Decoded(r))
<1>1. \E x \in Seq(Tokens) : Decodes(r, x)
  BY DEF RowsDecode
<1> HIDE DEF Decodes
<1> QED
  BY <1>1 DEF Decoded

(* No step takes back a token, or adds one the target would not. *)
Grows ==
  \A r \in Rows :
    start'[r] = start[r] /\ (committed'[r] = committed[r] \/ Extends(committed'[r], committed[r]))

(* What every row has decoded grows by what the iteration yields; rows that    *)
(* receive it commit it.                                                       *)
LEMMA DeliverStep ==
  ASSUME TypeOK, RowsDecode, Progress, pc # "done", NEW new, Deliver(new),
         \A r \in Rows : Yields(Decoded(r), new[r])
  PROVE  /\ Delivered(new) /\ Grows
         /\ \A r \in Rows : /\ Decoded(r) \o new[r] \in Seq(Tokens) /\ Len(Decoded(r) \o new[r]) >= 1
                            /\ r \in Receivers' => Decoded(r) \o new[r] = committed'[r]
<1>1. \A r \in Rows : new[r] \in Seq(Tokens) /\ Len(new[r]) >= 1
  BY DEF Yields
<1>2. Delivered(new)
  BY <1>1, DeliverIs
<1>3. ASSUME NEW r \in Rows
      PROVE  /\ Decoded(r) \o new[r] \in Seq(Tokens) /\ Len(Decoded(r) \o new[r]) >= 1
             /\ r \in Receivers' => Decoded(r) \o new[r] = committed'[r]
             /\ committed'[r] = committed[r] \/ Extends(committed'[r], committed[r])
  <2>1. PICK x \in Seq(Tokens) : x = Decoded(r)
    BY DecodedIs
  <2>2. r \in Receivers => x = committed[r]
    BY <2>1, DecodedIs DEF Decodes
  <2>3. PICK w \in Seq(Tokens) : w = new[r] /\ Len(w) >= 1
    BY <1>1
  <2>4. x \o w \in Seq(Tokens) /\ Len(x \o w) = Len(x) + Len(w) /\ Extends(x \o w, x)
    BY <2>1, <2>3 DEF Yields
  <2>5. Len(x \o w) >= 1
    <3>1. PICK a \in Nat : a = Len(x)
      BY <2>1
    <3>2. PICK b \in Nat : b = Len(w) /\ b >= 1
      BY <2>3
    <3> QED
      BY <2>4, <3>1, <3>2
  <2>6. committed'[r] = IF r \in Receivers THEN committed[r] \o w ELSE committed[r]
    BY <1>2, <2>3 DEF Delivered
  <2>7. r \in Receivers' => r \in Receivers
    BY <1>2 DEF Delivered
  <2> QED
    BY <2>1, <2>2, <2>3, <2>4, <2>5, <2>6, <2>7
<1>4. Grows
  BY <1>2, <1>3 DEF Grows, Delivered
<1> QED
  BY <1>2, <1>3, <1>4

(* Tokens at their positions are something the target can be asked about. *)
LEMMA PlacedIs ==
  ASSUME NEW x \in Seq(Tokens)
  PROVE  Placed(x) \in Seq(Entries)
<1>1. PICK n \in Nat : n = Len(x)
  OBVIOUS
<1>2. ASSUME NEW i \in 1 .. n PROVE [tok |-> x[i], pos |-> i - 1] \in Entries
  <2>1. x[i] \in Tokens /\ i - 1 \in Nat
    BY <1>1
  <2> QED
    BY <2>1 DEF Entries
<1> HIDE DEF Entries
<1> QED
  BY <1>1, <1>2 DEF Placed

(* Only the tokens held matter. *)
LEMMA HoldsPrefix ==
  ASSUME NEW state, NEW k, NEW x, NEW y, NEW m \in Nat, Holds(state, k, x, m),
         \A i \in 1 .. m : y[i] = x[i]
  PROVE  Holds(state, k, y, m)
<1>1. ASSUME NEW i \in 1 .. k, state[i].real
      PROVE  state[i].pos \in 0 .. m - 1 /\ state[i].tok = y[state[i].pos + 1]
  <2>1. PICK p \in 0 .. m - 1 : p = state[i].pos /\ state[i].tok = x[p + 1]
    BY <1>1 DEF Holds
  <2>2. p + 1 \in 1 .. m
    OBVIOUS
  <2> QED
    BY <2>1, <2>2
<1> QED
  BY <1>1 DEF Holds

(* Whatever is hidden, a cache is a cache. *)
LEMMA MaskTyped ==
  ASSUME NEW state \in Seq(SlotType), NEW g, NEW a \in Int
  PROVE  MaskTail(state, g, a) \in Seq(SlotType)
<1>1. PICK n \in Nat : n = Len(state)
  OBVIOUS
<1> DEFINE slot(i) == IF i > n - g
                        THEN [state[i] EXCEPT !.real = i <= n - g + a]
                        ELSE state[i]
<1>2. MaskTail(state, g, a) = [i \in 1 .. n |-> slot(i)]
  BY <1>1 DEF MaskTail
<1>3. ASSUME NEW i \in 1 .. n PROVE slot(i) \in SlotType
  <2>1. PICK s \in SlotType : s = state[i]
    BY <1>1
  <2>2. \A b \in BOOLEAN : [s EXCEPT !.real = b] \in SlotType
    BY DEF SlotType
  <2>3. (i <= n - g + a) \in BOOLEAN
    OBVIOUS
  <2> QED
    BY <2>1, <2>2, <2>3
<1> HIDE DEF slot
<1> QED
  BY <1>1, <1>2, <1>3

(* A row and the first of its proposals are a prefix of the row with all. *)
LEMMA PrefixIs ==
  ASSUME NEW x \in Seq(Tokens), NEW n, n = Len(x), NEW p \in Seq(Tokens), NEW m \in Nat, m <= Len(p)
  PROVE  x \o SubSeq(p, 1, m) = SubSeq(x \o p, 1, n + m)
<1>1. PICK g \in Nat : g = Len(p) /\ m <= g /\ n \in Nat
  OBVIOUS
<1>2. PICK b \in Seq(Tokens) : b = SubSeq(p, 1, m) /\ Len(b) = m /\ \A k \in 1 .. m : b[k] = p[k]
  <2>1. SubSeq(p, 1, m) \in Seq(Tokens) /\ Len(SubSeq(p, 1, m)) = m
    BY <1>1
  <2>2. \A k \in 1 .. m : SubSeq(p, 1, m)[k] = p[k]
    BY <1>1
  <2> QED
    BY <2>1, <2>2
<1>3. PICK w : w = x \o b
  OBVIOUS
<1>4. /\ w \in Seq(Tokens) /\ Len(w) = n + m
      /\ \A k \in 1 .. n : w[k] = x[k]
      /\ \A k \in 1 .. m : w[n + k] = b[k]
  BY <1>2, <1>3, JoinIs
<1>5. PICK y : y = x \o p
  OBVIOUS
<1>6. /\ y \in Seq(Tokens) /\ Len(y) = n + g
      /\ \A k \in 1 .. n : y[k] = x[k]
      /\ \A k \in 1 .. g : y[n + k] = p[k]
  <2>1. /\ y \in Seq(Tokens) /\ Len(y) = Len(x) + Len(p)
        /\ \A k \in 1 .. Len(x) : y[k] = x[k]
        /\ \A k \in 1 .. Len(p) : y[Len(x) + k] = p[k]
    BY <1>5, JoinIs
  <2> QED
    BY <1>1, <2>1
<1>7. ASSUME NEW k \in 1 .. n + m PROVE w[k] = y[k]
  <2>1. CASE k <= n
    BY <1>4, <1>6, <2>1
  <2>2. CASE k > n
    <3>1. PICK j \in 1 .. m : k = n + j
      <4>1. k - n \in 1 .. m /\ k = n + (k - n)
        BY <1>1, <2>2
      <4> QED
        BY <4>1
    <3>2. j \in 1 .. g
      BY <1>1
    <3> QED
      BY <1>2, <1>4, <1>6, <3>1, <3>2
  <2> QED
    BY <1>1, <2>1, <2>2
<1>8. PICK z \in Seq(Tokens) : z = SubSeq(y, 1, n + m) /\ Len(z) = n + m /\ \A k \in 1 .. n + m : z[k] = y[k]
  <2>1. PICK l \in Nat : l = n + m /\ l <= Len(y)
    BY <1>1, <1>6
  <2>2. SubSeq(y, 1, l) \in Seq(Tokens) /\ Len(SubSeq(y, 1, l)) = l
    BY <1>6, <2>1
  <2>3. \A k \in 1 .. l : SubSeq(y, 1, l)[k] = y[k]
    BY <1>6, <2>1
  <2> QED
    BY <2>1, <2>2, <2>3
<1>9. w = z
  BY <1>4, <1>7, <1>8
<1> QED
  BY <1>2, <1>3, <1>5, <1>8, <1>9

-----------------------------------------------------------------------------
(***************************************************************************)
(* The actions.                                                            *)
(***************************************************************************)

(* The loops without caches. *)
LEMMA NotCached ==
  Recomputes => ~Cached
BY DEF Recomputes, Strategies, Cached

(* The part of TypeOK that says what a row is known by. *)
RowsAgree ==
  \A r \in Receivers :
    IF Cached
      THEN real_len[r] = Len(committed[r]) /\ pending[r] = Last(committed[r])
      ELSE rows[r] = committed[r]

(* It follows from what the rows have decoded. *)
LEMMA RowsDoAgree ==
  RowsDecode => RowsAgree
<1> SUFFICES ASSUME RowsDecode, NEW r \in Receivers
             PROVE  IF Cached
                      THEN real_len[r] = Len(committed[r]) /\ pending[r] = Last(committed[r])
                      ELSE rows[r] = committed[r]
  BY DEF RowsAgree
<1>1. r \in Rows
  BY DEF Receivers
<1>2. Decodes(r, Decoded(r))
  BY <1>1, DecodedIs
<1> QED
  BY <1>2 DEF Decodes, Last

(* What is left to say of the state once an iteration has been delivered. *)
LEMMA DeliveredInv ==
  ASSUME TypeOK, InStep, NEW new, Delivered(new), RowsDecode', RowsAgree',
         prop' \in [Rows -> Seq(Tokens)],
         dstate' \in [Rows -> Seq(SlotType)], tstate' \in [Rows -> Seq(SlotType)],
         rows' \in [Rows -> Seq(Tokens)], seen' \in [Rows -> Seq(Seq(RoutedEntries))],
         Recorded',
         (prop' = prop /\ pc = "iterate") \/ \A r \in Rows : Len(prop'[r]) = 0
  PROVE  EagerInv'
<1>1. /\ loop' \in DOMAIN AllStrategies /\ strategy' \in AllStrategies[loop']
      /\ adapter' \in Routings
  BY DEF Delivered, TypeOK
<1>2. pc' \in {"iterate", "verify", "done"} /\ pc' # "verify"
  BY DEF Delivered
<1>3. /\ it' \in 0 .. IF loop' = "run_strategy" THEN Iters ELSE MaxIt
      /\ committed' \in [Rows -> Seq(Tokens)] /\ start' \in [Rows -> Nat]
      /\ finish' \in [Rows -> 0 .. MaxIt]
      /\ Progress'
  BY DEF Delivered
<1>4. \A r \in Receivers' :
        IF Cached'
          THEN real_len'[r] = Len(committed'[r]) /\ pending'[r] = Last(committed'[r])
          ELSE rows'[r] = committed'[r]
  BY DEF RowsAgree
<1>5. TypeOK'
  BY <1>1, <1>2, <1>3, <1>4 DEF TypeOK
<1>6. InStep'
  <2>1. \E k \in 0 .. Gamma - 1 : \A r \in Rows : Len(prop'[r]) = k
    <3>1. CASE prop' = prop /\ pc = "iterate"
      BY <3>1 DEF InStep
    <3>2. CASE \A r \in Rows : Len(prop'[r]) = 0
      <4>1. 0 \in 0 .. Gamma - 1
        BY DecodingAssumption
      <4> QED
        BY <3>2, <4>1
    <3> QED
      BY <3>1, <3>2
  <2> QED
    BY <1>2, <2>1 DEF InStep
<1> QED
  BY <1>3, <1>5, <1>6 DEF EagerInv

(* nospec_iter preserves the invariant. *)
LEMMA NospecStep ==
  ASSUME TargetIsToken, EagerInv, NospecIter, UNCHANGED cachedVars
  PROVE  EagerInv' /\ Grows
<1> DEFINE nt == [r \in Rows |-> Target(Placed(rows[r]))]
           new == [r \in Rows |-> <<nt[r]>>]
<1>1. /\ TypeOK /\ RowsDecode /\ InStep /\ Progress /\ Recorded
      /\ pc = "iterate" /\ strategy = "no_spec" /\ ~Cached
  BY NotCached DEF EagerInv, NospecIter
<1>2. ASSUME NEW r \in Rows
      PROVE  /\ rows[r] = Decoded(r) /\ nt[r] \in Tokens
             /\ Yields(Decoded(r), <<nt[r]>>) /\ Decoded(r) \o <<nt[r]>> = Append(rows[r], nt[r])
  <2>1. PICK x \in Seq(Tokens) : x = Decoded(r) /\ x = rows[r]
    BY <1>1, DecodedIs DEF Decodes
  <2>2. PICK t \in Tokens : t = nt[r] /\ t = Target(Placed(x))
    BY <2>1, PlacedIs DEF TargetIsToken
  <2>3. Yields(x, <<t>>) /\ x \o <<t>> = Append(x, t)
    BY <2>2, OneYields
  <2> QED
    BY <2>1, <2>2, <2>3
<1>3. Deliver(new) /\ rows' = [r \in Rows |-> Append(rows[r], nt[r])] /\ seen' = seen
  BY DEF NospecIter
<1>4. \A r \in Rows : new[r] = <<nt[r]>>
  OBVIOUS
<1> HIDE DEF nt, new
<1>5. /\ Delivered(new) /\ Grows
      /\ \A r \in Rows : /\ Decoded(r) \o new[r] \in Seq(Tokens) /\ Len(Decoded(r) \o new[r]) >= 1
                         /\ r \in Receivers' => Decoded(r) \o new[r] = committed'[r]
  <2>1. \A r \in Rows : Yields(Decoded(r), new[r])
    BY <1>2, <1>4
  <2>2. pc # "done"
    BY <1>1
  <2> QED
    BY <1>1, <1>3, <2>1, <2>2, DeliverStep
<1>6. ~Cached'
  BY <1>1, <1>5 DEF Delivered, Cached
<1>7. \A r \in Rows : rows'[r] = Decoded(r) \o new[r]
  BY <1>2, <1>3, <1>4
<1>8. RowsDecode'
  <2> SUFFICES ASSUME NEW r \in Rows PROVE \E x \in Seq(Tokens) : Decodes(r, x)'
    BY DEF RowsDecode
  <2>1. PICK y \in Seq(Tokens) : y = Decoded(r) \o new[r]
    BY <1>5
  <2>2. Decodes(r, y)'
    BY <1>5, <1>6, <1>7, <2>1 DEF Decodes
  <2> QED
    BY <2>2
<1>9. RowsAgree'
  BY <1>8, RowsDoAgree, PTL
<1>10. rows' \in [Rows -> Seq(Tokens)] /\ seen' \in [Rows -> Seq(Seq(RoutedEntries))]
  <2>1. seen' \in [Rows -> Seq(Seq(RoutedEntries))]
    BY <1>1, <1>3 DEF TypeOK
  <2>2. \A r \in Rows : rows'[r] \in Seq(Tokens)
    BY <1>5, <1>7
  <2> QED
    BY <1>3, <2>1, <2>2
<1>11. Recorded'
  <2>1. seen = [r \in Rows |-> << >>]
    BY <1>1 DEF Recorded
  <2>2. DraftSeesItsTenant'
    BY <1>3, <2>1 DEF DraftSeesItsTenant
  <2> QED
    BY <1>3, <2>1, <2>2 DEF Recorded
<1>12. /\ prop' = prop /\ prop' \in [Rows -> Seq(Tokens)]
       /\ dstate' \in [Rows -> Seq(SlotType)] /\ tstate' \in [Rows -> Seq(SlotType)]
  BY <1>1 DEF cachedVars, TypeOK
<1> QED
  BY <1>1, <1>5, <1>8, <1>9, <1>10, <1>11, <1>12, DeliveredInv

(* spec_iter preserves the invariant. *)
LEMMA SpecStep ==
  ASSUME TargetIsToken, EagerInv, SpecIter, UNCHANGED cachedVars
  PROVE  EagerInv' /\ Grows
<1>1. /\ TypeOK /\ RowsDecode /\ InStep /\ Progress /\ Recorded
      /\ pc = "iterate" /\ strategy # "no_spec" /\ Recomputes /\ ~Cached
  BY NotCached DEF EagerInv, SpecIter
<1>2. PICK proposed \in [Rows -> [1 .. Gamma -> Tokens]] :
        LET work(i) == [r \in Rows |-> rows[r] \o SubSeq(proposed[r], 1, i - 1)]
            pred == [r \in Rows |-> [i \in 1 .. Gamma + 1 |-> Target(Placed(work(i)[r]))]]
            new  == [r \in Rows |-> Commits(proposed[r], pred[r])]
        IN /\ seen' = [r \in Rows |-> [i \in 1 .. Gamma |-> DraftStep(work(i))[r]]]
           /\ rows' = [r \in Rows |-> rows[r] \o new[r]]
           /\ Deliver(new)
  BY DEF SpecIter
<1> DEFINE pred(r) == [i \in 1 .. Gamma + 1 |-> Target(Placed(rows[r] \o SubSeq(proposed[r], 1, i - 1)))]
<1>3. PICK new : new = [r \in Rows |-> Commits(proposed[r], pred(r))]
  OBVIOUS
<1>4. /\ seen' = [r \in Rows |-> [i \in 1 .. Gamma |-> DraftStep(Work(proposed, i))[r]]]
      /\ rows' = [r \in Rows |-> rows[r] \o new[r]]
      /\ Deliver(new)
  BY <1>2, <1>3 DEF Work
<1>5. ASSUME NEW r \in Rows PROVE rows[r] = Decoded(r) /\ Yields(Decoded(r), new[r])
  <2>1. PICK x \in Seq(Tokens) : x = Decoded(r) /\ x = rows[r]
    BY <1>1, DecodedIs DEF Decodes
  <2>2. PICK g \in Nat : g = Gamma
    BY DecodingAssumption
  <2>3. PICK p \in Seq(Tokens) : p = proposed[r] /\ Len(p) = g
    BY <2>2
  <2>4. PICK n \in Nat : n = Len(x)
    OBVIOUS
  <2>5. PICK q : q = pred(r)
    OBVIOUS
  <2>6. ASSUME NEW i \in 1 .. Gamma + 1
        PROVE  q[i] \in Tokens /\ q[i] = Target(Placed(SubSeq(x \o p, 1, n - 1 + i)))
    <3>1. q[i] = Target(Placed(x \o SubSeq(p, 1, i - 1)))
      BY <2>1, <2>3, <2>5
    <3>2. PICK m \in Nat : m = i - 1 /\ m <= Len(p) /\ n + m = n - 1 + i
      BY <2>2, <2>3, <2>4
    <3>3. x \o SubSeq(p, 1, m) = SubSeq(x \o p, 1, n + m)
      BY <2>4, <3>2, PrefixIs
    <3>4. x \o SubSeq(p, 1, m) \in Seq(Tokens)
      <4>1. PICK l \in Nat : l = Len(p) /\ m <= l
        BY <3>2
      <4>2. SubSeq(p, 1, m) \in Seq(Tokens)
        BY <4>1
      <4> QED
        BY <4>2
    <3>5. Placed(x \o SubSeq(p, 1, m)) \in Seq(Entries)
      BY <3>4, PlacedIs
    <3>6. Target(Placed(x \o SubSeq(p, 1, m))) \in Tokens
      BY <3>5 DEF TargetIsToken
    <3> QED
      BY <3>1, <3>2, <3>3, <3>6
  <2>7. IsVerified(q, x, p)
    BY <2>4, <2>6 DEF IsVerified
  <2>8. Yields(x, Commits(p, q))
    BY <2>2, <2>3, <2>7, VerifiedYields
  <2>9. new[r] = Commits(p, q)
    BY <1>3, <2>3, <2>5
  <2> QED
    BY <2>1, <2>8, <2>9
<1> HIDE DEF pred
<1>6. /\ Delivered(new) /\ Grows
      /\ \A r \in Rows : /\ Decoded(r) \o new[r] \in Seq(Tokens) /\ Len(Decoded(r) \o new[r]) >= 1
                         /\ r \in Receivers' => Decoded(r) \o new[r] = committed'[r]
  <2>1. \A r \in Rows : Yields(Decoded(r), new[r])
    BY <1>5
  <2>2. pc # "done"
    BY <1>1
  <2> QED
    BY <1>1, <1>4, <2>1, <2>2, DeliverStep
<1>7. ~Cached' /\ strategy' = strategy /\ adapter' = adapter
  BY <1>1, <1>6 DEF Delivered, Cached
<1>8. \A r \in Rows : rows'[r] = Decoded(r) \o new[r]
  BY <1>4, <1>5
<1>9. RowsDecode'
  <2> SUFFICES ASSUME NEW r \in Rows PROVE \E x \in Seq(Tokens) : Decodes(r, x)'
    BY DEF RowsDecode
  <2>1. PICK y \in Seq(Tokens) : y = Decoded(r) \o new[r]
    BY <1>6
  <2>2. Decodes(r, y)'
    BY <1>6, <1>7, <1>8, <2>1 DEF Decodes
  <2> QED
    BY <2>2
<1>10. RowsAgree'
  BY <1>9, RowsDoAgree, PTL
<1>11. seen' \in [Rows -> Seq(Seq(RoutedEntries))] /\ DraftSeesItsTenant'
  <2>1. strategy \in {"shared_draft", "per_adapter", "sgmv_draft"}
    BY <1>1, StrategyIs DEF TypeOK
  <2>2. adapter \in Routings /\ rows \in [Rows -> Seq(Tokens)]
    BY <1>1 DEF TypeOK
  <2>3. \A r \in Rows : new[r] \in Seq(Tokens)
    BY <1>5 DEF Yields
  <2> QED
    BY <1>4, <1>7, <2>1, <2>2, <2>3, RecordedStep
<1>12. Recorded'
  BY <1>1, <1>7, <1>11 DEF Recorded
<1>13. rows' \in [Rows -> Seq(Tokens)]
  BY <1>4, <1>6, <1>8
<1>14. /\ prop' = prop /\ prop' \in [Rows -> Seq(Tokens)]
       /\ dstate' \in [Rows -> Seq(SlotType)] /\ tstate' \in [Rows -> Seq(SlotType)]
  BY <1>1 DEF cachedVars, TypeOK
<1> QED
  BY <1>1, <1>6, <1>9, <1>10, <1>11, <1>12, <1>13, <1>14, DeliveredInv

(* Where a row of the loop with caches stands. *)
IsCachedRow(r, x, n) ==
  /\ x \in Seq(Tokens) /\ x = Decoded(r) /\ n \in Nat /\ n = Len(x) /\ n >= 1
  /\ real_len[r] = n /\ pending[r] = x[n] /\ x[n] \in Tokens
  /\ Holds(tstate[r], Len(tstate[r]), x, n - 1)

(* Every row of the loop with caches stands so. *)
LEMMA CachedRow ==
  ASSUME RowsDecode, Cached, NEW r \in Rows
  PROVE  \E x \in Seq(Tokens), n \in Nat : IsCachedRow(r, x, n)
<1>1. PICK x \in Seq(Tokens) : x = Decoded(r) /\ Decodes(r, x)
  BY DecodedIs
<1>2. PICK n \in Nat : n = Len(x)
  OBVIOUS
<1>3. n >= 1 /\ real_len[r] = n /\ pending[r] = x[n] /\ Holds(tstate[r], Len(tstate[r]), x, n - 1)
  BY <1>1, <1>2 DEF Decodes
<1>4. x[n] \in Tokens
  BY <1>2, <1>3
<1> QED
  BY <1>1, <1>2, <1>3, <1>4 DEF IsCachedRow

(* An iteration without speculation preserves the invariant. *)
LEMMA PlainStepInv ==
  ASSUME TargetIsToken, EagerInv, PlainStep
  PROVE  EagerInv' /\ Grows
<1>1. /\ TypeOK /\ RowsDecode /\ InStep /\ Progress /\ Recorded
      /\ pc = "iterate" /\ strategy = "no_spec" /\ Cached
  BY DEF EagerInv, PlainStep
<1> DEFINE fed == [r \in Rows |-> Fed(tstate[r], <<pending[r]>>, real_len[r] - 1)]
<1>2. PICK new : new = [r \in Rows |-> <<Target(Attended(fed[r], Len(fed[r])))>>]
  OBVIOUS
<1>3. tstate' = fed /\ Commit(new) /\ prop' = prop /\ dstate' = dstate
  BY <1>2 DEF PlainStep
<1>4. /\ Deliver(new) /\ rows' = rows /\ seen' = seen
      /\ pending' = [r \in Rows |-> Last(new[r])]
      /\ real_len' = [r \in Rows |-> real_len[r] + Len(new[r])]
  BY <1>3 DEF Commit
<1>5. ASSUME NEW r \in Rows
      PROVE  /\ Yields(Decoded(r), new[r]) /\ tstate'[r] \in Seq(SlotType)
             /\ \A y : y = Decoded(r) \o new[r] =>
                  /\ real_len'[r] = Len(y) /\ pending'[r] = y[Len(y)]
                  /\ Holds(tstate'[r], Len(tstate'[r]), y, Len(y) - 1)
  <2>1. PICK x \in Seq(Tokens), n \in Nat : IsCachedRow(r, x, n)
    BY <1>1, CachedRow
  <2>2. /\ x \in Seq(Tokens) /\ x = Decoded(r) /\ n \in Nat /\ n = Len(x) /\ n >= 1
        /\ real_len[r] = n /\ pending[r] = x[n] /\ x[n] \in Tokens
    BY <2>1 DEF IsCachedRow
  <2>3. PICK s \in Seq(SlotType) : s = tstate[r]
    BY <1>1 DEF TypeOK
  <2>4. PICK l \in Nat : l = Len(s)
    OBVIOUS
  <2>5. PICK m \in Nat : m = n - 1 /\ m + 1 = n
    BY <2>2
  <2>6. Holds(s, l, x, m)
    <3>1. Holds(tstate[r], Len(tstate[r]), x, n - 1)
      BY <2>1 DEF IsCachedRow
    <3> QED
      BY <2>3, <2>4, <2>5, <3>1
  <2>7. PICK toks \in Seq(Tokens) : toks = <<x[n]>> /\ Len(toks) = 1 /\ toks[1] = x[n]
    <3>1. PICK e \in Tokens : e = x[n]
      BY <2>2
    <3>2. <<e>> \in Seq(Tokens) /\ Len(<<e>>) = 1 /\ <<e>>[1] = e
      OBVIOUS
    <3> QED
      BY <3>1, <3>2
  <2>8. PICK f : f = Fed(s, toks, m)
    OBVIOUS
  <2>9. IsFed(f, s, l, toks, 1, m)
    BY <2>4, <2>7, <2>8, FedIs
  <2>10. f \in Seq(SlotType) /\ Len(f) = l + 1
    BY <2>9 DEF IsFed
  <2>11. Holds(f, l + 1, x, m + 1)
    <3>1. PICK g \in Nat : g = 1 /\ 1 \in 0 .. g
      OBVIOUS
    <3>2. \A i \in 1 .. g : toks[i] = x[m + i]
      BY <2>5, <2>7, <3>1
    <3>3. IsFed(f, s, l, toks, g, m)
      BY <2>9, <3>1
    <3> QED
      BY <2>4, <2>6, <3>1, <3>2, <3>3, FedHolds
  <2>12. f = fed[r]
    BY <2>2, <2>3, <2>5, <2>7, <2>8
  <2>13. Holds(f, l + 1, x, n)
    BY <2>5, <2>11
  <2>14. Attended(f, l + 1) = Placed(SubSeq(x, 1, n)) /\ Attended(f, l + 1) \in Seq(Entries)
    <3>1. l + 1 \in 0 .. Len(f) /\ n \in 0 .. Len(x)
      BY <2>2, <2>10
    <3> QED
      BY <2>2, <2>10, <2>13, <3>1, AttendedIs
  <2>15. SubSeq(x, 1, n) = x
    BY <2>2
  <2>16. PICK t \in Tokens : t = Target(Placed(x)) /\ new[r] = <<t>>
    <3>1. Target(Attended(f, l + 1)) \in Tokens /\ Target(Attended(f, l + 1)) = Target(Placed(x))
      BY <2>14, <2>15 DEF TargetIsToken
    <3>2. new[r] = <<Target(Attended(f, l + 1))>>
      BY <1>2, <2>10, <2>12
    <3> QED
      BY <3>1, <3>2
  <2>17. Yields(x, <<t>>) /\ x \o <<t>> = Append(x, t)
    BY <2>2, <2>16, OneYields
  <2>18. tstate'[r] = f
    BY <1>3, <2>12
  <2>19. pending'[r] = t /\ real_len'[r] = n + 1
    <3>1. new[r] = <<t>> /\ Last(<<t>>) = t /\ Len(<<t>>) = 1
      BY <2>16 DEF Last
    <3> QED
      BY <1>4, <2>2, <3>1
  <2>20. ASSUME NEW y, y = Decoded(r) \o new[r]
         PROVE  /\ real_len'[r] = Len(y) /\ pending'[r] = y[Len(y)]
                /\ Holds(tstate'[r], Len(tstate'[r]), y, Len(y) - 1)
    <3>1. IsGrown(Append(x, t), x, n, t)
      BY <2>2, <2>16, OneMore
    <3>2. y = Append(x, t)
      BY <2>2, <2>16, <2>17, <2>20
    <3>3. y \in Seq(Tokens) /\ Len(y) = n + 1 /\ y[n + 1] = t /\ \A i \in 1 .. n : y[i] = x[i]
      BY <3>1, <3>2 DEF IsGrown
    <3>4. Holds(f, l + 1, y, n)
      BY <2>2, <2>13, <3>3, HoldsPrefix
    <3>5. (n + 1) - 1 = n
      BY <2>2
    <3> QED
      BY <2>10, <2>18, <2>19, <3>3, <3>4, <3>5
  <2> QED
    BY <2>2, <2>10, <2>16, <2>17, <2>18, <2>20
<1> HIDE DEF fed
<1>6. /\ Delivered(new) /\ Grows
      /\ \A r \in Rows : /\ Decoded(r) \o new[r] \in Seq(Tokens) /\ Len(Decoded(r) \o new[r]) >= 1
                         /\ r \in Receivers' => Decoded(r) \o new[r] = committed'[r]
  <2>1. \A r \in Rows : Yields(Decoded(r), new[r])
    BY <1>5
  <2>2. pc # "done"
    BY <1>1
  <2> QED
    BY <1>1, <1>4, <2>1, <2>2, DeliverStep
<1>7. Cached' /\ strategy' = strategy
  BY <1>1, <1>6 DEF Delivered, Cached
<1>8. RowsDecode'
  <2> SUFFICES ASSUME NEW r \in Rows PROVE \E x \in Seq(Tokens) : Decodes(r, x)'
    BY DEF RowsDecode
  <2>1. PICK y \in Seq(Tokens) : y = Decoded(r) \o new[r]
    BY <1>6
  <2>2. Decodes(r, y)'
    BY <1>5, <1>6, <1>7, <2>1 DEF Decodes
  <2> QED
    BY <2>2
<1>9. RowsAgree'
  BY <1>8, RowsDoAgree, PTL
<1>10. Recorded'
  <2>1. seen' = [r \in Rows |-> << >>]
    BY <1>1, <1>4 DEF Recorded
  <2>2. DraftSeesItsTenant'
    BY <2>1 DEF DraftSeesItsTenant
  <2> QED
    BY <2>1, <2>2 DEF Recorded
<1>11. tstate' \in [Rows -> Seq(SlotType)]
  <2>1. tstate' = [r \in Rows |-> tstate'[r]]
    BY <1>3 DEF fed
  <2> QED
    BY <1>5, <2>1
<1>12. /\ prop' \in [Rows -> Seq(Tokens)] /\ dstate' \in [Rows -> Seq(SlotType)]
       /\ rows' \in [Rows -> Seq(Tokens)] /\ seen' \in [Rows -> Seq(Seq(RoutedEntries))]
  BY <1>1, <1>3, <1>4 DEF TypeOK
<1> QED
  BY <1>1, <1>3, <1>6, <1>8, <1>9, <1>10, <1>11, <1>12, DeliveredInv

(* A step that leaves alone what the rows have decoded. *)
LEMMA DecodesKept ==
  ASSUME RowsDecode, UNCHANGED <<loop, committed, finish, rows, real_len, pending, tstate>>
  PROVE  RowsDecode'
<1> SUFFICES ASSUME NEW r \in Rows PROVE \E x \in Seq(Tokens) : Decodes(r, x)'
  BY DEF RowsDecode
<1>1. PICK x \in Seq(Tokens) : Decodes(r, x)
  BY DEF RowsDecode
<1>2. Receivers' = Receivers /\ Cached' = Cached
  BY DEF Receivers, Cached
<1>3. Decodes(r, x)'
  BY <1>1, <1>2 DEF Decodes
<1> QED
  BY <1>3

(* A step of the draft preserves the invariant. *)
LEMMA ProposeInv ==
  ASSUME EagerInv, Propose
  PROVE  EagerInv' /\ Grows
<1>1. /\ TypeOK /\ RowsDecode /\ InStep /\ Progress /\ Recorded
      /\ pc = "iterate" /\ Cached
  BY DEF EagerInv, Propose
<1>2. /\ loop' = loop /\ strategy' = strategy /\ adapter' = adapter /\ it' = it
      /\ committed' = committed /\ start' = start /\ finish' = finish /\ rows' = rows /\ seen' = seen
      /\ real_len' = real_len /\ pending' = pending /\ tstate' = tstate
  BY DEF Propose
<1>3. PICK t \in [Rows -> Tokens] : prop' = [r \in Rows |-> Append(prop[r], t[r])]
  BY DEF Propose
<1>4. pc' = IF \A r \in Rows : Len(prop'[r]) = Gamma THEN "verify" ELSE "iterate"
  BY DEF Propose
<1>5. ASSUME NEW r \in Rows
      PROVE  /\ prop'[r] \in Seq(Tokens) /\ Len(prop'[r]) = Len(prop[r]) + 1
             /\ dstate'[r] \in Seq(SlotType)
  <2>1. PICK p \in Seq(Tokens) : p = prop[r]
    BY <1>1 DEF TypeOK
  <2>2. PICK u \in Tokens : u = t[r]
    OBVIOUS
  <2>3. prop'[r] \in Seq(Tokens) /\ Len(prop'[r]) = Len(prop[r]) + 1
    BY <1>3, <2>1, <2>2
  <2>4. PICK x \in Seq(Tokens), n \in Nat : IsCachedRow(r, x, n)
    BY <1>1, CachedRow
  <2>5. n >= 1 /\ real_len[r] = n /\ pending[r] \in Tokens
    BY <2>4 DEF IsCachedRow
  <2>6. PICK e \in Tokens : e = IF p = << >> THEN pending[r] ELSE Last(p)
    <3>1. CASE p = << >>
      BY <2>5, <3>1
    <3>2. CASE p # << >>
      <4>1. PICK k \in Nat : k = Len(p) /\ k >= 1
        BY <2>1, <3>2
      <4>2. p[k] \in Tokens
        BY <4>1
      <4> QED
        BY <3>2, <4>1, <4>2 DEF Last
    <3> QED
      BY <3>1, <3>2
  <2>7. PICK toks \in Seq(Tokens) : toks = <<e>> /\ Len(toks) = 1
    <3>1. <<e>> \in Seq(Tokens) /\ Len(<<e>>) = 1
      OBVIOUS
    <3> QED
      BY <3>1
  <2>8. PICK pos \in Nat : pos = real_len[r] - 1 + Len(p)
    <3>1. PICK k \in Nat : k = Len(p)
      OBVIOUS
    <3>2. n - 1 + k \in Nat
      BY <2>5
    <3> QED
      BY <2>5, <3>1, <3>2
  <2>9. PICK s \in Seq(SlotType) : s = dstate[r]
    BY <1>1 DEF TypeOK
  <2>10. PICK l \in Nat : l = Len(s)
    OBVIOUS
  <2>11. IsFed(Fed(s, toks, pos), s, l, toks, 1, pos)
    BY <2>7, <2>10, FedIs
  <2>12. dstate'[r] = Fed(s, toks, pos)
    BY <2>1, <2>6, <2>7, <2>8, <2>9 DEF Propose
  <2> QED
    BY <2>3, <2>11, <2>12 DEF IsFed
<1>6. RowsDecode'
  BY <1>1, <1>2, DecodesKept
<1>7. RowsAgree'
  BY <1>6, RowsDoAgree, PTL
<1>8. TypeOK'
  <2>1. /\ loop' \in DOMAIN AllStrategies /\ strategy' \in AllStrategies[loop'] /\ adapter' \in Routings
        /\ it' \in 0 .. IF loop' = "run_strategy" THEN Iters ELSE MaxIt
        /\ committed' \in [Rows -> Seq(Tokens)] /\ start' \in [Rows -> Nat] /\ finish' \in [Rows -> 0 .. MaxIt]
        /\ tstate' \in [Rows -> Seq(SlotType)]
        /\ rows' \in [Rows -> Seq(Tokens)] /\ seen' \in [Rows -> Seq(Seq(RoutedEntries))]
    BY <1>1, <1>2 DEF TypeOK
  <2>2. pc' \in {"iterate", "verify", "done"}
    BY <1>4
  <2>3. prop' \in [Rows -> Seq(Tokens)]
    BY <1>3, <1>5
  <2>4. dstate' \in [Rows -> Seq(SlotType)]
    BY <1>5 DEF Propose
  <2>5. \A r \in Receivers' :
          IF Cached'
            THEN real_len'[r] = Len(committed'[r]) /\ pending'[r] = Last(committed'[r])
            ELSE rows'[r] = committed'[r]
    BY <1>7 DEF RowsAgree
  <2> QED
    BY <2>1, <2>2, <2>3, <2>4, <2>5 DEF TypeOK
<1>9. InStep'
  <2>1. PICK k \in 0 .. Gamma - 1 : \A r \in Rows : Len(prop[r]) = k
    BY <1>1 DEF InStep
  <2>2. Gamma \in Nat /\ k \in Nat /\ k + 1 <= Gamma
    BY DecodingAssumption
  <2>3. \A r \in Rows : Len(prop'[r]) = k + 1
    BY <1>5, <2>1
  <2>4. CASE \A r \in Rows : Len(prop'[r]) = Gamma
    <3>1. pc' = "verify" /\ Cached'
      BY <1>1, <1>2, <1>4, <2>4 DEF Cached
    <3> QED
      BY <2>4, <3>1 DEF InStep
  <2>5. CASE ~ \A r \in Rows : Len(prop'[r]) = Gamma
    <3>1. pc' = "iterate"
      BY <1>4, <2>5
    <3>2. k + 1 # Gamma
      BY <2>3, <2>5
    <3>3. k + 1 \in 0 .. Gamma - 1
      BY <2>2, <3>2
    <3> QED
      BY <2>3, <3>1, <3>3 DEF InStep
  <2> QED
    BY <2>4, <2>5
<1>10. Progress' /\ Recorded'
  <2>1. pc' # "done" /\ pc # "done"
    BY <1>1, <1>4
  <2>2. Progress'
    BY <1>1, <1>2, <2>1 DEF Progress
  <2>3. Recorded'
    BY <1>1, <1>2 DEF Recorded, DraftSeesItsTenant, Cached
  <2> QED
    BY <2>2, <2>3
<1>11. Grows
  BY <1>2 DEF Grows
<1> QED
  BY <1>6, <1>8, <1>9, <1>10, <1>11 DEF EagerInv

(* What Verify computes for row r. *)
VerifiesRow(r, fed, pred, a, new, kept, y) ==
  /\ fed = Fed(tstate[r], <<pending[r]>> \o prop[r], real_len[r] - 1)
  /\ \A i \in 1 .. Gamma + 1 : pred[i] = Target(Attended(fed, Len(tstate[r]) + i))
  /\ a = Accepted(prop[r], pred)
  /\ new = Commits(prop[r], pred)
  /\ kept = MaskTail(fed, Gamma + 1, a + 1)
  /\ y = Decoded(r) \o new

(* The target's caches and what is committed, of one row that is verified. *)
LEMMA VerifiedRow ==
  ASSUME TargetIsToken, TypeOK, RowsDecode, Cached, NEW r \in Rows, Len(prop[r]) = Gamma,
         NEW fed, NEW pred, NEW a, NEW new, NEW kept, NEW y,
         VerifiesRow(r, fed, pred, a, new, kept, y)
  PROVE  /\ Yields(Decoded(r), new) /\ kept \in Seq(SlotType) /\ a \in 0 .. Gamma
         /\ real_len[r] + Len(new) = Len(y) /\ Last(new) = y[Len(y)]
         /\ Holds(kept, Len(kept), y, Len(y) - 1)
<1> USE DEF VerifiesRow
<1>1. PICK x \in Seq(Tokens), n \in Nat : IsCachedRow(r, x, n)
  BY CachedRow
<1>2. /\ x = Decoded(r) /\ n = Len(x) /\ n >= 1
      /\ real_len[r] = n /\ pending[r] = x[n] /\ x[n] \in Tokens
  BY <1>1 DEF IsCachedRow
<1>3. PICK s \in Seq(SlotType) : s = tstate[r]
  BY DEF TypeOK
<1>4. PICK l \in Nat : l = Len(s)
  OBVIOUS
<1>5. PICK m \in Nat : m = n - 1 /\ m + 1 = n
  <2>1. n >= 1
    BY <1>2
  <2> QED
    BY <2>1
<1>6. Holds(s, l, x, m)
  <2>1. Holds(tstate[r], Len(tstate[r]), x, n - 1)
    BY <1>1 DEF IsCachedRow
  <2> QED
    BY <1>3, <1>4, <1>5, <2>1
<1>7. PICK g \in Nat : g = Gamma /\ g + 1 = Gamma + 1
  BY DecodingAssumption
<1>8. PICK p \in Seq(Tokens) : p = prop[r] /\ Len(p) = g
  BY <1>7 DEF TypeOK
<1>9. PICK z : z = x \o p
  OBVIOUS
<1>10. /\ z \in Seq(Tokens) /\ Len(z) = n + g
       /\ \A i \in 1 .. n : z[i] = x[i]
       /\ \A j \in 1 .. g : z[n + j] = p[j]
  <2>1. /\ z \in Seq(Tokens) /\ Len(z) = Len(x) + Len(p)
        /\ \A i \in 1 .. Len(x) : z[i] = x[i]
        /\ \A j \in 1 .. Len(p) : z[Len(x) + j] = p[j]
    BY <1>9, JoinIs
  <2>2. n = Len(x) /\ g = Len(p)
    BY <1>2, <1>8
  <2> QED
    BY <2>1, <2>2
<1>11. PICK toks : toks = <<x[n]>> \o p
  OBVIOUS
<1>12. toks \in Seq(Tokens) /\ Len(toks) = g + 1 /\ \A i \in 1 .. g + 1 : toks[i] = z[m + i]
  <2>1. PICK e \in Tokens : e = x[n]
    BY <1>2
  <2>2. PICK one \in Seq(Tokens) : one = <<e>> /\ Len(one) = 1 /\ one[1] = e
    <3>1. <<e>> \in Seq(Tokens) /\ Len(<<e>>) = 1 /\ <<e>>[1] = e
      OBVIOUS
    <3> QED
      BY <3>1
  <2>3. /\ toks \in Seq(Tokens) /\ Len(toks) = 1 + g
        /\ \A i \in 1 .. 1 : toks[i] = one[i]
        /\ \A j \in 1 .. g : toks[1 + j] = p[j]
    <3>1. toks = one \o p
      BY <1>11, <2>1, <2>2
    <3>2. /\ one \o p \in Seq(Tokens) /\ Len(one \o p) = Len(one) + Len(p)
          /\ \A i \in 1 .. Len(one) : (one \o p)[i] = one[i]
          /\ \A j \in 1 .. Len(p) : (one \o p)[Len(one) + j] = p[j]
      BY JoinIs
    <3>3. Len(one) = 1 /\ Len(p) = g
      BY <1>8, <2>2
    <3> QED
      BY <3>1, <3>2, <3>3
  <2>4. toks[1] = z[m + 1]
    <3>1. n \in 1 .. n
      BY <1>2
    <3>2. toks[1] = e
      BY <2>2, <2>3
    <3> QED
      BY <1>5, <1>10, <2>1, <3>1, <3>2
  <2>5. ASSUME NEW i \in 1 .. g + 1 PROVE toks[i] = z[m + i]
    <3>1. CASE i = 1
      BY <2>4, <3>1
    <3>2. CASE i # 1
      <4>1. PICK j \in 1 .. g : i = 1 + j /\ m + i = n + j
        <5>1. i - 1 \in 1 .. g /\ i = 1 + (i - 1) /\ m + i = n + (i - 1)
          BY <1>5, <3>2, SMTT(30)
        <5> QED
          BY <5>1
      <4> QED
        BY <1>10, <2>3, <4>1
    <3> QED
      BY <3>1, <3>2
  <2> QED
    BY <2>3, <2>5
<1>13. IsFed(fed, s, l, toks, g + 1, m)
  <2>1. fed = Fed(s, toks, m)
    BY <1>2, <1>3, <1>5, <1>8, <1>11
  <2> QED
    BY <1>4, <1>12, <2>1, FedIs
<1>14. fed \in Seq(SlotType) /\ Len(fed) = l + (g + 1)
  BY <1>13 DEF IsFed
<1>15. ASSUME NEW k \in 0 .. g + 1 PROVE Holds(fed, l + k, z, m + k)
  <2>1. \A i \in 1 .. m : z[i] = x[i]
    BY <1>5, <1>10
  <2>2. Holds(s, l, z, m)
    BY <1>6, <2>1, HoldsPrefix
  <2> QED
    <3>1. PICK g1 \in Nat : g1 = g + 1 /\ k \in 0 .. g1
      OBVIOUS
    <3>2. IsFed(fed, s, l, toks, g1, m) /\ \A i \in 1 .. g1 : toks[i] = z[m + i]
      BY <1>12, <1>13, <3>1
    <3> QED
      BY <1>4, <2>2, <3>1, <3>2, FedHolds
<1>16. IsVerified(pred, x, p)
  <2> SUFFICES ASSUME NEW i \in 1 .. g + 1
               PROVE  pred[i] \in Tokens /\ pred[i] = Target(Placed(SubSeq(z, 1, n - 1 + i)))
    BY <1>2, <1>7, <1>9 DEF IsVerified
  <2>1. PICK k \in Nat : k = m + i /\ k = n - 1 + i /\ k \in 0 .. Len(z) /\ l + i \in 0 .. Len(fed)
    BY <1>5, <1>10, <1>14
  <2>2. Holds(fed, l + i, z, k)
    <3>1. i \in 0 .. g + 1
      OBVIOUS
    <3> QED
      BY <1>15, <2>1, <3>1
  <2>3. Attended(fed, l + i) = Placed(SubSeq(z, 1, k)) /\ Attended(fed, l + i) \in Seq(Entries)
    BY <1>10, <1>14, <2>1, <2>2, AttendedIs
  <2>4. pred[i] = Target(Attended(fed, l + i))
    BY <1>3, <1>4, <1>7
  <2> QED
    BY <2>1, <2>3, <2>4 DEF TargetIsToken
<1>17. /\ Yields(x, new) /\ a \in 0 .. g /\ Len(new) = a + 1
       /\ \A i \in 1 .. n + a : y[i] = z[i]
  <2>1. /\ Yields(x, Commits(p, pred)) /\ Accepted(p, pred) \in 0 .. Gamma
        /\ Len(Commits(p, pred)) = Accepted(p, pred) + 1
        /\ \A i \in 1 .. Len(x) + Accepted(p, pred) : (x \o Commits(p, pred))[i] = (x \o p)[i]
    <3>1. Len(p) = Gamma
      BY <1>7, <1>8
    <3> QED
      BY <1>16, <3>1, VerifiedYields, SMTT(30)
  <2>2. Commits(p, pred) = new /\ Accepted(p, pred) = a /\ x \o new = y /\ x \o p = z
    BY <1>2, <1>8, <1>9
  <2>3. n = Len(x) /\ g = Gamma
    BY <1>2, <1>7
  <2> QED
    BY <2>1, <2>2, <2>3
<1>18. new \in Seq(Tokens) /\ Len(y) = n + (a + 1) /\ y[n + (a + 1)] = new[a + 1]
  BY <1>2, <1>17 DEF Yields
<1>19. PICK b \in Nat : b = a + 1 /\ b \in 0 .. g + 1 /\ m + b = n + a
  BY <1>5, <1>17
<1>20. Holds(kept, l + (g + 1), z, m + b)
  <2>1. \A i \in 1 .. b : fed[l + i].real
    <3> SUFFICES ASSUME NEW i \in 1 .. b PROVE fed[l + i].real
      OBVIOUS
    <3>1. i \in 1 .. g + 1
      BY <1>19
    <3>2. fed[l + i] = [tok |-> toks[i], pos |-> m + i - 1, real |-> TRUE]
      BY <1>13, <3>1 DEF IsFed
    <3> QED
      BY <3>2
  <2>2. Holds(fed, l + b, z, m + b)
    BY <1>15, <1>19
  <2>3. PICK g1 \in Nat : g1 = g + 1
    OBVIOUS
  <2>4. Len(fed) = l + g1 /\ b \in 0 .. g1
    BY <1>14, <1>19, <2>3
  <2>5. Holds(MaskTail(fed, g1, b), l + g1, z, m + b)
    BY <1>14, <2>1, <2>2, <2>4, MaskHolds
  <2> QED
    BY <1>7, <1>19, <2>3, <2>5
<1>21. kept \in Seq(SlotType) /\ Len(kept) = l + (g + 1)
  <2>1. PICK g1 \in Nat : g1 = g + 1
    OBVIOUS
  <2>2. IsMasked(MaskTail(fed, g1, b), fed, l, g1, b)
    BY <1>14, <2>1, MaskIs
  <2>3. kept = MaskTail(fed, g1, b)
    BY <1>7, <1>19, <2>1
  <2> QED
    BY <2>1, <2>2, <2>3 DEF IsMasked
<1>22. PICK k \in Nat : k = n + a /\ k = m + b
  BY <1>17, <1>19
<1>23. Holds(kept, l + (g + 1), y, k)
  <2>1. Holds(kept, l + (g + 1), z, k) /\ \A i \in 1 .. k : y[i] = z[i]
    BY <1>17, <1>20, <1>22
  <2> QED
    BY <2>1, HoldsPrefix
<1>24. Len(y) - 1 = k /\ real_len[r] + Len(new) = Len(y) /\ Last(new) = y[Len(y)]
  <2>1. Last(new) = new[a + 1]
    BY <1>17 DEF Last
  <2>2. n + (a + 1) - 1 = n + a
    BY <1>17
  <2> QED
    BY <1>2, <1>17, <1>18, <1>22, <2>1, <2>2, SMTT(30)
<1>25. Holds(kept, Len(kept), y, Len(y) - 1)
  BY <1>21, <1>23, <1>24
<1> QED
  BY <1>2, <1>7, <1>17, <1>21, <1>24, <1>25

(* The draft's cache after a verification is a cache. *)
LEMMA DraftTyped ==
  ASSUME TypeOK, RowsDecode, Cached, NEW r \in Rows, Len(prop[r]) = Gamma, NEW a \in 0 .. Gamma,
         NEW kept, kept = MaskTail(dstate[r], Gamma, a),
         NEW last, last = Fed(kept, <<Last(prop[r])>>, real_len[r] - 1 + Gamma)
  PROVE  kept \in Seq(SlotType) /\ \A b \in Int : MaskTail(last, 1, b) \in Seq(SlotType)
<1>1. kept \in Seq(SlotType)
  <2>1. PICK s \in Seq(SlotType) : s = dstate[r]
    BY DEF TypeOK
  <2>2. a \in Int
    BY DecodingAssumption
  <2> QED
    BY <2>1, <2>2, MaskTyped
<1>2. PICK x \in Seq(Tokens), n \in Nat : IsCachedRow(r, x, n)
  BY CachedRow
<1>3. n >= 1 /\ real_len[r] = n
  BY <1>2 DEF IsCachedRow
<1>4. PICK g \in Nat : g = Gamma /\ g >= 1
  BY DecodingAssumption
<1>5. PICK toks \in Seq(Tokens) : toks = <<Last(prop[r])>> /\ Len(toks) = 1
  <2>1. PICK p \in Seq(Tokens) : p = prop[r] /\ Len(p) = g
    BY <1>4 DEF TypeOK
  <2>2. PICK e \in Tokens : e = Last(prop[r])
    <3>1. p[g] \in Tokens
      BY <1>4, <2>1
    <3> QED
      BY <2>1, <3>1 DEF Last
  <2>3. <<e>> \in Seq(Tokens) /\ Len(<<e>>) = 1
    OBVIOUS
  <2> QED
    BY <2>2, <2>3
<1>6. PICK pos \in Nat : pos = real_len[r] - 1 + Gamma
  <2>1. n - 1 + g \in Nat
    BY <1>3
  <2> QED
    BY <1>3, <1>4, <2>1
<1>7. PICK k \in Nat : k = Len(kept)
  BY <1>1
<1>8. IsFed(Fed(kept, toks, pos), kept, k, toks, 1, pos)
  BY <1>1, <1>5, <1>7, FedIs
<1>9. last \in Seq(SlotType)
  BY <1>5, <1>6, <1>8 DEF IsFed
<1>10. \A b \in Int : MaskTail(last, 1, b) \in Seq(SlotType)
  BY <1>9, MaskTyped
<1> QED
  BY <1>1, <1>10

(* A verification preserves the invariant. *)
LEMMA VerifyInv ==
  ASSUME TargetIsToken, EagerInv, Verify
  PROVE  EagerInv' /\ Grows
<1>1. /\ TypeOK /\ RowsDecode /\ InStep /\ Progress /\ Recorded
      /\ pc = "verify" /\ Cached /\ \A r \in Rows : Len(prop[r]) = Gamma
  BY DEF EagerInv, Verify, InStep
<1> DEFINE fed == [r \in Rows |-> Fed(tstate[r], <<pending[r]>> \o prop[r], real_len[r] - 1)]
<1>2. PICK pred : pred = Predicted(fed)
  OBVIOUS
<1> DEFINE acc  == [r \in Rows |-> Accepted(prop[r], pred[r])]
           kept == [r \in Rows |-> MaskTail(dstate[r], Gamma, acc[r])]
           last == [r \in Rows |-> Fed(kept[r], <<Last(prop[r])>>, real_len[r] - 1 + Gamma)]
<1>3. PICK new : new = [r \in Rows |-> Commits(prop[r], pred[r])]
  OBVIOUS
<1>4. /\ tstate' = [r \in Rows |-> MaskTail(fed[r], Gamma + 1, KeptVerified(acc[r]))]
      /\ dstate' = IF \E r \in Rows : acc[r] = Gamma
                     THEN [r \in Rows |-> MaskTail(last[r], 1, IF acc[r] = Gamma THEN 1 ELSE 0)]
                     ELSE kept
      /\ prop' = [r \in Rows |-> << >>]
      /\ Commit(new)
  BY <1>2, <1>3 DEF Verify
<1>5. /\ Deliver(new) /\ rows' = rows /\ seen' = seen
      /\ pending' = [r \in Rows |-> Last(new[r])]
      /\ real_len' = [r \in Rows |-> real_len[r] + Len(new[r])]
  BY <1>4 DEF Commit
<1>6. ASSUME NEW r \in Rows
      PROVE  /\ Yields(Decoded(r), new[r]) /\ tstate'[r] \in Seq(SlotType)
             /\ acc[r] \in 0 .. Gamma
             /\ \A y : y = Decoded(r) \o new[r] =>
                  /\ real_len'[r] = Len(y) /\ pending'[r] = y[Len(y)]
                  /\ Holds(tstate'[r], Len(tstate'[r]), y, Len(y) - 1)
  <2>1. PICK f : f = Fed(tstate[r], <<pending[r]>> \o prop[r], real_len[r] - 1)
    OBVIOUS
  <2>2. PICK q : q = pred[r]
    OBVIOUS
  <2>3. \A i \in 1 .. Gamma + 1 : q[i] = Target(Attended(f, Len(tstate[r]) + i))
    BY <1>2, <2>1, <2>2 DEF Predicted
  <2>4. PICK a : a = Accepted(prop[r], q)
    OBVIOUS
  <2>5. PICK w : w = Commits(prop[r], q)
    OBVIOUS
  <2>6. PICK k : k = MaskTail(f, Gamma + 1, a + 1)
    OBVIOUS
  <2>7. PICK y : y = Decoded(r) \o w
    OBVIOUS
  <2>8. VerifiesRow(r, f, q, a, w, k, y)
    BY <2>1, <2>3, <2>4, <2>5, <2>6, <2>7 DEF VerifiesRow
  <2>9. /\ Yields(Decoded(r), w) /\ k \in Seq(SlotType) /\ a \in 0 .. Gamma
        /\ real_len[r] + Len(w) = Len(y) /\ Last(w) = y[Len(y)]
        /\ Holds(k, Len(k), y, Len(y) - 1)
    BY <1>1, <2>8, VerifiedRow
  <2>10. acc[r] = a /\ new[r] = w
    BY <1>3, <2>2, <2>4, <2>5
  <2>11. tstate'[r] = k
    BY <1>4, <2>1, <2>6, <2>10 DEF KeptVerified
  <2>12. pending'[r] = Last(w) /\ real_len'[r] = real_len[r] + Len(w)
    BY <1>5, <2>10
  <2> HIDE DEF acc
  <2> QED
    BY <2>7, <2>9, <2>10, <2>11, <2>12
<1>7. dstate' \in [Rows -> Seq(SlotType)]
  <2>1. ASSUME NEW r \in Rows
        PROVE  kept[r] \in Seq(SlotType) /\ \A b \in Int : MaskTail(last[r], 1, b) \in Seq(SlotType)
    <3>1. PICK a \in 0 .. Gamma : a = acc[r]
      BY <1>6
    <3>2. PICK k : k = MaskTail(dstate[r], Gamma, a)
      OBVIOUS
    <3>3. PICK e : e = Fed(k, <<Last(prop[r])>>, real_len[r] - 1 + Gamma)
      OBVIOUS
    <3>4. k \in Seq(SlotType) /\ \A b \in Int : MaskTail(e, 1, b) \in Seq(SlotType)
      BY <1>1, <3>2, <3>3, DraftTyped
    <3> HIDE DEF acc
    <3>5. kept[r] = k /\ last[r] = e
      BY <3>1, <3>2, <3>3
    <3> QED
      BY <3>4, <3>5
  <2> HIDE DEF acc, last
  <2>2. CASE \E r \in Rows : acc[r] = Gamma
    <3>1. dstate' = [r \in Rows |-> MaskTail(last[r], 1, IF acc[r] = Gamma THEN 1 ELSE 0)]
      BY <1>4, <2>2
    <3>2. \A r \in Rows : (IF acc[r] = Gamma THEN 1 ELSE 0) \in Int
      OBVIOUS
    <3>3. \A r \in Rows : MaskTail(last[r], 1, IF acc[r] = Gamma THEN 1 ELSE 0) \in Seq(SlotType)
      BY <2>1, <3>2
    <3> QED
      BY <3>1, <3>3
  <2>3. CASE ~ \E r \in Rows : acc[r] = Gamma
    <3>1. dstate' = kept
      BY <1>4, <2>3
    <3> QED
      BY <2>1, <3>1
  <2> QED
    BY <2>2, <2>3
<1> HIDE DEF fed, acc, kept, last
<1>8. /\ Delivered(new) /\ Grows
      /\ \A r \in Rows : /\ Decoded(r) \o new[r] \in Seq(Tokens) /\ Len(Decoded(r) \o new[r]) >= 1
                         /\ r \in Receivers' => Decoded(r) \o new[r] = committed'[r]
  <2>1. \A r \in Rows : Yields(Decoded(r), new[r])
    BY <1>6
  <2>2. pc # "done"
    BY <1>1
  <2> QED
    BY <1>1, <1>5, <2>1, <2>2, DeliverStep
<1>9. Cached' /\ strategy' = strategy
  BY <1>1, <1>8 DEF Delivered, Cached
<1>10. RowsDecode'
  <2> SUFFICES ASSUME NEW r \in Rows PROVE \E x \in Seq(Tokens) : Decodes(r, x)'
    BY DEF RowsDecode
  <2>1. PICK y \in Seq(Tokens) : y = Decoded(r) \o new[r]
    BY <1>8
  <2>2. Decodes(r, y)'
    BY <1>6, <1>8, <1>9, <2>1 DEF Decodes
  <2> QED
    BY <2>2
<1>11. RowsAgree'
  BY <1>10, RowsDoAgree, PTL
<1>12. Recorded'
  <2>1. seen' = [r \in Rows |-> << >>]
    BY <1>1, <1>5 DEF Recorded
  <2>2. DraftSeesItsTenant'
    BY <2>1 DEF DraftSeesItsTenant
  <2> QED
    BY <1>9, <2>1, <2>2 DEF Recorded
<1>13. tstate' \in [Rows -> Seq(SlotType)]
  <2>1. tstate' = [r \in Rows |-> tstate'[r]]
    BY <1>4
  <2> QED
    BY <1>6, <2>1
<1>14. prop' \in [Rows -> Seq(Tokens)] /\ \A r \in Rows : Len(prop'[r]) = 0
  BY <1>4
<1>15. rows' \in [Rows -> Seq(Tokens)] /\ seen' \in [Rows -> Seq(Seq(RoutedEntries))]
  BY <1>1, <1>5 DEF TypeOK
<1> QED
  BY <1>1, <1>7, <1>8, <1>10, <1>11, <1>12, <1>13, <1>14, <1>15, DeliveredInv

(* A step that changes nothing preserves the invariant. *)
LEMMA SameInv ==
  ASSUME EagerInv, UNCHANGED vars
  PROVE  EagerInv' /\ Grows
<1>1. /\ loop' = loop /\ strategy' = strategy /\ adapter' = adapter /\ pc' = pc /\ it' = it
      /\ committed' = committed /\ start' = start /\ finish' = finish /\ rows' = rows /\ seen' = seen
      /\ real_len' = real_len /\ pending' = pending /\ prop' = prop
      /\ dstate' = dstate /\ tstate' = tstate
  BY DEF vars, recomputeVars, loopVars, cachedVars
<1>2. RowsDecode'
  BY <1>1, DecodesKept DEF EagerInv
<1>3. TypeOK'
  BY <1>1 DEF EagerInv, TypeOK, Receivers, Cached
<1>4. InStep' /\ Progress' /\ Recorded'
  <2>1. InStep'
    BY <1>1 DEF EagerInv, InStep, Cached
  <2>2. Progress'
    BY <1>1 DEF EagerInv, Progress
  <2>3. Recorded'
    <3>1. Recorded
      BY DEF EagerInv
    <3>2. \A r \in Rows : SeesItsTenant(seen[r], rows[r], IF strategy = "shared_draft" THEN NoLora ELSE adapter[r])
      BY <3>1 DEF Recorded, DraftSeesItsTenant, SeesItsTenant
    <3>3. \A r \in Rows : SeesItsTenant(seen'[r], rows'[r], IF strategy' = "shared_draft" THEN NoLora ELSE adapter'[r])
      BY <1>1, <3>2
    <3>4. DraftSeesItsTenant'
      BY <3>3 DEF DraftSeesItsTenant, SeesItsTenant
    <3> QED
      BY <1>1, <3>1, <3>4 DEF Recorded, Cached
  <2> QED
    BY <2>1, <2>2, <2>3
<1>5. Grows
  BY <1>1 DEF Grows
<1> QED
  BY <1>2, <1>3, <1>4, <1>5 DEF EagerInv

(* After prefill every row has decoded its prompt. *)
LEMMA InitInv ==
  Init => EagerInv
<1> SUFFICES ASSUME Init PROVE EagerInv
  OBVIOUS
<1> DEFINE none == [r \in Rows |-> << >>]
           cache(prompt) == [r \in Rows |-> Prefilled(prompt[r], Width(prompt))]
<1>1. PICK prompt \in [Rows -> Prompts] :
        /\ loop \in DOMAIN AllStrategies /\ strategy \in AllStrategies[loop]
        /\ adapter \in Routings
        /\ pc = "iterate"
        /\ it = 0
        /\ committed = prompt
        /\ start = [r \in Rows |-> Len(prompt[r])]
        /\ finish = [r \in Rows |-> 0]
        /\ real_len = start
        /\ pending = [r \in Rows |-> Last(prompt[r])]
        /\ prop = none
        /\ dstate = IF Cached /\ strategy # "no_spec" THEN cache(prompt) ELSE none
        /\ tstate = IF Cached THEN cache(prompt) ELSE none
        /\ rows = IF Cached THEN none ELSE prompt
        /\ seen = none
  BY DEF Init
<1>2. PICK c : c = cache(prompt)
  OBVIOUS
<1>3. Iters \in Nat \ {0} /\ OutTokens \in Nat \ {0} /\ MaxIt \in Nat
  BY RecomputeAssumption
<1>4. PICK k \in Nat : Rows = 1 .. k
  <2>1. PICK a : a \in Routings /\ a = adapter
    BY <1>1
  <2>2. Rows = 1 .. Len(a)
    BY <2>1, RoutingAssumption
  <2> QED
    BY <1>1, <2>2, RoutingAssumption
<1>5. ASSUME NEW r \in Rows
      PROVE  /\ prompt[r] \in Seq(Tokens) /\ Len(prompt[r]) \in Nat /\ Len(prompt[r]) >= 2
             /\ Last(prompt[r]) = prompt[r][Len(prompt[r])]
  BY DecodingAssumption DEF Last
<1>6. prompt \in [Rows -> Seq(Tokens)]
  BY <1>5
<1>7. ASSUME NEW r \in Rows
      PROVE  /\ c[r] \in Seq(SlotType)
             /\ Holds(c[r], Len(c[r]), prompt[r], Len(prompt[r]) - 1)
  <2>1. prompt \in [1 .. k -> Seq(Tokens)] /\ r \in 1 .. k
    BY <1>4, <1>6
  <2>2. Width(prompt) \in Nat /\ Len(prompt[r]) \in 0 .. Width(prompt)
    BY <2>1, WidthIs
  <2>3. PICK S \in Nat : S = Width(prompt) /\ Len(prompt[r]) <= S
    BY <2>2
  <2>4. PICK x \in Seq(Tokens) : x = prompt[r]
    BY <1>5
  <2>5. PICK n \in Nat : n = Len(x) /\ n >= 1 /\ n <= S
    BY <1>5, <2>3, <2>4
  <2>6. /\ Prefilled(x, S) \in Seq(SlotType)
        /\ Holds(Prefilled(x, S), Len(Prefilled(x, S)), x, n - 1)
    BY <2>5, PrefilledHolds
  <2>7. c[r] = Prefilled(x, S)
    BY <1>2, <2>3, <2>4
  <2> QED
    BY <2>4, <2>5, <2>6, <2>7
<1>8. RowsDecode
  <2> SUFFICES ASSUME NEW r \in Rows PROVE \E x \in Seq(Tokens) : Decodes(r, x)
    BY DEF RowsDecode
  <2>1. PICK x \in Seq(Tokens) : x = prompt[r] /\ Len(x) \in Nat /\ Len(x) >= 1
    BY <1>5
  <2>2. r \in Receivers => x = committed[r]
    BY <1>1, <2>1
  <2>3. ~Cached => rows[r] = x
    BY <1>1, <2>1
  <2>4. Cached => /\ real_len[r] = Len(x) /\ pending[r] = x[Len(x)]
                  /\ Holds(tstate[r], Len(tstate[r]), x, Len(x) - 1)
    <3> SUFFICES ASSUME Cached
                 PROVE  /\ real_len[r] = Len(x) /\ pending[r] = x[Len(x)]
                        /\ Holds(tstate[r], Len(tstate[r]), x, Len(x) - 1)
      OBVIOUS
    <3>1. real_len[r] = Len(x) /\ pending[r] = x[Len(x)]
      BY <1>1, <1>5, <2>1
    <3>2. tstate[r] = c[r]
      BY <1>1, <1>2
    <3> QED
      BY <1>7, <2>1, <3>1, <3>2
  <2>5. Decodes(r, x)
    BY <2>1, <2>2, <2>3, <2>4 DEF Decodes
  <2> QED
    BY <2>5
<1>9. RowsAgree
  BY <1>8, RowsDoAgree
<1>10. c \in [Rows -> Seq(SlotType)]
  BY <1>2, <1>7
<1>11. \A T : none \in [Rows -> Seq(T)]
  OBVIOUS
<1> HIDE DEF none, cache
<1>12. /\ dstate \in [Rows -> Seq(SlotType)] /\ tstate \in [Rows -> Seq(SlotType)]
       /\ rows \in [Rows -> Seq(Tokens)] /\ prop \in [Rows -> Seq(Tokens)]
       /\ seen \in [Rows -> Seq(Seq(RoutedEntries))]
  <2>1. dstate \in [Rows -> Seq(SlotType)] /\ tstate \in [Rows -> Seq(SlotType)]
    BY <1>1, <1>2, <1>10, <1>11
  <2>2. rows \in [Rows -> Seq(Tokens)] /\ prop \in [Rows -> Seq(Tokens)]
    BY <1>1, <1>6, <1>11
  <2>3. seen \in [Rows -> Seq(Seq(RoutedEntries))]
    BY <1>1, <1>11
  <2> QED
    BY <2>1, <2>2, <2>3
<1>13. TypeOK
  <2>1. committed \in [Rows -> Seq(Tokens)] /\ start \in [Rows -> Nat] /\ finish \in [Rows -> 0 .. MaxIt]
    BY <1>1, <1>3, <1>5, <1>6
  <2>2. it \in 0 .. IF loop = "run_strategy" THEN Iters ELSE MaxIt
    BY <1>1, <1>3
  <2> QED
    BY <1>1, <1>9, <1>12, <2>1, <2>2 DEF TypeOK, RowsAgree
<1>14. InStep
  <2>1. 0 \in 0 .. Gamma - 1
    BY DecodingAssumption
  <2>2. \A r \in Rows : Len(prop[r]) = 0
    BY <1>1 DEF none
  <2> QED
    BY <1>1, <2>1, <2>2 DEF InStep
<1>15. Progress
  BY <1>1, <1>3, <1>5 DEF Progress
<1>16. Recorded
  BY <1>1 DEF Recorded, DraftSeesItsTenant, none
<1> QED
  BY <1>8, <1>13, <1>14, <1>15, <1>16 DEF EagerInv

-----------------------------------------------------------------------------
(***************************************************************************)
(* The theorems.                                                           *)
(***************************************************************************)

(* Every step preserves the invariant, and takes back nothing. *)
LEMMA StepInv ==
  ASSUME TargetIsToken, EagerInv, [Next]_vars
  PROVE  EagerInv' /\ Grows
<1>1. CASE PlainStep
  BY <1>1, PlainStepInv
<1>2. CASE Propose
  BY <1>2, ProposeInv
<1>3. CASE Verify
  BY <1>3, VerifyInv
<1>4. CASE NospecIter /\ UNCHANGED cachedVars
  BY <1>4, NospecStep
<1>5. CASE SpecIter /\ UNCHANGED cachedVars
  BY <1>5, SpecStep
<1>6. CASE Done \/ UNCHANGED vars
  BY <1>6, SameInv DEF Done
<1> QED
  BY <1>1, <1>2, <1>3, <1>4, <1>5, <1>6 DEF Next, CachedNext, RecomputeNext

(* The invariant holds throughout. *)
LEMMA EagerInvariant ==
  ASSUME TargetIsToken
  PROVE  Spec => []EagerInv
<1>1. Init => EagerInv
  BY InitInv
<1>2. EagerInv /\ [Next]_vars => EagerInv'
  BY StepInv
<1> QED
  BY <1>1, <1>2, PTL DEF Spec

(* TypeOK for any batch, prompts and routing: in the loop with caches         *)
(* real_len and pending are those of what the row has committed               *)
(* (serve_kv_eager.py, spec_kv_iter), and no loop runs past its count.        *)
THEOREM EagerTyped ==
  ASSUME TargetIsToken
  PROVE  Spec => []TypeOK
<1>1. EagerInv => TypeOK
  BY DEF EagerInv
<1> QED
  BY <1>1, EagerInvariant, PTL

(* DraftSeesItsTenant for any routing: shared, split up by tenant or SGMV,    *)
(* the draft proposes for a row from that row's tokens, at their positions,   *)
(* with that row's adapter (serve_multitenant.py, draft_step).                *)
THEOREM TenantSafe ==
  ASSUME TargetIsToken
  PROVE  Spec => []DraftSeesItsTenant
<1>1. EagerInv => DraftSeesItsTenant
  BY DEF EagerInv, Recorded
<1> QED
  BY <1>1, EagerInvariant, PTL

(* NoRowIsGivenUp for any batch: a loop that ends, and is not run_strategy,   *)
(* has finished every row; its count of iterations is never reached           *)
(* (serve_kv_eager.py, run_kv and run_nokv; serve_to_completion.py).          *)
THEOREM NoneGivenUp ==
  ASSUME TargetIsToken
  PROVE  Spec => []NoRowIsGivenUp
<1>1. EagerInv => NoRowIsGivenUp
  BY DEF EagerInv, Progress, NoRowIsGivenUp
<1> QED
  BY <1>1, EagerInvariant, PTL

(* A step commits, in every row, nothing or what the target decodes greedily. *)
LEMMA StepExtends ==
  ASSUME Grows, NEW r \in Rows
  PROVE  [Row(r)!Next]_<<committed[r], start[r]>>
<1>1. start'[r] = start[r]
  BY DEF Grows
<1>2. CASE committed'[r] = committed[r]
  BY <1>1, <1>2
<1>3. CASE Extends(committed'[r], committed[r])
  <2>1. \A s : Row(r)!Greedy(s) = Target(Placed(s))
    BY DEF Row!Greedy, Row!Placed, Placed
  <2>2. Row(r)!Extend
    BY <1>1, <1>3, <2>1 DEF Extends, Row!Extend
  <2> QED
    BY <2>2 DEF Row!Next
<1> QED
  BY <1>2, <1>3 DEF Grows

(* Every row begins with its prompt. *)
LEMMA RowsBegin ==
  Init => \A r \in Rows : Row(r)!Init
<1> SUFFICES ASSUME Init, NEW r \in Rows PROVE Row(r)!Init
  OBVIOUS
<1>1. PICK p \in Prompts : committed[r] = p /\ start[r] = Len(p)
  BY DEF Init
<1> QED
  BY <1>1 DEF Row!Init, Row!Begin

(* RowsDecodeGreedily for any batch and either kind of loop: every row        *)
(* implements GreedyDecode, however many proposals the rows beside it accept, *)
(* whichever adapter proposes them, and though finished rows decode on        *)
(* (serve_kv_eager.py, serve_to_completion.py, serve_multitenant.py).         *)
THEOREM RowsAreGreedy ==
  ASSUME TargetIsToken
  PROVE  Spec => RowsDecodeGreedily
<1>1. EagerInv /\ [Next]_vars => [\A r \in Rows : [Row(r)!Next]_<<committed[r], start[r]>>]_vars
  BY StepInv, StepExtends
<1> QED
  BY <1>1, RowsBegin, EagerInvariant, PTL DEF Spec, RowsDecodeGreedily, Row!Init, Row!Next
=============================================================================
