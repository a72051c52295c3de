---------------------------- MODULE SegmentsProofs ----------------------------
(***************************************************************************)
(* What SerialTable computes, for a batch of any length: the runs of the   *)
(* batch one after the other, each cut into pieces.  The recursion is over *)
(* data, so induction is done by hand, from the least element of a set of  *)
(* numbers.  Any table that tabulates a batch in this way serves it.       *)
(***************************************************************************)
EXTENDS Segments, WellFoundedInduction, FiniteSetTheorems, SequenceTheorems, TLAPS

-----------------------------------------------------------------------------
(* Numbers. *)

(* Every non-empty set of naturals has a least element. *)
LEMMA LeastNumber ==
  ASSUME NEW T \in SUBSET Nat, T # {}
  PROVE  \E x \in T : \A y \in T : x <= y
<1> DEFINE R == OpToRel(<, Nat)
<1>1. IsWellFoundedOn(R, Nat)
  BY NatLessThanWellFounded
<1>2. \A x, y \in Nat : y < x => <<y, x>> \in R
  BY DEF OpToRel
<1> HIDE DEF R
<1>3. PICK x \in T : \A y \in T : <<y, x>> \notin R
  BY <1>1, WFMin
<1>4. ASSUME NEW y \in T PROVE x <= y
  <2>1. x \in Nat /\ y \in Nat /\ ~(y < x)
    BY <1>2, <1>3
  <2> QED
    BY <2>1
<1> QED
  BY <1>4

(* Induction, for a set of numbers. *)
LEMMA Induction ==
  ASSUME NEW S \in SUBSET Nat, 0 \in S, \A n \in S : n + 1 \in S
  PROVE  \A n \in Nat : n \in S
<1>1. SUFFICES ASSUME Nat \ S # {} PROVE FALSE
  OBVIOUS
<1>2. PICK x \in Nat \ S : \A y \in Nat \ S : x <= y
  BY <1>1, LeastNumber
<1>3. x # 0 /\ x - 1 \in Nat /\ x - 1 \in S
  BY <1>2
<1> QED
  BY <1>2, <1>3

(* The greatest number of a bounded set. *)
LEMMA GreatestNumber ==
  ASSUME NEW T \in SUBSET Nat, T # {}, NEW n \in Nat, \A y \in T : y <= n
  PROVE  Max(T) \in T /\ \A y \in T : y <= Max(T)
<1> DEFINE D == {n - y : y \in T}
<1>1. D \in SUBSET Nat /\ D # {}
  <2>1. \A y \in T : n - y \in Nat
    OBVIOUS
  <2>2. PICK y \in T : TRUE
    OBVIOUS
  <2>3. n - y \in D
    OBVIOUS
  <2> QED
    BY <2>1, <2>3
<1>2. PICK d \in D : \A e \in D : d <= e
  BY <1>1, LeastNumber
<1>3. PICK x \in T : d = n - x
  BY <1>2
<1>4. \A y \in T : x >= y
  <2> SUFFICES ASSUME NEW y \in T PROVE x >= y
    OBVIOUS
  <2>1. n - y \in D
    OBVIOUS
  <2>2. x \in Nat /\ y \in Nat
    OBVIOUS
  <2> QED
    BY <1>2, <1>3, <2>1, <2>2
<1>5. Max(T) \in T /\ \A y \in T : Max(T) >= y
  BY <1>4 DEF Max
<1> QED
  BY <1>5

LEMMA LesserOfTwo ==
  ASSUME NEW m \in Int, NEW n \in Int
  PROVE  Min({m, n}) = IF m <= n THEN m ELSE n
<1>1. \A x \in {m, n} : (\A y \in {m, n} : x <= y) <=> x = IF m <= n THEN m ELSE n
  OBVIOUS
<1>2. (IF m <= n THEN m ELSE n) \in {m, n}
  OBVIOUS
<1> QED
  BY <1>1, <1>2 DEF Min

(* What a quotient is. *)
LEMMA QuotientIs ==
  ASSUME NEW a \in Nat, NEW c \in Nat \ {0}
  PROVE  a \div c \in Nat /\ (a \div c) * c <= a /\ a < (a \div c + 1) * c
OBVIOUS

LEMMA ProductGrows ==
  ASSUME NEW p \in Nat, NEW q \in Nat, NEW c \in Nat, p <= q
  PROVE  p * c <= q * c
OBVIOUS

(* A quotient, from its bounds. *)
LEMMA QuotientFrom ==
  ASSUME NEW a \in Nat, NEW c \in Nat \ {0}, NEW q \in Nat, q * c <= a, a < (q + 1) * c
  PROVE  a \div c = q
<1> DEFINE p == a \div c
<1>1. p \in Nat /\ p * c <= a /\ a < (p + 1) * c
  BY QuotientIs
<1> HIDE DEF p
<1>2. ASSUME p < q PROVE FALSE
  <2>1. (p + 1) * c <= q * c
    BY <1>1, <1>2, ProductGrows
  <2> QED
    BY <1>1, <2>1
<1>3. ASSUME q < p PROVE FALSE
  <2>1. (q + 1) * c <= p * c
    BY <1>1, <1>3, ProductGrows
  <2> QED
    BY <1>1, <2>1
<1>4. p = q
  BY <1>1, <1>2, <1>3
<1> QED
  BY <1>4 DEF p

-----------------------------------------------------------------------------
(* Runs and pieces. *)

(* Batches of n tokens, whatever their indices are. *)
IsBatch(idx, n) == n \in Nat /\ DOMAIN idx = 0 .. n - 1

LEMMA BatchSize ==
  ASSUME NEW idx, NEW n, IsBatch(idx, n)
  PROVE  Tokens(idx) = 0 .. n - 1 /\ Cardinality(Tokens(idx)) = n
<1>1. n \in Nat /\ Tokens(idx) = 0 .. n - 1
  BY DEF IsBatch, Tokens
<1>2. Cardinality(0 .. n - 1) = n
  BY <1>1, FS_Interval
<1> QED
  BY <1>1, <1>2

(* A run goes on as long as the index is the same, and no longer. *)
LEMMA RunLenIs ==
  ASSUME NEW idx, NEW n, IsBatch(idx, n), NEW i \in 0 .. n - 1
  PROVE  /\ RunLen(idx, i) \in 1 .. n - i
         /\ \A k \in i .. i + RunLen(idx, i) - 1 : idx[k] = idx[i]
         /\ i + RunLen(idx, i) < n => idx[i + RunLen(idx, i)] # idx[i]
<1> DEFINE T == {l \in 1 .. n - i : \A k \in i .. i + l - 1 : idx[k] = idx[i]}
<1> DEFINE L == RunLen(idx, i)
<1>1. n \in Nat /\ i \in Nat /\ i < n
  BY DEF IsBatch
<1>2. L = Max(T)
  BY BatchSize DEF RunLen
<1>3. T \in SUBSET Nat /\ (\A l \in T : l <= n)
  BY <1>1
<1>4. 1 \in T
  BY <1>1
<1>5. L \in T /\ \A l \in T : l <= L
  <2> HIDE DEF T, L
  <2>1. T # {}
    BY <1>4
  <2> QED
    BY <1>1, <1>2, <1>3, <2>1, GreatestNumber
<1>6. ASSUME i + L < n, idx[i + L] = idx[i] PROVE FALSE
  <2> HIDE DEF L
  <2>1. L + 1 \in 1 .. n - i
    BY <1>1, <1>5, <1>6
  <2>2. ASSUME NEW k \in i .. i + (L + 1) - 1 PROVE idx[k] = idx[i]
    <3>1. k = i + L \/ k \in i .. i + L - 1
      BY <1>1, <1>5
    <3> QED
      BY <1>5, <1>6, <3>1
  <2>3. L + 1 \in T
    BY <2>1, <2>2
  <2> HIDE DEF T
  <2> QED
    BY <1>3, <1>5, <2>3
<1>7. L \in 1 .. n - i /\ \A k \in i .. i + L - 1 : idx[k] = idx[i]
  BY <1>5
<1> QED
  BY <1>6, <1>7

(* The pieces of a run cover it, and the last one is not empty. *)
LEMMA PiecesAre ==
  ASSUME NEW len \in Nat
  PROVE  /\ Pieces(len) \in 0 .. len
         /\ len <= Pieces(len) * MaxSegmentTokens
         /\ len > 0 => Pieces(len) > 0 /\ (Pieces(len) - 1) * MaxSegmentTokens < len
<1> DEFINE M == MaxSegmentTokens
<1> DEFINE q == Pieces(len)
<1>1. M \in Nat \ {0}
  BY SegmentsAssumption
<1>2. q = (len + M - 1) \div M /\ len + M - 1 \in Nat
  BY <1>1 DEF Pieces
<1>3. q \in Nat /\ q * M <= len + M - 1 /\ len + M - 1 < (q + 1) * M
  BY <1>1, <1>2, QuotientIs
<1> HIDE DEF M, q
<1>4. (q + 1) * M = q * M + M /\ q * M \in Nat
  BY <1>1, <1>3
<1>5. len <= q * M
  BY <1>1, <1>3, <1>4
<1>6. ASSUME len > 0 PROVE q > 0 /\ (q - 1) * M < len
  <2>1. q # 0
    BY <1>1, <1>5, <1>6
  <2>2. (q - 1) * M = q * M - M
    BY <1>1, <1>3
  <2> QED
    BY <1>1, <1>3, <1>4, <2>1, <2>2
<1>7. q <= len
  <2>1. CASE len = 0
    <3>1. q * M < M
      BY <1>1, <1>3, <2>1
    <3>2. ASSUME q >= 1 PROVE FALSE
      <4>1. 1 * M <= q * M
        BY <1>1, <1>3, <3>2, ProductGrows
      <4> QED
        BY <1>1, <1>4, <3>1, <4>1
    <3> QED
      BY <1>3, <2>1, <3>2
  <2>2. CASE len > 0
    <3>1. PICK p \in Nat : p = q - 1
      BY <1>3, <1>6, <2>2
    <3>2. 1 * p <= M * p
      BY <1>1, ProductGrows
    <3>3. p * M < len
      BY <1>6, <2>2, <3>1
    <3>4. p < len
      BY <1>1, <3>2, <3>3
    <3> QED
      BY <1>3, <3>1, <3>4
  <2> QED
    BY <2>1, <2>2
<1> QED
  BY <1>3, <1>5, <1>6, <1>7 DEF q, M

(* Segments a token's position contributes to the table. *)
Contribution(idx, i) ==
  IF i \in Tokens(idx) /\ IsRunStart(idx, i) /\ idx[i] # NoLora
    THEN Pieces(RunLen(idx, i)) ELSE 0

LEMMA ContributionIsNat ==
  ASSUME NEW idx, NEW n, IsBatch(idx, n), NEW i
  PROVE  Contribution(idx, i) \in Nat
<1>1. CASE i \in 0 .. n - 1
  <2>1. n \in Nat
    BY DEF IsBatch
  <2>2. RunLen(idx, i) \in 1 .. n - i
    BY <1>1, RunLenIs
  <2>3. RunLen(idx, i) \in Nat
    BY <1>1, <2>1, <2>2
  <2> QED
    BY <2>3, PiecesAre DEF Contribution
<1>2. CASE i \notin 0 .. n - 1
  BY <1>2, BatchSize DEF Contribution
<1> QED
  BY <1>1, <1>2

(* Each piece is of its run, and none is longer than a segment. *)
LEMMA SegmentIs ==
  ASSUME NEW idx, NEW n, IsBatch(idx, n), NEW i \in 0 .. n - 1,
         NEW s \in 0 .. Contribution(idx, i) - 1
  PROVE  /\ IsRunStart(idx, i) /\ idx[i] # NoLora
         /\ Contribution(idx, i) = Pieces(RunLen(idx, i))
         /\ s * MaxSegmentTokens \in Nat
         /\ Segment(idx, i, s).adapter_id = idx[i]
         /\ Segment(idx, i, s).token_start = i + s * MaxSegmentTokens
         /\ Segment(idx, i, s).token_count \in 1 .. MaxSegmentTokens
         /\ \A d \in Nat : d < Segment(idx, i, s).token_count
              <=> d < MaxSegmentTokens /\ s * MaxSegmentTokens + d < RunLen(idx, i)
<1> DEFINE M == MaxSegmentTokens
<1> DEFINE L == RunLen(idx, i)
<1>1. M \in Nat \ {0} /\ L \in 1 .. n - i /\ i \in Nat /\ n \in Nat
  <2>1. n \in Nat
    BY DEF IsBatch
  <2>2. L \in 1 .. n - i
    BY RunLenIs
  <2> QED
    BY <2>1, <2>2, SegmentsAssumption
<1>2. IsRunStart(idx, i) /\ idx[i] # NoLora /\ Contribution(idx, i) = Pieces(L)
  BY DEF Contribution
<1>3. s \in Nat /\ s <= Pieces(L) - 1
  <2>1. Pieces(L) \in Nat
    BY <1>1, PiecesAre
  <2> QED
    BY <1>2, <2>1
<1>4. (Pieces(L) - 1) * M < L
  BY <1>1, PiecesAre
<1>5. s * M < L /\ s * M \in Nat
  <2>1. PICK p \in Nat : p = Pieces(L) - 1
    <3>1. Pieces(L) \in Nat
      BY <1>1, PiecesAre
    <3> QED
      BY <1>3, <3>1
  <2>2. s * M <= p * M
    BY <1>1, <1>3, <2>1, ProductGrows
  <2>3. p * M < L
    BY <1>4, <2>1
  <2>4. s * M \in Nat /\ p * M \in Nat
    BY <1>1, <1>3
  <2> QED
    BY <1>1, <2>2, <2>3, <2>4
<1>6. Segment(idx, i, s).token_count = IF M <= L - s * M THEN M ELSE L - s * M
  <2>1. M \in Int /\ L - s * M \in Int
    BY <1>1, <1>5
  <2>2. Segment(idx, i, s).token_count = Min({M, L - s * M})
    BY DEF Segment
  <2> HIDE DEF M, L
  <2> QED
    BY <2>1, <2>2, LesserOfTwo
<1>7. Segment(idx, i, s).adapter_id = idx[i] /\ Segment(idx, i, s).token_start = i + s * M
  BY DEF Segment
<1>8. Segment(idx, i, s).token_count \in 1 .. M
  <2> HIDE DEF M, L
  <2> QED
    BY <1>1, <1>5, <1>6
<1>9. \A d \in Nat : d < Segment(idx, i, s).token_count <=> d < M /\ s * M + d < L
  <2> HIDE DEF M, L
  <2> QED
    BY <1>1, <1>5, <1>6
<1> QED
  BY <1>2, <1>5, <1>7, <1>8, <1>9, Zenon

-----------------------------------------------------------------------------
(* Rows of the table before each position. *)

IsSums(P, idx, m) ==
  /\ m \in Nat /\ P \in [0 .. m -> Nat] /\ P[0] = 0
  /\ \A i \in 0 .. m - 1 : P[i + 1] = P[i] + Contribution(idx, i)

LEMMA SumsExist ==
  ASSUME NEW idx, NEW n, IsBatch(idx, n), NEW m \in Nat
  PROVE  \E P : IsSums(P, idx, m)
<1> DEFINE S == {k \in Nat : \E P : IsSums(P, idx, k)}
<1>1. 0 \in S
  <2>1. IsSums([i \in 0 .. 0 |-> 0], idx, 0)
    BY DEF IsSums
  <2> QED
    BY <2>1
<1>2. ASSUME NEW k \in S PROVE k + 1 \in S
  <2>1. PICK P : IsSums(P, idx, k)
    OBVIOUS
  <2> DEFINE Q == [i \in 0 .. k + 1 |-> IF i = k + 1 THEN P[k] + Contribution(idx, k) ELSE P[i]]
  <2>2. k \in Nat /\ P \in [0 .. k -> Nat] /\ P[0] = 0
    BY <2>1 DEF IsSums
  <2>3. Contribution(idx, k) \in Nat
    BY ContributionIsNat
  <2>4. Q \in [0 .. k + 1 -> Nat] /\ Q[0] = 0
    BY <2>2, <2>3
  <2>5. ASSUME NEW i \in 0 .. (k + 1) - 1 PROVE Q[i + 1] = Q[i] + Contribution(idx, i)
    <3>1. CASE i = k
      BY <2>2, <3>1
    <3>2. CASE i # k
      <4>1. i \in 0 .. k - 1 /\ i + 1 # k + 1 /\ i # k + 1 /\ i + 1 \in 0 .. k + 1
        BY <2>2, <3>2
      <4>2. P[i + 1] = P[i] + Contribution(idx, i)
        BY <2>1, <4>1 DEF IsSums
      <4> QED
        BY <4>1, <4>2
    <3> QED
      BY <3>1, <3>2
  <2> HIDE DEF Q
  <2>6. IsSums(Q, idx, k + 1)
    BY <2>2, <2>4, <2>5 DEF IsSums
  <2> QED
    BY <2>2, <2>6
<1> HIDE DEF S
<1>3. \A k \in Nat : k \in S
  <2>1. S \in SUBSET Nat
    BY DEF S
  <2> QED
    BY <1>1, <1>2, <2>1, Induction
<1> QED
  BY <1>3 DEF S

LEMMA SumsGrow ==
  ASSUME NEW idx, NEW n, IsBatch(idx, n), NEW P, NEW m, IsSums(P, idx, m),
         NEW a \in 0 .. m, NEW b \in a .. m
  PROVE  P[a] \in Nat /\ P[b] \in Nat /\ P[a] <= P[b]
<1> DEFINE S == {d \in Nat : a + d <= m => P[a] <= P[a + d]}
<1>1. m \in Nat /\ P \in [0 .. m -> Nat]
  BY DEF IsSums
<1>2. 0 \in S
  BY <1>1
<1>3. ASSUME NEW d \in S PROVE d + 1 \in S
  <2> SUFFICES ASSUME a + (d + 1) <= m PROVE P[a] <= P[a + (d + 1)]
    OBVIOUS
  <2>1. a + d \in 0 .. m - 1 /\ (a + d) + 1 = a + (d + 1) /\ a + d <= m
    BY <1>1
  <2>2. P[(a + d) + 1] = P[a + d] + Contribution(idx, a + d)
    BY <2>1 DEF IsSums
  <2>3. Contribution(idx, a + d) \in Nat
    BY ContributionIsNat
  <2>4. P[a] \in Nat /\ P[a + d] \in Nat /\ P[a] <= P[a + d]
    BY <1>1, <2>1
  <2> QED
    BY <2>1, <2>2, <2>3, <2>4
<1>4. \A d \in Nat : d \in S
  <2>1. S \in SUBSET Nat
    OBVIOUS
  <2> HIDE DEF S
  <2> QED
    BY <1>2, <1>3, <2>1, Induction
<1>5. b - a \in Nat /\ a + (b - a) = b
  BY <1>1
<1>6. b - a \in S
  BY <1>4, <1>5
<1> QED
  BY <1>1, <1>5, <1>6

(* Positions that contribute nothing. *)
LEMMA SumsFlat ==
  ASSUME NEW idx, NEW n, IsBatch(idx, n), NEW P, NEW m, IsSums(P, idx, m),
         NEW a \in 0 .. m, NEW b \in a .. m, \A k \in a .. b - 1 : Contribution(idx, k) = 0
  PROVE  P[b] = P[a]
<1> DEFINE S == {d \in Nat : a + d <= b => P[a] = P[a + d]}
<1>1. m \in Nat /\ P \in [0 .. m -> Nat] /\ a \in Nat /\ b \in Nat
  BY DEF IsSums
<1>2. 0 \in S
  BY <1>1
<1>3. ASSUME NEW d \in S PROVE d + 1 \in S
  <2> SUFFICES ASSUME a + (d + 1) <= b PROVE P[a] = P[a + (d + 1)]
    OBVIOUS
  <2>1. a + d \in 0 .. m - 1 /\ (a + d) + 1 = a + (d + 1) /\ a + d <= b /\ a + d \in a .. b - 1
    BY <1>1
  <2>2. P[(a + d) + 1] = P[a + d] + Contribution(idx, a + d)
    BY <2>1 DEF IsSums
  <2>3. P[a] \in Nat /\ P[a + d] \in Nat /\ P[a] = P[a + d] /\ Contribution(idx, a + d) = 0
    BY <1>1, <2>1
  <2> QED
    BY <2>1, <2>2, <2>3
<1>4. \A d \in Nat : d \in S
  <2>1. S \in SUBSET Nat
    OBVIOUS
  <2> HIDE DEF S
  <2> QED
    BY <1>2, <1>3, <2>1, Induction
<1>5. b - a \in Nat /\ a + (b - a) = b
  BY <1>1
<1>6. b - a \in S
  BY <1>4, <1>5
<1> QED
  BY <1>1, <1>5, <1>6

(* Each row belongs to a position ... *)
LEMMA RowHasOwner ==
  ASSUME NEW idx, NEW n, IsBatch(idx, n), NEW P, NEW m, IsSums(P, idx, m),
         NEW k \in 0 .. P[m] - 1
  PROVE  \E i \in 0 .. m - 1 : P[i] <= k /\ k < P[i] + Contribution(idx, i)
<1>1. m \in Nat /\ P \in [0 .. m -> Nat] /\ P[0] = 0 /\ P[m] \in Nat
  BY DEF IsSums
<1> DEFINE T == {i \in 0 .. m : k < P[i]}
<1>2. m \in T /\ T \in SUBSET Nat
  BY <1>1
<1>3. PICK j \in T : \A i \in T : j <= i
  <2> HIDE DEF T
  <2> QED
    BY <1>2, LeastNumber
<1>4. j \in 0 .. m /\ k < P[j] /\ j # 0
  BY <1>1, <1>3
<1>5. j - 1 \in 0 .. m - 1 /\ (j - 1) + 1 = j /\ j - 1 \in 0 .. m
  BY <1>1, <1>4
<1>6. P[j] = P[j - 1] + Contribution(idx, j - 1)
  BY <1>5 DEF IsSums
<1>7. P[j - 1] <= k
  <2>1. j - 1 \notin T
    BY <1>1, <1>3, <1>4
  <2>2. P[j - 1] \in Nat
    BY <1>1, <1>5
  <2> QED
    BY <1>1, <1>5, <2>1, <2>2
<1> QED
  BY <1>4, <1>5, <1>6, <1>7

(* ... and to no other. *)
LEMMA RowHasOneOwner ==
  ASSUME NEW idx, NEW n, IsBatch(idx, n), NEW P, NEW m, IsSums(P, idx, m), NEW k \in Int,
         NEW i \in 0 .. m - 1, P[i] <= k, k < P[i] + Contribution(idx, i),
         NEW j \in 0 .. m - 1, P[j] <= k, k < P[j] + Contribution(idx, j)
  PROVE  i = j
<1>1. m \in Nat /\ P \in [0 .. m -> Nat]
  BY DEF IsSums
<1>2. P[i + 1] = P[i] + Contribution(idx, i) /\ P[j + 1] = P[j] + Contribution(idx, j)
  BY DEF IsSums
<1>3. ASSUME i < j PROVE FALSE
  <2>1. i + 1 \in 0 .. m /\ j \in i + 1 .. m
    BY <1>1, <1>3
  <2>2. P[i + 1] \in Nat /\ P[j] \in Nat /\ P[i + 1] <= P[j]
    BY <2>1, SumsGrow
  <2> QED
    BY <1>2, <2>2
<1>4. ASSUME j < i PROVE FALSE
  <2>1. j + 1 \in 0 .. m /\ i \in j + 1 .. m
    BY <1>1, <1>4
  <2>2. P[j + 1] \in Nat /\ P[i] \in Nat /\ P[j + 1] <= P[i]
    BY <2>1, SumsGrow
  <2> QED
    BY <1>2, <2>2
<1> QED
  BY <1>1, <1>3, <1>4

-----------------------------------------------------------------------------
(* The walk of SerialTable. *)

Segs(idx) == {Segment(idx, i, s) : i \in Tokens(idx), s \in Nat}

(* What the walk emits at position i. *)
Emitted(idx, i) ==
  IF idx[i] = NoLora THEN << >>
  ELSE [s \in 1 .. Pieces(RunLen(idx, i)) |-> Segment(idx, i, s - 1)]

LEMMA EmittedIs ==
  ASSUME NEW idx, NEW n, IsBatch(idx, n), NEW i \in 0 .. n - 1
  PROVE  /\ Emitted(idx, i) \in Seq(Segs(idx))
         /\ IsRunStart(idx, i) =>
              /\ Len(Emitted(idx, i)) = Contribution(idx, i)
              /\ \A s \in 0 .. Contribution(idx, i) - 1 : Emitted(idx, i)[s + 1] = Segment(idx, i, s)
         /\ Len(Emitted(idx, i)) \in 0 .. RunLen(idx, i)
<1>1. n \in Nat /\ Tokens(idx) = 0 .. n - 1
  BY BatchSize DEF IsBatch
<1>2. RunLen(idx, i) \in Nat
  <2>1. RunLen(idx, i) \in 1 .. n - i
    BY RunLenIs
  <2> QED
    BY <1>1, <2>1
<1>3. Pieces(RunLen(idx, i)) \in 0 .. RunLen(idx, i)
  BY <1>2, PiecesAre
<1>4. CASE idx[i] = NoLora
  <2>1. Emitted(idx, i) = << >> /\ Contribution(idx, i) = 0
    BY <1>4 DEF Emitted, Contribution
  <2> QED
    BY <1>2, <2>1
<1>5. CASE idx[i] # NoLora
  <2> DEFINE q == Pieces(RunLen(idx, i))
  <2>1. q \in Nat
    BY <1>2, <1>3
  <2>2. Emitted(idx, i) = [s \in 1 .. q |-> Segment(idx, i, s - 1)]
    BY <1>5 DEF Emitted
  <2>3. IsRunStart(idx, i) => Contribution(idx, i) = q
    BY <1>1, <1>5 DEF Contribution
  <2> HIDE DEF q
  <2>4. \A s \in 1 .. q : Segment(idx, i, s - 1) \in Segs(idx)
    BY <1>1, <2>1 DEF Segs
  <2>5. Emitted(idx, i) \in Seq(Segs(idx)) /\ Len(Emitted(idx, i)) = q
    BY <2>1, <2>2, <2>4
  <2>6. \A s \in 0 .. q - 1 : Emitted(idx, i)[s + 1] = Segment(idx, i, s)
    <3> TAKE s \in 0 .. q - 1
    <3>1. s + 1 \in 1 .. q /\ (s + 1) - 1 = s
      BY <2>1
    <3> QED
      BY <2>2, <3>1
  <2>7. Len(Emitted(idx, i)) \in 0 .. RunLen(idx, i)
    BY <1>3, <2>5 DEF q
  <2> QED
    BY <2>3, <2>5, <2>6, <2>7
<1> QED
  BY <1>4, <1>5

(* g is the walk from each of the positions from first on. *)
WalksFrom(g, idx, n, first) ==
  /\ g \in [first .. n -> Seq(Segs(idx))]
  /\ \A i \in first .. n :
       g[i] = IF i = n THEN << >> ELSE Emitted(idx, i) \o g[i + RunLen(idx, i)]

(* The recursion is well founded, so there is such a function. *)
LEMMA WalkExists ==
  ASSUME NEW idx, NEW n, IsBatch(idx, n)
  PROVE  \E g : WalksFrom(g, idx, n, 0)
<1> DEFINE S == {d \in Nat : d <= n => \E g : WalksFrom(g, idx, n, n - d)}
<1>1. n \in Nat
  BY DEF IsBatch
<1>2. 0 \in S
  <2> DEFINE g == [i \in n .. n |-> << >>]
  <2>1. << >> \in Seq(Segs(idx))
    OBVIOUS
  <2>2. g \in [n .. n -> Seq(Segs(idx))] /\ \A i \in n .. n : i = n /\ g[i] = << >>
    BY <1>1, <2>1
  <2> HIDE DEF g
  <2>3. WalksFrom(g, idx, n, n)
    BY <2>2 DEF WalksFrom
  <2>4. n - 0 = n
    BY <1>1
  <2> QED
    BY <2>3, <2>4
<1>3. ASSUME NEW d \in S PROVE d + 1 \in S
  <2> SUFFICES ASSUME d + 1 <= n PROVE \E g : WalksFrom(g, idx, n, n - (d + 1))
    OBVIOUS
  <2>1. PICK f \in Nat : f = n - (d + 1) /\ f + 1 = n - d /\ f \in 0 .. n - 1 /\ d <= n
    BY <1>1
  <2>2. PICK g : WalksFrom(g, idx, n, f + 1)
    BY <2>1
  <2>3. g \in [f + 1 .. n -> Seq(Segs(idx))]
    BY <2>2 DEF WalksFrom
  <2>4. /\ RunLen(idx, f) \in Nat
        /\ f + RunLen(idx, f) \in f + 1 .. n
    <3>1. RunLen(idx, f) \in 1 .. n - f
      BY <2>1, RunLenIs
    <3> QED
      BY <1>1, <2>1, <3>1
  <2> DEFINE first == Emitted(idx, f) \o g[f + RunLen(idx, f)]
  <2>5. first \in Seq(Segs(idx))
    <3>1. Emitted(idx, f) \in Seq(Segs(idx))
      BY <2>1, EmittedIs
    <3>2. g[f + RunLen(idx, f)] \in Seq(Segs(idx))
      BY <2>3, <2>4
    <3> QED
      BY <3>1, <3>2, ConcatProperties
  <2> DEFINE h == [i \in f .. n |-> IF i = f THEN first ELSE g[i]]
  <2>6. h \in [f .. n -> Seq(Segs(idx))]
    <3> HIDE DEF first
    <3> QED
      BY <1>1, <2>1, <2>3, <2>5
  <2>7. h[f] = first /\ \A i \in f + 1 .. n : h[i] = g[i]
    <3> HIDE DEF first
    <3> QED
      BY <1>1, <2>1
  <2> HIDE DEF h
  <2>8. ASSUME NEW i \in f .. n
        PROVE h[i] = IF i = n THEN << >> ELSE Emitted(idx, i) \o h[i + RunLen(idx, i)]
    <3>1. CASE i = f
      <4>1. i # n
        BY <1>1, <2>1, <3>1
      <4>2. h[f + RunLen(idx, f)] = g[f + RunLen(idx, f)]
        BY <2>4, <2>7
      <4> QED
        BY <2>7, <3>1, <4>1, <4>2, Zenon
    <3>2. CASE i # f
      <4>1. i \in f + 1 .. n
        BY <1>1, <2>1, <3>2
      <4>2. g[i] = IF i = n THEN << >> ELSE Emitted(idx, i) \o g[i + RunLen(idx, i)]
        BY <2>2, <4>1 DEF WalksFrom
      <4>3. CASE i = n
        BY <2>7, <4>1, <4>2, <4>3
      <4>4. CASE i # n
        <5>1. i \in 0 .. n - 1
          BY <1>1, <2>1, <4>1, <4>4
        <5>2. RunLen(idx, i) \in 1 .. n - i
          BY <5>1, RunLenIs
        <5>3. i + RunLen(idx, i) \in f + 1 .. n
          BY <1>1, <2>1, <5>1, <5>2, <4>1
        <5> QED
          BY <2>7, <4>1, <4>2, <4>4, <5>3
      <4> QED
        BY <4>3, <4>4
    <3> QED
      BY <3>1, <3>2
  <2>9. WalksFrom(h, idx, n, f)
    BY <2>6, <2>8 DEF WalksFrom
  <2> QED
    BY <2>1, <2>9
<1>4. \A d \in Nat : d \in S
  <2>1. S \in SUBSET Nat
    OBVIOUS
  <2> HIDE DEF S
  <2> QED
    BY <1>2, <1>3, <2>1, Induction
<1>5. n \in S /\ n - n = 0
  BY <1>1, <1>4
<1> QED
  BY <1>1, <1>5

LEMMA SerialTableWalks ==
  ASSUME NEW idx, NEW n, IsBatch(idx, n), NEW N
  PROVE  \E g : /\ WalksFrom(g, idx, n, 0)
                /\ SerialTable(idx, N) = SubSeq(g[0], 1, Min({N, Len(g[0])}))
<1> DEFINE from[i \in 0 .. n] ==
             IF i = n THEN << >>
             ELSE (IF idx[i] = NoLora THEN << >>
                   ELSE [s \in 1 .. Pieces(RunLen(idx, i)) |-> Segment(idx, i, s - 1)])
                  \o from[i + RunLen(idx, i)]
<1> DEFINE Walk(g) == [i \in 0 .. n |->
             IF i = n THEN << >>
             ELSE (IF idx[i] = NoLora THEN << >>
                   ELSE [s \in 1 .. Pieces(RunLen(idx, i)) |-> Segment(idx, i, s - 1)])
                  \o g[i + RunLen(idx, i)]]
<1>1. PICK g : WalksFrom(g, idx, n, 0)
  BY WalkExists
<1>2. \E f : f = Walk(f)
  <2>1. g = Walk(g)
    BY <1>1 DEF WalksFrom, Emitted
  <2> HIDE DEF Walk
  <2> QED
    BY <2>1
<1>3. from = Walk(from)
  BY <1>2, Zenon
<1>4. SerialTable(idx, N) = SubSeq(from[0], 1, Min({N, Len(from[0])}))
  <2>1. Cardinality(Tokens(idx)) = n
    BY BatchSize
  <2> QED
    BY <2>1 DEF SerialTable
<1>5. WalksFrom(from, idx, n, 0)
  <2>1. n \in Nat
    BY DEF IsBatch
  <2>2. DOMAIN from = 0 .. n
    BY <1>3
  <2>3. ASSUME NEW i \in 0 .. n
        PROVE from[i] = IF i = n THEN << >> ELSE Emitted(idx, i) \o from[i + RunLen(idx, i)]
    BY <1>3 DEF Emitted
  <2> HIDE DEF from
  <2> DEFINE T == {d \in 0 .. n : from[n - d] \notin Seq(Segs(idx))}
  <2>4. T \in SUBSET Nat
    BY <2>1
  <2>5. ASSUME T # {} PROVE FALSE
    <3>1. PICK d \in T : \A e \in T : d <= e
      <4> HIDE DEF T
      <4> QED
        BY <2>4, <2>5, LeastNumber
    <3>2. PICK i \in 0 .. n : i = n - d /\ n - i = d
      BY <2>1
    <3>3. from[i] \notin Seq(Segs(idx))
      BY <3>1, <3>2
    <3>4. CASE i = n
      <4>1. from[i] = << >>
        BY <2>3, <3>4
      <4> QED
        BY <3>3, <4>1
    <3>5. CASE i # n
      <4>1. i \in 0 .. n - 1
        BY <2>1, <3>5
      <4>2. RunLen(idx, i) \in 1 .. n - i
        BY <4>1, RunLenIs
      <4>3. PICK j \in 0 .. n : j = i + RunLen(idx, i) /\ n - j \in 0 .. n /\ n - j < d /\ n - (n - j) = j
        BY <2>1, <3>2, <4>1, <4>2
      <4>4. n - j \notin T
        BY <2>1, <3>1, <3>2, <4>3
      <4>5. from[j] \in Seq(Segs(idx))
        BY <4>3, <4>4
      <4>6. from[i] = Emitted(idx, i) \o from[j] /\ Emitted(idx, i) \in Seq(Segs(idx))
        BY <2>3, <3>5, <4>1, <4>3, EmittedIs
      <4> QED
        BY <3>3, <4>5, <4>6, ConcatProperties
    <3> QED
      BY <3>4, <3>5
  <2>6. \A i \in 0 .. n : from[i] \in Seq(Segs(idx))
    <3> TAKE i \in 0 .. n
    <3>1. n - i \in 0 .. n /\ n - (n - i) = i
      BY <2>1
    <3> QED
      BY <2>5, <3>1
  <2>7. from \in [0 .. n -> Seq(Segs(idx))]
    <3>1. from = [i \in 0 .. n |-> from[i]]
      BY <1>3, <2>2 DEF from
    <3> QED
      BY <2>6, <3>1
  <2> QED
    BY <2>3, <2>7 DEF WalksFrom
<1> QED
  BY <1>4, <1>5

(* Where a run ends the next one starts, and inside it nothing does. *)
LEMMA NextRun ==
  ASSUME NEW idx, NEW n, IsBatch(idx, n), NEW i \in 0 .. n - 1, NEW j \in Int,
         j = i + RunLen(idx, i)
  PROVE  /\ j \in i + 1 .. n
         /\ j = n \/ IsRunStart(idx, j)
         /\ \A k \in i + 1 .. j - 1 : ~IsRunStart(idx, k) /\ Contribution(idx, k) = 0
<1> DEFINE L == RunLen(idx, i)
<1>1. n \in Nat
  BY DEF IsBatch
<1>2. L \in 1 .. n - i /\ (\A k \in i .. i + L - 1 : idx[k] = idx[i])
      /\ (i + L < n => idx[i + L] # idx[i])
  BY RunLenIs
<1> HIDE DEF L
<1>3. j = i + L
  BY DEF L
<1>4. j \in i + 1 .. n
  BY <1>1, <1>2, <1>3
<1>5. j = n \/ IsRunStart(idx, j)
  <2> SUFFICES ASSUME j # n PROVE IsRunStart(idx, j)
    OBVIOUS
  <2>1. j - 1 \in i .. i + L - 1 /\ i + L < n
    BY <1>1, <1>2, <1>3, <1>4
  <2>2. idx[j - 1] = idx[i] /\ idx[j] # idx[i]
    BY <1>2, <1>3, <2>1
  <2> QED
    BY <2>2 DEF IsRunStart
<1>6. ASSUME NEW k \in i + 1 .. j - 1 PROVE ~IsRunStart(idx, k) /\ Contribution(idx, k) = 0
  <2>1. k \in i .. i + L - 1 /\ k - 1 \in i .. i + L - 1 /\ k # 0
    BY <1>1, <1>2, <1>3
  <2>2. idx[k] = idx[k - 1]
    BY <1>2, <2>1
  <2> QED
    BY <2>1, <2>2 DEF IsRunStart, Contribution
<1> QED
  BY <1>4, <1>5, <1>6

(* tab holds each piece of each run, in order. *)
Tabulates(tab, P, idx, m) ==
  \A i \in 0 .. m - 1 : \A s \in 0 .. Contribution(idx, i) - 1 :
    tab[P[i] + s + 1] = Segment(idx, i, s)

(* The walk from the start of a run, after the rows of the runs before it. *)
WalkIs(g, P, idx, n, i) ==
  /\ Len(g[i]) = P[n] - P[i] /\ Len(g[i]) <= n - i
  /\ \A k \in i .. n - 1 : \A s \in 0 .. Contribution(idx, k) - 1 :
       g[i][(P[k] - P[i]) + s + 1] = Segment(idx, k, s)

LEMMA WalkOfRun ==
  ASSUME NEW idx, NEW n, IsBatch(idx, n), NEW P, IsSums(P, idx, n),
         NEW g, WalksFrom(g, idx, n, 0), NEW i \in 0 .. n - 1, IsRunStart(idx, i),
         WalkIs(g, P, idx, n, i + RunLen(idx, i))
  PROVE  WalkIs(g, P, idx, n, i)
<1>1. n \in Nat /\ P \in [0 .. n -> Nat] /\ g \in [0 .. n -> Seq(Segs(idx))]
  BY DEF IsBatch, IsSums, WalksFrom
<1>2. RunLen(idx, i) \in 1 .. n - i
  BY RunLenIs
<1>3. PICK j \in Nat : j = i + RunLen(idx, i)
  BY <1>1, <1>2
<1>4. /\ j \in i + 1 .. n
      /\ \A k \in i + 1 .. j - 1 : Contribution(idx, k) = 0
  BY <1>3, NextRun
<1> DEFINE c == Contribution(idx, i)
<1>5. c \in Nat
  BY ContributionIsNat
<1>6. P[i] \in Nat /\ P[j] \in Nat /\ P[n] \in Nat /\ P[j] = P[i] + c
  <2>1. P[i + 1] = P[i] + c
    BY DEF IsSums
  <2>2. i + 1 \in 0 .. n /\ j \in i + 1 .. n
    BY <1>1, <1>4
  <2>3. P[j] = P[i + 1]
    BY <1>4, <2>2, SumsFlat
  <2> QED
    BY <1>1, <1>4, <2>1, <2>3
<1> DEFINE e == Emitted(idx, i)
<1>7. /\ e \in Seq(Segs(idx)) /\ Len(e) = c /\ c <= RunLen(idx, i)
      /\ \A s \in 0 .. c - 1 : e[s + 1] = Segment(idx, i, s)
  <2>1. Len(e) \in 0 .. RunLen(idx, i)
    BY EmittedIs
  <2>2. e \in Seq(Segs(idx)) /\ Len(e) = c /\ \A s \in 0 .. c - 1 : e[s + 1] = Segment(idx, i, s)
    BY EmittedIs
  <2> QED
    BY <1>2, <1>5, <2>1, <2>2
<1>8. g[i] = e \o g[j] /\ g[j] \in Seq(Segs(idx))
  <2>1. i \in 0 .. n /\ i # n /\ j \in 0 .. n
    BY <1>1, <1>4
  <2>2. g[i] = IF i = n THEN << >> ELSE Emitted(idx, i) \o g[i + RunLen(idx, i)]
    BY <2>1 DEF WalksFrom
  <2> QED
    BY <1>1, <1>3, <2>1, <2>2
<1>9. /\ Len(g[j]) = P[n] - P[j] /\ Len(g[j]) <= n - j
      /\ \A k \in j .. n - 1 : \A s \in 0 .. Contribution(idx, k) - 1 :
           g[j][(P[k] - P[j]) + s + 1] = Segment(idx, k, s)
  BY <1>3 DEF WalkIs
<1> HIDE DEF c, e
<1>10. /\ Len(g[i]) = c + Len(g[j])
       /\ \A x \in 1 .. c + Len(g[j]) : g[i][x] = IF x <= c THEN e[x] ELSE g[j][x - c]
       /\ Len(g[j]) \in Nat
  <2>1. PICK t \in Seq(Segs(idx)) : t = g[j]
    BY <1>8
  <2>2. /\ Len(e \o t) = Len(e) + Len(t)
        /\ \A x \in 1 .. Len(e) + Len(t) : (e \o t)[x] = IF x <= Len(e) THEN e[x] ELSE t[x - Len(e)]
    BY <1>7, ConcatProperties
  <2>3. Len(e) = c /\ g[i] = e \o t
    BY <1>7, <1>8, <2>1
  <2> QED
    BY <2>1, <2>2, <2>3
<1>11. Len(g[i]) = P[n] - P[i] /\ Len(g[i]) <= n - i
  <2>1. n \in Nat /\ i \in Nat /\ RunLen(idx, i) \in Nat /\ j - i = RunLen(idx, i)
    BY <1>1, <1>2, <1>3, SMTT(30)
  <2>2. Len(g[i]) = c + (P[n] - P[j])
    BY <1>9, <1>10
  <2>3. Len(g[i]) <= RunLen(idx, i) + (n - j)
    BY <1>5, <1>7, <1>9, <1>10, <2>1
  <2> QED
    BY <1>5, <1>6, <2>1, <2>2, <2>3, SMTT(30)
<1>12. ASSUME NEW k \in i .. n - 1, NEW s \in 0 .. Contribution(idx, k) - 1
       PROVE  g[i][(P[k] - P[i]) + s + 1] = Segment(idx, k, s)
  <2>1. CASE k = i
    <3>1. s \in 0 .. c - 1 /\ (P[k] - P[i]) + s + 1 = s + 1
      BY <1>6, <2>1 DEF c
    <3>2. s + 1 \in 1 .. c + Len(g[j]) /\ s + 1 <= c
      BY <1>5, <1>10, <3>1
    <3> QED
      BY <1>7, <1>10, <2>1, <3>1, <3>2
  <2>2. CASE k \in i + 1 .. j - 1
    BY <1>4, <2>2
  <2>3. CASE k \in j .. n - 1
    <3>1. P[k] \in Nat /\ P[j] <= P[k]
      <4>1. j \in 0 .. n /\ k \in j .. n
        BY <1>1, <1>4, <2>3
      <4> QED
        BY <4>1, SumsGrow
    <3>2. P[k] + Contribution(idx, k) <= P[n]
      <4>1. k + 1 \in 0 .. n /\ n \in k + 1 .. n /\ k \in 0 .. n - 1
        BY <1>1, <1>4, <2>3
      <4>2. P[k + 1] <= P[n]
        BY <4>1, SumsGrow
      <4> QED
        BY <4>1, <4>2 DEF IsSums
    <3>3. Contribution(idx, k) \in Nat
      BY ContributionIsNat
    <3>4. PICK x \in Int : x = (P[k] - P[i]) + s + 1
      BY <1>6, <3>1, <3>3
    <3>5. x \in 1 .. c + Len(g[j]) /\ ~(x <= c) /\ x - c = (P[k] - P[j]) + s + 1
      <4>1. s \in Nat /\ s + 1 <= Contribution(idx, k)
        BY <3>3
      <4>2. P[k] - P[i] = (P[k] - P[j]) + c
        BY <1>5, <1>6, <3>1
      <4>3. PICK y \in Nat : y = Len(g[j]) /\ y = P[n] - P[j]
        BY <1>9, <1>10
      <4>4. PICK z \in Nat : z = P[k] - P[j]
        BY <1>6, <3>1
      <4>5. z + s + 1 <= y
        BY <1>6, <3>1, <3>2, <3>3, <4>1, <4>3, <4>4
      <4>6. x = c + z + s + 1
        BY <1>5, <3>4, <4>1, <4>2, <4>4
      <4> QED
        BY <1>5, <4>1, <4>3, <4>4, <4>5, <4>6
    <3>6. g[i][x] = g[j][x - c]
      BY <1>10, <3>5
    <3>7. g[j][(P[k] - P[j]) + s + 1] = Segment(idx, k, s)
      BY <1>9, <2>3
    <3> QED
      BY <3>4, <3>5, <3>6, <3>7
  <2> QED
    BY <1>1, <1>4, <2>1, <2>2, <2>3
<1> QED
  BY <1>11, <1>12 DEF WalkIs

LEMMA WalkFromStart ==
  ASSUME NEW idx, NEW n, IsBatch(idx, n), NEW P, IsSums(P, idx, n),
         NEW g, WalksFrom(g, idx, n, 0)
  PROVE  WalkIs(g, P, idx, n, 0)
<1>1. n \in Nat /\ P \in [0 .. n -> Nat]
  BY DEF IsBatch, IsSums
<1> DEFINE T == {d \in 0 .. n : /\ d = 0 \/ IsRunStart(idx, n - d)
                                /\ ~WalkIs(g, P, idx, n, n - d)}
<1>2. ASSUME T # {} PROVE FALSE
  <2>1. T \in SUBSET Nat
    BY <1>1
  <2>2. PICK d \in T : \A e \in T : d <= e
    <3> HIDE DEF T
    <3> QED
      BY <1>2, <2>1, LeastNumber
  <2>3. PICK i \in 0 .. n : i = n - d /\ d = n - i
    BY <1>1
  <2>4. (i = n \/ IsRunStart(idx, i)) /\ ~WalkIs(g, P, idx, n, i)
    BY <1>1, <2>2, <2>3
  <2>5. CASE i = n
    <3>1. g[n] = << >>
      BY <1>1 DEF WalksFrom
    <3>2. P[n] \in Nat /\ P[n] - P[n] = 0 /\ n - n = 0 /\ n .. n - 1 = {}
      BY <1>1
    <3>3. WalkIs(g, P, idx, n, n)
      BY <3>1, <3>2 DEF WalkIs
    <3> QED
      BY <2>4, <2>5, <3>3
  <2>6. CASE i # n
    <3>1. i \in 0 .. n - 1 /\ IsRunStart(idx, i)
      BY <1>1, <2>4, <2>6
    <3>2. RunLen(idx, i) \in 1 .. n - i
      BY <3>1, RunLenIs
    <3>3. PICK j \in Int : j = i + RunLen(idx, i)
      BY <1>1, <3>1, <3>2
    <3>4. j \in i + 1 .. n /\ (j = n \/ IsRunStart(idx, j))
      BY <3>1, <3>3, NextRun
    <3>5. n - j \in 0 .. n /\ n - j < d /\ n - (n - j) = j /\ (j = n => n - j = 0)
      <4>1. n \in Nat /\ i \in Nat /\ j \in Nat /\ i < j /\ j <= n /\ d = n - i
        BY <1>1, <2>3, <3>1, <3>4
      <4> QED
        BY <4>1
    <3>6. n - j \notin T
      <4>1. d \in Nat /\ n - j \in Nat /\ ~(d <= n - j)
        BY <1>1, <2>3, <3>5
      <4> QED
        BY <2>2, <4>1
    <3>7. WalkIs(g, P, idx, n, j)
      BY <3>4, <3>5, <3>6
    <3> QED
      BY <2>4, <3>1, <3>3, <3>7, WalkOfRun
  <2> QED
    BY <2>5, <2>6
<1>3. n \in 0 .. n /\ n - n = 0
  BY <1>1
<1>4. IsRunStart(idx, 0)
  BY DEF IsRunStart
<1> QED
  BY <1>2, <1>3, <1>4

(* A batch of no more tokens than the table has rows is tabulated in full. *)
LEMMA SerialTabulates ==
  ASSUME NEW idx, NEW n, IsBatch(idx, n), NEW N \in Nat, n <= N, NEW P, IsSums(P, idx, n)
  PROVE  /\ SerialTable(idx, N) \in Seq(Segs(idx))
         /\ Len(SerialTable(idx, N)) = P[n] /\ P[n] \in 0 .. n
         /\ Tabulates(SerialTable(idx, N), P, idx, n)
<1>1. n \in Nat /\ P \in [0 .. n -> Nat] /\ P[0] = 0
  BY DEF IsBatch, IsSums
<1>2. PICK g : /\ WalksFrom(g, idx, n, 0)
               /\ SerialTable(idx, N) = SubSeq(g[0], 1, Min({N, Len(g[0])}))
  BY SerialTableWalks, ZenonT(60)
<1>3. g[0] \in Seq(Segs(idx))
  <2>1. 0 \in 0 .. n
    BY <1>1
  <2> QED
    BY <1>2, <2>1 DEF WalksFrom
<1>4. WalkIs(g, P, idx, n, 0)
  BY <1>2, WalkFromStart
<1>5. Len(g[0]) = P[n] /\ P[n] \in 0 .. n
  BY <1>1, <1>4 DEF WalkIs
<1>6. Min({N, Len(g[0])}) = Len(g[0])
  <2>1. N \in Int /\ Len(g[0]) \in Int /\ Len(g[0]) <= N
    BY <1>1, <1>5
  <2>2. Min({N, Len(g[0])}) = IF N <= Len(g[0]) THEN N ELSE Len(g[0])
    BY <2>1, LesserOfTwo
  <2> QED
    BY <2>1, <2>2
<1>7. SerialTable(idx, N) = g[0]
  BY <1>2, <1>3, <1>6, SubSeqFull
<1>8. ASSUME NEW i \in 0 .. n - 1, NEW s \in 0 .. Contribution(idx, i) - 1
      PROVE  g[0][P[i] + s + 1] = Segment(idx, i, s)
  <2>1. g[0][(P[i] - P[0]) + s + 1] = Segment(idx, i, s)
    BY <1>4 DEF WalkIs
  <2>2. P[i] \in Nat /\ P[i] - P[0] = P[i]
    BY <1>1
  <2> QED
    BY <2>1, <2>2
<1> QED
  BY <1>3, <1>5, <1>7, <1>8 DEF Tabulates

(* A table that holds every segment holds nothing else.                        *)
RowHolds(tab, P, idx, m, k) ==
  \E i \in 0 .. m - 1 : \E s \in 0 .. Contribution(idx, i) - 1 :
    k = P[i] + s + 1 /\ tab[k] = Segment(idx, i, s)

LEMMA RowOfOneRun ==
  ASSUME NEW idx, NEW n, IsBatch(idx, n), NEW P, NEW m, IsSums(P, idx, m),
         NEW tab, Tabulates(tab, P, idx, m), NEW k \in 1 .. P[m]
  PROVE  RowHolds(tab, P, idx, m, k)
<1>1. m \in Nat /\ P \in [0 .. m -> Nat] /\ P[m] \in Nat
  BY DEF IsSums
<1>2. k - 1 \in 0 .. P[m] - 1
  BY <1>1
<1>3. PICK i \in 0 .. m - 1 : P[i] <= k - 1 /\ k - 1 < P[i] + Contribution(idx, i)
  BY <1>2, RowHasOwner
<1>4. P[i] \in Nat /\ Contribution(idx, i) \in Nat
  BY <1>1, ContributionIsNat
<1>5. PICK s \in 0 .. Contribution(idx, i) - 1 : s = (k - 1) - P[i]
  BY <1>2, <1>3, <1>4
<1>6. k = P[i] + s + 1
  BY <1>1, <1>2, <1>4, <1>5
<1> QED
  BY <1>6 DEF Tabulates, RowHolds

(* Two tables that tabulate a batch are one. *)
LEMMA TabulatesOnce ==
  ASSUME NEW idx, NEW n, IsBatch(idx, n), NEW P, NEW m, IsSums(P, idx, m),
         NEW t, Tabulates(t, P, idx, m), NEW u, Tabulates(u, P, idx, m),
         NEW k \in 1 .. P[m]
  PROVE  t[k] = u[k]
<1>1. RowHolds(t, P, idx, m, k)
  BY RowOfOneRun
<1>2. PICK i \in 0 .. m - 1 : \E s \in 0 .. Contribution(idx, i) - 1 :
        k = P[i] + s + 1 /\ t[k] = Segment(idx, i, s)
  BY <1>1 DEF RowHolds
<1> QED
  BY <1>2 DEF Tabulates

(* Positions past the batch add nothing. *)
LEMMA SerialTabulatesPadded ==
  ASSUME NEW idx, NEW n, IsBatch(idx, n), NEW N \in Nat, n <= N,
         NEW P, NEW m, IsSums(P, idx, m), n <= m
  PROVE  /\ SerialTable(idx, N) \in Seq(Segs(idx))
         /\ Len(SerialTable(idx, N)) = P[m] /\ P[m] \in 0 .. n
         /\ Tabulates(SerialTable(idx, N), P, idx, m)
<1>1. n \in Nat /\ m \in Nat /\ P \in [0 .. m -> Nat] /\ P[0] = 0 /\ Tokens(idx) = 0 .. n - 1
  BY BatchSize DEF IsBatch, IsSums
<1>2. \A k \in n .. m - 1 : Contribution(idx, k) = 0
  BY <1>1 DEF Contribution
<1>3. P[m] = P[n]
  <2>1. n \in 0 .. m /\ m \in n .. m
    BY <1>1
  <2> QED
    BY <1>2, <2>1, SumsFlat
<1> DEFINE Q == [i \in 0 .. n |-> P[i]]
<1>4. \A i \in 0 .. n : Q[i] = P[i] /\ i \in 0 .. m
  BY <1>1
<1>5. IsSums(Q, idx, n)
  <2>1. Q \in [0 .. n -> Nat]
    BY <1>1
  <2>2. ASSUME NEW i \in 0 .. n - 1 PROVE Q[i + 1] = Q[i] + Contribution(idx, i)
    <3>1. i \in 0 .. n /\ i + 1 \in 0 .. n /\ i \in 0 .. m - 1
      BY <1>1
    <3>2. P[i + 1] = P[i] + Contribution(idx, i)
      BY <3>1 DEF IsSums
    <3> QED
      BY <3>1, <3>2
  <2>3. Q[0] = 0
    BY <1>1
  <2> HIDE DEF Q
  <2> QED
    BY <1>1, <2>1, <2>2, <2>3 DEF IsSums
<1> HIDE DEF Q
<1>6. /\ SerialTable(idx, N) \in Seq(Segs(idx))
      /\ Len(SerialTable(idx, N)) = Q[n] /\ Q[n] \in 0 .. n
      /\ Tabulates(SerialTable(idx, N), Q, idx, n)
  BY <1>5, SerialTabulates
<1>7. Q[n] = P[m]
  BY <1>1, <1>3, <1>4
<1>8. Tabulates(SerialTable(idx, N), P, idx, m)
  <2> SUFFICES ASSUME NEW i \in 0 .. m - 1, NEW s \in 0 .. Contribution(idx, i) - 1
               PROVE  SerialTable(idx, N)[P[i] + s + 1] = Segment(idx, i, s)
    BY DEF Tabulates
  <2>1. CASE i \in n .. m - 1
    BY <1>2, <2>1
  <2>2. CASE i \in 0 .. n - 1
    <3>1. SerialTable(idx, N)[Q[i] + s + 1] = Segment(idx, i, s)
      BY <1>6, <2>2 DEF Tabulates
    <3>2. Q[i] = P[i]
      BY <1>1, <1>4, <2>2
    <3> QED
      BY <3>1, <3>2
  <2> QED
    BY <1>1, <2>1, <2>2
<1> QED
  BY <1>6, <1>7, <1>8

-----------------------------------------------------------------------------
(* Which rows a launch visits. *)

(* The grid has a chunk for every row of a full segment. *)
LEMMA ChunksCover ==
  ASSUME NEW d \in 0 .. MaxSegmentTokens - 1
  PROVE  d \div TokenChunk < MaxChunks
<1>1. PICK M \in Nat, C \in Nat : /\ M = MaxSegmentTokens /\ C = TokenChunk
                                  /\ M # 0 /\ C # 0 /\ M + C - 1 \in Nat
  BY SegmentsAssumption
<1>2. PICK q \in Nat : q = d \div C /\ q * C <= d
  BY <1>1, QuotientIs
<1>3. PICK r \in Nat : r = MaxChunks /\ M + C - 1 < (r + 1) * C
  BY <1>1, QuotientIs DEF MaxChunks
<1>4. (r + 1) * C = r * C + C /\ r * C \in Nat /\ q * C \in Nat /\ d \in Nat /\ d < M
  BY <1>1
<1>5. q * C < r * C
  BY <1>1, <1>2, <1>3, <1>4
<1>6. ASSUME r <= q PROVE FALSE
  BY <1>1, <1>4, <1>5, <1>6, ProductGrows
<1> QED
  BY <1>1, <1>2, <1>3, <1>6

(* A piece's rows are those of its run at its place. *)
LEMMA VisitedIs ==
  ASSUME NEW idx, NEW n, IsBatch(idx, n), NEW i \in 0 .. n - 1,
         NEW s \in 0 .. Contribution(idx, i) - 1
  PROVE  Visited(Segment(idx, i, s))
           = {t \in i .. i + RunLen(idx, i) - 1 : (t - i) \div MaxSegmentTokens = s}
<1>1. PICK M \in Nat : M = MaxSegmentTokens /\ M # 0
  BY SegmentsAssumption
<1>2. n \in Nat /\ i \in Nat
  BY DEF IsBatch
<1>3. PICK L \in Nat : L = RunLen(idx, i)
  <2>1. RunLen(idx, i) \in 1 .. n - i
    BY RunLenIs
  <2> QED
    BY <1>2, <2>1
<1>4. s \in Nat
  <2>1. Contribution(idx, i) \in Nat
    BY ContributionIsNat
  <2> QED
    BY <2>1
<1>5. PICK b \in Nat : b = s * M
  BY <1>1, <1>4
<1> DEFINE seg == Segment(idx, i, s)
<1>6. PICK c \in Nat : /\ c = seg.token_count /\ c <= M
                       /\ \A d \in Nat : d < c <=> d < M /\ b + d < L
  BY <1>1, <1>3, <1>5, SegmentIs
<1>7. seg.token_start = i + b
  BY <1>1, <1>5, SegmentIs
<1> HIDE DEF seg
<1>8. ASSUME NEW t \in Visited(seg) PROVE t \in i .. i + L - 1 /\ (t - i) \div M = s
  <2>1. t \in (i + b) .. (i + b) + c - 1
    BY <1>6, <1>7 DEF Visited
  <2>2. PICK d \in Nat : d = t - (i + b) /\ d < c
    BY <1>2, <1>5, <1>6, <2>1
  <2>3. d < M /\ b + d < L /\ t = i + b + d
    BY <1>2, <1>5, <1>6, <2>1, <2>2
  <2>4. (s + 1) * M = b + M
    BY <1>1, <1>4, <1>5
  <2>5. PICK a \in Nat : a = b + d
    BY <1>5, <2>2
  <2>6. s * M <= a /\ a < (s + 1) * M
    BY <1>1, <1>5, <2>3, <2>4, <2>5
  <2>7. a \div M = s
    BY <1>1, <1>4, <2>5, <2>6, QuotientFrom
  <2>8. t - i = a
    BY <1>2, <1>5, <2>3, <2>5
  <2> QED
    BY <1>2, <1>3, <1>5, <2>3, <2>5, <2>7, <2>8
<1>9. ASSUME NEW t \in i .. i + L - 1, (t - i) \div M = s PROVE t \in Visited(seg)
  <2>1. PICK a \in Nat : a = t - i /\ a < L
    BY <1>2, <1>3
  <2>2. a \div M = s
    BY <1>9, <2>1
  <2>3. b <= a /\ a < (s + 1) * M
    BY <1>1, <1>5, <2>1, <2>2, QuotientIs
  <2>4. (s + 1) * M = b + M
    BY <1>1, <1>4, <1>5
  <2>5. PICK d \in Nat : d = a - b /\ d < M
    BY <1>1, <1>5, <2>1, <2>3, <2>4
  <2>6. d < c
    BY <1>5, <1>6, <2>1, <2>3, <2>5
  <2>7. t - (i + b) = d /\ t \in (i + b) .. (i + b) + c - 1
    BY <1>2, <1>5, <1>6, <2>1, <2>3, <2>5, <2>6
  <2>8. d \div TokenChunk < MaxChunks
    <3>1. d \in 0 .. MaxSegmentTokens - 1
      BY <1>1, <2>5
    <3> QED
      BY <3>1, ChunksCover
  <2> QED
    BY <1>6, <1>7, <2>7, <2>8 DEF Visited
<1> QED
  BY <1>1, <1>3, <1>8, <1>9 DEF seg

(* Every token is in one run. *)
LEMMA TokenHasRun ==
  ASSUME NEW idx, NEW n, IsBatch(idx, n), NEW t \in 0 .. n - 1
  PROVE  \E i \in 0 .. n - 1 : IsRunStart(idx, i) /\ t \in i .. i + RunLen(idx, i) - 1
<1>1. n \in Nat /\ t \in Nat
  BY DEF IsBatch
<1> DEFINE T == {i \in 0 .. t : IsRunStart(idx, i)}
<1>2. T \in SUBSET Nat /\ (\A i \in T : i <= t)
  BY <1>1
<1>3. 0 \in T
  BY <1>1 DEF IsRunStart
<1>4. PICK i \in T : \A k \in T : k <= i
  <2> HIDE DEF T
  <2>1. T # {}
    BY <1>3
  <2> QED
    BY <1>1, <1>2, <2>1, GreatestNumber
<1>5. i \in 0 .. n - 1 /\ IsRunStart(idx, i) /\ i <= t
  BY <1>1, <1>4
<1>6. RunLen(idx, i) \in 1 .. n - i
  BY <1>5, RunLenIs
<1>7. PICK j \in Nat : j = i + RunLen(idx, i)
  BY <1>1, <1>5, <1>6
<1>8. j \in i + 1 .. n /\ (j = n \/ IsRunStart(idx, j))
  BY <1>5, <1>7, NextRun
<1>9. ASSUME j <= t PROVE FALSE
  <2>1. j \in T
    BY <1>1, <1>8, <1>9
  <2>2. ~(j <= i)
    BY <1>1, <1>5, <1>8
  <2> QED
    BY <1>4, <2>1, <2>2
<1>10. t \in i .. j - 1
  BY <1>1, <1>5, <1>9
<1>11. t \in i .. i + RunLen(idx, i) - 1
  BY <1>1, <1>5, <1>6, <1>7, <1>10
<1> HIDE DEF T
<1> QED
  BY <1>5, <1>11

LEMMA TokenHasOneRun ==
  ASSUME NEW idx, NEW n, IsBatch(idx, n), NEW t,
         NEW i \in 0 .. n - 1, IsRunStart(idx, i), t \in i .. i + RunLen(idx, i) - 1,
         NEW j \in 0 .. n - 1, IsRunStart(idx, j), t \in j .. j + RunLen(idx, j) - 1
  PROVE  i = j
<1>1. n \in Nat /\ i \in Nat /\ j \in Nat
  BY DEF IsBatch
<1>2. RunLen(idx, i) \in 1 .. n - i /\ RunLen(idx, j) \in 1 .. n - j
  BY RunLenIs
<1>3. PICK x \in Nat, y \in Nat : x = i + RunLen(idx, i) /\ y = j + RunLen(idx, j)
  BY <1>1, <1>2
<1>4. (\A k \in i + 1 .. x - 1 : ~IsRunStart(idx, k)) /\ (\A k \in j + 1 .. y - 1 : ~IsRunStart(idx, k))
  BY <1>3, NextRun
<1>5. t \in i .. x - 1 /\ t \in j .. y - 1
  BY <1>1, <1>2, <1>3
<1>6. ~(i < j)
  BY <1>1, <1>3, <1>4, <1>5
<1>7. ~(j < i)
  BY <1>1, <1>3, <1>4, <1>5
<1> QED
  BY <1>1, <1>6, <1>7

(* A table with one row per segment of the batch, each in its place, gives     *)
(* every row of the batch the product of its own adapter, once, and visits no   *)
(* row that the batch does not have.                                           *)
LEMMA TabulatedServes ==
  ASSUME NEW idx, NEW n, IsBatch(idx, n), NEW P, IsSums(P, idx, n),
         NEW tab, DOMAIN tab = 1 .. P[n], Tabulates(tab, P, idx, n)
  PROVE  ServesBatch(tab, idx)
<1>1. n \in Nat /\ P \in [0 .. n -> Nat] /\ Tokens(idx) = 0 .. n - 1
  BY BatchSize DEF IsSums
<1>2. PICK M \in Nat : M = MaxSegmentTokens /\ M # 0
  BY SegmentsAssumption
<1>3. ASSUME NEW k \in DOMAIN tab, NEW t \in Visited(tab[k])
      PROVE  /\ t \in 0 .. n - 1 /\ tab[k].adapter_id = idx[t] /\ idx[t] # NoLora
             /\ \E i \in 0 .. n - 1 :
                  /\ IsRunStart(idx, i) /\ t \in i .. i + RunLen(idx, i) - 1
                  /\ k = P[i] + ((t - i) \div MaxSegmentTokens) + 1
  <2>0. PICK i \in 0 .. n - 1 : \E s \in 0 .. Contribution(idx, i) - 1 :
          k = P[i] + s + 1 /\ tab[k] = Segment(idx, i, s)
    <3>1. RowHolds(tab, P, idx, n, k)
      BY RowOfOneRun
    <3> QED
      BY <3>1 DEF RowHolds
  <2>1. PICK s \in 0 .. Contribution(idx, i) - 1 :
          k = P[i] + s + 1 /\ tab[k] = Segment(idx, i, s)
    BY <2>0
  <2>2. t \in i .. i + RunLen(idx, i) - 1 /\ (t - i) \div MaxSegmentTokens = s
    BY <1>3, <2>1, VisitedIs
  <2>3. RunLen(idx, i) \in 1 .. n - i /\ idx[t] = idx[i]
    BY <2>2, RunLenIs
  <2>4. t \in 0 .. n - 1
    BY <1>1, <2>2, <2>3, SMTT(30)
  <2> QED
    BY <2>1, <2>2, <2>3, <2>4, SegmentIs
<1>4. ASSUME NEW t \in 0 .. n - 1, idx[t] # NoLora
      PROVE  \E k \in DOMAIN tab : AppliedTo(tab, t) = {k} /\ tab[k].adapter_id = idx[t]
  <2>1. PICK i \in 0 .. n - 1 : IsRunStart(idx, i) /\ t \in i .. i + RunLen(idx, i) - 1
    BY TokenHasRun
  <2>2. PICK L \in Nat : L = RunLen(idx, i) /\ L >= 1
    <3>1. RunLen(idx, i) \in 1 .. n - i
      BY RunLenIs
    <3> QED
      BY <1>1, <3>1
  <2>3. PICK a \in Nat : a = t - i /\ a < L
    BY <1>1, <2>1, <2>2
  <2>4. PICK s \in Nat : s = a \div M /\ s * M <= a
    BY <1>2, <2>3, QuotientIs
  <2>5. PICK q \in Nat : q = Pieces(L) /\ L <= q * M
    BY <1>2, <2>2, PiecesAre
  <2>6. s < q
    <3> SUFFICES ASSUME q <= s PROVE FALSE
      BY <2>4, <2>5
    <3>1. q * M <= s * M
      BY <1>2, <2>4, <2>5, ProductGrows
    <3>2. q * M \in Nat /\ s * M \in Nat
      BY <1>2, <2>4, <2>5
    <3> QED
      BY <2>2, <2>3, <2>4, <2>5, <3>1, <3>2
  <2>7. idx[t] = idx[i]
    BY <2>1, RunLenIs
  <2>8. Contribution(idx, i) = q
    BY <1>1, <1>4, <2>1, <2>2, <2>5, <2>7 DEF Contribution
  <2>9. s \in 0 .. Contribution(idx, i) - 1
    BY <2>4, <2>5, <2>6, <2>8
  <2>10. P[i + 1] = P[i] + q /\ P[i] \in Nat /\ P[n] \in Nat /\ P[i + 1] <= P[n]
    <3>1. i + 1 \in 0 .. n /\ n \in i + 1 .. n /\ i \in 0 .. n
      BY <1>1
    <3>2. P[i + 1] = P[i] + q
      BY <2>8 DEF IsSums
    <3>3. P[n] \in Nat /\ P[i + 1] <= P[n]
      BY <3>1, SumsGrow
    <3> QED
      BY <1>1, <3>1, <3>2, <3>3
  <2>11. PICK k \in 1 .. P[n] : k = P[i] + s + 1
    <3>1. PICK b \in Nat, c \in Nat : b = P[i] /\ c = P[n] /\ b + q <= c
      BY <2>5, <2>10
    <3>2. b + s + 1 \in 1 .. c
      BY <2>6, <3>1, SMTT(30)
    <3> QED
      BY <3>1, <3>2
  <2>12. tab[k] = Segment(idx, i, s)
    BY <2>9, <2>11 DEF Tabulates
  <2>13. t \in Visited(tab[k])
    <3>1. (t - i) \div MaxSegmentTokens = s
      BY <1>2, <2>3, <2>4
    <3> QED
      BY <2>1, <2>9, <2>12, <3>1, VisitedIs
  <2>14. ASSUME NEW x \in DOMAIN tab, t \in Visited(tab[x]) PROVE x = k
    <3>1. PICK j \in 0 .. n - 1 :
            /\ IsRunStart(idx, j) /\ t \in j .. j + RunLen(idx, j) - 1
            /\ x = P[j] + ((t - j) \div MaxSegmentTokens) + 1
      BY <1>3, <2>14
    <3>2. j = i
      BY <2>1, <3>1, TokenHasOneRun
    <3> QED
      BY <1>2, <2>3, <2>4, <2>11, <3>1, <3>2
  <2> QED
    BY <1>3, <2>11, <2>13, <2>14 DEF AppliedTo
<1>5. ASSUME NEW t \in 0 .. n - 1, idx[t] = NoLora PROVE AppliedTo(tab, t) = {}
  BY <1>3, <1>5 DEF AppliedTo
<1>6. \A t \in Tokens(idx) : ServesToken(tab, idx, t)
  BY <1>1, <1>4, <1>5 DEF ServesToken
<1>7. \A k \in DOMAIN tab : Visited(tab[k]) \subseteq Tokens(idx)
  BY <1>1, <1>3
<1> QED
  BY <1>6, <1>7 DEF ServesBatch

(* The serial table of a batch that fits serves the batch.                     *)
LEMMA SerialServes ==
  ASSUME NEW idx, NEW n, IsBatch(idx, n), NEW N \in Nat, n <= N
  PROVE  ServesBatch(SerialTable(idx, N), idx)
<1>1. n \in Nat
  BY DEF IsBatch
<1>2. PICK P : IsSums(P, idx, n)
  BY <1>1, SumsExist
<1>3. /\ SerialTable(idx, N) \in Seq(Segs(idx)) /\ Len(SerialTable(idx, N)) = P[n]
      /\ Tabulates(SerialTable(idx, N), P, idx, n)
  BY <1>2, SerialTabulates
<1>4. DOMAIN SerialTable(idx, N) = 1 .. P[n]
  BY <1>3
<1> QED
  BY <1>2, <1>3, <1>4, TabulatedServes

(* Every row of it is a segment of a real adapter.                             *)
LEMMA SerialRows ==
  ASSUME NEW idx, NEW n, IsBatch(idx, n), NEW N \in Nat, n <= N
  PROVE  /\ SerialTable(idx, N) \in Seq(Segs(idx)) /\ Len(SerialTable(idx, N)) \in 0 .. n
         /\ \A k \in 1 .. Len(SerialTable(idx, N)) :
              \E i \in 0 .. n - 1 : \E s \in 0 .. Contribution(idx, i) - 1 :
                SerialTable(idx, N)[k] = Segment(idx, i, s)
<1>1. n \in Nat
  BY DEF IsBatch
<1>2. PICK P : IsSums(P, idx, n)
  BY <1>1, SumsExist
<1>3. /\ SerialTable(idx, N) \in Seq(Segs(idx)) /\ Len(SerialTable(idx, N)) = P[n] /\ P[n] \in 0 .. n
      /\ Tabulates(SerialTable(idx, N), P, idx, n)
  BY <1>2, SerialTabulates
<1>4. \A k \in 1 .. P[n] : RowHolds(SerialTable(idx, N), P, idx, n, k)
  BY <1>2, <1>3, RowOfOneRun
<1> QED
  BY <1>3, <1>4 DEF RowHolds
=============================================================================
