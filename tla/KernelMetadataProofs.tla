------------------------ MODULE KernelMetadataProofs ------------------------
(***************************************************************************)
(* Theorems of KernelMetadata and so of its three writers: for any names,  *)
(* batches, readings and sizes, the id map, the host's table, the page and *)
(* the device's table are right whichever writer is at work.  The sections *)
(* below give each writer's part of the invariant, the last one puts them  *)
(* together.                                                               *)
(***************************************************************************)
EXTENDS KernelMetadata, SegmentsProofs, Functions

-----------------------------------------------------------------------------
(***************************************************************************)
(* The id map stays a bijection, and an id once given stays given.         *)
(***************************************************************************)

Rank(S, i) == Cardinality({j \in S : j < i})

(* The places of a finite set of positions are numbered from 0 on, without    *)
(* gap and without repetition, by how many positions come before.             *)
LEMMA RankNumbers ==
  ASSUME NEW n \in Nat, NEW S \in SUBSET (1 .. n)
  PROVE  /\ Cardinality(S) \in Nat
         /\ \A i \in S : Rank(S, i) \in 0 .. Cardinality(S) - 1
         /\ \A i, k \in S : Rank(S, i) = Rank(S, k) => i = k
         /\ \A r \in 0 .. Cardinality(S) - 1 : \E i \in S : Rank(S, i) = r
<1> DEFINE before(i) == {j \in S : j < i}
           c == Cardinality(S)
<1>1. S \subseteq Int /\ IsFiniteSet(S) /\ c \in Nat
  <2>1. IsFiniteSet(1 .. n)
    BY FS_Interval
  <2>2. IsFiniteSet(S)
    BY <2>1, FS_Subset
  <2> QED
    BY <2>2, FS_CardinalityType
<1>2. \A i \in S : IsFiniteSet(before(i)) /\ Rank(S, i) \in Nat /\ Rank(S, i) < c
  <2> TAKE i \in S
  <2>1. IsFiniteSet(S \ {i}) /\ Cardinality(S \ {i}) = c - 1
    BY <1>1, FS_RemoveElement
  <2>2. before(i) \subseteq S \ {i}
    BY <1>1
  <2>3. IsFiniteSet(before(i)) /\ Cardinality(before(i)) <= c - 1
    BY <2>1, <2>2, FS_Subset
  <2>4. Cardinality(before(i)) \in Nat
    BY <2>3, FS_CardinalityType
  <2> QED
    BY <2>3, <2>4, <1>1 DEF Rank
<1>3. \A i \in S : Rank(S, i) \in 0 .. c - 1
  <2> TAKE i \in S
  <2>1. Rank(S, i) \in Nat /\ Rank(S, i) < c /\ c \in Nat
    BY <1>1, <1>2
  <2> HIDE DEF c
  <2> QED
    BY <2>1
<1>4. ASSUME NEW i \in S, NEW k \in S, i < k
      PROVE  Rank(S, i) < Rank(S, k)
  <2>1. IsFiniteSet(before(i) \cup {i}) /\ Cardinality(before(i) \cup {i}) = Rank(S, i) + 1
    <3>1. i \notin before(i)
      BY <1>1
    <3> QED
      BY <1>2, <3>1, FS_AddElement DEF Rank
  <2>2. before(i) \cup {i} \subseteq before(k)
    <3> SUFFICES ASSUME NEW j \in before(i) \cup {i}
                 PROVE  j \in S /\ j < k
      OBVIOUS
    <3>1. j \in S /\ (j < i \/ j = i)
      OBVIOUS
    <3>2. i \in Int /\ j \in Int /\ k \in Int
      BY <1>1, <3>1
    <3> QED
      BY <1>4, <3>1, <3>2
  <2>3. Rank(S, i) + 1 <= Rank(S, k)
    BY <2>1, <2>2, <1>2, FS_Subset DEF Rank
  <2>4. Rank(S, i) \in Nat /\ Rank(S, k) \in Nat
    BY <1>2
  <2> QED
    BY <2>3, <2>4
<1>5. \A i, k \in S : Rank(S, i) = Rank(S, k) => i = k
  <2> SUFFICES ASSUME NEW i \in S, NEW k \in S, Rank(S, i) = Rank(S, k), i # k
               PROVE  FALSE
    OBVIOUS
  <2>1. i < k \/ k < i
    BY <1>1
  <2>2. Rank(S, i) \in Nat
    BY <1>1, <1>2
  <2> QED
    BY <2>1, <2>2, <1>4
<1>6. \A r \in 0 .. c - 1 : \E i \in S : Rank(S, i) = r
  <2> DEFINE f == [i \in S |-> Rank(S, i)]
             T == 0 .. c - 1
  <2>1. f \in Injection(S, T)
    <3>1. f \in [S -> T]
      BY <1>3
    <3>2. DOMAIN f = S /\ \A a, b \in S : f[a] = f[b] => a = b
      BY <1>5
    <3> HIDE DEF f
    <3> QED
      BY <3>1, <3>2 DEF Injection, IsInjective
  <2>2. IsFiniteSet(T) /\ Cardinality(T) = c
    BY <1>1, FS_Interval, SMTT(30)
  <2>3. f \in Surjection(S, T)
    BY <2>1, <2>2, FS_Injection
  <2> QED
    BY <2>3 DEF Surjection
<1> QED
  BY <1>1, <1>3, <1>5, <1>6

(* The position at which a name first occurs. *)
LEMMA FirstOccurrence ==
  ASSUME NEW n \in Nat, NEW P \in SUBSET (1 .. n), P # {}
  PROVE  \E i \in P : \A j \in P : ~(j < i)
<1>1. IsFiniteSet(P) /\ Cardinality(P) \in Nat
  <2>1. IsFiniteSet(1 .. n)
    BY FS_Interval
  <2> QED
    BY <2>1, FS_Subset, FS_CardinalityType
<1>2. Cardinality(P) # 0
  BY <1>1, FS_EmptySet
<1>3. 0 \in 0 .. Cardinality(P) - 1
  BY <1>1, <1>2
<1>4. PICK i \in P : Rank(P, i) = 0
  BY <1>3, RankNumbers
<1> DEFINE before == {j \in P : j < i}
<1>5. before = {}
  <2>1. IsFiniteSet(before)
    BY <1>1, FS_Subset
  <2>2. Cardinality(before) = 0
    BY <1>4 DEF Rank
  <2> HIDE DEF before
  <2> QED
    BY <2>1, <2>2, FS_EmptySet
<1> QED
  BY <1>5

IdMapInv ==
  /\ str_to_int \in [Names -> Nat \cup {NoId}]
  /\ int_to_str \in Seq(Names)
  /\ \A x \in Names : Known(x) =>
       str_to_int[x] < Len(int_to_str) /\ NameOf(str_to_int[x]) = x
  /\ \A id \in 0 .. Len(int_to_str) - 1 : str_to_int[NameOf(id)] = id

(* What was given before is as it was, and every name asked for has an id. *)
Extended(names) ==
  /\ Len(int_to_str) <= Len(int_to_str')
  /\ \A id \in 0 .. Len(int_to_str) - 1 : NameOf(id)' = NameOf(id)
  /\ \A x \in Names : Known(x) => str_to_int'[x] = str_to_int[x]
  /\ \A i \in DOMAIN names : Known(names[i])'

(* The map starts as a bijection between no names and no ids. *)
LEMMA IdMapStarts == ASSUME IdMapInit PROVE IdMapInv
BY IdMapAssumption DEF IdMapInit, IdMapInv, Known

(* A series of get_or_assign calls keeps the map a bijection and only adds    *)
(* to it: ids are assigned in first-seen order and never reused               *)
(* (AdapterIdMap, docstring).                                                 *)
LEMMA GetOrAssignExtends ==
  ASSUME IdMapInv, NEW n \in Nat, NEW names \in [1 .. n -> Names], GetOrAssignAll(names)
  PROVE  IdMapInv' /\ Extended(names)
<1> DEFINE fresh == FirstSeen(names)
           L == Len(int_to_str)
           c == Cardinality(fresh)
<1>1. /\ str_to_int \in [Names -> Nat \cup {NoId}] /\ NoId \notin Nat
      /\ int_to_str \in Seq(Names) /\ L \in Nat
      /\ int_to_str \in [1 .. L -> Names]
  BY IdMapAssumption DEF IdMapInv
<1>2. fresh \in SUBSET (1 .. n) /\ \A i \in fresh : ~Known(names[i])
  BY DEF FirstSeen
<1>3. /\ c \in Nat
      /\ \A i \in fresh : Rank(fresh, i) \in 0 .. c - 1
      /\ \A i, k \in fresh : Rank(fresh, i) = Rank(fresh, k) => i = k
      /\ \A r \in 0 .. c - 1 : \E i \in fresh : Rank(fresh, i) = r
  <2> HIDE DEF fresh
  <2> QED
    BY <1>2, RankNumbers
<1>4. \A i \in fresh : NewId(names, i) = L + Rank(fresh, i)
  BY DEF NewId, Rank
<1>5. \A i, k \in fresh : names[i] = names[k] => i = k
  <2> SUFFICES ASSUME NEW i \in fresh, NEW k \in fresh, names[i] = names[k], i # k
               PROVE  FALSE
    OBVIOUS
  <2>1. i \in 1 .. n /\ k \in 1 .. n
    BY <1>2
  <2>2. i \in 1 .. k - 1 \/ k \in 1 .. i - 1
    BY <2>1
  <2> QED
    BY <2>2 DEF FirstSeen
<1>6. str_to_int' = [x \in Names |->
          IF \E i \in fresh : names[i] = x
            THEN NewId(names, CHOOSE i \in fresh : names[i] = x)
            ELSE str_to_int[x]]
  BY DEF GetOrAssignAll
<1>7. int_to_str' = [k \in 1 .. L + c |->
          IF k <= L THEN int_to_str[k]
                    ELSE names[CHOOSE i \in fresh : NewId(names, i) = k - 1]]
  BY DEF GetOrAssignAll
<1> HIDE DEF fresh, L, c
<1>8. \A i \in fresh : names[i] \in Names /\ str_to_int'[names[i]] = L + Rank(fresh, i)
  <2> TAKE i \in fresh
  <2>1. names[i] \in Names
    BY <1>2
  <2>2. (CHOOSE k \in fresh : names[k] = names[i]) = i
    BY <1>5
  <2> QED
    BY <2>1, <2>2, <1>4, <1>6
<1>9. \A i \in fresh : int_to_str'[L + Rank(fresh, i) + 1] = names[i]
  <2> TAKE i \in fresh
  <2> DEFINE at == L + Rank(fresh, i) + 1
  <2>1. at \in 1 .. L + c /\ ~(at <= L) /\ at - 1 = NewId(names, i)
    BY <1>1, <1>3, <1>4, SMTT(30)
  <2>2. \A k \in fresh : NewId(names, k) = at - 1 => k = i
    <3> SUFFICES ASSUME NEW k \in fresh, NewId(names, k) = NewId(names, i)
                 PROVE  k = i
      BY <2>1
    <3>1. Rank(fresh, k) \in Nat /\ NewId(names, k) = L + Rank(fresh, k)
      BY <1>3, <1>4
    <3>2. Rank(fresh, i) \in Nat /\ NewId(names, i) = L + Rank(fresh, i)
      BY <1>3, <1>4
    <3>3. L + Rank(fresh, k) = L + Rank(fresh, i)
      BY <3>1, <3>2
    <3>4. \A a, b \in Nat : L + a = L + b => a = b
      BY <1>1
    <3>5. Rank(fresh, k) = Rank(fresh, i)
      BY <3>1, <3>2, <3>3, <3>4
    <3> QED
      BY <3>5, <1>3
  <2> HIDE DEF at
  <2>3. (CHOOSE k \in fresh : NewId(names, k) = at - 1) = i
    BY <2>1, <2>2
  <2>4. int_to_str'[at] = names[i]
    BY <2>1, <2>3, <1>7
  <2> QED
    BY <2>4 DEF at
<1>10. \A x \in Names : Known(x) => str_to_int'[x] = str_to_int[x]
  BY <1>2, <1>6
<1>11. \A k \in 1 .. L : int_to_str'[k] = int_to_str[k]
  BY <1>1, <1>3, <1>7
<1>12. int_to_str' \in Seq(Names) /\ Len(int_to_str') = L + c /\ L + c \in Nat
  <2>1. ASSUME NEW k \in 1 .. L + c
        PROVE  int_to_str'[k] \in Names
    <3>1. CASE k <= L
      BY <3>1, <2>1, <1>1, <1>11
    <3>2. CASE ~(k <= L)
      <4>1. k - L - 1 \in 0 .. c - 1
        BY <3>2, <2>1, <1>1, <1>3
      <4>2. PICK i \in fresh : Rank(fresh, i) = k - L - 1
        BY <4>1, <1>3
      <4>3. L + Rank(fresh, i) + 1 = k
        BY <4>2, <1>1, <1>3, <2>1
      <4> QED
        BY <4>3, <1>8, <1>9
    <3> QED
      BY <3>1, <3>2
  <2>2. L + c \in Nat
    BY <1>1, <1>3
  <2>3. int_to_str' \in [1 .. L + c -> Names]
    BY <2>1, <1>7
  <2> QED
    BY <2>2, <2>3
<1>13. str_to_int' \in [Names -> Nat \cup {NoId}]
  <2>1. ASSUME NEW x \in Names
        PROVE  str_to_int'[x] \in Nat \cup {NoId}
    <3>1. CASE \E i \in fresh : names[i] = x
      BY <3>1, <1>1, <1>3, <1>8
    <3>2. CASE ~\E i \in fresh : names[i] = x
      BY <3>2, <1>1, <1>6
    <3> QED
      BY <3>1, <3>2
  <2> QED
    BY <2>1, <1>6
<1>14. \A x \in Names : Known(x)' =>
         str_to_int'[x] < Len(int_to_str') /\ NameOf(str_to_int[x])' = x
  <2> SUFFICES ASSUME NEW x \in Names, Known(x)'
               PROVE  str_to_int'[x] < L + c /\ int_to_str'[str_to_int'[x] + 1] = x
    BY <1>12 DEF NameOf
  <2>1. CASE Known(x)
    <3>1. /\ str_to_int'[x] = str_to_int[x] /\ str_to_int[x] \in Nat
          /\ str_to_int[x] < L /\ int_to_str[str_to_int[x] + 1] = x
      BY <2>1, <1>1, <1>10 DEF IdMapInv, Known, NameOf, L
    <3>2. str_to_int[x] + 1 \in 1 .. L
      BY <3>1, <1>1
    <3> QED
      BY <3>1, <3>2, <1>1, <1>3, <1>11
  <2>2. CASE ~Known(x)
    <3>1. PICK i \in fresh : names[i] = x
      BY <2>2, <1>6 DEF Known
    <3>2. str_to_int'[x] = L + Rank(fresh, i) /\ Rank(fresh, i) \in 0 .. c - 1
      BY <3>1, <1>3, <1>8
    <3> QED
      BY <3>1, <3>2, <1>1, <1>3, <1>9, SMTT(30)
  <2> QED
    BY <2>1, <2>2
<1>15. \A id \in 0 .. L - 1 : NameOf(id)' = NameOf(id)
  BY <1>1, <1>11 DEF NameOf
<1>16. \A id \in 0 .. Len(int_to_str') - 1 : str_to_int'[NameOf(id)'] = id
  <2> SUFFICES ASSUME NEW id \in 0 .. Len(int_to_str') - 1
               PROVE  str_to_int'[NameOf(id)'] = id
    OBVIOUS
  <2>1. NameOf(id)' = int_to_str'[id + 1]
    BY DEF NameOf
  <2>2. id \in 0 .. L + c - 1
    <3>1. Len(int_to_str') = L + c
      BY <1>12
    <3> QED
      BY <3>1, <1>1, <1>3
  <2>3. CASE id < L
    <3>1. id \in 0 .. L - 1
      BY <2>2, <2>3, <1>1, <1>3
    <3>2. NameOf(id) \in Names /\ str_to_int[NameOf(id)] = id
      BY <3>1, <1>1 DEF IdMapInv, NameOf, L
    <3>3. Known(NameOf(id))
      BY <3>1, <3>2, <1>1 DEF Known
    <3> QED
      BY <3>1, <3>2, <3>3, <1>10, <1>15
  <2>4. CASE ~(id < L)
    <3>1. id - L \in 0 .. c - 1
      BY <2>2, <2>4, <1>1, <1>3
    <3>2. PICK i \in fresh : Rank(fresh, i) = id - L
      BY <3>1, <1>3
    <3>3. L + Rank(fresh, i) = id /\ L + Rank(fresh, i) + 1 = id + 1
      BY <2>2, <3>2, <1>1
    <3>4. int_to_str'[id + 1] = names[i] /\ str_to_int'[names[i]] = id
      BY <3>3, <1>8, <1>9
    <3> QED
      BY <3>4, <2>1
  <2> QED
    BY <2>3, <2>4
<1>17. ASSUME NEW i \in 1 .. n
       PROVE  Known(names[i])'
  <2>1. CASE Known(names[i])
    BY <2>1, <1>10 DEF Known
  <2>2. CASE ~Known(names[i])
    <3> DEFINE P == {j \in 1 .. n : names[j] = names[i]}
    <3>1. P \in SUBSET (1 .. n) /\ P # {}
      OBVIOUS
    <3> HIDE DEF P
    <3>2. PICK k \in P : \A j \in P : ~(j < k)
      BY <3>1, FirstOccurrence
    <3>3. k \in 1 .. n /\ names[k] = names[i]
      BY DEF P
    <3>4. \A j \in 1 .. k - 1 : names[j] # names[k]
      <4> SUFFICES ASSUME NEW j \in 1 .. k - 1, names[j] = names[k]
                   PROVE  FALSE
        OBVIOUS
      <4>1. j \in 1 .. n /\ j < k
        BY <3>3
      <4> QED
        BY <4>1, <3>2, <3>3 DEF P
    <3>5. k \in fresh
      BY <3>3, <3>4, <2>2 DEF fresh, FirstSeen
    <3> QED
      BY <3>3, <3>5, <1>1, <1>3, <1>8, SMTT(30) DEF Known
  <2> QED
    BY <2>1, <2>2
<1>18. IdMapInv'
  BY <1>12, <1>13, <1>14, <1>16 DEF IdMapInv
<1>19. Extended(names)
  BY <1>1, <1>3, <1>10, <1>12, <1>15, <1>17 DEF Extended, L
<1> QED
  BY <1>18, <1>19

-----------------------------------------------------------------------------
(***************************************************************************)
(* The table of the registered path.                                       *)
(*                                                                         *)
(* The map is a bijection between the names seen and an initial segment of *)
(* the ids, so there are never more ids than names; and because it only    *)
(* grows, what the store holds under an id stays registered for the name   *)
(* the id was given to.                                                    *)
(***************************************************************************)

StoreFollowsIds ==
  \A id \in Ids : Contains(id) => id < Len(int_to_str) /\ Lookup(id) = NameOf(id)

TableInv == IdMapInv /\ TableTypeOK /\ StoreFollowsIds

IdsInRange ==
  /\ Len(int_to_str) \in Nat /\ Len(int_to_str) <= Cardinality(Names)
  /\ Cardinality(Names) \in Nat
  /\ str_to_int \in [Names -> Ids \cup {NoId}]

(* There is an id for every name and no more. *)
LEMMA IdsSuffice == IdMapInv => IdsInRange
<1> SUFFICES ASSUME IdMapInv PROVE IdsInRange
  OBVIOUS
<1> DEFINE L == Len(int_to_str)
<1>1. IsFiniteSet(Names) /\ Cardinality(Names) \in Nat /\ L \in Nat
  BY IdMapAssumption, FS_CardinalityType DEF IdMapInv
<1>2. int_to_str \in Injection(1 .. L, Names)
  <2>1. int_to_str \in [1 .. L -> Names]
    BY DEF IdMapInv
  <2>2. \A j \in 1 .. L : str_to_int[int_to_str[j]] = j - 1
    <3> TAKE j \in 1 .. L
    <3>1. j - 1 \in 0 .. L - 1 /\ (j - 1) + 1 = j
      BY <1>1
    <3>2. str_to_int[NameOf(j - 1)] = j - 1
      BY <3>1 DEF IdMapInv
    <3> QED
      BY <3>1, <3>2 DEF NameOf
  <2>3. \A j, k \in 1 .. L : int_to_str[j] = int_to_str[k] => j = k
    <3> SUFFICES ASSUME NEW j \in 1 .. L, NEW k \in 1 .. L, int_to_str[j] = int_to_str[k]
                 PROVE  j = k
      OBVIOUS
    <3>1. j - 1 = k - 1
      BY <2>2
    <3> QED
      BY <3>1
  <2> QED
    BY <2>1, <2>3 DEF Injection, IsInjective
<1>3. IsFiniteSet(1 .. L) /\ Cardinality(1 .. L) = L
  <2>1. L \in Nat /\ 1 \in Int
    BY <1>1
  <2> HIDE DEF L
  <2>2. Cardinality(1 .. L) = IF 1 > L THEN 0 ELSE L - 1 + 1
    BY <2>1, FS_Interval
  <2> QED
    BY <2>1, <2>2, FS_Interval
<1>4. L <= Cardinality(Names)
  BY <1>1, <1>2, <1>3, FS_Injection
<1>5. ASSUME NEW x \in Names
      PROVE  str_to_int[x] \in Ids \cup {NoId}
  <2>1. CASE Known(x)
    <3>1. str_to_int[x] \in Nat /\ str_to_int[x] < L
      BY <2>1 DEF IdMapInv, Known
    <3> QED
      BY <3>1, <1>1, <1>4 DEF Ids
  <2>2. CASE ~Known(x)
    BY <2>2 DEF Known
  <2> QED
    BY <2>1, <2>2
<1> QED
  BY <1>1, <1>4, <1>5 DEF IdMapInv, IdsInRange

-----------------------------------------------------------------------------
(***************************************************************************)
(* The rows of a batch.  The offsets of segments_to_warp_pipe cut the      *)
(* batch's rows into one interval for each of its segments.                *)
(***************************************************************************)

LEMMA BatchIs ==
  ASSUME NEW b \in ScheduledBatches
  PROVE  \E k \in 0 .. MaxSegments :
           /\ b \in [1 .. k -> [adapter_id : Names, segment_size : 1 .. MaxRun]]
           /\ k \in Nat /\ Len(b) = k /\ DOMAIN b = 1 .. k
<1>1. PICK k \in 0 .. MaxSegments :
        b \in [1 .. k -> [adapter_id : Names, segment_size : 1 .. MaxRun]]
  BY DEF ScheduledBatches
<1>2. k \in Nat
  BY SegmentsAssumption
<1>3. Len(b) = k /\ DOMAIN b = 1 .. k
  BY <1>1, <1>2
<1> QED
  BY <1>1, <1>2, <1>3

(* The rows before segment j, one by one. *)
RowsUpTo(b, j) == {r \in (1 .. j - 1) \X (1 .. MaxRun) : r[2] <= b[r[1]].segment_size}

LEMMA RowsUpToIs ==
  ASSUME NEW b, NEW j \in Nat
  PROVE  /\ IsFiniteSet(RowsUpTo(b, j)) /\ RowsBefore(b, j) = Cardinality(RowsUpTo(b, j))
         /\ RowsBefore(b, j) \in Nat
<1>1. IsFiniteSet((1 .. j - 1) \X (1 .. MaxRun))
  <2>1. IsFiniteSet(1 .. j - 1) /\ IsFiniteSet(1 .. MaxRun)
    BY FS_Interval, TableAssumption
  <2> QED
    BY <2>1, FS_Product
<1>2. RowsUpTo(b, j) \subseteq (1 .. j - 1) \X (1 .. MaxRun)
  BY DEF RowsUpTo
<1>3. IsFiniteSet(RowsUpTo(b, j))
  BY <1>1, <1>2, FS_Subset
<1>4. RowsBefore(b, j) = Cardinality(RowsUpTo(b, j))
  BY DEF RowsBefore, RowsUpTo
<1> QED
  BY <1>3, <1>4, FS_CardinalityType

(* The running sum adds each segment's size in turn. *)
LEMMA RowsBeforeNext ==
  ASSUME NEW b \in ScheduledBatches, NEW i \in DOMAIN b
  PROVE  /\ RowsBefore(b, 1) = 0 /\ RowsBefore(b, i) \in Nat
         /\ b[i].segment_size \in 1 .. MaxRun
         /\ RowsBefore(b, i + 1) = RowsBefore(b, i) + b[i].segment_size
<1>1. PICK k \in Nat : /\ b \in [1 .. k -> [adapter_id : Names, segment_size : 1 .. MaxRun]]
                       /\ DOMAIN b = 1 .. k
  BY BatchIs
<1>2. i \in 1 .. k /\ i \in Nat /\ i + 1 \in Nat
  BY <1>1
<1>3. PICK n \in 1 .. MaxRun : n = b[i].segment_size
  BY <1>1, <1>2
<1>4. n \in Nat /\ MaxRun \in Nat
  BY TableAssumption
<1> DEFINE row == [s \in 1 .. n |-> <<i, s>>]
           own == {<<i, s>> : s \in 1 .. n}
<1>5. IsFiniteSet(own) /\ Cardinality(own) = n
  <2>1. row \in Bijection(1 .. n, own)
    BY DEF Bijection, Injection, Surjection, IsInjective
  <2>2. ExistsBijection(1 .. n, own)
    <3> HIDE DEF row, own
    <3> QED
      BY <2>1 DEF ExistsBijection
  <2>3. IsFiniteSet(1 .. n) /\ Cardinality(1 .. n) = n
    BY <1>4, FS_Interval
  <2> HIDE DEF own
  <2> QED
    BY <2>2, <2>3, FS_Bijection
<1>6. RowsUpTo(b, i + 1) = RowsUpTo(b, i) \cup own
  <2>1. ASSUME NEW r \in RowsUpTo(b, i + 1) PROVE r \in RowsUpTo(b, i) \cup own
    <3>1. PICK x \in 1 .. (i + 1) - 1, s \in 1 .. MaxRun :
            r = <<x, s>> /\ s <= b[x].segment_size
      BY DEF RowsUpTo
    <3>2. CASE x = i
      <4>1. s \in 1 .. n
        BY <1>3, <1>4, <3>1, <3>2
      <4> QED
        BY <3>1, <3>2, <4>1
    <3>3. CASE x # i
      <4>1. x \in 1 .. i - 1
        BY <1>2, <3>3
      <4> QED
        BY <3>1, <4>1 DEF RowsUpTo
    <3> QED
      BY <3>2, <3>3
  <2>2. ASSUME NEW r \in RowsUpTo(b, i) PROVE r \in RowsUpTo(b, i + 1)
    <3>1. 1 .. i - 1 \subseteq 1 .. (i + 1) - 1
      BY <1>2
    <3> QED
      BY <3>1 DEF RowsUpTo
  <2>3. ASSUME NEW s \in 1 .. n PROVE <<i, s>> \in RowsUpTo(b, i + 1)
    <3>1. i \in 1 .. (i + 1) - 1 /\ s \in 1 .. MaxRun /\ s <= b[i].segment_size
      BY <1>2, <1>3, <1>4
    <3> QED
      BY <3>1 DEF RowsUpTo
  <2> QED
    BY <2>1, <2>2, <2>3
<1>7. RowsUpTo(b, i) \cap own = {}
  <2>1. i \notin 1 .. i - 1
    BY <1>2
  <2>2. \A r \in RowsUpTo(b, i) : r[1] \in 1 .. i - 1
    BY DEF RowsUpTo
  <2>3. \A r \in own : r[1] = i
    OBVIOUS
  <2> HIDE DEF own
  <2> QED
    BY <2>1, <2>2, <2>3
<1>8. RowsUpTo(b, 1) = {}
  BY DEF RowsUpTo
<1> HIDE DEF own
<1>9. PICK p \in Nat : p = RowsBefore(b, i) /\ p = Cardinality(RowsUpTo(b, i))
  BY <1>2, RowsUpToIs
<1>10. Cardinality(RowsUpTo(b, i + 1)) = p + n - 0
  <2>1. IsFiniteSet(RowsUpTo(b, i))
    BY <1>2, RowsUpToIs
  <2>2. Cardinality(RowsUpTo(b, i) \cup own)
          = Cardinality(RowsUpTo(b, i)) + Cardinality(own) - Cardinality(RowsUpTo(b, i) \cap own)
    BY <2>1, <1>5, FS_Union
  <2>3. Cardinality({}) = 0
    BY FS_EmptySet
  <2> QED
    BY <1>5, <1>6, <1>7, <1>9, <2>2, <2>3
<1>11. RowsBefore(b, i + 1) = p + n
  BY <1>2, <1>4, <1>9, <1>10, RowsUpToIs
<1>12. RowsBefore(b, 1) = 0
  BY <1>8, RowsUpToIs, FS_EmptySet
<1> QED
  BY <1>3, <1>9, <1>11, <1>12

LEMMA RowsBeforeMonotone ==
  ASSUME NEW b, NEW i \in Nat, NEW j \in Nat, i <= j
  PROVE  RowsBefore(b, i) <= RowsBefore(b, j)
<1>1. RowsUpTo(b, i) \subseteq RowsUpTo(b, j)
  <2>1. 1 .. i - 1 \subseteq 1 .. j - 1
    OBVIOUS
  <2> QED
    BY <2>1 DEF RowsUpTo
<1> QED
  BY <1>1, RowsUpToIs, FS_Subset

(* The rows of segment i. *)
RowsOf(b, i) == RowsBefore(b, i) .. RowsBefore(b, i) + b[i].segment_size - 1

(* Each row of the batch is of one segment, and the segments have no others. *)
LEMMA RowOfOneSegment ==
  ASSUME NEW b \in ScheduledBatches, NEW t \in 0 .. RowsBefore(b, Len(b) + 1) - 1
  PROVE  \E i \in DOMAIN b : t \in RowsOf(b, i) /\ \A j \in DOMAIN b : t \in RowsOf(b, j) => j = i
<1>1. PICK k \in Nat : Len(b) = k /\ DOMAIN b = 1 .. k
  BY BatchIs
<1>2. t \in Nat /\ t < RowsBefore(b, k + 1)
  BY <1>1, RowsUpToIs
<1> DEFINE T == {j \in 1 .. k + 1 : t < RowsBefore(b, j)}
<1>3. PICK j \in 1 .. k + 1 : t < RowsBefore(b, j) /\ \A x \in T : j <= x
  <2>1. T \in SUBSET Nat /\ T # {}
    BY <1>1, <1>2
  <2>2. PICK x \in T : \A y \in T : x <= y
    <3> HIDE DEF T
    <3> QED
      BY <2>1, LeastNumber
  <2> QED
    BY <2>2
<1>5. RowsBefore(b, 1) = 0
  <2>1. RowsUpTo(b, 1) = {}
    BY DEF RowsUpTo
  <2> QED
    BY <2>1, RowsUpToIs, FS_EmptySet
<1>6. j # 1
  BY <1>2, <1>3, <1>5
<1>7. PICK i \in 1 .. k : i = j - 1 /\ j = i + 1 /\ i \in 1 .. k + 1
  BY <1>1, <1>3, <1>6
<1>8. ~(t < RowsBefore(b, i))
  <2>1. ~(j <= i)
    BY <1>7
  <2> QED
    BY <1>3, <1>7, <2>1
<1>9. /\ RowsBefore(b, i) \in Nat /\ b[i].segment_size \in 1 .. MaxRun
      /\ RowsBefore(b, i + 1) = RowsBefore(b, i) + b[i].segment_size
  BY <1>1, RowsBeforeNext
<1>10. t \in RowsOf(b, i)
  BY <1>2, <1>3, <1>7, <1>8, <1>9 DEF RowsOf
<1>11. ASSUME NEW x \in 1 .. k, t \in RowsOf(b, x), x # i PROVE FALSE
  <2>1. /\ RowsBefore(b, x) \in Nat /\ b[x].segment_size \in 1 .. MaxRun
        /\ RowsBefore(b, x + 1) = RowsBefore(b, x) + b[x].segment_size
    BY <1>1, RowsBeforeNext
  <2>2. RowsBefore(b, x) <= t /\ t < RowsBefore(b, x + 1)
    BY <1>2, <1>11, <2>1 DEF RowsOf
  <2>3. CASE x < i
    <3>1. RowsBefore(b, x + 1) <= RowsBefore(b, i)
      BY <2>3, RowsBeforeMonotone
    <3>2. RowsBefore(b, x + 1) \in Nat
      BY RowsUpToIs
    <3> QED
      BY <1>2, <1>8, <1>9, <2>2, <3>1, <3>2
  <2>4. CASE i < x
    <3>1. RowsBefore(b, i + 1) <= RowsBefore(b, x)
      BY <2>4, RowsBeforeMonotone
    <3>2. RowsBefore(b, i + 1) \in Nat
      BY RowsUpToIs
    <3> QED
      BY <1>2, <1>3, <1>7, <2>1, <2>2, <3>1, <3>2
  <2> QED
    BY <1>11, <2>3, <2>4
<1> QED
  BY <1>1, <1>10, <1>11

-----------------------------------------------------------------------------
LEMMA TableStarts == ASSUME TableInit PROVE TableInv
<1>1. IdMapInv
  BY IdMapStarts DEF TableInit
<1>2. StoreFollowsIds
  BY DEF TableInit, StoreInit, StoreFollowsIds, Contains
<1>3. Len(int_to_str) \in Nat /\ Len(int_to_str) <= Cardinality(Names)
      /\ int_to_str \in Seq(Names) /\ str_to_int \in [Names -> Ids \cup {NoId}]
  BY <1>1, IdsSuffice DEF IdMapInv, IdsInRange
<1>4. << >> \in ScheduledBatches
  <2>1. 0 \in 0 .. MaxSegments
    BY SegmentsAssumption
  <2>2. << >> \in [1 .. 0 -> [adapter_id : Names, segment_size : 1 .. MaxRun]]
    OBVIOUS
  <2>3. OneRunEach(NamesOf(<< >>))
    BY DEF OneRunEach, NamesOf
  <2> QED
    BY <2>1, <2>2, <2>3 DEF ScheduledBatches
<1>5. NullRow \in [adapter_id : Ids \cup {NoLora}, token_start : Nat, token_count : Nat]
  BY DEF NullRow
<1>6. 0 \in 0 .. MaxSegments
  BY SegmentsAssumption
<1>7. TableTypeOK
  BY <1>3, <1>4, <1>5, <1>6 DEF TableInit, StoreInit, TableTypeOK
<1> QED
  BY <1>1, <1>2, <1>7 DEF TableInv

(* Names are asked for and nothing is registered: the store follows. *)
LEMMA AskingKeepsStore ==
  ASSUME TableInv, NEW n \in Nat, NEW names \in [1 .. n -> Names], GetOrAssignAll(names),
         UNCHANGED entries
  PROVE  IdMapInv' /\ StoreFollowsIds'
<1>1. IdMapInv' /\ Extended(names)
  BY GetOrAssignExtends DEF TableInv
<1>2. Len(int_to_str) \in Nat /\ Len(int_to_str') \in Nat
  BY <1>1 DEF TableInv, IdMapInv
<1>3. ASSUME NEW id \in Ids, Contains(id)'
      PROVE  id < Len(int_to_str') /\ Lookup(id)' = NameOf(id)'
  <2>1. id < Len(int_to_str) /\ Lookup(id) = NameOf(id)
    BY <1>3 DEF TableInv, StoreFollowsIds, Contains
  <2>2. id \in 0 .. Len(int_to_str) - 1
    BY <2>1, <1>2, IdMapAssumption, FS_CardinalityType DEF Ids
  <2>3. NameOf(id)' = NameOf(id)
    BY <2>2, <1>1 DEF Extended
  <2>4. id < Len(int_to_str')
    BY <2>1, <2>2, <1>1, <1>2 DEF Extended
  <2> QED
    BY <2>1, <2>3, <2>4 DEF Lookup
<1> QED
  BY <1>1, <1>3 DEF StoreFollowsIds

LEMMA RegisterKeeps ==
  ASSUME TableInv, NEW name \in Names, Register(name)
  PROVE  TableInv'
<1> DEFINE names == <<name>>
           a == str_to_int'[name]
<1>1. names \in [1 .. 1 -> Names] /\ 1 \in DOMAIN names /\ names[1] = name
  OBVIOUS
<1>2. GetOrAssignAll(names) /\ entries' = [entries EXCEPT ![a] = name]
      /\ UNCHANGED <<segments, num_segments, pointers, asked, table_fresh>>
  BY DEF Register, GetOrAssign, StoreRegister
<1> HIDE DEF names
<1>3. IdMapInv' /\ Extended(names)
  BY <1>1, <1>2, GetOrAssignExtends DEF TableInv
<1>4. Known(name)'
  BY <1>1, <1>3 DEF Extended
<1>5. a < Len(int_to_str') /\ int_to_str'[a + 1] = name
  <2>1. \A x \in Names : Known(x)' =>
          str_to_int'[x] < Len(int_to_str') /\ int_to_str'[str_to_int'[x] + 1] = x
    BY <1>3 DEF IdMapInv, NameOf
  <2> QED
    BY <2>1, <1>4
<1>6. /\ Len(int_to_str') \in Nat /\ Len(int_to_str') <= Cardinality(Names)
      /\ str_to_int' \in [Names -> Ids \cup {NoId}]
  <2>1. IdMapInv'
    BY <1>3
  <2>2. IdsInRange'
    BY <2>1, IdsSuffice, PTL
  <2> QED
    BY <2>2 DEF IdsInRange
<1>7. a \in Ids
  BY <1>4, <1>6 DEF Known
<1>8. entries \in [Ids -> Names \cup {NoName}] /\ NoName \notin Names
  BY IdMapAssumption DEF TableInv, TableTypeOK
<1>9. entries' \in [Ids -> Names \cup {NoName}]
  BY <1>2, <1>7, <1>8
<1>10. TableTypeOK'
  BY <1>2, <1>3, <1>6, <1>9 DEF TableInv, TableTypeOK, IdMapInv
<1>11. ASSUME NEW id \in Ids, Contains(id)'
       PROVE  id < Len(int_to_str') /\ Lookup(id)' = NameOf(id)'
  <2>1. CASE id = a
    BY <2>1, <1>2, <1>5, <1>7, <1>8 DEF Lookup, NameOf
  <2>2. CASE id # a
    <3>1. entries'[id] = entries[id]
      BY <2>2, <1>2, <1>8
    <3>2. id < Len(int_to_str) /\ Lookup(id) = NameOf(id)
      BY <3>1, <1>11 DEF TableInv, StoreFollowsIds, Contains
    <3>3. Len(int_to_str) \in Nat
      BY DEF TableInv, IdMapInv
    <3>4. id \in 0 .. Len(int_to_str) - 1
      BY <3>2, <3>3, IdMapAssumption, FS_CardinalityType DEF Ids
    <3>5. NameOf(id)' = NameOf(id) /\ Len(int_to_str) <= Len(int_to_str')
      BY <3>4, <1>3 DEF Extended
    <3>6. id < Len(int_to_str')
      BY <3>3, <3>4, <3>5, <1>6
    <3> QED
      BY <3>1, <3>2, <3>5, <3>6 DEF Lookup
  <2> QED
    BY <2>1, <2>2
<1> QED
  BY <1>3, <1>10, <1>11 DEF TableInv, StoreFollowsIds

LEMMA EvictKeeps ==
  ASSUME TableInv, NEW name \in Names, Evict(name)
  PROVE  TableInv'
<1>1. UNCHANGED <<str_to_int, int_to_str, segments, num_segments, pointers, asked>>
      /\ entries' = [entries EXCEPT ![str_to_int[name]] = NoName]
      /\ table_fresh' \in BOOLEAN
  BY DEF Evict, StoreEvict
<1>2. IdMapInv'
  BY <1>1 DEF TableInv, IdMapInv, Known, NameOf
<1>3. entries \in [Ids -> Names \cup {NoName}]
  BY DEF TableInv, TableTypeOK
<1>4. TableTypeOK'
  BY <1>1, <1>3 DEF TableInv, TableTypeOK
<1>5. ASSUME NEW id \in Ids, Contains(id)'
      PROVE  id < Len(int_to_str') /\ Lookup(id)' = NameOf(id)'
  <2>1. entries'[id] = entries[id]
    BY <1>1, <1>3, <1>5 DEF Contains
  <2> QED
    BY <2>1, <1>1, <1>5 DEF TableInv, StoreFollowsIds, Contains, Lookup, NameOf
<1> QED
  BY <1>2, <1>4, <1>5 DEF TableInv, StoreFollowsIds

LEMMA BuildKeeps ==
  ASSUME TableInv, NEW b \in ScheduledBatches, Build(b)
  PROVE  TableInv'
<1> DEFINE ids == [i \in DOMAIN b |-> str_to_int'[b[i].adapter_id]]
           unknown == {i \in DOMAIN b : ~Contains(ids[i])}
           written == {i \in DOMAIN b : \A j \in unknown : i < j}
<1>1. PICK k \in 0 .. MaxSegments :
        b \in [1 .. k -> [adapter_id : Names, segment_size : 1 .. MaxRun]]
  BY DEF ScheduledBatches
<1>2. k \in Nat /\ Len(b) \in 0 .. MaxSegments
  <2>1. k \in Nat
    BY SegmentsAssumption
  <2> QED
    BY <2>1, <1>1
<1>3. NamesOf(b) \in [1 .. k -> Names]
  BY <1>1 DEF NamesOf
<1>4. GetOrAssignAll(NamesOf(b)) /\ UNCHANGED entries
  BY DEF Build
<1>5. IdMapInv' /\ StoreFollowsIds' /\ Extended(NamesOf(b))
  BY <1>2, <1>3, <1>4, AskingKeepsStore, GetOrAssignExtends DEF TableInv
<1>6. /\ Len(int_to_str') \in Nat /\ Len(int_to_str') <= Cardinality(Names)
      /\ str_to_int' \in [Names -> Ids \cup {NoId}]
  <2>1. IdMapInv'
    BY <1>5
  <2>2. IdsInRange'
    BY <2>1, IdsSuffice, PTL
  <2> QED
    BY <2>2 DEF IdsInRange
<1>7. ASSUME NEW i \in DOMAIN b
      PROVE  ids[i] \in Ids
  <2>1. i \in 1 .. k /\ DOMAIN NamesOf(b) = 1 .. k
    BY <1>1, <1>3
  <2>2. NamesOf(b)[i] = b[i].adapter_id
    BY DEF NamesOf
  <2>3. Known(b[i].adapter_id)'
    BY <2>1, <2>2, <1>5 DEF Extended
  <2>4. b[i].adapter_id \in Names
    BY <2>1, <1>1
  <2> QED
    BY <2>3, <2>4, <1>6 DEF Known
<1>8. /\ segments' = [r \in TableRows |->
           IF r + 1 \in written THEN Row(b, r + 1, ids[r + 1]) ELSE segments[r]]
      /\ pointers' = [r \in TableRows |->
           IF r + 1 \in written THEN Lookup(ids[r + 1]) ELSE pointers[r]]
      /\ num_segments' = IF unknown = {} THEN Len(b) ELSE num_segments
      /\ asked' = IF unknown = {} THEN b ELSE asked
      /\ table_fresh' = (unknown = {} \/ (table_fresh /\ written = {}))
  BY DEF Build
<1> HIDE DEF ids, unknown
<1>9. ASSUME NEW i \in DOMAIN b
      PROVE  Row(b, i, ids[i]) \in [adapter_id : Ids \cup {NoLora},
                                    token_start : Nat, token_count : Nat]
  <2>1. PICK p \in Nat, n \in Nat : /\ RowsBefore(b, i) = p /\ b[i].segment_size = n
                                   /\ RowsBefore(b, i + 1) = p + n
    BY RowsBeforeNext
  <2>2. RowsBefore(b, i + 1) - RowsBefore(b, i) \in Nat /\ RowsBefore(b, i) \in Nat
    BY <2>1
  <2> QED
    BY <1>7, <2>2 DEF Row
<1>10. ASSUME NEW i \in DOMAIN b
       PROVE  Lookup(ids[i]) \in Names \cup {NoName}
  BY <1>7, <1>10 DEF TableInv, TableTypeOK, Lookup
<1>11. written \subseteq DOMAIN b
  OBVIOUS
<1> HIDE DEF written
<1>12. segments' \in [TableRows -> [adapter_id : Ids \cup {NoLora},
                                   token_start : Nat, token_count : Nat]]
  BY <1>8, <1>9, <1>11 DEF TableInv, TableTypeOK
<1>13. pointers' \in [TableRows -> Names \cup {NoName}]
  BY <1>8, <1>10, <1>11 DEF TableInv, TableTypeOK
<1>14. num_segments' \in 0 .. MaxSegments /\ asked' \in ScheduledBatches
       /\ table_fresh' \in BOOLEAN
  BY <1>2, <1>8 DEF TableInv, TableTypeOK
<1>15. TableTypeOK'
  BY <1>4, <1>5, <1>6, <1>12, <1>13, <1>14 DEF TableInv, TableTypeOK, IdMapInv
<1> QED
  BY <1>5, <1>15 DEF TableInv

(* Names are asked for, for whatever reason, and the rest is left alone. *)
LEMMA AskingKeepsTable ==
  ASSUME TableInv, NEW n \in Nat, NEW names \in [1 .. n -> Names], GetOrAssignAll(names),
         UNCHANGED hostVars
  PROVE  TableInv'
<1>1. UNCHANGED <<entries, segments, num_segments, pointers, asked, table_fresh>>
  BY DEF hostVars
<1>2. IdMapInv' /\ StoreFollowsIds'
  BY <1>1, AskingKeepsStore
<1>3. /\ Len(int_to_str') <= Cardinality(Names)
      /\ str_to_int' \in [Names -> Ids \cup {NoId}]
  <2>1. IdMapInv'
    BY <1>2
  <2>2. IdsInRange'
    BY <2>1, IdsSuffice, PTL
  <2> QED
    BY <2>2 DEF IdsInRange
<1>4. TableTypeOK'
  BY <1>1, <1>2, <1>3 DEF TableInv, TableTypeOK, IdMapInv
<1> QED
  BY <1>2, <1>4 DEF TableInv

LEMMA TableInvInductive == ASSUME TableInv, [TableNext]_tableVars PROVE TableInv'
<1>1. CASE \E name \in Names : Register(name) \/ Evict(name)
  BY <1>1, RegisterKeeps, EvictKeeps
<1>2. CASE \E b \in ScheduledBatches : Build(b)
  BY <1>2, BuildKeeps
<1>3. CASE \E names \in [1 .. MaxSegments + 1 -> Names] : BuildTooLong(names)
  <2>1. MaxSegments + 1 \in Nat
    BY SegmentsAssumption
  <2> QED
    BY <1>3, <2>1, AskingKeepsTable DEF BuildTooLong, hostVars
<1>4. CASE UNCHANGED tableVars
  BY <1>4 DEF tableVars, TableInv, TableTypeOK, StoreFollowsIds, IdMapInv, Known, NameOf,
              Contains, Lookup
<1> QED
  BY <1>1, <1>2, <1>3, <1>4 DEF TableNext

-----------------------------------------------------------------------------
(***************************************************************************)
(* What a fresh table holds: the last batch that was built, segment by     *)
(* segment, under ids its adapters still have and at weights registered    *)
(* for them.                                                               *)
(***************************************************************************)

RowsRight ==
  table_fresh =>
    /\ num_segments = Len(asked)
    /\ \A i \in DOMAIN asked :
         /\ Known(asked[i].adapter_id)
         /\ segments[i - 1] = Row(asked, i, str_to_int[asked[i].adapter_id])
         /\ pointers[i - 1] = asked[i].adapter_id

(* New ids do not disturb a table that is left alone. *)
LEMMA AskingKeepsRows ==
  ASSUME TableInv, RowsRight, NEW n \in Nat, NEW names \in [1 .. n -> Names],
         GetOrAssignAll(names), UNCHANGED <<segments, num_segments, pointers, asked>>,
         table_fresh' => table_fresh
  PROVE  RowsRight'
<1>1. Extended(names)
  BY GetOrAssignExtends DEF TableInv
<1>2. ASSUME NEW i \in DOMAIN asked, Known(asked[i].adapter_id)
      PROVE  /\ str_to_int'[asked[i].adapter_id] = str_to_int[asked[i].adapter_id]
             /\ Known(asked[i].adapter_id)'
  <2>1. asked[i].adapter_id \in Names
    BY BatchIs DEF TableInv, TableTypeOK
  <2>2. str_to_int'[asked[i].adapter_id] = str_to_int[asked[i].adapter_id]
    BY <1>1, <1>2, <2>1 DEF Extended
  <2> QED
    BY <1>2, <2>2 DEF Known
<1> QED
  BY <1>2 DEF RowsRight

LEMMA BuildRows ==
  ASSUME TableInv, RowsRight, NEW b \in ScheduledBatches, Build(b)
  PROVE  RowsRight'
<1> DEFINE ids == [i \in DOMAIN b |-> str_to_int'[b[i].adapter_id]]
           unknown == {i \in DOMAIN b : ~Contains(ids[i])}
           written == {i \in DOMAIN b : \A j \in unknown : i < j}
<1>1. PICK k \in 0 .. MaxSegments :
        /\ b \in [1 .. k -> [adapter_id : Names, segment_size : 1 .. MaxRun]]
        /\ k \in Nat /\ Len(b) = k /\ DOMAIN b = 1 .. k
  BY BatchIs
<1>2. NamesOf(b) \in [1 .. k -> Names]
  BY <1>1 DEF NamesOf
<1>3. GetOrAssignAll(NamesOf(b)) /\ UNCHANGED entries
  BY DEF Build
<1>4. IdMapInv' /\ StoreFollowsIds' /\ Extended(NamesOf(b)) /\ TableTypeOK'
  <2>1. TableInv'
    BY BuildKeeps
  <2> QED
    BY <1>1, <1>2, <1>3, <2>1, GetOrAssignExtends DEF TableInv
<1>5. ASSUME NEW i \in DOMAIN b
      PROVE  /\ b[i].adapter_id \in Names /\ Known(b[i].adapter_id)'
             /\ ids[i] = str_to_int'[b[i].adapter_id] /\ ids[i] \in Ids
             /\ int_to_str'[ids[i] + 1] = b[i].adapter_id
  <2>1. i \in 1 .. k /\ DOMAIN NamesOf(b) = 1 .. k
    BY <1>1, <1>2
  <2>2. NamesOf(b)[i] = b[i].adapter_id
    BY DEF NamesOf
  <2>3. Known(b[i].adapter_id)'
    BY <2>1, <2>2, <1>4 DEF Extended
  <2>4. b[i].adapter_id \in Names
    BY <2>1, <1>1
  <2>5. int_to_str'[str_to_int'[b[i].adapter_id] + 1] = b[i].adapter_id
    BY <1>4, <2>3, <2>4 DEF IdMapInv, NameOf
  <2>6. ids[i] \in Ids
    BY <1>4, <2>3, <2>4 DEF TableTypeOK, Known
  <2> QED
    BY <2>3, <2>4, <2>5, <2>6
<1>6. /\ segments' = [r \in TableRows |->
           IF r + 1 \in written THEN Row(b, r + 1, ids[r + 1]) ELSE segments[r]]
      /\ pointers' = [r \in TableRows |->
           IF r + 1 \in written THEN Lookup(ids[r + 1]) ELSE pointers[r]]
      /\ num_segments' = IF unknown = {} THEN Len(b) ELSE num_segments
      /\ asked' = IF unknown = {} THEN b ELSE asked
      /\ table_fresh' = (unknown = {} \/ (table_fresh /\ written = {}))
  BY DEF Build
<1>7. /\ unknown = {} => written = DOMAIN b
      /\ \A i \in DOMAIN b : i \notin unknown => Contains(ids[i])
  OBVIOUS
<1> HIDE DEF ids, unknown, written
<1>8. CASE unknown = {}
  <2>1. ASSUME NEW i \in DOMAIN b
        PROVE  /\ segments'[i - 1] = Row(b, i, ids[i])
               /\ pointers'[i - 1] = b[i].adapter_id
    <3>1. i - 1 \in TableRows /\ (i - 1) + 1 = i /\ i \in written
      BY <1>1, <1>7, <1>8, SegmentsAssumption DEF TableRows
    <3>2. segments'[i - 1] = Row(b, i, ids[i]) /\ pointers'[i - 1] = Lookup(ids[i])
      BY <1>6, <3>1
    <3>3. Contains(ids[i])
      BY <1>7, <1>8
    <3>4. \A id \in Ids : entries[id] # NoName => entries'[id] = int_to_str'[id + 1]
      BY <1>3, <1>4 DEF StoreFollowsIds, Contains, Lookup, NameOf
    <3>5. entries[ids[i]] = int_to_str'[ids[i] + 1]
      BY <1>3, <1>5, <3>3, <3>4 DEF Contains
    <3> QED
      BY <1>5, <3>2, <3>5 DEF Lookup
  <2>2. asked' = b /\ num_segments' = Len(asked')
    BY <1>6, <1>8
  <2> QED
    BY <1>5, <2>1, <2>2 DEF RowsRight
<1>9. CASE unknown # {}
  <2> SUFFICES ASSUME table_fresh' PROVE RowsRight'
    BY DEF RowsRight
  <2>1. table_fresh /\ written = {}
    BY <1>6, <1>9
  <2>2. segments' = segments /\ pointers' = pointers
    BY <1>6, <2>1 DEF TableInv, TableTypeOK
  <2>3. num_segments' = num_segments /\ asked' = asked
    BY <1>6, <1>9
  <2> QED
    BY <1>1, <1>2, <1>3, <2>1, <2>2, <2>3, AskingKeepsRows
<1> QED
  BY <1>8, <1>9

LEMMA RowsRightInductive ==
  ASSUME TableInv, RowsRight, [TableNext]_tableVars
  PROVE  RowsRight'
<1>1. ASSUME NEW name \in Names, Register(name) PROVE RowsRight'
  <2>1. <<name>> \in [1 .. 1 -> Names]
    OBVIOUS
  <2>2. /\ GetOrAssignAll(<<name>>) /\ table_fresh' = table_fresh
        /\ UNCHANGED <<segments, num_segments, pointers, asked>>
    BY <1>1 DEF Register, GetOrAssign
  <2> QED
    BY <2>1, <2>2, AskingKeepsRows
<1>2. ASSUME NEW name \in Names, Evict(name) PROVE RowsRight'
  BY <1>2 DEF Evict, RowsRight, Known
<1>3. ASSUME NEW b \in ScheduledBatches, Build(b) PROVE RowsRight'
  BY <1>3, BuildRows
<1>4. ASSUME NEW names \in [1 .. MaxSegments + 1 -> Names], BuildTooLong(names)
      PROVE  RowsRight'
  <2>1. MaxSegments + 1 \in Nat
    BY SegmentsAssumption
  <2> QED
    BY <1>4, <2>1, AskingKeepsRows DEF BuildTooLong
<1>5. CASE UNCHANGED tableVars
  BY <1>5 DEF tableVars, RowsRight, Known
<1> QED
  BY <1>1, <1>2, <1>3, <1>4, <1>5 DEF TableNext

-----------------------------------------------------------------------------
(* The rows of a batch in order, as AskedRows lines them up. *)

RunOf(b, i) == [r \in 1 .. b[i].segment_size |-> b[i].adapter_id]

RowsLinedUp(b, f, m) ==
  /\ f \in [0 .. m -> Seq(Names)]
  /\ \A i \in 0 .. m : f[i] = IF i = 0 THEN << >> ELSE f[i - 1] \o RunOf(b, i)

LEMMA RunOfIs ==
  ASSUME NEW b \in ScheduledBatches, NEW i \in DOMAIN b
  PROVE  /\ RunOf(b, i) \in Seq(Names) /\ Len(RunOf(b, i)) = b[i].segment_size
         /\ b[i].segment_size \in Nat /\ b[i].adapter_id \in Names
         /\ \A r \in 1 .. b[i].segment_size : RunOf(b, i)[r] = b[i].adapter_id
<1>1. b[i].segment_size \in Nat /\ b[i].adapter_id \in Names
  BY BatchIs, TableAssumption
<1>2. PICK n \in Nat, x \in Names : n = b[i].segment_size /\ x = b[i].adapter_id
  BY <1>1
<1>3. [r \in 1 .. n |-> x] \in Seq(Names) /\ Len([r \in 1 .. n |-> x]) = n
  OBVIOUS
<1> QED
  BY <1>1, <1>2, <1>3 DEF RunOf

(* The recursion is over the segments, so there is such a function. *)
LEMMA LineUpExists ==
  ASSUME NEW b \in ScheduledBatches
  PROVE  \E f : RowsLinedUp(b, f, Len(b))
<1>1. PICK k \in Nat : Len(b) = k /\ DOMAIN b = 1 .. k
  BY BatchIs
<1> DEFINE S == {m \in Nat : m <= k => \E f : RowsLinedUp(b, f, m)}
<1>2. 0 \in S
  <2> DEFINE f == [i \in 0 .. 0 |-> << >>]
  <2>1. f \in [0 .. 0 -> Seq(Names)] /\ \A i \in 0 .. 0 : i = 0 /\ f[i] = << >>
    OBVIOUS
  <2> HIDE DEF f
  <2>2. RowsLinedUp(b, f, 0)
    BY <2>1 DEF RowsLinedUp
  <2> QED
    BY <2>2
<1>3. ASSUME NEW m \in S PROVE m + 1 \in S
  <2> SUFFICES ASSUME m + 1 <= k PROVE \E f : RowsLinedUp(b, f, m + 1)
    OBVIOUS
  <2>1. m \in Nat /\ m <= k /\ m + 1 \in 1 .. k /\ m \in 0 .. m
    BY <1>1
  <2>2. PICK f : RowsLinedUp(b, f, m)
    BY <2>1
  <2>3. /\ f \in [0 .. m -> Seq(Names)]
        /\ \A i \in 0 .. m : f[i] = IF i = 0 THEN << >> ELSE f[i - 1] \o RunOf(b, i)
    BY <2>2 DEF RowsLinedUp
  <2> DEFINE next == f[m] \o RunOf(b, m + 1)
             h == [i \in 0 .. m + 1 |-> IF i = m + 1 THEN next ELSE f[i]]
  <2>4. next \in Seq(Names)
    <3>1. RunOf(b, m + 1) \in Seq(Names) /\ f[m] \in Seq(Names)
      BY <1>1, <2>1, <2>3, RunOfIs
    <3> QED
      BY <3>1, ConcatProperties
  <2>5. /\ h \in [0 .. m + 1 -> Seq(Names)] /\ h[m + 1] = next
        /\ \A i \in 0 .. m : h[i] = f[i]
    <3> HIDE DEF next
    <3> QED
      BY <2>1, <2>3, <2>4
  <2> HIDE DEF h
  <2>6. ASSUME NEW i \in 0 .. m + 1
        PROVE  h[i] = IF i = 0 THEN << >> ELSE h[i - 1] \o RunOf(b, i)
    <3>1. CASE i = m + 1
      <4>1. i # 0 /\ i - 1 = m
        BY <2>1, <3>1
      <4> QED
        BY <2>1, <2>5, <3>1, <4>1
    <3>2. CASE i # m + 1
      <4>1. i \in 0 .. m /\ (i # 0 => i - 1 \in 0 .. m)
        BY <2>1, <3>2
      <4> QED
        BY <2>3, <2>5, <4>1
    <3> QED
      BY <3>1, <3>2
  <2> QED
    BY <2>5, <2>6 DEF RowsLinedUp
<1>4. \A m \in Nat : m \in S
  <2>1. S \in SUBSET Nat
    OBVIOUS
  <2> HIDE DEF S
  <2> QED
    BY <1>2, <1>3, <2>1, Induction
<1> QED
  BY <1>1, <1>4

LEMMA AskedRowsLineUp ==
  ASSUME asked \in ScheduledBatches
  PROVE  \E f : RowsLinedUp(asked, f, Len(asked)) /\ AskedRows = f[Len(asked)]
<1> DEFINE rows[i \in 0 .. Len(asked)] ==
             IF i = 0 THEN << >>
             ELSE rows[i - 1] \o [r \in 1 .. asked[i].segment_size |-> asked[i].adapter_id]
           Line(g) == [i \in 0 .. Len(asked) |->
             IF i = 0 THEN << >>
             ELSE g[i - 1] \o [r \in 1 .. asked[i].segment_size |-> asked[i].adapter_id]]
<1>1. PICK k \in Nat : Len(asked) = k /\ DOMAIN asked = 1 .. k
  BY BatchIs
<1>2. \E f : f = Line(f)
  <2>1. PICK f : RowsLinedUp(asked, f, Len(asked))
    BY LineUpExists
  <2>2. f = Line(f)
    BY <2>1 DEF RowsLinedUp, RunOf
  <2> HIDE DEF Line
  <2> QED
    BY <2>2
<1>3. rows = Line(rows)
  BY <1>2, Zenon
<1>4. AskedRows = rows[Len(asked)]
  BY DEF AskedRows
<1>5. DOMAIN rows = 0 .. k
  BY <1>1, <1>3
<1>6. \A i \in 0 .. k : rows[i] = IF i = 0 THEN << >> ELSE rows[i - 1] \o RunOf(asked, i)
  <2> SUFFICES ASSUME NEW i \in 0 .. Len(asked)
               PROVE  rows[i] = IF i = 0 THEN << >> ELSE rows[i - 1] \o RunOf(asked, i)
    BY <1>1
  <2>1. Line(rows)[i] = IF i = 0 THEN << >> ELSE rows[i - 1] \o RunOf(asked, i)
    BY DEF RunOf
  <2> HIDE DEF Line, rows
  <2> QED
    BY <1>3, <2>1
<1>7. rows = [i \in 0 .. k |-> rows[i]]
  BY <1>3, <1>5 DEF rows
<1> HIDE DEF rows
<1> DEFINE S == {m \in Nat : m <= k => rows[m] \in Seq(Names)}
<1>8. 0 \in S
  <2>1. rows[0] = << >>
    BY <1>6
  <2>2. << >> \in Seq(Names)
    OBVIOUS
  <2> QED
    BY <2>1, <2>2
<1>9. ASSUME NEW m \in S PROVE m + 1 \in S
  <2> SUFFICES ASSUME m + 1 <= k PROVE rows[m + 1] \in Seq(Names)
    OBVIOUS
  <2>1. m \in Nat /\ m <= k /\ m + 1 \in 1 .. k /\ m + 1 \in 0 .. k /\ m + 1 # 0 /\ (m + 1) - 1 = m
    BY <1>1
  <2>2. rows[m + 1] = rows[m] \o RunOf(asked, m + 1)
    BY <1>6, <2>1
  <2>3. rows[m] \in Seq(Names) /\ RunOf(asked, m + 1) \in Seq(Names)
    BY <1>1, <2>1, RunOfIs
  <2> QED
    BY <2>2, <2>3, ConcatProperties
<1>10. \A m \in Nat : m \in S
  <2>1. S \in SUBSET Nat
    OBVIOUS
  <2> HIDE DEF S
  <2> QED
    BY <1>8, <1>9, <2>1, Induction
<1>11. \A m \in 0 .. k : rows[m] \in Seq(Names)
  BY <1>10
<1>12. rows \in [0 .. k -> Seq(Names)]
  <2> HIDE DEF S
  <2> QED
    BY <1>7, <1>11
<1> QED
  BY <1>1, <1>4, <1>6, <1>12 DEF RowsLinedUp

(* x is c followed by w. *)
IsJoin(x, c, w) ==
  /\ x \in Seq(Names) /\ Len(x) = Len(c) + Len(w)
  /\ \A i \in 1 .. Len(c) : x[i] = c[i]
  /\ \A j \in 1 .. Len(w) : x[Len(c) + j] = w[j]

LEMMA Joined ==
  ASSUME NEW c \in Seq(Names), NEW w \in Seq(Names), NEW x, x = c \o w
  PROVE  IsJoin(x, c, w)
<1>1. PICK n \in Nat, b \in Nat : n = Len(c) /\ b = Len(w)
  OBVIOUS
<1>2. /\ x \in Seq(Names) /\ Len(x) = n + b
      /\ \A i \in 1 .. n + b : x[i] = IF i <= n THEN c[i] ELSE w[i - n]
  BY <1>1, ConcatProperties
<1>3. ASSUME NEW j \in 1 .. b PROVE x[n + j] = w[j]
  <2>1. n + j \in 1 .. n + b /\ ~(n + j <= n) /\ (n + j) - n = j
    OBVIOUS
  <2> QED
    BY <1>2, <2>1
<1>4. \A i \in 1 .. n : i \in 1 .. n + b /\ i <= n
  OBVIOUS
<1> QED
  BY <1>1, <1>2, <1>3, <1>4 DEF IsJoin

(* s holds the rows of the first m segments, each its own adapter. *)
HoldsRows(b, s, m) ==
  /\ s \in Seq(Names) /\ Len(s) = RowsBefore(b, m + 1)
  /\ \A j \in 1 .. m : \A t \in RowsOf(b, j) : s[t + 1] = b[j].adapter_id

LEMMA RunLinesUp ==
  ASSUME NEW b \in ScheduledBatches, NEW m \in Nat, m + 1 \in DOMAIN b,
         NEW s, HoldsRows(b, s, m), NEW x, x = s \o RunOf(b, m + 1)
  PROVE  HoldsRows(b, x, m + 1)
<1>1. /\ RunOf(b, m + 1) \in Seq(Names) /\ Len(RunOf(b, m + 1)) = b[m + 1].segment_size
      /\ \A r \in 1 .. b[m + 1].segment_size : RunOf(b, m + 1)[r] = b[m + 1].adapter_id
  BY RunOfIs
<1>2. PICK p \in Nat, n \in Nat : /\ p = RowsBefore(b, m + 1) /\ n = b[m + 1].segment_size
                                  /\ RowsBefore(b, (m + 1) + 1) = p + n
  <2>1. RowsBefore(b, m + 1) \in Nat /\ b[m + 1].segment_size \in Nat
    BY RowsBeforeNext, RunOfIs
  <2> QED
    BY <2>1, RowsBeforeNext
<1>3. s \in Seq(Names) /\ Len(s) = p
  BY <1>2 DEF HoldsRows
<1>4. /\ x \in Seq(Names) /\ Len(x) = p + n
      /\ \A i \in 1 .. p : x[i] = s[i]
      /\ \A j \in 1 .. n : x[p + j] = b[m + 1].adapter_id
  <2>1. PICK w \in Seq(Names) : w = RunOf(b, m + 1)
    BY <1>1
  <2>2. /\ x \in Seq(Names) /\ Len(x) = Len(s) + Len(w)
        /\ \A i \in 1 .. Len(s) : x[i] = s[i]
        /\ \A j \in 1 .. Len(w) : x[Len(s) + j] = w[j]
    <3>1. x = s \o w
      BY <2>1
    <3>2. IsJoin(x, s, w)
      BY <1>3, <3>1, Joined
    <3> QED
      BY <3>2 DEF IsJoin
  <2>3. Len(w) = n /\ \A j \in 1 .. n : w[j] = b[m + 1].adapter_id
    BY <1>1, <1>2, <2>1
  <2> QED
    BY <1>3, <2>2, <2>3
<1>5. ASSUME NEW j \in 1 .. m + 1, NEW t \in RowsOf(b, j)
      PROVE  x[t + 1] = b[j].adapter_id
  <2>1. CASE j = m + 1
    <3>1. t \in p .. p + n - 1
      BY <1>2, <2>1 DEF RowsOf
    <3>2. (t + 1) - p \in 1 .. n /\ p + ((t + 1) - p) = t + 1
      BY <3>1
    <3> QED
      BY <1>4, <2>1, <3>2
  <2>2. CASE j # m + 1
    <3>1. j \in 1 .. m /\ j \in Nat /\ j + 1 <= m + 1
      BY <2>2
    <3>2. j \in DOMAIN b
      BY <3>1, BatchIs
    <3>3. PICK q \in Nat, k \in Nat : /\ q = RowsBefore(b, j) /\ k = b[j].segment_size
                                      /\ RowsBefore(b, j + 1) = q + k
      <4>1. RowsBefore(b, j) \in Nat /\ b[j].segment_size \in Nat
        BY <3>2, RowsBeforeNext, RunOfIs
      <4> QED
        BY <3>2, <4>1, RowsBeforeNext
    <3>4. q + k <= p
      BY <1>2, <3>1, <3>3, RowsBeforeMonotone
    <3>5. t \in q .. q + k - 1
      BY <3>3 DEF RowsOf
    <3>6. t + 1 \in 1 .. p
      BY <3>4, <3>5
    <3>7. s[t + 1] = b[j].adapter_id
      BY <3>1 DEF HoldsRows
    <3> QED
      BY <1>4, <3>6, <3>7
  <2> QED
    BY <2>1, <2>2
<1> QED
  BY <1>2, <1>4, <1>5 DEF HoldsRows

LEMMA AskedRowsAre ==
  ASSUME asked \in ScheduledBatches
  PROVE  HoldsRows(asked, AskedRows, Len(asked))
<1>1. PICK k \in Nat : Len(asked) = k /\ DOMAIN asked = 1 .. k
  BY BatchIs
<1>2. PICK f : RowsLinedUp(asked, f, k) /\ AskedRows = f[k]
  BY <1>1, AskedRowsLineUp
<1>3. \A i \in 0 .. k : f[i] = IF i = 0 THEN << >> ELSE f[i - 1] \o RunOf(asked, i)
  BY <1>2 DEF RowsLinedUp
<1> DEFINE S == {m \in Nat : m <= k => HoldsRows(asked, f[m], m)}
<1>4. 0 \in S
  <2>1. f[0] = << >>
    BY <1>3
  <2>2. << >> \in Seq(Names) /\ Len(<< >>) = 0
    OBVIOUS
  <2>3. RowsBefore(asked, 0 + 1) = 0
    <3>1. RowsUpTo(asked, 1) = {}
      BY DEF RowsUpTo
    <3> QED
      BY <3>1, RowsUpToIs, FS_EmptySet
  <2>4. HoldsRows(asked, << >>, 0)
    BY <2>2, <2>3 DEF HoldsRows
  <2> QED
    BY <2>1, <2>4
<1>5. ASSUME NEW m \in S PROVE m + 1 \in S
  <2> SUFFICES ASSUME m + 1 <= k PROVE HoldsRows(asked, f[m + 1], m + 1)
    OBVIOUS
  <2>1. m \in Nat /\ m <= k /\ m + 1 \in 1 .. k /\ m + 1 \in 0 .. k /\ m + 1 # 0 /\ (m + 1) - 1 = m
    BY <1>1
  <2>2. f[m + 1] = f[m] \o RunOf(asked, m + 1)
    BY <1>3, <2>1
  <2>3. HoldsRows(asked, f[m], m)
    BY <2>1
  <2> QED
    BY <1>1, <2>1, <2>2, <2>3, RunLinesUp
<1>6. \A m \in Nat : m \in S
  <2>1. S \in SUBSET Nat
    OBVIOUS
  <2> HIDE DEF S
  <2> QED
    BY <1>4, <1>5, <2>1, Induction
<1> QED
  BY <1>1, <1>2, <1>6

(* A segment that is not longer than the launch grid reaches is visited whole. *)
LEMMA RowVisited ==
  ASSUME NEW b \in ScheduledBatches, NEW i \in DOMAIN b, NEW id, MaxRun <= MaxSegmentTokens
  PROVE  Visited(Row(b, i, id)) = RowsOf(b, i)
<1>1. PICK p \in Nat, n \in 1 .. MaxRun : /\ p = RowsBefore(b, i) /\ n = b[i].segment_size
                                          /\ RowsBefore(b, i + 1) = p + n
  BY RowsBeforeNext
<1>2. n \in Nat /\ n <= MaxSegmentTokens /\ MaxSegmentTokens \in Nat /\ (p + n) - p = n
  BY <1>1, TableAssumption, SegmentsAssumption
<1>3. Row(b, i, id) = [adapter_id |-> id, token_start |-> p, token_count |-> n]
  BY <1>1, <1>2 DEF Row
<1>4. ASSUME NEW t \in p .. p + n - 1 PROVE (t - p) \div TokenChunk < MaxChunks
  <2>1. t - p \in 0 .. MaxSegmentTokens - 1
    BY <1>2
  <2> QED
    BY <2>1, ChunksCover
<1>5. Visited(Row(b, i, id)) = {t \in p .. p + n - 1 : (t - p) \div TokenChunk < MaxChunks}
  BY <1>3 DEF Visited
<1> QED
  BY <1>1, <1>4, <1>5 DEF RowsOf

(* The fresh table serves the rows of its batch. *)
LEMMA RowsServe ==
  ASSUME TableInv, RowsRight, MaxRun <= MaxSegmentTokens
  PROVE  RegisteredRowsGetTheirAdapter
<1> SUFFICES ASSUME table_fresh PROVE RegisteredRowsGetTheirAdapter
  BY DEF RegisteredRowsGetTheirAdapter
<1>1. asked \in ScheduledBatches
  BY DEF TableInv, TableTypeOK
<1>2. PICK k \in Nat : Len(asked) = k /\ DOMAIN asked = 1 .. k
  BY <1>1, BatchIs
<1>3. PICK x : x = AskedRows /\ HoldsRows(asked, x, k)
  BY <1>1, <1>2, AskedRowsAre
<1>4. PICK n \in Nat : n = Len(x) /\ n = RowsBefore(asked, k + 1)
  BY <1>2, <1>3, RowsUpToIs DEF HoldsRows
<1> DEFINE idx == [t \in 0 .. n - 1 |-> str_to_int[x[t + 1]]]
           name(i) == asked[i].adapter_id
<1>5. DOMAIN Table = 1 .. k
  BY <1>2 DEF RowsRight, Table
<1>6. ASSUME NEW i \in 1 .. k
      PROVE  /\ Table[i] = Row(asked, i, str_to_int[name(i)])
             /\ Visited(Table[i]) = RowsOf(asked, i)
             /\ Table[i].adapter_id = str_to_int[name(i)]
             /\ str_to_int[name(i)] \in Nat
             /\ pointers[i - 1] = name(i)
  <2>1. Table[i] = segments[i - 1]
    BY <1>2 DEF RowsRight, Table
  <2>2. Table[i] = Row(asked, i, str_to_int[name(i)]) /\ pointers[i - 1] = name(i)
    BY <1>2, <2>1 DEF RowsRight
  <2>3. Table[i].adapter_id = str_to_int[name(i)]
    BY <2>2 DEF Row
  <2>4. name(i) \in Names /\ Known(name(i))
    BY <1>1, <1>2, RunOfIs DEF RowsRight
  <2>5. str_to_int[name(i)] \in Nat
    BY <2>4 DEF TableInv, IdMapInv, Known
  <2>6. Visited(Table[i]) = RowsOf(asked, i)
    BY <1>1, <1>2, <2>2, RowVisited
  <2> QED
    BY <2>2, <2>3, <2>5, <2>6
<1>7. ASSUME NEW i \in 1 .. k, NEW t \in RowsOf(asked, i)
      PROVE  t \in 0 .. n - 1 /\ x[t + 1] = name(i)
  <2>1. PICK p \in Nat, s \in Nat : /\ p = RowsBefore(asked, i) /\ s = asked[i].segment_size
                                    /\ RowsBefore(asked, i + 1) = p + s
    <3>1. RowsBefore(asked, i) \in Nat /\ asked[i].segment_size \in Nat
      BY <1>1, <1>2, RowsBeforeNext, RunOfIs
    <3> QED
      BY <1>1, <1>2, <3>1, RowsBeforeNext
  <2>2. i + 1 \in Nat /\ k + 1 \in Nat /\ i + 1 <= k + 1
    BY <1>2
  <2>3. p + s <= n
    BY <1>4, <2>1, <2>2, RowsBeforeMonotone
  <2>4. t \in p .. p + s - 1
    BY <2>1 DEF RowsOf
  <2>5. t \in 0 .. n - 1
    BY <2>3, <2>4
  <2> QED
    BY <1>3, <2>5 DEF HoldsRows
<1>8. ASSUME NEW t \in 0 .. n - 1 PROVE ServesToken(Table, idx, t)
  <2>1. PICK i \in 1 .. k : t \in RowsOf(asked, i)
                            /\ \A j \in 1 .. k : t \in RowsOf(asked, j) => j = i
    BY <1>1, <1>2, <1>4, RowOfOneSegment
  <2>2. AppliedTo(Table, t) = {i}
    BY <1>5, <1>6, <2>1 DEF AppliedTo
  <2>3. idx[t] = str_to_int[name(i)]
    BY <1>7, <2>1
  <2>4. idx[t] # NoLora
    BY <1>6, <2>3 DEF NoLora
  <2>5. i \in DOMAIN Table /\ Table[i].adapter_id = idx[t]
    BY <1>5, <1>6, <2>3
  <2> HIDE DEF idx
  <2> QED
    BY <2>2, <2>4, <2>5 DEF ServesToken
<1>9. Tokens(idx) = 0 .. n - 1
  BY DEF Tokens
<1>10. ServesBatch(Table, idx)
  <2>1. \A i \in DOMAIN Table : Visited(Table[i]) \subseteq 0 .. n - 1
    BY <1>5, <1>6, <1>7
  <2> HIDE DEF idx
  <2> QED
    BY <1>8, <1>9, <2>1 DEF ServesBatch
<1>11. ASSUME NEW i \in DOMAIN Table, NEW t \in Visited(Table[i])
       PROVE  pointers[i - 1] = x[t + 1]
  BY <1>5, <1>6, <1>7
<1>12. idx = [t \in 0 .. Len(AskedRows) - 1 |-> str_to_int[AskedRows[t + 1]]]
  BY <1>3, <1>4
<1> HIDE DEF idx
<1> QED
  BY <1>3, <1>10, <1>11, <1>12 DEF RegisteredRowsGetTheirAdapter

-----------------------------------------------------------------------------
(***************************************************************************)
(* The page of the bridge.                                                 *)
(*                                                                         *)
(* What makes the page right is that until the ids outgrow it no tick is   *)
(* refused, so the averages the bridge keeps are those of the ticks shown  *)
(* and the step counter is the number of ticks; and that once they have    *)
(* outgrown it they never come back, so the page stays as it is for ever.  *)
(***************************************************************************)

(* The row of an id that is on the page. *)
RowRight(id) ==
  LET row  == page.rows[id]
      name == NameOf(id)
      ofTick(source) == IF source \in sources THEN <<name, page.step_id>> ELSE Zero
  IN /\ row.whittle_scores = ofTick("whittle")
     /\ row.lambda_hat = ofTick("estimator")
     /\ row.promo_eligible = ofTick("mwc")
     /\ row.gwar_pred_next3 = IF "gwar" \in sources THEN Average(shown, name) ELSE 0
     /\ row.tile_size_code = TileSizeCode(row.gwar_pred_next3)

NoTickRefused ==
  NumActive <= MaxAdapters =>
    /\ ewma = shown
    /\ step_id = tick
    /\ page.num_active_adapters > 0 => page.step_id = tick - 1

(* An average lies between the least and the greatest reading it is of. *)
AveragesAreOfReadings ==
  \A x \in Names :
    IF past_readings[x] = {}
      THEN shown[x] = NoReading
      ELSE /\ shown[x] \in Averages
           /\ \E lo, hi \in past_readings[x] : lo <= shown[x] /\ shown[x] <= hi

BridgeInv ==
  /\ BridgeTypeOK
  /\ IdMapInv
  /\ AveragesAreOfReadings
  /\ page.num_active_adapters <= NumActive
  /\ NoTickRefused
  /\ \A id \in 0 .. page.num_active_adapters - 1 : RowRight(id)

-----------------------------------------------------------------------------
(* An average of readings is a reading. *)
LEMMA EwmaIsAverage ==
  ASSUME NEW averages \in [Names -> Averages \cup {NoReading}],
         NEW args, NEW read \in TickReadings(args)
  PROVE  Smoothed(averages, read) \in [Names -> Averages \cup {NoReading}]
<1>1. read \in [Names -> Readings \cup {NoReading}]
  BY DEF TickReadings
<1>2. ASSUME NEW p \in Averages, NEW r \in Readings
      PROVE  (3 * r + 7 * p) \div 10 \in Averages /\ r \in Averages
  <2>1. r \in 0 .. 1000 /\ p \in 0 .. 1000
    BY BridgeAssumption DEF Averages
  <2> QED
    BY <2>1 DEF Averages
<1>3. ASSUME NEW x \in Names
      PROVE  (IF read[x] = NoReading THEN averages[x]
                ELSE Ewma(averages[x], read[x])) \in Averages \cup {NoReading}
  <2>1. CASE read[x] = NoReading
    BY <2>1
  <2>2. CASE read[x] # NoReading /\ averages[x] = NoReading
    <3>1. read[x] \in Readings
      BY <2>2, <1>1
    <3>2. Readings \subseteq Averages
      <4>1. Readings \subseteq 0 .. 1000
        BY BridgeAssumption
      <4> QED
        BY <4>1 DEF Averages
    <3>3. read[x] \in Averages
      BY <3>1, <3>2
    <3> QED
      BY <2>2, <3>3 DEF Ewma
  <2>3. CASE read[x] # NoReading /\ averages[x] # NoReading
    <3>1. read[x] \in Readings /\ averages[x] \in Averages
      BY <2>3, <1>1
    <3>2. (3 * read[x] + 7 * averages[x]) \div 10 \in Averages
      BY <3>1, <1>2
    <3> QED
      BY <2>3, <3>2 DEF Ewma
  <2> QED
    BY <2>1, <2>2, <2>3
<1> QED
  BY <1>3 DEF Smoothed

LEMMA AveragesAreNat == Averages \subseteq Nat
BY DEF Averages

LEMMA AverageIsNat ==
  ASSUME NEW r \in Nat, NEW a \in Nat
  PROVE  (3 * r + 7 * a) \div 10 \in Nat
OBVIOUS

(* An average stays between the readings it is of, the new one among them:    *)
(* 0.3 of one value and 0.7 of another lie between the two.                   *)
LEMMA AverageStaysBetween ==
  ASSUME NEW r \in Nat, NEW a \in Nat, NEW lo \in Nat, NEW hi \in Nat, lo <= a, a <= hi
  PROVE  LET e == (3 * r + 7 * a) \div 10
         IN /\ lo <= e \/ r <= e
            /\ e <= hi \/ e <= r
<1>1. PICK m \in Nat : m = 3 * r + 7 * a
  OBVIOUS
<1>2. PICK e \in Nat : e = m \div 10 /\ 10 * e <= m /\ m < 10 * e + 10
  OBVIOUS
<1>3. lo <= e \/ r <= e
  BY <1>1, <1>2
<1>4. e <= hi \/ e <= r
  BY <1>1, <1>2
<1> QED
  BY <1>1, <1>2, <1>3, <1>4

LEMMA TickKeepsAverages ==
  ASSUME BridgeInv, NEW args \in CallArguments, NEW read \in TickReadings(args), Tick(args, read)
  PROVE  AveragesAreOfReadings'
<1> SUFFICES ASSUME NEW x \in Names
             PROVE  IF past_readings'[x] = {}
                      THEN shown'[x] = NoReading
                      ELSE /\ shown'[x] \in Averages
                           /\ \E lo, hi \in past_readings'[x] : lo <= shown'[x] /\ shown'[x] <= hi
  BY DEF AveragesAreOfReadings
<1>1. past_readings'[x] = past_readings[x] \cup ({read[x]} \ {NoReading})
  BY DEF Tick
<1>2. shown'[x] = IF read[x] = NoReading THEN shown[x] ELSE Ewma(shown[x], read[x])
  BY DEF Tick, Smoothed
<1>3. IF past_readings[x] = {}
        THEN shown[x] = NoReading
        ELSE /\ shown[x] \in Averages
             /\ \E lo, hi \in past_readings[x] : lo <= shown[x] /\ shown[x] <= hi
  BY DEF BridgeInv, AveragesAreOfReadings
<1>4. CASE read[x] = NoReading
  BY <1>1, <1>2, <1>3, <1>4
<1>5. CASE read[x] # NoReading
  <2>1. read[x] \in Averages
    <3>1. read[x] \in Readings
      BY <1>5 DEF TickReadings
    <3>2. Readings \subseteq Averages
      BY BridgeAssumption DEF Averages
    <3> QED
      BY <3>1, <3>2
  <2>2. past_readings'[x] = past_readings[x] \cup {read[x]}
    BY <1>1, <1>5
  <2>3. CASE past_readings[x] = {}
    <3>1. shown'[x] = read[x]
      BY <1>2, <1>3, <1>5, <2>3 DEF Ewma
    <3>2. read[x] <= read[x]
      <4>1. read[x] \in Nat
        BY <2>1, AveragesAreNat
      <4> QED
        BY <4>1
    <3> QED
      BY <2>1, <2>2, <3>1, <3>2
  <2>4. CASE past_readings[x] # {}
    <3>1. PICK lo \in past_readings[x], hi \in past_readings[x] : lo <= shown[x] /\ shown[x] <= hi
      BY <1>3, <2>4
    <3>2. past_readings[x] \subseteq Averages
      BY DEF BridgeInv, BridgeTypeOK
    <3>3. shown[x] \in Averages
      BY <1>3, <2>4
    <3>4. shown[x] # NoReading
      BY <3>3, BridgeAssumption DEF Averages
    <3>5. shown'[x] = (3 * read[x] + 7 * shown[x]) \div 10
      BY <1>2, <1>5, <3>4 DEF Ewma
    <3>6. /\ lo <= shown'[x] \/ read[x] <= shown'[x]
          /\ shown'[x] <= hi \/ shown'[x] <= read[x]
      <4>1. lo \in Nat /\ hi \in Nat /\ shown[x] \in Nat /\ read[x] \in Nat
        BY <2>1, <3>1, <3>2, <3>3, AveragesAreNat
      <4> QED
        BY <4>1, <3>1, <3>5, AverageStaysBetween
    <3>7. shown'[x] \in Averages
      <4>1. shown' = Smoothed(shown, read)
        BY DEF Tick
      <4>2. shown'[x] \in Averages \cup {NoReading}
        BY <4>1, EwmaIsAverage DEF BridgeInv, BridgeTypeOK
      <4>3. read[x] \in Nat /\ shown[x] \in Nat
        BY <2>1, <3>3, AveragesAreNat
      <4>4. shown'[x] \in Nat
        BY <4>3, <3>5, AverageIsNat
      <4> QED
        BY <4>2, <4>4, BridgeAssumption
    <3>8. \E l, h \in past_readings'[x] : l <= shown'[x] /\ shown'[x] <= h
      BY <2>2, <3>1, <3>6
    <3> QED
      BY <2>2, <3>7, <3>8
  <2> QED
    BY <2>3, <2>4
<1> QED
  BY <1>4, <1>5

-----------------------------------------------------------------------------
LEMMA BridgeStarts == ASSUME BridgeInit PROVE BridgeInv
<1>1. IdMapInv
  BY IdMapStarts DEF BridgeInit
<1>2. int_to_str = << >> /\ NumActive = 0
  BY DEF BridgeInit, IdMapInit, NumActive
<1>3. PageRows \subseteq Nat /\ 0 \in 0 .. MaxAdapters /\ 0 \in 0 .. MaxTicks
  BY BridgeAssumption DEF PageRows
<1>4. NullPageRow \in PageRowSet
  BY DEF NullPageRow, PageRowSet, Reads, Averages
<1>5. BridgeTypeOK
  BY <1>1, <1>3, <1>4, BridgeAssumption DEF BridgeInit, BridgeTypeOK, IdMapInv
<1>6. page.num_active_adapters = 0 /\ step_id = 0 /\ tick = 0 /\ ewma = shown
  BY DEF BridgeInit
<1>7. AveragesAreOfReadings
  BY DEF BridgeInit, AveragesAreOfReadings
<1> QED
  BY <1>1, <1>2, <1>5, <1>6, <1>7 DEF BridgeInv, NoTickRefused

LEMMA AskingKeepsPage ==
  ASSUME BridgeInv, NEW n \in Nat, NEW names \in [1 .. n -> Names], GetOrAssignAll(names),
         UNCHANGED tickVars
  PROVE  BridgeInv'
<1>3. IdMapInv
  BY DEF BridgeInv
<1>4. IdMapInv' /\ Extended(names)
  BY <1>3, GetOrAssignExtends
<1>5. UNCHANGED <<sources, ewma, page, step_id, tick, shown, past_readings>>
  BY DEF tickVars, historyVars
<1>6. BridgeTypeOK'
  BY <1>4, <1>5 DEF BridgeInv, BridgeTypeOK, IdMapInv
<1>7. NumActive \in Nat /\ NumActive' \in Nat /\ NumActive <= NumActive'
  BY <1>3, <1>4 DEF IdMapInv, Extended, NumActive
<1>8. page.num_active_adapters \in Nat /\ page.num_active_adapters <= NumActive
  BY BridgeAssumption DEF BridgeInv, BridgeTypeOK
<1>9. page'.num_active_adapters <= NumActive'
  BY <1>5, <1>7, <1>8
<1>10. NoTickRefused'
  <2>1. NumActive' <= MaxAdapters => NumActive <= MaxAdapters
    BY <1>7, BridgeAssumption
  <2> QED
    BY <2>1, <1>5 DEF BridgeInv, NoTickRefused
<1>11. ASSUME NEW id \in 0 .. page.num_active_adapters - 1
       PROVE  RowRight(id)'
  <2>1. id \in 0 .. Len(int_to_str) - 1
    BY <1>7, <1>8 DEF NumActive
  <2>2. NameOf(id)' = NameOf(id)
    BY <2>1, <1>4 DEF Extended
  <2>3. RowRight(id)
    BY DEF BridgeInv
  <2> QED
    BY <2>2, <2>3, <1>5 DEF RowRight
<1>12. \A id \in 0 .. page'.num_active_adapters - 1 : RowRight(id)'
  BY <1>5, <1>11
<1>13. AveragesAreOfReadings'
  BY <1>5 DEF BridgeInv, AveragesAreOfReadings
<1> QED
  BY <1>4, <1>6, <1>9, <1>10, <1>12, <1>13 DEF BridgeInv

LEMMA EmptyTickKeeps == ASSUME BridgeInv, EmptyTick PROVE BridgeInv'
<1>1. UNCHANGED <<str_to_int, int_to_str, sources, ewma, page, shown, past_readings>>
  BY DEF EmptyTick, idVars, historyVars
<1>2. IdMapInv'
  BY <1>1 DEF BridgeInv, IdMapInv, Known, NameOf
<1>3. page.num_active_adapters \in Nat /\ NumActive = 0 /\ page.num_active_adapters <= NumActive
  BY BridgeAssumption DEF BridgeInv, BridgeTypeOK, EmptyTick
<1>4. page.num_active_adapters = 0
  BY <1>3
<1>5. tick \in 0 .. MaxTicks /\ step_id \in Nat /\ tick < MaxTicks
      /\ step_id' = step_id + 1 /\ tick' = tick + 1
  BY DEF BridgeInv, BridgeTypeOK, EmptyTick
<1>6. step_id' \in Nat /\ tick' \in 0 .. MaxTicks
  BY <1>5, BridgeAssumption
<1>7. BridgeTypeOK'
  BY <1>1, <1>6 DEF BridgeInv, BridgeTypeOK
<1>8. NumActive' = 0 /\ page'.num_active_adapters = 0
  BY <1>1, <1>3, <1>4 DEF NumActive
<1>9. NumActive <= MaxAdapters
  BY <1>3, BridgeAssumption
<1>10. NoTickRefused'
  BY <1>1, <1>5, <1>8, <1>9 DEF BridgeInv, NoTickRefused
<1>11. AveragesAreOfReadings'
  BY <1>1 DEF BridgeInv, AveragesAreOfReadings
<1> QED
  BY <1>2, <1>7, <1>8, <1>10, <1>11 DEF BridgeInv

(* What Tick writes in the row of an id. *)
LEMMA TickWrites ==
  ASSUME BridgeInv, NEW args \in CallArguments, NEW read \in TickReadings(args), Tick(args, read)
  PROVE  /\ page' \in [step_id : Nat, num_active_adapters : 0 .. MaxAdapters,
                       rows : [PageRows -> PageRowSet]]
         /\ page'.step_id = tick /\ page'.num_active_adapters = NumActive
         /\ \A id \in 0 .. NumActive - 1 :
              page'.rows[id] = PageRow(id, args, Smoothed(shown, read)) /\ NameOf(id) \in Names
<1>1. NumActive \in 1 .. MaxAdapters /\ NumActive \in Nat
  BY DEF Tick, BridgeInv, IdMapInv, NumActive
<1>2. ewma = shown /\ step_id = tick
  BY <1>1, BridgeAssumption DEF BridgeInv, NoTickRefused
<1>3. ewma' = Smoothed(shown, read)
  BY <1>2 DEF Tick
<1> DEFINE averages == Smoothed(shown, read)
<1>4. averages \in [Names -> Averages \cup {NoReading}]
  BY EwmaIsAverage DEF BridgeInv, BridgeTypeOK
<1>5. page' = [step_id |-> tick, num_active_adapters |-> NumActive,
               rows |-> [id \in PageRows |-> IF id < NumActive THEN PageRow(id, args, averages)
                                                               ELSE page.rows[id]]]
  BY <1>2, <1>3 DEF Tick, WriteBridge
<1>6. ASSUME NEW id \in 0 .. NumActive - 1
      PROVE  id \in PageRows /\ id < NumActive /\ NameOf(id) \in Names
  <2>1. id \in PageRows /\ id < NumActive /\ id + 1 \in 1 .. Len(int_to_str)
    BY <1>1, BridgeAssumption DEF PageRows, NumActive
  <2> QED
    BY <2>1 DEF NameOf, BridgeInv, IdMapInv
<1>7. ASSUME NEW id \in 0 .. NumActive - 1
      PROVE  PageRow(id, args, averages) \in PageRowSet
  <2> DEFINE name == NameOf(id)
             gwar == IF "gwar" \in args THEN Average(averages, name) ELSE 0
  <2>1. name \in Names /\ tick \in Nat
    BY <1>6, BridgeAssumption DEF BridgeInv, BridgeTypeOK
  <2>2. Average(averages, name) \in Averages
    BY <2>1, <1>4 DEF Average, Averages
  <2>3. gwar \in Averages
    BY <2>2 DEF Averages
  <2> HIDE DEF gwar, name
  <2>4. TileSizeCode(gwar) \in 0 .. 2
    BY <2>3 DEF TileSizeCode
  <2>5. Zero \in Reads /\ <<name, tick>> \in Reads
    BY <2>1 DEF Reads
  <2> QED
    BY <2>3, <2>4, <2>5 DEF PageRow, PageRowSet, gwar, name
<1> HIDE DEF averages
<1>8. page'.rows \in [PageRows -> PageRowSet]
  <2>1. page.rows \in [PageRows -> PageRowSet]
    BY DEF BridgeInv, BridgeTypeOK
  <2>2. ASSUME NEW id \in PageRows, id < NumActive
        PROVE  PageRow(id, args, averages) \in PageRowSet
    BY <2>2, <1>1, <1>7 DEF PageRows
  <2> QED
    BY <2>1, <2>2, <1>5
<1>9. tick \in Nat /\ NumActive \in 0 .. MaxAdapters
  BY <1>1, BridgeAssumption DEF BridgeInv, BridgeTypeOK
<1>10. ASSUME NEW id \in 0 .. NumActive - 1
       PROVE  page'.rows[id] = PageRow(id, args, averages)
  BY <1>5, <1>6
<1> QED
  BY <1>5, <1>6, <1>8, <1>9, <1>10 DEF averages

LEMMA TickKeeps ==
  ASSUME BridgeInv, NEW args \in CallArguments, NEW read \in TickReadings(args), Tick(args, read)
  PROVE  BridgeInv'
<1>1. UNCHANGED <<str_to_int, int_to_str>> /\ sources' = args
  BY DEF Tick, idVars
<1>2. IdMapInv'
  BY <1>1 DEF BridgeInv, IdMapInv, Known, NameOf
<1>3. NumActive \in 1 .. MaxAdapters /\ NumActive' = NumActive
  BY <1>1 DEF Tick, NumActive
<1>4. ewma = shown /\ step_id = tick
  BY <1>3, BridgeAssumption DEF BridgeInv, NoTickRefused
<1>5. ewma' = Smoothed(shown, read) /\ shown' = Smoothed(shown, read)
  BY <1>4 DEF Tick
<1>6. ewma' \in [Names -> Averages \cup {NoReading}]
  BY <1>5, EwmaIsAverage DEF BridgeInv, BridgeTypeOK
<1>7. tick \in 0 .. MaxTicks /\ step_id \in Nat /\ tick < MaxTicks
      /\ step_id' = step_id + 1 /\ tick' = tick + 1
  BY DEF BridgeInv, BridgeTypeOK, Tick
<1>8. step_id' \in Nat /\ tick' \in 0 .. MaxTicks
  BY <1>7, BridgeAssumption
<1>9. BridgeTypeOK'
  <2>1. sources' \in SUBSET Sources
    BY <1>1, BridgeAssumption
  <2>2. past_readings' \in [Names -> SUBSET Averages]
    <3>1. past_readings' = [x \in Names |-> past_readings[x] \cup ({read[x]} \ {NoReading})]
      BY DEF Tick
    <3>2. \A x \in Names : past_readings[x] \subseteq Averages
      BY DEF BridgeInv, BridgeTypeOK
    <3>3. \A x \in Names : {read[x]} \ {NoReading} \subseteq Readings
      BY DEF TickReadings
    <3>4. Readings \subseteq Averages
      BY BridgeAssumption DEF Averages
    <3> QED
      BY <3>1, <3>2, <3>3, <3>4
  <2> QED
    BY <1>1, <1>5, <1>6, <1>8, <2>1, <2>2, TickWrites DEF BridgeInv, BridgeTypeOK
<1>10. page'.step_id = tick /\ page'.num_active_adapters = NumActive
  BY TickWrites
<1>11. NoTickRefused'
  BY <1>4, <1>5, <1>7, <1>10 DEF NoTickRefused
<1>12. ASSUME NEW id \in 0 .. page'.num_active_adapters - 1
       PROVE  RowRight(id)'
  <2>1. id \in 0 .. NumActive - 1
    BY <1>10
  <2>2. page'.rows[id] = PageRow(id, args, shown')
    BY <2>1, <1>5, TickWrites
  <2>3. NameOf(id)' = NameOf(id)
    BY <1>1 DEF NameOf
  <2> QED
    BY <2>2, <2>3, <1>1, <1>10 DEF RowRight, PageRow
<1>13. page'.num_active_adapters <= NumActive'
  BY <1>3, <1>10, BridgeAssumption
<1> QED
  BY <1>2, <1>9, <1>11, <1>12, <1>13, TickKeepsAverages DEF BridgeInv

LEMMA RefusedTickKeeps ==
  ASSUME BridgeInv, NEW args, NEW read \in TickReadings(args), RefusedTick(read)
  PROVE  BridgeInv'
<1>1. UNCHANGED <<str_to_int, int_to_str, sources, page, step_id, shown, past_readings>>
  BY DEF RefusedTick, idVars, historyVars
<1>2. IdMapInv'
  BY <1>1 DEF BridgeInv, IdMapInv, Known, NameOf
<1>3. ewma' \in [Names -> Averages \cup {NoReading}]
  BY EwmaIsAverage DEF BridgeInv, BridgeTypeOK, RefusedTick
<1>4. tick' \in 0 .. MaxTicks
  <2>1. tick \in 0 .. MaxTicks /\ tick < MaxTicks /\ tick' = tick + 1
    BY DEF BridgeInv, BridgeTypeOK, RefusedTick
  <2> QED
    BY <2>1, BridgeAssumption
<1>5. BridgeTypeOK'
  BY <1>1, <1>3, <1>4 DEF BridgeInv, BridgeTypeOK
<1>6. NumActive' = NumActive /\ NumActive > MaxAdapters /\ NumActive \in Nat
  BY <1>1 DEF RefusedTick, NumActive, BridgeInv, IdMapInv
<1>7. NoTickRefused'
  <2>1. ~(NumActive' <= MaxAdapters)
    BY <1>6, BridgeAssumption
  <2> QED
    BY <2>1 DEF NoTickRefused
<1>8. ASSUME NEW id \in 0 .. page.num_active_adapters - 1
      PROVE  RowRight(id)'
  <2>1. RowRight(id)
    BY DEF BridgeInv
  <2> QED
    BY <2>1, <1>1 DEF RowRight, NameOf
<1>9. AveragesAreOfReadings'
  BY <1>1 DEF BridgeInv, AveragesAreOfReadings
<1> QED
  BY <1>1, <1>2, <1>5, <1>6, <1>7, <1>8, <1>9 DEF BridgeInv

LEMMA BridgeInvInductive == ASSUME BridgeInv, [BridgeNext]_bridgeVars PROVE BridgeInv'
<1>1. CASE \E names \in NameSeqs : AssignIds(names)
  <2>1. PICK n \in 1 .. MaxAsked, names \in NameSeqs :
          names \in [1 .. n -> Names] /\ AssignIds(names)
    BY <1>1 DEF NameSeqs
  <2>2. n \in Nat
    BY <2>1, BridgeAssumption
  <2> QED
    BY <2>1, <2>2, AskingKeepsPage DEF AssignIds
<1>2. CASE EmptyTick
  BY <1>2, EmptyTickKeeps
<1>3. CASE \E args \in CallArguments : \E read \in TickReadings(args) : Tick(args, read)
  BY <1>3, TickKeeps
<1>4. CASE \E args \in CallArguments : \E read \in TickReadings(args) : RefusedTick(read)
  BY <1>4, RefusedTickKeeps
<1>5. CASE UNCHANGED bridgeVars
  <2>1. UNCHANGED <<str_to_int, int_to_str, sources, ewma, page, step_id, tick, shown,
                    past_readings>>
    BY <1>5 DEF bridgeVars, idVars, tickVars, historyVars
  <2> QED
    BY <2>1 DEF BridgeInv, BridgeTypeOK, IdMapInv, NoTickRefused, RowRight, Known, NameOf,
                NumActive, AveragesAreOfReadings
<1> QED
  BY <1>1, <1>2, <1>3, <1>4, <1>5 DEF BridgeNext

-----------------------------------------------------------------------------
LEMMA PageRowsHold == ASSUME BridgeInv PROVE PageRowsAreOfOneTick
<1> SUFFICES ASSUME NEW id \in 0 .. page.num_active_adapters - 1
             PROVE  id < NumActive /\ str_to_int[NameOf(id)] = id /\ RowRight(id)
  BY DEF PageRowsAreOfOneTick, RowRight
<1>1. page.num_active_adapters \in Nat /\ page.num_active_adapters <= NumActive
      /\ NumActive \in Nat
  BY BridgeAssumption DEF BridgeInv, BridgeTypeOK, IdMapInv, NumActive
<1>2. id < NumActive /\ id \in 0 .. Len(int_to_str) - 1
  BY <1>1 DEF NumActive
<1>3. str_to_int[NameOf(id)] = id
  BY <1>2 DEF BridgeInv, IdMapInv
<1>4. RowRight(id)
  BY DEF BridgeInv
<1> QED
  BY <1>2, <1>3, <1>4

LEMMA TileSizeGrows ==
  ASSUME NEW p \in Nat, NEW q \in Nat, p <= q
  PROVE  TileSizeCode(p) <= TileSizeCode(q)
BY DEF TileSizeCode

(* The tile size code is that of an average, which lies between two readings. *)
LEMMA TileHolds == ASSUME BridgeInv PROVE TileIsWarranted
<1> SUFFICES ASSUME NEW id \in 0 .. page.num_active_adapters - 1
             PROVE  IF "gwar" \in sources /\ past_readings[NameOf(id)] # {}
                      THEN \E lo, hi \in past_readings[NameOf(id)] :
                             /\ TileSizeCode(lo) <= page.rows[id].tile_size_code
                             /\ page.rows[id].tile_size_code <= TileSizeCode(hi)
                      ELSE page.rows[id].tile_size_code = 0
  BY DEF TileIsWarranted
<1>1. NameOf(id) \in Names
  <2>1. page.num_active_adapters \in Nat /\ page.num_active_adapters <= NumActive
        /\ NumActive \in Nat
    BY BridgeAssumption DEF BridgeInv, BridgeTypeOK, IdMapInv, NumActive
  <2>2. id + 1 \in 1 .. Len(int_to_str)
    BY <2>1 DEF NumActive
  <2> QED
    BY <2>2 DEF NameOf, BridgeInv, IdMapInv
<1> DEFINE x == NameOf(id)
<1>2. page.rows[id].tile_size_code
        = TileSizeCode(IF "gwar" \in sources THEN Average(shown, x) ELSE 0)
  BY DEF BridgeInv, RowRight
<1>3. IF past_readings[x] = {}
        THEN shown[x] = NoReading
        ELSE /\ shown[x] \in Averages
             /\ \E lo, hi \in past_readings[x] : lo <= shown[x] /\ shown[x] <= hi
  BY <1>1 DEF BridgeInv, AveragesAreOfReadings
<1>4. past_readings[x] \subseteq Averages
  BY <1>1 DEF BridgeInv, BridgeTypeOK
<1> HIDE DEF x
<1>5. TileSizeCode(0) = 0
  BY DEF TileSizeCode
<1>6. CASE "gwar" \in sources /\ past_readings[x] # {}
  <2>1. PICK lo \in past_readings[x], hi \in past_readings[x] : lo <= shown[x] /\ shown[x] <= hi
    BY <1>3, <1>6
  <2>2. lo \in Nat /\ hi \in Nat /\ shown[x] \in Nat
    BY <2>1, <1>3, <1>4, <1>6, AveragesAreNat
  <2>3. Average(shown, x) = shown[x]
    BY <2>2, BridgeAssumption DEF Average
  <2>4. page.rows[id].tile_size_code = TileSizeCode(shown[x])
    BY <1>2, <1>6, <2>3
  <2>5. TileSizeCode(lo) <= TileSizeCode(shown[x]) /\ TileSizeCode(shown[x]) <= TileSizeCode(hi)
    BY <2>1, <2>2, TileSizeGrows
  <2> QED
    BY <1>6, <2>1, <2>4, <2>5 DEF x
<1>7. CASE ~("gwar" \in sources /\ past_readings[x] # {})
  <2>1. page.rows[id].tile_size_code = 0
    BY <1>2, <1>3, <1>5, <1>7 DEF Average
  <2> QED
    BY <1>7, <2>1 DEF x
<1> QED
  BY <1>6, <1>7

-----------------------------------------------------------------------------
(***************************************************************************)
(* The device's table: for any size of block and any order of the threads  *)
(* between two barriers it is the one build_segments_kernel's single       *)
(* thread writes.                                                          *)
(*                                                                         *)
(* The argument is the one of the Hillis-Steele scan.  With P the sums of  *)
(* the contributions (SegmentsProofs), contrib[i] holds the sum over the   *)
(* last `offset' positions up to i before an addition and over twice as    *)
(* many after it; the barriers keep all threads in one of four phases, so  *)
(* a fetch never meets a neighbour that has already added.                 *)
(***************************************************************************)

Sums(idx) == CHOOSE P : IsSums(P, idx, ScanSegments)

LEMMA LaunchIs ==
  ASSUME NEW idx \in Batches
  PROVE  \E n \in 0 .. ScanSegments : IsBatch(idx, n)
<1>1. PICK n \in 0 .. ScanSegments : idx \in [0 .. n - 1 -> Loras \cup {NoLora}]
  BY DEF Batches
<1>2. n \in Nat /\ DOMAIN idx = 0 .. n - 1
  BY <1>1, ScanAssumption
<1> QED
  BY <1>2 DEF IsBatch

LEMMA SumsAre ==
  ASSUME NEW idx \in Batches
  PROVE  /\ IsSums(Sums(idx), idx, ScanSegments)
         /\ \A i \in 0 .. ScanSegments : Sums(idx)[i] \in 0 .. ScanSegments
         /\ \A i \in 0 .. ScanSegments - 1 :
              /\ Contribution(idx, i) \in Nat
              /\ Sums(idx)[i + 1] = Sums(idx)[i] + Contribution(idx, i)
<1>1. PICK n \in 0 .. ScanSegments : IsBatch(idx, n)
  BY LaunchIs
<1>2. PICK N \in Nat : N = ScanSegments /\ N # 0
  BY ScanAssumption
<1>3. \E P : IsSums(P, idx, ScanSegments)
  BY <1>1, <1>2, SumsExist
<1>4. PICK P : P = Sums(idx) /\ IsSums(P, idx, ScanSegments)
  BY <1>3 DEF Sums
<1>5. P[ScanSegments] \in 0 .. n
  BY <1>1, <1>2, <1>4, SerialTabulatesPadded
<1>6. ASSUME NEW i \in 0 .. ScanSegments PROVE P[i] \in 0 .. ScanSegments
  <2>1. ScanSegments \in i .. ScanSegments
    BY <1>2
  <2>2. P[i] \in Nat /\ P[ScanSegments] \in Nat /\ P[i] <= P[ScanSegments]
    BY <1>1, <1>4, <2>1, SumsGrow
  <2> QED
    BY <1>1, <1>2, <1>5, <2>2
<1>7. \A i \in 0 .. ScanSegments - 1 : Contribution(idx, i) \in Nat
  BY <1>1, ContributionIsNat
<1> QED
  BY <1>4, <1>6, <1>7 DEF IsSums

-----------------------------------------------------------------------------
(* What the scan has summed. *)

(* First position of the o positions that end at i. *)
From(i, o) == IF i + 1 >= o THEN i + 1 - o ELSE 0

(* The sum of the contributions of the o positions that end at i. *)
Window(idx, i, o) == Sums(idx)[i + 1] - Sums(idx)[From(i, o)]

LEMMA WindowIs ==
  ASSUME NEW idx \in Batches, NEW i \in Threads, NEW o \in Nat \ {0}
  PROVE  /\ Window(idx, i, o) \in 0 .. ScanSegments
         /\ Window(idx, i, 1) = Contribution(idx, i)
         /\ o >= ScanSegments => Window(idx, i, o) = Sums(idx)[i + 1]
<1>1. PICK N \in Nat : N = ScanSegments /\ N # 0
  BY ScanAssumption
<1>2. i \in Nat /\ i < N /\ i + 1 \in 0 .. ScanSegments /\ i \in 0 .. ScanSegments
  BY <1>1 DEF Threads
<1>3. PICK f \in 0 .. ScanSegments : f = From(i, o) /\ f <= i
  <2>1. From(i, o) \in 0 .. i /\ i <= ScanSegments
    BY <1>1, <1>2 DEF From
  <2>2. From(i, o) \in 0 .. ScanSegments /\ From(i, o) <= i
    BY <1>1, <1>2, <2>1
  <2> QED
    BY <2>2
<1>4. IsSums(Sums(idx), idx, ScanSegments)
  BY SumsAre
<1>5. PICK n \in 0 .. ScanSegments : IsBatch(idx, n)
  BY LaunchIs
<1>6. Sums(idx)[f] <= Sums(idx)[i + 1]
  <2>1. i + 1 \in f .. ScanSegments
    BY <1>1, <1>2, <1>3
  <2> QED
    BY <1>4, <1>5, <2>1, SumsGrow
<1>7. PICK a \in 0 .. ScanSegments, b \in 0 .. ScanSegments :
        a = Sums(idx)[f] /\ b = Sums(idx)[i + 1] /\ a <= b
  BY <1>2, <1>6, SumsAre
<1>8. Window(idx, i, o) \in 0 .. ScanSegments
  BY <1>1, <1>3, <1>7 DEF Window
<1>9. Window(idx, i, 1) = Contribution(idx, i)
  <2>1. From(i, 1) = i
    BY <1>2 DEF From
  <2>2. /\ Contribution(idx, i) \in Nat /\ Sums(idx)[i] \in Nat
        /\ Sums(idx)[i + 1] = Sums(idx)[i] + Contribution(idx, i)
    <3>1. i \in 0 .. ScanSegments - 1
      BY DEF Threads
    <3> QED
      BY <1>1, <1>2, <3>1, SumsAre
  <2> QED
    BY <2>1, <2>2 DEF Window
<1>10. ASSUME o >= ScanSegments PROVE Window(idx, i, o) = Sums(idx)[i + 1]
  <2>1. From(i, o) = 0
    BY <1>1, <1>2, <1>10 DEF From
  <2>2. Sums(idx)[0] = 0
    BY <1>4 DEF IsSums
  <2> QED
    BY <1>1, <1>7, <2>1, <2>2 DEF Window
<1> QED
  BY <1>8, <1>9, <1>10

(* What an addition with offset o adds to position i. *)
Addend(idx, i, o) == IF i >= o THEN Window(idx, i - o, o) ELSE 0

(* One addition doubles the window. *)
LEMMA WindowDoubles ==
  ASSUME NEW idx \in Batches, NEW i \in Threads, NEW o \in Nat \ {0}
  PROVE  /\ Addend(idx, i, o) \in 0 .. ScanSegments
         /\ Window(idx, i, o) + Addend(idx, i, o) = Window(idx, i, 2 * o)
<1>1. PICK N \in Nat : N = ScanSegments /\ N # 0
  BY ScanAssumption
<1>2. i \in Nat /\ i < N
  BY <1>1 DEF Threads
<1>3. \A k \in 0 .. ScanSegments : Sums(idx)[k] \in Nat
  BY <1>1, SumsAre
<1>4. CASE i >= o
  <2>1. i - o \in Threads
    BY <1>1, <1>2, <1>4 DEF Threads
  <2>2. Window(idx, i - o, o) \in 0 .. ScanSegments
    BY <2>1, WindowIs
  <2>3. PICK k \in 0 .. ScanSegments : k = From(i, o) /\ k = (i - o) + 1
    BY <1>1, <1>2, <1>4 DEF From
  <2>4. PICK l \in 0 .. ScanSegments : l = From(i - o, o) /\ l = From(i, 2 * o)
    <3>1. From(i - o, o) = From(i, 2 * o)
      BY <1>2, <1>4 DEF From
    <3>2. From(i, 2 * o) \in 0 .. ScanSegments
      BY <1>1, <1>2, <1>4 DEF From
    <3> QED
      BY <3>1, <3>2
  <2>5. i + 1 \in 0 .. ScanSegments
    BY <1>1, <1>2
  <2>6. PICK a \in Nat, b \in Nat, c \in Nat :
          a = Sums(idx)[i + 1] /\ b = Sums(idx)[k] /\ c = Sums(idx)[l]
    BY <1>3, <2>5
  <2>7. /\ Window(idx, i, o) = a - b /\ Window(idx, i - o, o) = b - c
        /\ Window(idx, i, 2 * o) = a - c
    BY <2>3, <2>4, <2>6 DEF Window
  <2> QED
    BY <1>4, <2>2, <2>6, <2>7 DEF Addend
<1>5. CASE ~(i >= o)
  <2>1. From(i, o) = 0 /\ From(i, 2 * o) = 0
    BY <1>2, <1>5 DEF From
  <2>2. Window(idx, i, o) \in 0 .. ScanSegments
    BY WindowIs
  <2> QED
    BY <1>1, <1>5, <2>1, <2>2 DEF Addend, Window
<1> QED
  BY <1>4, <1>5

-----------------------------------------------------------------------------
(* The inductive invariant: the four phases the barriers separate. *)

Batch == token_lora_indices

(* Rows of the table that thread i writes. *)
Written(i) ==
  \A s \in 0 .. Contribution(Batch, i) - 1 :
    scan_segments[Sums(Batch)[i] + s] = Segment(Batch, i, s)

Contributing(i, o) ==
  /\ o = 1 /\ pc[i] \in {"contribute", "contributed"}
  /\ pc[i] = "contributed" => contrib[i] = Window(Batch, i, o)

Fetching(i, o) ==
  /\ pc[i] \in {"fetch", "fetched"} /\ contrib[i] = Window(Batch, i, o)
  /\ pc[i] = "fetched" => v[i] = Addend(Batch, i, o)

Adding(i, o) ==
  /\ pc[i] \in {"add", "added"} /\ v[i] = Addend(Batch, i, o)
  /\ contrib[i] = Window(Batch, i, IF pc[i] = "add" THEN o ELSE 2 * o)

Emitting(i) ==
  /\ pc[i] \in {"emit", "done"} /\ contrib[i] = Sums(Batch)[i + 1]
  /\ pc[i] = "done" =>
       /\ Written(i)
       /\ i = ScanSegments - 1 => scan_num_segments = Sums(Batch)[ScanSegments]

Phases(o) ==
  /\ \A i \in Threads : offset[i] = o
  /\ \/ \A i \in Threads : Contributing(i, o)
     \/ \A i \in Threads : Fetching(i, o)
     \/ \A i \in Threads : Adding(i, o)
     \/ \A i \in Threads : Emitting(i)

Scanning == \E o \in Nat \ {0} : Phases(o)

ScanInv == ScanTypeOK /\ Scanning

USE DEF Batch

LEMMA ThreadsAre == ScanSegments \in Nat /\ 0 \in Threads /\ ScanSegments - 1 \in Threads
BY ScanAssumption DEF Threads

LEMMA InitScans == ScanInit => ScanInv
<1> SUFFICES ASSUME ScanInit PROVE ScanInv
  OBVIOUS
<1>1. ScanTypeOK
  <2>1. StaleRow \in SegmentRows
    BY ThreadsAre, ScanAssumption, SegmentsAssumption DEF StaleRow, SegmentRows
  <2> QED
    BY <2>1, ThreadsAre DEF ScanInit, ScanTypeOK, Labels
<1>2. Phases(1)
  BY DEF ScanInit, Phases, Contributing
<1>3. 1 \in Nat \ {0}
  OBVIOUS
<1> QED
  BY <1>1, <1>2, <1>3 DEF ScanInv, Scanning

(* A thread contributes what the sums count for it. *)
LEMMA ContributeScans ==
  ASSUME ScanInv, NEW i \in Threads, Contribute(i)
  PROVE  ScanInv'
<1>1. PICK o \in Nat \ {0} : Phases(o)
  BY DEF ScanInv, Scanning
<1>2. \A j \in Threads : offset[j] = o /\ Contributing(j, o)
  BY <1>1 DEF Contribute, Phases, Fetching, Adding, Emitting
<1>3. ScanTypeOK /\ o = 1
  BY <1>2 DEF ScanInv, Contributing
<1>4. MyContrib(i) = Window(Batch, i, 1) /\ MyContrib(i) \in 0 .. ScanSegments
  <2>1. MyContrib(i) = Contribution(Batch, i)
    BY DEF MyContrib, Contribution
  <2>2. Batch \in Batches /\ 1 \in Nat \ {0}
    BY <1>3 DEF ScanTypeOK
  <2> QED
    BY <2>1, <2>2, WindowIs
<1>5. ScanTypeOK'
  BY <1>3, <1>4 DEF ScanTypeOK, Contribute, Goto, Labels
<1>6. \A j \in Threads : Contributing(j, o)'
  BY <1>2, <1>3, <1>4 DEF ScanTypeOK, Contribute, Goto, Contributing
<1>7. Phases(o)'
  BY <1>2, <1>6 DEF Phases, Contribute
<1> QED
  BY <1>5, <1>7 DEF ScanInv, Scanning

(* A fetch finds its neighbour's window whole: nobody adds before the barrier. *)
LEMMA FetchScans ==
  ASSUME ScanInv, NEW i \in Threads, Fetch(i)
  PROVE  ScanInv'
<1>1. PICK o \in Nat \ {0} : Phases(o)
  BY DEF ScanInv, Scanning
<1>2. \A j \in Threads : offset[j] = o /\ Fetching(j, o)
  BY <1>1 DEF Fetch, Phases, Contributing, Adding, Emitting
<1>3. ScanTypeOK /\ Batch \in Batches
  BY DEF ScanInv, ScanTypeOK
<1>4. (IF i >= o THEN contrib[i - o] ELSE 0) = Addend(Batch, i, o)
  <2>1. i >= o => i - o \in Threads
    BY ThreadsAre DEF Threads
  <2> QED
    BY <1>2, <2>1 DEF Fetching, Addend
<1>5. v' = [v EXCEPT ![i] = Addend(Batch, i, o)] /\ Addend(Batch, i, o) \in 0 .. ScanSegments
  BY <1>2, <1>3, <1>4, WindowDoubles DEF Fetch
<1>6. ScanTypeOK'
  BY <1>3, <1>5 DEF ScanTypeOK, Fetch, Goto, Labels
<1>7. \A j \in Threads : Fetching(j, o)'
  BY <1>2, <1>3, <1>5 DEF ScanTypeOK, Fetch, Goto, Fetching
<1>8. Phases(o)'
  BY <1>2, <1>7 DEF Phases, Fetch
<1> QED
  BY <1>6, <1>8 DEF ScanInv, Scanning

(* An addition doubles its own window and nobody else's. *)
LEMMA AddScans ==
  ASSUME ScanInv, NEW i \in Threads, Add(i)
  PROVE  ScanInv'
<1>1. PICK o \in Nat \ {0} : Phases(o)
  BY DEF ScanInv, Scanning
<1>2. \A j \in Threads : offset[j] = o /\ Adding(j, o)
  BY <1>1 DEF Add, Phases, Contributing, Fetching, Emitting
<1>3. ScanTypeOK /\ Batch \in Batches
  BY DEF ScanInv, ScanTypeOK
<1>4. contrib[i] = Window(Batch, i, o) /\ v[i] = Addend(Batch, i, o)
  BY <1>2 DEF Add, Adding
<1>5. /\ contrib' = [contrib EXCEPT ![i] = Window(Batch, i, 2 * o)]
      /\ Window(Batch, i, 2 * o) \in 0 .. ScanSegments
  <2>1. 2 * o \in Nat \ {0}
    OBVIOUS
  <2>2. Window(Batch, i, 2 * o) \in 0 .. ScanSegments
    BY <1>3, <2>1, WindowIs
  <2>3. contrib[i] + v[i] = Window(Batch, i, 2 * o)
    BY <1>3, <1>4, WindowDoubles
  <2> QED
    BY <2>2, <2>3 DEF Add
<1>6. ScanTypeOK'
  BY <1>3, <1>5 DEF ScanTypeOK, Add, Goto, Labels
<1>7. \A j \in Threads : Adding(j, o)'
  BY <1>2, <1>3, <1>5 DEF ScanTypeOK, Add, Goto, Adding
<1>8. Phases(o)'
  BY <1>2, <1>7 DEF Phases, Add
<1> QED
  BY <1>6, <1>8 DEF ScanInv, Scanning

(* The barrier ends a phase of every thread. *)
LEMMA BarrierScans ==
  ASSUME ScanInv, Barrier
  PROVE  ScanInv'
<1>1. PICK o \in Nat \ {0} : Phases(o)
  BY DEF ScanInv, Scanning
<1>2. ScanTypeOK /\ Batch \in Batches
  BY DEF ScanInv, ScanTypeOK
<1>3. ScanTypeOK'
  <2>1. \A i \in Threads : PastBarrier(i) \in Labels
    BY DEF Barrier, PastBarrier, Labels
  <2> QED
    BY <1>2, <2>1 DEF ScanTypeOK, Barrier
<1>4. \A q \in Nat \ {0} : \A i \in Threads :
        q >= ScanSegments => Window(Batch, i, q) = Sums(Batch)[i + 1]
  BY <1>2, WindowIs
<1>5. CASE \A i \in Threads : Contributing(i, o)
  <2>1. o = 1
    BY <1>5, ThreadsAre DEF Contributing
  <2>2. \A i \in Threads : /\ pc[i] = "contributed" /\ contrib[i] = Window(Batch, i, 1)
                           /\ offset[i] = 1 /\ offset'[i] = 1
    BY <1>1, <1>5, <2>1 DEF Barrier, Contributing, Phases
  <2>3. CASE 1 < ScanSegments
    <3>1. \A i \in Threads : pc'[i] = "fetch"
      BY <2>2, <2>3 DEF Barrier, PastBarrier
    <3>2. Phases(1)'
      BY <2>2, <3>1 DEF Barrier, Phases, Fetching
    <3> QED
      BY <1>3, <3>2 DEF ScanInv, Scanning
  <2>4. CASE ~(1 < ScanSegments)
    <3>1. \A i \in Threads : pc'[i] = "emit" /\ contrib[i] = Sums(Batch)[i + 1]
      <4>1. \A i \in Threads : contrib[i] = Sums(Batch)[i + 1]
        BY <1>4, <2>2, <2>4, ThreadsAre
      <4> QED
        BY <2>2, <2>4, <4>1 DEF Barrier, PastBarrier
    <3>2. Phases(1)'
      BY <2>2, <3>1 DEF Barrier, Phases, Emitting
    <3> QED
      BY <1>3, <3>2 DEF ScanInv, Scanning
  <2> QED
    BY <2>3, <2>4
<1>6. CASE \A i \in Threads : Fetching(i, o)
  <2>1. \A i \in Threads : /\ pc[i] = "fetched" /\ contrib[i] = Window(Batch, i, o)
                           /\ v[i] = Addend(Batch, i, o) /\ offset[i] = o /\ offset'[i] = o
    BY <1>1, <1>6 DEF Barrier, Fetching, Phases
  <2>2. \A i \in Threads : pc'[i] = "add"
    BY <2>1 DEF Barrier, PastBarrier
  <2>3. Phases(o)'
    BY <2>1, <2>2 DEF Barrier, Phases, Adding
  <2> QED
    BY <1>3, <2>3 DEF ScanInv, Scanning
<1>7. CASE \A i \in Threads : Adding(i, o)
  <2>1. \A i \in Threads : /\ pc[i] = "added" /\ contrib[i] = Window(Batch, i, 2 * o)
                           /\ offset[i] = o /\ offset'[i] = 2 * o
    BY <1>1, <1>7 DEF Barrier, Adding, Phases
  <2>2. 2 * o \in Nat \ {0}
    OBVIOUS
  <2>3. CASE 2 * o < ScanSegments
    <3>1. \A i \in Threads : pc'[i] = "fetch"
      BY <2>1, <2>3 DEF Barrier, PastBarrier
    <3>2. Phases(2 * o)'
      BY <2>1, <3>1 DEF Barrier, Phases, Fetching
    <3> QED
      BY <1>3, <2>2, <3>2 DEF ScanInv, Scanning
  <2>4. CASE ~(2 * o < ScanSegments)
    <3>1. \A i \in Threads : contrib[i] = Sums(Batch)[i + 1]
      BY <1>4, <2>1, <2>2, <2>4, ThreadsAre
    <3>2. \A i \in Threads : pc'[i] = "emit"
      BY <2>1, <2>4 DEF Barrier, PastBarrier
    <3>3. Phases(2 * o)'
      BY <2>1, <3>1, <3>2 DEF Barrier, Phases, Emitting
    <3> QED
      BY <1>3, <2>2, <3>3 DEF ScanInv, Scanning
  <2> QED
    BY <2>3, <2>4
<1>8. CASE \A i \in Threads : Emitting(i)
  BY <1>8, ThreadsAre DEF Barrier, Emitting
<1> QED
  BY <1>1, <1>5, <1>6, <1>7, <1>8 DEF Phases

(* Rows of a thread: within the table, and its own. *)
LEMMA RowsOfThread ==
  ASSUME NEW idx \in Batches, NEW j \in Threads, NEW s \in 0 .. Contribution(idx, j) - 1
  PROVE  /\ Sums(idx)[j] + s \in Threads
         /\ Sums(idx)[j] <= Sums(idx)[j] + s /\ Sums(idx)[j] + s < Sums(idx)[j + 1]
         /\ Segment(idx, j, s) \in SegmentRows
<1>1. PICK N \in Nat : N = ScanSegments /\ N # 0
  BY ScanAssumption
<1>2. PICK n \in 0 .. ScanSegments : IsBatch(idx, n)
  BY LaunchIs
<1>3. j \in 0 .. n - 1
  BY <1>2, BatchSize DEF Contribution
<1>4. j \in 0 .. ScanSegments - 1 /\ j \in 0 .. ScanSegments /\ j + 1 \in 0 .. ScanSegments
  BY <1>1 DEF Threads
<1>5. PICK a \in 0 .. ScanSegments, b \in 0 .. ScanSegments, c \in Nat :
        a = Sums(idx)[j] /\ b = Sums(idx)[j + 1] /\ c = Contribution(idx, j) /\ b = a + c
  BY <1>4, SumsAre
<1>6. a + s \in Threads /\ a <= a + s /\ a + s < b
  BY <1>1, <1>5 DEF Threads
<1>7. /\ idx[j] # NoLora /\ s * MaxSegmentTokens \in Nat
      /\ Segment(idx, j, s).token_count \in 1 .. MaxSegmentTokens
      /\ 0 < Segment(idx, j, s).token_count <=>
           0 < MaxSegmentTokens /\ s * MaxSegmentTokens + 0 < RunLen(idx, j)
  BY <1>2, <1>3, SegmentIs
<1>8. RunLen(idx, j) \in 1 .. n - j
  BY <1>2, <1>3, RunLenIs
<1>9. PICK b0 \in Nat : b0 = s * MaxSegmentTokens /\ b0 < RunLen(idx, j)
  BY <1>7, SegmentsAssumption
<1>10. j + b0 \in Threads
  BY <1>1, <1>3, <1>8, <1>9 DEF Threads
<1>11. idx[j] \in Loras \cup {NoLora}
  <2>1. PICK m \in 0 .. ScanSegments : idx \in [0 .. m - 1 -> Loras \cup {NoLora}]
    BY DEF Batches
  <2>2. j \in DOMAIN idx
    BY <1>2, <1>3 DEF IsBatch
  <2> QED
    BY <2>1, <2>2
<1>12. Segment(idx, j, s) \in SegmentRows
  <2>1. Segment(idx, j, s).token_count \in 0 .. MaxSegmentTokens
    BY <1>7, SegmentsAssumption
  <2>2. j + s * MaxSegmentTokens \in Threads
    BY <1>9, <1>10
  <2> QED
    BY <1>11, <2>1, <2>2 DEF Segment, SegmentRows
<1> QED
  BY <1>5, <1>6, <1>12

(* A thread writes its own rows and leaves those of the others. *)
LEMMA EmitScans ==
  ASSUME ScanInv, NEW i \in Threads, Emit(i)
  PROVE  ScanInv'
<1>1. PICK o \in Nat \ {0} : Phases(o)
  BY DEF ScanInv, Scanning
<1>2. \A j \in Threads : offset[j] = o /\ Emitting(j)
  BY <1>1 DEF Emit, Phases, Contributing, Fetching, Adding
<1>3. ScanTypeOK /\ Batch \in Batches
  BY DEF ScanInv, ScanTypeOK
<1>4. PICK N \in Nat : N = ScanSegments /\ N # 0
  BY ScanAssumption
<1>5. i \in 0 .. ScanSegments - 1 /\ i \in 0 .. ScanSegments /\ i + 1 \in 0 .. ScanSegments
  BY <1>4 DEF Threads
<1>6. PICK a \in 0 .. ScanSegments, b \in 0 .. ScanSegments, c \in Nat :
        a = Sums(Batch)[i] /\ b = Sums(Batch)[i + 1] /\ c = Contribution(Batch, i) /\ b = a + c
  BY <1>3, <1>5, SumsAre
<1>7. MyContrib(i) = c /\ contrib[i] = b /\ contrib[i] - MyContrib(i) = a
  <2>1. MyContrib(i) = Contribution(Batch, i)
    BY DEF MyContrib, Contribution
  <2>2. contrib[i] = Sums(Batch)[i + 1]
    BY <1>2 DEF Emitting
  <2>3. MyContrib(i) = c /\ contrib[i] = b
    BY <1>6, <2>1, <2>2
  <2> QED
    BY <1>4, <1>6, <2>3
<1>8. /\ scan_num_segments' = (IF i = ScanSegments - 1 THEN b ELSE scan_num_segments)
      /\ scan_segments' = [r \in Threads |->
           IF a <= r /\ r < b THEN Segment(Batch, i, r - a) ELSE scan_segments[r]]
  BY <1>7 DEF Emit
<1>9. \A r \in Threads : a <= r /\ r < b => Segment(Batch, i, r - a) \in SegmentRows
  <2> SUFFICES ASSUME NEW r \in Threads, a <= r, r < b
               PROVE  Segment(Batch, i, r - a) \in SegmentRows
    OBVIOUS
  <2>1. r - a \in 0 .. Contribution(Batch, i) - 1
    BY <1>4, <1>6 DEF Threads
  <2> QED
    BY <1>3, <2>1, RowsOfThread
<1>10. ScanTypeOK'
  BY <1>3, <1>8, <1>9 DEF ScanTypeOK, Emit, Goto, Labels
<1>11. Written(i)'
  <2> SUFFICES ASSUME NEW s \in 0 .. Contribution(Batch, i) - 1
               PROVE  scan_segments'[Sums(Batch)[i] + s] = Segment(Batch, i, s)
    BY DEF Written, Emit
  <2>1. a + s \in Threads /\ a <= a + s /\ a + s < b
    BY <1>3, <1>6, RowsOfThread
  <2>2. (a + s) - a = s
    BY <1>6
  <2> QED
    BY <1>6, <1>8, <2>1, <2>2
<1>12. ASSUME NEW j \in Threads, j # i, Written(j) PROVE Written(j)'
  <2> SUFFICES ASSUME NEW s \in 0 .. Contribution(Batch, j) - 1
               PROVE  scan_segments'[Sums(Batch)[j] + s] = Segment(Batch, j, s)
    BY DEF Written, Emit
  <2>1. PICK r \in Threads : /\ r = Sums(Batch)[j] + s
                             /\ Sums(Batch)[j] <= r /\ r < Sums(Batch)[j + 1]
    BY <1>3, RowsOfThread
  <2>2. ASSUME a <= r, r < b PROVE FALSE
    <3>1. PICK n \in 0 .. ScanSegments : IsBatch(Batch, n)
      BY <1>3, LaunchIs
    <3>2. /\ j \in 0 .. ScanSegments - 1 /\ r \in Int /\ IsSums(Sums(Batch), Batch, ScanSegments)
          /\ Sums(Batch)[j + 1] = Sums(Batch)[j] + Contribution(Batch, j)
      BY <1>3, <1>4, SumsAre DEF Threads
    <3>3. Sums(Batch)[i] <= r /\ r < Sums(Batch)[i] + Contribution(Batch, i)
      BY <1>6, <2>2
    <3>4. r < Sums(Batch)[j] + Contribution(Batch, j)
      BY <2>1, <3>2
    <3> HIDE DEF Batch
    <3>5. j = i
      BY <1>5, <2>1, <3>1, <3>2, <3>3, <3>4, RowHasOneOwner
    <3> QED
      BY <1>12, <3>5
  <2>3. scan_segments'[r] = scan_segments[r]
    BY <1>8, <2>2
  <2> QED
    BY <1>12, <2>1, <2>3 DEF Written
<1>13. i = ScanSegments - 1 => scan_num_segments' = Sums(Batch)[ScanSegments]
  <2>1. i = ScanSegments - 1 => i + 1 = ScanSegments
    BY <1>4
  <2> QED
    BY <1>6, <1>8, <2>1
<1>14. \A j \in Threads : Emitting(j)'
  <2> SUFFICES ASSUME NEW j \in Threads PROVE Emitting(j)'
    OBVIOUS
  <2>1. CASE j = i
    BY <1>2, <1>3, <1>11, <1>13, <2>1 DEF ScanTypeOK, Emit, Goto, Emitting
  <2>2. CASE j # i
    <3>1. pc'[j] = pc[j] /\ contrib'[j] = contrib[j] /\ Batch' = Batch
      BY <1>3, <2>2 DEF ScanTypeOK, Emit, Goto
    <3>2. j = ScanSegments - 1 => scan_num_segments' = scan_num_segments
      BY <1>8, <2>2
    <3> QED
      BY <1>2, <1>12, <2>2, <3>1, <3>2 DEF Emitting
  <2> QED
    BY <2>1, <2>2
<1>15. Phases(o)'
  BY <1>2, <1>14 DEF Phases, Emit
<1> QED
  BY <1>10, <1>15 DEF ScanInv, Scanning

LEMMA NextScans == ScanInv /\ [ScanNext]_scanVars => ScanInv'
<1> SUFFICES ASSUME ScanInv, [ScanNext]_scanVars PROVE ScanInv'
  OBVIOUS
<1>1. ASSUME NEW i \in Threads, Step(i) PROVE ScanInv'
  BY <1>1, ContributeScans, FetchScans, AddScans, EmitScans DEF Step
<1>2. CASE Barrier
  BY <1>2, BarrierScans
<1>3. CASE UNCHANGED scanVars
  BY <1>3 DEF ScanInv, ScanTypeOK, Scanning, Phases, Contributing, Fetching, Adding, Emitting,
              Written, scanVars
<1> QED
  BY <1>1, <1>2, <1>3 DEF ScanNext, Stop

(* When the threads are through, the table is the single thread's. *)
LEMMA FinishedTable ==
  ASSUME ScanInv, Finished
  PROVE  ScanTable = SerialTable(token_lora_indices, ScanSegments)
<1> DEFINE P == Sums(Batch)
<1> DEFINE ser == SerialTable(Batch, ScanSegments)
<1>1. Batch \in Batches /\ ScanSegments \in Nat
  BY ThreadsAre DEF ScanInv, ScanTypeOK
<1>2. \A i \in Threads : Emitting(i)
  BY ThreadsAre DEF ScanInv, Scanning, Phases, Finished, Contributing, Fetching, Adding
<1>3. /\ \A i \in Threads : Written(i)
      /\ scan_num_segments = P[ScanSegments]
  BY <1>2, ThreadsAre DEF Finished, Emitting
<1>4. PICK n \in 0 .. ScanSegments : IsBatch(Batch, n)
  BY <1>1, LaunchIs
<1>5. /\ IsSums(P, Batch, ScanSegments)
      /\ \A i \in 0 .. ScanSegments : P[i] \in 0 .. ScanSegments
  BY <1>1, SumsAre
<1>6. /\ ser \in Seq(Segs(Batch)) /\ Len(ser) = P[ScanSegments] /\ P[ScanSegments] \in Nat
      /\ Tabulates(ser, P, Batch, ScanSegments)
  BY <1>1, <1>4, <1>5, SerialTabulatesPadded
<1>7. Tabulates(ScanTable, P, Batch, ScanSegments)
  <2> SUFFICES ASSUME NEW i \in 0 .. ScanSegments - 1, NEW s \in 0 .. Contribution(Batch, i) - 1
               PROVE  ScanTable[P[i] + s + 1] = Segment(Batch, i, s)
    BY DEF Tabulates
  <2>1. i \in Threads
    BY DEF Threads
  <2>2. PICK r \in Threads : r = P[i] + s /\ r < P[i + 1]
    BY <1>1, <2>1, RowsOfThread
  <2>3. P[i + 1] <= P[ScanSegments]
    <3>1. i + 1 \in 0 .. ScanSegments /\ ScanSegments \in i + 1 .. ScanSegments
      BY <1>1
    <3> QED
      BY <1>4, <1>5, <3>1, SumsGrow
  <2>4. i + 1 \in 0 .. ScanSegments
    BY <1>1
  <2>5. PICK a \in Nat, b \in Nat : a = P[i + 1] /\ b = P[ScanSegments]
    BY <1>1, <1>5, <2>4
  <2>6. r + 1 \in 1 .. scan_num_segments
    BY <1>1, <1>3, <2>2, <2>3, <2>5 DEF Threads
  <2>7. ScanTable[r + 1] = scan_segments[r]
    BY <1>1, <2>2, <2>6 DEF ScanTable, Threads
  <2>8. scan_segments[P[i] + s] = Segment(Batch, i, s)
    BY <1>3, <2>1 DEF Written
  <2> QED
    BY <2>2, <2>7, <2>8
<1>8. \A k \in 1 .. P[ScanSegments] : ScanTable[k] = ser[k]
  BY <1>4, <1>5, <1>6, <1>7, TabulatesOnce
<1>9. ScanTable = [k \in 1 .. P[ScanSegments] |-> ScanTable[k]]
  BY <1>3 DEF ScanTable
<1>10. ser = [k \in 1 .. P[ScanSegments] |-> ser[k]]
  BY <1>6
<1> QED
  BY <1>8, <1>9, <1>10

(* So it serves the batch. *)
LEMMA FinishedServes ==
  ASSUME ScanInv, Finished
  PROVE  ServesBatch(ScanTable, token_lora_indices)
<1>1. token_lora_indices \in Batches
  BY DEF ScanInv, ScanTypeOK
<1>2. PICK n \in 0 .. ScanSegments : IsBatch(token_lora_indices, n)
  BY <1>1, LaunchIs
<1>3. n <= ScanSegments /\ ScanSegments \in Nat
  BY ThreadsAre
<1> QED
  BY <1>2, <1>3, FinishedTable, SerialServes

-----------------------------------------------------------------------------
(***************************************************************************)
(* Theorems of KernelMetadata.  Each writer leaves the others' state alone *)
(* but for the id map, which it only adds to.                              *)
(***************************************************************************)

KernelInv == ScanInv /\ TableInv /\ RowsRight /\ BridgeInv

LEMMA KernelInvStarts == ASSUME Init PROVE KernelInv
<1>1. ScanInv /\ TableInv /\ BridgeInv
  BY InitScans, TableStarts, BridgeStarts DEF Init
<1>2. RowsRight
  BY DEF Init, TableInit, RowsRight
<1> QED
  BY <1>1, <1>2 DEF KernelInv

(* What the table's actions do to the id map. *)
LEMMA TableAsks ==
  ASSUME TableNext
  PROVE  \/ UNCHANGED idVars
         \/ \E n \in Nat : \E names \in [1 .. n -> Names] : GetOrAssignAll(names)
<1>1. ASSUME NEW name \in Names, Register(name)
      PROVE  \E n \in Nat : \E names \in [1 .. n -> Names] : GetOrAssignAll(names)
  <2>1. <<name>> \in [1 .. 1 -> Names]
    OBVIOUS
  <2>2. GetOrAssignAll(<<name>>)
    BY <1>1 DEF Register, GetOrAssign
  <2> QED
    BY <2>1, <2>2
<1>2. ASSUME NEW name \in Names, Evict(name) PROVE UNCHANGED idVars
  BY <1>2 DEF Evict, idVars
<1>3. ASSUME NEW b \in ScheduledBatches, Build(b)
      PROVE  \E n \in Nat : \E names \in [1 .. n -> Names] : GetOrAssignAll(names)
  <2>1. PICK k \in Nat : b \in [1 .. k -> [adapter_id : Names, segment_size : 1 .. MaxRun]]
    BY BatchIs
  <2>2. NamesOf(b) \in [1 .. k -> Names]
    BY <2>1 DEF NamesOf
  <2>3. GetOrAssignAll(NamesOf(b))
    BY <1>3 DEF Build
  <2> QED
    BY <2>2, <2>3
<1>4. ASSUME NEW names \in [1 .. MaxSegments + 1 -> Names], BuildTooLong(names)
      PROVE  \E n \in Nat : \E x \in [1 .. n -> Names] : GetOrAssignAll(x)
  <2>1. MaxSegments + 1 \in Nat
    BY SegmentsAssumption
  <2>2. GetOrAssignAll(names)
    BY <1>4 DEF BuildTooLong
  <2> QED
    BY <2>1, <2>2
<1> QED
  BY <1>1, <1>2, <1>3, <1>4 DEF TableNext

(* What the bridge's actions do to it. *)
LEMMA BridgeAsks ==
  ASSUME BridgeNext
  PROVE  \/ UNCHANGED idVars
         \/ \E n \in Nat : \E names \in [1 .. n -> Names] : GetOrAssignAll(names)
<1>1. ASSUME NEW names \in NameSeqs, AssignIds(names)
      PROVE  \E n \in Nat : \E x \in [1 .. n -> Names] : GetOrAssignAll(x)
  <2>1. PICK n \in 1 .. MaxAsked : names \in [1 .. n -> Names]
    BY DEF NameSeqs
  <2>2. n \in Nat /\ GetOrAssignAll(names)
    BY <1>1, <2>1, BridgeAssumption DEF AssignIds
  <2> QED
    BY <2>1, <2>2
<1>2. CASE EmptyTick
  BY <1>2 DEF EmptyTick
<1>3. CASE \E args \in CallArguments : \E read \in TickReadings(args) :
             Tick(args, read) \/ RefusedTick(read)
  BY <1>3 DEF Tick, RefusedTick
<1> QED
  BY <1>1, <1>2, <1>3 DEF BridgeNext

LEMMA UntouchedScan == ASSUME ScanInv, UNCHANGED scanVars PROVE ScanInv'
BY NextScans

LEMMA UntouchedTable ==
  ASSUME TableInv, RowsRight, UNCHANGED <<idVars, hostVars>> PROVE TableInv' /\ RowsRight'
<1>1. UNCHANGED tableVars
  BY DEF idVars, hostVars, tableVars
<1> QED
  BY <1>1, TableInvInductive, RowsRightInductive

LEMMA UntouchedPage ==
  ASSUME BridgeInv, UNCHANGED <<idVars, tickVars>> PROVE BridgeInv'
<1>1. UNCHANGED bridgeVars
  BY DEF bridgeVars
<1> QED
  BY <1>1, BridgeInvInductive

LEMMA KernelInvInductive == ASSUME KernelInv, [Next]_vars PROVE KernelInv'
<1>1. ScanInv /\ TableInv /\ RowsRight /\ BridgeInv
  BY DEF KernelInv
<1>2. ScanInv'
  <2>1. [ScanNext]_scanVars
    BY DEF Next, vars
  <2> QED
    BY <1>1, <2>1, NextScans
<1>3. CASE UNCHANGED <<idVars, hostVars, tickVars>>
  BY <1>1, <1>2, <1>3, UntouchedTable, UntouchedPage DEF KernelInv
<1>4. CASE TableNext /\ UNCHANGED tickVars
  <2>1. TableInv' /\ RowsRight'
    BY <1>1, <1>4, TableInvInductive, RowsRightInductive
  <2>2. BridgeInv'
    BY <1>1, <1>4, TableAsks, UntouchedPage, AskingKeepsPage
  <2> QED
    BY <1>2, <2>1, <2>2 DEF KernelInv
<1>5. CASE BridgeNext /\ UNCHANGED hostVars
  <2>1. BridgeInv'
    BY <1>1, <1>5, BridgeInvInductive
  <2>2. TableInv' /\ RowsRight'
    <3>1. CASE UNCHANGED idVars
      BY <1>1, <1>5, <3>1, UntouchedTable
    <3>2. ASSUME NEW n \in Nat, NEW names \in [1 .. n -> Names], GetOrAssignAll(names)
          PROVE  TableInv' /\ RowsRight'
      <4>1. UNCHANGED <<segments, num_segments, pointers, asked>> /\ table_fresh' = table_fresh
        BY <1>5 DEF hostVars
      <4> QED
        BY <1>1, <1>5, <3>2, <4>1, AskingKeepsTable, AskingKeepsRows
    <3> QED
      BY <1>5, <3>1, <3>2, BridgeAsks
  <2> QED
    BY <1>2, <2>1, <2>2 DEF KernelInv
<1> QED
  BY <1>3, <1>4, <1>5 DEF Next, vars

(* Every variable of the three writers keeps its type, for any adapters,      *)
(* table sizes, readings and run lengths: there are never more ids than       *)
(* names, and the page never has more rows than were allocated, since         *)
(* write_bridge refuses.                                                      *)
THEOREM MetadataTyped == Spec => []TypeOK
<1>1. KernelInv => TypeOK
  BY DEF KernelInv, ScanInv, TableInv, BridgeInv, TypeOK
<1>2. KernelInv /\ [Next]_vars => KernelInv'
  BY KernelInvInductive
<1>3. Init => KernelInv
  BY KernelInvStarts
<1> QED
  BY <1>1, <1>2, <1>3, PTL DEF Spec

(* The in-place scan over shared memory writes the table a single thread      *)
(* would have written, for any number of threads and any interleaving between *)
(* the barriers (build_seg_bounds_kernel against build_segments_kernel).      *)
THEOREM ScanIsSerial == Spec => []SameTableAsSerial
<1>1. KernelInv => SameTableAsSerial
  BY FinishedTable DEF KernelInv, SameTableAsSerial
<1>2. KernelInv /\ [Next]_vars => KernelInv'
  BY KernelInvInductive
<1>3. Init => KernelInv
  BY KernelInvStarts
<1> QED
  BY <1>1, <1>2, <1>3, PTL DEF Spec

(* The table the device writes serves each row of its batch once, with its    *)
(* own adapter, and no other row, for batches of any length and any cutting   *)
(* of runs into segments.                                                     *)
THEOREM ScanServes == Spec => []TableServesBatch
<1>1. KernelInv => TableServesBatch
  BY FinishedServes DEF KernelInv, TableServesBatch
<1>2. KernelInv /\ [Next]_vars => KernelInv'
  BY KernelInvInductive
<1>3. Init => KernelInv
  BY KernelInvStarts
<1> QED
  BY <1>1, <1>2, <1>3, PTL DEF Spec

(* The two id spaces never drift apart (scheduler_bridge.py): an id names one *)
(* adapter for ever, and the weights under it were registered for that one.   *)
THEOREM IdsSafe == Spec => []IdsNameAdapters
<1>1. KernelInv => IdsNameAdapters
  BY DEF KernelInv, TableInv, StoreFollowsIds, IdMapInv, IdsNameAdapters
<1>2. KernelInv /\ [Next]_vars => KernelInv'
  BY KernelInvInductive
<1>3. Init => KernelInv
  BY KernelInvStarts
<1> QED
  BY <1>1, <1>2, <1>3, PTL DEF Spec

(* A table the caller has not invalidated sends every row of its batch to its *)
(* own adapter's weights, whatever was registered, evicted, refused or half   *)
(* built before (segments_to_warp_pipe, build_segment_table): for batches of  *)
(* any length, provided no run is longer than the launch grid reaches, which  *)
(* build_segment_table does not check.                                        *)
THEOREM RegisteredRowsSafe ==
  ASSUME MaxRun <= MaxSegmentTokens
  PROVE  Spec => []RegisteredRowsGetTheirAdapter
<1>1. KernelInv => RegisteredRowsGetTheirAdapter
  BY RowsServe DEF KernelInv
<1>2. KernelInv /\ [Next]_vars => KernelInv'
  BY KernelInvInductive
<1>3. Init => KernelInv
  BY KernelInvStarts
<1> QED
  BY <1>1, <1>2, <1>3, PTL DEF Spec

(* Whatever ticks were refused and in whatever order the adapters came, each  *)
(* row of the page speaks of its own adapter and of one tick (write_bridge).  *)
THEOREM PageRowsSafe == Spec => []PageRowsAreOfOneTick
<1>1. KernelInv => PageRowsAreOfOneTick
  BY PageRowsHold DEF KernelInv
<1>2. KernelInv /\ [Next]_vars => KernelInv'
  BY KernelInvInductive
<1>3. Init => KernelInv
  BY KernelInvStarts
<1> QED
  BY <1>1, <1>2, <1>3, PTL DEF Spec

(* While there is a row for every adapter no tick is lost (SchedulerBridge).  *)
THEOREM PageFresh == Spec => []PageIsOfLastTick
<1>1. KernelInv => PageIsOfLastTick
  BY DEF KernelInv, BridgeInv, NoTickRefused, PageIsOfLastTick
<1>2. KernelInv /\ [Next]_vars => KernelInv'
  BY KernelInvInductive
<1>3. Init => KernelInv
  BY KernelInvStarts
<1> QED
  BY <1>1, <1>2, <1>3, PTL DEF Spec

(* A page never shows an adapter hotter than its highest reading or colder    *)
(* than its lowest: for any readings and any number of ticks, with readings   *)
(* and without (GwarHistory, write).                                          *)
THEOREM TileSafe == Spec => []TileIsWarranted
<1>1. KernelInv => TileIsWarranted
  BY TileHolds DEF KernelInv
<1>2. KernelInv /\ [Next]_vars => KernelInv'
  BY KernelInvInductive
<1>3. Init => KernelInv
  BY KernelInvStarts
<1> QED
  BY <1>1, <1>2, <1>3, PTL DEF Spec
=============================================================================
