----------------------- MODULE WarpPipeExtensionProofs -----------------------
(* Theorems about WarpPipeExtension, for every number of adapters, addresses,
   slots and segments and every bound. *)
EXTENDS WarpPipeExtension, FiniteSets, FiniteSetTheorems, SequenceTheorems,
        WellFoundedInduction, TLAPS

(***************************************************************************)
(* The pool's loops find a slot when there is one.  A non-empty set of     *)
(* naturals has a least element: a minimal set of the form {y : y <= x}.   *)
(***************************************************************************)
LEMMA LeastNumber ==
  ASSUME NEW T \in SUBSET Nat, T # {}
  PROVE  \E x \in T : \A y \in T : x <= y
PROOF
  <1> DEFINE Below(x) == {y \in T : y <= x}
  <1> DEFINE F == {Below(x) : x \in T}
  <1>1. \A x \in T : x \in Nat
    OBVIOUS
  <1>2. \A x \in T : Below(x) \in FiniteSubsetsOf(Nat)
    <2> TAKE x \in T
    <2>1. Below(x) \in SUBSET Nat /\ x \in Nat /\ \A s \in Below(x) : s <= x
      BY <1>1
    <2>2. IsFiniteSet(Below(x))
      BY <2>1, FS_BoundedSetOfNaturals
    <2> QED
      BY <2>1, <2>2 DEF FiniteSubsetsOf
  <1>3. F \subseteq FiniteSubsetsOf(Nat) /\ F # {}
    BY <1>2
  <1>4. PICK S \in F : \A U \in F : <<U, S>> \notin StrictSubsetOrdering(Nat)
    <2> HIDE DEF F
    <2>1. IsWellFoundedOn(StrictSubsetOrdering(Nat), FiniteSubsetsOf(Nat))
      BY FS_StrictSubsetOrderingWellFounded
    <2> QED
      BY <2>1, <1>3, WFMin
  <1>5. PICK x \in T : S = Below(x)
    BY <1>4
  <1>6. ASSUME NEW y \in T, ~(x <= y)
        PROVE  FALSE
    <2>1. x \in Nat /\ y \in Nat /\ y < x
      BY <1>1, <1>6
    <2>2. \A z \in T : z <= y => z <= x
      BY <1>1, <2>1
    <2>3. (\A z \in Below(y) : z \in Below(x)) /\ x \in Below(x)
      BY <2>1, <2>2
    <2>4. x \notin Below(y)
      BY <2>1
    <2>5. Below(y) \in F
      OBVIOUS
    <2>6. <<Below(y), Below(x)>> \in StrictSubsetOrdering(Nat)
      <3>1. Below(y) \in FiniteSubsetsOf(Nat) /\ Below(x) \in FiniteSubsetsOf(Nat)
        BY <1>2
      <3> HIDE DEF Below
      <3> QED
        BY <2>3, <2>4, <3>1 DEF StrictSubsetOrdering, FiniteSubsetsOf
    <2> QED
      BY <1>4, <1>5, <2>5, <2>6
  <1> QED
    BY <1>6

LEMMA FirstSlotIsFirst ==
  ASSUME NEW S \in SUBSET Slots, S # {}
  PROVE  FirstSlot(S) \in S
PROOF
  <1>1. S \in SUBSET Nat
    BY ExtensionAssumption DEF Slots
  <1>2. \E s \in S : \A t \in S : s <= t
    BY <1>1, LeastNumber
  <1> QED
    BY <1>2 DEF FirstSlot

LEMMA SlotForType ==
  ASSUME NEW a
  PROVE  /\ SlotFor(a) # NoSlot => SlotFor(a) \in Slots
         /\ SlotFor(a) # NoSlot => slot_adapter_id[SlotFor(a)] \in {a, NoAdapter}
         /\ OwnedBy(a) # {} => SlotFor(a) \in OwnedBy(a)
PROOF
  <1>1. \A b : OwnedBy(b) \in SUBSET Slots
    BY DEF OwnedBy
  <1>2. \A b : OwnedBy(b) # {} => FirstSlot(OwnedBy(b)) \in OwnedBy(b)
    BY <1>1, FirstSlotIsFirst
  <1> QED
    BY <1>1, <1>2 DEF SlotFor, FindSlotForAdapter, OwnedBy

LEMMA FindSlotType ==
  ASSUME NEW a
  PROVE  /\ FindSlotForAdapter(a) \in OwnedBy(a) \cup {NoSlot}
         /\ OwnedBy(a) # {} => FindSlotForAdapter(a) \in OwnedBy(a)
PROOF
  <1>1. OwnedBy(a) \in SUBSET Slots
    BY DEF OwnedBy
  <1> QED
    BY <1>1, FirstSlotIsFirst DEF FindSlotForAdapter

-----------------------------------------------------------------------------
(* Type correctness, for any caller. *)

LEMMA InitType == Init => TypeOK
PROOF
  <1> SUFFICES ASSUME Init PROVE TypeOK
    OBVIOUS
  <1>1. 0 \in Versions /\ 0 \in 0 .. MaxSegments
    BY ExtensionAssumption DEF Versions
  <1>2. segments \in [1 .. MaxSegments -> Segments] /\ num_segments \in 0 .. MaxSegments
    BY <1>1 DEF Init, Segments, NullSegment
  <1>3. /\ prefetch_stream \in Seq(Requests)
        /\ main_stream \in Seq(Ops)
        /\ batch \in Seq(Wanted)
    <2>1. prefetch_stream = << >> /\ main_stream = << >> /\ batch = << >>
      BY DEF Init, PoolInit
    <2> QED
      BY <2>1, EmptySeq
  <1>4. /\ entries \in [Adapters -> Addrs \cup {NoAddr}]
        /\ held_tensors \in [Adapters -> Addrs \cup {NoAddr}]
        /\ slot_adapter_id \in [Slots -> Adapters \cup {NoAdapter}]
        /\ copy_issued \in [Slots -> BOOLEAN]
        /\ table_fresh \in BOOLEAN
    BY DEF Init, StoreInit, PoolInit
  <1>5. /\ a_buf \in [Slots -> Versions]
        /\ b_buf \in [Slots -> Versions]
        /\ dev_mem \in [Addrs -> Versions]
        /\ next_version \in Versions
        /\ pair_in \in [Addrs -> Versions]
        /\ registered \in [Adapters -> Versions]
    BY <1>1 DEF Init
  <1> QED
    BY <1>2, <1>3, <1>4, <1>5 DEF TypeOK

(* A registration: the pair is a new one, in memory nothing holds, or a kept  *)
(* one; in both cases the id ends up with the pair its memory is due to hold. *)
LEMMA RegisterCases ==
  ASSUME TypeOK, NEW a \in Adapters, RegisterAdapter(a)
  PROVE  \E addr \in Addrs :
           /\ entries' = [entries EXCEPT ![a] = addr]
           /\ held_tensors' = [held_tensors EXCEPT ![a] = addr]
           /\ registered' = [registered EXCEPT ![a] = pair_in'[addr]]
           /\ pair_in' \in [Addrs -> Versions]
           /\ \/ /\ UNCHANGED <<next_version, pair_in, main_stream>>
              \/ /\ \A b \in Adapters : held_tensors[b] # addr
                 /\ next_version' = next_version + 1
                 /\ next_version' \in Versions
                 /\ pair_in' = [pair_in EXCEPT ![addr] = next_version']
                 /\ main_stream' = Append(main_stream,
                      [op |-> "write", addr |-> addr, version |-> next_version'])
PROOF
  <1>1. PICK addr \in Addrs :
          /\ CreatePair(addr) \/ KeptPair(addr)
          /\ StoreRegister(a, addr) /\ Hold(a, addr)
          /\ registered' = [registered EXCEPT ![a] = pair_in'[addr]]
    BY DEF RegisterAdapter
  <1>2. CASE KeptPair(addr)
    BY <1>1, <1>2 DEF KeptPair, StoreRegister, Hold, TypeOK
  <1>3. CASE CreatePair(addr)
    <2>1. next_version' = next_version + 1 /\ next_version' \in Versions
      BY <1>3, ExtensionAssumption DEF TypeOK, CreatePair, Versions
    <2>2. /\ pair_in' = [pair_in EXCEPT ![addr] = next_version']
          /\ pair_in' \in [Addrs -> Versions]
      BY <1>3, <2>1 DEF TypeOK, CreatePair
    <2>3. main_stream' = Append(main_stream,
            [op |-> "write", addr |-> addr, version |-> next_version'])
      BY <1>3, <2>1 DEF CreatePair
    <2>4. \A b \in Adapters : held_tensors[b] # addr
      BY <1>3 DEF CreatePair
    <2> QED
      BY <1>1, <2>1, <2>2, <2>3, <2>4 DEF StoreRegister, Hold
  <1> QED
    BY <1>1, <1>2, <1>3

LEMMA RegisterType ==
  ASSUME TypeOK, NEW a \in Adapters, RegisterAdapter(a)
  PROVE  TypeOK'
PROOF
  <1>1. PICK addr \in Addrs :
          /\ entries' = [entries EXCEPT ![a] = addr]
          /\ held_tensors' = [held_tensors EXCEPT ![a] = addr]
          /\ registered' = [registered EXCEPT ![a] = pair_in'[addr]]
          /\ pair_in' \in [Addrs -> Versions]
          /\ \/ UNCHANGED <<next_version, main_stream>>
             \/ /\ next_version' \in Versions
                /\ main_stream' = Append(main_stream,
                     [op |-> "write", addr |-> addr, version |-> next_version'])
    BY RegisterCases
  <1>2. next_version' \in Versions /\ main_stream' \in Seq(Ops)
    <2>1. CASE UNCHANGED <<next_version, main_stream>>
      BY <2>1 DEF TypeOK
    <2>2. CASE /\ next_version' \in Versions
               /\ main_stream' = Append(main_stream,
                    [op |-> "write", addr |-> addr, version |-> next_version'])
      <3>1. [op |-> "write", addr |-> addr, version |-> next_version'] \in Ops
        BY <2>2 DEF Ops
      <3> QED
        BY <2>2, <3>1, AppendProperties DEF TypeOK
    <2> QED
      BY <1>1, <2>1, <2>2
  <1>3. /\ entries' \in [Adapters -> Addrs \cup {NoAddr}]
        /\ held_tensors' \in [Adapters -> Addrs \cup {NoAddr}]
        /\ registered' \in [Adapters -> Versions]
    BY <1>1 DEF TypeOK
  <1> QED
    BY <1>1, <1>2, <1>3 DEF TypeOK, RegisterAdapter, poolVars, stagedVars, tableVars

LEMMA EvictType ==
  ASSUME TypeOK, NEW a \in Adapters, EvictAdapter(a)
  PROVE  TypeOK'
PROOF
  <1>1. 0 \in Versions
    BY ExtensionAssumption DEF Versions
  <1>2. /\ entries' \in [Adapters -> Addrs \cup {NoAddr}]
        /\ held_tensors' \in [Adapters -> Addrs \cup {NoAddr}]
        /\ registered' \in [Adapters -> Versions]
        /\ table_fresh' \in BOOLEAN
    BY <1>1 DEF TypeOK, EvictAdapter, StoreEvict
  <1> QED
    BY <1>2 DEF TypeOK, EvictAdapter, poolVars, stagedVars, tableVars

LEMMA PrefetchType ==
  ASSUME TypeOK, NEW a \in Adapters, PrefetchAdapter(a)
  PROVE  TypeOK'
PROOF
  <1>1. SlotFor(a) \in Slots
    BY SlotForType DEF PrefetchAdapter
  <1>2. entries[a] \in Addrs
    BY DEF PrefetchAdapter, Contains, TypeOK
  <1>3. [slot |-> SlotFor(a), src |-> Lookup(a), step |-> "copy_A"] \in Requests
    BY <1>1, <1>2 DEF Requests, Lookup
  <1>4. prefetch_stream' \in Seq(Requests)
    BY <1>3, AppendProperties DEF TypeOK, PrefetchAdapter, AcquireAndMark
  <1>5. /\ slot_adapter_id' \in [Slots -> Adapters \cup {NoAdapter}]
        /\ copy_issued' \in [Slots -> BOOLEAN]
    BY DEF TypeOK, PrefetchAdapter, AcquireAndMark
  <1> QED
    BY <1>4, <1>5 DEF TypeOK, PrefetchAdapter, stagedVars, tableVars, clientVars

LEMMA ReleaseType ==
  ASSUME TypeOK, NEW a \in Adapters, ReleasePrefetch(a)
  PROVE  TypeOK'
PROOF
  <1>1. /\ slot_adapter_id' \in [Slots -> Adapters \cup {NoAdapter}]
        /\ copy_issued' \in [Slots -> BOOLEAN]
        /\ table_fresh' \in BOOLEAN
    BY DEF TypeOK, ReleasePrefetch, ReleaseSlot
  <1> QED
    BY <1>1 DEF TypeOK, ReleasePrefetch, ReleaseSlot, stagedVars, tableVars

LEMMA BuildType ==
  ASSUME TypeOK, NEW ids \in Batches, BuildSegments(ids)
  PROVE  TypeOK'
PROOF
  <1> DEFINE unknown == {i \in DOMAIN ids : ~Contains(ids[i])}
             written == {i \in DOMAIN ids : \A j \in unknown : i < j}
  <1>1. PICK n \in 0 .. MaxSegments : ids \in [1 .. n -> Adapters]
    BY DEF Batches
  <1>2. n \in Nat /\ Len(ids) = n /\ DOMAIN ids = 1 .. n /\ \A i \in 1 .. n : ids[i] \in Adapters
    BY <1>1, ExtensionAssumption
  <1>3. \A i \in written : Describe(ids[i]) \in Segments
    <2> TAKE i \in written
    <2>1. ids[i] \in Adapters
      BY <1>2
    <2>2. FindSlotForAdapter(ids[i]) \in Slots \cup {NoSlot}
      BY FindSlotType DEF OwnedBy
    <2>3. IsReady(FindSlotForAdapter(ids[i])) \in BOOLEAN
      BY DEF IsReady, EventPending, TypeOK
    <2>4. entries[ids[i]] \in Addrs \cup {NoAddr}
      BY <2>1 DEF TypeOK
    <2> QED
      BY <2>1, <2>2, <2>3, <2>4 DEF Describe, Segments, Lookup
  <1>4. segments' \in [1 .. MaxSegments -> Segments]
    <2>1. segments' = [i \in 1 .. MaxSegments |->
                         IF i \in written THEN Describe(ids[i]) ELSE segments[i]]
      BY DEF BuildSegments
    <2> HIDE DEF written
    <2> QED
      BY <2>1, <1>3 DEF TypeOK
  <1>5. num_segments' \in 0 .. MaxSegments
    BY <1>2 DEF BuildSegments, TypeOK
  <1>6. batch' \in Seq(Wanted)
    <2>1. CASE unknown # {}
      BY <2>1 DEF BuildSegments, TypeOK
    <2>2. CASE unknown = {}
      <3> DEFINE rec(i) == [adapter_id |-> ids[i], version |-> registered[ids[i]]]
      <3>1. batch' = [i \in 1 .. n |-> rec(i)]
        BY <2>2, <1>2 DEF BuildSegments
      <3>2. \A i \in 1 .. n : rec(i) \in Wanted
        BY <1>2 DEF TypeOK, Wanted
      <3>3. [i \in 1 .. n |-> rec(i)] \in [1 .. n -> Wanted]
        BY <3>2
      <3> HIDE DEF rec
      <3> QED
        BY <3>1, <3>3, <1>2
    <2> QED
      BY <2>1, <2>2
  <1>7. table_fresh' \in BOOLEAN
    BY DEF BuildSegments
  <1> QED
    BY <1>4, <1>5, <1>6, <1>7 DEF TypeOK, BuildSegments, poolVars, stagedVars

LEMMA LaunchType ==
  ASSUME TypeOK, NEW kernel \in {"shrink", "expand"}, Launch(kernel)
  PROVE  TypeOK'
PROOF
  <1>1. [op |-> kernel, want |-> batch] \in Ops
    BY DEF TypeOK, Ops
  <1>2. main_stream' \in Seq(Ops)
    BY <1>1, AppendProperties DEF TypeOK, Launch
  <1> QED
    BY <1>2 DEF TypeOK, Launch, poolVars, stagedVars, tableVars, clientVars

LEMMA MainStreamType ==
  ASSUME TypeOK, MainStreamStep
  PROVE  TypeOK'
PROOF
  <1>1. main_stream \in Seq(Ops) /\ main_stream # << >>
    BY DEF TypeOK, MainStreamStep
  <1>2. Head(main_stream) \in Ops /\ Tail(main_stream) \in Seq(Ops)
    BY <1>1, HeadTailProperties
  <1>3. Head(main_stream).op = "write" => Head(main_stream).version \in Versions
    BY <1>2 DEF Ops
  <1>4. dev_mem' \in [Addrs -> Versions]
    BY <1>3 DEF TypeOK, MainStreamStep
  <1>5. main_stream' \in Seq(Ops)
    BY <1>2 DEF MainStreamStep
  <1> QED
    BY <1>4, <1>5 DEF TypeOK, MainStreamStep, poolVars, stagedVars, tableVars, clientVars

LEMMA PrefetchStreamType ==
  ASSUME TypeOK, PrefetchStreamStep
  PROVE  TypeOK'
PROOF
  <1> DEFINE r == Head(prefetch_stream)
  <1>1. prefetch_stream \in Seq(Requests) /\ prefetch_stream # << >>
    BY DEF TypeOK, PrefetchStreamStep
  <1>2. /\ r \in Requests /\ r = prefetch_stream[1]
        /\ 1 \in 1 .. Len(prefetch_stream)
        /\ Tail(prefetch_stream) \in Seq(Requests)
    BY <1>1, HeadTailProperties, EmptySeq
  <1>3. \A x \in {"copy_B", "event"} :
          [prefetch_stream EXCEPT ![1].step = x] \in Seq(Requests)
    <2> TAKE x \in {"copy_B", "event"}
    <2>1. [prefetch_stream[1] EXCEPT !.step = x] \in Requests
      BY <1>2 DEF Requests
    <2> QED
      BY <2>1, <1>1, <1>2, ExceptSeq
  <1>4. r.slot \in Slots /\ dev_mem[r.src] \in Versions
    BY <1>2 DEF Requests, TypeOK
  <1>5. prefetch_stream' \in Seq(Requests)
    BY <1>2, <1>3 DEF PrefetchStreamStep
  <1>6. a_buf' \in [Slots -> Versions] /\ b_buf' \in [Slots -> Versions]
    BY <1>4 DEF PrefetchStreamStep, TypeOK, stagedVars
  <1> QED
    BY <1>5, <1>6 DEF TypeOK, PrefetchStreamStep, tableVars, clientVars

(* Every variable keeps its type under every caller: descriptors name real    *)
(* slots, num_segments stays within the table, requests address real slots.   *)
THEOREM TypeCorrect == Spec => []TypeOK
PROOF
  <1>1. Init => TypeOK
    BY InitType
  <1>2. TypeOK /\ [Next]_vars => TypeOK'
    <2> SUFFICES ASSUME TypeOK, [Next]_vars
                 PROVE  TypeOK'
      OBVIOUS
    <2>1. CASE Next
      BY <2>1, RegisterType, EvictType, PrefetchType, ReleaseType, BuildType,
         LaunchType, MainStreamType, PrefetchStreamType DEF Next
    <2>2. CASE UNCHANGED vars
      BY <2>2 DEF TypeOK, vars, poolVars, stagedVars, tableVars, clientVars
    <2> QED
      BY <2>1, <2>2
  <1> QED
    BY <1>1, <1>2, PTL DEF Spec

-----------------------------------------------------------------------------
(***************************************************************************)
(* Staged weights, for a caller that releases an adapter's slot before it  *)
(* evicts or re-registers the adapter, and lets the weights be written     *)
(* before it prefetches them.  StagedWeightsAreCurrent alone is not        *)
(* inductive: it says nothing while a copy is under way.  The invariant    *)
(* adds what each allocation holds or is about to hold, and that what is   *)
(* registered is held (MemoryInv), what keeps the source of a copy good    *)
(* (SourceSettled), and what the last copy still in the stream is going to *)
(* leave in the slot (LastCopyIsCurrent).                                  *)
(***************************************************************************)
CarefulStaging == {"release_first", "settled_weights"} \subseteq ClientRules

WriteTo(addr, i) == main_stream[i].op = "write" /\ main_stream[i].addr = addr

(* Every allocation holds the pair last created in it, or its last write in   *)
(* the stream is about to bring it.                                           *)
PairsLand ==
  \A d \in Addrs :
    /\ Settled(d) => dev_mem[d] = pair_in[d]
    /\ \A i \in DOMAIN main_stream :
         /\ WriteTo(d, i)
         /\ \A j \in DOMAIN main_stream : WriteTo(d, j) => j <= i
         => main_stream[i].version = pair_in[d]

(* What is stored is held, and what is held is the pair registered.           *)
StoreIsHeld ==
  \A a \in Adapters :
    /\ entries[a] = held_tensors[a]
    /\ Contains(a) => registered[a] = pair_in[entries[a]]

MemoryInv == PairsLand /\ StoreIsHeld

OnlyHeadInProgress ==
  \A i \in DOMAIN prefetch_stream : i > 1 => prefetch_stream[i].step = "copy_A"

SourceSettled ==
  \A s \in Slots, a \in Adapters :
    slot_adapter_id[s] = a => Contains(a) /\ Settled(Lookup(a))

LastCopyIsCurrent ==
  \A s \in Slots, a \in Adapters : slot_adapter_id[s] = a =>
    /\ ~EventPending(s) => a_buf[s] = registered[a] /\ b_buf[s] = registered[a]
    /\ \A i \in DOMAIN prefetch_stream :
         /\ prefetch_stream[i].slot = s
         /\ \A j \in DOMAIN prefetch_stream : prefetch_stream[j].slot = s => j <= i
         => /\ prefetch_stream[i].src = Lookup(a)
            /\ prefetch_stream[i].step # "copy_A" => a_buf[s] = registered[a]
            /\ prefetch_stream[i].step = "event" => b_buf[s] = registered[a]

StagingInv ==
  /\ MemoryInv
  /\ OnlyHeadInProgress
  /\ SourceSettled
  /\ LastCopyIsCurrent

LEMMA InitMemory == Init => MemoryInv
PROOF
  BY DEF Init, StoreInit, MemoryInv, PairsLand, StoreIsHeld, Contains

LEMMA InitStaging == Init => StagingInv
PROOF
  <1> SUFFICES ASSUME Init PROVE StagingInv
    OBVIOUS
  <1>1. MemoryInv
    BY InitMemory
  <1>2. OnlyHeadInProgress
    BY DEF Init, PoolInit, OnlyHeadInProgress
  <1>3. \A s \in Slots, a \in Adapters : slot_adapter_id[s] # a
    BY ExtensionAssumption DEF Init, PoolInit
  <1> QED
    BY <1>1, <1>2, <1>3 DEF StagingInv, SourceSettled, LastCopyIsCurrent

(* What a step that leaves the pool, its buffers and its stream alone owes
   the staging part of the invariant. *)
LEMMA PoolUntouched ==
  ASSUME StagingInv, UNCHANGED <<poolVars, stagedVars>>,
         \A s \in Slots, a \in Adapters : slot_adapter_id[s] = a =>
            entries'[a] = entries[a] /\ registered'[a] = registered[a]
  PROVE  OnlyHeadInProgress' /\ LastCopyIsCurrent'
PROOF
  <1>1. OnlyHeadInProgress'
    BY DEF StagingInv, OnlyHeadInProgress, poolVars
  <1>2. LastCopyIsCurrent'
    BY DEF StagingInv, LastCopyIsCurrent, poolVars, stagedVars, EventPending, Lookup
  <1> QED
    BY <1>1, <1>2

(* The memory part of the invariant asks nothing of the caller. *)
LEMMA MemoryUntouched ==
  ASSUME UNCHANGED <<entries, held_tensors, dev_mem, main_stream, pair_in, registered>>
  PROVE  /\ MemoryInv => MemoryInv'
         /\ \A a : (Contains(a)' <=> Contains(a)) /\ (Settled(Lookup(a))' <=> Settled(Lookup(a)))
PROOF
  <1>1. PairsLand => PairsLand'
    BY DEF PairsLand, Settled, WriteTo
  <1>2. StoreIsHeld => StoreIsHeld'
    BY DEF StoreIsHeld, Contains
  <1> QED
    BY <1>1, <1>2 DEF MemoryInv, Contains, Lookup, Settled

LEMMA RegisteredInMemory ==
  ASSUME TypeOK, MemoryInv, NEW a \in Adapters, Contains(a), Settled(Lookup(a))
  PROVE  dev_mem[entries[a]] = registered[a]
PROOF
  <1>1. entries[a] \in Addrs
    BY DEF TypeOK, Contains
  <1> QED
    BY <1>1 DEF MemoryInv, PairsLand, StoreIsHeld, Lookup

(* A new pair: no id holds its memory, so no other id's weights are touched.  *)
LEMMA CreatedMemory ==
  ASSUME TypeOK, MemoryInv, NEW a \in Adapters, NEW addr \in Addrs,
         \A b \in Adapters : held_tensors[b] # addr,
         entries' = [entries EXCEPT ![a] = addr],
         held_tensors' = [held_tensors EXCEPT ![a] = addr],
         registered' = [registered EXCEPT ![a] = pair_in'[addr]],
         pair_in' = [pair_in EXCEPT ![addr] = next_version'],
         main_stream' = Append(main_stream,
            [op |-> "write", addr |-> addr, version |-> next_version']),
         dev_mem' = dev_mem
  PROVE  /\ MemoryInv'
         /\ \A d \in Addrs \ {addr} : Settled(d)' <=> Settled(d)
PROOF
  <1>1. PICK w : w = [op |-> "write", addr |-> addr, version |-> next_version']
    OBVIOUS
  <1>2. w.op = "write" /\ w.addr = addr /\ w.version = next_version'
    BY <1>1
  <1>3. PICK n \in Nat :
          /\ DOMAIN main_stream' = 1 .. n + 1
          /\ DOMAIN main_stream = 1 .. n
          /\ \A i \in 1 .. n : main_stream'[i] = main_stream[i]
          /\ main_stream'[n + 1] = w
    <2>1. /\ DOMAIN main_stream' = 1 .. Len(main_stream) + 1
          /\ DOMAIN main_stream = 1 .. Len(main_stream)
          /\ Len(main_stream) \in Nat
          /\ \A i \in 1 .. Len(main_stream) : main_stream'[i] = main_stream[i]
          /\ main_stream'[Len(main_stream) + 1] = w
      BY <1>1 DEF TypeOK
    <2> QED
      BY <2>1
  <1>4. \A d : \A i \in 1 .. n : WriteTo(d, i)' <=> WriteTo(d, i)
    BY <1>3 DEF WriteTo
  <1>5. \A d : WriteTo(d, n + 1)' <=> d = addr
    BY <1>2, <1>3 DEF WriteTo
  <1>6. \A d \in Addrs \ {addr} : Settled(d)' <=> Settled(d)
    BY <1>3, <1>4, <1>5 DEF Settled, WriteTo
  <1>7. PairsLand'
    <2> SUFFICES ASSUME NEW d \in Addrs
                 PROVE  /\ Settled(d)' => dev_mem'[d] = pair_in'[d]
                        /\ \A i \in 1 .. n + 1 :
                             /\ WriteTo(d, i)'
                             /\ \A j \in 1 .. n + 1 : WriteTo(d, j)' => j <= i
                             => main_stream'[i].version = pair_in'[d]
      BY <1>3 DEF PairsLand
    <2>1. CASE d = addr
      <3>1. ~Settled(d)'
        BY <1>3, <1>5, <2>1 DEF Settled, WriteTo
      <3>2. main_stream'[n + 1].version = pair_in'[d]
        BY <1>2, <1>3, <2>1 DEF TypeOK
      <3>3. ASSUME NEW i \in 1 .. n + 1, \A j \in 1 .. n + 1 : WriteTo(d, j)' => j <= i
            PROVE  i = n + 1
        <4>1. n + 1 \in 1 .. n + 1
          OBVIOUS
        <4>2. main_stream'[n + 1].op = "write" /\ main_stream'[n + 1].addr = d
          BY <1>2, <1>3, <2>1
        <4>3. n + 1 <= i
          BY <3>3, <4>1, <4>2 DEF WriteTo
        <4> QED
          BY <4>3
      <3> QED
        BY <3>1, <3>2, <3>3
    <2>2. CASE d # addr
      <3>1. pair_in'[d] = pair_in[d] /\ dev_mem'[d] = dev_mem[d]
        BY <2>2 DEF TypeOK
      <3>2. Settled(d)' => dev_mem'[d] = pair_in'[d]
        BY <1>6, <2>2, <3>1 DEF MemoryInv, PairsLand
      <3>3. ASSUME NEW i \in 1 .. n + 1, WriteTo(d, i)',
                   \A j \in 1 .. n + 1 : WriteTo(d, j)' => j <= i
            PROVE  main_stream'[i].version = pair_in'[d]
        <4>1. i \in 1 .. n /\ WriteTo(d, i)
          BY <1>2, <1>3, <2>2, <3>3 DEF WriteTo
        <4>2. \A j \in 1 .. n : WriteTo(d, j) => j <= i
          BY <1>4, <3>3
        <4>3. main_stream[i].version = pair_in[d]
          BY <1>3, <4>1, <4>2 DEF MemoryInv, PairsLand
        <4> QED
          BY <1>3, <3>1, <4>1, <4>3
      <3> QED
        BY <3>2, <3>3
    <2> QED
      BY <2>1, <2>2
  <1>8. StoreIsHeld'
    <2> SUFFICES ASSUME NEW b \in Adapters
                 PROVE  /\ entries'[b] = held_tensors'[b]
                        /\ Contains(b)' => registered'[b] = pair_in'[entries'[b]]
      BY DEF StoreIsHeld
    <2>1. CASE b = a
      BY <2>1 DEF TypeOK
    <2>2. CASE b # a
      <3>1. /\ entries'[b] = entries[b] /\ held_tensors'[b] = held_tensors[b]
            /\ registered'[b] = registered[b]
        BY <2>2 DEF TypeOK
      <3>2. entries[b] # addr /\ entries[b] = held_tensors[b]
        BY DEF MemoryInv, StoreIsHeld
      <3>3. Contains(b) => entries[b] \in Addrs /\ registered[b] = pair_in[entries[b]]
        BY DEF Contains, MemoryInv, StoreIsHeld, TypeOK
      <3>4. Contains(b) => pair_in'[entries[b]] = pair_in[entries[b]]
        BY <3>2, <3>3 DEF TypeOK
      <3> QED
        BY <3>1, <3>2, <3>3, <3>4 DEF Contains
    <2> QED
      BY <2>1, <2>2
  <1> QED
    BY <1>6, <1>7, <1>8 DEF MemoryInv

(* A kept pair changes no memory: the id joins those that share it.           *)
LEMMA RegisterMemory ==
  ASSUME TypeOK, MemoryInv, NEW a \in Adapters, RegisterAdapter(a)
  PROVE  /\ MemoryInv'
         /\ \A b \in Adapters \ {a} : entries'[b] = entries[b] /\ registered'[b] = registered[b]
         /\ \A b \in Adapters \ {a} :
              Contains(b) => (Settled(Lookup(b))' <=> Settled(Lookup(b)))
PROOF
  <1>1. PICK addr \in Addrs :
          /\ entries' = [entries EXCEPT ![a] = addr]
          /\ held_tensors' = [held_tensors EXCEPT ![a] = addr]
          /\ registered' = [registered EXCEPT ![a] = pair_in'[addr]]
          /\ \/ UNCHANGED <<pair_in, main_stream>>
             \/ /\ \A b \in Adapters : held_tensors[b] # addr
                /\ pair_in' = [pair_in EXCEPT ![addr] = next_version']
                /\ main_stream' = Append(main_stream,
                     [op |-> "write", addr |-> addr, version |-> next_version'])
    BY RegisterCases
  <1>2. dev_mem' = dev_mem
    BY DEF RegisterAdapter
  <1>3. \A b \in Adapters \ {a} : /\ entries'[b] = entries[b]
                                  /\ registered'[b] = registered[b]
    BY <1>1 DEF TypeOK
  <1>4. CASE UNCHANGED <<pair_in, main_stream>>
    <2>1. PairsLand'
      BY <1>2, <1>4 DEF MemoryInv, PairsLand, Settled, WriteTo
    <2>2. StoreIsHeld'
      BY <1>1, <1>4 DEF MemoryInv, StoreIsHeld, Contains, TypeOK
    <2>3. \A d : Settled(d)' <=> Settled(d)
      BY <1>4 DEF Settled
    <2> QED
      BY <1>3, <2>1, <2>2, <2>3 DEF MemoryInv, Lookup, Settled
  <1>5. CASE /\ \A b \in Adapters : held_tensors[b] # addr
             /\ pair_in' = [pair_in EXCEPT ![addr] = next_version']
             /\ main_stream' = Append(main_stream,
                  [op |-> "write", addr |-> addr, version |-> next_version'])
    <2>1. /\ MemoryInv'
          /\ \A d \in Addrs \ {addr} : Settled(d)' <=> Settled(d)
      BY <1>1, <1>2, <1>5, CreatedMemory
    <2>2. ASSUME NEW b \in Adapters \ {a}, Contains(b)
          PROVE  Settled(Lookup(b))' <=> Settled(Lookup(b))
      <3>1. PICK d \in Addrs \ {addr} : d = entries[b] /\ d = entries'[b]
        BY <1>3, <1>5, <2>2 DEF Contains, MemoryInv, StoreIsHeld, TypeOK
      <3> QED
        BY <2>1, <3>1 DEF Lookup, Settled
    <2> QED
      BY <1>3, <2>1, <2>2
  <1> QED
    BY <1>1, <1>4, <1>5

LEMMA EvictMemory ==
  ASSUME TypeOK, MemoryInv, NEW a \in Adapters, EvictAdapter(a)
  PROVE  MemoryInv'
PROOF
  <1>1. PairsLand'
    BY DEF EvictAdapter, MemoryInv, PairsLand, Settled, WriteTo
  <1>2. StoreIsHeld'
    BY DEF EvictAdapter, StoreEvict, MemoryInv, StoreIsHeld, Contains, TypeOK
  <1> QED
    BY <1>1, <1>2 DEF MemoryInv

LEMMA RegisterStaging ==
  ASSUME CarefulStaging, TypeOK, StagingInv, NEW a \in Adapters, RegisterAdapter(a)
  PROVE  StagingInv'
PROOF
  <1>1. \A s \in Slots : slot_adapter_id[s] # a
    BY DEF CarefulStaging, RegisterAdapter, Obeys, OwnedBy
  <1>2. MemoryInv
    BY DEF StagingInv
  <1>3. /\ MemoryInv'
        /\ \A b \in Adapters \ {a} : entries'[b] = entries[b] /\ registered'[b] = registered[b]
        /\ \A b \in Adapters \ {a} :
             Contains(b) => (Settled(Lookup(b))' <=> Settled(Lookup(b)))
    BY <1>2, RegisterMemory
  <1>4. UNCHANGED <<poolVars, stagedVars>>
    BY DEF RegisterAdapter
  <1>5. SourceSettled'
    BY <1>1, <1>3, <1>4 DEF StagingInv, SourceSettled, Contains, poolVars
  <1>6. OnlyHeadInProgress' /\ LastCopyIsCurrent'
    BY <1>1, <1>3, <1>4, PoolUntouched
  <1> QED
    BY <1>3, <1>5, <1>6 DEF StagingInv

LEMMA EvictStaging ==
  ASSUME CarefulStaging, TypeOK, StagingInv, NEW a \in Adapters, EvictAdapter(a)
  PROVE  StagingInv'
PROOF
  <1>1. \A s \in Slots : slot_adapter_id[s] # a
    BY DEF CarefulStaging, EvictAdapter, Obeys, OwnedBy
  <1>2. \A b \in Adapters \ {a} : entries'[b] = entries[b] /\ registered'[b] = registered[b]
    BY DEF TypeOK, EvictAdapter, StoreEvict
  <1>3. UNCHANGED <<poolVars, stagedVars>> /\ main_stream' = main_stream
    BY DEF EvictAdapter
  <1>4. MemoryInv'
    BY EvictMemory DEF StagingInv
  <1>5. SourceSettled'
    BY <1>1, <1>2, <1>3 DEF StagingInv, SourceSettled, Contains, Lookup, Settled, poolVars
  <1>6. OnlyHeadInProgress' /\ LastCopyIsCurrent'
    BY <1>1, <1>2, <1>3, PoolUntouched
  <1> QED
    BY <1>4, <1>5, <1>6 DEF StagingInv

LEMMA PrefetchStaging ==
  ASSUME CarefulStaging, TypeOK, StagingInv, NEW a \in Adapters, PrefetchAdapter(a)
  PROVE  StagingInv'
PROOF
  <1>1. PICK s \in Slots : s = SlotFor(a)
    BY SlotForType DEF PrefetchAdapter
  <1>2. slot_adapter_id[s] \in {a, NoAdapter}
    BY <1>1, SlotForType DEF PrefetchAdapter
  <1> DEFINE r == [slot |-> s, src |-> Lookup(a), step |-> "copy_A"]
  <1>3. PICK n \in Nat :
          /\ DOMAIN prefetch_stream' = 1 .. n + 1
          /\ DOMAIN prefetch_stream = 1 .. n
          /\ \A i \in 1 .. n : prefetch_stream'[i] = prefetch_stream[i]
          /\ prefetch_stream'[n + 1] = r
    <2>1. prefetch_stream' = Append(prefetch_stream, r)
      BY <1>1 DEF PrefetchAdapter, AcquireAndMark
    <2>2. /\ DOMAIN prefetch_stream' = 1 .. Len(prefetch_stream) + 1
          /\ DOMAIN prefetch_stream = 1 .. Len(prefetch_stream)
          /\ Len(prefetch_stream) \in Nat
          /\ \A i \in 1 .. Len(prefetch_stream) : prefetch_stream'[i] = prefetch_stream[i]
          /\ prefetch_stream'[Len(prefetch_stream) + 1] = r
      BY <2>1 DEF TypeOK
    <2> QED
      BY <2>2
  <1>4. UNCHANGED <<entries, held_tensors, dev_mem, main_stream, pair_in, registered, a_buf, b_buf>>
    BY DEF PrefetchAdapter, clientVars, stagedVars
  <1>5. Contains(a) /\ Settled(Lookup(a))
    BY DEF CarefulStaging, PrefetchAdapter, Obeys
  <1>6. /\ slot_adapter_id'[s] = a
        /\ \A t \in Slots \ {s} : slot_adapter_id'[t] = slot_adapter_id[t]
    BY <1>1 DEF TypeOK, PrefetchAdapter, AcquireAndMark
  <1>7. MemoryInv'
    BY <1>4, MemoryUntouched DEF StagingInv
  <1>8. OnlyHeadInProgress'
    BY <1>3 DEF StagingInv, OnlyHeadInProgress
  <1>9. SourceSettled'
    <2> SUFFICES ASSUME NEW t \in Slots, NEW b \in Adapters, slot_adapter_id'[t] = b
                 PROVE  Contains(b)' /\ Settled(Lookup(b))'
      BY DEF SourceSettled
    <2>1. Contains(b) /\ Settled(Lookup(b))
      BY <1>5, <1>6 DEF StagingInv, SourceSettled
    <2> QED
      BY <2>1, <1>4, MemoryUntouched
  <1>10. LastCopyIsCurrent'
    <2> SUFFICES ASSUME NEW t \in Slots, NEW b \in Adapters, slot_adapter_id'[t] = b
                 PROVE  /\ ~EventPending(t)' => a_buf[t] = registered[b] /\ b_buf[t] = registered[b]
                        /\ \A i \in DOMAIN prefetch_stream' :
                             /\ prefetch_stream'[i].slot = t
                             /\ \A j \in DOMAIN prefetch_stream' :
                                  prefetch_stream'[j].slot = t => j <= i
                             => /\ prefetch_stream'[i].src = entries[b]
                                /\ prefetch_stream'[i].step # "copy_A" => a_buf[t] = registered[b]
                                /\ prefetch_stream'[i].step = "event" => b_buf[t] = registered[b]
      BY <1>4 DEF LastCopyIsCurrent, Lookup
    <2>1. CASE t = s
      <3>1. b = a /\ prefetch_stream'[n + 1].slot = t
        BY <2>1, <1>3, <1>6
      <3>2. EventPending(t)'
        BY <3>1, <1>3 DEF EventPending
      <3>3. prefetch_stream'[n + 1].src = entries[b] /\ prefetch_stream'[n + 1].step = "copy_A"
        BY <3>1, <1>3 DEF Lookup
      <3> QED
        BY <3>1, <3>2, <3>3, <1>3
    <2>2. CASE t # s
      <3>1. slot_adapter_id[t] = b /\ prefetch_stream'[n + 1].slot # t
        BY <2>2, <1>3, <1>6
      <3>2. EventPending(t)' <=> EventPending(t)
        BY <3>1, <1>3 DEF EventPending
      <3>3. \A i \in DOMAIN prefetch_stream' :
              prefetch_stream'[i].slot = t => i \in DOMAIN prefetch_stream
        BY <3>1, <1>3
      <3> QED
        BY <3>1, <3>2, <3>3, <1>3 DEF StagingInv, LastCopyIsCurrent, Lookup
    <2> QED
      BY <2>1, <2>2
  <1> QED
    BY <1>7, <1>8, <1>9, <1>10 DEF StagingInv

LEMMA ReleaseStaging ==
  ASSUME TypeOK, StagingInv, NEW a \in Adapters, ReleasePrefetch(a)
  PROVE  StagingInv'
PROOF
  <1>1. UNCHANGED <<entries, held_tensors, dev_mem, main_stream, pair_in, registered,
                    a_buf, b_buf, prefetch_stream>>
    BY DEF ReleasePrefetch, ReleaseSlot, stagedVars
  <1>2. \A s \in Slots, b \in Adapters : slot_adapter_id'[s] = b => slot_adapter_id[s] = b
    BY ExtensionAssumption DEF TypeOK, ReleasePrefetch, ReleaseSlot
  <1>3. MemoryInv'
    BY <1>1, MemoryUntouched DEF StagingInv
  <1>4. OnlyHeadInProgress'
    BY <1>1 DEF StagingInv, OnlyHeadInProgress
  <1>5. SourceSettled'
    BY <1>1, <1>2, MemoryUntouched DEF StagingInv, SourceSettled
  <1>6. LastCopyIsCurrent'
    BY <1>1, <1>2 DEF StagingInv, LastCopyIsCurrent, EventPending, Lookup
  <1> QED
    BY <1>3, <1>4, <1>5, <1>6 DEF StagingInv

(* build_segments reads everything and writes the table only. *)
LEMMA BuildStaging ==
  ASSUME StagingInv, NEW ids, BuildSegments(ids)
  PROVE  StagingInv'
PROOF
  <1>1. UNCHANGED <<entries, held_tensors, dev_mem, main_stream, pair_in, registered>>
    BY DEF BuildSegments
  <1>2. UNCHANGED <<poolVars, stagedVars>>
    BY DEF BuildSegments
  <1>3. SourceSettled'
    BY <1>1, <1>2, MemoryUntouched DEF StagingInv, SourceSettled, poolVars
  <1> QED
    BY <1>1, <1>2, <1>3, MemoryUntouched, PoolUntouched DEF StagingInv

LEMMA LaunchMemory ==
  ASSUME TypeOK, MemoryInv, NEW kernel \in {"shrink", "expand"}, Launch(kernel)
  PROVE  MemoryInv' /\ \A d : Settled(d)' <=> Settled(d)
PROOF
  <1>1. UNCHANGED <<entries, held_tensors, dev_mem, pair_in, registered>>
    BY DEF Launch, clientVars
  <1>2. PICK n \in Nat :
          /\ DOMAIN main_stream' = 1 .. n + 1
          /\ DOMAIN main_stream = 1 .. n
          /\ \A i \in 1 .. n : main_stream'[i] = main_stream[i]
          /\ main_stream'[n + 1].op # "write"
    <2>1. main_stream' = Append(main_stream, [op |-> kernel, want |-> batch])
      BY DEF Launch
    <2>2. /\ DOMAIN main_stream' = 1 .. Len(main_stream) + 1
          /\ DOMAIN main_stream = 1 .. Len(main_stream)
          /\ Len(main_stream) \in Nat
          /\ \A i \in 1 .. Len(main_stream) : main_stream'[i] = main_stream[i]
          /\ main_stream'[Len(main_stream) + 1].op # "write"
      BY <2>1 DEF TypeOK
    <2> QED
      BY <2>2
  <1>3. \A d : Settled(d)' <=> Settled(d)
    BY <1>2 DEF Settled
  <1>4. \A d : /\ ~WriteTo(d, n + 1)'
               /\ \A i \in 1 .. n : WriteTo(d, i)' <=> WriteTo(d, i)
    BY <1>2 DEF WriteTo
  <1>5. PairsLand'
    <2> SUFFICES ASSUME NEW d \in Addrs
                 PROVE  /\ Settled(d)' => dev_mem[d] = pair_in[d]
                        /\ \A i \in 1 .. n + 1 :
                             /\ WriteTo(d, i)'
                             /\ \A j \in 1 .. n + 1 : WriteTo(d, j)' => j <= i
                             => main_stream'[i].version = pair_in[d]
      BY <1>1, <1>2 DEF PairsLand
    <2>1. Settled(d)' => dev_mem[d] = pair_in[d]
      BY <1>3 DEF MemoryInv, PairsLand
    <2>2. ASSUME NEW i \in 1 .. n + 1, WriteTo(d, i)',
                 \A j \in 1 .. n + 1 : WriteTo(d, j)' => j <= i
          PROVE  main_stream'[i].version = pair_in[d]
      <3>1. i \in 1 .. n
        BY <1>4, <2>2
      <3>2. WriteTo(d, i) /\ \A j \in 1 .. n : WriteTo(d, j) => j <= i
        BY <1>4, <2>2, <3>1
      <3> QED
        BY <1>2, <3>1, <3>2 DEF MemoryInv, PairsLand
    <2> QED
      BY <2>1, <2>2
  <1>6. StoreIsHeld'
    BY <1>1 DEF MemoryInv, StoreIsHeld, Contains
  <1> QED
    BY <1>3, <1>5, <1>6 DEF MemoryInv

LEMMA LaunchStaging ==
  ASSUME TypeOK, StagingInv, NEW kernel \in {"shrink", "expand"}, Launch(kernel)
  PROVE  StagingInv'
PROOF
  <1>1. UNCHANGED <<entries, registered, poolVars, stagedVars>>
    BY DEF Launch, clientVars
  <1>2. MemoryInv' /\ \A d : Settled(d)' <=> Settled(d)
    BY LaunchMemory DEF StagingInv
  <1>3. \A b : Settled(Lookup(b))' <=> Settled(Lookup(b))
    BY <1>1, <1>2 DEF Settled, Lookup
  <1>4. SourceSettled'
    BY <1>1, <1>3 DEF StagingInv, SourceSettled, Contains, poolVars
  <1> QED
    BY <1>1, <1>2, <1>4, PoolUntouched DEF StagingInv

(* The write at the head lands, and the others move up. *)
LEMMA MainStreamMemory ==
  ASSUME TypeOK, MemoryInv, MainStreamStep
  PROVE  MemoryInv' /\ \A d \in Addrs : Settled(d) => Settled(d)'
PROOF
  <1>1. UNCHANGED <<entries, held_tensors, pair_in, registered>>
    BY DEF MainStreamStep, clientVars
  <1>2. PICK n \in Nat \ {0} :
          /\ DOMAIN main_stream = 1 .. n
          /\ DOMAIN main_stream' = 1 .. n - 1
          /\ \A i \in 1 .. n - 1 : main_stream'[i] = main_stream[i + 1]
    <2>1. main_stream \in Seq(Ops) /\ main_stream # << >> /\ main_stream' = Tail(main_stream)
      BY DEF TypeOK, MainStreamStep
    <2>2. /\ Len(main_stream) \in Nat \ {0}
          /\ DOMAIN main_stream = 1 .. Len(main_stream)
          /\ DOMAIN Tail(main_stream) = 1 .. Len(main_stream) - 1
          /\ \A i \in 1 .. Len(main_stream) - 1 : Tail(main_stream)[i] = main_stream[i + 1]
      BY <2>1, HeadTailProperties, EmptySeq
    <2> QED
      BY <2>1, <2>2
  <1>3. main_stream[1] \in Ops /\ Head(main_stream) = main_stream[1]
    BY <1>2 DEF TypeOK, MainStreamStep
  <1>4. \A d \in Addrs : dev_mem'[d] = IF WriteTo(d, 1) THEN main_stream[1].version
                                                        ELSE dev_mem[d]
    BY <1>3 DEF MainStreamStep, WriteTo, TypeOK
  <1>5. \A d : \A i \in 1 .. n - 1 : WriteTo(d, i)' <=> WriteTo(d, i + 1)
    BY <1>2 DEF WriteTo
  <1>6. \A d : Settled(d) <=> \A i \in 1 .. n : ~WriteTo(d, i)
    BY <1>2 DEF Settled, WriteTo
  <1>7. \A d : Settled(d)' <=> \A i \in 1 .. n - 1 : ~WriteTo(d, i + 1)
    BY <1>2, <1>5 DEF Settled, WriteTo
  <1>8. PairsLand'
    <2> SUFFICES ASSUME NEW d \in Addrs
                 PROVE  /\ Settled(d)' => dev_mem'[d] = pair_in[d]
                        /\ \A i \in 1 .. n - 1 :
                             /\ WriteTo(d, i)'
                             /\ \A j \in 1 .. n - 1 : WriteTo(d, j)' => j <= i
                             => main_stream'[i].version = pair_in[d]
      BY <1>1, <1>2 DEF PairsLand
    <2>1. /\ Settled(d) => dev_mem[d] = pair_in[d]
          /\ \A i \in 1 .. n :
               /\ WriteTo(d, i)
               /\ \A j \in 1 .. n : WriteTo(d, j) => j <= i
               => main_stream[i].version = pair_in[d]
      BY <1>2 DEF MemoryInv, PairsLand
    <2>2. (\A i \in 1 .. n - 1 : ~WriteTo(d, i + 1)) => dev_mem'[d] = pair_in[d]
      <3> SUFFICES ASSUME \A i \in 1 .. n - 1 : ~WriteTo(d, i + 1)
                   PROVE  dev_mem'[d] = pair_in[d]
        OBVIOUS
      <3>1. \A j \in 1 .. n : j # 1 => ~WriteTo(d, j)
        <4> TAKE j \in 1 .. n
        <4>1. j # 1 => j - 1 \in 1 .. n - 1 /\ (j - 1) + 1 = j
          OBVIOUS
        <4> QED
          BY <4>1
      <3>2. CASE WriteTo(d, 1)
        BY <3>1, <3>2, <2>1, <1>4
      <3>3. CASE ~WriteTo(d, 1)
        BY <3>1, <3>3, <2>1, <1>4, <1>6
      <3> QED
        BY <3>2, <3>3
    <2>3. ASSUME NEW i \in 1 .. n - 1, WriteTo(d, i + 1),
                 \A j \in 1 .. n - 1 : WriteTo(d, j + 1) => j <= i
          PROVE  main_stream[i + 1].version = pair_in[d]
      <3>1. \A j \in 1 .. n : WriteTo(d, j) => j <= i + 1
        <4> SUFFICES ASSUME NEW j \in 1 .. n, WriteTo(d, j), j # 1
                     PROVE  j <= i + 1
          OBVIOUS
        <4>1. j - 1 \in 1 .. n - 1 /\ (j - 1) + 1 = j
          OBVIOUS
        <4>2. j - 1 <= i
          BY <4>1, <2>3
        <4> QED
          BY <4>2
      <3> QED
        BY <3>1, <2>1, <2>3
    <2>4. \A i \in 1 .. n - 1 : main_stream'[i] = main_stream[i + 1] /\ (WriteTo(d, i)' <=> WriteTo(d, i + 1))
      BY <1>2, <1>5
    <2>5. Settled(d)' => dev_mem'[d] = pair_in[d]
      BY <2>2, <1>7
    <2> QED
      BY <2>3, <2>4, <2>5
  <1>9. StoreIsHeld'
    BY <1>1 DEF MemoryInv, StoreIsHeld, Contains
  <1>10. ASSUME NEW d \in Addrs, Settled(d) PROVE Settled(d)'
    <2>1. \A i \in 1 .. n - 1 : i + 1 \in 1 .. n
      OBVIOUS
    <2>2. \A i \in 1 .. n : ~WriteTo(d, i)
      BY <1>6, <1>10
    <2> QED
      BY <1>7, <2>1, <2>2
  <1> QED
    BY <1>8, <1>9, <1>10 DEF MemoryInv

LEMMA MainStreamStaging ==
  ASSUME TypeOK, StagingInv, MainStreamStep
  PROVE  StagingInv'
PROOF
  <1>1. UNCHANGED <<entries, registered, poolVars, stagedVars>>
    BY DEF MainStreamStep, clientVars
  <1>2. MemoryInv' /\ \A d \in Addrs : Settled(d) => Settled(d)'
    BY MainStreamMemory DEF StagingInv
  <1>3. SourceSettled'
    <2> SUFFICES ASSUME NEW s \in Slots, NEW b \in Adapters, slot_adapter_id[s] = b
                 PROVE  Contains(b) /\ Settled(Lookup(b))'
      BY <1>1 DEF SourceSettled, Contains, poolVars
    <2>1. Contains(b) /\ Settled(Lookup(b))
      BY DEF StagingInv, SourceSettled
    <2>2. PICK d \in Addrs : d = entries[b] /\ d = entries'[b]
      BY <1>1, <2>1 DEF Contains, TypeOK
    <2>3. Settled(d)'
      BY <1>2, <2>1, <2>2 DEF Lookup, Settled
    <2> QED
      BY <2>1, <2>2, <2>3 DEF Lookup, Settled
  <1> QED
    BY <1>1, <1>2, <1>3, PoolUntouched DEF StagingInv

LEMMA PrefetchStreamStaging ==
  ASSUME TypeOK, StagingInv, PrefetchStreamStep
  PROVE  StagingInv'
PROOF
  <1>1. UNCHANGED <<entries, held_tensors, dev_mem, main_stream, pair_in, registered, slot_adapter_id>>
    BY DEF PrefetchStreamStep, clientVars
  <1>2. MemoryInv' /\ SourceSettled'
    BY <1>1, MemoryUntouched DEF StagingInv, SourceSettled
  <1> DEFINE q == prefetch_stream
  <1>3. PICK n \in Nat \ {0} :
          /\ DOMAIN q = 1 .. n
          /\ \A i \in 1 .. n : q[i] \in Requests
          /\ Head(q) = q[1]
          /\ DOMAIN Tail(q) = 1 .. n - 1
          /\ \A i \in 1 .. n - 1 : Tail(q)[i] = q[i + 1]
    <2>1. q \in Seq(Requests) /\ q # << >>
      BY DEF TypeOK, PrefetchStreamStep
    <2>2. /\ Len(q) \in Nat \ {0}
          /\ DOMAIN q = 1 .. Len(q)
          /\ DOMAIN Tail(q) = 1 .. Len(q) - 1
          /\ \A i \in 1 .. Len(q) - 1 : Tail(q)[i] = q[i + 1]
      BY <2>1, HeadTailProperties, EmptySeq
    <2>3. \A i \in 1 .. Len(q) : q[i] \in Requests
      BY <2>1, ElementOfSeq
    <2>4. Head(q) = q[1]
      BY <2>1
    <2> QED
      BY <2>2, <2>3, <2>4
  <1>4. \A i \in 1 .. n : i > 1 => q[i].step = "copy_A"
    BY <1>3 DEF StagingInv, OnlyHeadInProgress
  <1>5. ASSUME NEW s \in Slots, NEW b \in Adapters, slot_adapter_id[s] = b
        PROVE  /\ dev_mem[entries[b]] = registered[b]
               /\ (\A i \in 1 .. n : q[i].slot # s)
                    => a_buf[s] = registered[b] /\ b_buf[s] = registered[b]
               /\ \A i \in 1 .. n :
                    /\ q[i].slot = s
                    /\ \A j \in 1 .. n : q[j].slot = s => j <= i
                    => /\ q[i].src = entries[b]
                       /\ q[i].step # "copy_A" => a_buf[s] = registered[b]
                       /\ q[i].step = "event" => b_buf[s] = registered[b]
    <2>1. dev_mem[entries[b]] = registered[b]
      BY <1>5, RegisteredInMemory DEF StagingInv, SourceSettled
    <2> QED
      BY <1>3, <1>5, <2>1 DEF StagingInv, LastCopyIsCurrent, EventPending, Lookup
  <1>6. q[1].slot \in Slots /\ q[1].src \in Addrs
    BY <1>3 DEF Requests
  <1>7. CASE q[1].step \in {"copy_A", "copy_B"}
    <2>1. PICK x \in {"copy_B", "event"} :
            /\ q' = [q EXCEPT ![1].step = x]
            /\ x = "copy_B" => /\ q[1].step = "copy_A"
                               /\ a_buf' = [a_buf EXCEPT ![q[1].slot] = dev_mem[q[1].src]]
                               /\ b_buf' = b_buf
            /\ x = "event"  => /\ q[1].step = "copy_B"
                               /\ b_buf' = [b_buf EXCEPT ![q[1].slot] = dev_mem[q[1].src]]
                               /\ a_buf' = a_buf
      BY <1>3, <1>7 DEF PrefetchStreamStep
    <2>2. /\ DOMAIN q' = 1 .. n
          /\ \A i \in 1 .. n : i > 1 => q'[i] = q[i]
          /\ q'[1].slot = q[1].slot /\ q'[1].src = q[1].src /\ q'[1].step = x
      <3>1. q' = [q EXCEPT ![1] = [q[1] EXCEPT !.step = x]]
        BY <2>1
      <3>2. q[1] \in Requests
        BY <1>3
      <3>3. /\ [q[1] EXCEPT !.step = x].slot = q[1].slot
            /\ [q[1] EXCEPT !.step = x].src = q[1].src
            /\ [q[1] EXCEPT !.step = x].step = x
        BY <3>2 DEF Requests
      <3> QED
        BY <3>1, <3>3, <1>3
    <2>3. \A i \in 1 .. n : q'[i].slot = q[i].slot /\ q'[i].src = q[i].src
      BY <2>2
    <2>4. OnlyHeadInProgress'
      BY <2>2, <1>4 DEF OnlyHeadInProgress
    <2>5. LastCopyIsCurrent'
      <3> SUFFICES ASSUME NEW s \in Slots, NEW b \in Adapters, slot_adapter_id[s] = b
                   PROVE  /\ (\A i \in 1 .. n : q'[i].slot # s)
                               => a_buf'[s] = registered[b] /\ b_buf'[s] = registered[b]
                          /\ \A i \in 1 .. n :
                               /\ q'[i].slot = s
                               /\ \A j \in 1 .. n : q'[j].slot = s => j <= i
                               => /\ q'[i].src = entries[b]
                                  /\ q'[i].step # "copy_A" => a_buf'[s] = registered[b]
                                  /\ q'[i].step = "event" => b_buf'[s] = registered[b]
        BY <1>1, <2>2, Z3T(30) DEF LastCopyIsCurrent, EventPending, Lookup
      <3>1. CASE q[1].slot # s
        <4>1. a_buf'[s] = a_buf[s] /\ b_buf'[s] = b_buf[s]
          BY <3>1, <2>1 DEF TypeOK
        <4>2. (\A i \in 1 .. n : q'[i].slot # s)
                => a_buf'[s] = registered[b] /\ b_buf'[s] = registered[b]
          BY <4>1, <2>3, <1>5
        <4>3. \A i \in 1 .. n : q'[i].slot = s => q'[i] = q[i]
          BY <3>1, <2>2, <2>3
        <4> QED
          BY <4>1, <4>2, <4>3, <2>3, <1>5
      <3>2. CASE q[1].slot = s
        <4>1. q'[1].slot = s /\ 1 \in 1 .. n
          BY <3>2, <2>2
        <4>2. ASSUME NEW i \in 1 .. n, q'[i].slot = s,
                     \A j \in 1 .. n : q'[j].slot = s => j <= i
              PROVE  /\ q'[i].src = entries[b]
                     /\ q'[i].step # "copy_A" => a_buf'[s] = registered[b]
                     /\ q'[i].step = "event" => b_buf'[s] = registered[b]
          <5>1. /\ q[i].src = entries[b]
                /\ q[i].step # "copy_A" => a_buf[s] = registered[b]
            BY <4>2, <2>3, <1>5
          <5>2. CASE i > 1
            BY <5>1, <5>2, <2>2, <1>4
          <5>3. CASE i = 1
            <6>1. dev_mem[q[1].src] = registered[b]
              BY <5>1, <5>3, <1>5
            <6>2. CASE x = "copy_B"
              BY <6>1, <6>2, <5>1, <5>3, <2>1, <2>2, <3>2 DEF TypeOK
            <6>3. CASE x = "event"
              BY <6>1, <6>3, <5>1, <5>3, <2>1, <2>2, <3>2 DEF TypeOK
            <6> QED
              BY <6>2, <6>3
          <5> QED
            BY <5>2, <5>3
        <4> QED
          BY <4>1, <4>2
      <3> QED
        BY <3>1, <3>2
    <2> QED
      BY <1>2, <2>4, <2>5 DEF StagingInv
  <1>8. CASE q[1].step = "event"
    <2>1. q' = Tail(q) /\ a_buf' = a_buf /\ b_buf' = b_buf
      BY <1>3, <1>8 DEF PrefetchStreamStep, stagedVars
    <2> PICK m \in Nat : m = n - 1
      OBVIOUS
    <2>0. DOMAIN q' = 1 .. m
      BY <2>1, <1>3
    <2>2. /\ DOMAIN q' = 1 .. m
          /\ \A i \in 1 .. m : q'[i] = q[i + 1]
      BY <2>1, <1>3
    <2>3. OnlyHeadInProgress'
      BY <2>2, <1>4, SMTT(30) DEF OnlyHeadInProgress
    <2>4. LastCopyIsCurrent'
      <3> SUFFICES ASSUME NEW s \in Slots, NEW b \in Adapters, slot_adapter_id[s] = b
                   PROVE  /\ (\A i \in 1 .. m : q'[i].slot # s)
                               => a_buf'[s] = registered[b] /\ b_buf'[s] = registered[b]
                          /\ \A i \in 1 .. m :
                               /\ q'[i].slot = s
                               /\ \A j \in 1 .. m : q'[j].slot = s => j <= i
                               => /\ q'[i].src = entries[b]
                                  /\ q'[i].step # "copy_A" => a_buf'[s] = registered[b]
                                  /\ q'[i].step = "event" => b_buf'[s] = registered[b]
        BY <1>1, <2>0 DEF LastCopyIsCurrent, EventPending, Lookup
      <3>1. \A j \in 1 .. n : j # 1 => j - 1 \in 1 .. m /\ (j - 1) + 1 = j
        OBVIOUS
      <3>2. ASSUME \A i \in 1 .. m : q[i + 1].slot # s
            PROVE  a_buf[s] = registered[b] /\ b_buf[s] = registered[b]
        <4>1. \A j \in 1 .. n : q[j].slot = s => j = 1
          BY <3>1, <3>2
        <4>2. CASE q[1].slot = s
          BY <4>1, <4>2, <1>5, <1>8
        <4>3. CASE q[1].slot # s
          BY <4>1, <4>3, <1>5
        <4> QED
          BY <4>2, <4>3
      <3>3. ASSUME NEW i \in 1 .. m, q[i + 1].slot = s,
                   \A j \in 1 .. m : q[j + 1].slot = s => j <= i
            PROVE  /\ q[i + 1].src = entries[b]
                   /\ q[i + 1].step # "copy_A" => a_buf[s] = registered[b]
                   /\ q[i + 1].step = "event" => b_buf[s] = registered[b]
        <4>1. \A j \in 1 .. n : q[j].slot = s => j <= i + 1
          <5> SUFFICES ASSUME NEW j \in 1 .. n, q[j].slot = s, j # 1
                       PROVE  j <= i + 1
            OBVIOUS
          <5>1. j - 1 <= i
            BY <3>1, <3>3
          <5> QED
            BY <5>1
        <4>2. i + 1 \in 1 .. n
          OBVIOUS
        <4> QED
          BY <4>1, <4>2, <3>3, <1>5
      <3>4. (\A i \in 1 .. m : q'[i].slot # s)
              => a_buf'[s] = registered[b] /\ b_buf'[s] = registered[b]
        BY <2>1, <2>2, <3>2
      <3>5. ASSUME NEW i \in 1 .. m, q'[i].slot = s,
                   \A j \in 1 .. m : q'[j].slot = s => j <= i
            PROVE  /\ q'[i].src = entries[b]
                   /\ q'[i].step # "copy_A" => a_buf'[s] = registered[b]
                   /\ q'[i].step = "event" => b_buf'[s] = registered[b]
        <4>1. q[i + 1].slot = s /\ \A j \in 1 .. m : q[j + 1].slot = s => j <= i
          BY <2>2, <3>5
        <4>2. q'[i] = q[i + 1]
          BY <2>2
        <4> QED
          BY <2>1, <3>3, <4>1, <4>2
      <3> QED
        BY <3>4, <3>5
    <2> QED
      BY <1>2, <2>3, <2>4 DEF StagingInv
  <1>9. q[1].step \in {"copy_A", "copy_B", "event"}
    BY <1>3 DEF Requests
  <1> QED
    BY <1>7, <1>8, <1>9

LEMMA StagingInductive ==
  ASSUME CarefulStaging, TypeOK, StagingInv, [Next]_vars
  PROVE  StagingInv'
PROOF
  <1>1. CASE Next
    BY <1>1, CarefulStaging, RegisterStaging, EvictStaging, PrefetchStaging,
       ReleaseStaging, BuildStaging, LaunchStaging, MainStreamStaging,
       PrefetchStreamStaging DEF Next
  <1>2. CASE UNCHANGED vars
    <2>1. UNCHANGED <<entries, held_tensors, dev_mem, main_stream, pair_in, registered>>
      BY <1>2 DEF vars, clientVars
    <2>2. UNCHANGED <<poolVars, stagedVars>>
      BY <1>2 DEF vars
    <2>3. SourceSettled'
      BY <2>1, <2>2, MemoryUntouched DEF StagingInv, SourceSettled, poolVars
    <2> QED
      BY <2>1, <2>2, <2>3, MemoryUntouched, PoolUntouched DEF StagingInv
  <1> QED
    BY <1>1, <1>2

(* Under such a caller the engine never serves, from a staging slot it calls  *)
(* ready, weights other than those its adapter is registered with.            *)
THEOREM StagedWeightsCorrect ==
  ASSUME CarefulStaging
  PROVE  Spec => []StagedWeightsAreCurrent
PROOF
  <1>1. Init => TypeOK /\ StagingInv
    BY InitType, InitStaging
  <1>2. TypeOK /\ StagingInv /\ [Next]_vars => StagingInv'
    BY StagingInductive
  <1>3. StagingInv => StagedWeightsAreCurrent
    BY DEF StagingInv, LastCopyIsCurrent, StagedWeightsAreCurrent, IsReady
  <1> QED
    BY <1>1, <1>2, <1>3, TypeCorrect, PTL DEF Spec

-----------------------------------------------------------------------------
(* What holds whatever the caller does. *)

(* The store and the held tensors change together, at one id; memory is given *)
(* out again only when no id holds it, and changes in launch order.           *)
LEMMA StepMemory ==
  ASSUME TypeOK, MemoryInv, [Next]_vars
  PROVE  MemoryInv'
PROOF
  <1>1. ASSUME UNCHANGED <<entries, held_tensors, dev_mem, main_stream, pair_in, registered>>
        PROVE  MemoryInv'
    BY <1>1, MemoryUntouched
  <1>2. ASSUME NEW a \in Adapters, RegisterAdapter(a) \/ EvictAdapter(a)
        PROVE  MemoryInv'
    BY <1>2, RegisterMemory, EvictMemory
  <1>3. ASSUME NEW kernel \in {"shrink", "expand"}, Launch(kernel)
        PROVE  MemoryInv'
    BY <1>3, LaunchMemory
  <1>4. CASE MainStreamStep
    BY <1>4, MainStreamMemory
  <1> QED
    BY <1>1, <1>2, <1>3, <1>4 DEF Next, PrefetchAdapter, ReleasePrefetch, BuildSegments,
       PrefetchStreamStep, vars, clientVars

(* Every stored pointer leads to the weights registered under its id, for     *)
(* every sequence of calls, ids that share their tensors included             *)
(* (bindings.cpp register_adapter, evict_adapter).                            *)
THEOREM StoredPointersSafe == Spec => []StoredPointersReachTheirWeights
PROOF
  <1>1. Init => MemoryInv
    BY InitMemory
  <1>2. TypeOK /\ MemoryInv /\ [Next]_vars => MemoryInv'
    BY StepMemory
  <1>3. TypeOK /\ MemoryInv => StoredPointersReachTheirWeights
    BY RegisteredInMemory DEF StoredPointersReachTheirWeights, Lookup
  <1> QED
    BY <1>1, <1>2, <1>3, TypeCorrect, PTL DEF Spec

(* acquire_slot gives an adapter a new slot only when it has none, so that    *)
(* find_slot_for_adapter's first match is the only one (staging_buffer.h).    *)
LEMMA StepSlotsDistinct ==
  ASSUME TypeOK, SlotsHoldDistinctAdapters, [Next]_vars
  PROVE  SlotsHoldDistinctAdapters'
PROOF
  <1>1. CASE UNCHANGED slot_adapter_id
    BY <1>1 DEF SlotsHoldDistinctAdapters
  <1>2. ASSUME NEW a \in Adapters, PrefetchAdapter(a)
        PROVE  SlotsHoldDistinctAdapters'
    <2>1. /\ SlotFor(a) \in Slots
          /\ slot_adapter_id' = [slot_adapter_id EXCEPT ![SlotFor(a)] = a]
      BY <1>2, SlotForType DEF PrefetchAdapter, AcquireAndMark
    <2>2. CASE OwnedBy(a) = {}
      <3>1. \A s \in Slots : slot_adapter_id[s] # a
        BY <2>2 DEF OwnedBy
      <3> QED
        BY <2>1, <3>1 DEF TypeOK, SlotsHoldDistinctAdapters
    <2>3. CASE OwnedBy(a) # {}
      <3>1. slot_adapter_id[SlotFor(a)] = a
        BY <2>3, SlotForType DEF OwnedBy
      <3> QED
        BY <2>1, <3>1 DEF TypeOK, SlotsHoldDistinctAdapters
    <2> QED
      BY <2>2, <2>3
  <1>3. ASSUME NEW a \in Adapters, ReleasePrefetch(a)
        PROVE  SlotsHoldDistinctAdapters'
    BY <1>3 DEF TypeOK, SlotsHoldDistinctAdapters, ReleasePrefetch, ReleaseSlot
  <1> QED
    BY <1>1, <1>2, <1>3 DEF Next, RegisterAdapter, EvictAdapter, BuildSegments,
       Launch, MainStreamStep, PrefetchStreamStep, vars, poolVars

(* No adapter ever occupies two staging slots, for every pool size and every  *)
(* sequence of prefetches, releases, registrations and evictions.             *)
THEOREM SlotsDistinct == Spec => []SlotsHoldDistinctAdapters
PROOF
  <1>1. Init => SlotsHoldDistinctAdapters
    BY DEF Init, PoolInit, SlotsHoldDistinctAdapters
  <1>2. TypeOK /\ SlotsHoldDistinctAdapters /\ [Next]_vars => SlotsHoldDistinctAdapters'
    BY StepSlotsDistinct
  <1> QED
    BY <1>1, <1>2, TypeCorrect, PTL DEF Spec
-----------------------------------------------------------------------------
(***************************************************************************)
(* What the kernels of WarpPipeExtension read, for a caller that takes     *)
(* every precaution of AllRules.                                           *)
(*                                                                         *)
(* A kernel is launched over a table and runs later.  The invariant speaks *)
(* of each position of the main stream: once the operations before it have *)
(* completed, the table serves the last batch.  A segment that is not      *)
(* staged may even outlive its registration, since memory given out again  *)
(* is written behind the kernel on the same stream.                        *)
(***************************************************************************)

EveryPrecaution == ClientRules = AllRules

(* Allocation d holds v once the first n operations of the main stream are done. *)
WillHold(d, n, v) ==
  \/ (\A k \in 1 .. n : ~WriteTo(d, k)) /\ dev_mem[d] = v
  \/ \E k \in 1 .. n : /\ WriteTo(d, k)
                       /\ \A m \in 1 .. n : WriteTo(d, m) => m <= k
                       /\ main_stream[k].version = v

(* Slot s holds the weights adapter a is registered with, v, and keeps them. *)
SlotServes(s, a, v) ==
  /\ s \in Slots /\ slot_adapter_id[s] = a
  /\ registered[a] = v /\ a_buf[s] = v /\ b_buf[s] = v
  /\ \A k \in DOMAIN prefetch_stream :
       prefetch_stream[k].slot = s => prefetch_stream[k].src = entries[a]

SegmentServes(seg, want, n) ==
  /\ seg.adapter_id = want.adapter_id
  /\ IF seg.use_staging THEN SlotServes(seg.staging, want.adapter_id, want.version)
                        ELSE seg.ptr \in Addrs /\ WillHold(seg.ptr, n, want.version)

TableServes(n) ==
  /\ num_segments = Len(batch)
  /\ \A i \in 1 .. Len(batch) : SegmentServes(segments[i], batch[i], n)

(* The pointers of a fresh table are still held. *)
TableIsHeld ==
  \A i \in 1 .. Len(batch) :
    ~segments[i].use_staging => /\ Contains(batch[i].adapter_id)
                                /\ segments[i].ptr = entries[batch[i].adapter_id]

LaunchedInv ==
  /\ \A j \in DOMAIN main_stream : main_stream[j].op # "write" =>
       main_stream[j].want = batch /\ TableServes(j - 1)
  /\ table_fresh => TableServes(Len(main_stream)) /\ TableIsHeld

-----------------------------------------------------------------------------
LEMMA LaunchedStarts == ASSUME Init PROVE LaunchedInv
<1>1. main_stream = << >> /\ batch = << >> /\ num_segments = 0
  BY DEF Init
<1> QED
  BY <1>1 DEF LaunchedInv, TableServes, TableIsHeld

(* A step over which the staged segments keep serving. *)
SlotsKept ==
  \A i \in 1 .. Len(batch) : \A s, a, v :
    a = batch[i].adapter_id /\ SlotServes(s, a, v) => SlotServes(s, a, v)'

(* A table that is not rewritten serves as long as its segments do. *)
LEMMA TableKept ==
  ASSUME NEW n, NEW m, TableServes(n), UNCHANGED <<segments, num_segments, batch>>, SlotsKept,
         \A i \in 1 .. Len(batch), d \in Addrs : \A v :
           d = segments[i].ptr /\ WillHold(d, n, v) => WillHold(d, m, v)'
  PROVE  TableServes(m)'
<1> SUFFICES ASSUME NEW i \in 1 .. Len(batch)
             PROVE  SegmentServes(segments[i], batch[i], m)'
  BY DEF TableServes
<1>1. SegmentServes(segments[i], batch[i], n) /\ segments'[i] = segments[i] /\ batch'[i] = batch[i]
  BY DEF TableServes
<1>2. PICK s, a, v, d : s = segments[i].staging /\ a = batch[i].adapter_id
                        /\ v = batch[i].version /\ d = segments[i].ptr
  OBVIOUS
<1>3. CASE segments[i].use_staging
  <2>1. SlotServes(s, a, v)'
    BY <1>1, <1>2, <1>3 DEF SegmentServes, SlotsKept
  <2> QED
    BY <1>1, <1>2, <1>3, <2>1 DEF SegmentServes, SlotServes
<1>4. CASE ~segments[i].use_staging
  <2>1. d \in Addrs /\ WillHold(d, m, v)'
    BY <1>1, <1>2, <1>4 DEF SegmentServes
  <2> QED
    BY <1>1, <1>2, <1>4, <2>1 DEF SegmentServes, WillHold
<1> QED
  BY <1>3, <1>4

(* Steps that leave the main stream, the memory and the table alone. *)
LEMMA StreamUntouched ==
  ASSUME TypeOK, LaunchedInv,
         UNCHANGED <<main_stream, dev_mem, segments, num_segments, batch>>,
         main_stream # << >> \/ table_fresh' => SlotsKept,
         table_fresh' => /\ table_fresh
                         /\ \A i \in 1 .. Len(batch) :
                              entries'[batch[i].adapter_id] = entries[batch[i].adapter_id]
  PROVE  LaunchedInv'
<1>1. \A d, n, v : WillHold(d, n, v) => WillHold(d, n, v)'
  BY DEF WillHold, WriteTo
<1>2. ASSUME NEW n, TableServes(n), SlotsKept PROVE TableServes(n)'
  BY <1>1, <1>2, TableKept
<1>3. main_stream \in Seq(Ops)
  BY DEF TypeOK
<1>4. ASSUME NEW j \in DOMAIN main_stream', main_stream'[j].op # "write"
      PROVE  main_stream'[j].want = batch' /\ TableServes(j - 1)'
  <2>1. main_stream # << >>
    BY <1>3, <1>4
  <2>2. main_stream[j].want = batch /\ TableServes(j - 1)
    BY <1>4 DEF LaunchedInv
  <2> QED
    BY <1>2, <2>1, <2>2
<1>5. ASSUME table_fresh' PROVE TableServes(Len(main_stream))' /\ TableIsHeld'
  <2>1. TableServes(Len(main_stream)) /\ TableIsHeld /\ SlotsKept
    BY <1>5 DEF LaunchedInv
  <2>2. PICK n : n = Len(main_stream)
    OBVIOUS
  <2>3. TableServes(n)'
    BY <1>2, <2>1, <2>2
  <2>4. TableIsHeld'
    BY <1>5, <2>1 DEF TableIsHeld, Contains
  <2> QED
    BY <2>2, <2>3, <2>4 DEF TableServes
<1> QED
  BY <1>4, <1>5 DEF LaunchedInv

LEMMA BatchAdapter ==
  ASSUME TypeOK, NEW i \in 1 .. Len(batch)
  PROVE  batch[i].adapter_id \in Adapters /\ i \in DOMAIN batch
<1>1. batch \in Seq(Wanted)
  BY DEF TypeOK
<1>2. batch[i] \in Wanted /\ i \in DOMAIN batch
  BY <1>1
<1> QED
  BY <1>2 DEF Wanted

(* An adapter that may be registered or evicted owns no slot. *)
LEMMA SlotsKeptElsewhere ==
  ASSUME TypeOK, NEW a \in Adapters, OwnedBy(a) = {}, UNCHANGED <<poolVars, stagedVars, batch>>,
         \A b \in Adapters \ {a} : entries'[b] = entries[b] /\ registered'[b] = registered[b]
  PROVE  SlotsKept
<1> SUFFICES ASSUME NEW i \in 1 .. Len(batch), NEW s, NEW b, NEW v,
                    b = batch[i].adapter_id, SlotServes(s, b, v)
             PROVE  SlotServes(s, b, v)'
  BY DEF SlotsKept
<1>1. b \in Adapters \ {a}
  BY BatchAdapter DEF SlotServes, OwnedBy
<1> QED
  BY <1>1 DEF SlotServes, poolVars, stagedVars

LEMMA EvictLaunched ==
  ASSUME EveryPrecaution, TypeOK, LaunchedInv, NEW a \in Adapters, EvictAdapter(a)
  PROVE  LaunchedInv'
<1>1. OwnedBy(a) = {}
  BY DEF EveryPrecaution, AllRules, EvictAdapter, Obeys
<1>2. UNCHANGED <<poolVars, stagedVars, main_stream, dev_mem, segments, num_segments, batch>>
  BY DEF EvictAdapter, tableVars
<1>3. \A b \in Adapters \ {a} : entries'[b] = entries[b] /\ registered'[b] = registered[b]
  BY DEF TypeOK, EvictAdapter, StoreEvict
<1>4. SlotsKept
  BY <1>1, <1>2, <1>3, SlotsKeptElsewhere
<1>5. table_fresh' => /\ table_fresh
                      /\ \A i \in 1 .. Len(batch) :
                           entries'[batch[i].adapter_id] = entries[batch[i].adapter_id]
  BY <1>3, BatchAdapter DEF EvictAdapter, InTable
<1> QED
  BY <1>2, <1>4, <1>5, StreamUntouched

LEMMA PrefetchLaunched ==
  ASSUME TypeOK, LaunchedInv, NEW a \in Adapters, PrefetchAdapter(a)
  PROVE  LaunchedInv'
<1>1. UNCHANGED <<entries, registered, stagedVars, main_stream, dev_mem, segments,
                  num_segments, batch, table_fresh>>
  BY DEF PrefetchAdapter, tableVars, clientVars
<1>2. PICK t \in Slots :
        /\ slot_adapter_id[t] \in {a, NoAdapter}
        /\ slot_adapter_id' = [slot_adapter_id EXCEPT ![t] = a]
        /\ prefetch_stream' = Append(prefetch_stream,
              [slot |-> t, src |-> Lookup(a), step |-> "copy_A"])
  BY SlotForType DEF PrefetchAdapter, AcquireAndMark
<1>3. SlotsKept
  <2> SUFFICES ASSUME NEW i \in 1 .. Len(batch), NEW s, NEW b, NEW v,
                      b = batch[i].adapter_id, SlotServes(s, b, v)
               PROVE  SlotServes(s, b, v)'
    BY DEF SlotsKept
  <2>1. b \in Adapters /\ b # NoAdapter
    BY BatchAdapter, ExtensionAssumption
  <2>2. s = t => b = a
    BY <1>2, <2>1 DEF SlotServes
  <2>3. slot_adapter_id'[s] = b
    BY <1>2, <2>2 DEF SlotServes, TypeOK
  <2>4. ASSUME NEW k \in DOMAIN prefetch_stream', prefetch_stream'[k].slot = s
        PROVE  prefetch_stream'[k].src = entries[b]
    <3>1. prefetch_stream \in Seq(Requests)
      BY DEF TypeOK
    <3>2. CASE k \in DOMAIN prefetch_stream
      BY <1>2, <2>4, <3>1, <3>2 DEF SlotServes
    <3>3. CASE k \notin DOMAIN prefetch_stream
      <4>1. prefetch_stream'[k] = [slot |-> t, src |-> Lookup(a), step |-> "copy_A"]
        BY <1>2, <3>1, <3>3
      <4> QED
        BY <2>2, <2>4, <4>1 DEF Lookup
    <3> QED
      BY <3>2, <3>3
  <2> QED
    BY <1>1, <2>3, <2>4 DEF SlotServes, stagedVars
<1> QED
  BY <1>1, <1>3, StreamUntouched

(* A slot is released while no kernel is queued, and never one of a table     *)
(* that stays fresh.                                                          *)
LEMMA ReleaseLaunched ==
  ASSUME EveryPrecaution, TypeOK, LaunchedInv, NEW a \in Adapters, ReleasePrefetch(a)
  PROVE  LaunchedInv'
<1>1. UNCHANGED <<entries, registered, stagedVars, main_stream, dev_mem, segments,
                  num_segments, batch, prefetch_stream>>
      /\ main_stream = << >> /\ table_fresh' = (table_fresh /\ ~InTable(a))
  BY DEF ReleasePrefetch, ReleaseSlot, tableVars, EveryPrecaution, AllRules, Obeys
<1>2. PICK t \in OwnedBy(a) : slot_adapter_id' = [slot_adapter_id EXCEPT ![t] = NoAdapter]
  BY FindSlotType DEF ReleasePrefetch, ReleaseSlot, OwnedBy
<1>3. ASSUME table_fresh' PROVE SlotsKept
  <2> SUFFICES ASSUME NEW i \in 1 .. Len(batch), NEW s, NEW b, NEW v,
                      b = batch[i].adapter_id, SlotServes(s, b, v)
               PROVE  SlotServes(s, b, v)'
    BY DEF SlotsKept
  <2>1. b # a
    BY <1>1, <1>3, BatchAdapter DEF InTable
  <2>2. s # t
    BY <2>1 DEF SlotServes, OwnedBy
  <2>3. slot_adapter_id'[s] = b
    BY <1>2, <2>2 DEF SlotServes, TypeOK
  <2> QED
    BY <1>1, <2>3 DEF SlotServes, stagedVars
<1> QED
  BY <1>1, <1>3, StreamUntouched

-----------------------------------------------------------------------------
(* An operation queued behind the others changes nothing for those before it. *)
LEMMA QueueAppended ==
  ASSUME TypeOK, NEW o \in Ops, main_stream' = Append(main_stream, o), dev_mem' = dev_mem,
         NEW n \in Nat, n = Len(main_stream)
  PROVE  /\ Len(main_stream') = n + 1
         /\ DOMAIN main_stream = 1 .. n /\ DOMAIN main_stream' = 1 .. n + 1
         /\ \A j \in 1 .. n : main_stream'[j] = main_stream[j]
         /\ main_stream'[n + 1] = o
         /\ \A m \in 0 .. n : \A d, v : WillHold(d, m, v) => WillHold(d, m, v)'
         /\ \A d, v : WillHold(d, n, v) /\ ~(o.op = "write" /\ o.addr = d)
                      => WillHold(d, n + 1, v)'
<1>1. /\ Len(main_stream') = n + 1
      /\ DOMAIN main_stream = 1 .. n /\ DOMAIN main_stream' = 1 .. n + 1
      /\ \A j \in 1 .. n : main_stream'[j] = main_stream[j]
      /\ main_stream'[n + 1] = o
  BY DEF TypeOK
<1>2. \A d : \A k \in 1 .. n : WriteTo(d, k)' <=> WriteTo(d, k)
  BY <1>1 DEF WriteTo
<1>3. \A m \in 0 .. n : \A d, v : WillHold(d, m, v) => WillHold(d, m, v)'
  BY <1>1, <1>2 DEF WillHold
<1>4. ASSUME NEW d, NEW v, WillHold(d, n, v), ~(o.op = "write" /\ o.addr = d)
      PROVE  WillHold(d, n + 1, v)'
  <2>1. ~WriteTo(d, n + 1)'
    BY <1>1, <1>4 DEF WriteTo
  <2>2. \A k \in 1 .. n + 1 : WriteTo(d, k)' => k \in 1 .. n /\ WriteTo(d, k)
    BY <1>2, <2>1
  <2>3. CASE (\A k \in 1 .. n : ~WriteTo(d, k)) /\ dev_mem[d] = v
    BY <2>2, <2>3 DEF WillHold
  <2>4. ASSUME NEW k \in 1 .. n, WriteTo(d, k), \A m \in 1 .. n : WriteTo(d, m) => m <= k,
               main_stream[k].version = v
        PROVE  WillHold(d, n + 1, v)'
    <3>1. /\ k \in 1 .. n + 1 /\ WriteTo(d, k)' /\ main_stream'[k].version = v
          /\ \A m \in 1 .. n + 1 : WriteTo(d, m)' => m <= k
      BY <1>1, <1>2, <2>2, <2>4
    <3> QED
      BY <3>1 DEF WillHold
  <2> QED
    BY <1>4, <2>3, <2>4 DEF WillHold
<1> QED
  BY <1>1, <1>3, <1>4

(* The write of a new pair goes to memory no segment of a fresh table uses. *)
LEMMA CreatedLaunched ==
  ASSUME EveryPrecaution, TypeOK, StagingInv, LaunchedInv, NEW a \in Adapters, RegisterAdapter(a),
         NEW addr \in Addrs, \A b \in Adapters : held_tensors[b] # addr,
         \A b \in Adapters \ {a} : entries'[b] = entries[b] /\ registered'[b] = registered[b],
         next_version' \in Versions,
         main_stream' = Append(main_stream,
            [op |-> "write", addr |-> addr, version |-> next_version'])
  PROVE  LaunchedInv'
<1>2. PICK w : w = [op |-> "write", addr |-> addr, version |-> next_version']
  OBVIOUS
<1>3. w \in Ops /\ w.op = "write" /\ w.addr = addr
  BY <1>2 DEF Ops
<1>1. main_stream' = Append(main_stream, w)
  BY <1>2
<1>4. UNCHANGED <<poolVars, stagedVars, dev_mem, segments, num_segments, batch>>
      /\ OwnedBy(a) = {} /\ table_fresh' = (table_fresh /\ ~InTable(a))
  BY DEF RegisterAdapter, EveryPrecaution, AllRules, Obeys, tableVars
<1>5. \A b \in Adapters \ {a} : entries'[b] = entries[b] /\ registered'[b] = registered[b]
  OBVIOUS
<1>6. SlotsKept
  BY <1>4, <1>5, SlotsKeptElsewhere
<1> PICK n \in Nat : n = Len(main_stream)
  BY DEF TypeOK
<1>7. /\ Len(main_stream') = n + 1
      /\ DOMAIN main_stream = 1 .. n /\ DOMAIN main_stream' = 1 .. n + 1
      /\ \A j \in 1 .. n : main_stream'[j] = main_stream[j]
      /\ main_stream'[n + 1] = w
      /\ \A m \in 0 .. n : \A d, v : WillHold(d, m, v) => WillHold(d, m, v)'
      /\ \A d, v : WillHold(d, n, v) /\ w.addr # d => WillHold(d, n + 1, v)'
  BY <1>1, <1>2, <1>3, <1>4, QueueAppended
<1>8. ASSUME NEW j \in DOMAIN main_stream', main_stream'[j].op # "write"
      PROVE  main_stream'[j].want = batch' /\ TableServes(j - 1)'
  <2>1. j \in 1 .. n /\ j - 1 \in 0 .. n
    BY <1>3, <1>7, <1>8
  <2>2. main_stream[j].want = batch /\ TableServes(j - 1)
    BY <1>7, <1>8, <2>1 DEF LaunchedInv
  <2>3. TableServes(j - 1)'
    BY <1>4, <1>6, <1>7, <2>1, <2>2, TableKept
  <2> QED
    BY <1>4, <1>7, <2>1, <2>2, <2>3
<1>9. ASSUME table_fresh' PROVE TableServes(n + 1)' /\ TableIsHeld'
  <2>1. TableServes(n) /\ TableIsHeld /\ ~InTable(a)
    BY <1>4, <1>7, <1>9 DEF LaunchedInv
  <2>2. \A i \in 1 .. Len(batch) : batch[i].adapter_id \in Adapters \ {a}
    BY <2>1, BatchAdapter DEF InTable
  <2>3. TableIsHeld'
    BY <1>4, <1>5, <2>1, <2>2 DEF TableIsHeld, Contains
  <2>4. \A i \in 1 .. Len(batch) : ~segments[i].use_staging => segments[i].ptr # addr
    BY <2>1, <2>2 DEF TableIsHeld, StagingInv, MemoryInv, StoreIsHeld
  <2>5. TableServes(n + 1)'
    <3> SUFFICES ASSUME NEW i \in 1 .. Len(batch)
                 PROVE  SegmentServes(segments[i], batch[i], n + 1)'
      BY <1>4, <2>1 DEF TableServes
    <3>1. SegmentServes(segments[i], batch[i], n)
          /\ segments'[i] = segments[i] /\ batch'[i] = batch[i]
      BY <1>4, <2>1 DEF TableServes
    <3>2. PICK s, b, v, d : s = segments[i].staging /\ b = batch[i].adapter_id
                            /\ v = batch[i].version /\ d = segments[i].ptr
      OBVIOUS
    <3>3. CASE segments[i].use_staging
      <4>1. SlotServes(s, b, v)'
        BY <1>6, <3>1, <3>2, <3>3 DEF SegmentServes, SlotsKept
      <4> QED
        BY <3>1, <3>2, <3>3, <4>1 DEF SegmentServes, SlotServes
    <3>4. CASE ~segments[i].use_staging
      <4>1. d \in Addrs /\ WillHold(d, n + 1, v)'
        BY <1>3, <1>7, <2>4, <3>1, <3>2, <3>4 DEF SegmentServes
      <4> QED
        BY <3>1, <3>2, <3>4, <4>1 DEF SegmentServes, WillHold
    <3> QED
      BY <3>3, <3>4
  <2> QED
    BY <2>3, <2>5
<1>10. table_fresh' => TableServes(Len(main_stream))'
  BY <1>7, <1>9 DEF TableServes, SegmentServes, WillHold
<1> QED
  BY <1>8, <1>9, <1>10 DEF LaunchedInv

LEMMA RegisterLaunched ==
  ASSUME EveryPrecaution, TypeOK, StagingInv, LaunchedInv, NEW a \in Adapters, RegisterAdapter(a)
  PROVE  LaunchedInv'
<1>1. UNCHANGED <<poolVars, stagedVars, dev_mem, segments, num_segments, batch>>
      /\ OwnedBy(a) = {} /\ table_fresh' = (table_fresh /\ ~InTable(a))
  BY DEF RegisterAdapter, EveryPrecaution, AllRules, Obeys, tableVars
<1>2. \A b \in Adapters \ {a} : entries'[b] = entries[b] /\ registered'[b] = registered[b]
  BY RegisterMemory DEF StagingInv
<1>3. CASE main_stream' = main_stream
  <2>1. SlotsKept
    BY <1>1, <1>2, SlotsKeptElsewhere
  <2>2. table_fresh' => /\ table_fresh
                        /\ \A i \in 1 .. Len(batch) :
                             entries'[batch[i].adapter_id] = entries[batch[i].adapter_id]
    BY <1>1, <1>2, BatchAdapter DEF InTable
  <2> QED
    BY <1>1, <1>3, <2>1, <2>2, StreamUntouched
<1>4. CASE main_stream' # main_stream
  <2>1. PICK addr \in Addrs :
          /\ \A b \in Adapters : held_tensors[b] # addr
          /\ next_version' \in Versions
          /\ main_stream' = Append(main_stream,
               [op |-> "write", addr |-> addr, version |-> next_version'])
    BY <1>4, RegisterCases
  <2> QED
    BY <1>2, <2>1, CreatedLaunched
<1> QED
  BY <1>3, <1>4

(* A kernel is queued over a fresh table: it will find it serving. *)
LEMMA LaunchLaunched ==
  ASSUME EveryPrecaution, TypeOK, LaunchedInv, NEW kernel \in {"shrink", "expand"}, Launch(kernel)
  PROVE  LaunchedInv'
<1>1. /\ UNCHANGED <<entries, registered, poolVars, stagedVars, dev_mem, segments,
                     num_segments, batch, table_fresh>>
      /\ main_stream' = Append(main_stream, [op |-> kernel, want |-> batch])
      /\ table_fresh
  BY DEF Launch, tableVars, clientVars, EveryPrecaution, AllRules, Obeys
<1>2. PICK o : o = [op |-> kernel, want |-> batch]
  OBVIOUS
<1>3. o \in Ops /\ o.op # "write" /\ o.want = batch
  BY <1>2 DEF TypeOK, Ops
<1>4. SlotsKept
  BY <1>1 DEF SlotsKept, SlotServes, poolVars, stagedVars
<1> PICK n \in Nat : n = Len(main_stream)
  BY DEF TypeOK
<1>5. /\ Len(main_stream') = n + 1
      /\ DOMAIN main_stream = 1 .. n /\ DOMAIN main_stream' = 1 .. n + 1
      /\ \A j \in 1 .. n : main_stream'[j] = main_stream[j]
      /\ main_stream'[n + 1] = o
      /\ \A m \in 0 .. n : \A d, v : WillHold(d, m, v) => WillHold(d, m, v)'
      /\ \A d, v : WillHold(d, n, v) => WillHold(d, n + 1, v)'
  BY <1>1, <1>2, <1>3, QueueAppended
<1>6. TableServes(n) /\ TableIsHeld
  BY <1>1, <1>5 DEF LaunchedInv
<1>7. TableServes(n)' /\ TableServes(n + 1)'
  BY <1>1, <1>4, <1>5, <1>6, TableKept
<1>8. ASSUME NEW j \in DOMAIN main_stream', main_stream'[j].op # "write"
      PROVE  main_stream'[j].want = batch' /\ TableServes(j - 1)'
  <2>1. CASE j = n + 1
    <3>1. j - 1 = n
      BY <2>1
    <3> QED
      BY <1>1, <1>3, <1>5, <1>7, <2>1, <3>1
  <2>2. CASE j # n + 1
    <3>1. j \in 1 .. n /\ j - 1 \in 0 .. n
      BY <1>5, <1>8, <2>2
    <3>2. main_stream[j].want = batch /\ TableServes(j - 1)
      BY <1>5, <1>8, <3>1 DEF LaunchedInv
    <3>3. TableServes(j - 1)'
      BY <1>1, <1>4, <1>5, <3>1, <3>2, TableKept
    <3> QED
      BY <1>1, <1>5, <3>1, <3>2, <3>3
  <2> QED
    BY <2>1, <2>2
<1>9. TableIsHeld' /\ TableServes(Len(main_stream))'
  <2>1. TableIsHeld'
    BY <1>1, <1>6 DEF TableIsHeld, Contains
  <2> QED
    BY <1>5, <1>7, <2>1 DEF TableServes, SegmentServes, WillHold
<1> QED
  BY <1>8, <1>9 DEF LaunchedInv

(* The head of the main stream completes: one operation fewer is waited for. *)
LEMMA MainStreamLaunched ==
  ASSUME TypeOK, LaunchedInv, MainStreamStep
  PROVE  LaunchedInv'
<1>1. UNCHANGED <<entries, registered, poolVars, stagedVars, segments, num_segments, batch,
                  table_fresh>>
  BY DEF MainStreamStep, tableVars, clientVars
<1>2. main_stream \in Seq(Ops) /\ main_stream # << >> /\ main_stream' = Tail(main_stream)
  BY DEF TypeOK, MainStreamStep
<1>3. PICK n \in Nat \ {0} : n = Len(main_stream)
  BY <1>2
<1>4. /\ DOMAIN main_stream = 1 .. n /\ DOMAIN main_stream' = 1 .. n - 1
      /\ Len(main_stream') = n - 1
      /\ \A j \in 1 .. n - 1 : main_stream'[j] = main_stream[j + 1]
      /\ main_stream[1] \in Ops /\ Head(main_stream) = main_stream[1]
  BY <1>2, <1>3
<1>5. \A d \in Addrs : dev_mem'[d] = IF WriteTo(d, 1) THEN main_stream[1].version
                                                      ELSE dev_mem[d]
  BY <1>4 DEF MainStreamStep, WriteTo, TypeOK
<1>6. \A d : \A k \in 1 .. n - 1 : WriteTo(d, k)' <=> WriteTo(d, k + 1)
  BY <1>4 DEF WriteTo
<1>7. ASSUME NEW d \in Addrs, NEW v, NEW m \in 0 .. n - 1, WillHold(d, m + 1, v)
      PROVE  WillHold(d, m, v)'
  <2>1. CASE (\A k \in 1 .. m + 1 : ~WriteTo(d, k)) /\ dev_mem[d] = v
    <3>1. ~WriteTo(d, 1) /\ \A k \in 1 .. m : k \in 1 .. n - 1 /\ k + 1 \in 1 .. m + 1
      BY <2>1
    <3>2. (\A k \in 1 .. m : ~WriteTo(d, k)') /\ dev_mem'[d] = v
      BY <1>5, <1>6, <2>1, <3>1
    <3> QED
      BY <3>2 DEF WillHold
  <2>2. ASSUME NEW k \in 1 .. m + 1, WriteTo(d, k),
               \A l \in 1 .. m + 1 : WriteTo(d, l) => l <= k, main_stream[k].version = v
        PROVE  WillHold(d, m, v)'
    <3>1. \A l \in 1 .. m : l \in 1 .. n - 1 /\ l + 1 \in 1 .. m + 1
      OBVIOUS
    <3>2. \A l \in 1 .. m : WriteTo(d, l)' => l + 1 <= k
      BY <1>6, <2>2, <3>1
    <3>3. CASE k = 1
      <4>1. dev_mem'[d] = v
        BY <1>5, <2>2, <3>3
      <4>2. \A l \in 1 .. m : ~WriteTo(d, l)'
        BY <3>2, <3>3
      <4> QED
        BY <4>1, <4>2 DEF WillHold
    <3>4. CASE k # 1
      <4>1. PICK l \in 1 .. m : l + 1 = k
        <5>1. k - 1 \in 1 .. m /\ (k - 1) + 1 = k
          BY <3>4
        <5> QED
          BY <5>1
      <4>2. WriteTo(d, l)' /\ main_stream'[l].version = v
        BY <1>4, <1>6, <2>2, <3>1, <4>1
      <4>3. \A i \in 1 .. m : WriteTo(d, i)' => i <= l
        BY <3>2, <4>1
      <4> QED
        BY <4>2, <4>3 DEF WillHold
    <3> QED
      BY <3>3, <3>4
  <2> QED
    BY <1>7, <2>1, <2>2 DEF WillHold
<1>8. SlotsKept
  BY <1>1 DEF SlotsKept, SlotServes, poolVars, stagedVars
<1>9. ASSUME NEW m \in 0 .. n - 1, TableServes(m + 1) PROVE TableServes(m)'
  BY <1>1, <1>7, <1>8, <1>9, TableKept
<1>10. ASSUME NEW j \in DOMAIN main_stream', main_stream'[j].op # "write"
       PROVE  main_stream'[j].want = batch' /\ TableServes(j - 1)'
  <2>1. j \in 1 .. n - 1 /\ j + 1 \in DOMAIN main_stream /\ j - 1 \in 0 .. n - 1
        /\ (j + 1) - 1 = (j - 1) + 1
    BY <1>4, <1>10
  <2>2. main_stream[j + 1].want = batch /\ TableServes((j - 1) + 1)
    <3>1. main_stream[j + 1].want = batch /\ TableServes((j + 1) - 1)
      BY <1>4, <1>10, <2>1 DEF LaunchedInv
    <3> QED
      BY <2>1, <3>1
  <2>3. TableServes(j - 1)'
    BY <1>9, <2>1, <2>2
  <2> QED
    BY <1>1, <1>4, <2>1, <2>2, <2>3
<1>11. ASSUME table_fresh' PROVE TableServes(Len(main_stream))' /\ TableIsHeld'
  <2>1. TableServes(n) /\ TableIsHeld
    BY <1>1, <1>3, <1>11 DEF LaunchedInv
  <2>2. PICK m \in 0 .. n - 1 : m + 1 = n
    <3>1. n - 1 \in 0 .. n - 1 /\ (n - 1) + 1 = n
      OBVIOUS
    <3> QED
      BY <3>1
  <2>3. TableServes(m)' /\ Len(main_stream') = m
    BY <1>4, <1>9, <2>1, <2>2
  <2>4. TableIsHeld'
    BY <1>1, <2>1 DEF TableIsHeld, Contains
  <2> QED
    BY <2>3, <2>4 DEF TableServes, SegmentServes, WillHold
<1> QED
  BY <1>10, <1>11 DEF LaunchedInv

(* Copies into a slot the table points at bring what is there already. *)
LEMMA PrefetchStreamLaunched ==
  ASSUME TypeOK, StagingInv, LaunchedInv, PrefetchStreamStep
  PROVE  LaunchedInv'
<1>1. UNCHANGED <<entries, registered, slot_adapter_id, main_stream, dev_mem, segments,
                  num_segments, batch, table_fresh>>
  BY DEF PrefetchStreamStep, tableVars, clientVars
<1>2. prefetch_stream \in Seq(Requests) /\ prefetch_stream # << >>
  BY DEF TypeOK, PrefetchStreamStep
<1>3. PICK n \in Nat \ {0} :
        /\ DOMAIN prefetch_stream = 1 .. n
        /\ Head(prefetch_stream) = prefetch_stream[1]
        /\ prefetch_stream[1] \in Requests
        /\ DOMAIN Tail(prefetch_stream) = 1 .. n - 1
        /\ \A k \in 1 .. n - 1 : Tail(prefetch_stream)[k] = prefetch_stream[k + 1]
  BY <1>2
<1>4. ASSUME NEW k \in DOMAIN prefetch_stream'
      PROVE  \E l \in DOMAIN prefetch_stream :
               /\ prefetch_stream'[k].slot = prefetch_stream[l].slot
               /\ prefetch_stream'[k].src = prefetch_stream[l].src
  <2>1. CASE prefetch_stream' = Tail(prefetch_stream)
    <3>1. k \in 1 .. n - 1 /\ k + 1 \in 1 .. n
      BY <1>3, <1>4, <2>1
    <3> QED
      BY <1>3, <2>1, <3>1
  <2>2. ASSUME NEW x, prefetch_stream' = [prefetch_stream EXCEPT ![1].step = x]
        PROVE  /\ k \in DOMAIN prefetch_stream
               /\ prefetch_stream'[k].slot = prefetch_stream[k].slot
               /\ prefetch_stream'[k].src = prefetch_stream[k].src
    <3>1. /\ [prefetch_stream[1] EXCEPT !.step = x].slot = prefetch_stream[1].slot
          /\ [prefetch_stream[1] EXCEPT !.step = x].src = prefetch_stream[1].src
      BY <1>3 DEF Requests
    <3>2. prefetch_stream' = [prefetch_stream EXCEPT ![1] = [prefetch_stream[1] EXCEPT !.step = x]]
      BY <2>2
    <3> QED
      BY <1>3, <1>4, <3>1, <3>2
  <2> QED
    BY <2>1, <2>2 DEF PrefetchStreamStep
<1>5. SlotsKept
  <2> SUFFICES ASSUME NEW i \in 1 .. Len(batch), NEW s, NEW b, NEW v,
                      b = batch[i].adapter_id, SlotServes(s, b, v)
               PROVE  SlotServes(s, b, v)'
    BY DEF SlotsKept
  <2>1. b \in Adapters
    BY BatchAdapter
  <2>2. dev_mem[entries[b]] = v
    BY <2>1, RegisteredInMemory DEF StagingInv, SourceSettled, SlotServes
  <2>3. prefetch_stream[1].slot = s => dev_mem[prefetch_stream[1].src] = v
    BY <1>3, <2>2 DEF SlotServes
  <2>4. a_buf'[s] = v /\ b_buf'[s] = v
    BY <1>3, <2>3 DEF SlotServes, PrefetchStreamStep, stagedVars, TypeOK, Requests
  <2>5. \A k \in DOMAIN prefetch_stream' :
          prefetch_stream'[k].slot = s => prefetch_stream'[k].src = entries[b]
    BY <1>4 DEF SlotServes
  <2> QED
    BY <1>1, <2>4, <2>5 DEF SlotServes
<1> QED
  BY <1>1, <1>5, StreamUntouched

(* A new table is written over an idle main stream. *)
LEMMA BuildLaunched ==
  ASSUME EveryPrecaution, TypeOK, StagingInv, NEW ids \in Batches, BuildSegments(ids)
  PROVE  LaunchedInv'
<1>1. main_stream = << >> /\ main_stream' = << >>
      /\ UNCHANGED <<entries, registered, poolVars, stagedVars, dev_mem>>
  BY DEF BuildSegments, EveryPrecaution, AllRules, Obeys
<1> DEFINE unknown == {i \in DOMAIN ids : ~Contains(ids[i])}
<1>2. table_fresh' = (unknown = {})
  BY DEF BuildSegments
<1>3. ASSUME unknown = {} PROVE TableServes(0)' /\ TableIsHeld'
  <2>1. PICK n \in Nat : /\ n <= MaxSegments /\ Len(ids) = n /\ DOMAIN ids = 1 .. n
                         /\ \A i \in 1 .. n : ids[i] \in Adapters /\ Contains(ids[i])
    BY <1>3, ExtensionAssumption DEF Batches
  <2>2. /\ num_segments' = n
        /\ batch' = [i \in 1 .. n |-> [adapter_id |-> ids[i], version |-> registered[ids[i]]]]
        /\ \A i \in 1 .. n : segments'[i] = Describe(ids[i])
    BY <1>3, <2>1, ExtensionAssumption DEF BuildSegments
  <2>3. Len(batch') = n /\ \A i \in 1 .. n : /\ batch'[i].adapter_id = ids[i]
                                              /\ batch'[i].version = registered[ids[i]]
    BY <2>1, <2>2
  <2>4. ASSUME NEW i \in 1 .. n
        PROVE  /\ SegmentServes(segments[i], batch[i], 0)'
               /\ ~segments'[i].use_staging => segments'[i].ptr = entries[ids[i]]
    <3>1. PICK a \in Adapters : a = ids[i] /\ Contains(a)
      BY <2>1
    <3>2. segments'[i] = Describe(a) /\ batch'[i].adapter_id = a /\ batch'[i].version = registered[a]
      BY <2>2, <2>3, <3>1
    <3>3. PICK s : s = FindSlotForAdapter(a)
      OBVIOUS
    <3>4. CASE IsReady(s)
      <4>1. s \in Slots /\ slot_adapter_id[s] = a
        BY <3>3, <3>4, FindSlotType, ExtensionAssumption DEF IsReady, OwnedBy, Slots, NoSlot
      <4>2. /\ ~EventPending(s) /\ a_buf[s] = registered[a] /\ b_buf[s] = registered[a]
        BY <3>4, <4>1 DEF IsReady, StagingInv, LastCopyIsCurrent
      <4>3. segments'[i].use_staging /\ segments'[i].staging = s /\ segments'[i].adapter_id = a
        BY <3>2, <3>3, <3>4 DEF Describe
      <4>4. SlotServes(s, a, registered[a])
        BY <4>1, <4>2 DEF SlotServes, EventPending
      <4> QED
        BY <1>1, <3>2, <4>3, <4>4 DEF SegmentServes, SlotServes, poolVars, stagedVars
    <3>5. CASE ~IsReady(s)
      <4>1. ~segments'[i].use_staging /\ segments'[i].ptr = entries[a] /\ segments'[i].adapter_id = a
        BY <3>2, <3>3, <3>5 DEF Describe, Lookup
      <4>2. entries[a] \in Addrs
        BY <3>1 DEF Contains, TypeOK
      <4>3. dev_mem[entries[a]] = registered[a]
        BY <1>1, <3>1, RegisteredInMemory DEF StagingInv, Settled
      <4> QED
        BY <1>1, <3>1, <3>2, <4>1, <4>2, <4>3 DEF SegmentServes, WillHold
    <3> QED
      BY <3>4, <3>5
  <2>5. TableServes(0)'
    BY <2>2, <2>3, <2>4 DEF TableServes
  <2>6. TableIsHeld'
    BY <1>1, <2>1, <2>3, <2>4 DEF TableIsHeld, Contains
  <2> QED
    BY <2>5, <2>6
<1>4. Len(main_stream') = 0
  BY <1>1
<1>5. table_fresh' => TableServes(Len(main_stream))' /\ TableIsHeld'
  BY <1>2, <1>3, <1>4 DEF TableServes, SegmentServes, WillHold
<1> QED
  BY <1>1, <1>5 DEF LaunchedInv

-----------------------------------------------------------------------------
LEMMA LaunchedInductive ==
  ASSUME EveryPrecaution, TypeOK, StagingInv, LaunchedInv, [Next]_vars
  PROVE  LaunchedInv'
<1>1. ASSUME NEW a \in Adapters, \/ RegisterAdapter(a) \/ EvictAdapter(a)
                                 \/ PrefetchAdapter(a) \/ ReleasePrefetch(a)
      PROVE  LaunchedInv'
  BY <1>1, RegisterLaunched, EvictLaunched, PrefetchLaunched, ReleaseLaunched
<1>2. ASSUME NEW ids \in Batches, BuildSegments(ids) PROVE LaunchedInv'
  BY <1>2, BuildLaunched
<1>3. ASSUME NEW kernel \in {"shrink", "expand"}, Launch(kernel) PROVE LaunchedInv'
  BY <1>3, LaunchLaunched
<1>4. ASSUME MainStreamStep \/ PrefetchStreamStep PROVE LaunchedInv'
  BY <1>4, MainStreamLaunched, PrefetchStreamLaunched
<1>5. ASSUME UNCHANGED vars PROVE LaunchedInv'
  <2>1. UNCHANGED <<entries, registered, poolVars, stagedVars, main_stream, dev_mem, segments,
                    num_segments, batch, table_fresh>>
    BY <1>5 DEF vars, tableVars, clientVars
  <2>2. SlotsKept
    BY <2>1 DEF SlotsKept, SlotServes, poolVars, stagedVars
  <2> QED
    BY <2>1, <2>2, StreamUntouched
<1> QED
  BY <1>1, <1>2, <1>3, <1>4, <1>5 DEF Next

(* The kernel at the head of the stream has nothing left to wait for. *)
LEMMA HeadReads ==
  ASSUME TypeOK, LaunchedInv
  PROVE  KernelReadsRegisteredWeights
<1> SUFFICES ASSUME main_stream # << >>, Head(main_stream).op # "write"
             PROVE  ReadsWhatWasAsked(Head(main_stream))
  BY DEF KernelReadsRegisteredWeights
<1>1. 1 \in DOMAIN main_stream /\ Head(main_stream) = main_stream[1]
  BY DEF TypeOK
<1>2. Head(main_stream).want = batch /\ TableServes(0)
  <2>1. main_stream[1].want = batch /\ TableServes(1 - 1)
    BY <1>1 DEF LaunchedInv
  <2> QED
    BY <1>1, <2>1
<1>3. num_segments = Len(batch)
  BY <1>2 DEF TableServes
<1>4. ASSUME NEW i \in 1 .. num_segments, NEW half \in {"A", "B"}
      PROVE  /\ segments[i].adapter_id = batch[i].adapter_id
             /\ WeightsRead(segments[i], half) = batch[i].version
  <2>1. SegmentServes(segments[i], batch[i], 0)
    BY <1>2, <1>3 DEF TableServes
  <2>2. CASE segments[i].use_staging
    BY <2>1, <2>2 DEF SegmentServes, SlotServes, WeightsRead
  <2>3. CASE ~segments[i].use_staging
    BY <2>1, <2>3 DEF SegmentServes, WillHold, WeightsRead
  <2> QED
    BY <2>1, <2>2, <2>3 DEF SegmentServes
<1> QED
  BY <1>2, <1>3, <1>4 DEF ReadsWhatWasAsked

(* Under a caller that takes every precaution, a shrink or expand kernel      *)
(* reads for each segment the weights its adapter had when the table was      *)
(* built, staged or not, however calls and the two streams interleave         *)
(* (bgmv_shrink_kernel, bgmv_expand_kernel, build_segments).                  *)
THEOREM KernelReadsSafe ==
  ASSUME EveryPrecaution
  PROVE  Spec => []KernelReadsRegisteredWeights
<1>1. CarefulStaging
  BY DEF EveryPrecaution, AllRules, CarefulStaging
<1>2. Init => TypeOK /\ StagingInv /\ LaunchedInv
  BY InitType, InitStaging, LaunchedStarts
<1>3. TypeOK /\ StagingInv /\ LaunchedInv /\ [Next]_vars => LaunchedInv'
  BY LaunchedInductive
<1>4. TypeOK /\ LaunchedInv => KernelReadsRegisteredWeights
  BY HeadReads
<1> QED
  BY <1>1, <1>2, <1>3, <1>4, StagingInductive, TypeCorrect, PTL DEF Spec
=============================================================================
