CONSTANTS
  Adapters = {a1, a2}
  NoAdapter = none
  Addrs = {d1, d2}
  NoAddr = nil
  NumSlots = 2
  MaxSegments = 0
  ClientRules <- AnyCaller
  MaxVersion = 2
  MaxQueued = 1
  MaxCopies = 2
SPECIFICATION FairSpec
INVARIANTS
  SlotsHoldDistinctAdapters
  StoredPointersReachTheirWeights
PROPERTIES
  PrefetchBecomesReady
