CONSTANTS
  Adapters = {a1, a2}
  NoAdapter = none
  Addrs = {d1, d2, d3}
  NoAddr = nil
  NumSlots = 1
  MaxSegments = 1
  ClientRules <- NeverReleases
  MaxVersion = 3
  MaxQueued = 2
  MaxCopies = 2
SPECIFICATION Spec
INVARIANTS
  StagedWeightsAreCurrent
