CONSTANTS
  Adapters = {a1, a2}
  NoAdapter = none
  Addrs = {d1, d2}
  NoAddr = nil
  NumSlots = 1
  MaxSegments = 2
  ClientRules <- CarefulCaller
  MaxVersion = 3
  MaxQueued = 2
  MaxCopies = 2
SPECIFICATION Spec
SYMMETRY Symmetry
INVARIANTS
  TypeOK
  StagedWeightsAreCurrent
  KernelReadsRegisteredWeights
