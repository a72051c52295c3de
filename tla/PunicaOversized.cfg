CONSTANTS
  MaxSegments = 2
  MaxSegmentTokens = 2
  TokenChunk = 2
  Loras = {0, 1}
  Adapters = {a, b}
  NoAdapter = NoAdapter
  MaxNumSeqs = 3
  CaptureSizes = {3}
  CarefulOperator = TRUE
  MaxScratch = 2
SYMMETRY AdapterSymmetry
SPECIFICATION Spec
INVARIANTS
  RowsGetTheirAdapter
