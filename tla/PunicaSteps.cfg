CONSTANTS
  MaxSegments = 3
  MaxSegmentTokens = 2
  TokenChunk = 1
  Loras = {0, 1}
  Adapters = {a, b}
  NoAdapter = NoAdapter
  MaxNumSeqs = 3
  CaptureSizes = {2}
  CarefulOperator = TRUE
  MaxScratch = 2
SYMMETRY AdapterSymmetry
SPECIFICATION Spec
INVARIANTS
  TypeOK
  RowsGetTheirAdapter
  TableIsOfThisBatch
  CapturedScratchIsLive
PROPERTIES
  EngineCreatedEagerly
