CONSTANTS
  MaxSegments = 2
  ScanSegments = 5
  MaxSegmentTokens = 3
  TokenChunk = 2
  Loras = {0, 1}
  Names = {n1, n2, n3}
  NoId = NoId
  NoName = NoName
  MaxRun = 3
  MaxAdapters = 2
  Readings = {0, 600, 1000}
  NoReading = NoReading
  CallArguments <- MCCallArguments
  MaxAsked = 2
  MaxTicks = 3
SYMMETRY NameSymmetry
SPECIFICATION Spec
INVARIANTS
  TypeOK
  SameTableAsSerial
  TableServesBatch
  IdsNameAdapters
  RegisteredRowsGetTheirAdapter
  PageRowsAreOfOneTick
  PageIsOfLastTick
  TileIsWarranted
