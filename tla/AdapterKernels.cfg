CONSTANTS
  Producers = {p1, p2}
  Consumers = {c1, c2, c3, c4, c5, c6}
  NumTiles = 4
SPECIFICATION FairSpec
INVARIANTS
  TypeOK
  StageIsStableWhileRead
PROPERTIES
  ReducesEveryTileOnce
