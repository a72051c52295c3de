CONSTANTS
  Tokens <- MCTokens
  Target <- MCTarget
  Prompts <- MCPrompts
  Gamma = 2
  Rows = {1, 2}
  Routings <- MCRoutings
  NoLora = NoLora
  Iters = 3
  MaxCache = 13
SPECIFICATION Spec
INVARIANTS
  TypeOK
  DraftSeesCommitted
  DraftIsRouted
  CountsCommitted
PROPERTIES
  RowsDecodeGreedily
