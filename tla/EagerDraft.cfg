CONSTANTS
  Tokens <- MCTokens
  Target <- MCEagerTarget
  Prompts <- MCEagerPrompts
  Gamma = 2
  Rows = {1, 2}
  Routings <- MCRoutings
  NoLora = NoLora
  OutTokens = 3
  EOS = 1
  MaxIt = 3
  Iters = 2
SPECIFICATION FairSpec
INVARIANTS
  DraftSeesCommitted
