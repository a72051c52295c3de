CONSTANTS
  Tokens <- MCTokens
  Target <- MCTarget
  Prompts <- MCPrompts
  Gamma = 2
  NNew = 4
  MaxCache = 8
SPECIFICATION Spec
INVARIANTS
  TypeOK
  DraftSeesCommitted
PROPERTIES
  CommitsGreedyTokens
