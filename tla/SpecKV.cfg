CONSTANTS
  Tokens <- MCTokens
  Target <- MCTarget
  Prompts <- MCPrompts
  Gamma = 2
  NNew = 4
SPECIFICATION Spec
INVARIANTS
  CommittedIsGreedy
