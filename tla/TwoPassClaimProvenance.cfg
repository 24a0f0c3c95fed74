CONSTANTS
  Budget = 3
  Window = 1
  DivideLength = 2
  PromptLengths = {2, 3, 4, 5}
  MaxNewTokens = 6
  MinimumFutureTokens = 3
  ScoredHorizon = 2
  Targets = 1
  Draw = 1
SPECIFICATION Spec
INVARIANT ProvenanceAlwaysTrue
