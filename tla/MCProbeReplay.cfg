CONSTANTS
  Budget = 3
  Window = 1
  DivideLength = 2
  Rows <- TwoRows
  Traces <- SmallTraces
  Rankings <- TwoRankings
  Denominator = 2
  ForcedTokens = 2
  MaxAnswer = 2
  AnswerLength <- LengthByCache
SPECIFICATION Spec
INVARIANTS
  ProbesAreReproducible
  OneAnchorPerTrace
  SnapshotsFollowTheBaseRun
  FrozenProbesAreUndisturbed
