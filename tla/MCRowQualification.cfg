CONSTANTS
  Eligible <- Level5
  Configs = {1, 2}
  HashRank <- Opposite
  Dataset <- OneDataset
  CandidateCount = 2
  MinimumEvents = 3
  Generations <- TwoGenerations
  ChildOutcomes = {"equivalent", "no JSON"}
SPECIFICATION Spec
INVARIANTS
  SelectionIsFirstQualified
  UndecidedIsNeverSelected
  FrozenRowWasQualified
PROPERTIES
  PublishedEvidenceStays
  CommandsEnd
