CONSTANTS
  Events = 3
  RealPairs = 2
SPECIFICATION Spec
INVARIANTS
  EveryEntryIsAccounted
  EvidenceKeepsPairs
  GatesPassTheWholePlanOnly
  AbortNamesWhatRaised
  ClonesAreBounded
