CONSTANTS
  MaxIOErrors = 1
  MaxFaults = 1
  Fragile <- FragileFiles
SPECIFICATION Spec
INVARIANTS
  PublishedPassIsJustified
  DamageEscapesOnlyInWindow
  PartialEvidenceIsKept
PROPERTIES
  ImplementsOutcome
