CONSTANTS
  Procs = {"p1"}
  Rows <- TwoRows
  Configs = {"A", "B"}
  Fractions = {"0.5", "1.0"}
  Commands <- SelectedScreen
  Parsed <- TwoRows
  Candidates <- TwoRows
  Eligible <- TwoRows
  MaxSelected = 1
  MinEligible = 1
  MaxStarts = 7
  MaxInterrupts = 1
  MaxEdits = 1
  EditWhileRunning = FALSE
SPECIFICATION Spec
INVARIANTS
  CompletedRunIsComplete
  AcceptedPopulation
  AcceptedProbes
  RecordsAreUnique
  ProbesHaveOneIdentity
CHECK_DEADLOCK FALSE
