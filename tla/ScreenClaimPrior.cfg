CONSTANTS
  Procs = {"p1"}
  Rows <- TwoRows
  Configs = {"A", "B"}
  Fractions = {"1.0"}
  Commands <- ResumedGeneration
  Parsed <- TwoRows
  Candidates <- TwoRows
  Eligible <- TwoRows
  MaxSelected = 2
  MinEligible = 1
  MaxStarts = 2
  MaxInterrupts = 1
  MaxEdits = 0
  EditWhileRunning = FALSE
SPECIFICATION Spec
INVARIANT PriorRecordsSurvive
CHECK_DEADLOCK FALSE
