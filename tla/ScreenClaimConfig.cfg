CONSTANTS
  Procs = {"p1"}
  Rows <- OneRow
  Configs = {"A", "B"}
  Fractions = {"1.0"}
  Commands <- ResumedGeneration
  Parsed <- OneRow
  Candidates <- OneRow
  Eligible <- OneRow
  MaxSelected = 2
  MinEligible = 1
  MaxStarts = 1
  MaxInterrupts = 0
  MaxEdits = 1
  EditWhileRunning = TRUE
SPECIFICATION Spec
INVARIANT RecordsNameTheirConfig
CHECK_DEADLOCK FALSE
