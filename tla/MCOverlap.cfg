CONSTANTS
  Procs = {p1, p2}
  Rows <- TwoRows
  Configs = {"A"}
  Fractions = {"1.0"}
  Commands <- Overlapping
  Parsed <- TwoRows
  Candidates <- TwoRows
  Eligible <- TwoRows
  MaxSelected = 1
  MinEligible = 1
  MaxStarts = 4
  MaxInterrupts = 1
  MaxEdits = 0
  EditWhileRunning = FALSE
SYMMETRY ProcSymmetry
SPECIFICATION Spec
INVARIANTS
  AcceptedPopulation
PROPERTY ReadersSeeGrowth
CHECK_DEADLOCK FALSE
