CONSTANTS
  MaxIOErrors = 3
  MaxFaults = 0
  Fragile <- NoFile
SPECIFICATION FairSpec
INVARIANTS
  NoOrphanWorker
  ReportedVerdictAgrees
  CleanDirectoryMeansSuccess
  FailureIsRecorded
PROPERTIES
  NothingAfterFinal
  Terminates
