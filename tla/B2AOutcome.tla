------------------------------ MODULE B2AOutcome ------------------------------
(*****************************************************************************)
(* The attempt of B2AAttempt implements the promise of AttemptOutcome: the   *)
(* verdict is overall_passed, what is published is final.json, and the       *)
(* status is the exit code of the command.                                   *)
(*****************************************************************************)
EXTENDS B2AAttempt

Published ==
  IF disk[Final] = "verdict_passed" THEN "passed"
  ELSE IF disk[Final] = "verdict_failed" THEN "failed"
  ELSE "nothing"

Status ==
  IF pc # "exited" THEN "running"
  ELSE IF code = 0 THEN "success"
  ELSE IF code = 2 THEN "gate failure"
  ELSE IF code = 1 THEN "error"
  ELSE "dead"

Outcome == INSTANCE AttemptOutcome WITH verdict <- passed, published <- Published, status <- Status

(* Every behaviour of the attempt, whatever fails in it, is one the abstract *)
(* promise allows.                                                           *)
ImplementsOutcome == Outcome!Spec

-------------------------------------------------------------------------------
(* The inductive invariant behind ReportedVerdictAgrees and                  *)
(* ImplementsOutcome: how the verdict, the files that carry it, the records  *)
(* of failure and the exit code advance together.                            *)

Undecided ==
  BeforeTry \cup
    {"prompt", "command", "waiting", "stdout", "stderr", "termination", "judge", "store", "gate"}

CompletionWritten == {"prefinal", "references", "final", "verify_final"}

Decided == CompletionWritten \cup {"completion", "final_failed", "verify_failed"}

FinalMayExist == {"verify_final", "final_failed", "verify_failed", "catch", "finally", "exited"}

(* The verdict is open until the gates are evaluated.                        *)
VerdictWhenDecided ==
  /\ pc \in Undecided => passed = "undecided"
  /\ pc \in Decided => passed \in {"passed", "failed"}

(* final.json says what was decided, and exists only from its write on.      *)
FinalCarriesVerdict ==
  /\ disk[Final] \in {Absent, "verdict_passed", "verdict_failed"}
  /\ disk[Final] = "verdict_passed" => passed = "passed"
  /\ disk[Final] = "verdict_failed" => passed = "failed"
  /\ disk[Final] # Absent => pc \in FinalMayExist

(* A failure record is written on the way out and rules out codes 0 and 2.   *)
RecordsExcludeVerdict ==
  /\ disk[Failure] # Absent => pc \in {"finally", "exited"} /\ code \notin {0, 2}
  /\ \A r \in {FinalWriteFailure, FinalVerificationFailure} :
       disk[r] # Absent => pc \in {"catch", "finally", "exited"} /\ code \notin {0, 2}

CodeCarriesVerdict ==
  /\ code \in {0, 2} => pc \in {"finally", "exited"}
  /\ code = 0 => disk[Final] = "verdict_passed"
  /\ code = 2 => disk[Final] = "verdict_failed"

CompletionCarriesVerdict ==
  pc \in CompletionWritten \/ code \in {0, 2} =>
    disk[Completion] = GateOutcome \/ DamagedFile(Completion)

VerdictInv ==
  /\ VerdictWhenDecided
  /\ FinalCarriesVerdict
  /\ RecordsExcludeVerdict
  /\ CodeCarriesVerdict
  /\ CompletionCarriesVerdict
===============================================================================
