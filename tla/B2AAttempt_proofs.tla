--------------------------- MODULE B2AAttempt_proofs ---------------------------
(*****************************************************************************)
(* Proofs about B2AAttempt, for every bound on failures and every set of     *)
(* fragile files: the exit code, final.json, completion.json and the failure *)
(* records of an attempt never contradict each other, a worker outlives its  *)
(* command only if that was killed, and then no record of the worker and no  *)
(* verdict exists, and the attempt implements AttemptOutcome.  The second    *)
(* half is about what an attempt leaves behind: a published pass rests on    *)
(* evidence, a failure is on record, the FullKV result is kept for a worker  *)
(* that was terminated or left no result, nothing is written beside a        *)
(* published verdict, and what damage an exit code 0 can hide.               *)
(*****************************************************************************)
EXTENDS B2AOutcome, TLAPS

-------------------------------------------------------------------------------
(* The directory.                                                            *)

LEMMA NamedPaths ==
  /\ \A n \in TopNames : Top(n) \in Paths
  /\ \A r \in Roles, n \in WorkerNames : <<r, n>> \in Paths
BY DEF Paths, Top

LEMMA ArtifactPaths ==
  /\ Len(PostWorkerArtifacts) = 12
  /\ \A i \in 1..12 : PostWorkerArtifacts[i] \in Paths
<1>1. Len(PostWorkerArtifacts) = 12
  BY DEF PostWorkerArtifacts
<1>2. ASSUME NEW i \in 1..12 PROVE PostWorkerArtifacts[i] \in Paths
  <2>1. \/ i = 1 \/ i = 2 \/ i = 3 \/ i = 4 \/ i = 5 \/ i = 6
        \/ i = 7 \/ i = 8 \/ i = 9 \/ i = 10 \/ i = 11 \/ i = 12
    OBVIOUS
  <2>2. QED
    BY <2>1 DEF PostWorkerArtifacts, Paths, Top, Roles, TopNames, WorkerNames, PairNames
<1>3. QED
  BY <1>1, <1>2

(* A write, an append, or the failure of either keeps the directory typed.   *)
LEMMA WriteTyped ==
  ASSUME DirTypeOK, NEW p \in Paths, NEW c \in Contents, Writes(p, c) \/ WriteFails(p, c)
  PROVE  DirTypeOK'
BY MaxIOErrorsAssumption DEF DirTypeOK, Writes, WriteFails

LEMMA AppendTyped ==
  ASSUME DirTypeOK, NEW r \in Roles, NEW e,
         Appends(r, e) \/ AppendFails(r, e)
  PROVE  DirTypeOK'
<1> DEFINE j == <<r, "progress.jsonl">>
<1>1. j \in Paths
  BY NamedPaths DEF WorkerNames
<1>2. JournalAfter(disk[j], e) \in Contents
  BY <1>1 DEF DirTypeOK, JournalAfter, Contents, JournalStates, Absent
<1>3. "torn" \in Contents
  BY DEF Contents, JournalStates
<1>4. CASE Appends(r, e)
  BY <1>1, <1>2, <1>4 DEF DirTypeOK, Appends
<1>5. CASE AppendFails(r, e)
  <2>1. PICK c \in {disk[j], "torn", JournalAfter(disk[j], e)} : disk' = [disk EXCEPT ![j] = c]
    BY <1>5 DEF AppendFails
  <2>2. c \in Contents
    BY <1>1, <1>2, <1>3, <2>1 DEF DirTypeOK
  <2>3. QED
    BY <1>1, <1>5, <2>1, <2>2, MaxIOErrorsAssumption DEF DirTypeOK, AppendFails
<1>6. QED
  BY <1>4, <1>5

-------------------------------------------------------------------------------
(* Type correctness.                                                         *)

LEMMA WorkerTyped ==
  ASSUME TypeOK, WorkerStep, UNCHANGED role
  PROVE  DirTypeOK' /\ WorkerTypeOK'
<1> USE DEF TypeOK, WorkerTypeOK, RunningSteps
<1>p. /\ ResultFile \in Paths
      /\ EnvelopeFile \in Paths
  BY NamedPaths DEF ResultFile, EnvelopeFile, WorkerNames
<1>c. {Absent, "good", "weak", "success", "failure"} \subseteq Contents
  BY DEF Contents
<1>1. CASE WorkerStarts
  BY <1>1, AppendTyped DEF WorkerStarts, WorkerGoesTo
<1>2. ASSUME NEW r \in {"good", "weak"}, WorkerBodyReturns(r) PROVE DirTypeOK' /\ WorkerTypeOK'
  BY <1>2, AppendTyped DEF WorkerBodyReturns
<1>3. CASE WorkerBodyRaises
  <2>1. DirTypeOK'
    BY <1>3, AppendTyped DEF WorkerBodyRaises, DirTypeOK, dirVars
  <2>2. QED
    BY <2>1, <1>3 DEF WorkerBodyRaises, WorkerGoesTo
<1>4. CASE WorkerWritesResult
  BY <1>4, <1>p, <1>c, WriteTyped DEF WorkerWritesResult, WorkerGoesTo, WorkerExits
<1>5. CASE WorkerMarksResult
  BY <1>5, AppendTyped DEF WorkerMarksResult, WorkerGoesTo, WorkerExits
<1>6. CASE WorkerWritesEnvelope
  BY <1>6, <1>p, <1>c, WriteTyped DEF WorkerWritesEnvelope, WorkerGoesTo, WorkerExits
<1>7. CASE WorkerMarksEnvelope
  BY <1>7, AppendTyped DEF WorkerMarksEnvelope, WorkerGoesTo, WorkerExits
<1>8. CASE WorkerMarksFailure
  BY <1>8, AppendTyped DEF WorkerMarksFailure, WorkerGoesTo, WorkerExits
<1>9. CASE WorkerWritesFailureEnvelope
  BY <1>9, <1>p, <1>c, WriteTyped DEF WorkerWritesFailureEnvelope, WorkerGoesTo, WorkerExits
<1>10. CASE WorkerKilled
  BY <1>10 DEF WorkerKilled, WorkerExits, DirTypeOK, dirVars
<1>11. QED
  BY <1>1, <1>2, <1>3, <1>4, <1>5, <1>6, <1>7, <1>8, <1>9, <1>10 DEF WorkerStep

(* Moving on leaves everything but the directory typed.                      *)
LEMMA GotoTyped ==
  ASSUME TypeOK, DirTypeOK', NEW s \in Steps, Goto(s)
  PROVE  TypeOK'
BY DEF TypeOK, WorkerTypeOK, Goto, unchangedByGoto, workerVars

LEMMA RaiseTyped ==
  ASSUME TypeOK, DirTypeOK', NEW b \in BOOLEAN, Raise(b)
  PROVE  TypeOK'
BY DEF TypeOK, WorkerTypeOK, Raise, workerVars, Steps, InTry

LEMMA LeaveTyped ==
  ASSUME TypeOK, DirTypeOK', NEW c \in {Running, 0, 1, 2, Interrupted, Crashed},
         Leave(c) \/ Exit(c)
  PROVE  TypeOK'
BY DEF TypeOK, WorkerTypeOK, Leave, Exit, workerVars, Steps

LEMMA SameDirectoryTyped ==
  ASSUME DirTypeOK, UNCHANGED dirVars
  PROVE  DirTypeOK'
BY DEF DirTypeOK, dirVars

LEMMA InitTyped == Init => TypeOK
<1> SUFFICES ASSUME Init PROVE TypeOK
  OBVIOUS
<1>1. DirTypeOK
  BY MaxIOErrorsAssumption DEF Init, DirInit, DirTypeOK, Contents
<1>2. WorkerTypeOK
  BY DEF Init, WorkerInit, WorkerTypeOK, Roles
<1>3. next \in 1..Len(PostWorkerArtifacts)
  BY ArtifactPaths DEF Init
<1>4. refs \in [Paths -> Contents]
  BY DEF Init, Contents
<1>5. QED
  BY <1>1, <1>2, <1>3, <1>4 DEF Init, TypeOK, Steps, BeforeTry

LEMMA MainTyped ==
  ASSUME TypeOK, Main
  PROVE  TypeOK'
<1>d. DirTypeOK /\ role \in Roles
  BY DEF TypeOK, WorkerTypeOK
<1>s. /\ BeforeTry \cup InTry \cup {"finally", "exited"} = Steps
      /\ 0 \in {Running, 0, 1, 2, Interrupted, Crashed}
      /\ 1 \in {Running, 0, 1, 2, Interrupted, Crashed}
      /\ 2 \in {Running, 0, 1, 2, Interrupted, Crashed}
  BY DEF Steps
<1>c. /\ {"written", "clean", "dirty", "good", "weak", "success", "failure"} \subseteq Contents
      /\ {"envelope_seen", "no_envelope_seen", "with_fullkv", "without_fullkv"} \subseteq Contents
      /\ {"gate_passed", "gate_failed", "exception", "verdict_passed", "verdict_failed"}
           \subseteq Contents
      /\ Absent \in Contents
  BY DEF Contents
<1>p. /\ \A n \in {"invocation.json", "preflight.json", "provenance.json"} : Top(n) \in Paths
      /\ Completion \in Paths /\ Failure \in Paths /\ Final \in Paths
      /\ FinalWriteFailure \in Paths /\ FinalVerificationFailure \in Paths
      /\ \A n \in WorkerNames : <<role, n>> \in Paths
  BY <1>d, NamedPaths
  DEF TopNames, Completion, Failure, Final, FinalWriteFailure, FinalVerificationFailure
<1>w. /\ {"command.json", "stdout.log", "stderr.log", "termination.json"} \subseteq WorkerNames
  BY DEF WorkerNames
<1>1. CASE WriteInvocation
  <2>1. DirTypeOK'
    BY <1>1, <1>d, <1>c, <1>p, WriteTyped DEF WriteInvocation
  <2>2. QED
    BY <1>1, <2>1, <1>s, GotoTyped, LeaveTyped DEF WriteInvocation, BeforeTry
<1>2. CASE LoadConfigAndManifest
  BY <1>2, <1>d, <1>s, SameDirectoryTyped, GotoTyped DEF LoadConfigAndManifest, BeforeTry
<1>3. CASE CollectProvenance
  <2>1. DirTypeOK'
    BY <1>3, <1>d, <1>c, <1>p, WriteTyped, SameDirectoryTyped DEF CollectProvenance
  <2>2. QED
    BY <1>3, <2>1, <1>s, GotoTyped, LeaveTyped DEF CollectProvenance, BeforeTry
<1>4. CASE CheckRequest
  BY <1>4, <1>d, <1>s, SameDirectoryTyped, GotoTyped, LeaveTyped DEF CheckRequest, BeforeTry
<1>5. CASE RecordRefusal
  BY <1>5, <1>d, <1>c, <1>p, <1>s, WriteTyped, LeaveTyped DEF RecordRefusal
<1>6. CASE WritePreflight
  <2>1. DirTypeOK'
    BY <1>6, <1>d, <1>c, <1>p, WriteTyped DEF WritePreflight
  <2>2. QED
    BY <1>6, <2>1, <1>s, GotoTyped, LeaveTyped DEF WritePreflight, InTry
<1>7. CASE VerifyPromptIdentity
  BY <1>7, <1>d, <1>s, SameDirectoryTyped, GotoTyped, RaiseTyped DEF VerifyPromptIdentity, InTry
<1>8. CASE LaunchWorker
  <2>1. DirTypeOK'
    BY <1>8, <1>d, <1>c, <1>p, <1>w, WriteTyped DEF LaunchWorker
  <2>2. QED
    BY <1>8, <2>1, RaiseTyped
    DEF LaunchWorker, TypeOK, WorkerTypeOK, RunningSteps, Steps, InTry, Absent
<1>9. CASE CollectWorker
  BY <1>9, <1>d, SameDirectoryTyped
  DEF CollectWorker, TypeOK, WorkerTypeOK, workerVars, dirVars, Steps, InTry
<1>10. CASE TimeoutKillsWorker
  BY <1>10, <1>d, SameDirectoryTyped
  DEF TimeoutKillsWorker, WorkerExits, TypeOK, WorkerTypeOK, dirVars, Steps, InTry
<1>11. CASE PreserveStdout
  <2>1. DirTypeOK'
    BY <1>11, <1>d, <1>c, <1>p, <1>w, WriteTyped DEF PreserveStdout
  <2>2. QED
    BY <1>11, <2>1, <1>s, GotoTyped, RaiseTyped DEF PreserveStdout, InTry
<1>12. CASE PreserveStderr
  <2>1. DirTypeOK'
    BY <1>12, <1>d, <1>c, <1>p, <1>w, WriteTyped DEF PreserveStderr
  <2>2. QED
    BY <1>12, <2>1, <1>s, GotoTyped, RaiseTyped DEF PreserveStderr, InTry
<1>13. CASE RecordTermination
  <2>1. DirTypeOK'
    BY <1>13, <1>d, <1>c, <1>p, <1>w, WriteTyped, SameDirectoryTyped
    DEF RecordTermination, EnvelopeObservation
  <2>2. QED
    BY <1>13, <2>1, RaiseTyped DEF RecordTermination
<1>14. CASE JudgeWorker
  <2>1. CASE AcceptResult
    BY <2>1, <1>d, SameDirectoryTyped
    DEF AcceptResult, TypeOK, WorkerTypeOK, workerVars, dirVars, Steps, InTry, Roles
  <2>2. CASE RejectMissingResult \/ RejectResult
    BY <2>2, <1>d, SameDirectoryTyped, RaiseTyped DEF RejectMissingResult, RejectResult
  <2>3. QED
    BY <1>14, <2>1, <2>2 DEF JudgeWorker
<1>15. CASE StoreArtifact
  <2> DEFINE p == PostWorkerArtifacts[next]
             c == ArtifactContent(p)
  <2>1. p \in Paths
    BY ArtifactPaths DEF TypeOK
  <2>2. c \in Contents
    <3>1. CASE p[2] = "envelope.json"
      <4>1. p[1] \in Roles
        BY <2>1, <3>1 DEF Paths, TopNames, WorkerNames, PairNames, Roles
      <4>2. QED
        BY <4>1, <3>1, <1>d, NamedPaths DEF ArtifactContent, DirTypeOK, WorkerNames
    <3>2. CASE p[2] # "envelope.json"
      BY <3>2, <1>c DEF ArtifactContent, TypeOK
    <3>3. QED
      BY <3>1, <3>2
  <2>3. DirTypeOK'
    BY <1>15, <2>1, <2>2, <1>d, WriteTyped, SameDirectoryTyped DEF StoreArtifact
  <2>4. CASE Raise(FALSE)
    BY <2>3, <2>4, RaiseTyped
  <2>5. CASE ~Raise(FALSE)
    <3>1. /\ pc' \in Steps
          /\ next' = next \/ (next # Len(PostWorkerArtifacts) /\ next' = next + 1)
          /\ UNCHANGED <<role, mem, cause, passed, refs, partial, code, workerVars, damage>>
      BY <1>15, <2>5 DEF StoreArtifact, Steps, InTry
    <3>2. next' \in 1..Len(PostWorkerArtifacts)
      BY <3>1, ArtifactPaths DEF TypeOK
    <3>3. QED
      BY <2>3, <3>1, <3>2 DEF TypeOK, WorkerTypeOK, workerVars
  <2>6. QED
    BY <2>4, <2>5
<1>16. CASE EvaluateGates
  <2>1. DirTypeOK'
    BY <1>16, <1>d, SameDirectoryTyped DEF EvaluateGates, Decide, dirVars
  <2>2. CASE Raise(FALSE)
    BY <2>1, <2>2, RaiseTyped
  <2>3. CASE Decide("passed") \/ Decide("failed")
    BY <2>1, <2>3 DEF Decide, TypeOK, WorkerTypeOK, workerVars, Steps, InTry
  <2>4. QED
    BY <1>16, <2>2, <2>3 DEF EvaluateGates
<1>17. CASE WriteCompletion
  <2>1. DirTypeOK'
    BY <1>17, <1>d, <1>c, <1>p, WriteTyped DEF WriteCompletion, GateOutcome
  <2>2. QED
    BY <1>17, <2>1, <1>s, GotoTyped, RaiseTyped DEF WriteCompletion, InTry
<1>18. CASE VerifyPreFinal
  <2>1. Goto("references") \/ Raise(FALSE)
    BY <1>18 DEF VerifyPreFinal
  <2>2. QED
    BY <1>18, <2>1, <1>d, <1>s, SameDirectoryTyped, GotoTyped, RaiseTyped DEF VerifyPreFinal, InTry
<1>19. CASE BuildReferences
  <2>1. References \in [Paths -> Contents]
    BY <1>d, <1>c DEF References, DirTypeOK
  <2>2. QED
    BY <1>19, <2>1, <1>d, SameDirectoryTyped
    DEF BuildReferences, TypeOK, WorkerTypeOK, workerVars, dirVars, Steps, InTry
<1>20. CASE WriteFinal
  <2>1. DirTypeOK'
    BY <1>20, <1>d, <1>c, <1>p, WriteTyped, SameDirectoryTyped DEF WriteFinal, FinalContent
  <2>2. QED
    BY <1>20, <2>1, <1>s, GotoTyped DEF WriteFinal, InTry
<1>21. CASE RecordFinalWriteFailure
  BY <1>21, <1>d, <1>c, <1>p, WriteTyped, RaiseTyped DEF RecordFinalWriteFailure
<1>22. CASE VerifyFinal
  <2>1. Leave(0) \/ Leave(2) \/ Goto("verify_failed")
    BY <1>22 DEF VerifyFinal
  <2>2. QED
    BY <1>22, <2>1, <1>d, <1>s, SameDirectoryTyped, GotoTyped, LeaveTyped DEF VerifyFinal, InTry
<1>23. CASE RecordVerificationFailure
  BY <1>23, <1>d, <1>c, <1>p, WriteTyped, RaiseTyped DEF RecordVerificationFailure
<1>24. CASE CatchException
  <2>1. DirTypeOK'
    BY <1>24, <1>d, <1>c, <1>p, WriteTyped DEF CatchException, FailureContent
  <2>2. QED
    BY <1>24, <2>1, <1>s, LeaveTyped DEF CatchException
<1>25. CASE Finally
  <2>1. DirTypeOK'
    BY <1>25, <1>d, <1>c, <1>p, WriteTyped, SameDirectoryTyped DEF Finally, FallbackOutcome
  <2>2. code \in {Running, 0, 1, 2, Interrupted, Crashed}
    BY DEF TypeOK
  <2>3. QED
    BY <1>25, <2>1, <2>2, <1>s, LeaveTyped DEF Finally
<1>26. QED
  BY <1>1, <1>2, <1>3, <1>4, <1>5, <1>6, <1>7, <1>8, <1>9, <1>10, <1>11, <1>12, <1>13,
     <1>14, <1>15, <1>16, <1>17, <1>18, <1>19, <1>20, <1>21, <1>22, <1>23, <1>24, <1>25
  DEF Main

LEMMA NextTyped ==
  ASSUME TypeOK, [Next]_vars
  PROVE  TypeOK'
<1>1. CASE Main
  BY <1>1, MainTyped
<1>2. CASE Worker
  BY <1>2, WorkerTyped DEF Worker, TypeOK, mainVars
<1>3. CASE Interrupt
  <2>1. DirTypeOK'
    BY <1>3, SameDirectoryTyped DEF Interrupt, TypeOK, dirVars
  <2>2. WorkerTypeOK'
    BY <1>3 DEF Interrupt, TypeOK, WorkerTypeOK, WorkerExits, workerVars
  <2>3. QED
    BY <1>3, <2>1, <2>2 DEF Interrupt, TypeOK, Steps
<1>4. CASE Crash
  BY <1>4, SameDirectoryTyped, LeaveTyped DEF Crash, TypeOK
<1>5. CASE DiskFault
  <2>1. Fragile \subseteq Paths /\ {Absent, Altered} \subseteq Contents
    BY FaultsAssumption DEF Contents
  <2>2. DirTypeOK'
    BY <1>5, <2>1 DEF DiskFault, TypeOK, DirTypeOK
  <2>3. (damage \subseteq Paths \X Steps)'
    BY <1>5, <2>1 DEF DiskFault, TypeOK
  <2>4. QED
    BY <1>5, <2>2, <2>3 DEF DiskFault, TypeOK, WorkerTypeOK, mainVars, workerVars
<1>6. CASE Done \/ UNCHANGED vars
  BY <1>6 DEF Done, vars, dirVars, workerVars, mainVars, TypeOK, DirTypeOK, WorkerTypeOK
<1>7. QED
  BY <1>1, <1>2, <1>3, <1>4, <1>5, <1>6 DEF Next

(* Every file holds a content its readers know, and every step of the        *)
(* command is one of its steps: cmd_b2a_calibrate and everything it calls.   *)
THEOREM TypeCorrect == Spec => []TypeOK
<1>1. Init => TypeOK
  BY InitTyped
<1>2. TypeOK /\ [Next]_vars => TypeOK'
  BY NextTyped
<1>3. QED
  BY <1>1, <1>2, PTL DEF Spec

-------------------------------------------------------------------------------
(* No orphan worker.                                                         *)

OrphanInv ==
  /\ WorkerIsAwaited
  /\ code = Crashed => pc = "exited"

LEMMA OrphanStep ==
  ASSUME TypeOK, OrphanInv, [Next]_vars
  PROVE  OrphanInv'
<1> USE DEF OrphanInv, WorkerIsAwaited, WorkerRunning
<1>n. "idle" \notin RunningSteps /\ "exited" \notin RunningSteps
  BY DEF RunningSteps
<1>k. Crashed \notin {0, 1, 2, Interrupted}
  BY DEF Crashed, Interrupted
<1>1. CASE Main
  <2>1. pc # "exited" /\ code # Crashed
    BY <1>1
    DEF Main, WriteInvocation, LoadConfigAndManifest, CollectProvenance, CheckRequest,
        RecordRefusal, WritePreflight, VerifyPromptIdentity, LaunchWorker, CollectWorker,
        TimeoutKillsWorker, PreserveStdout, PreserveStderr, RecordTermination, JudgeWorker,
        StoreArtifact, EvaluateGates, WriteCompletion, VerifyPreFinal, BuildReferences,
        WriteFinal, RecordFinalWriteFailure, VerifyFinal, RecordVerificationFailure,
        CatchException, Finally
  <2>2. CASE LaunchWorker
    BY <2>1, <2>2, <1>n DEF LaunchWorker, Raise, workerVars
  <2>3. CASE CollectWorker
    BY <2>1, <2>3, <1>n DEF CollectWorker, workerVars
  <2>4. CASE TimeoutKillsWorker
    BY <2>1, <2>4, <1>n DEF TimeoutKillsWorker, WorkerExits
  <2>5. CASE \/ WriteInvocation \/ LoadConfigAndManifest \/ CollectProvenance \/ CheckRequest
             \/ RecordRefusal \/ WritePreflight \/ VerifyPromptIdentity
    BY <2>1, <2>5, <1>k
    DEF WriteInvocation, LoadConfigAndManifest, CollectProvenance, CheckRequest, RecordRefusal,
        WritePreflight, VerifyPromptIdentity, Goto, unchangedByGoto, Raise, Exit, workerVars
  <2>6. CASE \/ PreserveStdout \/ PreserveStderr \/ RecordTermination \/ JudgeWorker
    BY <2>1, <2>6
    DEF PreserveStdout, PreserveStderr, RecordTermination, JudgeWorker, AcceptResult,
        RejectMissingResult, RejectResult, Goto, unchangedByGoto, Raise, workerVars
  <2>7. CASE \/ StoreArtifact \/ EvaluateGates \/ WriteCompletion \/ VerifyPreFinal
             \/ BuildReferences \/ WriteFinal \/ RecordFinalWriteFailure
    BY <2>1, <2>7
    DEF StoreArtifact, EvaluateGates, Decide, WriteCompletion, VerifyPreFinal, BuildReferences,
        WriteFinal, RecordFinalWriteFailure, Goto, unchangedByGoto, Raise, workerVars
  <2>8. CASE VerifyFinal \/ RecordVerificationFailure \/ CatchException \/ Finally
    BY <2>1, <2>8, <1>k
    DEF VerifyFinal, RecordVerificationFailure, CatchException, Finally, Goto, unchangedByGoto,
        Raise, Leave, Exit, workerVars
  <2>9. QED
    BY <1>1, <2>2, <2>3, <2>4, <2>5, <2>6, <2>7, <2>8 DEF Main
<1>2. CASE Worker
  <2>1. WorkerRunning
    BY <1>2
    DEF Worker, WorkerStep, WorkerStarts, WorkerBodyReturns, WorkerBodyRaises, WorkerWritesResult,
        WorkerMarksResult, WorkerWritesEnvelope, WorkerMarksEnvelope, WorkerMarksFailure,
        WorkerWritesFailureEnvelope, WorkerKilled, RunningSteps
  <2>2. QED
    BY <1>2, <2>1 DEF Worker, mainVars
<1>3. CASE Interrupt
  BY <1>3, <1>n, <1>k DEF Interrupt, WorkerExits, workerVars
<1>4. CASE Crash
  BY <1>4 DEF Crash, Exit, workerVars
<1>5. CASE DiskFault \/ Done \/ UNCHANGED vars
  BY <1>5 DEF DiskFault, Done, vars, workerVars, mainVars
<1>6. QED
  BY <1>1, <1>2, <1>3, <1>4, <1>5 DEF Next

-------------------------------------------------------------------------------
(* What a step does to the files the verdict is read from.                   *)

VerdictFiles == FailureRecords \cup {Final, Completion}

LEMMA VerdictFilesDistinct ==
  /\ VerdictFiles \subseteq Paths
  /\ Final \notin FailureRecords \cup {Completion}
  /\ Completion \notin FailureRecords
  /\ Failure \notin {FinalWriteFailure, FinalVerificationFailure}
  /\ FinalWriteFailure # FinalVerificationFailure
BY DEF VerdictFiles, FailureRecords, Final, Completion, Failure, FinalWriteFailure,
       FinalVerificationFailure, Top, Paths, TopNames

LEMMA OtherFiles ==
  /\ \A n \in {"invocation.json", "provenance.json", "preflight.json"} : Top(n) \notin VerdictFiles
  /\ \A r \in Roles, n \in WorkerNames : <<r, n>> \notin VerdictFiles
BY DEF VerdictFiles, FailureRecords, Final, Completion, Failure, FinalWriteFailure,
       FinalVerificationFailure, Top, Roles

LEMMA OtherArtifacts == \A i \in 1..12 : PostWorkerArtifacts[i] \notin VerdictFiles
<1> SUFFICES ASSUME NEW i \in 1..12 PROVE PostWorkerArtifacts[i] \notin VerdictFiles
  OBVIOUS
<1>1. \/ i = 1 \/ i = 2 \/ i = 3 \/ i = 4 \/ i = 5 \/ i = 6
      \/ i = 7 \/ i = 8 \/ i = 9 \/ i = 10 \/ i = 11 \/ i = 12
  OBVIOUS
<1>2. QED
  BY <1>1 DEF PostWorkerArtifacts, VerdictFiles, FailureRecords, Final, Completion, Failure,
              FinalWriteFailure, FinalVerificationFailure, Top

(* A write touches its own file only.                                        *)
LEMMA WriteFrame ==
  ASSUME DirTypeOK, NEW p \in Paths, NEW c, Writes(p, c) \/ WriteFails(p, c)
  PROVE  /\ \A q \in Paths \ {p} : disk'[q] = disk[q]
         /\ disk[p] = Absent
         /\ disk'[p] \in {Absent, c}
BY DEF DirTypeOK, Writes, WriteFails

LEMMA WriteDone ==
  ASSUME DirTypeOK, NEW p \in Paths, NEW c, Writes(p, c)
  PROVE  disk'[p] = c
BY DEF DirTypeOK, Writes

SameVerdictFiles == \A q \in VerdictFiles : disk'[q] = disk[q]

LEMMA WorkerFrame ==
  ASSUME TypeOK, WorkerStep
  PROVE  SameVerdictFiles
<1>1. role \in Roles /\ DirTypeOK
  BY DEF TypeOK, WorkerTypeOK
<1> DEFINE Own == {<<role, "progress.jsonl">>, ResultFile, EnvelopeFile}
<1>2. Own \subseteq Paths /\ Own \cap VerdictFiles = {}
  BY <1>1, NamedPaths, OtherFiles DEF ResultFile, EnvelopeFile, WorkerNames
<1>3. ASSUME NEW e, Appends(role, e) PROVE SameVerdictFiles
  BY <1>1, <1>2, <1>3, VerdictFilesDistinct DEF Appends, DirTypeOK, SameVerdictFiles
<1>4. ASSUME NEW e, AppendFails(role, e) PROVE SameVerdictFiles
  <2>1. PICK c : disk' = [disk EXCEPT ![<<role, "progress.jsonl">>] = c]
    BY <1>4 DEF AppendFails
  <2>2. QED
    BY <1>1, <1>2, <2>1, VerdictFilesDistinct DEF DirTypeOK, SameVerdictFiles
<1>5. ASSUME NEW p \in Own, NEW c, Writes(p, c) \/ WriteFails(p, c) PROVE SameVerdictFiles
  BY <1>1, <1>2, <1>5, WriteFrame, VerdictFilesDistinct DEF SameVerdictFiles
<1>6. ASSUME UNCHANGED dirVars PROVE SameVerdictFiles
  BY <1>6 DEF dirVars, SameVerdictFiles
<1> HIDE DEF Own
<1>7. ResultFile \in Own /\ EnvelopeFile \in Own
  BY DEF Own
<1>8. QED
  BY <1>3, <1>4, <1>5, <1>6, <1>7
  DEF WorkerStep, WorkerStarts, WorkerBodyReturns, WorkerBodyRaises, WorkerWritesResult,
      WorkerMarksResult, WorkerWritesEnvelope, WorkerMarksEnvelope, WorkerMarksFailure,
      WorkerWritesFailureEnvelope, WorkerKilled

-------------------------------------------------------------------------------
(* Steps that leave the verdict and its files alone, by where they lead.     *)

Quiet == SameVerdictFiles /\ UNCHANGED <<passed, damage>>

LEMMA QuietFiles ==
  ASSUME Quiet
  PROVE  /\ disk'[Final] = disk[Final]
         /\ disk'[Completion] = disk[Completion]
         /\ disk'[Failure] = disk[Failure]
         /\ disk'[FinalWriteFailure] = disk[FinalWriteFailure]
         /\ disk'[FinalVerificationFailure] = disk[FinalVerificationFailure]
         /\ GateOutcome' = GateOutcome
         /\ DamagedFile(Completion)' = DamagedFile(Completion)
         /\ passed' = passed
BY DEF Quiet, SameVerdictFiles, VerdictFiles, FailureRecords, GateOutcome, DamagedFile

(* A quiet step between two steps before the verdict.                        *)
LEMMA QuietBefore ==
  ASSUME VerdictInv, Quiet, pc \in Undecided, pc' \in Undecided, code' = code
  PROVE  VerdictInv'
<1> USE QuietFiles DEF VerdictInv
<1>1. pc' \notin Decided \cup FinalMayExist /\ pc \notin Decided \cup FinalMayExist
  BY DEF Undecided, Decided, CompletionWritten, FinalMayExist, BeforeTry
<1>2. VerdictWhenDecided'
  BY <1>1 DEF VerdictWhenDecided
<1>3. FinalCarriesVerdict'
  BY <1>1 DEF FinalCarriesVerdict
<1>4. RecordsExcludeVerdict'
  BY <1>1 DEF RecordsExcludeVerdict, FinalMayExist
<1>5. CodeCarriesVerdict'
  BY <1>1 DEF CodeCarriesVerdict, FinalMayExist
<1>6. CompletionCarriesVerdict'
  BY <1>1, <1>5 DEF CompletionCarriesVerdict, CodeCarriesVerdict, Decided, FinalMayExist
<1>7. QED
  BY <1>2, <1>3, <1>4, <1>5, <1>6

(* A quiet step to the handlers: an exception is in flight.                  *)
LEMMA QuietRaise ==
  ASSUME VerdictInv, Quiet, pc \notin {"finally", "exited"}, pc' = "catch", code' = code
  PROVE  VerdictInv'
<1> USE QuietFiles DEF VerdictInv
<1>1. "catch" \notin Undecided \cup Decided \cup CompletionWritten /\ "catch" \in FinalMayExist
  BY DEF Undecided, Decided, CompletionWritten, FinalMayExist, BeforeTry
<1>2. VerdictWhenDecided'
  BY <1>1 DEF VerdictWhenDecided
<1>3. FinalCarriesVerdict'
  BY <1>1 DEF FinalCarriesVerdict
<1>4. RecordsExcludeVerdict'
  BY DEF RecordsExcludeVerdict
<1>5. CodeCarriesVerdict'
  BY DEF CodeCarriesVerdict
<1>6. CompletionCarriesVerdict'
  BY <1>1, <1>5 DEF CompletionCarriesVerdict, CodeCarriesVerdict
<1>7. QED
  BY <1>2, <1>3, <1>4, <1>5, <1>6

(* A quiet step out of the try block, or out of the process, with a code     *)
(* that reports no verdict.                                                  *)
LEMMA QuietExit ==
  ASSUME VerdictInv, Quiet, pc' \in {"finally", "exited"}, code' \notin {0, 2}
  PROVE  VerdictInv'
<1> USE QuietFiles DEF VerdictInv
<1>1. pc' \notin Undecided \cup Decided \cup CompletionWritten /\ pc' \in FinalMayExist
  BY DEF Undecided, Decided, CompletionWritten, FinalMayExist, BeforeTry
<1>2. VerdictWhenDecided'
  BY <1>1 DEF VerdictWhenDecided
<1>3. FinalCarriesVerdict'
  BY <1>1 DEF FinalCarriesVerdict
<1>4. RecordsExcludeVerdict'
  BY DEF RecordsExcludeVerdict
<1>5. CodeCarriesVerdict'
  BY DEF CodeCarriesVerdict
<1>6. CompletionCarriesVerdict'
  BY <1>1 DEF CompletionCarriesVerdict
<1>7. QED
  BY <1>2, <1>3, <1>4, <1>5, <1>6

(* A quiet step that does not move the command.                              *)
LEMMA QuietStay ==
  ASSUME VerdictInv, Quiet, pc' = pc, code' = code
  PROVE  VerdictInv'
BY QuietFiles
DEF VerdictInv, VerdictWhenDecided, FinalCarriesVerdict, RecordsExcludeVerdict, CodeCarriesVerdict,
    CompletionCarriesVerdict

(* A write of any other file is quiet as far as the files go.                *)
LEMMA OtherWrite ==
  ASSUME DirTypeOK, NEW p \in Paths \ VerdictFiles, NEW c, Writes(p, c) \/ WriteFails(p, c)
  PROVE  SameVerdictFiles
BY WriteFrame, VerdictFilesDistinct DEF SameVerdictFiles

LEMMA NoWrite ==
  ASSUME UNCHANGED dirVars
  PROVE  SameVerdictFiles
BY DEF dirVars, SameVerdictFiles

(* A quiet step between two steps after the verdict.                         *)
LEMMA QuietDecided ==
  ASSUME VerdictInv, Quiet, pc \in Decided, pc' \in Decided, code' = code,
         pc' \in CompletionWritten => pc \in CompletionWritten,
         pc \in FinalMayExist => pc' \in FinalMayExist
  PROVE  VerdictInv'
<1> USE QuietFiles DEF VerdictInv
<1>1. /\ pc \notin {"catch", "finally", "exited"} \cup Undecided
      /\ pc' \notin {"catch", "finally", "exited"} \cup Undecided
  BY DEF Undecided, Decided, CompletionWritten, BeforeTry
<1>2. VerdictWhenDecided'
  BY <1>1 DEF VerdictWhenDecided
<1>3. FinalCarriesVerdict'
  BY DEF FinalCarriesVerdict
<1>4. RecordsExcludeVerdict'
  BY <1>1 DEF RecordsExcludeVerdict
<1>5. CodeCarriesVerdict'
  BY <1>1 DEF CodeCarriesVerdict
<1>6. CompletionCarriesVerdict'
  BY <1>1, <1>5 DEF CompletionCarriesVerdict, CodeCarriesVerdict
<1>7. QED
  BY <1>2, <1>3, <1>4, <1>5, <1>6

(* A failure record, written on the way out with no verdict reported.        *)
LEMMA RecordStep ==
  ASSUME DirTypeOK, VerdictInv, NEW r \in FailureRecords, NEW c,
         Writes(r, c) \/ WriteFails(r, c), UNCHANGED <<passed, damage>>,
         code' \notin {0, 2}, pc \notin {"finally", "exited"},
         \/ pc' = "catch" /\ r # Failure
         \/ pc' \in {"finally", "exited"}
  PROVE  VerdictInv'
<1> USE DEF VerdictInv
<1>1. /\ \A q \in VerdictFiles \ {r} : disk'[q] = disk[q]
      /\ r \in VerdictFiles
  BY WriteFrame, VerdictFilesDistinct DEF VerdictFiles
<1>2. /\ pc' \notin Undecided \cup Decided \cup CompletionWritten
      /\ pc' \in FinalMayExist
  BY DEF Undecided, Decided, CompletionWritten, FinalMayExist, BeforeTry
<1>3. disk'[Final] = disk[Final]
  BY <1>1, VerdictFilesDistinct DEF VerdictFiles
<1>4. VerdictWhenDecided'
  BY <1>2 DEF VerdictWhenDecided
<1>5. FinalCarriesVerdict'
  BY <1>2, <1>3 DEF FinalCarriesVerdict
<1>6. RecordsExcludeVerdict'
  BY <1>1, VerdictFilesDistinct DEF RecordsExcludeVerdict, VerdictFiles, FailureRecords
<1>7. CodeCarriesVerdict' /\ CompletionCarriesVerdict'
  BY <1>2 DEF CodeCarriesVerdict, CompletionCarriesVerdict
<1>8. QED
  BY <1>4, <1>5, <1>6, <1>7

-------------------------------------------------------------------------------
(* Every step preserves VerdictInv.                                          *)

LEMMA VerdictMainBefore ==
  ASSUME TypeOK, VerdictInv,
         \/ WriteInvocation \/ LoadConfigAndManifest \/ CollectProvenance \/ CheckRequest
         \/ RecordRefusal \/ WritePreflight \/ VerifyPromptIdentity \/ LaunchWorker
         \/ CollectWorker \/ TimeoutKillsWorker \/ PreserveStdout \/ PreserveStderr
         \/ RecordTermination \/ JudgeWorker \/ StoreArtifact
  PROVE  VerdictInv'
<1>d. DirTypeOK /\ role \in Roles
  BY DEF TypeOK, WorkerTypeOK
<1>p. /\ \A n \in {"invocation.json", "provenance.json", "preflight.json"} :
           Top(n) \in Paths \ VerdictFiles
      /\ \A n \in WorkerNames : <<role, n>> \in Paths \ VerdictFiles
      /\ {"command.json", "stdout.log", "stderr.log", "termination.json"} \subseteq WorkerNames
  BY <1>d, NamedPaths, OtherFiles DEF TopNames, WorkerNames
<1>1. CASE WriteInvocation
  <2>1. Quiet
    BY <1>1, <1>d, <1>p, OtherWrite
    DEF WriteInvocation, Quiet, Goto, unchangedByGoto, Exit
  <2>2. QED
    BY <1>1, <2>1, QuietBefore, QuietExit
    DEF WriteInvocation, Goto, unchangedByGoto, Exit, Undecided, BeforeTry
<1>2. CASE LoadConfigAndManifest \/ VerifyPromptIdentity \/ CheckRequest
  <2>1. Quiet
    BY <1>2, NoWrite
    DEF LoadConfigAndManifest, VerifyPromptIdentity, CheckRequest, Quiet, Goto, unchangedByGoto,
        Raise, Exit
  <2>2. QED
    BY <1>2, <2>1, QuietBefore, QuietRaise, QuietExit
    DEF LoadConfigAndManifest, VerifyPromptIdentity, CheckRequest, Goto, unchangedByGoto, Raise,
        Exit, Undecided, BeforeTry
<1>3. CASE CollectProvenance
  <2>1. Quiet
    BY <1>3, <1>d, <1>p, OtherWrite, NoWrite
    DEF CollectProvenance, Quiet, Goto, unchangedByGoto, Exit
  <2>2. QED
    BY <1>3, <2>1, QuietBefore, QuietExit
    DEF CollectProvenance, Goto, unchangedByGoto, Exit, Undecided, BeforeTry
<1>4. CASE RecordRefusal
  BY <1>4, <1>d, RecordStep
  DEF RecordRefusal, Exit, FailureRecords, Undecided, BeforeTry
<1>5. CASE WritePreflight
  <2>1. Quiet
    BY <1>5, <1>d, <1>p, OtherWrite
    DEF WritePreflight, Quiet, Goto, unchangedByGoto, Exit
  <2>2. QED
    BY <1>5, <2>1, QuietBefore, QuietExit
    DEF WritePreflight, Goto, unchangedByGoto, Exit, Undecided, BeforeTry
<1>6. CASE LaunchWorker
  <2>1. Quiet
    BY <1>6, <1>d, <1>p, OtherWrite DEF LaunchWorker, Quiet, Raise
  <2>2. QED
    BY <1>6, <2>1, QuietBefore, QuietRaise DEF LaunchWorker, Raise, Undecided, BeforeTry
<1>7. CASE CollectWorker \/ TimeoutKillsWorker
  <2>1. Quiet
    BY <1>7, NoWrite DEF CollectWorker, TimeoutKillsWorker, Quiet, dirVars
  <2>2. QED
    BY <1>7, <2>1, QuietBefore DEF CollectWorker, TimeoutKillsWorker, Undecided, BeforeTry
<1>8. CASE PreserveStdout
  <2>1. Quiet
    BY <1>8, <1>d, <1>p, OtherWrite
    DEF PreserveStdout, Quiet, Goto, unchangedByGoto, Raise
  <2>2. QED
    BY <1>8, <2>1, QuietBefore, QuietRaise
    DEF PreserveStdout, Goto, unchangedByGoto, Raise, Undecided, BeforeTry
<1>9. CASE PreserveStderr
  <2>1. Quiet
    BY <1>9, <1>d, <1>p, OtherWrite
    DEF PreserveStderr, Quiet, Goto, unchangedByGoto, Raise
  <2>2. QED
    BY <1>9, <2>1, QuietBefore, QuietRaise
    DEF PreserveStderr, Goto, unchangedByGoto, Raise, Undecided, BeforeTry
<1>10. CASE RecordTermination
  <2>1. Quiet
    BY <1>10, <1>d, <1>p, OtherWrite, NoWrite DEF RecordTermination, Quiet, Raise
  <2>2. QED
    BY <1>10, <2>1, QuietRaise DEF RecordTermination, Raise
<1>11. CASE JudgeWorker
  <2>1. Quiet
    BY <1>11, NoWrite
    DEF JudgeWorker, AcceptResult, RejectMissingResult, RejectResult, Raise, Quiet, dirVars
  <2>2. QED
    BY <1>11, <2>1, QuietBefore, QuietRaise
    DEF JudgeWorker, AcceptResult, RejectMissingResult, RejectResult, Raise, Undecided, BeforeTry
<1>12. CASE StoreArtifact
  <2>1. PostWorkerArtifacts[next] \in Paths \ VerdictFiles
    BY ArtifactPaths, OtherArtifacts DEF TypeOK
  <2>2. Quiet
    BY <1>12, <2>1, <1>d, OtherWrite, NoWrite DEF StoreArtifact, Quiet, Raise
  <2>3. \/ pc' \in {"gate", "store"} /\ code' = code
        \/ pc' = "catch" /\ code' = code
    BY <1>12 DEF StoreArtifact, Raise
  <2>4. QED
    BY <1>12, <2>2, <2>3, QuietBefore, QuietRaise DEF StoreArtifact, Undecided, BeforeTry
<1>13. QED
  BY <1>1, <1>2, <1>3, <1>4, <1>5, <1>6, <1>7, <1>8, <1>9, <1>10, <1>11, <1>12

(* The completion, the verdict and final.json.                               *)
LEMMA VerdictCompletion ==
  ASSUME TypeOK, VerdictInv, WriteCompletion
  PROVE  VerdictInv'
<1> USE DEF VerdictInv
<1>1. DirTypeOK /\ Completion \in Paths
  BY VerdictFilesDistinct DEF TypeOK, VerdictFiles
<1>2. /\ \A q \in FailureRecords \cup {Final} : disk'[q] = disk[q]
      /\ UNCHANGED <<passed, damage, code>>
      /\ pc = "completion"
  BY <1>1, WriteFrame, VerdictFilesDistinct
  DEF WriteCompletion, VerdictFiles, Goto, unchangedByGoto, Raise
<1>3. \/ pc' = "prefinal" /\ disk'[Completion] = GateOutcome
      \/ pc' = "catch"
  BY <1>1, WriteDone DEF WriteCompletion, Goto, Raise
<1>4. pc' \notin Undecided /\ pc \notin FinalMayExist /\ pc \in Decided
  BY <1>2, <1>3 DEF Undecided, BeforeTry, FinalMayExist, Decided, CompletionWritten
<1>5. VerdictWhenDecided'
  BY <1>2, <1>4 DEF VerdictWhenDecided
<1>6. FinalCarriesVerdict'
  BY <1>2, <1>4 DEF FinalCarriesVerdict
<1>7. RecordsExcludeVerdict'
  BY <1>2, <1>4 DEF RecordsExcludeVerdict, FailureRecords, FinalMayExist
<1>8. CodeCarriesVerdict'
  BY <1>2, <1>4 DEF CodeCarriesVerdict, FinalMayExist
<1>9. CompletionCarriesVerdict'
  <2>1. code \notin {0, 2} /\ GateOutcome' = GateOutcome
    BY <1>2 DEF CodeCarriesVerdict, GateOutcome
  <2>2. "catch" \notin CompletionWritten
    BY DEF CompletionWritten
  <2>3. QED
    BY <1>2, <1>3, <2>1, <2>2 DEF CompletionCarriesVerdict
<1>10. QED
  BY <1>5, <1>6, <1>7, <1>8, <1>9

LEMMA VerdictGates ==
  ASSUME VerdictInv, EvaluateGates
  PROVE  VerdictInv'
<1>1. CASE Raise(FALSE)
  <2>1. Quiet
    BY <1>1, NoWrite DEF EvaluateGates, Decide, Raise, Quiet, dirVars
  <2>2. QED
    BY <1>1, <2>1, QuietRaise DEF EvaluateGates, Raise
<1>2. CASE Decide("passed") \/ Decide("failed")
  <2> USE DEF VerdictInv
  <2>1. /\ \A q \in VerdictFiles : disk'[q] = disk[q]
        /\ UNCHANGED <<damage, code>>
        /\ pc = "gate" /\ pc' = "completion"
        /\ passed' \in {"passed", "failed"}
    BY <1>2, NoWrite DEF EvaluateGates, Decide, SameVerdictFiles
  <2>2. /\ pc \notin FinalMayExist
        /\ pc' \notin Undecided \cup CompletionWritten
    BY <2>1 DEF Undecided, BeforeTry, FinalMayExist, CompletionWritten
  <2>3. VerdictWhenDecided'
    BY <2>1, <2>2 DEF VerdictWhenDecided
  <2>4. FinalCarriesVerdict'
    BY <2>1, <2>2 DEF FinalCarriesVerdict, VerdictFiles, Absent
  <2>5. RecordsExcludeVerdict'
    BY <2>1, <2>2 DEF RecordsExcludeVerdict, VerdictFiles, FailureRecords, FinalMayExist
  <2>6. CodeCarriesVerdict'
    BY <2>1, <2>2 DEF CodeCarriesVerdict, VerdictFiles, FinalMayExist
  <2>7. CompletionCarriesVerdict'
    BY <2>1, <2>2 DEF CompletionCarriesVerdict, CodeCarriesVerdict, FinalMayExist
  <2>8. QED
    BY <2>3, <2>4, <2>5, <2>6, <2>7
<1>3. QED
  BY <1>1, <1>2 DEF EvaluateGates

LEMMA VerdictPublish ==
  ASSUME TypeOK, VerdictInv, WriteFinal
  PROVE  VerdictInv'
<1> USE DEF VerdictInv
<1>1. DirTypeOK /\ Final \in Paths
  BY VerdictFilesDistinct DEF TypeOK, VerdictFiles
<1>2. /\ \A q \in FailureRecords \cup {Completion} : disk'[q] = disk[q]
      /\ UNCHANGED <<passed, damage, code>>
      /\ pc = "final" /\ pc' \in {"verify_final", "final_failed"}
      /\ disk'[Final] \in {disk[Final], FinalContent}
  BY <1>1, WriteFrame, NoWrite, VerdictFilesDistinct
  DEF WriteFinal, VerdictFiles, SameVerdictFiles, Goto, unchangedByGoto, DirTypeOK
<1>3. /\ pc \in Decided \cap CompletionWritten /\ pc \notin FinalMayExist
      /\ pc' \in Decided \cap FinalMayExist
      /\ pc' \notin Undecided
  BY <1>2 DEF Undecided, BeforeTry, Decided, CompletionWritten, FinalMayExist
<1>4. VerdictWhenDecided'
  BY <1>2, <1>3 DEF VerdictWhenDecided
<1>5. FinalCarriesVerdict'
  BY <1>2, <1>3 DEF FinalCarriesVerdict, VerdictWhenDecided, FinalContent
<1>6. RecordsExcludeVerdict'
  BY <1>2, <1>3 DEF RecordsExcludeVerdict, FailureRecords
<1>7. CodeCarriesVerdict'
  BY <1>2, <1>3 DEF CodeCarriesVerdict
<1>8. CompletionCarriesVerdict'
  <2>1. GateOutcome' = GateOutcome /\ DamagedFile(Completion)' = DamagedFile(Completion)
    BY <1>2 DEF GateOutcome, DamagedFile
  <2>2. QED
    BY <1>2, <1>3, <2>1 DEF CompletionCarriesVerdict
<1>9. QED
  BY <1>4, <1>5, <1>6, <1>7, <1>8

LEMMA VerdictReturn ==
  ASSUME VerdictInv, VerifyFinal
  PROVE  VerdictInv'
<1>1. Quiet
  BY NoWrite DEF VerifyFinal, Quiet, Goto, unchangedByGoto, Leave
<1>2. pc = "verify_final"
  BY DEF VerifyFinal
<1>3. CASE Goto("verify_failed")
  BY <1>1, <1>2, <1>3, QuietDecided
  DEF Goto, unchangedByGoto, Decided, CompletionWritten, FinalMayExist
<1>4. CASE ~Goto("verify_failed")
  <2> USE QuietFiles, <1>1 DEF VerdictInv
  <2>1. /\ verify_final_reference_manifest(refs)
        /\ pc' = "finally"
        /\ code' = IF passed = "passed" THEN 0 ELSE 2
    BY <1>4 DEF VerifyFinal, Leave
  <2>2. /\ passed \in {"passed", "failed"}
        /\ disk[Final] = IF passed = "passed" THEN "verdict_passed" ELSE "verdict_failed"
    BY <1>2, <2>1
    DEF VerdictWhenDecided, FinalCarriesVerdict, verify_final_reference_manifest, Decided,
        CompletionWritten
  <2>3. VerdictWhenDecided' /\ FinalCarriesVerdict'
    BY <2>1, <2>2
    DEF VerdictWhenDecided, FinalCarriesVerdict, Undecided, BeforeTry, Decided, CompletionWritten,
        FinalMayExist
  <2>4. RecordsExcludeVerdict'
    BY <1>2, <2>1 DEF RecordsExcludeVerdict
  <2>5. CodeCarriesVerdict'
    BY <2>1, <2>2 DEF CodeCarriesVerdict
  <2>6. CompletionCarriesVerdict'
    BY <1>2, <2>1 DEF CompletionCarriesVerdict, CompletionWritten
  <2>7. QED
    BY <2>3, <2>4, <2>5, <2>6
<1>5. QED
  BY <1>3, <1>4

(* The finally of the command: completion.json is written only where it is   *)
(* missing, which after a verdict means that it was lost.                    *)
LEMMA VerdictFinally ==
  ASSUME TypeOK, VerdictInv, Finally
  PROVE  VerdictInv'
<1> USE DEF VerdictInv
<1>1. DirTypeOK /\ Completion \in Paths
  BY VerdictFilesDistinct DEF TypeOK, VerdictFiles
<1>2. /\ \A q \in FailureRecords \cup {Final} : disk'[q] = disk[q]
      /\ UNCHANGED <<passed, damage>>
      /\ pc = "finally" /\ pc' = "exited"
      /\ code' \in {code, 1}
  BY <1>1, WriteFrame, NoWrite, VerdictFilesDistinct
  DEF Finally, VerdictFiles, SameVerdictFiles, Exit
<1>3. VerdictWhenDecided' /\ FinalCarriesVerdict'
  BY <1>2
  DEF VerdictWhenDecided, FinalCarriesVerdict, Undecided, BeforeTry, Decided, CompletionWritten,
      FinalMayExist
<1>4. RecordsExcludeVerdict' /\ CodeCarriesVerdict'
  BY <1>2 DEF RecordsExcludeVerdict, CodeCarriesVerdict, FailureRecords
<1>5. CompletionCarriesVerdict'
  <2>1. GateOutcome' = GateOutcome /\ DamagedFile(Completion)' = DamagedFile(Completion)
    BY <1>2 DEF GateOutcome, DamagedFile
  <2>2. SUFFICES ASSUME code' \in {0, 2}, ~DamagedFile(Completion)
                 PROVE  disk'[Completion] = GateOutcome
    BY <1>2, <2>1 DEF CompletionCarriesVerdict, CompletionWritten
  <2>3. disk[Completion] = GateOutcome
    BY <1>2, <2>2 DEF CompletionCarriesVerdict
  <2>4. disk[Completion] # Absent
    BY <2>3 DEF GateOutcome, Absent
  <2>5. UNCHANGED dirVars
    BY <2>4 DEF Finally, Writes, WriteFails
  <2>6. QED
    BY <2>3, <2>5 DEF dirVars
<1>6. QED
  BY <1>3, <1>4, <1>5

LEMMA VerdictMain ==
  ASSUME TypeOK, VerdictInv, Main
  PROVE  VerdictInv'
<1>1. CASE VerifyPreFinal
  <2>1. Quiet
    BY <1>1, NoWrite DEF VerifyPreFinal, Quiet, Goto, unchangedByGoto, Raise
  <2>2. QED
    BY <1>1, <2>1, QuietDecided, QuietRaise
    DEF VerifyPreFinal, Goto, unchangedByGoto, Raise, Decided, CompletionWritten, FinalMayExist
<1>2. CASE BuildReferences
  <2>1. Quiet
    BY <1>2, NoWrite DEF BuildReferences, Quiet
  <2>2. QED
    BY <1>2, <2>1, QuietDecided DEF BuildReferences, Decided, CompletionWritten, FinalMayExist
<1>3. CASE RecordFinalWriteFailure \/ RecordVerificationFailure
  <2>1. DirTypeOK
    BY DEF TypeOK
  <2>2. pc \in {"final_failed", "verify_failed"} /\ code \notin {0, 2}
    BY <1>3 DEF RecordFinalWriteFailure, RecordVerificationFailure, VerdictInv, CodeCarriesVerdict
  <2>3. QED
    BY <1>3, <2>1, <2>2, RecordStep, VerdictFilesDistinct
    DEF RecordFinalWriteFailure, RecordVerificationFailure, Raise, FailureRecords
<1>4. CASE CatchException
  <2>1. DirTypeOK
    BY DEF TypeOK
  <2>2. QED
    BY <1>4, <2>1, RecordStep DEF CatchException, Leave, FailureRecords
<1>5. QED
  BY <1>1, <1>2, <1>3, <1>4, VerdictMainBefore, VerdictGates, VerdictCompletion, VerdictPublish,
     VerdictReturn, VerdictFinally DEF Main

LEMMA VerdictFault ==
  ASSUME TypeOK, VerdictInv, DiskFault
  PROVE  VerdictInv'
<1> USE DEF VerdictInv
<1>1. PICK p \in Fragile, c \in {Absent, Altered} :
        /\ disk[p] \notin {Absent, Altered}
        /\ disk' = [disk EXCEPT ![p] = c]
        /\ damage' = damage \cup {<<p, pc>>}
  BY DEF DiskFault
<1>2. p \in Paths \ {Final} /\ pc \in Steps
  BY FaultsAssumption DEF TypeOK
<1>3. /\ \A q \in Paths \ {p} : disk'[q] = disk[q]
      /\ disk[p] # Absent
      /\ UNCHANGED <<pc, passed, code>>
  BY <1>1, <1>2 DEF TypeOK, DirTypeOK, DiskFault, mainVars
<1>4. disk'[Final] = disk[Final]
  BY <1>2, <1>3, VerdictFilesDistinct DEF VerdictFiles
<1>5. VerdictWhenDecided' /\ FinalCarriesVerdict' /\ CodeCarriesVerdict'
  BY <1>3, <1>4 DEF VerdictWhenDecided, FinalCarriesVerdict, CodeCarriesVerdict
<1>6. \A r \in FailureRecords : disk'[r] # Absent => disk[r] # Absent
  BY <1>3, VerdictFilesDistinct DEF VerdictFiles
<1>7. RecordsExcludeVerdict'
  BY <1>3, <1>6 DEF RecordsExcludeVerdict, FailureRecords
<1>8. CompletionCarriesVerdict'
  <2>1. GateOutcome' = GateOutcome
    BY <1>3 DEF GateOutcome
  <2>2. CASE p = Completion
    BY <1>1, <1>2, <2>2 DEF CompletionCarriesVerdict, DamagedFile
  <2>3. CASE p # Completion
    <3>1. disk'[Completion] = disk[Completion]
      BY <1>3, <2>3, VerdictFilesDistinct DEF VerdictFiles
    <3>2. DamagedFile(Completion) => DamagedFile(Completion)'
      BY <1>1 DEF DamagedFile
    <3>3. QED
      BY <1>3, <2>1, <3>1, <3>2 DEF CompletionCarriesVerdict
  <2>4. QED
    BY <2>2, <2>3
<1>9. QED
  BY <1>5, <1>7, <1>8

LEMMA VerdictStep ==
  ASSUME TypeOK, VerdictInv, [Next]_vars
  PROVE  VerdictInv'
<1>1. CASE Worker
  BY <1>1, WorkerFrame, QuietStay DEF Worker, Quiet, mainVars
<1>2. CASE Interrupt
  <2>1. Quiet
    BY <1>2, NoWrite DEF Interrupt, Quiet
  <2>2. QED
    BY <1>2, <2>1, QuietExit DEF Interrupt, Interrupted
<1>3. CASE Crash
  <2>1. Quiet
    BY <1>3, NoWrite DEF Crash, Quiet, Exit
  <2>2. QED
    BY <1>3, <2>1, QuietExit DEF Crash, Exit, Crashed
<1>4. CASE Done \/ UNCHANGED vars
  <2>1. Quiet /\ pc' = pc /\ code' = code
    BY <1>4, NoWrite DEF Done, vars, mainVars, Quiet
  <2>2. QED
    BY <2>1, QuietStay
<1>5. QED
  BY <1>1, <1>2, <1>3, <1>4, VerdictMain, VerdictFault DEF Next

LEMMA VerdictInit == Init => VerdictInv
<1> SUFFICES ASSUME Init PROVE VerdictInv
  OBVIOUS
<1>1. \A q \in VerdictFiles : disk[q] = Absent
  BY VerdictFilesDistinct DEF Init, DirInit
<1>2. QED
  BY <1>1
  DEF Init, VerdictInv, VerdictWhenDecided, FinalCarriesVerdict, RecordsExcludeVerdict,
      CodeCarriesVerdict, CompletionCarriesVerdict, VerdictFiles, FailureRecords, Decided,
      CompletionWritten, Absent, Running

LEMMA VerdictInvariant == Spec => [](TypeOK /\ VerdictInv)
<1>1. Init => TypeOK /\ VerdictInv
  BY InitTyped, VerdictInit
<1>2. (TypeOK /\ VerdictInv) /\ [Next]_vars => (TypeOK /\ VerdictInv)'
  BY NextTyped, VerdictStep
<1>3. QED
  BY <1>1, <1>2, PTL DEF Spec

(* Whatever fails, is lost, interrupted or killed: exit code 0 and 2 name    *)
(* the verdict final.json and completion.json carry, with no failure record  *)
(* beside them (run_b2a_calibration and the finally of cmd_b2a_calibrate).   *)
THEOREM VerdictAgrees == Spec => []ReportedVerdictAgrees
<1>1. TypeOK /\ VerdictInv => ReportedVerdictAgrees
  BY DEF TypeOK, VerdictInv, FinalCarriesVerdict, RecordsExcludeVerdict, CodeCarriesVerdict,
         CompletionCarriesVerdict, ReportedVerdictAgrees, FailureRecords, GateOutcome
<1>2. QED
  BY <1>1, VerdictInvariant, PTL

-------------------------------------------------------------------------------
(* The attempt implements AttemptOutcome.                                    *)

SameFinal == disk'[Final] = disk[Final]

LEMMA FinalFrameMain ==
  ASSUME TypeOK, Main, ~WriteFinal
  PROVE  SameFinal
<1>d. DirTypeOK /\ role \in Roles
  BY DEF TypeOK, WorkerTypeOK
<1>w. ASSUME NEW p \in Paths \ {Final}, NEW c, Writes(p, c) \/ WriteFails(p, c)
      PROVE  SameFinal
  BY <1>d, <1>w, WriteFrame, VerdictFilesDistinct DEF SameFinal, VerdictFiles
<1>n. ASSUME UNCHANGED dirVars PROVE SameFinal
  BY <1>n DEF dirVars, SameFinal
<1>p. /\ \A n \in {"invocation.json", "provenance.json", "preflight.json"} :
           Top(n) \in Paths \ {Final}
      /\ \A n \in WorkerNames : <<role, n>> \in Paths \ {Final}
      /\ {"command.json", "stdout.log", "stderr.log", "termination.json"} \subseteq WorkerNames
      /\ FailureRecords \cup {Completion} \subseteq Paths \ {Final}
  BY <1>d, NamedPaths, OtherFiles, VerdictFilesDistinct DEF TopNames, WorkerNames, VerdictFiles
<1>1. CASE \/ WriteInvocation \/ LoadConfigAndManifest \/ CollectProvenance \/ CheckRequest
           \/ RecordRefusal \/ WritePreflight \/ VerifyPromptIdentity
  BY <1>1, <1>w, <1>n, <1>p
  DEF WriteInvocation, LoadConfigAndManifest, CollectProvenance, CheckRequest, RecordRefusal,
      WritePreflight, VerifyPromptIdentity, FailureRecords
<1>2. CASE \/ LaunchWorker \/ CollectWorker \/ TimeoutKillsWorker \/ PreserveStdout
           \/ PreserveStderr \/ RecordTermination
  BY <1>2, <1>w, <1>n, <1>p
  DEF LaunchWorker, CollectWorker, TimeoutKillsWorker, PreserveStdout, PreserveStderr,
      RecordTermination, dirVars
<1>3. CASE JudgeWorker
  BY <1>3, <1>n DEF JudgeWorker, AcceptResult, RejectMissingResult, RejectResult, dirVars
<1>4. CASE StoreArtifact
  <2>1. PostWorkerArtifacts[next] \in Paths \ {Final}
    BY ArtifactPaths, OtherArtifacts, VerdictFilesDistinct DEF TypeOK, VerdictFiles
  <2>2. QED
    BY <1>4, <2>1, <1>w, <1>n DEF StoreArtifact
<1>5. CASE EvaluateGates \/ WriteCompletion \/ VerifyPreFinal \/ BuildReferences
  BY <1>5, <1>w, <1>n, <1>p
  DEF EvaluateGates, Decide, WriteCompletion, VerifyPreFinal, BuildReferences, dirVars
<1>6. CASE \/ RecordFinalWriteFailure \/ VerifyFinal \/ RecordVerificationFailure
           \/ CatchException \/ Finally
  BY <1>6, <1>w, <1>n, <1>p
  DEF RecordFinalWriteFailure, VerifyFinal, RecordVerificationFailure, CatchException, Finally,
      FailureRecords
<1>7. QED
  BY <1>1, <1>2, <1>3, <1>4, <1>5, <1>6 DEF Main

(* Only WriteFinal touches final.json.                                       *)
LEMMA FinalFrame ==
  ASSUME TypeOK, [Next]_vars, ~WriteFinal
  PROVE  SameFinal
<1>1. CASE Worker
  BY <1>1, WorkerFrame DEF Worker, SameVerdictFiles, VerdictFiles, SameFinal
<1>2. CASE DiskFault
  BY <1>2, FaultsAssumption, VerdictFilesDistinct
  DEF DiskFault, TypeOK, DirTypeOK, VerdictFiles, SameFinal
<1>3. CASE Interrupt \/ Crash \/ Done \/ UNCHANGED vars
  BY <1>3 DEF Interrupt, Crash, Done, vars, dirVars, SameFinal
<1>4. QED
  BY <1>1, <1>2, <1>3, FinalFrameMain DEF Next

(* A step that touches neither the verdict nor final.json is a report, the   *)
(* end of the attempt, or nothing.                                           *)
LEMMA ReportStep ==
  ASSUME TypeOK', VerdictInv', SameFinal, passed' = passed,
         pc = "exited" => pc' = "exited" /\ code' = code
  PROVE  [Outcome!Next]_(Outcome!aVars)
<1>1. Published' = Published
  BY DEF SameFinal, Published
<1>2. CASE pc = "exited" \/ pc' # "exited"
  BY <1>1, <1>2 DEF Outcome!aVars, Status
<1>3. CASE pc # "exited" /\ pc' = "exited"
  <2>1. Status = "running"
    BY <1>3 DEF Status
  <2>2. CASE code' = 0
    <3>1. Status' = "success" /\ Published = "passed"
      BY <1>1, <1>3, <2>2 DEF Status, Published, VerdictInv, CodeCarriesVerdict
    <3>2. Outcome!ReportSuccess
      BY <1>1, <2>1, <3>1 DEF Outcome!ReportSuccess
    <3>3. QED
      BY <3>2 DEF Outcome!Next
  <2>3. CASE code' = 2
    <3>1. Status' = "gate failure" /\ Published = "failed"
      BY <1>1, <1>3, <2>3 DEF Status, Published, VerdictInv, CodeCarriesVerdict
    <3>2. Outcome!ReportGateFailure
      BY <1>1, <2>1, <3>1 DEF Outcome!ReportGateFailure
    <3>3. QED
      BY <3>2 DEF Outcome!Next
  <2>4. CASE code' \notin {0, 2}
    <3>1. Status' \in {"error", "dead"}
      BY <1>3, <2>4 DEF Status
    <3>2. Outcome!Fail
      BY <1>1, <2>1, <3>1 DEF Outcome!Fail
    <3>3. QED
      BY <3>2 DEF Outcome!Next
  <2>5. QED
    BY <2>2, <2>3, <2>4
<1>4. QED
  BY <1>2, <1>3

(* WriteFinal publishes the verdict, whether or not the write then raises.   *)
LEMMA PublishStep ==
  ASSUME TypeOK, TypeOK', VerdictInv, VerdictInv', WriteFinal
  PROVE  [Outcome!Next]_(Outcome!aVars)
<1>1. /\ pc = "final" /\ pc' \in {"verify_final", "final_failed"}
      /\ passed' = passed /\ code' = code
  BY DEF WriteFinal, Goto, unchangedByGoto
<1>2. CASE SameFinal
  BY <1>1, <1>2, ReportStep
<1>3. CASE ~SameFinal
  <2>1. disk[Final] = Absent /\ passed \in {"passed", "failed"}
    BY <1>1
    DEF VerdictInv, VerdictWhenDecided, FinalCarriesVerdict, FinalMayExist, Decided,
        CompletionWritten
  <2>2. disk'[Final] = FinalContent
    <3>1. DirTypeOK /\ Final \in Paths
      BY VerdictFilesDistinct DEF TypeOK, VerdictFiles
    <3>2. disk'[Final] \in {disk[Final], FinalContent}
      BY <3>1, <2>1, WriteFrame DEF WriteFinal, dirVars
    <3>3. QED
      BY <3>2, <1>3 DEF SameFinal
  <2>3. Published = "nothing" /\ Published' = passed
    BY <2>1, <2>2 DEF Published, FinalContent, Absent
  <2>4. Status = "running" /\ Status' = "running"
    BY <1>1 DEF Status
  <2>5. Outcome!Publish
    BY <1>1, <2>1, <2>3, <2>4 DEF Outcome!Publish
  <2>6. QED
    BY <2>5 DEF Outcome!Next
<1>4. QED
  BY <1>2, <1>3

(* EvaluateGates decides the verdict, or raises.                             *)
LEMMA DecideStep ==
  ASSUME TypeOK, TypeOK', VerdictInv, VerdictInv', EvaluateGates, SameFinal
  PROVE  [Outcome!Next]_(Outcome!aVars)
<1>1. pc = "gate" /\ pc' \in {"completion", "catch"}
  BY DEF EvaluateGates, Decide, Raise
<1>2. CASE passed' = passed
  BY <1>1, <1>2, ReportStep
<1>3. CASE passed' # passed
  <2>1. passed' \in {"passed", "failed"}
    BY <1>3 DEF EvaluateGates, Decide, Raise
  <2>2. passed = "undecided" /\ Status = "running" /\ Status' = "running"
    BY <1>1 DEF VerdictInv, VerdictWhenDecided, Undecided, Status
  <2>3. Published' = Published
    BY DEF SameFinal, Published
  <2>4. \E v \in {"passed", "failed"} : Outcome!Decide(v)
    BY <2>1, <2>2, <2>3 DEF Outcome!Decide
  <2>5. QED
    BY <2>4 DEF Outcome!Next
<1>4. QED
  BY <1>2, <1>3

LEMMA OutcomeStep ==
  ASSUME TypeOK, TypeOK', VerdictInv, VerdictInv', [Next]_vars
  PROVE  [Outcome!Next]_(Outcome!aVars)
<1>1. CASE WriteFinal
  BY <1>1, PublishStep
<1>2. CASE EvaluateGates /\ ~WriteFinal
  BY <1>2, FinalFrame, DecideStep
<1>3. CASE ~EvaluateGates /\ ~WriteFinal
  <2>1. SameFinal
    BY <1>3, FinalFrame
  <2>2. passed' = passed
    <3>1. CASE Main
      BY <1>3, <3>1
      DEF Main, WriteInvocation, LoadConfigAndManifest, CollectProvenance, CheckRequest,
          RecordRefusal, WritePreflight, VerifyPromptIdentity, LaunchWorker, CollectWorker,
          TimeoutKillsWorker, PreserveStdout, PreserveStderr, RecordTermination, JudgeWorker,
          AcceptResult, RejectMissingResult, RejectResult, StoreArtifact, WriteCompletion,
          VerifyPreFinal, BuildReferences, RecordFinalWriteFailure, VerifyFinal,
          RecordVerificationFailure, CatchException, Finally, Goto, unchangedByGoto, Raise,
          Leave, Exit
    <3>2. CASE Worker \/ Interrupt \/ Crash \/ DiskFault \/ Done \/ UNCHANGED vars
      BY <3>2 DEF Worker, Interrupt, Crash, Exit, DiskFault, Done, vars, mainVars
    <3>3. QED
      BY <3>1, <3>2 DEF Next
  <2>3. pc = "exited" => pc' = "exited" /\ code' = code
    <3>1. SUFFICES ASSUME pc = "exited" PROVE pc' = "exited" /\ code' = code
      OBVIOUS
    <3>2. ~Main
      BY <3>1
      DEF Main, WriteInvocation, LoadConfigAndManifest, CollectProvenance, CheckRequest,
          RecordRefusal, WritePreflight, VerifyPromptIdentity, LaunchWorker, CollectWorker,
          TimeoutKillsWorker, PreserveStdout, PreserveStderr, RecordTermination, JudgeWorker,
          StoreArtifact, EvaluateGates, WriteCompletion, VerifyPreFinal, BuildReferences,
          WriteFinal, RecordFinalWriteFailure, VerifyFinal, RecordVerificationFailure,
          CatchException, Finally
    <3>3. QED
      BY <3>1, <3>2 DEF Next, Worker, Interrupt, Crash, DiskFault, Done, vars, mainVars
  <2>4. QED
    BY <2>1, <2>2, <2>3, ReportStep
<1>4. QED
  BY <1>1, <1>2, <1>3

LEMMA OutcomeInit == Init => Outcome!Init
<1>1. Final \in Paths
  BY VerdictFilesDistinct DEF VerdictFiles
<1>2. QED
  BY <1>1 DEF Init, DirInit, Outcome!Init, Published, Status, Absent

(* The coordinator, the command and their workers, whatever fails in them,   *)
(* do nothing a reader of exit code and final.json is not promised           *)
(* (run_b2a_calibration, b2a_execute.py:803-957; cmd_b2a_calibrate).         *)
THEOREM AttemptImplementsOutcome == Spec => ImplementsOutcome
<1>1. TypeOK /\ VerdictInv /\ (TypeOK /\ VerdictInv)' /\ [Next]_vars
        => [Outcome!Next]_(Outcome!aVars)
  BY OutcomeStep
<1>2. QED
  BY <1>1, OutcomeInit, VerdictInvariant, PTL DEF Spec, ImplementsOutcome, Outcome!Spec

-------------------------------------------------------------------------------
(* What a step may change.                                                   *)

Preflight == Top("preflight.json")
Provenance == Top("provenance.json")

(* The one file a step of the command may create.                            *)
CommandWrites(p) ==
  \/ pc = "invocation" /\ p = Top("invocation.json")
  \/ pc = "provenance" /\ p = Provenance
  \/ pc = "preflight" /\ p = Preflight
  \/ pc = "command" /\ p = <<role, "command.json">>
  \/ pc = "stdout" /\ p = <<role, "stdout.log">>
  \/ pc = "stderr" /\ p = <<role, "stderr.log">>
  \/ pc = "termination" /\ p = <<role, "termination.json">>
  \/ pc = "store" /\ p = PostWorkerArtifacts[next]
  \/ pc \in {"completion", "finally"} /\ p = Completion
  \/ pc = "final" /\ p = Final
  \/ pc = "final_failed" /\ p = FinalWriteFailure
  \/ pc = "verify_failed" /\ p = FinalVerificationFailure
  \/ pc \in {"catch", "refusal"} /\ p = Failure

(* The files a step of the worker may create, and the journal it appends to. *)
WorkerWrites(p) ==
  \/ p = <<role, "progress.jsonl">>
  \/ wpc = "result" /\ p = ResultFile
  \/ wpc \in {"envelope", "fail_envelope"} /\ p = EnvelopeFile

Created(p) ==
  /\ disk[p] = Absent
  /\ \/ Main /\ CommandWrites(p)
     \/ Worker /\ WorkerWrites(p)

Appended(p) == Worker /\ p = <<role, "progress.jsonl">> /\ disk'[p] # Absent

Faulted(p) ==
  /\ DiskFault
  /\ disk[p] \notin {Absent, Altered}
  /\ disk'[p] \in {Absent, Altered}
  /\ <<p, pc>> \in damage'

(* A write that may fail, as a step of the directory.                        *)
LEMMA WriteStep ==
  ASSUME DirTypeOK, NEW p \in Paths, NEW c, Writes(p, c) \/ WriteFails(p, c)
  PROVE  /\ \A q \in Paths : disk'[q] # disk[q] => q = p /\ disk[q] = Absent
         /\ ioErrors' = ioErrors \/ ioErrors' = ioErrors + 1
         /\ WriteFails(p, c) => ioErrors' = ioErrors + 1
BY DEF DirTypeOK, Writes, WriteFails

CommandFrame ==
  /\ \A p \in Paths : disk'[p] # disk[p] => disk[p] = Absent /\ CommandWrites(p)
  /\ ioErrors' = ioErrors \/ ioErrors' = ioErrors + 1

LEMMA MainFrame ==
  ASSUME TypeOK, Main
  PROVE  CommandFrame
<1>d. DirTypeOK /\ role \in Roles
  BY DEF TypeOK, WorkerTypeOK
<1>p. /\ \A n \in TopNames : Top(n) \in Paths
      /\ \A n \in WorkerNames : <<role, n>> \in Paths
      /\ PostWorkerArtifacts[next] \in Paths
  BY <1>d, NamedPaths, ArtifactPaths DEF TypeOK
<1>n. ASSUME UNCHANGED dirVars PROVE CommandFrame
  BY <1>n DEF dirVars, CommandFrame
<1>w. ASSUME NEW p \in Paths, NEW c, Writes(p, c) \/ WriteFails(p, c), CommandWrites(p)
      PROVE  CommandFrame
  <2>1. CommandWrites(p)
    BY <1>w
  <2>2. /\ \A q \in Paths : disk'[q] # disk[q] => q = p /\ disk[q] = Absent
        /\ ioErrors' = ioErrors \/ ioErrors' = ioErrors + 1
    BY <1>d, <1>w, WriteStep
  <2> HIDE DEF CommandWrites
  <2>3. QED
    BY <2>1, <2>2 DEF CommandFrame
<1>1. CASE WriteInvocation
  BY <1>1, <1>p, <1>w DEF WriteInvocation, CommandWrites, TopNames
<1>2. CASE LoadConfigAndManifest \/ CheckRequest \/ VerifyPromptIdentity
  BY <1>2, <1>n DEF LoadConfigAndManifest, CheckRequest, VerifyPromptIdentity
<1>3. CASE CollectProvenance
  BY <1>3, <1>p, <1>w, <1>n DEF CollectProvenance, CommandWrites, TopNames, Provenance
<1>4. CASE RecordRefusal
  BY <1>4, <1>p, <1>w DEF RecordRefusal, CommandWrites, TopNames, Failure
<1>5. CASE WritePreflight
  BY <1>5, <1>p, <1>w DEF WritePreflight, CommandWrites, TopNames, Preflight
<1>6. CASE LaunchWorker
  BY <1>6, <1>p, <1>w DEF LaunchWorker, CommandWrites, WorkerNames
<1>7. CASE CollectWorker \/ TimeoutKillsWorker
  BY <1>7, <1>n DEF CollectWorker, TimeoutKillsWorker
<1>8. CASE PreserveStdout
  BY <1>8, <1>p, <1>w DEF PreserveStdout, CommandWrites, WorkerNames
<1>9. CASE PreserveStderr
  BY <1>9, <1>p, <1>w DEF PreserveStderr, CommandWrites, WorkerNames
<1>10. CASE RecordTermination
  BY <1>10, <1>p, <1>w, <1>n DEF RecordTermination, CommandWrites, WorkerNames
<1>11. CASE JudgeWorker
  BY <1>11, <1>n DEF JudgeWorker, AcceptResult, RejectMissingResult, RejectResult
<1>12. CASE StoreArtifact
  BY <1>12, <1>p, <1>w, <1>n DEF StoreArtifact, CommandWrites
<1>13. CASE EvaluateGates \/ VerifyPreFinal \/ BuildReferences \/ VerifyFinal
  BY <1>13, <1>n DEF EvaluateGates, Decide, VerifyPreFinal, BuildReferences, VerifyFinal
<1>14. CASE WriteCompletion
  BY <1>14, <1>p, <1>w DEF WriteCompletion, CommandWrites, TopNames, Completion
<1>15. CASE WriteFinal
  BY <1>15, <1>p, <1>w, <1>n DEF WriteFinal, CommandWrites, TopNames, Final
<1>16. CASE RecordFinalWriteFailure
  BY <1>16, <1>p, <1>w DEF RecordFinalWriteFailure, CommandWrites, TopNames, FinalWriteFailure
<1>17. CASE RecordVerificationFailure
  BY <1>17, <1>p, <1>w
  DEF RecordVerificationFailure, CommandWrites, TopNames, FinalVerificationFailure
<1>18. CASE CatchException
  BY <1>18, <1>p, <1>w DEF CatchException, CommandWrites, TopNames, Failure
<1>19. CASE Finally
  BY <1>19, <1>p, <1>w, <1>n DEF Finally, CommandWrites, TopNames, Completion
<1>20. QED
  BY <1>1, <1>2, <1>3, <1>4, <1>5, <1>6, <1>7, <1>8, <1>9, <1>10, <1>11, <1>12, <1>13, <1>14,
     <1>15, <1>16, <1>17, <1>18, <1>19 DEF Main

OwnFilesOnly ==
  \A p \in Paths : disk'[p] # disk[p] =>
    \/ disk[p] = Absent /\ WorkerWrites(p)
    \/ p = <<role, "progress.jsonl">> /\ disk'[p] # Absent

LEMMA WorkerStepFrame ==
  ASSUME TypeOK, WorkerStep
  PROVE  OwnFilesOnly
<1> DEFINE J == <<role, "progress.jsonl">>
<1>d. DirTypeOK /\ role \in Roles
  BY DEF TypeOK, WorkerTypeOK
<1>p. ResultFile \in Paths /\ EnvelopeFile \in Paths /\ J \in Paths
  BY <1>d, NamedPaths DEF ResultFile, EnvelopeFile, WorkerNames
<1>n. ASSUME UNCHANGED dirVars PROVE OwnFilesOnly
  BY <1>n DEF dirVars, OwnFilesOnly
<1>a. ASSUME NEW e, Appends(role, e) PROVE OwnFilesOnly
  <2>1. JournalAfter(disk[J], e) # Absent
    BY DEF JournalAfter, Absent
  <2>2. disk' = [disk EXCEPT ![J] = JournalAfter(disk[J], e)]
    BY <1>a DEF Appends
  <2>3. QED
    BY <2>1, <2>2, <1>d, <1>p DEF DirTypeOK, OwnFilesOnly
<1>f. ASSUME NEW e, AppendFails(role, e) PROVE OwnFilesOnly
  <2>1. "torn" # Absent /\ JournalAfter(disk[J], e) # Absent
    BY DEF JournalAfter, Absent
  <2>2. PICK c \in {disk[J], "torn", JournalAfter(disk[J], e)} : disk' = [disk EXCEPT ![J] = c]
    BY <1>f DEF AppendFails
  <2>3. disk'[J] # disk[J] => disk'[J] # Absent
    BY <2>1, <2>2, <1>p, <1>d DEF DirTypeOK
  <2>4. QED
    BY <2>2, <2>3, <1>d, <1>p DEF DirTypeOK, OwnFilesOnly
<1>w. ASSUME NEW p \in Paths, NEW c, Writes(p, c) \/ WriteFails(p, c), WorkerWrites(p)
      PROVE  OwnFilesOnly
  BY <1>d, <1>w, WriteStep DEF OwnFilesOnly
<1>1. CASE WorkerStarts \/ (\E r \in {"good", "weak"} : WorkerBodyReturns(r)) \/ WorkerBodyRaises
  BY <1>1, <1>a, <1>f, <1>n DEF WorkerStarts, WorkerBodyReturns, WorkerBodyRaises
<1>2. CASE WorkerWritesResult
  BY <1>2, <1>p, <1>w DEF WorkerWritesResult, WorkerWrites
<1>3. CASE WorkerMarksResult \/ WorkerMarksEnvelope \/ WorkerMarksFailure
  BY <1>3, <1>a, <1>f DEF WorkerMarksResult, WorkerMarksEnvelope, WorkerMarksFailure
<1>4. CASE WorkerWritesEnvelope \/ WorkerWritesFailureEnvelope
  BY <1>4, <1>p, <1>w DEF WorkerWritesEnvelope, WorkerWritesFailureEnvelope, WorkerWrites
<1>5. CASE WorkerKilled
  BY <1>5, <1>n DEF WorkerKilled
<1>6. QED
  BY <1>1, <1>2, <1>3, <1>4, <1>5 DEF WorkerStep

(* A file changes only because somebody creates it, appends to it, or        *)
(* damages it.                                                               *)
LEMMA StepFrame ==
  ASSUME TypeOK, [Next]_vars, NEW p \in Paths, disk'[p] # disk[p]
  PROVE  Created(p) \/ Appended(p) \/ Faulted(p)
<1>1. CASE Main
  BY <1>1, MainFrame DEF CommandFrame, Created
<1>2. CASE Worker
  BY <1>2, WorkerStepFrame DEF Worker, OwnFilesOnly, Created, Appended
<1>3. CASE DiskFault
  BY <1>3, FaultsAssumption DEF DiskFault, TypeOK, DirTypeOK, Faulted
<1>4. CASE Interrupt \/ Crash \/ Done \/ UNCHANGED vars
  BY <1>4 DEF Interrupt, Crash, Done, vars, dirVars
<1>5. QED
  BY <1>1, <1>2, <1>3, <1>4 DEF Next

LEMMA WorkersRun ==
  ASSUME WorkerStep
  PROVE  WorkerRunning
BY DEF WorkerStep, WorkerStarts, WorkerBodyReturns, WorkerBodyRaises, WorkerWritesResult,
       WorkerMarksResult, WorkerWritesEnvelope, WorkerMarksEnvelope, WorkerMarksFailure,
       WorkerWritesFailureEnvelope, WorkerKilled, WorkerRunning, RunningSteps

(* Where a step of the command leads, and what it leaves alone.              *)
MainFlow ==
  /\ pc \in BeforeTry => pc' \in BeforeTry \cup {"prompt", "exited"}
  /\ pc = "preflight" => pc' \in {"prompt", "exited"}
  /\ pc' = "prompt" => pc = "preflight"
  /\ pc = "prompt" => pc' \in {"command", "catch"}
  /\ pc = "command" => pc' \in {"waiting", "catch"}
  /\ pc = "waiting" => pc' = "stdout"
  /\ pc = "stdout" => pc' \in {"stderr", "catch"}
  /\ pc = "stderr" => pc' \in {"judge", "termination", "catch"}
  /\ pc = "termination" => pc' = "catch"
  /\ pc = "judge" => pc' \in {"command", "store", "catch"}
  /\ pc = "store" => pc' \in {"store", "gate", "catch"}
  /\ pc = "gate" => pc' \in {"completion", "catch"}
  /\ pc = "completion" => pc' \in {"prefinal", "catch"}
  /\ pc = "prefinal" => pc' \in {"references", "catch"}
  /\ pc = "references" => pc' = "final"
  /\ pc = "final" => pc' \in {"verify_final", "final_failed"}
  /\ pc = "final_failed" => pc' = "catch"
  /\ pc = "verify_final" => pc' \in {"verify_failed", "finally"}
  /\ pc = "verify_failed" => pc' = "catch"
  /\ pc = "catch" => pc' = "finally"
  /\ pc = "finally" => pc' = "exited"
  /\ pc # "exited"

MainKeeps ==
  /\ damage' = damage
  /\ pc # "judge" => UNCHANGED <<role, mem>>
  /\ pc # "gate" => passed' = passed
  /\ pc # "references" => refs' = refs
  /\ pc # "store" => next' = next
  /\ pc' # "catch" => partial' = partial
  /\ pc' \notin {"finally", "exited"} => code' = code
  /\ pc \notin {"command", "waiting"} => UNCHANGED workerVars

LEMMA MainMoves ==
  ASSUME Main
  PROVE  MainFlow /\ MainKeeps
<1> USE DEF MainFlow, MainKeeps, BeforeTry, Goto, unchangedByGoto, Raise, Leave, Exit, workerVars
<1>1. CASE \/ WriteInvocation \/ LoadConfigAndManifest \/ CollectProvenance \/ CheckRequest
           \/ RecordRefusal \/ WritePreflight
  BY <1>1
  DEF WriteInvocation, LoadConfigAndManifest, CollectProvenance, CheckRequest, RecordRefusal,
      WritePreflight
<1>2. CASE VerifyPromptIdentity \/ LaunchWorker
  BY <1>2 DEF VerifyPromptIdentity, LaunchWorker
<1>3. CASE CollectWorker \/ TimeoutKillsWorker
  BY <1>3 DEF CollectWorker, TimeoutKillsWorker
<1>4. CASE PreserveStdout \/ PreserveStderr \/ RecordTermination
  BY <1>4 DEF PreserveStdout, PreserveStderr, RecordTermination
<1>5. CASE JudgeWorker
  BY <1>5 DEF JudgeWorker, AcceptResult, RejectMissingResult, RejectResult
<1>6. CASE StoreArtifact
  BY <1>6 DEF StoreArtifact
<1>7. CASE EvaluateGates \/ WriteCompletion \/ VerifyPreFinal \/ BuildReferences
  BY <1>7 DEF EvaluateGates, Decide, WriteCompletion, VerifyPreFinal, BuildReferences
<1>8. CASE WriteFinal \/ RecordFinalWriteFailure
  BY <1>8 DEF WriteFinal, RecordFinalWriteFailure
<1>9. CASE VerifyFinal \/ RecordVerificationFailure \/ CatchException \/ Finally
  BY <1>9 DEF VerifyFinal, RecordVerificationFailure, CatchException, Finally
<1>10. QED
  BY <1>1, <1>2, <1>3, <1>4, <1>5, <1>6, <1>7, <1>8, <1>9 DEF Main

(* Which action a step of the command is.                                    *)
LEMMA MainAt ==
  ASSUME Main
  PROVE  /\ pc = "provenance" => CollectProvenance
         /\ pc = "refusal" => RecordRefusal
         /\ pc = "preflight" => WritePreflight
         /\ pc = "command" => LaunchWorker
         /\ pc = "waiting" => CollectWorker \/ TimeoutKillsWorker
         /\ pc = "stdout" => PreserveStdout
         /\ pc = "stderr" => PreserveStderr
         /\ pc = "termination" => RecordTermination
         /\ pc = "judge" => JudgeWorker
         /\ pc = "store" => StoreArtifact
         /\ pc = "gate" => EvaluateGates
         /\ pc = "completion" => WriteCompletion
         /\ pc = "prefinal" => VerifyPreFinal
         /\ pc = "references" => BuildReferences
         /\ pc = "final" => WriteFinal
         /\ pc = "final_failed" => RecordFinalWriteFailure
         /\ pc = "verify_final" => VerifyFinal
         /\ pc = "verify_failed" => RecordVerificationFailure
         /\ pc = "catch" => CatchException
         /\ pc = "finally" => Finally
BY DEF Main, WriteInvocation, LoadConfigAndManifest, CollectProvenance, CheckRequest, RecordRefusal,
       WritePreflight, VerifyPromptIdentity, LaunchWorker, CollectWorker, TimeoutKillsWorker,
       PreserveStdout, PreserveStderr, RecordTermination, JudgeWorker, StoreArtifact,
       EvaluateGates, WriteCompletion, VerifyPreFinal, BuildReferences, WriteFinal,
       RecordFinalWriteFailure, VerifyFinal, RecordVerificationFailure, CatchException, Finally

(* What a step of anyone else leaves alone.                                  *)
LEMMA OthersKeep ==
  ASSUME [Next]_vars, ~Main
  PROVE  /\ UNCHANGED <<role, mem, cause, next, passed, refs, partial>>
         /\ ioErrors' # ioErrors => Worker
         /\ \/ pc' = pc /\ code' = code
            \/ pc' \in {"finally", "exited"} /\ code' \in {Interrupted, Crashed}
         /\ damage' # damage => DiskFault
         /\ UNCHANGED <<wpc, wres>> \/ WorkerStep \/ wpc' = "exited"
BY DEF Next, Worker, mainVars, Interrupt, Crash, Exit, DiskFault, Done, vars, dirVars, workerVars,
       WorkerExits

(* Nothing is ever undamaged.                                                *)
LEMMA DamageStays ==
  ASSUME [Next]_vars
  PROVE  /\ damage \subseteq damage'
         /\ \A p : DamagedFile(p) => DamagedFile(p)'
         /\ damage' # damage => DiskFault
<1>1. CASE Main
  BY <1>1, MainMoves DEF MainKeeps, DamagedFile
<1>2. CASE ~Main
  BY <1>2, OthersKeep DEF DiskFault, DamagedFile
<1>3. QED
  BY <1>1, <1>2

(* A file that is there, or that has been lost, does not become one that     *)
(* never was.                                                                *)
Present(p) == disk[p] # Absent \/ DamagedFile(p)

LEMMA PresentStays ==
  ASSUME TypeOK, [Next]_vars, NEW p \in Paths, Present(p)
  PROVE  Present(p)'
<1>1. CASE DamagedFile(p)
  BY <1>1, DamageStays DEF Present
<1>2. CASE disk'[p] = disk[p] /\ disk[p] # Absent
  BY <1>2 DEF Present
<1>3. CASE disk'[p] # disk[p] /\ disk[p] # Absent
  <2>1. Appended(p) \/ Faulted(p)
    BY <1>3, StepFrame DEF Created
  <2>2. Faulted(p) => DamagedFile(p)'
    BY DEF Faulted, DamagedFile, TypeOK
  <2>3. QED
    BY <2>1, <2>2 DEF Appended, Present
<1>4. QED
  BY <1>1, <1>2, <1>3 DEF Present

-------------------------------------------------------------------------------
(* A published pass rests on evidence.                                       *)

Unwinding == {"catch", "finally", "exited"}

Termination(r) == <<r, "termination.json">>

(* A worker recorded as terminated ends the attempt without a verdict.       *)
TerminationPrecludesVerdict ==
  \A r \in Roles : disk[Termination(r)] # Absent => pc \in Unwinding /\ passed = "undecided"

DecidedWithoutWorker == passed # "undecided" => ~WorkerRunning

ProvenanceKnown == disk[Provenance] \in {Absent, "clean", "dirty"} \/ DamagedFile(Provenance)

(* What the gate found is still so, or has been damaged since.               *)
PassRestsOnEvidence ==
  passed = "passed" =>
    /\ BothGood
    /\ \A p \in RequiredFiles : Present(p)
    /\ disk[Provenance] = "clean" \/ DamagedFile(Provenance)

(* The manifest lists what was there when it was built.                      *)
ReferencesRest ==
  passed = "passed" /\ (pc = "final" \/ disk[Final] # Absent) =>
    /\ \A p \in RequiredFiles : refs[p] # Absent \/ DamagedFile(p)
    /\ refs[Provenance] = "clean" \/ DamagedFile(Provenance)

PassInv ==
  /\ TerminationPrecludesVerdict
  /\ DecidedWithoutWorker
  /\ ProvenanceKnown
  /\ PassRestsOnEvidence
  /\ ReferencesRest

Base == TypeOK /\ VerdictInv /\ OrphanInv

LEMMA BaseInvariant == Spec => []Base
<1>1. Init => Base
  BY InitTyped, VerdictInit
  DEF Base, Init, WorkerInit, OrphanInv, WorkerIsAwaited, WorkerRunning, RunningSteps, Running,
      Crashed
<1>2. Base /\ [Next]_vars => Base'
  BY NextTyped, VerdictStep, OrphanStep DEF Base
<1>3. QED
  BY <1>1, <1>2, PTL DEF Spec

LEMMA DecidedIsKept ==
  ASSUME Base, [Next]_vars, passed # "undecided" \/ pc \in Unwinding
  PROVE  UNCHANGED <<passed, mem>>
<1>1. pc \notin {"judge", "gate"}
  BY DEF Base, VerdictInv, VerdictWhenDecided, Undecided, Unwinding
<1>2. QED
  BY <1>1, MainMoves, OthersKeep DEF MainKeeps

LEMMA UnwindingGoesOn ==
  ASSUME [Next]_vars, pc \in Unwinding
  PROVE  pc' \in Unwinding
BY MainMoves, OthersKeep DEF MainFlow, Unwinding

LEMMA RequiredPaths ==
  /\ RequiredFiles \subseteq Paths \ {Final, Completion}
  /\ REQUIRED_PAIR_RECORD_FILES \subseteq RequiredFiles
  /\ Provenance \in REQUIRED_ATTEMPT_FILES
  /\ Preflight \in Paths \ VerdictFiles
  /\ \A r \in Roles : Termination(r) \in Paths \ VerdictFiles
BY DEF RequiredFiles, REQUIRED_ATTEMPT_FILES, REQUIRED_PAIR_RECORD_FILES, Paths, Final, Completion,
       Provenance, Top, TopNames, WorkerNames, PairNames, Roles, Preflight, Termination, VerdictFiles,
       FailureRecords, Failure, FinalWriteFailure, FinalVerificationFailure

LEMMA ArtifactNames ==
  \A i \in 1..12 :
    /\ PostWorkerArtifacts[i] # Preflight
    /\ PostWorkerArtifacts[i] # Provenance
    /\ \A r \in Roles : PostWorkerArtifacts[i] # Termination(r)
<1> SUFFICES ASSUME NEW i \in 1..12
             PROVE  /\ PostWorkerArtifacts[i] # Preflight
                    /\ PostWorkerArtifacts[i] # Provenance
                    /\ \A r \in Roles : PostWorkerArtifacts[i] # Termination(r)
  OBVIOUS
<1>1. \/ i = 1 \/ i = 2 \/ i = 3 \/ i = 4 \/ i = 5 \/ i = 6
      \/ i = 7 \/ i = 8 \/ i = 9 \/ i = 10 \/ i = 11 \/ i = 12
  OBVIOUS
<1>2. QED
  BY <1>1 DEF PostWorkerArtifacts, Preflight, Provenance, Termination, Top, Roles

(* preflight.json, provenance.json and termination.json are written at one   *)
(* step of the command each.                                                 *)
LEMMA WrittenOnce ==
  ASSUME TypeOK
  PROVE  /\ CommandWrites(Preflight) => pc = "preflight"
         /\ CommandWrites(Provenance) => pc = "provenance"
         /\ \A r \in Roles : CommandWrites(Termination(r)) => pc = "termination" /\ role = r
         /\ ~WorkerWrites(Preflight) /\ ~WorkerWrites(Provenance)
         /\ \A r \in Roles : ~WorkerWrites(Termination(r))
<1>1. next \in 1..12 /\ role \in Roles
  BY ArtifactPaths DEF TypeOK, WorkerTypeOK
<1>2. QED
  BY <1>1, ArtifactNames
  DEF CommandWrites, WorkerWrites, Preflight, Provenance, Termination, Top, Completion, Final,
      FinalWriteFailure, FinalVerificationFailure, Failure, Roles, ResultFile, EnvelopeFile

(* What the coordinator records of the end of a worker, and when.            *)
ReportNames == {"stdout.log", "stderr.log", "termination.json"}

LEMMA ReportPaths ==
  /\ {"stdout.log", "stderr.log", "termination.json"} = ReportNames
  /\ \A r \in Roles, n \in ReportNames : <<r, n>> \in Paths
BY NamedPaths DEF ReportNames, WorkerNames

LEMMA ReportsWritten ==
  ASSUME NEW r \in Roles, NEW n \in ReportNames, TypeOK
  PROVE  /\ CommandWrites(<<r, n>>) =>
              /\ role = r
              /\ \/ pc = "stdout" /\ n = "stdout.log"
                 \/ pc = "stderr" /\ n = "stderr.log"
                 \/ pc = "termination" /\ n = "termination.json"
         /\ ~WorkerWrites(<<r, n>>)
         /\ <<r, n>> # <<role, "progress.jsonl">>
<1>1. next \in 1..12 /\ role \in Roles
  BY ArtifactPaths DEF TypeOK, WorkerTypeOK
<1>2. ASSUME NEW i \in 1..12 PROVE PostWorkerArtifacts[i] # <<r, n>>
  <2>1. \/ i = 1 \/ i = 2 \/ i = 3 \/ i = 4 \/ i = 5 \/ i = 6
        \/ i = 7 \/ i = 8 \/ i = 9 \/ i = 10 \/ i = 11 \/ i = 12
    OBVIOUS
  <2>2. QED
    BY <2>1 DEF PostWorkerArtifacts, ReportNames, Top, Roles
<1>3. QED
  BY <1>1, <1>2
  DEF CommandWrites, WorkerWrites, Preflight, Provenance, Top, Completion, Final,
      FinalWriteFailure, FinalVerificationFailure, Failure, Roles, ReportNames, ResultFile,
      EnvelopeFile

LEMMA EndReportStep ==
  ASSUME NEW r \in Roles, NEW n \in ReportNames, TypeOK, [Next]_vars, disk[<<r, n>>] = Absent,
         disk'[<<r, n>>] # Absent
  PROVE  /\ Main /\ role = r
         /\ \/ pc = "stdout" /\ n = "stdout.log"
            \/ pc = "stderr" /\ n = "stderr.log"
            \/ pc = "termination" /\ n = "termination.json"
<1>1. Main /\ CommandWrites(<<r, n>>)
  BY StepFrame, ReportPaths, ReportsWritten DEF Created, Appended, Faulted
<1>2. CommandWrites(<<r, n>>) =>
        /\ role = r
        /\ \/ pc = "stdout" /\ n = "stdout.log"
           \/ pc = "stderr" /\ n = "stderr.log"
           \/ pc = "termination" /\ n = "termination.json"
  BY ReportsWritten
<1>3. QED
  BY <1>1, <1>2

LEMMA TerminationStep ==
  ASSUME Base, [Next]_vars, TerminationPrecludesVerdict
  PROVE  TerminationPrecludesVerdict'
<1> SUFFICES ASSUME NEW r \in Roles, disk'[Termination(r)] # Absent
             PROVE  pc' \in Unwinding /\ passed' = "undecided"
  BY DEF TerminationPrecludesVerdict, Termination
<1>1. CASE disk[Termination(r)] # Absent
  BY <1>1, UnwindingGoesOn, DecidedIsKept DEF TerminationPrecludesVerdict
<1>2. CASE disk[Termination(r)] = Absent
  <2>1. Main /\ pc = "termination"
    BY <1>2, StepFrame, RequiredPaths, WrittenOnce
    DEF Base, Created, Appended, Faulted, Termination, DiskFault
  <2>2. passed = "undecided"
    BY <2>1 DEF Base, VerdictInv, VerdictWhenDecided, Undecided
  <2>3. QED
    BY <2>1, <2>2, MainMoves DEF MainFlow, MainKeeps, Unwinding
<1>3. QED
  BY <1>1, <1>2

LEMMA WorkerGoneStep ==
  ASSUME Base, [Next]_vars, DecidedWithoutWorker
  PROVE  DecidedWithoutWorker'
<1> SUFFICES ASSUME passed' # "undecided" PROVE ~WorkerRunning'
  BY DEF DecidedWithoutWorker
<1>1. CASE Main
  <2>1. pc \notin {"command", "waiting"}
    BY <1>1, MainMoves DEF MainKeeps, Base, VerdictInv, VerdictWhenDecided, Undecided
  <2>2. ~WorkerRunning
    BY <2>1, <1>1, MainMoves DEF Base, OrphanInv, WorkerIsAwaited, MainFlow
  <2>3. QED
    BY <2>1, <2>2, <1>1, MainMoves DEF MainKeeps, WorkerRunning, workerVars
<1>2. CASE ~Main
  <2>1. passed # "undecided" /\ ~WorkerRunning
    BY <1>2, OthersKeep DEF DecidedWithoutWorker
  <2>2. ~WorkerStep
    BY <2>1, WorkersRun
  <2>3. QED
    BY <1>2, <2>1, <2>2, OthersKeep DEF WorkerRunning, RunningSteps
<1>3. QED
  BY <1>1, <1>2

LEMMA ProvenanceStep ==
  ASSUME Base, [Next]_vars, ProvenanceKnown
  PROVE  ProvenanceKnown'
<1>p. Provenance \in Paths
  BY NamedPaths DEF Provenance, TopNames
<1>1. CASE DamagedFile(Provenance)
  BY <1>1, DamageStays DEF ProvenanceKnown
<1>2. CASE disk'[Provenance] = disk[Provenance] /\ ~DamagedFile(Provenance)
  BY <1>2 DEF ProvenanceKnown
<1>3. CASE disk'[Provenance] # disk[Provenance]
  <2>1. (Main /\ pc = "provenance") \/ Faulted(Provenance)
    BY <1>3, <1>p, StepFrame, WrittenOnce DEF Base, Created, Appended, Provenance, Top, Roles, TypeOK,
       WorkerTypeOK
  <2>2. CASE Faulted(Provenance)
    BY <2>2 DEF Faulted, DamagedFile, ProvenanceKnown, Base, TypeOK
  <2>3. CASE Main /\ pc = "provenance"
    <3>1. CollectProvenance
      BY <2>3, MainAt
    <3>2. PICK c \in {"clean", "dirty"} :
            \/ Writes(Provenance, c) \/ WriteFails(Provenance, c)
            \/ UNCHANGED dirVars
      BY <3>1 DEF CollectProvenance, Provenance
    <3>3. disk'[Provenance] \in {Absent, c}
      BY <1>3, <1>p, <3>2, WriteFrame DEF Base, TypeOK, dirVars
    <3>4. QED
      BY <3>3 DEF ProvenanceKnown
  <2>4. QED
    BY <2>1, <2>2, <2>3
<1>4. QED
  BY <1>1, <1>2, <1>3

(* What lets the gates pass.                                                 *)
LEMMA GatePassed ==
  ASSUME GateMayPass
  PROVE  /\ BothGood
         /\ \A p \in RequiredFiles : disk[p] # Absent
         /\ ProvenanceClean
         /\ AgreesWithResults(mem)
         /\ \A p \in REQUIRED_PAIR_RECORD_FILES : disk[p] = "good"
<1>1. BothGood /\ ProvenanceClean /\ verify_pair_record_artifacts(mem)
  BY DEF GateMayPass
<1>2. /\ \A p \in REQUIRED_ATTEMPT_FILES : disk[p] # Absent
      /\ AgreesWithResults(mem)
  BY DEF GateMayPass, verify_attempt_artifacts
<1>3. \A p \in REQUIRED_PAIR_RECORD_FILES : disk[p] = "good"
  BY <1>1 DEF verify_pair_record_artifacts, BothGood, Roles
<1>4. QED
  BY <1>1, <1>2, <1>3 DEF RequiredFiles, Absent

LEMMA GateStep ==
  ASSUME Base, Main, passed' = "passed", passed # "passed"
  PROVE  /\ GateMayPass
         /\ UNCHANGED <<dirVars, role, mem, cause, next, refs, partial, code, workerVars, damage>>
         /\ pc = "gate" /\ pc' = "completion"
<1>1. pc = "gate"
  BY MainMoves DEF MainKeeps
<1>2. EvaluateGates
  BY <1>1, MainAt
<1>3. QED
  BY <1>1, <1>2 DEF EvaluateGates, Decide, Raise

LEMMA PassStep ==
  ASSUME Base, [Next]_vars, ProvenanceKnown, ProvenanceKnown', PassRestsOnEvidence
  PROVE  PassRestsOnEvidence'
<1> SUFFICES ASSUME passed' = "passed"
             PROVE  /\ BothGood'
                    /\ \A p \in RequiredFiles : Present(p)'
                    /\ (disk[Provenance] = "clean" \/ DamagedFile(Provenance))'
  BY DEF PassRestsOnEvidence
<1>1. CASE passed = "passed"
  <2>1. BothGood' /\ \A p \in RequiredFiles : Present(p)
    BY <1>1, DecidedIsKept DEF PassRestsOnEvidence, BothGood
  <2>2. \A p \in RequiredFiles : Present(p)'
    BY <2>1, PresentStays, RequiredPaths DEF Base
  <2>3. ASSUME ~DamagedFile(Provenance)' PROVE disk'[Provenance] = "clean"
    <3>1. disk[Provenance] = "clean"
      BY <1>1, <2>3, DamageStays DEF PassRestsOnEvidence
    <3>2. ~Faulted(Provenance)
      BY <2>3 DEF Faulted, DamagedFile, Base, TypeOK
    <3>3. Provenance # <<role, "progress.jsonl">>
      BY DEF Provenance, Top, Base, TypeOK, WorkerTypeOK, Roles
    <3>4. disk'[Provenance] = disk[Provenance]
      BY <3>1, <3>2, <3>3, StepFrame, NamedPaths
      DEF Created, Appended, Base, Absent, Provenance, TopNames
    <3>5. QED
      BY <3>1, <3>4
  <2>4. QED
    BY <2>1, <2>2, <2>3
<1>2. CASE passed # "passed"
  <2>1. Main
    BY <1>2, OthersKeep
  <2>2. GateMayPass /\ UNCHANGED <<dirVars, mem, damage>>
    BY <1>2, <2>1, GateStep
  <2>3. BothGood /\ ProvenanceClean /\ \A p \in RequiredFiles : disk[p] # Absent
    BY <2>2, GatePassed
  <2>4. disk[Provenance] = "clean" \/ DamagedFile(Provenance)
    BY <2>3 DEF ProvenanceClean, ProvenanceKnown, Provenance, Absent, Altered
  <2>5. QED
    BY <2>2, <2>3, <2>4 DEF BothGood, Present, DamagedFile, dirVars
<1>3. QED
  BY <1>1, <1>2

LEMMA ReferencesStep ==
  ASSUME Base, Base', [Next]_vars, PassRestsOnEvidence, ReferencesRest
  PROVE  ReferencesRest'
<1> SUFFICES ASSUME passed' = "passed", pc' = "final" \/ disk'[Final] # Absent
             PROVE  /\ \A p \in RequiredFiles : refs'[p] # Absent \/ DamagedFile(p)'
                    /\ refs'[Provenance] = "clean" \/ DamagedFile(Provenance)'
  BY DEF ReferencesRest
<1>1. CASE pc = "references"
  <2>2. passed = "passed"
    BY <1>1, MainMoves, OthersKeep DEF MainKeeps
  <2>4. disk[Final] = Absent /\ disk'[Final] = disk[Final]
    <3>1. ~WriteFinal
      BY <1>1 DEF WriteFinal
    <3>2. SameFinal
      BY <3>1, FinalFrame DEF Base
    <3>3. QED
      BY <1>1, <3>2 DEF SameFinal, Base, VerdictInv, FinalCarriesVerdict, FinalMayExist
  <2>5. BuildReferences
    <3>1. pc' = "final"
      BY <2>4
    <3>2. Main
      BY <3>1, <1>1, OthersKeep
    <3>3. QED
      BY <1>1, <3>2, MainAt
  <2>6. refs' = References /\ damage' = damage
    BY <2>5 DEF BuildReferences
  <2>7. \A p \in RequiredFiles : refs'[p] = disk[p]
    BY <2>6, RequiredPaths DEF References, HasSemanticRole
  <2>8. \A p \in RequiredFiles : DamagedFile(p)' <=> DamagedFile(p)
    BY <2>6 DEF DamagedFile
  <2>9. Provenance \in RequiredFiles
    BY RequiredPaths DEF RequiredFiles
  <2>10. QED
    BY <2>2, <2>6, <2>7, <2>8, <2>9 DEF PassRestsOnEvidence, Present
<1>2. CASE pc # "references"
  <2>1. refs' = refs
    BY <1>2, MainMoves, OthersKeep DEF MainKeeps
  <2>2. pc = "final" \/ disk[Final] # Absent
    <3>1. CASE pc' = "final"
      BY <3>1, <1>2, MainMoves, OthersKeep
      DEF MainFlow, Base, TypeOK, Steps, BeforeTry, InTry
    <3>2. CASE pc' # "final"
      <4>1. WriteFinal => pc = "final"
        BY DEF WriteFinal
      <4>2. ~WriteFinal => SameFinal
        BY FinalFrame DEF Base
      <4>3. QED
        BY <3>2, <4>1, <4>2 DEF SameFinal
    <3>3. QED
      BY <3>1, <3>2
  <2>3. passed = "passed"
    <3>1. pc # "gate"
      BY <2>2 DEF Base, VerdictInv, FinalCarriesVerdict, FinalMayExist
    <3>2. QED
      BY <3>1, MainMoves, OthersKeep DEF MainKeeps
  <2>4. QED
    BY <2>1, <2>2, <2>3, DamageStays DEF ReferencesRest
<1>3. QED
  BY <1>1, <1>2

LEMMA PassInvariant == Spec => []PassInv
<1>1. Init => PassInv
  <2>1. /\ Provenance \in Paths
        /\ \A r \in Roles : Termination(r) \in Paths
    BY NamedPaths, RequiredPaths DEF Provenance, TopNames
  <2>2. QED
    BY <2>1
    DEF Init, DirInit, WorkerInit, PassInv, TerminationPrecludesVerdict, DecidedWithoutWorker,
        ProvenanceKnown, PassRestsOnEvidence, ReferencesRest
<1>2. Base /\ Base' /\ PassInv /\ [Next]_vars => PassInv'
  BY TerminationStep, WorkerGoneStep, ProvenanceStep, PassStep, ReferencesStep DEF PassInv
<1>3. QED
  BY <1>1, <1>2, BaseInvariant, PTL DEF Spec

(* final.json says "passed" only over two results the gates accepted, on a   *)
(* provenance that was clean, with every required file in its manifest (or   *)
(* lost on the way), and never for an attempt with a terminated worker       *)
(* (evaluate_overall and build_final_payload as run_b2a_calibration uses     *)
(* them).                                                                    *)
THEOREM PublishedPassHasEvidence == Spec => []PublishedPassIsJustified
<1>1. Base /\ PassInv => PublishedPassIsJustified
  <2> SUFFICES ASSUME Base, PassInv, disk[Final] = "verdict_passed"
               PROVE  /\ BothGood
                      /\ \A p \in RequiredFiles : refs[p] # Absent \/ DamagedFile(p)
                      /\ refs[Provenance] = "clean" \/ DamagedFile(Provenance)
                      /\ \A r \in Roles : disk[Termination(r)] = Absent
    BY DEF PublishedPassIsJustified, Provenance, Termination
  <2>1. passed = "passed" /\ disk[Final] # Absent
    BY DEF Base, VerdictInv, FinalCarriesVerdict, Absent
  <2>2. QED
    BY <2>1 DEF PassInv, PassRestsOnEvidence, ReferencesRest, TerminationPrecludesVerdict
<1>2. QED
  BY <1>1, BaseInvariant, PassInvariant, PTL

-------------------------------------------------------------------------------
(* A failure is on record.                                                   *)

LEMMA ErrorsCount ==
  ASSUME Base, [Next]_vars
  PROVE  ioErrors \in Nat /\ (ioErrors' = ioErrors \/ ioErrors' = ioErrors + 1)
<1>1. ioErrors \in Nat
  BY MaxIOErrorsAssumption DEF Base, TypeOK, DirTypeOK
<1>2. CASE Main
  BY <1>1, <1>2, MainFrame DEF Base, CommandFrame
<1>3. CASE Worker
  BY <1>1, <1>3
  DEF Worker, WorkerStep, WorkerStarts, WorkerBodyReturns, WorkerBodyRaises, WorkerWritesResult,
      WorkerMarksResult, WorkerWritesEnvelope, WorkerMarksEnvelope, WorkerMarksFailure,
      WorkerWritesFailureEnvelope, WorkerKilled, Appends, AppendFails, Writes, WriteFails, dirVars
<1>4. CASE ~Main /\ ~Worker
  BY <1>1, <1>4, OthersKeep
<1>5. QED
  BY <1>2, <1>3, <1>4

RecordInv ==
  /\ pc \in BeforeTry => disk[Preflight] = Absent
  /\ code # Running <=> pc \in {"finally", "exited"}
  /\ ioErrors = 0 /\ code = 1 /\ disk[Preflight] # Absent =>
       Present(Failure) /\ (pc = "exited" => Present(Completion))

(* The command leaves its try block, or the process, with an exit code.      *)
LEMMA ExitStep ==
  ASSUME Main, pc' \in {"finally", "exited"}
  PROVE  code' \in {0, 1, 2} \/ (pc = "finally" /\ code' = code)
BY DEF Main, WriteInvocation, LoadConfigAndManifest, CollectProvenance, CheckRequest, RecordRefusal,
       WritePreflight, VerifyPromptIdentity, LaunchWorker, CollectWorker, TimeoutKillsWorker,
       PreserveStdout, PreserveStderr, RecordTermination, JudgeWorker, AcceptResult,
       RejectMissingResult, RejectResult, StoreArtifact, EvaluateGates, Decide, WriteCompletion,
       VerifyPreFinal, BuildReferences, WriteFinal, RecordFinalWriteFailure, VerifyFinal,
       RecordVerificationFailure, CatchException, Finally, Goto, Raise, Leave, Exit

LEMMA PreflightStep ==
  ASSUME Base, [Next]_vars, pc' \in BeforeTry, RecordInv
  PROVE  disk'[Preflight] = Absent
<1>1. (pc \in BeforeTry /\ pc # "preflight") \/ ~Main
  BY MainMoves DEF MainFlow, Base, TypeOK, Steps, BeforeTry, InTry
<1>2. pc \in BeforeTry
  BY <1>1, OthersKeep DEF BeforeTry
<1>3. disk[Preflight] = Absent
  BY <1>2 DEF RecordInv
<1>4. ~Created(Preflight) /\ ~Appended(Preflight) /\ ~Faulted(Preflight)
  BY <1>1, <1>3, WrittenOnce
  DEF Base, TypeOK, WorkerTypeOK, Created, Appended, Faulted, Preflight, Top, Roles
<1>5. QED
  BY <1>3, <1>4, StepFrame, RequiredPaths DEF Base

(* The file a write that does not fail leaves.                               *)
LEMMA WritePresent ==
  ASSUME Base, Base', NEW p \in Paths, NEW c, c # Absent, Writes(p, c) \/ WriteFails(p, c), ioErrors' = 0
  PROVE  Present(p)'
<1>1. ~WriteFails(p, c)
  BY MaxIOErrorsAssumption DEF Base, TypeOK, DirTypeOK, WriteFails
<1>2. QED
  BY <1>1, WriteDone DEF Base, TypeOK, Present

LEMMA FailureStep ==
  ASSUME Base, Base', [Next]_vars, RecordInv, ioErrors' = 0, code' = 1, disk'[Preflight] # Absent
  PROVE  Present(Failure)' /\ (pc' = "exited" => Present(Completion)')
<1>p. Failure \in Paths /\ Completion \in Paths
  BY VerdictFilesDistinct DEF VerdictFiles, FailureRecords
<1>e. ioErrors = 0
  BY ErrorsCount
<1>k. Running # 1 /\ Interrupted # 1 /\ Crashed # 1
  BY DEF Running, Interrupted, Crashed
<1>1. CASE ~Main
  <2>1. pc' = pc /\ code = 1
    BY <1>1, <1>k, OthersKeep
  <2>2. disk[Preflight] # Absent
    <3>1. ~Created(Preflight) /\ ~Appended(Preflight)
      BY <1>1, WrittenOnce DEF Base, TypeOK, WorkerTypeOK, Created, Appended, Preflight, Top, Roles
    <3>2. QED
      BY <3>1, StepFrame, RequiredPaths DEF Base, Faulted
  <2>3. QED
    BY <2>1, <2>2, <1>e, <1>p, PresentStays DEF RecordInv, Base
<1>2. CASE Main /\ pc \in BeforeTry
  <2>1. pc = "preflight"
    BY <1>2, StepFrame, WrittenOnce, RequiredPaths
    DEF Base, TypeOK, WorkerTypeOK, RecordInv, Created, Appended, Faulted, Preflight, Top, Roles,
        BeforeTry
  <2>2. WritePreflight /\ code # 1
    BY <1>2, <2>1, <1>k, MainAt DEF RecordInv
  <2>3. ioErrors' = ioErrors + 1
    BY <2>2 DEF WritePreflight, Goto, unchangedByGoto, WriteFails
  <2>4. QED
    BY <2>3, <1>e
<1>3. CASE Main /\ pc = "catch"
  <2>1. CatchException /\ pc' = "finally"
    BY <1>3, MainAt, MainMoves DEF MainFlow
  <2>2. FailureContent # Absent
    BY DEF FailureContent, Absent
  <2>3. QED
    BY <2>1, <2>2, <1>p, WritePresent DEF CatchException
<1>4. CASE Main /\ pc = "finally"
  <2>1. Finally
    BY <1>4, MainAt
  <2>2. \/ disk[Completion] # Absent /\ UNCHANGED dirVars /\ Exit(code)
        \/ Writes(Completion, FallbackOutcome) /\ Exit(code)
    BY <2>1, <1>e DEF Finally, WriteFails
  <2>3. code = 1 /\ disk[Preflight] # Absent
    <3>1. ~Created(Preflight) /\ ~Appended(Preflight)
      BY <1>4, WrittenOnce DEF Base, TypeOK, WorkerTypeOK, Created, Appended, Preflight, Top, Roles
    <3>2. QED
      BY <2>2, <3>1, StepFrame, RequiredPaths DEF Base, Faulted, Exit
  <2>4. Present(Failure)'
    BY <2>3, <1>e, <1>p, PresentStays DEF RecordInv, Base
  <2>5. FallbackOutcome # Absent
    BY DEF FallbackOutcome, Absent
  <2>6. Present(Completion)'
    BY <2>2, <2>5, <1>p, WritePresent DEF Present, dirVars
  <2>7. QED
    BY <2>4, <2>6
<1>5. CASE Main /\ pc \notin BeforeTry \cup {"catch", "finally"}
  <2>1. pc # "exited" /\ code # 1
    BY <1>5, <1>k, MainMoves DEF MainFlow, RecordInv
  <2>2. pc = "verify_final"
    BY <1>5, <2>1, MainMoves DEF MainFlow, MainKeeps, Base, TypeOK, Steps, InTry
  <2>3. VerifyFinal
    BY <1>5, <2>2, MainAt
  <2>4. QED
    BY <2>1, <2>3 DEF VerifyFinal, Leave, Goto, unchangedByGoto
<1>6. QED
  BY <1>1, <1>2, <1>3, <1>4, <1>5

LEMMA RecordInvariant == Spec => []RecordInv
<1>1. Init => RecordInv
  BY RequiredPaths DEF Init, DirInit, RecordInv, Running
<1>2. Base /\ Base' /\ RecordInv /\ [Next]_vars => RecordInv'
  <2> SUFFICES ASSUME Base, Base', RecordInv, [Next]_vars PROVE RecordInv'
    OBVIOUS
  <2>1. code' # Running <=> pc' \in {"finally", "exited"}
    <3>1. CASE Main
      <4>1. pc' \in {"finally", "exited"} => code' # Running
        BY <3>1, ExitStep DEF RecordInv, Running
      <4>2. QED
        BY <3>1, <4>1, MainMoves DEF MainFlow, MainKeeps, RecordInv
    <3>2. CASE ~Main
      BY <3>2, OthersKeep DEF RecordInv, Running, Interrupted, Crashed
    <3>3. QED
      BY <3>1, <3>2
  <2>2. QED
    BY <2>1, PreflightStep, FailureStep DEF RecordInv
<1>3. QED
  BY <1>1, <1>2, BaseInvariant, PTL DEF Spec

(* A command that failed past its preflight, on a file system that did not,  *)
(* has left failure.json and completion.json, unless they were lost later    *)
(* (the handlers of run_b2a_calibration and the finally of                   *)
(* cmd_b2a_calibrate).                                                       *)
THEOREM FailuresAreRecorded == Spec => []FailureIsRecorded
<1>1. RecordInv => FailureIsRecorded
  BY DEF RecordInv, FailureIsRecorded, Preflight, Present
<1>2. QED
  BY <1>1, RecordInvariant, PTL

-------------------------------------------------------------------------------
(* The FullKV result is kept with the failures it belongs to.                *)

(* Each file of the verdict is written at its own step, never by a worker.   *)
LEMMA VerdictFileWrites ==
  ASSUME TypeOK
  PROVE  /\ CommandWrites(Failure) => pc \in {"catch", "refusal"}
         /\ CommandWrites(FinalWriteFailure) => pc = "final_failed"
         /\ CommandWrites(FinalVerificationFailure) => pc = "verify_failed"
         /\ CommandWrites(Completion) => pc \in {"completion", "finally"}
         /\ CommandWrites(Final) => pc = "final"
         /\ \A p \in VerdictFiles : ~WorkerWrites(p) /\ p # <<role, "progress.jsonl">>
<1>1. next \in 1..12 /\ role \in Roles
  BY ArtifactPaths DEF TypeOK, WorkerTypeOK
<1>2. PostWorkerArtifacts[next] \notin VerdictFiles
  BY <1>1, OtherArtifacts
<1>3. \A n \in WorkerNames : <<role, n>> \notin VerdictFiles
  BY <1>1, OtherFiles
<1>4. QED
  BY <1>1, <1>2, <1>3, OtherFiles, VerdictFilesDistinct
  DEF CommandWrites, WorkerWrites, VerdictFiles, FailureRecords, Preflight, Provenance, ResultFile,
      EnvelopeFile, WorkerNames

(* How a file of the verdict can change.                                     *)
LEMMA VerdictFileStep ==
  ASSUME TypeOK, [Next]_vars, NEW p \in VerdictFiles, disk'[p] # disk[p]
  PROVE  \/ disk[p] = Absent /\ Main /\ CommandWrites(p)
         \/ Faulted(p) /\ DamagedFile(p)' /\ disk'[p] \in {Absent, Altered} /\ ~Main
<1>1. p \in Paths
  BY VerdictFilesDistinct
<1>2. Faulted(p) => DamagedFile(p)'
  BY DEF Faulted, DamagedFile, TypeOK
<1>3. Faulted(p) => ~Main
  BY <1>1, MainFrame DEF Faulted, CommandFrame
<1>4. QED
  BY <1>1, <1>2, <1>3, StepFrame, VerdictFileWrites DEF Created, Appended, Faulted

WorkerPhase == {"command", "waiting", "stdout", "stderr", "termination", "judge"}

(* Until both results are accepted there is none of R-KV's, and R-KV's turn  *)
(* comes after the FullKV result was accepted.                               *)
ResultsInOrder ==
  /\ pc \in BeforeTry \cup {"prompt"} => role = "fullkv"
  /\ pc \in BeforeTry \cup {"prompt"} \cup WorkerPhase =>
       mem["rkv"] = Absent /\ (role = "rkv" => mem["fullkv"] # Absent)

PartialHeld ==
  (pc = "catch" /\ partial) \/ disk[Failure] = "with_fullkv" =>
    mem["fullkv"] # Absent /\ mem["rkv"] = Absent

PartialWritten ==
  ioErrors = 0 /\ disk[Termination("rkv")] # Absent =>
    /\ pc = "catch" => partial
    /\ disk[Failure] \in {Absent, "with_fullkv"} \/ DamagedFile(Failure)

(* Nothing is reported of a worker before it has ended, its stderr.log is    *)
(* there when it is judged, and only the result of the R-KV worker leads on. *)
ReportsInOrder ==
  /\ pc \in BeforeTry \cup {"prompt"} => Unreported("fullkv")
  /\ \/ pc \in BeforeTry \cup {"prompt"}
     \/ pc \in WorkerPhase /\ role = "fullkv"
     => Unreported("rkv")
  /\ pc \in {"command", "waiting"} \/ WorkerRunning => Unreported(role)
  /\ pc \in {"stdout", "stderr"} => disk[<<role, "stderr.log">>] = Absent
  /\ pc = "judge" => cause = "none" /\ Present(<<role, "stderr.log">>)
  /\ pc = "termination" => cause # "none"
  /\ pc \in InTry \ ({"prompt", "catch"} \cup WorkerPhase) => mem["rkv"] # Absent
  /\ pc \notin Unwinding =>
       \A p \in Paths : <<p, "catch">> \notin damage /\ <<p, "finally">> \notin damage

(* Why an exception carries the FullKV result.                               *)
RKVEndedBadly ==
  /\ ~WorkerRunning
  /\ \/ Present(Termination("rkv"))
     \/ RKVLeftNoResult
     \/ DamagedFile(<<"rkv", "stderr.log">>)

PartialExplained ==
  (pc = "catch" /\ partial) \/ disk[Failure] = "with_fullkv" => RKVEndedBadly

NoResultWritten ==
  ioErrors = 0 /\ RKVLeftNoResult =>
    /\ pc = "catch" => partial
    /\ disk[Failure] \in {Absent, "with_fullkv"} \/ DamagedFile(Failure)

PartialInv ==
  /\ ResultsInOrder
  /\ PartialHeld
  /\ PartialWritten
  /\ ReportsInOrder
  /\ PartialExplained
  /\ NoResultWritten

LEMMA InOrderStep ==
  ASSUME Base, [Next]_vars, ResultsInOrder
  PROVE  ResultsInOrder'
<1> DEFINE Early == BeforeTry \cup {"prompt"}
<1>1. CASE ~Main
  <2>1. UNCHANGED <<role, mem>>
    BY <1>1, OthersKeep
  <2>2. pc' = pc \/ pc' \notin Early \cup WorkerPhase
    BY <1>1, OthersKeep DEF BeforeTry, WorkerPhase
  <2>3. QED
    BY <2>1, <2>2 DEF ResultsInOrder, BeforeTry
<1>2. CASE Main /\ pc # "judge"
  <2>1. UNCHANGED <<role, mem>>
    BY <1>2, MainMoves DEF MainKeeps
  <2>2. /\ pc' \in Early => pc \in Early
        /\ pc' \in Early \cup WorkerPhase => pc \in Early \cup WorkerPhase
    BY <1>2, MainMoves DEF MainFlow, Base, TypeOK, Steps, InTry, BeforeTry, WorkerPhase
  <2>3. QED
    BY <2>1, <2>2 DEF ResultsInOrder
<1>3. CASE Main /\ pc = "judge"
  <2>1. pc' \in {"command", "store", "catch"}
    BY <1>3, MainMoves DEF MainFlow
  <2>2. ASSUME pc' = "command"
        PROVE  mem' = [mem EXCEPT !["fullkv"] = disk[ResultFile]] /\ disk[ResultFile] # Absent
    BY <1>3, <2>2, MainAt
    DEF JudgeWorker, AcceptResult, RejectMissingResult, RejectResult, Raise, Base, TypeOK,
        WorkerTypeOK, Roles, Absent
  <2>3. ASSUME pc' = "command" PROVE mem'["rkv"] = Absent /\ mem'["fullkv"] # Absent
    BY <1>3, <2>2, <2>3 DEF ResultsInOrder, WorkerPhase, Base, TypeOK, Roles
  <2>4. QED
    BY <2>1, <2>3 DEF ResultsInOrder, BeforeTry, WorkerPhase
<1>4. QED
  BY <1>1, <1>2, <1>3

(* What an exception carries.                                                *)
LEMMA RaiseStep ==
  ASSUME Base, Main, pc' = "catch"
  PROVE  /\ UNCHANGED <<role, mem>>
         /\ partial' => pc \in WorkerPhase /\ role = "rkv"
         /\ pc = "termination" /\ disk'[Termination("rkv")] # disk[Termination("rkv")]
              /\ ioErrors' = ioErrors => partial'
<1>0. ~(pc \in BeforeTry) /\ pc \notin {"references", "final", "verify_final", "catch", "finally", "exited"}
  BY MainMoves DEF MainFlow, BeforeTry
<1>1. UNCHANGED <<role, mem>>
  <2>1. pc = "judge" => UNCHANGED <<role, mem>>
    BY MainAt DEF JudgeWorker, AcceptResult, RejectMissingResult, RejectResult, Raise
  <2>2. QED
    BY <2>1, MainMoves DEF MainKeeps
<1>2. ASSUME partial' PROVE pc \in WorkerPhase /\ role = "rkv"
  <2> USE DEF Raise, Goto, unchangedByGoto, WorkerPhase
  <2>1. ~VerifyPromptIdentity /\ ~LaunchWorker
    BY <1>2 DEF VerifyPromptIdentity, LaunchWorker
  <2>2. ~PreserveStdout /\ ~PreserveStderr
    BY <1>2 DEF PreserveStdout, PreserveStderr
  <2>3. RecordTermination => pc = "termination" /\ role = "rkv"
    BY <1>2 DEF RecordTermination
  <2>4. JudgeWorker => pc = "judge" /\ role = "rkv"
    BY <1>2 DEF JudgeWorker, AcceptResult, RejectMissingResult, RejectResult
  <2>5. ~StoreArtifact
    BY <1>2 DEF StoreArtifact
  <2>6. ~EvaluateGates /\ ~WriteCompletion /\ ~VerifyPreFinal
    BY <1>2 DEF EvaluateGates, Decide, WriteCompletion, VerifyPreFinal
  <2>7. ~RecordFinalWriteFailure /\ ~RecordVerificationFailure
    BY <1>2 DEF RecordFinalWriteFailure, RecordVerificationFailure
  <2>8. RecordTermination \/ JudgeWorker
    BY <1>0, <2>1, <2>2, <2>5, <2>6, <2>7
    DEF Main, WriteInvocation, LoadConfigAndManifest, CollectProvenance, CheckRequest,
        RecordRefusal, WritePreflight, CollectWorker, TimeoutKillsWorker, BuildReferences,
        WriteFinal, VerifyFinal, CatchException, Finally, Exit, Leave
  <2>9. QED
    BY <2>3, <2>4, <2>8
<1>3. ASSUME pc = "termination", disk'[Termination("rkv")] # disk[Termination("rkv")],
             ioErrors' = ioErrors
      PROVE  partial'
  <2>1. RecordTermination /\ role = "rkv"
    BY <1>3, MainAt, MainFrame, WrittenOnce, RequiredPaths DEF CommandFrame, Base, Roles
  <2>2. ioErrors \in Nat
    BY MaxIOErrorsAssumption DEF Base, TypeOK, DirTypeOK
  <2>f. /\ ~WriteFails(<<role, "termination.json">>, EnvelopeObservation)
        /\ ~UNCHANGED dirVars
    BY <1>3, <2>2 DEF WriteFails, dirVars
  <2>3. Raise(role = "rkv")
    BY <2>1, <2>f, Zenon DEF RecordTermination
  <2>4. partial' = (role = "rkv")
    BY <2>3 DEF Raise
  <2>5. QED
    BY <2>1, <2>4, Zenon
<1>4. QED
  BY <1>1, <1>2, <1>3

(* The FullKV result gets into failure.json by one step only.                *)
LEMMA FailureWritten ==
  ASSUME Base, [Next]_vars, disk[Failure] # "with_fullkv", disk'[Failure] = "with_fullkv"
  PROVE  CatchException /\ pc = "catch" /\ partial
<1>1. Main /\ pc \in {"catch", "refusal"}
  BY VerdictFileStep, VerdictFileWrites DEF VerdictFiles, FailureRecords, Base, Absent, Altered
<1>2. pc # "refusal"
  BY <1>1, MainAt, WriteFrame, VerdictFilesDistinct
  DEF RecordRefusal, Base, TypeOK, VerdictFiles, FailureRecords, Absent
<1>3. CatchException /\ pc = "catch"
  BY <1>1, <1>2, MainAt
<1>4. disk'[Failure] \in {Absent, FailureContent}
  BY <1>3, WriteFrame, VerdictFilesDistinct
  DEF CatchException, Base, TypeOK, VerdictFiles, FailureRecords
<1>5. QED
  BY <1>3, <1>4 DEF FailureContent, Absent

LEMMA HeldStep ==
  ASSUME Base, [Next]_vars, ResultsInOrder, PartialHeld
  PROVE  PartialHeld'
<1>1. ASSUME pc' = "catch", partial' PROVE mem'["fullkv"] # Absent /\ mem'["rkv"] = Absent
  <2>1. CASE Main
    BY <1>1, <2>1, RaiseStep DEF ResultsInOrder
  <2>2. CASE ~Main
    BY <1>1, <2>2, OthersKeep DEF PartialHeld
  <2>3. QED
    BY <2>1, <2>2
<1>2. ASSUME disk'[Failure] = "with_fullkv" PROVE mem'["fullkv"] # Absent /\ mem'["rkv"] = Absent
  <2>1. CASE disk[Failure] = "with_fullkv"
    <3>1. pc \in Unwinding
      BY <2>1 DEF Base, VerdictInv, RecordsExcludeVerdict, Absent, Unwinding
    <3>2. QED
      BY <2>1, <3>1, DecidedIsKept DEF PartialHeld
  <2>2. CASE disk[Failure] # "with_fullkv"
    <3>1. CatchException /\ pc = "catch" /\ partial
      BY <1>2, <2>2, FailureWritten
    <3>2. UNCHANGED mem
      BY <3>1 DEF CatchException, Leave
    <3>3. QED
      BY <3>1, <3>2 DEF PartialHeld
  <2>3. QED
    BY <2>1, <2>2
<1>3. QED
  BY <1>1, <1>2 DEF PartialHeld

LEMMA WrittenStep ==
  ASSUME Base, [Next]_vars, TerminationPrecludesVerdict, PartialWritten
  PROVE  PartialWritten'
<1> DEFINE T == Termination("rkv")
<1>p. T \in Paths \ VerdictFiles /\ Failure \in VerdictFiles /\ "rkv" \in Roles
  BY RequiredPaths DEF VerdictFiles, FailureRecords, Roles
<1> SUFFICES ASSUME ioErrors' = 0, disk'[T] # Absent
             PROVE  /\ pc' = "catch" => partial'
                    /\ disk'[Failure] \in {Absent, "with_fullkv"} \/ DamagedFile(Failure)'
  BY DEF PartialWritten
<1>e. ioErrors = 0
  BY ErrorsCount
<1>1. CASE disk[T] = Absent
  <2>1. Main /\ pc = "termination"
    BY <1>1, <1>p, StepFrame, WrittenOnce
    DEF Base, Created, Appended, Faulted, Termination
  <2>2. pc' = "catch"
    BY <2>1, MainMoves DEF MainFlow
  <2>3. partial'
    BY <1>1, <1>e, <2>1, <2>2, RaiseStep
  <2>4. disk[Failure] = Absent
    BY <2>1 DEF Base, VerdictInv, RecordsExcludeVerdict
  <2>5. disk'[Failure] = disk[Failure]
    BY <1>p, <2>1, VerdictFileStep, VerdictFileWrites DEF Base
  <2>6. QED
    BY <2>3, <2>4, <2>5
<1>2. CASE disk[T] # Absent
  <2>1. pc \in Unwinding
    BY <1>2, <1>p DEF TerminationPrecludesVerdict
  <2>2. pc' = "catch" => partial'
    <3>1. pc' = "catch" => pc = "catch" /\ partial' = partial
      BY <2>1, MainMoves, OthersKeep DEF MainFlow, Unwinding
    <3>2. QED
      BY <1>2, <1>e, <3>1 DEF PartialWritten
  <2>3. CASE disk'[Failure] = disk[Failure]
    BY <1>2, <1>e, <2>2, <2>3, DamageStays DEF PartialWritten
  <2>4. CASE disk'[Failure] # disk[Failure] /\ ~Main
    BY <1>p, <2>2, <2>4, VerdictFileStep DEF Base
  <2>5. CASE disk'[Failure] # disk[Failure] /\ Main
    <3>1. pc = "catch"
      BY <1>p, <2>1, <2>5, VerdictFileStep, VerdictFileWrites DEF Base, Unwinding
    <3>2. CatchException /\ partial
      BY <1>2, <1>e, <2>5, <3>1, MainAt DEF PartialWritten
    <3>3. disk'[Failure] = "with_fullkv"
      BY <1>p, <2>5, <3>2, WriteFrame, VerdictFilesDistinct
      DEF CatchException, FailureContent, Base, TypeOK, Writes, WriteFails, DirTypeOK
    <3>4. QED
      BY <2>2, <3>3
  <2>6. QED
    BY <2>3, <2>4, <2>5
<1>3. QED
  BY <1>1, <1>2

(* Away from the worker phase the results and the cause stay as they are.    *)
LEMMA EndKeeps ==
  ASSUME [Next]_vars, pc \in Unwinding
  PROVE  UNCHANGED <<role, mem, cause>>
<1>1. CASE Main
  <2>1. UNCHANGED <<role, mem>>
    BY <1>1, MainMoves DEF MainKeeps, Unwinding
  <2>2. (pc = "catch" /\ CatchException) \/ (pc = "finally" /\ Finally)
    BY <1>1, MainAt, MainMoves DEF MainFlow, Unwinding
  <2>3. QED
    BY <2>1, <2>2 DEF CatchException, Finally, Leave, Exit
<1>2. CASE ~Main
  BY <1>2, OthersKeep
<1>3. QED
  BY <1>1, <1>2

LEMMA NoResultByCommand ==
  ASSUME TypeOK, pc # "store"
  PROVE  ~CommandWrites(<<"rkv", "result.json">>)
BY DEF CommandWrites, Preflight, Provenance, Top, Completion, Final, FinalWriteFailure,
       FinalVerificationFailure, Failure

(* A step that does not report anything keeps a worker unreported.           *)
LEMMA UnreportedStays ==
  ASSUME TypeOK, [Next]_vars, NEW r \in Roles, Unreported(r), mem'[r] = mem[r],
         ~Main \/ role # r \/ pc \notin {"stdout", "stderr", "termination"}
  PROVE  Unreported(r)'
<1>1. ASSUME NEW n \in ReportNames PROVE disk'[<<r, n>>] = Absent
  <2>1. disk[<<r, n>>] = Absent
    BY DEF Unreported, ReportNames
  <2>2. CASE disk'[<<r, n>>] # Absent
    <3>1. Main /\ role = r /\ pc \in {"stdout", "stderr", "termination"}
      BY <2>1, <2>2, EndReportStep
    <3>2. QED
      BY <3>1
  <2>3. QED
    BY <2>2
<1>2. QED
  BY <1>1 DEF Unreported, ReportNames

LEMMA ReportsOthers ==
  ASSUME Base, [Next]_vars, ~Main, ReportsInOrder
  PROVE  ReportsInOrder'
<1>1. /\ UNCHANGED <<role, mem, cause>>
      /\ pc' = pc \/ pc' \in {"finally", "exited"}
      /\ WorkerRunning' => WorkerRunning
  BY OthersKeep, WorkersRun DEF WorkerRunning, RunningSteps
<1>2. /\ {"catch", "finally", "exited"} \cap (BeforeTry \cup {"prompt"} \cup WorkerPhase) = {}
      /\ {"finally", "exited"} \cap InTry = {}
  BY DEF BeforeTry, WorkerPhase, InTry
<1>3. ASSUME NEW r \in Roles, Unreported(r) PROVE Unreported(r)'
  BY <1>1, <1>3, UnreportedStays DEF Base
<1>4. role \in Roles /\ "fullkv" \in Roles /\ "rkv" \in Roles
  BY DEF Base, TypeOK, WorkerTypeOK, Roles
<1>e. "stderr.log" \in ReportNames /\ \A r \in Roles : <<r, "stderr.log">> \in Paths
  BY ReportPaths DEF ReportNames
<1>5. ASSUME NEW r \in Roles, disk[<<r, "stderr.log">>] = Absent
      PROVE  disk'[<<r, "stderr.log">>] = Absent
  BY <1>e, <1>5, EndReportStep DEF Base
<1>6. ASSUME NEW r \in Roles, Present(<<r, "stderr.log">>)
      PROVE  Present(<<r, "stderr.log">>)'
  BY <1>e, <1>6, PresentStays DEF Base
<1>7. ASSUME pc' \notin Unwinding, NEW p \in Paths,
             <<p, "catch">> \in damage' \/ <<p, "finally">> \in damage'
      PROVE  FALSE
  <2>1. pc = pc' /\ pc \notin {"catch", "finally"}
    BY <1>1, <1>7 DEF Unwinding
  <2>2. <<p, "catch">> \notin damage /\ <<p, "finally">> \notin damage
    BY <1>7, <2>1 DEF ReportsInOrder
  <2>3. damage' # damage => \E q : damage' = damage \cup {<<q, pc>>}
    BY DamageStays DEF DiskFault
  <2>4. QED
    BY <1>7, <2>1, <2>2, <2>3
<1>8. QED
  BY <1>1, <1>2, <1>3, <1>4, <1>5, <1>6, <1>7 DEF ReportsInOrder, Unwinding

LEMMA ReportsMain ==
  ASSUME Base, Main, ResultsInOrder, ReportsInOrder
  PROVE  ReportsInOrder'
<1> DEFINE Early == BeforeTry \cup {"prompt"}
           Later == InTry \ ({"prompt", "catch"} \cup WorkerPhase)
<1>n. [Next]_vars
  BY DEF Next
<1>r. role \in Roles /\ "fullkv" \in Roles /\ "rkv" \in Roles /\ mem \in [Roles -> {Absent, "good", "weak"}]
  BY DEF Base, TypeOK, WorkerTypeOK, Roles
<1>s. pc \in Early \cup WorkerPhase \cup Later \cup {"catch", "finally", "exited"}
  BY DEF Base, TypeOK, Steps
<1>j. ASSUME pc = "judge"
      PROVE  \/ pc' = "catch"
             \/ /\ pc' = "command" /\ role = "fullkv" /\ role' = "rkv"
                /\ mem'["rkv"] = mem["rkv"]
             \/ pc' = "store" /\ role' = "rkv" /\ mem'["rkv"] # Absent
  BY <1>j, <1>r, MainAt
  DEF JudgeWorker, AcceptResult, RejectMissingResult, RejectResult, Raise, Absent, Roles
<1>k. pc # "judge" => UNCHANGED <<role, mem>>
  BY MainMoves DEF MainKeeps
<1>1. ASSUME pc' \in Early PROVE Unreported("fullkv")' /\ Unreported("rkv")'
  <2>1. pc \in Early
    BY <1>1, <1>s, MainMoves DEF MainFlow, BeforeTry, WorkerPhase, InTry
  <2>2. pc \notin {"judge", "stdout", "stderr", "termination"}
    BY <2>1 DEF BeforeTry
  <2>3. QED
    BY <1>n, <1>r, <1>k, <2>1, <2>2, UnreportedStays DEF ReportsInOrder, Base
<1>2. ASSUME pc' \in WorkerPhase, role' = "fullkv" PROVE Unreported("rkv")'
  <2>1. pc # "judge"
    BY <1>2, <1>j DEF WorkerPhase
  <2>2. pc \in Early \cup WorkerPhase
    BY <1>2, <1>s, MainMoves DEF MainFlow, BeforeTry, WorkerPhase, InTry
  <2>3. Unreported("rkv") /\ role # "rkv"
    BY <1>2, <1>k, <2>1, <2>2 DEF ReportsInOrder
  <2>4. QED
    BY <1>n, <1>r, <1>k, <2>1, <2>3, UnreportedStays DEF Base
<1>3. ASSUME pc' = "command" PROVE Unreported(role)'
  <2>1. pc \in {"prompt", "judge"}
    BY <1>3, MainMoves DEF MainFlow, Base, TypeOK, Steps, BeforeTry, InTry
  <2>2. CASE pc = "prompt"
    <3>1. role = "fullkv" /\ Unreported("fullkv") /\ role' = role /\ mem' = mem
      BY <1>k, <2>2 DEF ResultsInOrder, ReportsInOrder
    <3>2. Unreported("fullkv")'
      BY <1>n, <1>r, <2>2, <3>1, UnreportedStays DEF Base
    <3>3. QED
      BY <3>1, <3>2 DEF Unreported
  <2>3. CASE pc = "judge"
    <3>1. Unreported("rkv") /\ role' = "rkv" /\ mem'["rkv"] = mem["rkv"]
      BY <1>3, <1>j, <2>3 DEF ReportsInOrder, WorkerPhase
    <3>2. Unreported("rkv")'
      BY <1>n, <1>r, <2>3, <3>1, UnreportedStays DEF Base
    <3>3. QED
      BY <3>1, <3>2 DEF Unreported
  <2>4. QED
    BY <2>1, <2>2, <2>3
<1>4. ASSUME pc' = "waiting" \/ WorkerRunning' PROVE Unreported(role)'
  <2>1. pc = "command"
    <3>1. CASE pc' = "waiting"
      BY <3>1, MainMoves DEF MainFlow, Base, TypeOK, Steps, BeforeTry, InTry
    <3>2. CASE WorkerRunning'
      <4>1. pc # "waiting"
        BY <3>2, MainAt DEF CollectWorker, TimeoutKillsWorker, WorkerExits, workerVars,
           WorkerRunning, RunningSteps
      <4>2. ~WorkerRunning
        BY <4>1, MainMoves DEF MainFlow, Base, OrphanInv, WorkerIsAwaited
      <4>3. QED
        BY <3>2, <4>1, <4>2, MainMoves DEF MainKeeps, WorkerRunning, workerVars
    <3>3. QED
      BY <1>4, <3>1, <3>2
  <2>2. Unreported(role) /\ UNCHANGED <<role, mem>>
    BY <1>k, <2>1 DEF ReportsInOrder
  <2>3. \A r \in Roles : Unreported(r) /\ mem' = mem => Unreported(r)'
    BY <1>n, <2>1, UnreportedStays DEF Base
  <2>4. QED
    BY <1>r, <2>2, <2>3 DEF Unreported
<1>5. ASSUME pc' \in {"stdout", "stderr"} PROVE disk'[<<role', "stderr.log">>] = Absent
  <2>1. pc \in {"waiting", "stdout"}
    BY <1>5, MainMoves DEF MainFlow, Base, TypeOK, Steps, BeforeTry, InTry
  <2>2. disk[<<role, "stderr.log">>] = Absent
    BY <2>1 DEF ReportsInOrder, Unreported
  <2>3. disk'[<<role, "stderr.log">>] = Absent
    <3>1. "stderr.log" \in ReportNames
      BY DEF ReportNames
    <3>2. pc # "stderr" /\ pc # "termination"
      BY <2>1
    <3>3. QED
      BY <1>n, <1>r, <2>2, <3>1, <3>2, EndReportStep DEF Base
  <2>4. QED
    BY <1>k, <2>1, <2>3
<1>6. ASSUME pc' \in {"judge", "termination"}
      PROVE  /\ pc' = "judge" => cause' = "none" /\ disk'[<<role', "stderr.log">>] # Absent
             /\ pc' = "termination" => cause' # "none"
  <2>1. pc = "stderr"
    BY <1>6, MainMoves DEF MainFlow, Base, TypeOK, Steps, BeforeTry, InTry
  <2>2. PreserveStderr
    BY <2>1, MainAt
  <2>3. /\ Writes(<<role, "stderr.log">>, "written")
        /\ Goto(IF cause = "none" THEN "judge" ELSE "termination")
    BY <1>6, <2>2 DEF PreserveStderr, Raise
  <2>4. disk'[<<role, "stderr.log">>] = "written"
    BY <1>r, <2>3, ReportPaths, WriteDone DEF Base, TypeOK, ReportNames
  <2>5. QED
    BY <2>3, <2>4 DEF Goto, unchangedByGoto, Absent
<1>7. ASSUME pc' \in Later PROVE mem'["rkv"] # Absent
  <2>1. pc \in Later \cup {"judge"}
    BY <1>7, <1>s, MainMoves DEF MainFlow, BeforeTry, WorkerPhase, InTry
  <2>2. CASE pc = "judge"
    BY <1>7, <1>j, <2>2 DEF WorkerPhase
  <2>3. CASE pc # "judge"
    BY <1>k, <2>1, <2>3 DEF ReportsInOrder
  <2>4. QED
    BY <2>2, <2>3
<1>8. ASSUME pc' \notin Unwinding, NEW p \in Paths
      PROVE  <<p, "catch">> \notin damage' /\ <<p, "finally">> \notin damage'
  BY <1>n, <1>8, UnwindingGoesOn, MainMoves DEF MainKeeps, ReportsInOrder
<1>9. QED
  BY <1>1, <1>2, <1>3, <1>4, <1>5, <1>6, <1>7, <1>8 DEF ReportsInOrder, WorkerPhase, Present

(* Once the exception is in flight nothing changes in what it says of the    *)
(* R-KV worker, except that its files may be lost.                           *)
LEMMA EndStays ==
  ASSUME Base, [Next]_vars, pc \in Unwinding, RKVEndedBadly
  PROVE  RKVEndedBadly'
<1> DEFINE E == <<"rkv", "stderr.log">>
           R == <<"rkv", "result.json">>
<1>p. E \in Paths /\ R \in Paths /\ Termination("rkv") \in Paths
  BY NamedPaths DEF Roles, WorkerNames, Termination
<1>1. ~WorkerRunning /\ ~Worker
  BY WorkersRun DEF RKVEndedBadly, Worker
<1>2. pc \notin {"command", "waiting", "judge", "store"}
  BY DEF Unwinding
<1>3. ~WorkerRunning'
  <2>1. CASE Main
    BY <1>1, <1>2, <2>1, MainMoves DEF MainKeeps, WorkerRunning, workerVars
  <2>2. CASE ~Main
    BY <1>1, <2>2, OthersKeep, WorkersRun DEF WorkerRunning, RunningSteps
  <2>3. QED
    BY <2>1, <2>2
<1>4. CASE Present(Termination("rkv"))
  BY <1>3, <1>4, <1>p, PresentStays DEF RKVEndedBadly, Base
<1>5. CASE DamagedFile(E)
  BY <1>3, <1>5, DamageStays DEF RKVEndedBadly
<1>6. CASE RKVLeftNoResult
  <2>1. Present(E)'
    BY <1>6, <1>p, PresentStays DEF RKVLeftNoResult, Present, Base
  <2>2. UNCHANGED <<role, mem, cause>>
    BY <1>2, EndKeeps
  <2>3. disk'[R] = Absent
    <3>1. ~CommandWrites(R)
      BY <1>2, NoResultByCommand DEF Base
    <3>2. QED
      BY <1>1, <1>6, <1>p, <3>1, StepFrame
      DEF Created, Appended, Faulted, RKVLeftNoResult, Base
  <2>4. \A s \in {"catch", "finally"} : <<R, s>> \notin damage'
    <3>1. damage' # damage => \E q : disk[q] # Absent /\ damage' = damage \cup {<<q, pc>>}
      BY DamageStays DEF DiskFault
    <3>2. QED
      BY <1>6, <3>1 DEF RKVLeftNoResult
  <2>5. QED
    BY <1>3, <1>6, <2>1, <2>2, <2>3, <2>4 DEF RKVEndedBadly, RKVLeftNoResult, Present
<1>7. QED
  BY <1>4, <1>5, <1>6 DEF RKVEndedBadly

(* An exception that carries the FullKV result has a reason to.              *)
LEMMA ReasonRaised ==
  ASSUME Base, Main, pc' = "catch", partial', ReportsInOrder, ResultsInOrder
  PROVE  RKVEndedBadly'
<1>n. [Next]_vars
  BY DEF Next
<1>1. role = "rkv" /\ pc \in WorkerPhase /\ UNCHANGED <<role, mem>>
  BY RaiseStep
<1>2. pc \in {"termination", "judge"}
  BY <1>1, MainMoves, MainAt
  DEF MainFlow, WorkerPhase, LaunchWorker, PreserveStdout, PreserveStderr, Raise, Goto,
      unchangedByGoto
<1>3. ~WorkerRunning'
  BY <1>2, MainMoves DEF MainFlow, MainKeeps, Base, OrphanInv, WorkerIsAwaited, WorkerRunning,
     workerVars
<1>4. CASE pc = "termination"
  <2>1. RecordTermination
    BY <1>4, MainAt
  <2>2. Writes(Termination("rkv"), EnvelopeObservation)
    BY <1>1, <2>1 DEF RecordTermination, Raise, Termination
  <2>3. disk'[Termination("rkv")] = EnvelopeObservation
    BY <2>2, RequiredPaths, WriteDone DEF Base, TypeOK, Roles
  <2>4. QED
    BY <1>3, <2>3 DEF RKVEndedBadly, Present, EnvelopeObservation, Absent
<1>5. CASE pc = "judge"
  <2>1. RejectMissingResult
    BY <1>5, MainAt DEF JudgeWorker, AcceptResult, RejectResult, Raise
  <2>2. /\ disk[<<"rkv", "result.json">>] = Absent
        /\ UNCHANGED <<dirVars, damage, cause>>
    BY <1>1, <2>1 DEF RejectMissingResult, ResultFile, Raise
  <2>3. /\ cause = "none" /\ Present(<<"rkv", "stderr.log">>)
        /\ mem["rkv"] = Absent
        /\ \A p \in Paths : <<p, "catch">> \notin damage /\ <<p, "finally">> \notin damage
    BY <1>1, <1>5 DEF ReportsInOrder, ResultsInOrder, Unwinding
  <2>4. <<"rkv", "result.json">> \in Paths
    BY NamedPaths DEF Roles, WorkerNames
  <2>5. QED
    BY <1>1, <1>3, <2>2, <2>3, <2>4
    DEF RKVEndedBadly, RKVLeftNoResult, Present, DamagedFile, dirVars
<1>6. QED
  BY <1>2, <1>4, <1>5

LEMMA ExplainedStep ==
  ASSUME Base, [Next]_vars, ReportsInOrder, ResultsInOrder, PartialExplained
  PROVE  PartialExplained'
<1>1. CASE pc' = "catch" /\ partial' /\ pc # "catch"
  BY <1>1, OthersKeep, ReasonRaised DEF PartialExplained
<1>2. CASE pc' = "catch" /\ pc = "catch"
  <2>1. ~Main /\ partial' = partial
    BY <1>2, MainMoves, OthersKeep DEF MainFlow
  <2>2. disk'[Failure] = "with_fullkv" => disk[Failure] = "with_fullkv"
    BY <2>1, VerdictFileStep, VerdictFilesDistinct
    DEF VerdictFiles, FailureRecords, Base, Absent, Altered
  <2>3. QED
    BY <1>2, <2>1, <2>2, EndStays DEF PartialExplained, Unwinding
<1>3. CASE pc' # "catch" \/ ~partial'
  <2> SUFFICES ASSUME disk'[Failure] = "with_fullkv" PROVE RKVEndedBadly'
    BY <1>3 DEF PartialExplained
  <2>1. CASE disk[Failure] = "with_fullkv"
    <3>1. pc \in Unwinding
      BY <2>1 DEF Base, VerdictInv, RecordsExcludeVerdict, Absent, Unwinding
    <3>2. QED
      BY <2>1, <3>1, EndStays DEF PartialExplained
  <2>2. CASE disk[Failure] # "with_fullkv"
    <3>1. pc = "catch" /\ partial
      BY <2>2, FailureWritten
    <3>2. QED
      BY <3>1, EndStays DEF PartialExplained, Unwinding
  <2>3. QED
    BY <2>1, <2>2
<1>4. QED
  BY <1>1, <1>2, <1>3

(* An R-KV worker that left no result ends in an exception that carries the  *)
(* FullKV result, if no write is refused.                                    *)
LEMMA NoResultRaised ==
  ASSUME Base, Main, pc' = "catch", ioErrors' = 0, RKVLeftNoResult', ReportsInOrder, ResultsInOrder
  PROVE  partial'
<1>n. [Next]_vars
  BY DEF Next
<1>e. ioErrors = 0 /\ ioErrors' = ioErrors
  BY <1>n, ErrorsCount
<1>0. ~(pc \in BeforeTry) /\ pc \notin {"references", "final", "verify_final", "catch", "finally", "exited"}
  BY MainMoves DEF MainFlow, BeforeTry
<1>1. UNCHANGED <<role, mem>>
  BY RaiseStep
<1>2. role = "rkv" /\ mem["rkv"] = Absent /\ disk'[<<"rkv", "stderr.log">>] # Absent
  BY <1>1 DEF RKVLeftNoResult
<1>3. pc \in {"command", "stdout", "stderr", "termination", "judge"}
  BY <1>0, <1>2, MainMoves
  DEF ReportsInOrder, ResultsInOrder, WorkerPhase, Base, TypeOK, Steps, InTry, MainFlow
<1>4. pc \notin {"command", "stdout"}
  <2> SUFFICES ASSUME pc \in {"command", "stdout"} PROVE FALSE
    OBVIOUS
  <2>1. disk[<<"rkv", "stderr.log">>] = Absent
    BY <1>2 DEF ReportsInOrder, Unreported
  <2>2. "stderr.log" \in ReportNames /\ "rkv" \in Roles
    BY DEF ReportNames, Roles
  <2>3. pc # "stderr" /\ pc # "termination"
    OBVIOUS
  <2>4. QED
    BY <1>n, <1>2, <2>1, <2>2, <2>3, EndReportStep DEF Base
<1>5. pc # "stderr"
  BY <1>e, MainAt DEF PreserveStderr, WriteFails, Goto, Raise, Base, TypeOK, DirTypeOK
<1>6. pc # "termination"
  BY MainAt DEF RecordTermination, Raise, RKVLeftNoResult, ReportsInOrder
<1>7. pc = "judge"
  BY <1>3, <1>4, <1>5, <1>6
<1>8. ~RejectResult
  BY <1>2 DEF RejectResult, RKVLeftNoResult, ResultFile, dirVars
<1>9. RejectMissingResult
  BY <1>7, <1>8, MainAt DEF JudgeWorker, AcceptResult
<1>10. QED
  BY <1>2, <1>9, Zenon DEF RejectMissingResult, Raise

LEMMA NoResultStep ==
  ASSUME Base, [Next]_vars, ReportsInOrder, ResultsInOrder, NoResultWritten
  PROVE  NoResultWritten'
<1> DEFINE E == <<"rkv", "stderr.log">>
           R == <<"rkv", "result.json">>
<1>p. E \in Paths /\ R \in Paths /\ Failure \in VerdictFiles
  BY NamedPaths DEF Roles, WorkerNames, VerdictFiles, FailureRecords
<1> SUFFICES ASSUME ioErrors' = 0, RKVLeftNoResult'
             PROVE  /\ pc' = "catch" => partial'
                    /\ disk'[Failure] \in {Absent, "with_fullkv"} \/ DamagedFile(Failure)'
  BY DEF NoResultWritten
<1>e. ioErrors = 0
  BY ErrorsCount
<1>1. CASE pc \notin Unwinding
  <2>1. pc' = "catch" => partial'
    BY <1>1, NoResultRaised, OthersKeep DEF Unwinding
  <2>2. disk[Failure] = Absent
    BY <1>1 DEF Base, VerdictInv, RecordsExcludeVerdict, Unwinding
  <2>3. disk'[Failure] = Absent
    <3>1. pc = "refusal" => role' = "fullkv"
      BY MainMoves, OthersKeep DEF MainKeeps, ResultsInOrder, BeforeTry
    <3>2. pc # "refusal"
      BY <3>1 DEF RKVLeftNoResult
    <3>3. QED
      BY <1>1, <1>p, <2>2, <3>2, VerdictFileStep, VerdictFileWrites DEF Base, Unwinding, Faulted
  <2>4. QED
    BY <2>1, <2>3
<1>2. CASE pc \in Unwinding
  <2>1. UNCHANGED <<role, mem, cause>>
    BY <1>2, EndKeeps DEF Unwinding
  <2>2. disk[E] # Absent
    <3>1. "stderr.log" \in ReportNames /\ "rkv" \in Roles
      BY DEF ReportNames, Roles
    <3>2. pc \notin {"stdout", "stderr", "termination"}
      BY <1>2 DEF Unwinding
    <3>3. disk'[E] # Absent
      BY DEF RKVLeftNoResult
    <3>4. QED
      BY <3>1, <3>2, <3>3, EndReportStep DEF Base
  <2>3. damage \subseteq damage'
    BY DamageStays
  <2>4. disk[R] = Absent
    <3>1. CASE disk'[R] = disk[R]
      BY <3>1 DEF RKVLeftNoResult
    <3>2. CASE disk'[R] # disk[R]
      <4>1. Created(R) \/ Faulted(R)
        BY <1>p, <3>2, StepFrame DEF Appended, Base
      <4>2. ~Faulted(R)
        BY <1>2 DEF Faulted, DiskFault, RKVLeftNoResult, Unwinding
      <4>3. QED
        BY <4>1, <4>2 DEF Created
    <3>3. QED
      BY <3>1, <3>2
  <2>5. RKVLeftNoResult
    BY <2>1, <2>2, <2>3, <2>4 DEF RKVLeftNoResult
  <2>6. pc' = "catch" => pc = "catch" /\ partial' = partial
    BY <1>2, MainMoves, OthersKeep DEF MainFlow, Unwinding
  <2>7. pc' = "catch" => partial'
    BY <1>e, <2>5, <2>6 DEF NoResultWritten
  <2>8. CASE disk'[Failure] = disk[Failure]
    BY <1>e, <2>5, <2>7, <2>8, DamageStays DEF NoResultWritten
  <2>9. CASE disk'[Failure] # disk[Failure] /\ ~Main
    BY <1>p, <2>7, <2>9, VerdictFileStep DEF Base
  <2>10. CASE disk'[Failure] # disk[Failure] /\ Main
    <3>1. pc = "catch"
      BY <1>p, <1>2, <2>10, VerdictFileStep, VerdictFileWrites DEF Base, Unwinding
    <3>2. CatchException /\ partial
      BY <1>e, <2>5, <2>10, <3>1, MainAt DEF NoResultWritten
    <3>3. disk'[Failure] = "with_fullkv"
      BY <1>p, <2>10, <3>2, WriteFrame, VerdictFilesDistinct
      DEF CatchException, FailureContent, Base, TypeOK, Writes, WriteFails, DirTypeOK
    <3>4. QED
      BY <2>7, <3>3
  <2>11. QED
    BY <2>8, <2>9, <2>10
<1>3. QED
  BY <1>1, <1>2

LEMMA PartialInvariant == Spec => []PartialInv
<1>1. Init => PartialInv
  <2> SUFFICES ASSUME Init PROVE PartialInv
    OBVIOUS
  <2>1. \A p \in Paths : disk[p] = Absent
    BY DEF Init, DirInit
  <2>2. /\ pc = "invocation" /\ pc \in BeforeTry /\ pc \notin InTry /\ role = "fullkv"
        /\ \A r \in Roles : mem[r] = Absent
        /\ ~WorkerRunning /\ damage = {}
    BY DEF Init, WorkerInit, BeforeTry, InTry, WorkerRunning, RunningSteps
  <2>3. Failure \in Paths /\ Termination("rkv") \in Paths
    BY VerdictFilesDistinct, RequiredPaths DEF VerdictFiles, FailureRecords, Roles
  <2>4. \A r \in Roles : Unreported(r)
    BY <2>1, <2>2, ReportPaths DEF Unreported, ReportNames
  <2>5. ReportsInOrder
    BY <2>2, <2>4 DEF ReportsInOrder, Roles
  <2>6. ResultsInOrder
    BY <2>2 DEF ResultsInOrder, Roles
  <2>7. disk[Failure] = Absent /\ disk[Termination("rkv")] = Absent
    BY <2>1, <2>3
  <2>8. QED
    BY <2>2, <2>5, <2>6, <2>7
    DEF PartialInv, PartialHeld, PartialWritten, PartialExplained, NoResultWritten, Absent
<1>2. Base /\ Base' /\ PassInv /\ PartialInv /\ [Next]_vars => PartialInv'
  <2>1. Base /\ ReportsInOrder /\ ResultsInOrder /\ [Next]_vars => ReportsInOrder'
    BY ReportsMain, ReportsOthers
  <2>2. QED
    BY <2>1, InOrderStep, HeldStep, WrittenStep, ExplainedStep, NoResultStep DEF PartialInv, PassInv
<1>3. QED
  BY <1>1, <1>2, BaseInvariant, PassInvariant, PTL DEF Spec

(* failure.json carries the FullKV result for an R-KV worker that was        *)
(* recorded as terminated or that left no result, and for no other failure   *)
(* (the WorkerFailedError run_one_worker raises and the handler of           *)
(* run_b2a_calibration): not for a result that was there and was rejected.   *)
THEOREM PartialEvidenceKept == Spec => []PartialEvidenceIsKept
<1>1. PartialInv => PartialEvidenceIsKept
  BY DEF PartialInv, PartialHeld, PartialWritten, PartialExplained, NoResultWritten, RKVEndedBadly,
         Present, PartialEvidenceIsKept, RKVTerminated, Termination
<1>2. QED
  BY <1>1, PartialInvariant, PTL

(* A worker runs only while the command waits for it or after the command    *)
(* was killed; as long as it runs the directory holds no verdict and no      *)
(* record of its end (subprocess.run in run_one_worker and everything that   *)
(* follows it).                                                              *)
THEOREM NoOrphan == Spec => []NoOrphanWorker
<1>1. Base /\ PassInv /\ PartialInv => NoOrphanWorker
  <2> SUFFICES ASSUME Base, PassInv, PartialInv, WorkerRunning
               PROVE  Unreported(role) /\ passed = "undecided" /\ disk[Final] = Absent
    BY DEF NoOrphanWorker, Base, OrphanInv
  <2>1. Unreported(role)
    BY DEF PartialInv, ReportsInOrder
  <2>2. passed = "undecided"
    BY DEF PassInv, DecidedWithoutWorker
  <2>3. disk[Final] = Absent
    BY <2>2 DEF Base, VerdictInv, FinalCarriesVerdict
  <2>4. QED
    BY <2>1, <2>2, <2>3
<1>2. QED
  BY <1>1, BaseInvariant, PassInvariant, PartialInvariant, PTL

-------------------------------------------------------------------------------
(* A clean directory means success.                                          *)

RecordLeft == \E r \in FailureRecords : Present(r)

ExitContradicted == pc = "exited" /\ (disk[Completion] # "gate_passed" \/ DamagedFile(Completion))

(* Beside a published verdict, every step towards exit code 1 costs a record *)
(* or a failed write.                                                        *)
CleanInv ==
  disk[Final] # Absent =>
    /\ pc = "final_failed" => ioErrors >= 1
    /\ pc = "catch" => RecordLeft \/ ioErrors >= 1
    /\ code = 1 => RecordLeft \/ ioErrors >= 2 \/ ExitContradicted

(* A write that is not refused leaves its file, a refused one is counted.    *)
LEMMA RecordWritten ==
  ASSUME Base, Base', NEW r \in FailureRecords, NEW c, c # Absent, Writes(r, c) \/ WriteFails(r, c)
  PROVE  RecordLeft' \/ ioErrors' = ioErrors + 1
<1>1. r \in Paths
  BY VerdictFilesDistinct DEF VerdictFiles
<1>2. CASE Writes(r, c)
  BY <1>1, <1>2, WriteDone DEF Base, TypeOK, RecordLeft, Present
<1>3. CASE WriteFails(r, c)
  BY <1>3 DEF WriteFails
<1>4. QED
  BY <1>2, <1>3

LEMMA RecordStays ==
  ASSUME Base, [Next]_vars, RecordLeft
  PROVE  RecordLeft'
<1>1. PICK r \in FailureRecords : Present(r)
  BY DEF RecordLeft
<1>2. r \in Paths
  BY VerdictFilesDistinct DEF VerdictFiles
<1>3. Present(r)'
  BY <1>1, <1>2, PresentStays DEF Base
<1>4. QED
  BY <1>3 DEF RecordLeft

(* The last step: the fallback completion.json, or the one that is there.    *)
LEMMA FinallyStep ==
  ASSUME Base, Base', [Next]_vars, Finally, code' = 1, code # 1
  PROVE  ExitContradicted'
<1>1. WriteFails(Completion, FallbackOutcome) /\ pc' = "exited" /\ damage' = damage
  BY DEF Finally, Exit
<1>2. disk[Completion] = Absent /\ disk'[Completion] \in {Absent, FallbackOutcome}
  BY <1>1, WriteFrame, VerdictFilesDistinct DEF Base, TypeOK, VerdictFiles
<1>3. CASE code \in {0, 2}
  <2>1. DamagedFile(Completion)
    BY <1>2, <1>3 DEF Base, VerdictInv, CompletionCarriesVerdict, GateOutcome, Absent
  <2>2. QED
    BY <1>1, <2>1, DamageStays DEF ExitContradicted
<1>4. CASE code \notin {0, 2}
  BY <1>1, <1>2, <1>4 DEF ExitContradicted, FallbackOutcome, Absent
<1>5. QED
  BY <1>3, <1>4

LEMMA CleanMain ==
  ASSUME Base, Base', Main, RecordInv, CleanInv, disk[Final] # Absent, disk'[Final] # Absent
  PROVE  CleanInv'
<1>n. [Next]_vars
  BY DEF Next
<1>e. ioErrors \in Nat /\ ioErrors' \in Nat /\ ioErrors' >= ioErrors
  BY <1>n, ErrorsCount DEF Base
<1>k. Running # 1
  BY DEF Running
<1>r. RecordLeft => RecordLeft'
  BY <1>n, RecordStays
<1>0. pc \in {"verify_final", "final_failed", "verify_failed", "catch", "finally"}
  BY MainMoves DEF Base, VerdictInv, FinalCarriesVerdict, FinalMayExist, MainFlow
<1>c. FailureRecords = {Failure, FinalWriteFailure, FinalVerificationFailure} /\ "written" # Absent
  BY DEF FailureRecords, Absent
<1>1. CASE pc = "verify_final"
  <2>1. VerifyFinal /\ code' # 1
    <3>1. VerifyFinal
      BY <1>1, MainAt
    <3>2. code = Running
      BY <1>1 DEF RecordInv
    <3>3. QED
      BY <3>1, <3>2, <1>k DEF VerifyFinal, Leave, Goto, unchangedByGoto
  <2>2. pc' \in {"verify_failed", "finally"}
    BY <1>1, MainMoves DEF MainFlow
  <2>3. QED
    BY <2>1, <2>2 DEF CleanInv
<1>2. CASE pc \in {"final_failed", "verify_failed"}
  <2>1. \E r \in FailureRecords : Writes(r, "written") \/ WriteFails(r, "written")
    BY <1>2, <1>c, MainAt DEF RecordFinalWriteFailure, RecordVerificationFailure
  <2>2. RecordLeft' \/ ioErrors' = ioErrors + 1
    BY <1>c, <2>1, RecordWritten
  <2>3. pc' = "catch" /\ code' = Running
    BY <1>2, MainMoves DEF MainFlow, MainKeeps, RecordInv
  <2>4. QED
    BY <1>e, <1>k, <2>2, <2>3 DEF CleanInv
<1>3. CASE pc = "catch"
  <2>1. CatchException
    BY <1>3, MainAt
  <2>2. FailureContent # Absent
    BY DEF FailureContent, Absent
  <2>3. RecordLeft' \/ ioErrors' = ioErrors + 1
    BY <1>c, <2>1, <2>2, RecordWritten DEF CatchException
  <2>4. RecordLeft' \/ ioErrors' >= 2
    BY <1>3, <1>e, <1>r, <2>3 DEF CleanInv
  <2>5. pc' = "finally"
    BY <1>3, MainMoves DEF MainFlow
  <2>6. QED
    BY <2>4, <2>5 DEF CleanInv
<1>4. CASE pc = "finally"
  <2>1. Finally /\ pc' = "exited"
    BY <1>4, MainAt, MainMoves DEF MainFlow
  <2>2. ASSUME code' = 1 PROVE RecordLeft' \/ ioErrors' >= 2 \/ ExitContradicted'
    <3>1. CASE code = 1
      <4>1. RecordLeft \/ ioErrors >= 2
        BY <1>4, <3>1 DEF CleanInv, ExitContradicted
      <4>2. QED
        BY <4>1, <1>e, <1>r
    <3>2. CASE code # 1
      BY <1>n, <2>1, <2>2, <3>2, FinallyStep
    <3>3. QED
      BY <3>1, <3>2
  <2>3. QED
    BY <2>1, <2>2 DEF CleanInv
<1>5. QED
  BY <1>0, <1>1, <1>2, <1>3, <1>4

LEMMA CleanStep ==
  ASSUME Base, Base', [Next]_vars, RecordInv, CleanInv
  PROVE  CleanInv'
<1> SUFFICES ASSUME disk'[Final] # Absent PROVE CleanInv'
  BY DEF CleanInv
<1>v. Final \in VerdictFiles /\ Completion \in VerdictFiles /\ Final \in Paths
  BY VerdictFilesDistinct DEF VerdictFiles
<1>e. ioErrors \in Nat /\ ioErrors' \in Nat /\ ioErrors' >= ioErrors
  BY ErrorsCount DEF Base
<1>k. Running # 1 /\ Interrupted # 1 /\ Crashed # 1
  BY DEF Running, Interrupted, Crashed
<1>1. CASE disk[Final] = Absent
  <2>1. Main /\ pc = "final"
    BY <1>1, <1>v, VerdictFileStep, VerdictFileWrites DEF Base, Faulted
  <2>2. WriteFinal
    BY <2>1, MainAt
  <2>3. /\ pc' \in {"verify_final", "final_failed"}
        /\ pc' = "final_failed" => ioErrors' = ioErrors + 1
    BY <1>1, <2>2 DEF WriteFinal, Goto, WriteFails, dirVars
  <2>4. code' # 1
    BY <1>k, <2>1, <2>2 DEF WriteFinal, Goto, unchangedByGoto, RecordInv
  <2>5. QED
    BY <1>e, <2>3, <2>4 DEF CleanInv
<1>2. CASE disk[Final] # Absent /\ Main
  BY <1>2, CleanMain
<1>3. CASE disk[Final] # Absent /\ ~Main
  <2>1. \/ pc' = pc /\ code' = code
        \/ pc' \in {"finally", "exited"} /\ code' # 1
    BY <1>3, <1>k, OthersKeep
  <2>2. RecordLeft => RecordLeft'
    BY RecordStays
  <2>3. pc' = pc /\ ExitContradicted => ExitContradicted'
    <3>1. CASE disk'[Completion] = disk[Completion]
      BY <3>1, DamageStays DEF ExitContradicted
    <3>2. CASE disk'[Completion] # disk[Completion]
      BY <3>2, <1>3, <1>v, VerdictFileStep DEF ExitContradicted, Base
    <3>3. QED
      BY <3>1, <3>2
  <2>4. QED
    BY <1>3, <1>e, <2>1, <2>2, <2>3 DEF CleanInv
<1>4. QED
  BY <1>1, <1>2, <1>3

(* A directory that shows a passing verdict, a passing completion and no     *)
(* failure record was left by a command that ended otherwise only if it was  *)
(* interrupted or killed, if two writes failed, or if what contradicted it   *)
(* was lost (the error paths after the write of final.json).                 *)
THEOREM CleanMeansSuccess == Spec => []CleanDirectoryMeansSuccess
<1>1. Init => CleanInv
  BY VerdictFilesDistinct DEF Init, DirInit, CleanInv, VerdictFiles
<1>2. Base /\ Base' /\ RecordInv /\ CleanInv /\ [Next]_vars => CleanInv'
  BY CleanStep
<1>3. Base /\ RecordInv /\ CleanInv => CleanDirectoryMeansSuccess
  <2> SUFFICES ASSUME Base, RecordInv, CleanInv, pc = "exited", LooksSuccessful,
                      code \notin {0, Interrupted, Crashed},
                      ~(ioErrors >= 2), ~DamagedFile(Completion)
               PROVE  \E r \in FailureRecords : DamagedFile(r)
    BY DEF CleanDirectoryMeansSuccess
  <2>1. disk[Final] = "verdict_passed" /\ "verdict_passed" # Absent /\ "verdict_failed" # "verdict_passed"
    BY DEF LooksSuccessful, Absent
  <2>2. code \notin {2, Running}
    BY <2>1 DEF Base, VerdictInv, CodeCarriesVerdict, RecordInv
  <2>3. code = 1
    BY <2>2 DEF Base, TypeOK
  <2>4. RecordLeft
    BY <2>1, <2>3 DEF CleanInv, ExitContradicted, LooksSuccessful
  <2>5. QED
    BY <2>4 DEF RecordLeft, Present, LooksSuccessful
<1>4. QED
  BY <1>1, <1>2, <1>3, BaseInvariant, RecordInvariant, PTL DEF Spec

-------------------------------------------------------------------------------
(* Nothing is written beside a published verdict.                            *)

(* The steps from the publication on, in the order they are met.             *)
Rank(s) ==
  IF s = "verify_final" THEN 1
  ELSE IF s = "verify_failed" THEN 2
  ELSE IF s = "final_failed" THEN 3
  ELSE IF s = "catch" THEN 4
  ELSE IF s = "finally" THEN 5
  ELSE IF s = "exited" THEN 6
  ELSE 0

(* Each of them is met once: a fault recorded for the step the command is at *)
(* is one that has just happened, and its file has not been written since.   *)
FaultsInOrder ==
  \A p \in Paths, s \in Steps : <<p, s>> \in damage => Rank(s) <= Rank(pc) /\ s # "exited"

FaultsLast ==
  Rank(pc) > 0 => \A p \in Paths : <<p, pc>> \in damage => disk[p] \in {Absent, Altered}

LEMMA RankGrows ==
  ASSUME TypeOK, [Next]_vars, pc' # pc
  PROVE  Rank(pc') > Rank(pc) \/ (Rank(pc) = 0 /\ Rank(pc') = 0)
<1>1. CASE Main
  BY <1>1, MainMoves DEF MainFlow, Rank, TypeOK, Steps, BeforeTry, InTry
<1>2. CASE Interrupt \/ Crash
  BY <1>2 DEF Interrupt, Crash, Exit, Rank, TypeOK, Steps, BeforeTry, InTry
<1>3. CASE Worker \/ DiskFault \/ Done \/ UNCHANGED vars
  BY <1>3 DEF Worker, DiskFault, Done, vars, mainVars
<1>4. QED
  BY <1>1, <1>2, <1>3 DEF Next

LEMMA InOrderFaults ==
  ASSUME TypeOK, TypeOK', [Next]_vars, FaultsInOrder
  PROVE  FaultsInOrder'
<1> SUFFICES ASSUME NEW p \in Paths, NEW s \in Steps, <<p, s>> \in damage'
             PROVE  Rank(s) <= Rank(pc') /\ s # "exited"
  BY DEF FaultsInOrder
<1>t. \A t \in Steps : Rank(t) \in 0..6
  BY DEF Rank
<1>c. pc \in Steps /\ pc' \in Steps
  BY DEF TypeOK
<1>0. Rank(pc) <= Rank(pc')
  BY <1>t, <1>c, RankGrows
<1>1. CASE <<p, s>> \in damage
  BY <1>0, <1>1, <1>t, <1>c DEF FaultsInOrder
<1>2. CASE <<p, s>> \notin damage
  <2>1. DiskFault
    BY <1>2, DamageStays
  <2>2. s = pc /\ pc' = pc /\ pc # "exited"
    BY <1>2, <2>1 DEF DiskFault, mainVars
  <2>3. QED
    BY <1>t, <1>c, <2>2
<1>3. QED
  BY <1>1, <1>2

LEMMA LastFaults ==
  ASSUME Base, Base', [Next]_vars, FaultsInOrder, FaultsInOrder', FaultsLast
  PROVE  FaultsLast'
<1> SUFFICES ASSUME NEW p \in Paths, Rank(pc') > 0, <<p, pc'>> \in damage'
             PROVE  disk'[p] \in {Absent, Altered}
  BY DEF FaultsLast
<1>c. pc \in Steps /\ pc' \in Steps
  BY DEF Base, TypeOK
<1>1. pc' = pc
  <2> SUFFICES ASSUME pc' # pc PROVE FALSE
    OBVIOUS
  <2>1. Rank(pc') > Rank(pc)
    BY RankGrows DEF Base
  <2>2. damage' = damage
    BY DamageStays DEF DiskFault, mainVars
  <2>3. Rank(pc') <= Rank(pc)
    BY <1>c, <2>2 DEF FaultsInOrder
  <2>4. Rank(pc) \in 0..6 /\ Rank(pc') \in 0..6
    BY DEF Rank
  <2>5. QED
    BY <2>1, <2>3, <2>4
<1>2. pc # "exited" /\ Rank(pc) > 0
  BY <1>1, <1>c DEF FaultsInOrder
<1>3. ~Main
  BY <1>1, <1>2, MainMoves DEF MainFlow, Rank, Base, TypeOK, Steps, InTry, BeforeTry
<1>4. ~Worker
  <2>1. ~WorkerRunning
    BY <1>2 DEF Base, OrphanInv, WorkerIsAwaited, Rank
  <2>2. QED
    BY <2>1, WorkersRun DEF Worker
<1>5. CASE disk'[p] = disk[p] /\ <<p, pc>> \in damage
  BY <1>2, <1>5 DEF FaultsLast
<1>6. CASE disk'[p] # disk[p]
  BY <1>3, <1>4, <1>6, StepFrame DEF Base, Created, Appended, Faulted
<1>7. CASE disk'[p] = disk[p] /\ <<p, pc>> \notin damage
  <2>1. DiskFault
    BY <1>1, <1>7, DamageStays
  <2>2. PICK q \in Fragile, c \in {Absent, Altered} :
          /\ disk' = [disk EXCEPT ![q] = c]
          /\ damage' = damage \cup {<<q, pc>>}
    BY <2>1 DEF DiskFault
  <2>3. p = q
    BY <1>1, <1>7, <2>2
  <2>4. QED
    BY <2>2, <2>3 DEF Base, TypeOK, DirTypeOK
<1>8. QED
  BY <1>1, <1>5, <1>6, <1>7

LEMMA FaultsInvariant == Spec => [](FaultsInOrder /\ FaultsLast)
<1>1. Init => FaultsInOrder /\ FaultsLast
  BY DEF Init, FaultsInOrder, FaultsLast
<1>2. Base /\ Base' /\ FaultsInOrder /\ FaultsLast /\ [Next]_vars => FaultsInOrder' /\ FaultsLast'
  BY InOrderFaults, LastFaults DEF Base
<1>3. QED
  BY <1>1, <1>2, BaseInvariant, PTL DEF Spec

(* Once final.json exists the program only adds to the directory, and only a *)
(* failure record or a completion.json that was lost: no evidence is created *)
(* or changed after the verdict that vouches for it (run_b2a_calibration     *)
(* after write_final, cmd_b2a_calibrate's finally).                          *)
THEOREM OnlyRecordsAfterFinal == Spec => NothingAfterFinal
<1>1. ASSUME Base, PassInv, FaultsLast, [Next]_vars, disk[Final] # Absent, damage' = damage,
             NEW p \in Paths, disk'[p] # disk[p]
      PROVE  disk[p] = Absent /\ p \in FailureRecords \cup {Completion}
  <2>1. passed # "undecided" /\ pc \in FinalMayExist
    BY <1>1 DEF Base, VerdictInv, FinalCarriesVerdict
  <2>2. ~Worker
    BY <1>1, <2>1, WorkersRun DEF PassInv, DecidedWithoutWorker, Worker
  <2>3. ~Faulted(p)
    BY <1>1, <2>1 DEF Faulted, FaultsLast, FinalMayExist, Rank
  <2>4. disk[p] = Absent /\ Main /\ CommandWrites(p)
    BY <1>1, <2>2, <2>3, StepFrame DEF Base, Created, Appended
  <2>5. QED
    BY <2>1, <2>4 DEF CommandWrites, FinalMayExist, FailureRecords
<1>2. Base /\ PassInv /\ FaultsLast /\ [Next]_vars =>
        [disk[Final] # Absent /\ damage' = damage =>
           \A p \in Paths : disk'[p] # disk[p] =>
             disk[p] = Absent /\ p \in FailureRecords \cup {Completion}]_vars
  BY <1>1
<1>3. QED
  BY <1>2, BaseInvariant, PassInvariant, FaultsInvariant, PTL DEF Spec, NothingAfterFinal

-------------------------------------------------------------------------------
(* What damage an exit code 0 can hide.                                      *)

(* The files that repeat a result: what the gates compare in full.           *)
DataFiles == ComparedInFull \cup REQUIRED_PAIR_RECORD_FILES

LEMMA DataNames ==
  ASSUME NEW p \in DataFiles
  PROVE  /\ p \in Paths /\ p \in RequiredFiles /\ p[1] \in Roles
         /\ p = <<p[1], p[2]>>
         /\ p[2] \in {"result.json", "timing.json", "memory.json"} \cup PairNames
BY DEF DataFiles, ComparedInFull, CopiesOf, REQUIRED_PAIR_RECORD_FILES, REQUIRED_ATTEMPT_FILES,
       RequiredFiles, Paths, WorkerNames, PairNames, Roles

LEMMA ArtifactsDiffer ==
  /\ \A i \in 1..12, j \in 1..12 : PostWorkerArtifacts[i] = PostWorkerArtifacts[j] => i = j
  /\ \A i \in 1..12, r \in Roles : PostWorkerArtifacts[i] # <<r, "result.json">>
<1>1. ASSUME NEW i \in 1..12, NEW j \in 1..12, PostWorkerArtifacts[i] = PostWorkerArtifacts[j]
      PROVE  i = j
  <2>1. \/ i = 1 \/ i = 2 \/ i = 3 \/ i = 4 \/ i = 5 \/ i = 6
        \/ i = 7 \/ i = 8 \/ i = 9 \/ i = 10 \/ i = 11 \/ i = 12
    OBVIOUS
  <2>2. \/ j = 1 \/ j = 2 \/ j = 3 \/ j = 4 \/ j = 5 \/ j = 6
        \/ j = 7 \/ j = 8 \/ j = 9 \/ j = 10 \/ j = 11 \/ j = 12
    OBVIOUS
  <2>3. QED
    BY <1>1, <2>1, <2>2 DEF PostWorkerArtifacts, Top
<1>2. ASSUME NEW i \in 1..12, NEW r \in Roles PROVE PostWorkerArtifacts[i] # <<r, "result.json">>
  <2>1. \/ i = 1 \/ i = 2 \/ i = 3 \/ i = 4 \/ i = 5 \/ i = 6
        \/ i = 7 \/ i = 8 \/ i = 9 \/ i = 10 \/ i = 11 \/ i = 12
    OBVIOUS
  <2>2. QED
    BY <2>1 DEF PostWorkerArtifacts, Top
<1>3. QED
  BY <1>1, <1>2

(* A file of this kind that is still to be written.                          *)
Unwritten(p) ==
  \/ /\ p = ResultFile
     /\ pc \in BeforeTry \cup {"prompt", "command"} \/ wpc \in {"startup", "body", "result"}
  \/ p = <<"rkv", "result.json">> /\ role = "fullkv"
  \/ pc \in Undecided \ {"gate"} /\ \E i \in next..12 : p = PostWorkerArtifacts[i]

(* Until then there is nothing to damage, and from then on damage stays.     *)
UnwrittenIsFresh == \A p \in DataFiles : Unwritten(p) => disk[p] = Absent /\ ~DamagedFile(p)

DamageShows == \A p \in DataFiles : DamagedFile(p) => disk[p] \in {Absent, Altered}

LEMMA DataCreated ==
  ASSUME Base, NEW p \in DataFiles, Created(p)
  PROVE  /\ Unwritten(p)
         /\ \/ Main /\ pc = "store" /\ p = PostWorkerArtifacts[next]
            \/ Worker /\ wpc = "result" /\ p = ResultFile
<1>1. next \in 1..12
  BY ArtifactPaths DEF Base, TypeOK
<1>2. \/ Main /\ pc = "store" /\ p = PostWorkerArtifacts[next]
      \/ Worker /\ wpc = "result" /\ p = ResultFile
  BY DataNames
  DEF Created, CommandWrites, WorkerWrites, ResultFile, EnvelopeFile, Preflight, Provenance, Top,
      Completion, Final, FinalWriteFailure, FinalVerificationFailure, Failure, PairNames, Roles
<1>3. QED
  BY <1>1, <1>2 DEF Unwritten, Undecided

(* The command only moves forward.                                           *)
LEMMA ForwardStep ==
  ASSUME Base, [Next]_vars
  PROVE  /\ role' = role \/ (role = "fullkv" /\ role' = "rkv" /\ pc = "judge" /\ Main)
         /\ next \in 1..12 /\ next' \in Int /\ next' >= next
         /\ pc' \in Undecided \ {"gate"} => pc \in Undecided \ {"gate"}
         /\ pc = "store" /\ Main /\ pc' = "store" => next' = next + 1
         /\ wpc' \in {"startup", "body", "result"} =>
              \/ wpc \in {"startup", "body"} /\ role' = role
              \/ pc = "command" /\ Main /\ role' = role
              \/ wpc' = wpc
<1>n. next \in 1..12
  BY ArtifactPaths DEF Base, TypeOK
<1>1. role' = role \/ (role = "fullkv" /\ role' = "rkv" /\ pc = "judge" /\ Main)
  <2>1. CASE Main /\ pc = "judge"
    BY <2>1, MainAt
    DEF JudgeWorker, AcceptResult, RejectMissingResult, RejectResult, Raise, Base, TypeOK,
        WorkerTypeOK, Roles
  <2>2. CASE ~Main \/ pc # "judge"
    BY <2>2, MainMoves, OthersKeep DEF MainKeeps
  <2>3. QED
    BY <2>1, <2>2
<1>2. /\ next' \in Int /\ next' >= next
      /\ pc = "store" /\ Main /\ pc' = "store" => next' = next + 1
  <2>1. CASE Main /\ pc = "store"
    <3>1. StoreArtifact
      BY <2>1, MainAt
    <3>2. next' = next \/ next' = next + 1
      BY <3>1 DEF StoreArtifact, Raise
    <3>3. pc' = "store" => next' = next + 1
      BY <3>1 DEF StoreArtifact, Raise
    <3>4. QED
      BY <1>n, <3>2, <3>3
  <2>2. CASE ~Main \/ pc # "store"
    BY <1>n, <2>2, MainMoves, OthersKeep DEF MainKeeps
  <2>3. QED
    BY <2>1, <2>2
<1>3. pc' \in Undecided \ {"gate"} => pc \in Undecided \ {"gate"}
  BY MainMoves, OthersKeep DEF MainFlow, Base, TypeOK, Steps, BeforeTry, InTry, Undecided
<1>4. ASSUME wpc' \in {"startup", "body", "result"}
      PROVE  \/ wpc \in {"startup", "body"} /\ role' = role
             \/ pc = "command" /\ Main /\ role' = role
             \/ wpc' = wpc
  <2>1. CASE Main /\ pc = "command"
    BY <1>1, <2>1
  <2>2. CASE Main /\ pc = "waiting"
    <3>1. CollectWorker \/ TimeoutKillsWorker
      BY <2>2, MainMoves
      DEF Main, WriteInvocation, LoadConfigAndManifest, CollectProvenance, CheckRequest,
          RecordRefusal, WritePreflight, VerifyPromptIdentity, LaunchWorker, PreserveStdout,
          PreserveStderr, RecordTermination, JudgeWorker, StoreArtifact, EvaluateGates,
          WriteCompletion, VerifyPreFinal, BuildReferences, WriteFinal, RecordFinalWriteFailure,
          VerifyFinal, RecordVerificationFailure, CatchException, Finally
    <3>2. QED
      BY <1>4, <3>1 DEF CollectWorker, TimeoutKillsWorker, WorkerExits, workerVars
  <2>3. CASE Main /\ pc \notin {"command", "waiting"}
    BY <2>3, MainMoves DEF MainKeeps, workerVars
  <2>4. CASE ~Main /\ WorkerStep
    BY <1>4, <2>4, OthersKeep
    DEF WorkerStep, WorkerStarts, WorkerBodyReturns, WorkerBodyRaises, WorkerWritesResult,
        WorkerMarksResult, WorkerWritesEnvelope, WorkerMarksEnvelope, WorkerMarksFailure,
        WorkerWritesFailureEnvelope, WorkerKilled, WorkerGoesTo, WorkerExits
  <2>5. CASE ~Main /\ ~WorkerStep
    BY <1>4, <2>5, OthersKeep
  <2>6. QED
    BY <2>1, <2>2, <2>3, <2>4, <2>5
<1>5. QED
  BY <1>n, <1>1, <1>2, <1>3, <1>4

LEMMA UnwrittenBefore ==
  ASSUME Base, [Next]_vars, NEW p \in DataFiles, Unwritten(p)'
  PROVE  Unwritten(p)
<1>1. CASE p = <<role', "result.json">> /\ pc' \in BeforeTry \cup {"prompt", "command"}
  <2>1. \/ pc = "judge" /\ Main
        \/ pc \in BeforeTry \cup {"prompt", "command"}
    BY <1>1, MainMoves, OthersKeep
    DEF MainFlow, Base, TypeOK, Steps, BeforeTry, InTry
  <2>2. CASE pc = "judge" /\ Main
    <3>1. role = "fullkv" /\ role' = "rkv"
      BY <1>1, <2>2, MainAt
      DEF JudgeWorker, AcceptResult, RejectMissingResult, RejectResult, Raise, BeforeTry, Base, TypeOK,
          WorkerTypeOK, Roles
    <3>2. QED
      BY <1>1, <3>1 DEF Unwritten
  <2>3. CASE pc \in BeforeTry \cup {"prompt", "command"}
    <3>1. role' = role
      BY <2>3, ForwardStep DEF BeforeTry
    <3>2. QED
      BY <1>1, <2>3, <3>1 DEF Unwritten, ResultFile
  <2>4. QED
    BY <2>1, <2>2, <2>3
<1>2. CASE p = <<role', "result.json">> /\ wpc' \in {"startup", "body", "result"}
  <2>1. CASE role' = role /\ (wpc \in {"startup", "body"} \/ pc = "command")
    BY <1>2, <2>1 DEF Unwritten, ResultFile
  <2>2. CASE wpc' = wpc /\ role' = role
    BY <1>2, <2>2 DEF Unwritten, ResultFile
  <2>3. CASE role' # role
    BY <1>2, <2>3, ForwardStep DEF Unwritten
  <2>4. QED
    BY <1>2, <2>1, <2>2, <2>3, ForwardStep
<1>3. CASE p = <<"rkv", "result.json">> /\ role' = "fullkv"
  BY <1>3, ForwardStep DEF Unwritten
<1>4. CASE pc' \in Undecided \ {"gate"} /\ \E i \in next'..12 : p = PostWorkerArtifacts[i]
  <2>1. PICK i \in next'..12 : p = PostWorkerArtifacts[i]
    BY <1>4
  <2>2. i \in next..12
    BY <2>1, ForwardStep
  <2>3. QED
    BY <1>4, <2>1, <2>2, ForwardStep DEF Unwritten
<1>5. QED
  BY <1>1, <1>2, <1>3, <1>4 DEF Unwritten, ResultFile

LEMMA WrittenAfter ==
  ASSUME Base, [Next]_vars, NEW p \in DataFiles, Created(p), disk'[p] # disk[p]
  PROVE  ~Unwritten(p)'
<1>n. next \in 1..12 /\ next' \in Int
  BY ForwardStep
<1>1. CASE Main /\ pc = "store" /\ p = PostWorkerArtifacts[next]
  <2>1. p # <<role', "result.json">> /\ p # <<"rkv", "result.json">>
    BY <1>1, <1>n, ArtifactsDiffer, ForwardStep DEF Base, TypeOK, WorkerTypeOK, Roles
  <2>2. CASE pc' = "store"
    <3>1. next' = next + 1
      BY <1>1, <2>2, ForwardStep
    <3>2. \A i \in next'..12 : p # PostWorkerArtifacts[i]
      <4> SUFFICES ASSUME NEW i \in next'..12, p = PostWorkerArtifacts[i] PROVE FALSE
        OBVIOUS
      <4>1. i \in 1..12 /\ i # next
        BY <1>n, <3>1
      <4>2. QED
        BY <1>1, <1>n, <4>1, ArtifactsDiffer
    <3>3. QED
      BY <2>1, <3>2 DEF Unwritten, ResultFile
  <2>3. CASE pc' \in {"gate", "catch"}
    BY <2>1, <2>3 DEF Unwritten, ResultFile, Undecided, BeforeTry
  <2>4. QED
    BY <1>1, <2>2, <2>3, MainMoves DEF MainFlow
<1>2. CASE Worker /\ wpc = "result" /\ p = ResultFile
  <2>1. /\ UNCHANGED <<pc, role>>
        /\ wpc' \in {"mark", "exited"}
    BY <1>2
    DEF Worker, mainVars, WorkerStep, WorkerStarts, WorkerBodyReturns, WorkerBodyRaises,
        WorkerWritesResult, WorkerMarksResult, WorkerWritesEnvelope, WorkerMarksEnvelope,
        WorkerMarksFailure, WorkerWritesFailureEnvelope, WorkerKilled, WorkerGoesTo, WorkerExits
  <2>2. pc \in {"waiting", "exited"}
    BY <1>2 DEF Base, OrphanInv, WorkerIsAwaited, WorkerRunning, RunningSteps
  <2>3. role \in Roles
    BY DEF Base, TypeOK, WorkerTypeOK
  <2>4. \A i \in 1..12 : p # PostWorkerArtifacts[i]
    BY <1>2, <2>3, ArtifactsDiffer DEF ResultFile
  <2>5. \A i \in next'..12 : p # PostWorkerArtifacts[i]
    BY <2>4, <1>n, ForwardStep
  <2>6. QED
    BY <1>2, <2>1, <2>2, <2>5 DEF Unwritten, ResultFile, BeforeTry
<1>3. QED
  BY <1>1, <1>2, DataCreated

LEMMA FreshStep ==
  ASSUME Base, [Next]_vars, UnwrittenIsFresh
  PROVE  UnwrittenIsFresh'
<1> SUFFICES ASSUME NEW p \in DataFiles, Unwritten(p)'
             PROVE  disk'[p] = Absent /\ ~DamagedFile(p)'
  BY DEF UnwrittenIsFresh
<1>1. disk[p] = Absent /\ ~DamagedFile(p)
  BY UnwrittenBefore DEF UnwrittenIsFresh
<1>2. ~Created(p) \/ disk'[p] = disk[p]
  BY WrittenAfter
<1>3. p # <<role, "progress.jsonl">> /\ p \in Paths
  BY DataNames DEF PairNames
<1>4. disk'[p] = Absent
  BY <1>1, <1>2, <1>3, StepFrame DEF Appended, Faulted, Base
<1>5. ~DamagedFile(p)'
  BY <1>1, DamageStays DEF DamagedFile, DiskFault
<1>6. QED
  BY <1>4, <1>5

LEMMA ShowsStep ==
  ASSUME Base, [Next]_vars, UnwrittenIsFresh, DamageShows
  PROVE  DamageShows'
<1> SUFFICES ASSUME NEW p \in DataFiles, DamagedFile(p)'
             PROVE  disk'[p] \in {Absent, Altered}
  BY DEF DamageShows
<1>1. CASE DamagedFile(p)
  <2>1. p # <<role, "progress.jsonl">> /\ p \in Paths
    BY DataNames DEF PairNames
  <2>2. ~Created(p)
    BY <1>1, DataCreated DEF UnwrittenIsFresh
  <2>3. QED
    BY <1>1, <2>1, <2>2, StepFrame DEF DamageShows, Appended, Faulted, Base
<1>2. CASE ~DamagedFile(p)
  <2>1. DiskFault
    BY <1>2, DamageStays DEF DamagedFile
  <2>2. PICK q \in Fragile, c \in {Absent, Altered} :
          /\ disk' = [disk EXCEPT ![q] = c]
          /\ damage' = damage \cup {<<q, pc>>}
    BY <2>1 DEF DiskFault
  <2>3. p = q
    BY <1>2, <2>2 DEF DamagedFile
  <2>4. QED
    BY <2>2, <2>3, DataNames DEF Base, TypeOK, DirTypeOK
<1>3. QED
  BY <1>1, <1>2

(* Damage is recorded at the step at which it happens.                       *)
LEMMA NewDamage ==
  ASSUME TypeOK, [Next]_vars, NEW p \in Paths, NEW s, <<p, s>> \in damage', <<p, s>> \notin damage
  PROVE  /\ s = pc /\ pc # "exited"
         /\ disk[p] \notin {Absent, Altered} /\ disk'[p] \in {Absent, Altered}
<1>1. DiskFault
  BY DamageStays
<1>2. PICK q \in Fragile, c \in {Absent, Altered} :
        /\ disk[q] \notin {Absent, Altered}
        /\ disk' = [disk EXCEPT ![q] = c]
        /\ damage' = damage \cup {<<q, pc>>}
  BY <1>1 DEF DiskFault
<1>3. p = q /\ s = pc
  BY <1>2
<1>4. QED
  BY <1>1, <1>2, <1>3 DEF DiskFault, TypeOK, DirTypeOK

(* Once the gates have answered nobody writes a required file any more.      *)
LEMMA RequiredSteady ==
  ASSUME Base, PassInv, [Next]_vars, passed # "undecided", NEW p \in RequiredFiles, disk'[p] # disk[p]
  PROVE  Faulted(p)
<1>1. p \in Paths /\ p \notin VerdictFiles
  BY DEF RequiredFiles, REQUIRED_ATTEMPT_FILES, REQUIRED_PAIR_RECORD_FILES, Paths, WorkerNames,
         PairNames, Roles, TopNames, VerdictFiles, FailureRecords, Final, Completion, Failure,
         FinalWriteFailure, FinalVerificationFailure, Top
<1>2. ~Worker
  BY WorkersRun DEF PassInv, DecidedWithoutWorker, Worker
<1>3. pc \notin Undecided
  BY DEF Base, VerdictInv, VerdictWhenDecided
<1>4. ~CommandWrites(p)
  BY <1>1, <1>3 DEF CommandWrites, Undecided, BeforeTry, VerdictFiles, FailureRecords
<1>5. QED
  BY <1>1, <1>2, <1>4, StepFrame DEF Base, Created, Appended

(* What was lost was lost at one of these steps, and what repeats a result   *)
(* was damaged at no other.                                                  *)
Within(p, steps) ==
  /\ disk[p] = Absent => \E s \in steps : <<p, s>> \in damage
  /\ p \in DataFiles => \A s \in Steps : <<p, s>> \in damage => s \in steps

LEMMA WithinStep ==
  ASSUME Base, PassInv, [Next]_vars, passed # "undecided", NEW p \in RequiredFiles, NEW steps,
         pc \in steps, Within(p, steps)
  PROVE  Within(p, steps)'
<1>p. p \in Paths
  BY RequiredPaths
<1>1. disk'[p] = Absent => \E s \in steps : <<p, s>> \in damage'
  <2>1. CASE disk'[p] = disk[p]
    BY <2>1, DamageStays DEF Within
  <2>2. CASE disk'[p] # disk[p]
    BY <2>2, RequiredSteady DEF Faulted
  <2>3. QED
    BY <2>1, <2>2
<1>2. ASSUME p \in DataFiles, NEW s \in Steps, <<p, s>> \in damage' PROVE s \in steps
  BY <1>2, <1>p, NewDamage DEF Within, Base
<1>3. QED
  BY <1>1, <1>2 DEF Within

SinceGate == {"completion", "prefinal"}

WithinSinceGate ==
  passed = "passed" /\ pc \in SinceGate => \A p \in REQUIRED_PAIR_RECORD_FILES : Within(p, SinceGate)

WithinAtManifest ==
  passed = "passed" /\ pc = "references" => \A p \in RequiredFiles : Within(p, UnverifiedWindow(p))

(* From the manifest to its verification: what the manifest says of a file,  *)
(* and that damage done since contradicts it.                                *)
Vouched(p) ==
  /\ refs[p] = Absent => \E s \in UnverifiedWindow(p) : <<p, s>> \in damage
  /\ disk[p] \in {refs[p], Absent, Altered}
  /\ p \in DataFiles =>
       \A s \in Steps : <<p, s>> \in damage => s \in UnverifiedWindow(p) \/ disk[p] # refs[p]

VouchedAtVerification ==
  passed = "passed" /\ pc \in {"final", "verify_final"} => \A p \in RequiredFiles : Vouched(p)

WindowInv ==
  /\ UnwrittenIsFresh
  /\ DamageShows
  /\ WithinSinceGate
  /\ WithinAtManifest
  /\ VouchedAtVerification
  /\ DamageEscapesOnlyInWindow

LEMMA IntactIfGood ==
  ASSUME DamageShows, AgreesWithResults(mem), BothGood, NEW p \in ComparedInFull
  PROVE  disk[p] = "good" /\ (\A s \in Steps : <<p, s>> \notin damage)
<1>1. disk[p] = "good"
  BY DEF AgreesWithResults, BothGood, ComparedInFull
<1>2. ~DamagedFile(p)
  BY <1>1 DEF DamageShows, DataFiles, Absent, Altered
<1>3. QED
  BY <1>1, <1>2 DEF DamagedFile

LEMMA SinceGateStep ==
  ASSUME Base, PassInv, [Next]_vars, DamageShows, WithinSinceGate
  PROVE  WithinSinceGate'
<1> SUFFICES ASSUME passed' = "passed", pc' \in SinceGate, NEW p \in REQUIRED_PAIR_RECORD_FILES
             PROVE  Within(p, SinceGate)'
  BY DEF WithinSinceGate
<1>1. CASE pc \in SinceGate
  <2>1. passed = "passed"
    BY <1>1, MainMoves, OthersKeep DEF SinceGate, MainKeeps
  <2>2. QED
    BY <1>1, <2>1, WithinStep, RequiredPaths DEF WithinSinceGate
<1>2. CASE pc \notin SinceGate
  <2>1. Main /\ pc = "gate"
    BY <1>2, MainMoves, OthersKeep DEF SinceGate, MainFlow, Base, TypeOK, Steps, BeforeTry, InTry
  <2>2. passed # "passed"
    BY <2>1 DEF Base, VerdictInv, VerdictWhenDecided, Undecided
  <2>3. GateMayPass /\ UNCHANGED <<dirVars, damage>>
    BY <2>1, <2>2, GateStep
  <2>4. disk[p] = "good"
    BY <2>3, GatePassed
  <2>5. ~DamagedFile(p)
    BY <2>4 DEF DamageShows, DataFiles, Absent, Altered
  <2>6. QED
    BY <2>3, <2>4, <2>5 DEF Within, DamagedFile, dirVars, Absent
<1>3. QED
  BY <1>1, <1>2

LEMMA AtManifestStep ==
  ASSUME Base, PassInv, [Next]_vars, DamageShows, WithinSinceGate, WithinAtManifest
  PROVE  WithinAtManifest'
<1> SUFFICES ASSUME passed' = "passed", pc' = "references", NEW p \in RequiredFiles
             PROVE  Within(p, UnverifiedWindow(p))'
  BY DEF WithinAtManifest, UnverifiedWindow
<1>1. CASE pc = "references"
  <2>1. passed = "passed"
    BY <1>1, MainMoves, OthersKeep DEF MainKeeps
  <2>2. pc \in UnverifiedWindow(p)
    BY <1>1 DEF UnverifiedWindow
  <2>3. QED
    BY <1>1, <2>1, <2>2, WithinStep DEF WithinAtManifest
<1>2. CASE pc # "references"
  <2>1. Main /\ pc = "prefinal"
    BY <1>2, MainMoves, OthersKeep DEF MainFlow, Base, TypeOK, Steps, BeforeTry, InTry
  <2>2. VerifyPreFinal /\ passed = "passed"
    BY <2>1, MainAt, MainMoves DEF MainKeeps
  <2>3. UNCHANGED <<dirVars, damage>> /\ TRUE \in verify_attempt_artifacts(mem)
    BY <2>2 DEF VerifyPreFinal, Goto, unchangedByGoto, Raise
  <2>4. /\ \A q \in REQUIRED_ATTEMPT_FILES : disk[q] # Absent
        /\ AgreesWithResults(mem)
    BY <2>3 DEF verify_attempt_artifacts
  <2>5. BothGood
    BY <2>2 DEF PassInv, PassRestsOnEvidence
  <2>6. CASE p \in REQUIRED_PAIR_RECORD_FILES
    <3>1. Within(p, SinceGate)
      BY <2>1, <2>2, <2>6 DEF WithinSinceGate, SinceGate
    <3>2. SinceGate \subseteq UnverifiedWindow(p)
      BY <2>6 DEF SinceGate, UnverifiedWindow
    <3>3. QED
      BY <2>3, <3>1, <3>2 DEF Within, dirVars
  <2>7. CASE p \notin REQUIRED_PAIR_RECORD_FILES
    <3>1. disk[p] # Absent
      BY <2>4, <2>7 DEF RequiredFiles
    <3>2. p \in DataFiles => \A s \in Steps : <<p, s>> \notin damage
      BY <2>4, <2>5, <2>7, IntactIfGood DEF DataFiles
    <3>3. QED
      BY <2>3, <3>1, <3>2 DEF Within, dirVars
  <2>8. QED
    BY <2>6, <2>7
<1>3. QED
  BY <1>1, <1>2

LEMMA VouchedStep ==
  ASSUME Base, PassInv, [Next]_vars, WithinAtManifest, VouchedAtVerification
  PROVE  VouchedAtVerification'
<1> SUFFICES ASSUME passed' = "passed", pc' \in {"final", "verify_final"}, NEW p \in RequiredFiles
             PROVE  Vouched(p)'
  BY DEF VouchedAtVerification
<1>p. p \in Paths \ {Final}
  BY RequiredPaths
<1>1. CASE pc = "references"
  <2>1. Main
    BY <1>1, OthersKeep
  <2>2. BuildReferences /\ passed = "passed"
    BY <1>1, <2>1, MainAt, MainMoves DEF MainKeeps
  <2>3. refs'[p] = disk[p] /\ UNCHANGED <<disk, damage>>
    BY <1>p, <2>2 DEF BuildReferences, References, HasSemanticRole, dirVars
  <2>4. Within(p, UnverifiedWindow(p))
    BY <1>1, <2>2 DEF WithinAtManifest
  <2>5. QED
    BY <2>3, <2>4 DEF Within, Vouched, UnverifiedWindow
<1>2. CASE pc # "references"
  <2>1. pc \in {"final", "verify_final"}
    BY <1>2, MainMoves, OthersKeep DEF MainFlow, Base, TypeOK, Steps, BeforeTry, InTry
  <2>2. passed = "passed" /\ refs' = refs
    BY <2>1, MainMoves, OthersKeep DEF MainKeeps
  <2>3. Vouched(p)
    BY <2>1, <2>2 DEF VouchedAtVerification
  <2>4. \/ disk'[p] = disk[p]
        \/ disk[p] \notin {Absent, Altered} /\ disk'[p] \in {Absent, Altered} /\ disk'[p] # refs[p]
    BY <2>2, <2>3, RequiredSteady DEF Faulted, Vouched
  <2>5. ASSUME p \in DataFiles, NEW s \in Steps, <<p, s>> \in damage'
        PROVE  s \in UnverifiedWindow(p) \/ disk'[p] # refs[p]
    <3>1. CASE <<p, s>> \in damage
      BY <2>3, <2>4, <2>5, <3>1 DEF Vouched
    <3>2. CASE <<p, s>> \notin damage
      BY <1>p, <2>3, <2>4, <2>5, <3>2, NewDamage DEF Vouched, Base
    <3>3. QED
      BY <3>1, <3>2
  <2>6. QED
    BY <2>2, <2>3, <2>4, <2>5, DamageStays DEF Vouched, UnverifiedWindow
<1>3. QED
  BY <1>1, <1>2

(* Exit code 0 comes from the verification of what was published.            *)
LEMMA SuccessStep ==
  ASSUME Main, code' = 0, code # 0
  PROVE  VerifyFinal /\ passed = "passed" /\ verify_final_reference_manifest(refs)
<1>1. pc = "verify_final"
  <2>1. code' # 1 /\ code' # code
    OBVIOUS
  <2>2. QED
    BY <2>1
    DEF Main, WriteInvocation, LoadConfigAndManifest, CollectProvenance, CheckRequest, RecordRefusal,
        WritePreflight, VerifyPromptIdentity, LaunchWorker, CollectWorker, TimeoutKillsWorker,
        PreserveStdout, PreserveStderr, RecordTermination, JudgeWorker, AcceptResult,
        RejectMissingResult, RejectResult, StoreArtifact, EvaluateGates, Decide, WriteCompletion,
        VerifyPreFinal, BuildReferences, WriteFinal, RecordFinalWriteFailure, VerifyFinal,
        RecordVerificationFailure, CatchException, Finally, Goto, unchangedByGoto, Raise, Leave, Exit
<1>2. VerifyFinal
  BY <1>1, MainAt
<1>3. QED
  BY <1>2 DEF VerifyFinal, Leave, Goto, unchangedByGoto

LEMMA EscapeStep ==
  ASSUME Base, PassInv, RecordInv, [Next]_vars, VouchedAtVerification, DamageEscapesOnlyInWindow
  PROVE  DamageEscapesOnlyInWindow'
<1> SUFFICES ASSUME code' = 0, NEW p \in RequiredFiles
             PROVE  Within(p, UnverifiedWindow(p))'
  BY DEF DamageEscapesOnlyInWindow, Within, DataFiles, UnverifiedWindow
<1>k. Running # 0 /\ Interrupted # 0 /\ Crashed # 0
  BY DEF Running, Interrupted, Crashed
<1>1. CASE code = 0
  <2>1. passed # "undecided"
    BY <1>1 DEF Base, VerdictInv, CodeCarriesVerdict, FinalCarriesVerdict
  <2>2. Within(p, UnverifiedWindow(p))
    BY <1>1 DEF DamageEscapesOnlyInWindow, Within, DataFiles
  <2>3. CASE pc = "finally"
    <3>1. pc \in UnverifiedWindow(p)
      BY <2>3 DEF UnverifiedWindow
    <3>2. QED
      BY <2>1, <2>2, <3>1, WithinStep
  <2>4. CASE pc = "exited"
    <3>1. ~DiskFault
      BY <2>4 DEF DiskFault
    <3>2. damage' = damage /\ disk'[p] = disk[p]
      BY <2>1, <3>1, DamageStays, RequiredSteady DEF Faulted
    <3>3. QED
      BY <2>2, <3>2 DEF Within
  <2>5. QED
    BY <1>1, <1>k, <2>3, <2>4 DEF RecordInv
<1>2. CASE code # 0
  <2>1. Main
    BY <1>2, <1>k, OthersKeep
  <2>2. VerifyFinal /\ passed = "passed" /\ verify_final_reference_manifest(refs)
    BY <1>2, <2>1, SuccessStep
  <2>3. UNCHANGED <<disk, damage>> /\ pc = "verify_final"
    BY <2>2 DEF VerifyFinal, Leave, Goto, unchangedByGoto, dirVars
  <2>4. disk[p] = refs[p]
    BY <2>2, RequiredPaths DEF verify_final_reference_manifest
  <2>5. Vouched(p)
    BY <2>2, <2>3 DEF VouchedAtVerification
  <2>6. QED
    BY <2>3, <2>4, <2>5 DEF Vouched, Within
<1>3. QED
  BY <1>1, <1>2

(* When the command exits with 0, a required file that is missing was lost,  *)
(* and a file that repeats a result was damaged, only in the steps no        *)
(* verification follows: between the pre-final verification and the manifest *)
(* or after the last one, and for the pair records from the gates on         *)
(* (verify_attempt_artifacts before the gates and before final.json,         *)
(* verify_final_reference_manifest after it).                                *)
THEOREM OnlyWindowsHideDamage == Spec => []DamageEscapesOnlyInWindow
<1>1. Init => WindowInv
  <2> SUFFICES ASSUME Init PROVE WindowInv
    OBVIOUS
  <2>1. \A p \in DataFiles : disk[p] = Absent /\ ~DamagedFile(p)
    BY DataNames DEF Init, DirInit, DamagedFile
  <2>2. QED
    BY <2>1
    DEF Init, WindowInv, UnwrittenIsFresh, DamageShows, WithinSinceGate, WithinAtManifest,
        VouchedAtVerification, DamageEscapesOnlyInWindow, Running
<1>2. Base /\ PassInv /\ RecordInv /\ WindowInv /\ [Next]_vars => WindowInv'
  BY FreshStep, ShowsStep, SinceGateStep, AtManifestStep, VouchedStep, EscapeStep DEF WindowInv
<1>3. WindowInv => DamageEscapesOnlyInWindow
  BY DEF WindowInv
<1>4. QED
  BY <1>1, <1>2, <1>3, BaseInvariant, PassInvariant, RecordInvariant, PTL DEF Spec
===============================================================================
