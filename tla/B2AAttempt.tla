------------------------------ MODULE B2AAttempt ------------------------------
(*****************************************************************************)
(* One `b2a-calibrate --execute` attempt: the command                        *)
(* (src/src/kvcot/cli.py, cmd_b2a_calibrate), the coordinator                *)
(* (discovery/b2a_execute.py, run_b2a_calibration, and                       *)
(* discovery/b2a_workers.py, run_both_workers_via_subprocess), the two       *)
(* worker processes it launches one after the other, and the immutable       *)
(* directory in which all of them leave their evidence.                      *)
(*                                                                           *)
(* The environment may refuse writes, lose or alter a file already written   *)
(* (Fragile names the files it may touch, MaxFaults bounds how often), kill  *)
(* a worker, interrupt the command (KeyboardInterrupt) or kill it (SIGKILL). *)
(*****************************************************************************)
EXTENDS AttemptVerifier, WorkerProcess

CONSTANTS MaxFaults, Fragile

ASSUME FaultsAssumption == MaxFaults \in Nat /\ Fragile \subseteq Paths \ {Final}

VARIABLES pc,       \* the next step of the command
          mem,      \* role -> the validated result held by the coordinator
          cause,    \* why the last worker ended: "none", "nonzero" or "timeout"
          next,     \* index of the next post-worker artifact
          passed,   \* overall_passed, once it is computed
          refs,     \* the reference manifest embedded in final.json
          partial,  \* does the exception in flight carry the FullKV result?
          code,     \* exit code, Running until there is one
          damage    \* <<file, step>>: what was lost or altered, and when

mainVars == <<pc, role, mem, cause, next, passed, refs, partial, code>>
vars == <<dirVars, workerVars, mainVars, damage>>

Running == -1
Interrupted == 130
Crashed == 137

BeforeTry == {"invocation", "config", "provenance", "checks", "refusal", "preflight"}
InTry ==
  {"prompt", "command", "waiting", "stdout", "stderr", "termination", "judge",
   "store", "gate", "completion", "prefinal", "references", "final",
   "final_failed", "verify_final", "verify_failed", "catch"}
Steps == BeforeTry \cup InTry \cup {"finally", "exited"}

(* What run_both_workers_via_subprocess writes once both results are valid.  *)
PostWorkerArtifacts ==
  << <<"fullkv", "envelope.json">>, <<"fullkv", "timing.json">>, <<"fullkv", "memory.json">>,
     <<"rkv", "envelope.json">>, <<"rkv", "timing.json">>, <<"rkv", "memory.json">>,
     <<"rkv", "pair_identities.json">>, <<"rkv", "semantic_swaps.json">>,
     <<"rkv", "replay_evidence.json">>, <<"rkv", "pair_records.json">>,
     <<"rkv", "scientific_summary.json">>, Top("process_outcome.json") >>

TypeOK ==
  /\ DirTypeOK
  /\ WorkerTypeOK
  /\ pc \in Steps
  /\ mem \in [Roles -> {Absent, "good", "weak"}]
  /\ cause \in {"none", "nonzero", "timeout"}
  /\ next \in 1..Len(PostWorkerArtifacts)
  /\ passed \in {"undecided", "passed", "failed"}
  /\ refs \in [Paths -> Contents]
  /\ partial \in BOOLEAN
  /\ code \in {Running, 0, 1, 2, Interrupted, Crashed}
  /\ damage \subseteq Paths \X Steps

(* create_attempt_directory has just made the empty directory.               *)
Init ==
  /\ DirInit
  /\ WorkerInit
  /\ pc = "invocation"
  /\ mem = [r \in Roles |-> Absent]
  /\ cause = "none"
  /\ next = 1
  /\ passed = "undecided"
  /\ refs = [p \in Paths |-> Absent]
  /\ partial = FALSE
  /\ code = Running
  /\ damage = {}

-------------------------------------------------------------------------------
(* Where a step leads.  Goto: on to another step.  Raise(p): to the handlers *)
(* of run_b2a_calibration, the exception carrying the FullKV result iff p.   *)
(* Leave(c): out of the try block, through its finally, towards exit code c. *)
(* Exit(c): out of the process.                                              *)

unchangedByGoto == <<role, mem, cause, next, passed, refs, partial, code, workerVars, damage>>

Goto(step) ==
  /\ pc' = step
  /\ UNCHANGED unchangedByGoto

Raise(p) ==
  /\ pc' = "catch"
  /\ partial' = p
  /\ UNCHANGED <<role, mem, cause, next, passed, refs, code, workerVars, damage>>

Leave(c) ==
  /\ pc' = "finally"
  /\ code' = c
  /\ UNCHANGED <<role, mem, cause, next, passed, refs, partial, workerVars, damage>>

Exit(c) ==
  /\ pc' = "exited"
  /\ code' = c
  /\ UNCHANGED <<role, mem, cause, next, passed, refs, partial, workerVars, damage>>

-------------------------------------------------------------------------------
(* cmd_b2a_calibrate up to its try block: an exception ends the process.     *)

WriteInvocation ==
  /\ pc = "invocation"
  /\ \/ Writes(Top("invocation.json"), "written") /\ Goto("config")
     \/ WriteFails(Top("invocation.json"), "written") /\ Exit(1)

LoadConfigAndManifest ==
  /\ pc = "config"
  /\ UNCHANGED dirVars
  /\ Goto("provenance") \/ Goto("refusal")

CollectProvenance ==
  /\ pc = "provenance"
  /\ \E c \in {"clean", "dirty"} :
       \/ Writes(Top("provenance.json"), c) /\ Goto("checks")
       \/ WriteFails(Top("provenance.json"), c) /\ Exit(1)
       \/ UNCHANGED dirVars /\ Exit(1)                    \* a git command failed

(* --problem-index / --limit are refused without a record; blockers, missing *)
(* CUDA and a wrong device are recorded in failure.json first.               *)
CheckRequest ==
  /\ pc = "checks"
  /\ UNCHANGED dirVars
  /\ Exit(1) \/ Goto("refusal") \/ Goto("preflight")

RecordRefusal ==
  /\ pc = "refusal"
  /\ Writes(Failure, "without_fullkv") \/ WriteFails(Failure, "without_fullkv")
  /\ Exit(1)

WritePreflight ==
  /\ pc = "preflight"
  /\ \/ Writes(Top("preflight.json"), "written") /\ Goto("prompt")
     \/ WriteFails(Top("preflight.json"), "written") /\ Exit(1)

-------------------------------------------------------------------------------
(* run_b2a_calibration and run_both_workers_via_subprocess.                  *)

VerifyPromptIdentity ==
  /\ pc = "prompt"
  /\ UNCHANGED dirVars
  /\ Goto("command") \/ Raise(FALSE)

(* preserve_command, then subprocess.run starts the worker, or the operating *)
(* system refuses the process: an OSError, which carries no FullKV result.   *)
LaunchWorker ==
  /\ pc = "command"
  /\ \/ /\ Writes(<<role, "command.json">>, "written")
        /\ pc' = "waiting"
        /\ wpc' = "startup"
        /\ wrc' = 0
        /\ wres' = Absent
        /\ UNCHANGED <<role, mem, cause, next, passed, refs, partial, code, damage>>
     \/ Writes(<<role, "command.json">>, "written") /\ Raise(FALSE)
     \/ WriteFails(<<role, "command.json">>, "written") /\ Raise(FALSE)

CollectWorker ==
  /\ pc = "waiting"
  /\ wpc = "exited"
  /\ pc' = "stdout"
  /\ cause' = IF wrc = 0 THEN "none" ELSE "nonzero"
  /\ UNCHANGED <<dirVars, role, mem, next, passed, refs, partial, code, workerVars, damage>>

(* Mutant: the timeout is reported but the child is left running.            *)
TimeoutKillsWorker_LeftRunning ==
  /\ pc = "waiting"
  /\ WorkerRunning
  /\ pc' = "stdout"
  /\ cause' = "timeout"
  /\ UNCHANGED <<dirVars, role, mem, next, passed, refs, partial, code, workerVars, damage>>

(* Mutant: subprocess.run is called without a timeout.                       *)
TimeoutKillsWorker_Never == FALSE /\ UNCHANGED vars

(* subprocess.run kills the child and waits for it before it raises.         *)
TimeoutKillsWorker ==
  /\ pc = "waiting"
  /\ WorkerRunning
  /\ WorkerExits(Killed)
  /\ pc' = "stdout"
  /\ cause' = "timeout"
  /\ UNCHANGED <<dirVars, role, mem, next, passed, refs, partial, code, damage>>

PreserveStdout ==
  /\ pc = "stdout"
  /\ \/ Writes(<<role, "stdout.log">>, "written") /\ Goto("stderr")
     \/ WriteFails(<<role, "stdout.log">>, "written") /\ Raise(FALSE)

PreserveStderr ==
  /\ pc = "stderr"
  /\ \/ /\ Writes(<<role, "stderr.log">>, "written")
        /\ Goto(IF cause = "none" THEN "judge" ELSE "termination")
     \/ WriteFails(<<role, "stderr.log">>, "written") /\ Raise(FALSE)

(* "worker_authored_envelope_present": the file the record looks for.        *)
EnvelopeObservation ==
  IF disk[<<role, "envelope.json">>] # Absent THEN "envelope_seen" ELSE "no_envelope_seen"

(* _write_termination_record and the WorkerFailedError after it.  Reading    *)
(* the last journal event raises when a line of the journal does not parse.  *)
RecordTermination ==
  /\ pc = "termination"
  /\ \/ /\ disk[<<role, "progress.jsonl">>] # "torn"
        /\ \/ Writes(<<role, "termination.json">>, EnvelopeObservation) /\ Raise(role = "rkv")
           \/ WriteFails(<<role, "termination.json">>, EnvelopeObservation) /\ Raise(FALSE)
     \/ /\ disk[<<role, "progress.jsonl">>] \in {"torn", Altered}
        /\ UNCHANGED dirVars
        /\ Raise(FALSE)

(* The worker reported success: its result must exist, validate, and be the  *)
(* one its success envelope vouches for.                                     *)
AcceptResult ==
  /\ disk[ResultFile] \in {"good", "weak"}
  /\ disk[EnvelopeFile] \in {"success", Altered}
  /\ mem' = [mem EXCEPT ![role] = disk[ResultFile]]
  /\ role' = "rkv"
  /\ pc' = IF role = "fullkv" THEN "command" ELSE "store"
  /\ UNCHANGED <<dirVars, cause, next, passed, refs, partial, code, workerVars, damage>>

(* Mutant: the error is raised without its partial_fullkv_result.            *)
RejectMissingResult_NoPartial ==
  /\ disk[ResultFile] = Absent
  /\ UNCHANGED dirVars
  /\ Raise(FALSE)

RejectMissingResult ==
  /\ disk[ResultFile] = Absent
  /\ UNCHANGED dirVars
  /\ Raise(role = "rkv")

(* A pydantic error, or one of _validate_atomic_worker_envelope: neither     *)
(* carries the FullKV result.                                                *)
RejectResult ==
  /\ disk[ResultFile] # Absent
  /\ disk[ResultFile] = Altered \/ disk[EnvelopeFile] # "success"
  /\ UNCHANGED dirVars
  /\ Raise(FALSE)

JudgeWorker ==
  /\ pc = "judge"
  /\ AcceptResult \/ RejectMissingResult \/ RejectResult

(* The envelope is copied from the worker's file, the rest from memory.      *)
ArtifactContent(p) ==
  IF p[2] = "envelope.json" THEN disk[<<p[1], "result.json.envelope.json">>]
  ELSE IF p[1] \in Roles THEN mem[p[1]]
  ELSE "written"

StoreArtifact ==
  /\ pc = "store"
  /\ LET p == PostWorkerArtifacts[next]
         c == ArtifactContent(p)
     IN  \/ /\ c # Absent
            /\ Writes(p, c)
            /\ IF next = Len(PostWorkerArtifacts)
               THEN pc' = "gate" /\ next' = next
               ELSE pc' = pc /\ next' = next + 1
            /\ UNCHANGED <<role, mem, cause, passed, refs, partial, code, workerVars, damage>>
         \/ c # Absent /\ WriteFails(p, c) /\ Raise(FALSE)
         \/ c \in {Absent, Altered} /\ UNCHANGED dirVars /\ Raise(FALSE)

(* The three gate layers, ANDed: measurement and final gates hold for good   *)
(* results only, and each verifier must have answered TRUE.                  *)
BothGood == \A r \in Roles : mem[r] = "good"

GateMayPass ==
  /\ BothGood
  /\ TRUE \in verify_attempt_artifacts(mem)
  /\ TRUE \in verify_worker_envelopes
  /\ ProvenanceClean
  /\ verify_pair_record_artifacts(mem)

GateMayFail ==
  \/ ~GateMayPass
  \/ FALSE \in verify_attempt_artifacts(mem)
  \/ FALSE \in verify_worker_envelopes
  \/ disk[Top("provenance.json")] = Altered

Decide(v) ==
  /\ pc' = "completion"
  /\ passed' = v
  /\ UNCHANGED <<dirVars, role, mem, cause, next, refs, partial, code, workerVars, damage>>

(* A required timing phase missing from a result, or a provenance file that  *)
(* no longer parses, raises instead of failing a gate.                       *)
EvaluateGates ==
  /\ pc = "gate"
  /\ \/ GateMayPass /\ Decide("passed")
     \/ GateMayFail /\ Decide("failed")
     \/ /\ ~BothGood \/ disk[Top("provenance.json")] = Altered
        /\ UNCHANGED dirVars
        /\ Raise(FALSE)

GateOutcome == IF passed = "passed" THEN "gate_passed" ELSE "gate_failed"

WriteCompletion ==
  /\ pc = "completion"
  /\ \/ Writes(Completion, GateOutcome) /\ Goto("prefinal")
     \/ WriteFails(Completion, GateOutcome) /\ Raise(FALSE)

(* Mutant: the second verification is recorded and never acted upon.         *)
VerifyPreFinal_Ignored ==
  /\ pc = "prefinal"
  /\ UNCHANGED dirVars
  /\ Goto("references")

(* Only a passing attempt is refused for what the second verification says.  *)
VerifyPreFinal ==
  /\ pc = "prefinal"
  /\ UNCHANGED dirVars
  /\ \/ passed = "failed" /\ Goto("references")
     \/ TRUE \in verify_attempt_artifacts(mem) /\ passed = "passed" /\ Goto("references")
     \/ FALSE \in verify_attempt_artifacts(mem) /\ passed = "passed" /\ Raise(FALSE)

BuildReferences ==
  /\ pc = "references"
  /\ refs' = References
  /\ pc' = "final"
  /\ UNCHANGED <<dirVars, role, mem, cause, next, passed, partial, code, workerVars, damage>>

(* Mutant: success recomputed from a subset of the gates.                    *)
FinalContent_Subset == IF BothGood THEN "verdict_passed" ELSE "verdict_failed"

FinalContent == IF passed = "passed" THEN "verdict_passed" ELSE "verdict_failed"

(* `except BaseException`: a KeyboardInterrupt during this write takes the   *)
(* same path as an I/O error.                                                *)
WriteFinal ==
  /\ pc = "final"
  /\ \/ Writes(Final, FinalContent) /\ Goto("verify_final")
     \/ WriteFails(Final, FinalContent) /\ Goto("final_failed")
     \/ UNCHANGED dirVars /\ Goto("final_failed")

(* Mutant: the original BaseException is re-raised, past `except Exception`. *)
RecordFinalWriteFailure_Unrecorded ==
  /\ pc = "final_failed"
  /\ UNCHANGED dirVars
  /\ Leave(1)

(* Best effort: the record's own failure is swallowed.                       *)
RecordFinalWriteFailure ==
  /\ pc = "final_failed"
  /\ Writes(FinalWriteFailure, "written") \/ WriteFails(FinalWriteFailure, "written")
  /\ Raise(FALSE)

(* Mutant: the command returns 0 for every published verdict.                *)
VerifyFinal_AlwaysZero ==
  /\ pc = "verify_final"
  /\ UNCHANGED dirVars
  /\ IF verify_final_reference_manifest(refs) THEN Leave(0) ELSE Goto("verify_failed")

(* The published directory is verified once more; the command then returns   *)
(* 0 for a pass and 2 for a failed gate, both from inside the try.           *)
VerifyFinal ==
  /\ pc = "verify_final"
  /\ UNCHANGED dirVars
  /\ IF verify_final_reference_manifest(refs)
     THEN Leave(IF passed = "passed" THEN 0 ELSE 2)
     ELSE Goto("verify_failed")

RecordVerificationFailure ==
  /\ pc = "verify_failed"
  /\ \/ Writes(FinalVerificationFailure, "written")
     \/ WriteFails(FinalVerificationFailure, "written")
  /\ Raise(FALSE)

FailureContent == IF partial THEN "with_fullkv" ELSE "without_fullkv"

(* Mutant: the handler re-raises before it writes failure.json.              *)
CatchException_Silent ==
  /\ pc = "catch"
  /\ UNCHANGED dirVars
  /\ Leave(1)

(* `except WorkerFailedError` and `except Exception`: one failure.json, and  *)
(* the exception (or that of its own write) goes on to the finally.          *)
CatchException ==
  /\ pc = "catch"
  /\ Writes(Failure, FailureContent) \/ WriteFails(Failure, FailureContent)
  /\ Leave(1)

-------------------------------------------------------------------------------
(* The finally of cmd_b2a_calibrate: completion.json is written here only if *)
(* the coordinator did not get that far.                                     *)

FallbackOutcome ==
  IF code = 0 THEN "gate_passed" ELSE IF code = 2 THEN "gate_failed" ELSE "exception"

(* Mutant: the fallback overwrites the coordinator's completion.json.        *)
Finally_Overwrites ==
  /\ pc = "finally"
  /\ disk' = [disk EXCEPT ![Completion] = FallbackOutcome]
  /\ UNCHANGED ioErrors
  /\ Exit(code)

Finally ==
  /\ pc = "finally"
  /\ \/ disk[Completion] # Absent /\ UNCHANGED dirVars /\ Exit(code)
     \/ Writes(Completion, FallbackOutcome) /\ Exit(code)
     \/ WriteFails(Completion, FallbackOutcome) /\ Exit(1)

-------------------------------------------------------------------------------
(* The environment.                                                          *)

(* Ctrl-C: subprocess.run kills the worker it waits for; `except Exception`  *)
(* does not see KeyboardInterrupt, the finally does.  During the write of    *)
(* final.json it is converted (WriteFinal).                                  *)
Interrupt ==
  /\ pc \in Steps \ {"final", "exited"}
  /\ pc' = IF pc \in InTry THEN "finally" ELSE "exited"
  /\ code' = Interrupted
  /\ IF WorkerRunning THEN WorkerExits(Killed) ELSE UNCHANGED workerVars
  /\ UNCHANGED <<dirVars, role, mem, cause, next, passed, refs, partial, damage>>

(* SIGKILL: nothing is cleaned up, and a worker goes on as an orphan.        *)
Crash ==
  /\ pc # "exited"
  /\ UNCHANGED dirVars
  /\ Exit(Crashed)

DiskFault ==
  /\ pc # "exited"
  /\ Cardinality(damage) < MaxFaults
  /\ \E p \in Fragile, c \in {Absent, Altered} :
       /\ disk[p] \notin {Absent, Altered}
       /\ disk' = [disk EXCEPT ![p] = c]
       /\ damage' = damage \cup {<<p, pc>>}
  /\ UNCHANGED <<ioErrors, workerVars, mainVars>>

Worker ==
  /\ WorkerStep
  /\ UNCHANGED <<mainVars, damage>>

Done ==
  /\ pc = "exited"
  /\ ~WorkerRunning
  /\ UNCHANGED vars

Main ==
  \/ WriteInvocation \/ LoadConfigAndManifest \/ CollectProvenance \/ CheckRequest
  \/ RecordRefusal \/ WritePreflight
  \/ VerifyPromptIdentity \/ LaunchWorker \/ CollectWorker \/ TimeoutKillsWorker
  \/ PreserveStdout \/ PreserveStderr \/ RecordTermination \/ JudgeWorker
  \/ StoreArtifact \/ EvaluateGates \/ WriteCompletion \/ VerifyPreFinal
  \/ BuildReferences \/ WriteFinal \/ RecordFinalWriteFailure \/ VerifyFinal
  \/ RecordVerificationFailure \/ CatchException \/ Finally

Next == Main \/ Worker \/ Interrupt \/ Crash \/ DiskFault \/ Done

Spec == Init /\ [][Next]_vars

(* The command always takes its next step in the end; while it waits for a   *)
(* worker the operating system delivers the timeout.  Nothing is promised    *)
(* about the worker itself.                                                  *)
FairSpec == Spec /\ WF_vars(Main)
-------------------------------------------------------------------------------
(* Properties.                                                               *)

(* A worker runs only while the command waits for it, or as the orphan of a  *)
(* command that was killed: every other way out has reaped it.               *)
WorkerIsAwaited == WorkerRunning => pc = "waiting" \/ code = Crashed

(* Nothing is recorded of the end of this role's worker.                     *)
Unreported(r) ==
  /\ mem[r] = Absent
  /\ \A name \in {"stdout.log", "stderr.log", "termination.json"} : disk[<<r, name>>] = Absent

(* No exception path, timeout or interrupt leaves a GPU process behind.  The *)
(* one a killed command leaves goes on writing into a directory that says    *)
(* nothing of its end, and in which no verdict was or will be published: no  *)
(* record of a worker, and no verdict, is ever made while it can still write. *)
NoOrphanWorker ==
  /\ WorkerIsAwaited
  /\ WorkerRunning => Unreported(role) /\ passed = "undecided" /\ disk[Final] = Absent

DamagedFile(p) == \E s \in Steps : <<p, s>> \in damage

RequiredFiles == REQUIRED_ATTEMPT_FILES \cup REQUIRED_PAIR_RECORD_FILES

(* A published pass rests on two results the gates accepted, on a clean      *)
(* provenance, and on a manifest that lists every required artifact; no      *)
(* worker of that attempt was recorded as terminated.                        *)
PublishedPassIsJustified ==
  disk[Final] = "verdict_passed" =>
    /\ BothGood
    /\ \A p \in RequiredFiles : refs[p] # Absent \/ DamagedFile(p)
    /\ refs[Top("provenance.json")] = "clean" \/ DamagedFile(Top("provenance.json"))
    /\ \A r \in Roles : disk[<<r, "termination.json">>] = Absent

(* Exit code 0 or 2 agrees with the published verdict and with               *)
(* completion.json, and no failure record contradicts it.                    *)
ReportedVerdictAgrees ==
  pc = "exited" /\ code \in {0, 2} =>
    /\ disk[Final] = IF code = 0 THEN "verdict_passed" ELSE "verdict_failed"
    /\ \A r \in FailureRecords : disk[r] = Absent
    /\ \/ disk[Completion] = IF code = 0 THEN "gate_passed" ELSE "gate_failed"
       \/ DamagedFile(Completion)

(* A directory that looks like a success (passing final.json and             *)
(* completion.json, no failure record) was left by a command that failed     *)
(* only if two more writes failed, or if it died while verifying what it had *)
(* just published.                                                           *)
LooksSuccessful ==
  /\ disk[Final] = "verdict_passed"
  /\ disk[Completion] = "gate_passed"
  /\ \A r \in FailureRecords : disk[r] = Absent

CleanDirectoryMeansSuccess ==
  pc = "exited" /\ LooksSuccessful =>
    \/ code \in {0, Interrupted, Crashed}
    \/ ioErrors >= 2
    \/ DamagedFile(Completion)
    \/ \E r \in FailureRecords : DamagedFile(r)

(* A command that got past its preflight and failed, on a file system that   *)
(* did not, has said so in failure.json and closed with completion.json.     *)
FailureIsRecorded ==
  pc = "exited" /\ code = 1 /\ ioErrors = 0 /\ disk[Top("preflight.json")] # Absent =>
    /\ disk[Failure] # Absent \/ DamagedFile(Failure)
    /\ disk[Completion] # Absent \/ DamagedFile(Completion)

(* The R-KV worker exited with 0, its output was kept and its result was not *)
(* there; one that was there when it was judged does not count.              *)
RKVLeftNoResult ==
  /\ role = "rkv" /\ cause = "none" /\ mem["rkv"] = Absent
  /\ disk[<<"rkv", "stderr.log">>] # Absent
  /\ disk[<<"rkv", "result.json">>] = Absent
  /\ \A s \in {"catch", "finally"} : <<<<"rkv", "result.json">>, s>> \notin damage

RKVTerminated == disk[<<"rkv", "termination.json">>] # Absent

(* The FullKV result goes into failure.json for an R-KV worker that was      *)
(* recorded as terminated, whatever ended it, or that left no result, and    *)
(* for no other failure: not for one of FullKV or once both results were     *)
(* accepted, nor for a refused launch, a result that was there and was       *)
(* rejected, or a dead worker whose journal does not parse.                  *)
PartialEvidenceIsKept ==
  /\ disk[Failure] = "with_fullkv" =>
       /\ mem["fullkv"] # Absent /\ mem["rkv"] = Absent
       /\ \/ RKVTerminated \/ DamagedFile(<<"rkv", "termination.json">>)
          \/ RKVLeftNoResult \/ DamagedFile(<<"rkv", "stderr.log">>)
  /\ (RKVTerminated \/ RKVLeftNoResult) /\ ioErrors = 0 /\ disk[Failure] # Absent =>
       disk[Failure] = "with_fullkv" \/ DamagedFile(Failure)

(* What damage an exit code 0 can hide.  A file compared in full, or the     *)
(* loss of a required file, escapes only between the pre-final verification  *)
(* and the manifest (or after everything); the pair records, which only the  *)
(* gate verifies, escape from the gate on.                                   *)
UnverifiedWindow(p) ==
  {"references", "finally"}
    \cup IF p \in REQUIRED_PAIR_RECORD_FILES THEN {"completion", "prefinal"} ELSE {}

DamageEscapesOnlyInWindow ==
  code = 0 =>
    \A p \in RequiredFiles :
      /\ disk[p] = Absent => \E s \in UnverifiedWindow(p) : <<p, s>> \in damage
      /\ p \in ComparedInFull \cup REQUIRED_PAIR_RECORD_FILES =>
           \A s \in Steps : <<p, s>> \in damage => s \in UnverifiedWindow(p)

(* Once final.json is there the program itself adds nothing but a failure    *)
(* record, or a completion.json that was lost, and changes nothing.          *)
NothingAfterFinal ==
  [][disk[Final] # Absent /\ damage' = damage =>
       \A p \in Paths : disk'[p] # disk[p] =>
         disk[p] = Absent /\ p \in FailureRecords \cup {Completion}]_vars

(* The command ends, whatever its workers do.                                *)
Terminates == <>(pc = "exited")
===============================================================================
