--------------------------- MODULE AttemptDirectory ---------------------------
(*****************************************************************************)
(* The immutable directory one B2A attempt leaves behind                     *)
(* (src/src/kvcot/discovery/attempt_artifacts.py): which files it may hold,  *)
(* the atomic write that creates each of them, and the append-only progress  *)
(* journal of a worker.  A file is named <<directory, name>>; "." is the     *)
(* attempt directory itself, "fullkv" and "rkv" are the workers' parts.      *)
(*                                                                           *)
(* A file's content is abstracted to what its readers tell apart.  The file  *)
(* system may refuse a write (MaxIOErrors bounds how often), before or after *)
(* the temporary file was renamed into place.                                *)
(*****************************************************************************)
EXTENDS Integers, FiniteSets, Sequences

CONSTANT MaxIOErrors

ASSUME MaxIOErrorsAssumption == MaxIOErrors \in Nat

VARIABLES disk,      \* content of every file the attempt may hold
          ioErrors   \* how many writes the file system has refused

dirVars == <<disk, ioErrors>>

Roles == {"fullkv", "rkv"}

TopNames ==
  {"invocation.json", "preflight.json", "provenance.json", "completion.json",
   "process_outcome.json", "failure.json", "final_write_failure.json",
   "final_verification_failure.json", "final.json"}

WorkerNames ==
  {"command.json", "stdout.log", "stderr.log", "progress.jsonl", "result.json",
   "result.json.envelope.json", "envelope.json", "timing.json", "memory.json",
   "termination.json"}

PairNames ==
  {"pair_identities.json", "semantic_swaps.json", "replay_evidence.json",
   "pair_records.json", "scientific_summary.json"}

Paths == ({"."} \X TopNames) \cup (Roles \X WorkerNames) \cup ({"rkv"} \X PairNames)

Top(name) == <<".", name>>

Final == Top("final.json")
Completion == Top("completion.json")
Failure == Top("failure.json")
FinalWriteFailure == Top("final_write_failure.json")
FinalVerificationFailure == Top("final_verification_failure.json")

(* The records that say an attempt went wrong.                               *)
FailureRecords == {Failure, FinalWriteFailure, FinalVerificationFailure}

Absent == "absent"
Altered == "altered"    \* changed behind the program's back

JournalStates == {"started", "headless", "complete", "failed", "torn"}

Contents ==
  {Absent, Altered, "written"}
    \cup {"clean", "dirty"}                                 \* provenance.json
    \cup JournalStates                                      \* progress.jsonl
    \cup {"good", "weak"}                                   \* a worker's result
    \cup {"success", "failure"}                             \* a worker's envelope
    \cup {"envelope_seen", "no_envelope_seen"}              \* termination.json
    \cup {"with_fullkv", "without_fullkv"}                  \* failure.json
    \cup {"gate_passed", "gate_failed", "exception"}        \* completion.json
    \cup {"verdict_passed", "verdict_failed"}               \* final.json

DirTypeOK ==
  /\ disk \in [Paths -> Contents]
  /\ ioErrors \in 0..MaxIOErrors

DirInit ==
  /\ disk = [p \in Paths |-> Absent]
  /\ ioErrors = 0

(* atomic_write_json / atomic_write_text: temporary file, fsync, rename,     *)
(* fsync of the directory.  Both refuse an existing path first.  The model   *)
(* has no step for that refusal: a command that met it would stand still     *)
(* here, and B2AAttempt's Terminates would not hold.                         *)
Writes(p, c) ==
  /\ disk[p] = Absent
  /\ disk' = [disk EXCEPT ![p] = c]
  /\ UNCHANGED ioErrors

(* The write raises: before the rename nothing is left (the temporary file   *)
(* is unlinked), after it (the directory fsync) the file is in place.        *)
WriteFails(p, c) ==
  /\ disk[p] = Absent
  /\ ioErrors < MaxIOErrors
  /\ ioErrors' = ioErrors + 1
  /\ disk' \in {disk, [disk EXCEPT ![p] = c]}

(* append_progress.  "first" opens the journal, "last" is the event that     *)
(* completes the required stages; a journal that lost its head, ends in half *)
(* a line, or was altered stays so.                                          *)
JournalAfter(journal, event) ==
  IF journal = Absent
  THEN IF event = "first" THEN "started" ELSE "headless"
  ELSE IF journal = "started" /\ event \in {"last", "failed"}
  THEN IF event = "last" THEN "complete" ELSE "failed"
  ELSE journal

Appends(role, event) ==
  LET journal == <<role, "progress.jsonl">>
  IN  /\ disk' = [disk EXCEPT ![journal] = JournalAfter(@, event)]
      /\ UNCHANGED ioErrors

(* One append is not atomic: a full disk may keep the first part of a line,  *)
(* and the fsync can raise when the whole line is in the file.               *)
AppendFails(role, event) ==
  LET journal == <<role, "progress.jsonl">>
  IN  /\ ioErrors < MaxIOErrors
      /\ ioErrors' = ioErrors + 1
      /\ \E j \in {disk[journal], "torn", JournalAfter(disk[journal], event)} :
           disk' = [disk EXCEPT ![journal] = j]

(* semantic_role_for: the files the reference manifest may list.  final.json *)
(* has no role: nothing may reference it.                                    *)
HasSemanticRole(p) == p \in Paths \ {Final}

(* build_attempt_references(exclude=final.json): path and hash of every file.*)
References == [p \in Paths |-> IF HasSemanticRole(p) THEN disk[p] ELSE Absent]
===============================================================================
