---------------------------- MODULE AttemptVerifier ----------------------------
(*****************************************************************************)
(* The verifiers of an attempt directory                                     *)
(* (src/src/kvcot/discovery/attempt_verification.py), as state functions.    *)
(* Each returns the set of answers it can give: a file that was altered in a *)
(* field the verifier does not compare may be accepted, so both answers are  *)
(* possible there; everywhere else there is one.                             *)
(*****************************************************************************)
EXTENDS AttemptDirectory

REQUIRED_ATTEMPT_FILES ==
  ({"."} \X {"invocation.json", "preflight.json", "provenance.json", "process_outcome.json"})
    \cup (Roles \X (WorkerNames \ {"result.json.envelope.json", "termination.json"}))
    \cup ({"rkv"} \X {"pair_identities.json", "semantic_swaps.json", "replay_evidence.json"})

REQUIRED_PAIR_RECORD_FILES == {"rkv"} \X {"pair_records.json", "scientific_summary.json"}

(* The artifacts compared field by field with the result they copy.          *)
CopiesOf(role) ==
  {<<role, "timing.json">>, <<role, "memory.json">>}
    \cup IF role = "rkv"
         THEN {"rkv"} \X {"pair_identities.json", "semantic_swaps.json", "replay_evidence.json"}
         ELSE {}

(* The files whose every field the verifier compares with something else.    *)
ComparedInFull ==
  UNION {CopiesOf(role) \cup {<<role, "result.json">>} : role \in Roles}

(* "result_json != result", "timing != result_json.get(...)", ...: results   *)
(* maps a role to the worker result the coordinator holds in memory.         *)
AgreesWithResults(results) ==
  \A role \in Roles :
    /\ disk[<<role, "result.json">>] = results[role]
    /\ \A p \in CopiesOf(role) : disk[p] = disk[<<role, "result.json">>]

(* completion.json is optional; when it is there it must attest a pass.      *)
CompletionAcceptable == disk[Completion] \in {Absent, "gate_passed", Altered}

JournalsComplete ==
  \A role \in Roles : disk[<<role, "progress.jsonl">>] \in {"complete", Altered}

EnvelopesSucceed ==
  \A role \in Roles : disk[<<role, "envelope.json">>] \in {"success", Altered}

ProvenanceClean == disk[Top("provenance.json")] \in {"clean", Altered}

verify_attempt_artifacts(results) ==
  IF /\ \A p \in REQUIRED_ATTEMPT_FILES : disk[p] # Absent
     /\ AgreesWithResults(results)
     /\ CompletionAcceptable
     /\ JournalsComplete
     /\ EnvelopesSucceed
     /\ ProvenanceClean
  THEN IF \E p \in REQUIRED_ATTEMPT_FILES \cup {Completion} : disk[p] = Altered
       THEN BOOLEAN
       ELSE {TRUE}
  ELSE {FALSE}

(* verify_worker_envelopes looks at role, success and the error fields only. *)
verify_worker_envelopes ==
  IF \A role \in Roles : disk[<<role, "envelope.json">>] \in {"success", Altered}
  THEN IF \E role \in Roles : disk[<<role, "envelope.json">>] = Altered THEN BOOLEAN ELSE {TRUE}
  ELSE {FALSE}

(* The pair records must equal the result's, and the summary must recompute. *)
verify_pair_record_artifacts(results) ==
  \A p \in REQUIRED_PAIR_RECORD_FILES : disk[p] = results["rkv"]

(* verify_final_reference_manifest: nothing missing, nothing unlisted, every *)
(* hash unchanged, completion.json among the references.                     *)
verify_final_reference_manifest(refs) ==
  /\ disk[Final] # Absent
  /\ refs[Final] = Absent
  /\ refs[Completion] # Absent
  /\ \A p \in Paths \ {Final} : disk[p] = refs[p]
================================================================================
