----------------------------- MODULE WorkerProcess -----------------------------
(*****************************************************************************)
(* One worker subprocess (src/src/kvcot/discovery/b2a_worker_entry.py): it   *)
(* loads config and manifest, runs the FullKV or the R-KV body, writes       *)
(* result.json and then the envelope that vouches for it, appending to its   *)
(* progress journal on the way.  It can fail at every one of these steps and *)
(* can be killed between any two.  The coordinator runs at most one worker   *)
(* at a time; role says which.                                               *)
(*****************************************************************************)
EXTENDS AttemptDirectory

VARIABLES role,   \* the role of the current worker
          wpc,    \* where the worker process is
          wrc,    \* its return code once it has exited
          wres    \* the result its body has returned

workerVars == <<wpc, wrc, wres>>

RunningSteps ==
  {"startup", "body", "result", "mark", "envelope", "mark_envelope", "fail_mark", "fail_envelope"}

Killed == -9

WorkerTypeOK ==
  /\ role \in Roles
  /\ wpc \in RunningSteps \cup {"idle", "exited"}
  /\ wrc \in {0, 1, Killed}
  /\ wres \in {Absent, "good", "weak"}

WorkerInit ==
  /\ role = "fullkv"
  /\ wpc = "idle"
  /\ wrc = 0
  /\ wres = Absent

WorkerRunning == wpc \in RunningSteps

ResultFile == <<role, "result.json">>
EnvelopeFile == <<role, "result.json.envelope.json">>

WorkerExits(rc) ==
  /\ wpc' = "exited"
  /\ wrc' = rc
  /\ UNCHANGED wres

WorkerGoesTo(step) ==
  /\ wpc' = step
  /\ UNCHANGED <<wrc, wres>>

(* "startup", "config validation", "manifest validation".                    *)
WorkerStarts ==
  /\ wpc = "startup"
  /\ Appends(role, "first")
  /\ WorkerGoesTo("body")

(* run_fullkv_worker / run_rkv_worker return a schema-valid result; it is    *)
(* "good" when every gate that reads it holds and "weak" otherwise.          *)
WorkerBodyReturns(r) ==
  /\ wpc = "body"
  /\ Appends(role, "stage")
  /\ wpc' = "result"
  /\ wres' = r
  /\ UNCHANGED wrc

(* Anything raised under the entry point's try: a bad config, a body that    *)
(* fails, or a journal append that does.                                     *)
WorkerBodyRaises ==
  /\ wpc \in {"startup", "body"}
  /\ \/ AppendFails(role, IF wpc = "startup" THEN "first" ELSE "stage")
     \/ UNCHANGED dirVars
  /\ WorkerGoesTo("fail_mark")

(* The result is written outside every try: an error ends the process with   *)
(* no envelope, and the file may already be in place.                        *)
WorkerWritesResult ==
  /\ wpc = "result"
  /\ \/ Writes(ResultFile, wres) /\ WorkerGoesTo("mark")
     \/ WriteFails(ResultFile, wres) /\ WorkerExits(1)

WorkerMarksResult ==
  /\ wpc = "mark"
  /\ \/ Appends(role, "stage") /\ WorkerGoesTo("envelope")
     \/ AppendFails(role, "stage") /\ WorkerExits(1)

WorkerWritesEnvelope ==
  /\ wpc = "envelope"
  /\ \/ Writes(EnvelopeFile, "success") /\ WorkerGoesTo("mark_envelope")
     \/ WriteFails(EnvelopeFile, "success") /\ WorkerExits(1)

WorkerMarksEnvelope ==
  /\ wpc = "mark_envelope"
  /\ \/ Appends(role, "last") /\ WorkerExits(0)
     \/ AppendFails(role, "last") /\ WorkerExits(1)

(* progress("failed") is not guarded: if it raises no envelope is written.   *)
WorkerMarksFailure ==
  /\ wpc = "fail_mark"
  /\ \/ Appends(role, "failed") /\ WorkerGoesTo("fail_envelope")
     \/ AppendFails(role, "failed") /\ WorkerExits(1)

(* The failure envelope is best effort: its error is swallowed.              *)
WorkerWritesFailureEnvelope ==
  /\ wpc = "fail_envelope"
  /\ Writes(EnvelopeFile, "failure") \/ WriteFails(EnvelopeFile, "failure")
  /\ WorkerExits(1)

(* The kernel kills the worker (out of memory, an operator's signal).        *)
WorkerKilled ==
  /\ WorkerRunning
  /\ WorkerExits(Killed)
  /\ UNCHANGED dirVars

WorkerStep ==
  \/ WorkerStarts
  \/ \E r \in {"good", "weak"} : WorkerBodyReturns(r)
  \/ WorkerBodyRaises
  \/ WorkerWritesResult
  \/ WorkerMarksResult
  \/ WorkerWritesEnvelope
  \/ WorkerMarksEnvelope
  \/ WorkerMarksFailure
  \/ WorkerWritesFailureEnvelope
  \/ WorkerKilled
================================================================================
