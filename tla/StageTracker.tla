----------------------------- MODULE StageTracker -----------------------------
(*****************************************************************************)
(* What a worker body knows of its own progress                              *)
(* (src/src/kvcot/discovery/worker_partial_evidence.py, WorkerExecutionState, *)
(* driven by the timer of execution_measurement.py as b2a_workers.py wraps   *)
(* it): the stage entered last and the stage completed last.  There is no    *)
(* stack: when an operation that was entered inside another one ends, the    *)
(* stage entered last is still the inner one.  A stage is <<name, number>>:  *)
(* the pair it is named after, or the event, 0 outside the pair loop.        *)
(*****************************************************************************)
EXTENDS Naturals, Sequences

VARIABLES current,  \* execution_state.current_stage
          lastDone  \* execution_state.last_completed_stage

trackVars == <<current, lastDone>>

Stage(name) == <<name, 0>>

TrackInit ==
  /\ current = Stage("worker startup")
  /\ lastDone = Stage("none")

(* An operation run under a stage: it returns, or it raises.                 *)
Completes(stage) ==
  /\ current' = stage
  /\ lastDone' = stage

Breaks(stage) ==
  /\ current' = stage
  /\ UNCHANGED lastDone

(* An operation that runs an inner operation under a stage of its own.  It   *)
(* can raise before, inside or after the inner one.                          *)
CompletesAround(outer, inner) ==
  /\ current' = inner
  /\ lastDone' = outer

BreaksAround(outer, inner) ==
  \/ Breaks(outer)
  \/ Breaks(inner)
  \/ Completes(inner)

(* An operation that no stage covers, whatever becomes of it.                *)
Untracked == UNCHANGED trackVars
=============================================================================
