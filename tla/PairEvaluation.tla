---------------------------- MODULE PairEvaluation ----------------------------
(*****************************************************************************)
(* The evaluation of one candidate/donor pair                                *)
(* (src/src/kvcot/discovery/pipeline.py, build_swap_pair_record), as the     *)
(* R-KV worker runs it: every phase under the worker's timer, which turns    *)
(* whatever a phase raises into TimedOperationError.  A baseline clone of    *)
(* the pristine snapshot is scored and released, then a second clone is made, *)
(* swapped, scored and released, and the record is built.  Pairs are         *)
(* numbered in the order of the plan; the numbers a branch computes are left *)
(* open, only what the code decides from them is kept.                       *)
(*****************************************************************************)
EXTENDS StageTracker

VARIABLES k,        \* the pair being evaluated, or evaluated last; 0 before the first
          step,     \* where its evaluation is
          live,     \* the branch clones a local variable still holds
          swap,     \* what became of the call of apply_semantic_within_head_swap
          verdict   \* the PairBuildResult: "record", the failure stage, or "none" so far

pairVars == <<k, step, live, swap, verdict>>

BuildSteps ==
  {"lookup", "baseline_clone", "baseline", "baseline_release", "swapped_clone",
   "semantic_mutation", "parity", "swapped", "swapped_release", "record_construction"}

(* "guard": before the pre-branch guard.  "built" and "raised": the builder  *)
(* returned a PairBuildResult, or an exception left it.                      *)
Steps == {"none", "guard", "built", "raised"} \cup BuildSteps

BuildFailures ==
  {"invalid_candidate_donor_pool", "branch_evaluation_failure", "schema_validation_failure"}

PairTypeOK ==
  /\ step \in Steps
  /\ live \subseteq {"baseline", "swapped"}
  /\ swap \in {"uncalled", "called", "refused", "passed", "failed"}
  /\ verdict \in {"none", "record"} \cup BuildFailures

PairInit ==
  /\ k = 0
  /\ step = "none"
  /\ live = {}
  /\ swap = "uncalled"
  /\ verdict = "none"

Phase(name) == <<name, k>>

(* The exception leaves build_swap_pair_record.                              *)
Escapes ==
  /\ step' = "raised"
  /\ UNCHANGED verdict

Proceeds(next) ==
  /\ step' = next
  /\ UNCHANGED verdict

Returns(v) ==
  /\ step' = "built"
  /\ verdict' = v

(* Too few tokens after the event, or a position that is not in the pool:    *)
(* returned as data before anything is cloned.                               *)
Lookup ==
  /\ step = "lookup"
  /\ Breaks(Phase("pair"))
  /\ \/ Proceeds("baseline_clone")
     \/ \E v \in {"invalid_candidate_donor_pool", "branch_evaluation_failure"} : Returns(v)
     \/ Escapes
  /\ UNCHANGED <<k, live, swap>>

(* Outside every try: what it raises leaves the builder.                     *)
Clone(name, branch) ==
  /\ step = name
  /\ \/ /\ Completes(Phase(name))
        /\ live' = live \cup {branch}
        /\ Proceeds(IF branch = "baseline" THEN "baseline" ELSE "semantic_mutation")
     \/ /\ Breaks(Phase(name))
        /\ UNCHANGED live
        /\ Escapes
  /\ UNCHANGED <<k, swap>>

(* The branch restores its clone and scores the horizon.  Whatever this      *)
(* raises, out of memory included, becomes a branch_evaluation_failure; the  *)
(* release follows in both cases.                                            *)
Evaluate(branch, release) ==
  /\ step = branch
  /\ step' = release
  /\ \/ /\ CompletesAround(Phase(branch), Phase("restore"))
        /\ UNCHANGED verdict
     \/ /\ BreaksAround(Phase(branch), Phase("restore"))
        /\ verdict' = "branch_evaluation_failure"
  /\ UNCHANGED <<k, live, swap>>

(* Mutant: the release leaves the clone in its holder.                       *)
AfterRelease_Kept(branch) == live

AfterRelease(branch) == live \ {branch}

(* The finally clause: the clone is dropped whether or not it was scored.    *)
(* An exception of the release itself replaces the pending result.           *)
Release(name, branch) ==
  /\ step = name
  /\ \/ /\ Completes(Phase(name))
        /\ live' = AfterRelease(branch)
        /\ IF verdict # "none"
             THEN Returns(verdict)
             ELSE Proceeds(IF branch = "baseline" THEN "swapped_clone" ELSE "record_construction")
     \/ /\ Breaks(Phase(name))
        /\ live' \in {live, AfterRelease(branch)}
        /\ Escapes
  /\ UNCHANGED <<k, swap>>

(* The except clause names SwapIndexError and SwapAliasingError, but the     *)
(* timer has wrapped a refusal by the time it gets there, so a refused swap  *)
(* leaves the builder like any other exception.                              *)
Mutate ==
  /\ step = "semantic_mutation"
  /\ \/ /\ Completes(Phase("semantic_mutation"))
        /\ swap' = "called"
        /\ Proceeds("parity")
     \/ /\ Breaks(Phase("semantic_mutation"))
        /\ swap' \in {"called", "refused"}
        /\ Escapes
  /\ UNCHANGED <<k, live>>

(* Provenance and kept-index parity and the mutation report, which no stage  *)
(* covers.                                                                   *)
CheckParity ==
  /\ step = "parity"
  /\ Untracked
  /\ \/ /\ swap' \in {"passed", "failed"}
        /\ Proceeds("swapped")
     \/ /\ UNCHANGED swap
        /\ Escapes
  /\ UNCHANGED <<k, live>>

(* A record the schema refuses is returned as data; the gain and the         *)
(* uncertainties are computed before that, under no stage.                   *)
Construct ==
  /\ step = "record_construction"
  /\ \/ /\ Untracked
        /\ Escapes
     \/ /\ Completes(Phase("record_construction"))
        /\ Returns("record")
     \/ /\ Breaks(Phase("record_construction"))
        /\ Returns("schema_validation_failure")
  /\ UNCHANGED <<k, live, swap>>

BuildPair ==
  \/ Lookup
  \/ Clone("baseline_clone", "baseline")
  \/ Evaluate("baseline", "baseline_release")
  \/ Release("baseline_release", "baseline")
  \/ Clone("swapped_clone", "swapped")
  \/ Mutate
  \/ CheckParity
  \/ Evaluate("swapped", "swapped_release")
  \/ Release("swapped_release", "swapped")
  \/ Construct
=============================================================================
