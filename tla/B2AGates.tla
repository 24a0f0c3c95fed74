------------------------------- MODULE B2AGates -------------------------------
(*****************************************************************************)
(* The two gates of a B2A attempt over the result of the R-KV worker: the    *)
(* 29 conditions of b2a_contract.py and the 30 of final_contract.py, as      *)
(* b2a_execute.py derives them.  Kept are the conditions on the example and  *)
(* its pairs, each from the list or counter it is derived from; those on     *)
(* identities, placement, traces and limits depend on nothing ExampleRun     *)
(* follows and are left open by the attempt's own model.                     *)
(*****************************************************************************)
EXTENDS ExampleRun

Required == Events * RealPairs

(* How many events selected_event_ids and selected_event_evidence hold: only *)
(* the results of the pair loop, finished or aborted, are given any.         *)
SelectedEvents == IF outcome = "valid" THEN Events ELSE 0

PlanSelected == SelectedEvents = Events

(* tuple(sorted(identity.items())): how many identities the entries of a     *)
(* list at these places have, without repetition.                            *)
Identities(s, places) == Cardinality({s[j] : j \in places})

AttemptedReal == RealIn(attempted)
CompletedReal == RealIn(completed)
NoOpsIn(s) == Len(s) - Cardinality(RealIn(s))

(* Mutant of ProjectionAvailable: the no-op pair's duration is one of them.   *)
ProjectionAvailable_NoOpToo == Cardinality(journaled) = Required

(* One duration per real pair whose measurement ended, dropped pairs         *)
(* included; without all of them there is no projection.                     *)
ProjectionAvailable == Cardinality({i \in journaled : Real(i)}) = Required

EveryEventHasItsPairs ==
  PlanSelected /\ \A e \in 1..Events :
    Identities(completed, {j \in CompletedReal : EventOf(completed[j]) = e}) = RealPairs

(* b2a_contract.py, MANDATORY_GATE_CONDITIONS.                               *)
MandatoryConditions ==
  [token_identical_replay |-> Result.tokenIdentical,
   no_op_numerical_parity |-> Result.noOpParity,
   semantic_swap_parity |-> checks.attempted = Required /\ checks.passed = Required,
   selected_event_count_exact |-> PlanSelected,
   real_pair_count_exact |->
     Cardinality(AttemptedReal) = Required /\ Cardinality(CompletedReal) = Required,
   no_op_count_exact |-> NoOpsIn(attempted) = 1 /\ NoOpsIn(completed) = 1,
   all_required_pair_evaluations_completed |-> Result.allPairsCompleted,
   unique_real_pair_count_exact |-> Identities(completed, CompletedReal) = Required,
   events_with_four_unique_pairs_exact |-> EveryEventHasItsPairs,
   no_duplicate_pair_identity |->
     Len(attempted) = Identities(attempted, DOMAIN attempted) /\ NoOpsIn(attempted) = 1,
   runtime_within_limit |-> ProjectionAvailable]

(* The phases of 12 real pairs and of one no-op pair, each once.             *)
PairPhasesPresent == journaled = 1..PlanLength

(* final_contract.py, FINAL_MANDATORY_GATE_CONDITIONS.                       *)
FinalConditions ==
  [complete_token_trace_match |-> Result.tokenIdentical,
   selected_event_ids_exact |-> PlanSelected,
   unique_real_pair_count_exact |->
     Cardinality(AttemptedReal) = Required /\ Identities(attempted, AttemptedReal) = Required,
   events_with_four_unique_pairs_exact |-> EveryEventHasItsPairs,
   no_duplicate_pair_identity |-> Len(attempted) = Identities(attempted, DOMAIN attempted),
   authorized_no_op_identity_exact |-> NoOpsIn(attempted) = 1 /\ NoOpsIn(completed) = 1,
   positive_semantic_swap_parity |-> checks.attempted = Required /\ checks.passed = Required,
   no_op_exact_parity |-> Result.noOpParity,
   all_required_timings_present |-> PairPhasesPresent,
   all_required_memory_phases_present |-> PairPhasesPresent,
   runtime_within_limit |-> ProjectionAvailable]

(* evaluate_b2a_gate, evaluate_final_gates.                                  *)
FailedConditions(conditions) == {c \in DOMAIN conditions : ~conditions[c]}

Passes(conditions) == FailedConditions(conditions) = {}

-----------------------------------------------------------------------------
WholePlanCompleted ==
  /\ outcome = "valid"
  /\ ~aborted
  /\ completed = [i \in 1..PlanLength |-> i]
  /\ details = << >>
  /\ pairs = [entered |-> PlanLength, passed |-> PlanLength, dropped |-> 0]

(* Whatever was raised, refused or dropped on the way to a result: neither   *)
(* gate passes for anything but the whole plan, completed in its order with  *)
(* nothing dropped, and neither holds a whole plan back.  The two count      *)
(* attempts, completions, checks and durations in different places, and must *)
(* come to one answer.                                                       *)
GatesPassTheWholePlanOnly ==
  at = "returned" /\ role = "rkv" =>
    /\ Passes(MandatoryConditions) <=> WholePlanCompleted
    /\ Passes(FinalConditions) <=> WholePlanCompleted
===============================================================================
