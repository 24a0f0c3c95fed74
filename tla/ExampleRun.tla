------------------------------ MODULE ExampleRun ------------------------------
(*****************************************************************************)
(* The body of a B2A worker (src/src/kvcot/discovery/b2a_workers.py,         *)
(* run_fullkv_worker and run_rkv_worker) with the example it runs            *)
(* (orchestrator.py, run_example): the staged preamble up to the loaded      *)
(* model, then one natural generation (FullKV) or Pass 1, the plan, Pass 2,  *)
(* the conversion of the captures and the loop over the planned pairs        *)
(* (R-KV), and what survives of it: the result, or the evidence a failure    *)
(* report carries.  Any step may raise where its code can.                   *)
(*****************************************************************************)
EXTENDS PairEvaluation, FiniteSets, SequencesExt

CONSTANTS Events,    \* how many compaction events the plan selects: 3 in the code
          RealPairs  \* how many real pairs it takes from each: 4 in the code

ASSUME PlanAssumption == Events \in Nat \ {0} /\ RealPairs \in Nat \ {0}

VARIABLES role,      \* whose body this is
          at,        \* where the body is
          stages,    \* how many entries of the preamble are behind it
          outcome,   \* the ExampleResult, by its invalid_stage: "unbound" until run_example returns
          aborted,   \* its aborted flag
          example,   \* the example's AttritionCounters
          pairs,     \* the pairs' AttritionCounters
          guards,    \* pre_branch_memory_evidence: per pair, whether it was admitted
          attempted, \* attempted_pair_identities
          completed, \* completed_pair_identities, and the pair_records beside them
          details,   \* pair_failure_details
          checks,    \* the semantic swap checks of real pairs
          journaled  \* the pairs whose evaluation the progress journal reports completed

bodyVars == <<role, at, stages, outcome, aborted, example>>
tallyVars == <<pairs, guards, attempted, completed, details, checks, journaled>>
vars == <<trackVars, pairVars, bodyVars, tallyVars>>

-----------------------------------------------------------------------------
(* The plan, one number per pair: the first event's real pairs, its no-op    *)
(* pair (NoOpMode.B2A_SINGLE_CALIBRATION: the first event only), then the    *)
(* real pairs of the other events.                                           *)
PlanLength == Events * RealPairs + 1

NoOp == RealPairs + 1

Real(i) == i # NoOp

EventOf(i) == IF i <= NoOp THEN 1 ELSE 1 + (i - 2) \div RealPairs

(* The guard's stage is named by the kind of the pair and its event only.    *)
Admission(i) ==
  <<IF Real(i) THEN "real pre-branch admission" ELSE "no-op pre-branch admission", EventOf(i)>>

(* The entries of a list of pairs that are of real ones, by their places.    *)
RealIn(s) == {j \in DOMAIN s : Real(s[j])}

(* What run_example and the workers do with the parts of an example.         *)
Counters == [entered : Nat, passed : Nat, dropped : Nat]

Entered(c) == [c EXCEPT !.entered = @ + 1]
Passed(c) == [c EXCEPT !.passed = @ + 1]
Dropped(c) == [c EXCEPT !.dropped = @ + 1]

(* The preamble, in order.  A "staged" entry runs under a stage of its own,  *)
(* a "measured" one also appends to the journal after it completed, and a    *)
(* "bare" one (device and disk checks, the journal's model-load start, the   *)
(* vocabulary check) can raise without having entered a stage.               *)
Staged(name) == <<name, "staged">>
Measured(name) == <<name, "measured">>
Bare(name) == <<name, "bare">>

LoadEntries ==
  <<Staged("cuda availability check"), Bare("cuda refusal"), Measured("before_model_load"),
    Staged("worker_startup"), Bare("device check"), Staged("snapshot_tokenizer_resolution"),
    Bare("disk check"), Measured("tokenizer_load"), Bare("model-load start"), Measured("model_load")>>

CheckEntries ==
  <<Staged("runtime identity derivation"), Measured("post_load_validation"),
    Staged("model architecture extraction"), Measured("post_load_baseline")>>

FullKVEntries ==
  LoadEntries \o CheckEntries
    \o <<Staged("cache and state construction"), Staged("answer verifier construction")>>

RKVEntries ==
  LoadEntries \o <<Staged("runtime R-KV config verification")>> \o CheckEntries
    \o <<Staged("answer verifier construction"), Bare("vocabulary check"),
         Staged("cache and state construction")>>

Preamble == IF role = "fullkv" THEN FullKVEntries ELSE RKVEntries

(* The invalid_stage of an ExampleResult that is not valid, without those    *)
(* of the two passes raising.  Pass 2's other mismatches end alike.          *)
Attrition ==
  {"answer_incorrect_or_unverifiable", "cap_hit", "fewer_than_three_eligible_events",
   "invalid_candidate_donor_pool", "pass2_token_mismatch", "pass2_other_mismatch"}

Outcomes ==
  {"unbound", "valid", "natural_run_invalid", "pass2_execution_exception"} \cup Attrition

Ended == {"refused", "failed", "returned"}

TypeOK ==
  /\ PairTypeOK
  /\ k \in 0..PlanLength
  /\ role \in {"fullkv", "rkv"}
  /\ at \in {"preamble", "natural", "pass1", "plan", "pass2", "minimize", "compact", "loop",
             "aborted", "compare", "derive", "construct"} \cup Ended
  /\ stages \in Nat
  /\ outcome \in Outcomes
  /\ aborted \in BOOLEAN
  /\ example \in Counters
  /\ pairs \in Counters
  /\ guards \in Seq(BOOLEAN)
  /\ attempted \in Seq(1..PlanLength)
  /\ completed \in Seq(1..PlanLength)
  /\ details \in Seq(1..PlanLength)
  /\ checks \in [attempted : Nat, passed : Nat]
  /\ journaled \subseteq 1..PlanLength

NoCount == [entered |-> 0, passed |-> 0, dropped |-> 0]

Init ==
  /\ TrackInit
  /\ PairInit
  /\ role \in {"fullkv", "rkv"}
  /\ at = "preamble"
  /\ stages = 0
  /\ outcome = "unbound"
  /\ aborted = FALSE
  /\ example = NoCount
  /\ pairs = NoCount
  /\ guards = << >>
  /\ attempted = << >>
  /\ completed = << >>
  /\ details = << >>
  /\ checks = [attempted |-> 0, passed |-> 0]
  /\ journaled = {}

-----------------------------------------------------------------------------
(* measured(): the operation under its stage, then the journal.  It raises   *)
(* when either does, the second time with its stage completed.               *)
MeasuredRaises(stage) == Breaks(stage) \/ Completes(stage)

MeasuredRaisesAround(stage, inner) ==
  BreaksAround(stage, inner) \/ CompletesAround(stage, inner)

GoesTo(next) ==
  /\ at' = next
  /\ UNCHANGED <<role, stages, outcome, aborted, example>>

(* Without CUDA the body refuses with a plain WorkerFailedError: nothing has *)
(* started and there is nothing to report.                                   *)
PreambleStep ==
  /\ at = "preamble"
  /\ LET entry == Preamble[stages + 1]
         stage == Stage(entry[1])
     IN \/ /\ IF entry[2] = "bare" THEN Untracked ELSE Completes(stage)
           /\ stages' = stages + 1
           /\ at' = IF stages + 1 < Len(Preamble) THEN "preamble"
                    ELSE IF role = "fullkv" THEN "natural" ELSE "pass1"
        \/ /\ \/ entry[2] = "bare" /\ Untracked
              \/ entry[2] = "staged" /\ Breaks(stage)
              \/ entry[2] = "measured" /\ MeasuredRaises(stage)
           /\ at' = IF entry[1] = "cuda refusal" THEN "refused" ELSE "failed"
           /\ UNCHANGED stages
  /\ UNCHANGED <<role, outcome, aborted, example, pairVars, tallyVars>>

(* The FullKV worker's one natural run.                                      *)
NaturalRun ==
  /\ at = "natural"
  /\ LET stage == Stage("fullkv_complete_natural_generation")
         inner == Stage("model call")
     IN \/ CompletesAround(stage, inner) /\ GoesTo("construct")
        \/ MeasuredRaisesAround(stage, inner) /\ GoesTo("failed")
  /\ UNCHANGED <<pairVars, tallyVars>>

-----------------------------------------------------------------------------
(* run_example returns.                                                      *)
ResultReturned(result, isAborted) ==
  /\ outcome' = result
  /\ aborted' = isAborted
  /\ at' = IF isAborted THEN "aborted" ELSE "compare"
  /\ UNCHANGED <<role, stages>>

(* Pass 1: it raises and the example is aborted, or its answer or its length *)
(* disqualify it, or it goes on to the plan.                                 *)
Pass1 ==
  /\ at = "pass1"
  /\ LET stage == Stage("rkv_complete_pass1")
         inner == Stage("model call")
     IN \/ /\ MeasuredRaisesAround(stage, inner)
           /\ example' = Dropped(Entered(example))
           /\ ResultReturned("natural_run_invalid", TRUE)
        \/ /\ CompletesAround(stage, inner)
           /\ example' = Dropped(Entered(example))
           /\ \E result \in {"answer_incorrect_or_unverifiable", "cap_hit"} :
                ResultReturned(result, FALSE)
        \/ /\ CompletesAround(stage, inner)
           /\ example' = Entered(example)
           /\ at' = "plan"
           /\ UNCHANGED <<role, stages, outcome, aborted>>
  /\ UNCHANGED <<pairVars, tallyVars>>

(* An exception here is not run_example's to catch: example_result stays     *)
(* unbound in the worker.                                                    *)
BuildPlan ==
  /\ at = "plan"
  /\ LET stage == Stage("pass1_plan_construction")
     IN \/ MeasuredRaises(stage) /\ GoesTo("failed")
        \/ Completes(stage) /\ GoesTo("pass2")
        \/ /\ Completes(stage)
           /\ example' = Dropped(example)
           /\ \E result \in {"fewer_than_three_eligible_events", "invalid_candidate_donor_pool"} :
                ResultReturned(result, FALSE)
  /\ UNCHANGED <<pairVars, tallyVars>>

Pass2 ==
  /\ at = "pass2"
  /\ LET stage == Stage("rkv_complete_pass2")
         inner == Stage("model call")
     IN \/ /\ MeasuredRaisesAround(stage, inner)
           /\ example' = Dropped(example)
           /\ ResultReturned("pass2_execution_exception", TRUE)
        \/ /\ CompletesAround(stage, inner)
           /\ example' = Dropped(example)
           /\ \E result \in {"pass2_token_mismatch", "pass2_other_mismatch"} :
                ResultReturned(result, FALSE)
        \/ /\ CompletesAround(stage, inner)
           /\ example' = Passed(example)
           /\ at' = "minimize"
           /\ UNCHANGED <<role, stages, outcome, aborted>>
  /\ UNCHANGED <<pairVars, tallyVars>>

Convert(here, name, next) ==
  /\ at = here
  /\ \/ MeasuredRaises(Stage(name)) /\ GoesTo("failed")
     \/ Completes(Stage(name)) /\ GoesTo(next)
  /\ UNCHANGED <<pairVars, tallyVars>>

-----------------------------------------------------------------------------
MorePairs == k < PlanLength

(* The pair loop.                                                            *)
StartPair ==
  /\ at = "loop"
  /\ step = "none"
  /\ MorePairs
  /\ k' = k + 1
  /\ step' = "guard"
  /\ swap' = "uncalled"
  /\ verdict' = "none"
  /\ attempted' = Append(attempted, k + 1)
  /\ pairs' = Entered(pairs)
  /\ UNCHANGED <<live, trackVars, bodyVars, guards, completed, details, checks, journaled>>

DropPair ==
  /\ pairs' = Dropped(pairs)
  /\ details' = Append(details, k)
  /\ UNCHANGED completed

KeepPair ==
  /\ pairs' = Passed(pairs)
  /\ completed' = Append(completed, k)
  /\ UNCHANGED details

(* The pre-branch memory guard: it admits the pair, or the pair is dropped   *)
(* without a branch, or it raises.                                           *)
Admit ==
  /\ step = "guard"
  /\ Completes(Admission(k))
  /\ guards' = Append(guards, TRUE)
  /\ step' = "lookup"
  /\ UNCHANGED <<k, live, swap, verdict, bodyVars,
                 pairs, attempted, completed, details, checks, journaled>>

(* Mutant: a rejected pair leaves no trace in the attrition.                 *)
Reject_Uncounted ==
  /\ step = "guard"
  /\ Completes(Admission(k))
  /\ guards' = Append(guards, FALSE)
  /\ step' = "none"
  /\ UNCHANGED <<k, live, swap, verdict, bodyVars,
                 pairs, attempted, completed, details, checks, journaled>>

Reject ==
  /\ step = "guard"
  /\ Completes(Admission(k))
  /\ guards' = Append(guards, FALSE)
  /\ DropPair
  /\ step' = "none"
  /\ UNCHANGED <<k, live, swap, verdict, bodyVars, attempted, checks, journaled>>

(* Mutant: the guard runs under no stage of its own.                         *)
GuardRaises_Untracked ==
  /\ step = "guard"
  /\ Untracked
  /\ Escapes
  /\ UNCHANGED <<k, live, swap, bodyVars, tallyVars>>

GuardRaises ==
  /\ step = "guard"
  /\ Breaks(Admission(k))
  /\ Escapes
  /\ UNCHANGED <<k, live, swap, bodyVars, tallyVars>>

Evaluation ==
  /\ BuildPair
  /\ UNCHANGED <<bodyVars, tallyVars>>

(* The semantic swap checks count real pairs only, and only those whose      *)
(* check has a result.                                                       *)
CountCheck ==
  IF Real(k) /\ swap \in {"passed", "failed"}
  THEN [attempted |-> checks.attempted + 1,
        passed |-> checks.passed + (IF swap = "passed" THEN 1 ELSE 0)]
  ELSE checks

(* The pair's measurement ends and is journaled, and the loop judges what    *)
(* the builder returned: no record, a record whose parity failed, a record   *)
(* without any uncertainty, or a completed pair.                             *)
JudgePair ==
  /\ step = "built"
  /\ lastDone' = Phase("pair")
  /\ UNCHANGED current
  /\ journaled' = journaled \cup {k}
  /\ checks' = CountCheck
  /\ \/ verdict = "record" /\ swap = "passed" /\ KeepPair
     \/ DropPair
  /\ step' = "none"
  /\ UNCHANGED <<k, live, swap, verdict, bodyVars, guards, attempted>>

(* The measurement or the journal raises after the builder has returned.     *)
MeasureRaises ==
  /\ step = "built"
  /\ lastDone' \in {lastDone, Phase("pair")}
  /\ UNCHANGED current
  /\ Escapes
  /\ UNCHANGED <<k, live, swap, bodyVars, tallyVars>>

(* Mutant: the exception of a pair propagates out of run_example.            *)
AbortLoop_Propagates ==
  /\ step = "raised"
  /\ DropPair
  /\ step' = "none"
  /\ live' = {}
  /\ GoesTo("failed")
  /\ UNCHANGED <<k, swap, verdict, trackVars, guards, attempted, checks, journaled>>

(* run_example catches whatever a pair raised, counts the pair as dropped    *)
(* and returns all it has, flagged aborted.                                  *)
AbortLoop ==
  /\ step = "raised"
  /\ DropPair
  /\ step' = "none"
  /\ live' = {}
  /\ ResultReturned("valid", TRUE)
  /\ UNCHANGED <<k, swap, verdict, trackVars, example, guards, attempted, checks, journaled>>

EndLoop ==
  /\ at = "loop"
  /\ step = "none"
  /\ ~MorePairs
  /\ ResultReturned("valid", FALSE)
  /\ UNCHANGED <<trackVars, pairVars, example, tallyVars>>

-----------------------------------------------------------------------------
LoopAbort == Stage("pair-evaluation loop abort")

(* The worker raises for an aborted example, under a stage of its own only   *)
(* if no other is open.                                                      *)
RaiseAbort ==
  /\ at = "aborted"
  /\ IF current = lastDone THEN Breaks(LoopAbort) ELSE Untracked
  /\ GoesTo("failed")
  /\ UNCHANGED <<pairVars, tallyVars>>

Derive(here, name, next) ==
  /\ at = here
  /\ \/ Breaks(Stage(name)) /\ GoesTo("failed")
     \/ Completes(Stage(name)) /\ GoesTo(next)
  /\ UNCHANGED <<pairVars, tallyVars>>

ConstructResult ==
  /\ at = "construct"
  /\ Breaks(Stage("result construction"))
  /\ GoesTo("failed") \/ GoesTo("returned")
  /\ UNCHANGED <<pairVars, tallyVars>>

(* The counts and flags of the R-KV result, each from its own source.        *)
HasCounts(s) ==
  /\ Cardinality(RealIn(s)) = Events * RealPairs
  /\ Len(s) = Cardinality(RealIn(s)) + 1

AllPairsCompleted == HasCounts(attempted) /\ HasCounts(completed)

Result ==
  [tokenIdentical |-> outcome \in {"valid", "pass2_other_mismatch"},
   noOpParity |-> NoOp \in ToSet(completed),
   allPairsCompleted |-> AllPairsCompleted]

(* What capture_partial_evidence finds in the locals of the worker: nothing  *)
(* of the pairs while example_result is unbound.                             *)
Evidence ==
  LET kept(s) == IF outcome = "unbound" THEN << >> ELSE s
  IN [failingStage |-> current,
      lastCompletedStage |-> lastDone,
      attempted |-> kept(attempted),
      completed |-> kept(completed),
      failed |-> ToSet(kept(attempted)) \ ToSet(kept(completed)),
      details |-> kept(details),
      exampleAborted |-> aborted]

-----------------------------------------------------------------------------
Finished == at \in Ended /\ UNCHANGED vars

RunSteps == PreambleStep \/ NaturalRun \/ Pass1 \/ BuildPlan \/ Pass2

Conversions ==
  \/ Convert("minimize", "minimized_target_evidence_construction", "compact")
  \/ Convert("compact", "compact_target_conversion", "loop")

LoopSteps ==
  \/ StartPair
  \/ Admit
  \/ Reject
  \/ GuardRaises
  \/ Evaluation
  \/ JudgePair
  \/ MeasureRaises
  \/ AbortLoop
  \/ EndLoop

EndSteps ==
  \/ RaiseAbort
  \/ Derive("compare", "call_trace_comparison", "derive")
  \/ Derive("derive", "post-run evidence derivation", "construct")
  \/ ConstructResult

Next == RunSteps \/ Conversions \/ LoopSteps \/ EndSteps \/ Finished

Spec == Init /\ [][Next]_vars

-----------------------------------------------------------------------------
InFlight == IF step = "none" THEN {} ELSE {k}

(* Every pair the loop has entered is attempted once and, unless it is being *)
(* evaluated, either completed once or reported failed once, and the         *)
(* attrition counters agree with the lists: no pair is lost, counted twice   *)
(* or both, whichever way its evaluation, its guard, its measurement or its  *)
(* journal event ended.                                                      *)
PairsAreAccounted ==
  /\ ToSet(attempted) = 1..k
  /\ Len(attempted) = k
  /\ ToSet(completed) \cup ToSet(details) = 1..k \ InFlight
  /\ Len(completed) + Len(details) = Cardinality(1..k \ InFlight)
  /\ pairs = [entered |-> k, passed |-> Len(completed), dropped |-> Len(details)]

(* Whatever run_example has returned, its example left the funnel exactly    *)
(* once; an aborted pair loop leaves the example passed.  And a worker ends  *)
(* with an example that entered and did not leave in one case only: the plan *)
(* could not be constructed (orchestrator.py, 273, where nothing is caught), *)
(* and then its failure report names that stage and no other.                *)
ExampleIsAccounted ==
  /\ outcome # "unbound" =>
       /\ example.entered = 1
       /\ example.passed + example.dropped = 1
       /\ example.passed = 1 <=> outcome = "valid"
  /\ at \in Ended /\ example.entered # example.passed + example.dropped =>
       /\ at = "failed" /\ outcome = "unbound"
       /\ Evidence.failingStage = Stage("pass1_plan_construction")

(* Nothing that entered is unaccounted for, neither a pair nor the example.  *)
EveryEntryIsAccounted == PairsAreAccounted /\ ExampleIsAccounted

(* A failure report holds every pair that was completed and every pair that  *)
(* was attempted, and names as failed exactly the attempted ones that were   *)
(* not completed, each of them with a detail.                                *)
EvidenceKeepsPairs ==
  at = "failed" /\ attempted # << >> =>
    /\ Evidence.completed = completed
    /\ Evidence.attempted = attempted
    /\ Evidence.failed = ToSet(Evidence.details)

(* The stages a pair's evaluation can leave behind as the current one.       *)
PhaseNames == BuildSteps \cup {"pair", "restore"}

StagesOf(i) == {Admission(i)} \cup {<<name, i>> : name \in PhaseNames}

(* The failure report of an aborted example names a stage of what raised: of *)
(* the pass that did, or of the pair it reports as attempted last and not of *)
(* an earlier one, however stale the record of stages was by then.  Only a   *)
(* report that could not tell says so (b2a_workers.py, 1532-1543).           *)
AbortNamesWhatRaised ==
  at = "failed" /\ aborted /\ Evidence.failingStage # LoopAbort =>
    /\ outcome = "natural_run_invalid" =>
         Evidence.failingStage \in {Stage("rkv_complete_pass1"), Stage("model call")}
    /\ outcome = "pass2_execution_exception" =>
         Evidence.failingStage \in {Stage("rkv_complete_pass2"), Stage("model call")}
    /\ outcome = "valid" => Evidence.failingStage \in StagesOf(Last(Evidence.attempted))

(* The two branches of a pair never hold a clone at the same time, no clone  *)
(* outlives its pair, and none is made for a pair the guard did not admit.   *)
ClonesAreBounded ==
  /\ Cardinality(live) <= 1
  /\ live # {} => step # "none" /\ guards # << >> /\ Last(guards)
=============================================================================
