----------------------------- MODULE TwoPassCapture -----------------------------
(*****************************************************************************)
(* What run_example (src/src/kvcot/discovery/orchestrator.py) does with the  *)
(* model of RkvModel: a natural run (pass1.py), a plan made from what it     *)
(* observed, a replay that captures the planned compactions (pass2.py,       *)
(* capture.py), the conversion of a capture (compact_target.py), and the     *)
(* branches of each pair (pipeline.py, branch_eval.py), each restored from   *)
(* the snapshot taken in the replay.  The keys a compaction scores are       *)
(* floating point on a GPU: which slots it keeps may differ every time.      *)
(*                                                                           *)
(* Of the plan's events one is followed, with one of its pairs and its no-op *)
(* pair; the others are treated alike, one after the other.  A replayed      *)
(* token is the token of its position, so the token comparison of Pass 2     *)
(* never fails here.                                                         *)
(*****************************************************************************)
EXTENDS RkvModel, FiniteSets

CONSTANTS PromptLengths,         \* the prompts' lengths
          MaxNewTokens,          \* config.generation.max_new_tokens
          MinimumFutureTokens,   \* MINIMUM_FUTURE_TOKENS_AFTER_EVENT: 49
          ScoredHorizon,         \* SCORED_HORIZON: 48
          Targets,               \* events a plan selects: 3
          Draw                   \* candidates, and donors, it draws from each: 2

ASSUME PlanAssumption ==
  /\ PromptLengths \subseteq Nat \ {0}
  /\ MaxNewTokens \in Nat \ {0}
  /\ ScoredHorizon \in Nat \ {0}
  /\ MinimumFutureTokens = ScoredHorizon + 1
  /\ Targets \in Nat \ {0}
  /\ Draw \in Nat \ {0}

VARIABLES at,      \* where run_example is
          trace,   \* NaturalRunTrace; once planned, its events are their positions only
          plan,    \* the EventPlan followed, with one candidate and one donor
          replay,  \* what Pass 2 has captured
          target,  \* the CompactBranchTarget
          branch   \* the branch being evaluated, or the one evaluated last

flowVars == <<at, trace, plan, replay, target, branch>>
vars == <<model, live, at, trace, plan, replay, target, branch>>

None == << >>

Init ==
  /\ model = FreshModel
  /\ live = EmptyState
  /\ at = "prefill1"
  /\ trace = [prompt |-> 0, total |-> 0, events |-> << >>]
  /\ plan = None
  /\ replay = [capture |-> None, snapshot |-> None]
  /\ target = None
  /\ branch = None

GoesTo(next) == at' = next

-----------------------------------------------------------------------------
(* Pass 1.  A compaction during the prefill is attributed to the last prompt *)
(* position, any other one to the position of the token that was fed.        *)
Observed(events, k) ==
  IF Fires(k)
  THEN Append(events, [position |-> live.pos + k - 1,
                       pre |-> Projected(k),
                       kept |-> model'.kept])
  ELSE events

PrefillPass1 ==
  /\ at = "prefill1"
  /\ \E prompt \in PromptLengths :
        /\ Forward(prompt)
        /\ trace' = [trace EXCEPT !.prompt = prompt, !.events = Observed(@, prompt)]
  /\ GoesTo("pass1")
  /\ UNCHANGED <<plan, replay, target, branch>>

Generated == live.pos - trace.prompt

DecodePass1 ==
  /\ at = "pass1"
  /\ Generated < MaxNewTokens
  /\ Forward(1)
  /\ trace' = [trace EXCEPT !.events = Observed(@, 1)]
  /\ UNCHANGED <<at, plan, replay, target, branch>>

(* The end token, before the cap; the answer is checked before anything is   *)
(* planned, and only a right one goes on.  A run that hit the cap is dropped.*)
StopPass1(next) ==
  /\ at = "pass1"
  /\ Generated < MaxNewTokens \/ next = "dropped"
  /\ GoesTo(next)
  /\ trace' = [trace EXCEPT !.total = live.pos]
  /\ UNCHANGED <<model, live, plan, replay, target, branch>>

-----------------------------------------------------------------------------
(* Mutant of Eligible: the event's own token counts as a future one.         *)
Eligible_CountsOwnToken(positions, prompt, total) ==
  { i \in 2..(Len(positions) - 1) :
      positions[i] >= prompt /\ total - positions[i] >= MinimumFutureTokens }

(* build_pass1_plan.  eligible_event_positions: neither the first nor the    *)
(* last event, none of the prefill, and enough tokens after it.              *)
Eligible(positions, prompt, total) ==
  { i \in 2..(Len(positions) - 1) :
      /\ positions[i] >= prompt
      /\ (total - 1) - positions[i] >= MinimumFutureTokens }

EventPositions == [i \in 1..Len(trace.events) |-> trace.events[i].position]

EligibleEvents == Eligible(EventPositions, trace.prompt, trace.total)

(* Mutant of EvictedPool: what the compaction kept is not taken out.         *)
EvictedPool_WithKept(event) == Entries(event.pre)

(* _pools_for_layer_head: what the compaction evicted, and what it kept on   *)
(* its score.                                                                *)
EvictedPool(event) == Entries(event.pre) \ Entries(event.kept)

RetainedPool(event) == { event.kept[j] : j \in 1..(Budget - Window) }

PoolsSuffice(event) ==
  Cardinality(EvictedPool(event)) >= Draw /\ Cardinality(RetainedPool(event)) >= Draw

BuildPlan ==
  /\ at = "planning"
  /\ Cardinality(EligibleEvents) >= Targets
  /\ \E i \in EligibleEvents :
        LET event == trace.events[i]
        IN /\ PoolsSuffice(event)
           /\ \E candidate \in EvictedPool(event), donor \in RetainedPool(event) :
                 plan' = [position |-> event.position, kept |-> event.kept,
                          candidate |-> candidate, donor |-> donor]
  /\ trace' = [trace EXCEPT !.events = EventPositions]
  /\ GoesTo("reset")
  /\ UNCHANGED <<model, live, replay, target, branch>>

(* fewer_than_three_eligible_events, invalid_candidate_donor_pool.           *)
PlanFails ==
  /\ at = "planning"
  /\ \/ Cardinality(EligibleEvents) < Targets
     \/ \E i \in EligibleEvents : ~PoolsSuffice(trace.events[i])
  /\ GoesTo("dropped")
  /\ UNCHANGED <<model, live, trace, plan, replay, target, branch>>

-----------------------------------------------------------------------------
(* Pass 2, from the state pass2_initial_state_factory builds.                *)
ResetForPass2 ==
  /\ at = "reset"
  /\ ResetPatchedState
  /\ GoesTo("prefill2")
  /\ UNCHANGED <<trace, plan, replay, target, branch>>

PrefillPass2 ==
  /\ at = "prefill2"
  /\ Forward(trace.prompt)
  /\ GoesTo("pass2")
  /\ UNCHANGED <<trace, plan, replay, target, branch>>

(* Mutant of Captured: the recorded positions are compared as a set.         *)
Captured_AsSet(slots, same) ==
  IF ~Attempts THEN None
  ELSE [fired |-> Fires(1),
        pre |-> Projected(1),
        contents |-> Grown(live.cache, 1),
        observed |-> model'.kept,
        parity |-> \/ ~Fires(1)
                   \/ same /\ Entries(Gathered(Projected(1), slots)) = Entries(model'.kept)]

(* The wrapped update_kv, called if attention attempts a compaction.  Below  *)
(* the budget there is nothing to check.  Otherwise the record carries the   *)
(* map and the contents from before, what the cluster recorded, and whether  *)
(* the recomputed selection is the one the cluster made ("same") and gives   *)
(* the positions it recorded, through the map.                               *)
Captured(slots, same) ==
  IF ~Attempts THEN None
  ELSE [fired |-> Fires(1),
        pre |-> Projected(1),
        contents |-> Grown(live.cache, 1),
        observed |-> model'.kept,
        parity |-> ~Fires(1) \/ (same /\ Gathered(Projected(1), slots) = model'.kept)]

AtTarget == live.pos = plan.position

(* One replayed token: an ordinary one, or the one of the planned event, with*)
(* the wrapper's capture inside the call and the snapshot after it.          *)
ReplayToken ==
  /\ at = "pass2"
  /\ live.pos < trace.total
  /\ ~AtTarget
  /\ Forward(1)
  /\ UNCHANGED <<at, trace, plan, replay, target, branch>>

ReplayTarget ==
  /\ at = "pass2"
  /\ live.pos < trace.total
  /\ AtTarget
  /\ \/ Grows(1) /\ replay' = [capture |-> Captured(None, TRUE), snapshot |-> Snapshot']
     \/ \E slots \in Survivors(Len(live.cache) + 1), same \in BOOLEAN :
           /\ Compacts(1, slots)
           /\ replay' = [capture |-> Captured(slots, same), snapshot |-> Snapshot']
  /\ UNCHANGED <<at, trace, plan, target, branch>>

ReplayEnds == at = "pass2" /\ live.pos = trace.total

(* The checks run_pass2_capture ends with.                                   *)
ReplayAgrees ==
  /\ replay.capture # None
  /\ replay.capture.fired
  /\ replay.capture.parity
  /\ replay.capture.observed = plan.kept
  /\ replay.snapshot # None

AcceptReplay ==
  /\ ReplayEnds
  /\ ReplayAgrees
  /\ GoesTo("compact")
  /\ UNCHANGED <<model, live, trace, plan, replay, target, branch>>

RejectReplay ==
  /\ ReplayEnds
  /\ ~ReplayAgrees
  /\ GoesTo("dropped")
  /\ UNCHANGED <<model, live, trace, plan, replay, target, branch>>

-----------------------------------------------------------------------------
(* build_compact_branch_target: the candidate's and the donor's slots before *)
(* the event, outside the window, with their contents, and the donor's slot  *)
(* after it.  A position that is not there raises.                           *)
SlotsOf(label, map, n) == { j \in 1..n : map[j] = label }

SlotBefore(label) ==
  SlotsOf(label, replay.capture.pre, Len(replay.capture.pre) - Window)

(* Mutant of SlotAfter: the donor is looked up in the map from before.       *)
SlotAfter_Before(label) == SlotsOf(label, replay.capture.pre, Len(replay.capture.pre))

SlotAfter(label) == SlotsOf(label, replay.capture.observed, Budget)

First(slots) == CHOOSE j \in slots : \A i \in slots : j <= i

Selected(label) ==
  [label |-> label, contents |-> replay.capture.contents[First(SlotBefore(label))]]

CompactTarget ==
  /\ at = "compact"
  /\ SlotBefore(plan.candidate) # {}
  /\ SlotBefore(plan.donor) # {}
  /\ target' = [candidate |-> Selected(plan.candidate),
                donor |-> Selected(plan.donor),
                slot |-> First(SlotAfter(plan.donor)),
                snapshot |-> replay.snapshot]
  /\ replay' = [capture |-> None, snapshot |-> None]
  /\ GoesTo("pairs")
  /\ UNCHANGED <<model, live, trace, plan, branch>>

CompactTargetFails ==
  /\ at = "compact"
  /\ SlotBefore(plan.candidate) = {} \/ SlotBefore(plan.donor) = {}
  /\ GoesTo("failed")
  /\ UNCHANGED <<model, live, trace, plan, replay, target, branch>>

-----------------------------------------------------------------------------
(* build_swap_pair_record, once for the real pair and once for the no-op     *)
(* pair: the baseline branch from the snapshot, then the swapped one.  Each  *)
(* feeds the bridge token and all but the last of the scored tokens.         *)
Branches == <<[pair |-> "real", swapped |-> FALSE], [pair |-> "real", swapped |-> TRUE],
              [pair |-> "no_op", swapped |-> FALSE], [pair |-> "no_op", swapped |-> TRUE]>>

Evaluated == IF branch = None THEN 0 ELSE branch.ordinal

Enough == plan.position + 2 + ScoredHorizon <= trace.total

InSlot(kind) == IF kind.pair = "real" THEN target.candidate ELSE target.donor

BranchSource(kind) ==
  IF kind.swapped
  THEN Swapped(target.snapshot, target.slot, InSlot(kind).contents, InSlot(kind).label)
  ELSE target.snapshot

StartBranch ==
  /\ at = "pairs"
  /\ Evaluated < Len(Branches)
  /\ Enough
  /\ Restore(BranchSource(Branches[Evaluated + 1]))
  /\ branch' = [ordinal |-> Evaluated + 1, fed |-> 0]
  /\ GoesTo("branch")
  /\ UNCHANGED <<trace, plan, replay, target>>

BranchStep ==
  /\ at = "branch"
  /\ branch.fed < ScoredHorizon
  /\ Forward(1)
  /\ branch' = [branch EXCEPT !.fed = @ + 1]
  /\ UNCHANGED <<at, trace, plan, replay, target>>

EndBranch ==
  /\ at = "branch"
  /\ branch.fed = ScoredHorizon
  /\ GoesTo(IF Evaluated = Len(Branches) THEN "done" ELSE "pairs")
  /\ UNCHANGED <<model, live, trace, plan, replay, target, branch>>

Ended == {"done", "dropped", "failed"}

Finished ==
  /\ at \in Ended
  /\ UNCHANGED vars

Next ==
  \/ PrefillPass1 \/ DecodePass1 \/ StopPass1("planning") \/ StopPass1("dropped")
  \/ BuildPlan \/ PlanFails
  \/ ResetForPass2 \/ PrefillPass2 \/ ReplayToken \/ ReplayTarget
  \/ AcceptReplay \/ RejectReplay \/ CompactTarget \/ CompactTargetFails
  \/ StartBranch \/ BranchStep \/ EndBranch
  \/ Finished

Spec == Init /\ [][Next]_vars

-----------------------------------------------------------------------------
ModelStates ==
  [length : Nat, compression : {"none", "true", "false"}, evicted : Nat, kept : Seq(Nat),
   shuffled : BOOLEAN]

LiveStates ==
  [cache : Seq(Nat), positions : Seq(Nat), events : Seq(Nat), pos : Nat]

(* Every variable holds a value of its type, and the position map has one    *)
(* entry per slot of the cache, which the shape check of capture.py asks for.*)
TypeOK ==
  /\ model \in ModelStates
  /\ live \in LiveStates
  /\ Len(live.positions) = Len(live.cache)
  /\ model.kept = << >> \/ Len(model.kept) = Budget
  /\ at \in {"prefill1", "pass1", "planning", "reset", "prefill2", "pass2", "compact",
             "pairs", "branch"} \cup Ended
  /\ trace.prompt \in Nat /\ trace.total \in Nat
  /\ Evaluated \in 0..4

(* Between two compactions a cache outgrows the budget by less than the      *)
(* distance the flag schedules them at (docs/UPSTREAM_AUDIT.md, H4), in both *)
(* passes and in every branch: a reset or a restore that loses the counter   *)
(* or the flag shows here.                                                   *)
CacheBounded == Len(live.cache) <= Budget + DivideLength - 1

(* The adapter names, slot by slot, the token that is in the cache: the map  *)
(* appended to between compactions and taken over from R-KV at each of them  *)
(* (provenance.py), through snapshots, restores and swaps, unless a          *)
(* compaction that evicted nothing has reordered the slots.                  *)
ProvenanceTrue == ~model.shuffled => live.positions = live.cache

(* No token is in the cache twice, in a swapped branch neither: what a swap  *)
(* puts in was evicted by the compaction before it and by none earlier.      *)
NoTokenTwice ==
  ~model.shuffled =>
    \A i, j \in 1..Len(live.cache) : live.cache[i] = live.cache[j] => i = j

(* The compactions of Pass 2, and those of every branch restored from it,    *)
(* fall on the calls where Pass 1 saw them: the counter and the flag the     *)
(* schedule is computed from are reset and restored with the rest.           *)
ReplayKeepsSchedule ==
  at \in {"prefill2", "pass2", "compact", "pairs", "branch", "done"} =>
    /\ Len(live.events) <= Len(trace.events)
    /\ \A i \in 1..Len(trace.events) :
         IF trace.events[i] + 1 <= live.pos
         THEN i <= Len(live.events) /\ live.events[i] = trace.events[i] + 1
         ELSE i > Len(live.events)

(* A swapped branch starts from the baseline's cache with one token replaced:*)
(* the planned donor's slot holds the planned candidate, which was nowhere   *)
(* else.  The no-op branch starts from the baseline's cache.  Pass 1 chose   *)
(* the tokens, Pass 2 the slots and the contents.                            *)
SwapChangesOneToken ==
  at = "branch" /\ branch.fed = 0 /\ ~model.shuffled =>
    LET before == target.snapshot.live
        kind == Branches[branch.ordinal]
    IN /\ before.pos = plan.position + 1
       /\ IF kind.swapped /\ kind.pair = "real"
          THEN /\ before.cache[target.slot] = plan.donor
               /\ plan.candidate \notin Entries(before.cache)
               /\ live.cache = [before.cache EXCEPT ![target.slot] = plan.candidate]
          ELSE live.cache = before.cache

(* A planned event leaves room for the bridge token and the whole horizon:   *)
(* the branches never run off the trace.                                     *)
HorizonFits == at \in {"pairs", "branch"} => Enough /\ live.pos <= trace.total

(* A capture that passes the parity check records the tokens the compaction  *)
(* kept, whenever the map it was checked through was right: a record R-KV    *)
(* has got wrong is caught, the one after a reordering too (capture.py).     *)
ParityProtects ==
  /\ replay.capture # None
  /\ replay.capture.fired
  /\ replay.capture.parity
  /\ replay.capture.pre = replay.capture.contents
  => replay.capture.observed = replay.snapshot.live.cache

(* simulate_rkv_cache_lengths predicts the length of the real cache at every *)
(* position, from the prompt's length alone.                                 *)
PredictedLengthIsExact ==
  at = "pass1" =>
    Walk(trace.prompt, live.pos)[live.pos - trace.prompt].length = Len(live.cache)

(* Where b2a_qualification.py predicts compactions for a trace of this       *)
(* length.                                                                   *)
Predicted ==
  PredictedEvents(trace.prompt,
                  IF trace.total > trace.prompt THEN trace.total - 1 ELSE trace.prompt)

(* A row qualified on predicted events has at least as many real ones that a *)
(* plan can use.  The prediction counts positions from one more than Pass 1, *)
(* leaves out compactions that evict nothing, and stops a call early.        *)
QualificationIsConservative ==
  at = "planning" =>
    /\ \A i \in 1..Len(Predicted) : Predicted[i] - 1 \in Entries(EventPositions)
    /\ Cardinality(Eligible(Predicted, trace.prompt, trace.total))
         <= Cardinality(EligibleEvents)

(* What a test of the adapter says of the same map, without the exception:   *)
(* the adapter's positions are the tokens' at every step, also when a        *)
(* compaction falls exactly on the budget.                                   *)
ProvenanceAlwaysTrue == live.positions = live.cache
=============================================================================
