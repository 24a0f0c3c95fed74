--------------------------- MODULE ExampleRun_proofs ---------------------------
(*****************************************************************************)
(* Proofs about ExampleRun for every number of events and of real pairs: its *)
(* type invariant, the accounting of the pairs and what a failure report     *)
(* keeps of them, the bound on the branch clones and the stage an abort      *)
(* names, the checks behind a completed pair, and what the two gates of      *)
(* B2AGates pass.                                                            *)
(*****************************************************************************)
EXTENDS B2AGates, FiniteSetTheorems, TLAPS

LEMMA PlanLengthType == PlanLength \in Nat /\ PlanLength >= 1
  BY PlanAssumption, SMT DEF PlanLength

LEMMA AppendToSet ==
  ASSUME NEW S, NEW s \in Seq(S), NEW e \in S
  PROVE  /\ Append(s, e) \in Seq(S)
         /\ Len(Append(s, e)) = Len(s) + 1
         /\ ToSet(Append(s, e)) = ToSet(s) \cup {e}
         /\ Last(Append(s, e)) = e
         /\ Append(s, e) # << >>
<1> DEFINE t == Append(s, e)
<1>1. t \in Seq(S) /\ Len(t) = Len(s) + 1
  OBVIOUS
<1>2. t # << >>
  <2>1. Len(s) \in Nat /\ Len(<< >>) = 0
    OBVIOUS
  <2>2. QED
    BY <2>1, <1>1
<1>3. /\ \A i \in 1..Len(s) : t[i] = s[i]
      /\ t[Len(s) + 1] = e
  OBVIOUS
<1>4. Last(t) = e
  BY <1>1, <1>3 DEF Last
<1>5. ToSet(t) = ToSet(s) \cup {e}
  <2>1. DOMAIN t = 1..(Len(s) + 1) /\ DOMAIN s = 1..Len(s) /\ Len(s) \in Nat
    BY <1>1
  <2>2. ASSUME NEW x \in ToSet(t) PROVE x \in ToSet(s) \cup {e}
    BY <2>1, <2>2, <1>3 DEF ToSet
  <2>3. ASSUME NEW x \in ToSet(s) \cup {e} PROVE x \in ToSet(t)
    <3>1. CASE x = e
      BY <3>1, <2>1, <1>3 DEF ToSet
    <3>2. CASE x \in ToSet(s)
      <4>1. PICK i \in 1..Len(s) : x = s[i]
        BY <3>2, <2>1 DEF ToSet
      <4>2. i \in DOMAIN t /\ t[i] = x
        BY <4>1, <2>1, <1>3
      <4>3. QED
        BY <4>2 DEF ToSet
    <3>3. QED
      BY <2>3, <3>1, <3>2
  <2>4. QED
    BY <2>2, <2>3
<1>6. QED
  BY <1>1, <1>2, <1>4, <1>5

LEMMA EntryOf ==
  ASSUME NEW S, NEW s \in Seq(S), NEW i \in DOMAIN s
  PROVE  s[i] \in S
  OBVIOUS

(* The same for the lists of pairs.                                          *)
LEMMA PairAppended ==
  ASSUME NEW s \in Seq(1..PlanLength), NEW i \in 1..PlanLength
  PROVE  /\ ToSet(Append(s, i)) = ToSet(s) \cup {i}
         /\ Len(Append(s, i)) = Len(s) + 1
<1> DEFINE S == 1..PlanLength
<1>1. s \in Seq(S) /\ i \in S
  OBVIOUS
<1> HIDE DEF S
<1>2. QED
  BY <1>1, AppendToSet, SMT

-------------------------------------------------------------------------------
(* Type correctness.                                                         *)

LEMMA CountersTyped ==
  ASSUME NEW c \in Counters
  PROVE  Entered(c) \in Counters /\ Passed(c) \in Counters /\ Dropped(c) \in Counters
BY DEF Counters, Entered, Passed, Dropped

LEMMA InitTyped ==
  ASSUME Init
  PROVE  TypeOK
<1>1. /\ << >> \in Seq(BOOLEAN)
      /\ << >> \in Seq(1..PlanLength)
  OBVIOUS
<1>2. NoCount \in Counters
  BY DEF NoCount, Counters
<1>3. PairTypeOK
  BY DEF Init, PairInit, PairTypeOK, Steps
<1>4. /\ k \in 0..PlanLength
      /\ journaled \subseteq 1..PlanLength
  BY PlanLengthType DEF Init, PairInit
<1>5. checks \in [attempted : Nat, passed : Nat]
  BY DEF Init
<1>6. QED
  BY <1>1, <1>2, <1>3, <1>4, <1>5 DEF Init, TypeOK, Outcomes

(* The body outside the pair loop touches no pair.                           *)
LEMMA BodyTyped ==
  ASSUME TypeOK, UNCHANGED <<pairVars, tallyVars>>,
         RunSteps \/ Conversions \/ RaiseAbort \/ ConstructResult
           \/ Derive("compare", "call_trace_comparison", "derive")
           \/ Derive("derive", "post-run evidence derivation", "construct")
  PROVE  TypeOK'
<1>1. PairTypeOK'
  BY DEF TypeOK, PairTypeOK, pairVars
<1>2. /\ k' = k /\ pairs' = pairs /\ guards' = guards /\ attempted' = attempted
      /\ completed' = completed /\ details' = details /\ checks' = checks
      /\ journaled' = journaled
  BY DEF pairVars, tallyVars
<1>3. /\ role' = role
      /\ at' \in {"preamble", "natural", "pass1", "plan", "pass2", "minimize", "compact", "loop",
                 "aborted", "compare", "derive", "construct"} \cup Ended
      /\ stages' \in Nat
      /\ outcome' \in Outcomes
      /\ aborted' \in BOOLEAN
      /\ example' \in Counters
  <2> USE CountersTyped DEF TypeOK, Ended, Outcomes, Attrition, ResultReturned, GoesTo
  <2>1. CASE PreambleStep
    <3>1. at' \in {"preamble", "natural", "pass1", "refused", "failed"}
      BY <2>1, Zenon DEF PreambleStep
    <3>2. stages' \in {stages, stages + 1}
      BY <2>1, Zenon DEF PreambleStep
    <3>3. UNCHANGED <<role, outcome, aborted, example>>
      BY <2>1 DEF PreambleStep
    <3>4. stages \in Nat
      OBVIOUS
    <3>5. stages' \in Nat
      BY ONLY <3>2, <3>4
    <3>6. QED
      BY <3>1, <3>3, <3>5
  <2>2. CASE NaturalRun
    BY <2>2 DEF NaturalRun
  <2>3. CASE Pass1
    BY <2>3 DEF Pass1
  <2>4. CASE BuildPlan
    BY <2>4 DEF BuildPlan
  <2>5. CASE Pass2
    BY <2>5 DEF Pass2
  <2>6. CASE Conversions
    BY <2>6 DEF Conversions, Convert
  <2>7. CASE RaiseAbort
    BY <2>7 DEF RaiseAbort
  <2>8. CASE ConstructResult
    BY <2>8 DEF ConstructResult
  <2>9. CASE \/ Derive("compare", "call_trace_comparison", "derive")
             \/ Derive("derive", "post-run evidence derivation", "construct")
    BY <2>9 DEF Derive
  <2>10. QED
    BY <2>1, <2>2, <2>3, <2>4, <2>5, <2>6, <2>7, <2>8, <2>9 DEF RunSteps
<1>4. QED
  BY <1>1, <1>2, <1>3 DEF TypeOK

LEMMA BuildTyped ==
  ASSUME PairTypeOK, BuildPair
  PROVE  PairTypeOK' /\ k' = k
<1> USE DEF PairTypeOK, Steps, BuildSteps, BuildFailures, Proceeds, Returns, Escapes
<1>1. CASE Lookup
  BY <1>1 DEF Lookup
<1>2. CASE Clone("baseline_clone", "baseline") \/ Clone("swapped_clone", "swapped")
  BY <1>2 DEF Clone
<1>3. CASE \/ Evaluate("baseline", "baseline_release")
           \/ Evaluate("swapped", "swapped_release")
  BY <1>3 DEF Evaluate
<1>4. CASE \/ Release("baseline_release", "baseline")
           \/ Release("swapped_release", "swapped")
  BY <1>4 DEF Release, AfterRelease
<1>5. CASE Mutate
  BY <1>5 DEF Mutate
<1>6. CASE CheckParity
  BY <1>6 DEF CheckParity
<1>7. CASE Construct
  BY <1>7 DEF Construct
<1>8. QED
  BY <1>1, <1>2, <1>3, <1>4, <1>5, <1>6, <1>7 DEF BuildPair

(* What the loop's bookkeeping of the current pair keeps typed.              *)
LEMMA TalliesTyped ==
  ASSUME TypeOK, k \in 1..PlanLength,
         DropPair \/ KeepPair \/ UNCHANGED <<pairs, completed, details>>
  PROVE  /\ pairs' \in Counters
         /\ completed' \in Seq(1..PlanLength)
         /\ details' \in Seq(1..PlanLength)
<1>1. pairs \in Counters /\ completed \in Seq(1..PlanLength) /\ details \in Seq(1..PlanLength)
  BY DEF TypeOK
<1>2. CASE DropPair
  BY <1>1, <1>2, CountersTyped, AppendToSet DEF DropPair
<1>3. CASE KeepPair
  BY <1>1, <1>3, CountersTyped, AppendToSet DEF KeepPair
<1>4. QED
  BY <1>1, <1>2, <1>3

(* A pair is being evaluated only when one has been started.                 *)
PairStarted == step # "none" => k >= 1

LEMMA LoopTyped ==
  ASSUME TypeOK, PairStarted, LoopSteps
  PROVE  TypeOK'
<1>1. k \in 0..PlanLength /\ (step # "none" => k \in 1..PlanLength)
  BY PlanLengthType DEF TypeOK, PairStarted
<1>2. CASE StartPair
  <2>1. k + 1 \in 1..PlanLength
    BY <1>1, <1>2, PlanLengthType DEF StartPair, MorePairs
  <2>2. attempted' \in Seq(1..PlanLength) /\ pairs' \in Counters
    BY <1>2, <2>1, CountersTyped DEF StartPair, TypeOK
  <2>3. k' \in 0..PlanLength
    BY <1>2, <2>1, PlanLengthType DEF StartPair
  <2>4. PairTypeOK'
    BY <1>2 DEF StartPair, TypeOK, PairTypeOK, Steps
  <2>5. QED
    BY <1>2, <2>2, <2>3, <2>4 DEF StartPair, TypeOK, bodyVars
<1>3. CASE Admit
  <2>1. guards' \in Seq(BOOLEAN)
    <3>1. guards \in Seq(BOOLEAN) /\ guards' = Append(guards, TRUE) /\ TRUE \in BOOLEAN
      BY <1>3 DEF Admit, TypeOK
    <3>2. QED
      BY ONLY <3>1, AppendToSet
  <2>2. PairTypeOK'
    BY <1>3 DEF Admit, TypeOK, PairTypeOK, Steps, BuildSteps
  <2>3. QED
    BY <1>3, <2>1, <2>2 DEF Admit, TypeOK, bodyVars
<1>4. CASE Reject
  <2>1. guards' \in Seq(BOOLEAN)
    <3>1. guards \in Seq(BOOLEAN) /\ guards' = Append(guards, FALSE) /\ FALSE \in BOOLEAN
      BY <1>4 DEF Reject, TypeOK
    <3>2. QED
      BY ONLY <3>1, AppendToSet
  <2>2. PairTypeOK'
    BY <1>4 DEF Reject, TypeOK, PairTypeOK, Steps
  <2>3. /\ pairs' \in Counters
        /\ completed' \in Seq(1..PlanLength)
        /\ details' \in Seq(1..PlanLength)
    BY <1>4, <1>1, TalliesTyped DEF Reject
  <2>4. QED
    BY <1>4, <2>1, <2>2, <2>3 DEF Reject, TypeOK, bodyVars
<1>5. CASE GuardRaises \/ MeasureRaises
  BY <1>5 DEF GuardRaises, MeasureRaises, Escapes, TypeOK, PairTypeOK, Steps, bodyVars, tallyVars
<1>6. CASE Evaluation
  <2>1. PairTypeOK' /\ k' = k
    BY <1>6, BuildTyped DEF Evaluation, TypeOK
  <2>2. QED
    BY <1>6, <2>1 DEF Evaluation, TypeOK, bodyVars, tallyVars
<1>7. CASE JudgePair
  <2>1. /\ pairs' \in Counters
        /\ completed' \in Seq(1..PlanLength)
        /\ details' \in Seq(1..PlanLength)
    BY <1>7, <1>1, TalliesTyped DEF JudgePair
  <2>2. PairTypeOK'
    BY <1>7 DEF JudgePair, TypeOK, PairTypeOK, Steps
  <2>3. checks' \in [attempted : Nat, passed : Nat]
    BY <1>7 DEF JudgePair, TypeOK, CountCheck
  <2>4. journaled' \subseteq 1..PlanLength
    BY <1>7, <1>1 DEF JudgePair, TypeOK
  <2>5. QED
    BY <1>7, <2>1, <2>2, <2>3, <2>4 DEF JudgePair, TypeOK, bodyVars
<1>8. CASE AbortLoop
  <2>1. /\ pairs' \in Counters
        /\ completed' \in Seq(1..PlanLength)
        /\ details' \in Seq(1..PlanLength)
    BY <1>8, <1>1, TalliesTyped DEF AbortLoop
  <2>2. PairTypeOK'
    BY <1>8 DEF AbortLoop, TypeOK, PairTypeOK, Steps
  <2>3. QED
    BY <1>8, <2>1, <2>2 DEF AbortLoop, ResultReturned, TypeOK, Outcomes
<1>9. CASE EndLoop
  BY <1>9 DEF EndLoop, ResultReturned, TypeOK, PairTypeOK, pairVars, tallyVars, Outcomes
<1>10. QED
  BY <1>2, <1>3, <1>4, <1>5, <1>6, <1>7, <1>8, <1>9 DEF LoopSteps

LEMMA StutterTyped ==
  ASSUME TypeOK, UNCHANGED vars
  PROVE  TypeOK'
BY DEF TypeOK, PairTypeOK, vars, pairVars, bodyVars, tallyVars

LEMMA StepTyped ==
  ASSUME TypeOK, PairStarted, [Next]_vars
  PROVE  TypeOK'
<1>1. CASE RunSteps \/ Conversions \/ EndSteps
  <2>1. UNCHANGED <<pairVars, tallyVars>>
    BY <1>1 DEF RunSteps, Conversions, EndSteps, PreambleStep, NaturalRun, Pass1, BuildPlan,
                Pass2, Convert, RaiseAbort, Derive, ConstructResult
  <2>2. QED
    BY <1>1, <2>1, BodyTyped DEF EndSteps
<1>2. CASE LoopSteps
  BY <1>2, LoopTyped
<1>3. CASE Finished \/ UNCHANGED vars
  BY <1>3, StutterTyped DEF Finished
<1>4. QED
  BY <1>1, <1>2, <1>3 DEF Next

-------------------------------------------------------------------------------
(* The pairs.  Before the loop there is none; while one is evaluated the     *)
(* body is in the loop; after it the outcome of the example is bound.  All   *)
(* pairs started but the one in flight are settled, each in one of the two   *)
(* lists.                                                                    *)

BeforeLoop == {"preamble", "natural", "pass1", "plan", "pass2", "minimize", "compact"}

Settled == IF step = "none" THEN k ELSE k - 1

PlaceInv ==
  /\ PairStarted
  /\ step # "none" => at = "loop"
  /\ at \in BeforeLoop => k = 0
  /\ k # 0 /\ at # "loop" => outcome = "valid"

AttemptedInv == ToSet(attempted) = 1..k /\ Len(attempted) = k

SettledInv ==
  /\ ToSet(completed) \cup ToSet(details) = 1..Settled
  /\ ToSet(completed) \cap ToSet(details) = {}
  /\ Len(completed) + Len(details) = Settled
  /\ pairs = [entered |-> k, passed |-> Len(completed), dropped |-> Len(details)]

PairsInv == PlaceInv /\ AttemptedInv /\ SettledInv

LEMMA NothingAttempted == ToSet(<< >>) = {} /\ Len(<< >>) = 0
BY DEF ToSet

LEMMA InitPairs ==
  ASSUME Init
  PROVE  PairsInv
BY NothingAttempted
   DEF Init, PairInit, PairsInv, PlaceInv, PairStarted, AttemptedInv, SettledInv, Settled, NoCount

(* A step that neither starts a pair nor settles one.                        *)
LEMMA PairsKept ==
  ASSUME PairsInv,
         UNCHANGED <<k, attempted, completed, details, pairs>>,
         (step' = "none") <=> (step = "none"),
         step # "none" => at' = "loop",
         at \notin BeforeLoop => at' \notin BeforeLoop,
         k # 0 /\ at' # "loop" => outcome' = "valid"
  PROVE  PairsInv'
<1>1. PlaceInv'
  BY DEF PairsInv, PlaceInv, PairStarted
<1>2. AttemptedInv'
  BY DEF PairsInv, AttemptedInv
<1>3. Settled' = Settled
  BY DEF Settled
<1>4. SettledInv'
  BY <1>3 DEF PairsInv, SettledInv
<1>5. QED
  BY <1>1, <1>2, <1>4 DEF PairsInv

(* A step that settles the pair in flight.                                   *)
LEMMA PairSettled ==
  ASSUME TypeOK, PairsInv, step # "none", step' = "none", UNCHANGED <<k, attempted>>,
         DropPair \/ KeepPair,
         at' = "loop" \/ (at' \notin BeforeLoop /\ outcome' = "valid")
  PROVE  PairsInv'
<1>1. k \in 1..PlanLength /\ Settled = k - 1 /\ Settled' = k
  BY PlanLengthType DEF TypeOK, PairsInv, PlaceInv, PairStarted, Settled
<1>2. PlaceInv' /\ AttemptedInv'
  BY <1>1 DEF PairsInv, PlaceInv, PairStarted, AttemptedInv, BeforeLoop
<1>3. /\ completed \in Seq(1..PlanLength) /\ details \in Seq(1..PlanLength)
      /\ Len(completed) \in Nat /\ Len(details) \in Nat
  BY DEF TypeOK
<1>4. (1..(k - 1)) \cup {k} = 1..k /\ k \notin 1..(k - 1)
  BY <1>1
<1>5. CASE DropPair
  <2>1. /\ ToSet(details') = ToSet(details) \cup {k} /\ Len(details') = Len(details) + 1
        /\ completed' = completed /\ k' = k
    <3>1. details' = Append(details, k) /\ completed' = completed /\ k' = k
      BY <1>5 DEF DropPair
    <3>2. /\ ToSet(Append(details, k)) = ToSet(details) \cup {k}
          /\ Len(Append(details, k)) = Len(details) + 1
      BY <1>1, <1>3, PairAppended
    <3>3. QED
      BY ONLY <3>1, <3>2, Zenon
  <2>2. pairs' = [entered |-> k, passed |-> Len(completed), dropped |-> Len(details) + 1]
    BY <1>5 DEF DropPair, Dropped, PairsInv, SettledInv
  <2>3. QED
    BY <1>1, <1>2, <1>3, <1>4, <2>1, <2>2 DEF PairsInv, SettledInv
<1>6. CASE KeepPair
  <2>1. /\ ToSet(completed') = ToSet(completed) \cup {k} /\ Len(completed') = Len(completed) + 1
        /\ details' = details /\ k' = k
    <3>1. completed' = Append(completed, k) /\ details' = details /\ k' = k
      BY <1>6 DEF KeepPair
    <3>2. /\ ToSet(Append(completed, k)) = ToSet(completed) \cup {k}
          /\ Len(Append(completed, k)) = Len(completed) + 1
      BY <1>1, <1>3, PairAppended
    <3>3. QED
      BY ONLY <3>1, <3>2, Zenon
  <2>2. pairs' = [entered |-> k, passed |-> Len(completed) + 1, dropped |-> Len(details)]
    BY <1>6 DEF KeepPair, Passed, PairsInv, SettledInv
  <2>3. QED
    BY <1>1, <1>2, <1>3, <1>4, <2>1, <2>2 DEF PairsInv, SettledInv
<1>7. QED
  BY <1>5, <1>6

LEMMA StartPairs ==
  ASSUME TypeOK, PairsInv, StartPair
  PROVE  PairsInv'
<1>1. /\ k \in Nat /\ k + 1 \in 1..PlanLength /\ step = "none" /\ at = "loop"
      /\ k' = k + 1 /\ step' = "guard" /\ attempted' = Append(attempted, k + 1)
      /\ pairs' = Entered(pairs)
      /\ UNCHANGED <<at, outcome, completed, details>>
  BY PlanLengthType DEF TypeOK, StartPair, MorePairs, bodyVars
<1>2. PlaceInv'
  BY <1>1 DEF PlaceInv, PairStarted, BeforeLoop
<1>3. AttemptedInv'
  <2>1. attempted \in Seq(1..PlanLength)
    BY DEF TypeOK
  <2>2. ToSet(attempted') = (1..k) \cup {k + 1} /\ Len(attempted') = k + 1
    <3>1. /\ ToSet(Append(attempted, k + 1)) = ToSet(attempted) \cup {k + 1}
          /\ Len(Append(attempted, k + 1)) = Len(attempted) + 1
      BY <1>1, <2>1, PairAppended
    <3>2. attempted' = Append(attempted, k + 1) /\ ToSet(attempted) = 1..k /\ Len(attempted) = k
      BY <1>1 DEF PairsInv, AttemptedInv
    <3>3. QED
      BY ONLY <3>1, <3>2, Zenon
  <2>3. (1..k) \cup {k + 1} = 1..(k + 1)
    BY <1>1
  <2>4. QED
    BY <1>1, <2>2, <2>3 DEF AttemptedInv
<1>4. SettledInv'
  <2>1. Settled = k /\ Settled' = k
    BY <1>1 DEF Settled
  <2>2. pairs' = [entered |-> k + 1, passed |-> Len(completed), dropped |-> Len(details)]
    BY <1>1 DEF Entered, PairsInv, SettledInv
  <2>3. QED
    BY <1>1, <2>1, <2>2 DEF PairsInv, SettledInv
<1>5. QED
  BY <1>2, <1>3, <1>4 DEF PairsInv

LEMMA BodyPairs ==
  ASSUME TypeOK, PairsInv, RunSteps \/ Conversions \/ EndSteps
  PROVE  PairsInv'
<1>1. UNCHANGED <<pairVars, tallyVars>>
  BY DEF RunSteps, Conversions, EndSteps, PreambleStep, NaturalRun, Pass1, BuildPlan,
         Pass2, Convert, RaiseAbort, Derive, ConstructResult
<1>2. /\ UNCHANGED <<k, attempted, completed, details, pairs>>
      /\ step' = step
  BY <1>1 DEF pairVars, tallyVars
<1>3. /\ at # "loop"
      /\ at \notin BeforeLoop => at' \notin BeforeLoop
      /\ at \notin BeforeLoop => outcome' = outcome
  <2> USE DEF BeforeLoop
  <2>1. CASE RunSteps
    BY <2>1 DEF RunSteps, PreambleStep, NaturalRun, Pass1, BuildPlan, Pass2
  <2>2. CASE Conversions
    BY <2>2 DEF Conversions, Convert
  <2>3. CASE EndSteps
    BY <2>3 DEF EndSteps, RaiseAbort, Derive, ConstructResult, GoesTo
  <2>4. QED
    BY <2>1, <2>2, <2>3
<1>4. /\ step # "none" => at' = "loop"
      /\ k # 0 /\ at' # "loop" => outcome' = "valid"
  BY <1>3 DEF PairsInv, PlaceInv
<1>5. QED
  BY <1>2, <1>3, <1>4, PairsKept

LEMMA LoopPairs ==
  ASSUME TypeOK, PairsInv, LoopSteps
  PROVE  PairsInv'
<1>1. CASE StartPair
  BY <1>1, StartPairs
<1>2. CASE Admit \/ GuardRaises \/ MeasureRaises \/ Evaluation
  <2>1. /\ step # "none" /\ step' # "none"
        /\ UNCHANGED <<k, bodyVars, attempted, completed, details, pairs>>
    <3>1. CASE Admit
      BY <3>1 DEF Admit
    <3>2. CASE GuardRaises \/ MeasureRaises
      BY <3>2 DEF GuardRaises, MeasureRaises, Escapes, tallyVars
    <3>3. CASE Evaluation
      <4>1. UNCHANGED <<bodyVars, attempted, completed, details, pairs>>
        BY <3>3 DEF Evaluation, tallyVars
      <4>2. step # "none" /\ step' # "none" /\ k' = k
        BY <3>3 DEF Evaluation, BuildPair, Lookup, Clone, Evaluate, Release, Mutate, CheckParity,
                    Construct, Proceeds, Returns, Escapes
      <4>3. QED
        BY <4>1, <4>2
    <3>4. QED
      BY <1>2, <3>1, <3>2, <3>3
  <2>2. at = "loop" /\ at' = "loop"
    BY <2>1 DEF bodyVars, PairsInv, PlaceInv
  <2>3. at \notin BeforeLoop => at' \notin BeforeLoop
    BY <2>2
  <2>4. QED
    BY <2>1, <2>2, <2>3, PairsKept
<1>3. CASE Reject \/ JudgePair
  <2>1. at' = at /\ at = "loop" /\ step # "none"
    BY <1>3 DEF Reject, JudgePair, bodyVars, PairsInv, PlaceInv
  <2>2. step' = "none" /\ UNCHANGED <<k, attempted>> /\ (DropPair \/ KeepPair)
    BY <1>3 DEF Reject, JudgePair
  <2>3. QED
    BY <2>1, <2>2, PairSettled
<1>4. CASE AbortLoop
  <2>1. /\ step # "none" /\ step' = "none" /\ UNCHANGED <<k, attempted>>
        /\ DropPair /\ at' = "aborted" /\ outcome' = "valid"
    BY <1>4 DEF AbortLoop, ResultReturned
  <2>2. QED
    BY <2>1, PairSettled DEF BeforeLoop
<1>5. CASE EndLoop
  <2>1. /\ step = "none" /\ step' = "none" /\ at' = "compare" /\ outcome' = "valid"
        /\ UNCHANGED <<k, attempted, completed, details, pairs>>
    BY <1>5 DEF EndLoop, ResultReturned, pairVars, tallyVars
  <2>2. QED
    BY <2>1, PairsKept DEF BeforeLoop
<1>6. QED
  BY <1>1, <1>2, <1>3, <1>4, <1>5 DEF LoopSteps

LEMMA StepPairs ==
  ASSUME TypeOK, PairsInv, [Next]_vars
  PROVE  PairsInv'
<1>1. CASE RunSteps \/ Conversions \/ EndSteps
  BY <1>1, BodyPairs
<1>2. CASE LoopSteps
  BY <1>2, LoopPairs
<1>3. CASE Finished \/ UNCHANGED vars
  <2>1. UNCHANGED <<k, step, at, outcome, attempted, completed, details, pairs>>
    BY <1>3 DEF Finished, vars, pairVars, bodyVars, tallyVars
  <2>2. QED
    BY <2>1, PairsKept DEF PairsInv, PlaceInv
<1>4. QED
  BY <1>1, <1>2, <1>3 DEF Next

(* Every value of every variable is of its type, for every plan.  The type   *)
(* of the pair number needs PairStarted: a pair is settled under a number    *)
(* the loop has given it.                                                    *)
THEOREM BodyTypeCorrect == Spec => [](TypeOK /\ PairsInv)
<1>1. Init => TypeOK /\ PairsInv
  BY InitTyped, InitPairs
<1>2. TypeOK /\ PairsInv /\ [Next]_vars => (TypeOK /\ PairsInv)'
  BY StepTyped, StepPairs DEF PairsInv, PlaceInv
<1>3. QED
  BY <1>1, <1>2, PTL DEF Spec

(* No pair is lost, counted twice, or both completed and failed.             *)
THEOREM PairsAccounted == Spec => []PairsAreAccounted
<1>1. TypeOK /\ PairsInv => PairsAreAccounted
  <2> SUFFICES ASSUME TypeOK, PairsInv PROVE PairsAreAccounted
    OBVIOUS
  <2>1. k \in Nat /\ (step # "none" => k >= 1)
    BY PlanLengthType DEF TypeOK, PairsInv, PlaceInv, PairStarted
  <2>2. 1..k \ InFlight = 1..Settled /\ Settled \in Nat
    BY <2>1 DEF InFlight, Settled
  <2>3. Cardinality(1..Settled) = Settled
    BY <2>2, FS_Interval
  <2>4. QED
    BY <2>2, <2>3 DEF PairsInv, AttemptedInv, SettledInv, PairsAreAccounted
<1>2. QED
  BY <1>1, BodyTypeCorrect, PTL

(* A failure report keeps every completed and every attempted pair, and      *)
(* names exactly the others as failed.                                       *)
THEOREM ReportKeepsPairs == Spec => []EvidenceKeepsPairs
<1>1. TypeOK /\ PairsInv => EvidenceKeepsPairs
  <2> SUFFICES ASSUME TypeOK, PairsInv, at = "failed", attempted # << >>
               PROVE  /\ Evidence.completed = completed
                      /\ Evidence.attempted = attempted
                      /\ Evidence.failed = ToSet(Evidence.details)
    BY DEF EvidenceKeepsPairs
  <2>1. k # 0
    BY DEF TypeOK, PairsInv, AttemptedInv
  <2>2. outcome # "unbound" /\ step = "none"
    BY <2>1 DEF PairsInv, PlaceInv
  <2>3. /\ Evidence.completed = completed
        /\ Evidence.attempted = attempted
        /\ Evidence.details = details
        /\ Evidence.failed = ToSet(attempted) \ ToSet(completed)
    BY <2>2 DEF Evidence
  <2>4. ToSet(attempted) \ ToSet(completed) = ToSet(details)
    BY <2>2 DEF PairsInv, AttemptedInv, SettledInv, Settled
  <2>5. QED
    BY <2>3, <2>4
<1>2. QED
  BY <1>1, BodyTypeCorrect, PTL

-------------------------------------------------------------------------------
(* The clones: which one is held follows from where the evaluation is, and   *)
(* an evaluation past its guard was admitted by it.                          *)

ClonesInv ==
  /\ live = {} \/ live = {"baseline"} \/ live = {"swapped"}
  /\ step \in {"none", "guard", "lookup", "baseline_clone", "swapped_clone",
               "record_construction", "built"} => live = {}
  /\ step \in {"baseline", "baseline_release"} => live = {"baseline"}
  /\ step \in {"semantic_mutation", "parity", "swapped", "swapped_release"} => live = {"swapped"}
  /\ step \in BuildSteps \/ live # {} => guards # << >> /\ Last(guards)

LEMMA BuildClones ==
  ASSUME ClonesInv, BuildPair, UNCHANGED guards
  PROVE  ClonesInv'
<1> DEFINE Admitted == guards # << >> /\ Last(guards)
<1>1. Admitted /\ Admitted'
  <2>1. step \in BuildSteps
    BY DEF BuildPair, Lookup, Clone, Evaluate, Release, Mutate, CheckParity, Construct, BuildSteps
  <2>2. Admitted
    BY <2>1 DEF ClonesInv
  <2>3. QED
    BY <2>2
<1> HIDE DEF Admitted
<1>2. /\ live' = {} \/ live' = {"baseline"} \/ live' = {"swapped"}
      /\ step' \in {"none", "guard", "lookup", "baseline_clone", "swapped_clone",
                   "record_construction", "built"} => live' = {}
      /\ step' \in {"baseline", "baseline_release"} => live' = {"baseline"}
      /\ step' \in {"semantic_mutation", "parity", "swapped", "swapped_release"} =>
           live' = {"swapped"}
  <2> USE DEF ClonesInv, Proceeds, Returns, Escapes
  <2>1. CASE Lookup
    BY <2>1 DEF Lookup
  <2>2. CASE Clone("baseline_clone", "baseline") \/ Clone("swapped_clone", "swapped")
    BY <2>2 DEF Clone
  <2>3. CASE \/ Evaluate("baseline", "baseline_release")
             \/ Evaluate("swapped", "swapped_release")
    BY <2>3 DEF Evaluate
  <2>4. CASE \/ Release("baseline_release", "baseline")
             \/ Release("swapped_release", "swapped")
    BY <2>4 DEF Release, AfterRelease
  <2>5. CASE Mutate
    BY <2>5 DEF Mutate
  <2>6. CASE CheckParity
    BY <2>6 DEF CheckParity
  <2>7. CASE Construct
    BY <2>7 DEF Construct
  <2>8. QED
    BY <2>1, <2>2, <2>3, <2>4, <2>5, <2>6, <2>7 DEF BuildPair
<1>3. QED
  BY <1>1, <1>2 DEF ClonesInv, Admitted

LEMMA StepClones ==
  ASSUME TypeOK, PairsInv, ClonesInv, [Next]_vars
  PROVE  ClonesInv'
<1>1. CASE RunSteps \/ Conversions \/ EndSteps
  <2>1. UNCHANGED <<pairVars, tallyVars>>
    BY <1>1 DEF RunSteps, Conversions, EndSteps, PreambleStep, NaturalRun, Pass1, BuildPlan,
                Pass2, Convert, RaiseAbort, Derive, ConstructResult
  <2>2. QED
    BY <2>1 DEF ClonesInv, pairVars, tallyVars
<1>2. CASE StartPair \/ GuardRaises \/ JudgePair \/ MeasureRaises \/ AbortLoop \/ EndLoop
  <2>1. /\ guards' = guards
        /\ step' \in {"none", "guard", "raised"}
        /\ (live' = live /\ step \in {"none", "guard", "built"}) \/ live' = {}
    BY <1>2 DEF StartPair, GuardRaises, JudgePair, MeasureRaises, AbortLoop, EndLoop, Escapes,
                tallyVars, pairVars, ClonesInv
  <2>2. live' = {}
    BY <2>1 DEF ClonesInv
  <2>3. QED
    BY <2>1, <2>2 DEF ClonesInv, BuildSteps
<1>3. CASE Admit \/ Reject
  <2>1. guards \in Seq(BOOLEAN)
    BY DEF TypeOK
  <2>2. live' = live /\ live = {}
    BY <1>3 DEF Admit, Reject, ClonesInv
  <2>3. CASE Admit
    <3>1. step' = "lookup" /\ guards' = Append(guards, TRUE)
      BY <2>3 DEF Admit
    <3>2. guards' # << >> /\ Last(guards') = TRUE
      <4>1. TRUE \in BOOLEAN
        OBVIOUS
      <4>2. Append(guards, TRUE) # << >> /\ Last(Append(guards, TRUE)) = TRUE
        BY ONLY <2>1, <4>1, AppendToSet, Zenon
      <4>3. QED
        BY ONLY <3>1, <4>2, Zenon
    <3>3. QED
      BY <2>2, <3>1, <3>2 DEF ClonesInv
  <2>4. CASE Reject
    BY <2>2, <2>4 DEF Reject, ClonesInv, BuildSteps
  <2>5. QED
    BY <1>3, <2>3, <2>4
<1>4. CASE Evaluation
  BY <1>4, BuildClones DEF Evaluation, tallyVars
<1>5. CASE Finished \/ UNCHANGED vars
  BY <1>5 DEF Finished, ClonesInv, vars, pairVars, tallyVars
<1>6. QED
  BY <1>1, <1>2, <1>3, <1>4, <1>5 DEF Next, LoopSteps

(* At most one branch clone is held at any time, only while its pair is      *)
(* being evaluated, and only for a pair the guard admitted.                  *)
THEOREM ClonesBounded == Spec => []ClonesAreBounded
<1>1. Init => ClonesInv
  BY DEF Init, PairInit, ClonesInv, BuildSteps
<1>2. TypeOK /\ PairsInv /\ ClonesInv /\ [Next]_vars => ClonesInv'
  BY StepClones
<1>3. ClonesInv => ClonesAreBounded
  <2> SUFFICES ASSUME ClonesInv PROVE ClonesAreBounded
    OBVIOUS
  <2>1. Cardinality(live) <= 1
    <3>1. /\ Cardinality({}) = 0
          /\ Cardinality({"baseline"}) = 1
          /\ Cardinality({"swapped"}) = 1
      BY FS_EmptySet, FS_Singleton
    <3>2. live = {} \/ live = {"baseline"} \/ live = {"swapped"}
      BY DEF ClonesInv
    <3>3. Cardinality(live) \in {0, 1}
      BY ONLY <3>1, <3>2, Zenon
    <3>4. QED
      BY ONLY <3>3, SMT
  <2>2. live # {} => step # "none"
    BY DEF ClonesInv
  <2>3. QED
    BY <2>1, <2>2 DEF ClonesInv, ClonesAreBounded
<1>4. QED
  BY <1>1, <1>2, <1>3, BodyTypeCorrect, PTL DEF Spec

-------------------------------------------------------------------------------
(* The example.  Its counters follow the passes until run_example returns,   *)
(* which it does once.                                                       *)

Returned == {"aborted", "compare", "derive", "construct"} \cup Ended

LeftOnce ==
  outcome # "unbound" =>
    /\ example.entered = 1
    /\ example.passed + example.dropped = 1
    /\ example.passed = 1 <=> outcome = "valid"

ExampleInv ==
  /\ at \in {"natural", "preamble", "pass1"} => example = NoCount
  /\ at \in {"plan", "pass2"} => example = Entered(NoCount)
  /\ at \in {"minimize", "compact", "loop"} => example = Passed(Entered(NoCount))
  /\ outcome # "unbound" => at \in Returned
  /\ LeftOnce

(* An example that entered and did not leave is between the two passes, or   *)
(* its plan broke.                                                           *)
Balanced == example.entered = example.passed + example.dropped

PlanBroke ==
  at = "failed" /\ outcome = "unbound" /\ current = Stage("pass1_plan_construction")

BalanceInv == Balanced \/ at \in {"plan", "pass2"} \/ PlanBroke

LEMMA ExampleCounts ==
  /\ NoCount = [entered |-> 0, passed |-> 0, dropped |-> 0]
  /\ Entered(NoCount) = [entered |-> 1, passed |-> 0, dropped |-> 0]
  /\ Dropped(Entered(NoCount)) = [entered |-> 1, passed |-> 0, dropped |-> 1]
  /\ Passed(Entered(NoCount)) = [entered |-> 1, passed |-> 1, dropped |-> 0]
<1>1. NoCount = [entered |-> 0, passed |-> 0, dropped |-> 0]
  BY DEF NoCount
<1>2. Entered(NoCount) = [entered |-> 1, passed |-> 0, dropped |-> 0]
  BY <1>1 DEF Entered
<1>3. Dropped(Entered(NoCount)) = [entered |-> 1, passed |-> 0, dropped |-> 1]
  BY <1>2 DEF Dropped
<1>4. Passed(Entered(NoCount)) = [entered |-> 1, passed |-> 1, dropped |-> 0]
  BY <1>2 DEF Passed
<1>5. QED
  BY <1>1, <1>2, <1>3, <1>4

LEMMA StepExample ==
  ASSUME ExampleInv, step # "none" => at = "loop", [Next]_vars
  PROVE  ExampleInv'
<1> USE DEF ExampleInv, LeftOnce, Returned, Ended
<1>1. CASE PreambleStep
  <2>1. /\ at = "preamble" /\ UNCHANGED <<outcome, example>>
        /\ at' \in {"preamble", "natural", "pass1", "refused", "failed"}
    BY <1>1, Zenon DEF PreambleStep
  <2>2. QED
    BY <2>1
<1>2. CASE NaturalRun
  BY <1>2 DEF NaturalRun, GoesTo
<1>3. CASE Pass1
  <2>1. at = "pass1" /\ example = NoCount /\ outcome = "unbound"
    BY <1>3 DEF Pass1
  <2>2. \/ /\ at' \in {"aborted", "compare"} /\ outcome' \notin {"unbound", "valid"}
           /\ example' = Dropped(Entered(NoCount))
        \/ /\ at' = "plan" /\ outcome' = "unbound"
           /\ example' = Entered(NoCount)
    BY <1>3, <2>1 DEF Pass1, ResultReturned
  <2>3. QED
    BY <2>2, ExampleCounts
<1>4. CASE BuildPlan
  BY <1>4, ExampleCounts DEF BuildPlan, ResultReturned, GoesTo
<1>5. CASE Pass2
  <2>1. at = "pass2" /\ example = Entered(NoCount) /\ outcome = "unbound"
    BY <1>5 DEF Pass2
  <2>2. \/ /\ at' \in {"aborted", "compare"} /\ outcome' \notin {"unbound", "valid"}
           /\ example' = Dropped(Entered(NoCount))
        \/ /\ at' = "minimize" /\ outcome' = "unbound"
           /\ example' = Passed(Entered(NoCount))
    BY <1>5, <2>1 DEF Pass2, ResultReturned
  <2>3. QED
    BY <2>2, ExampleCounts
<1>6. CASE Conversions
  BY <1>6 DEF Conversions, Convert, GoesTo
<1>7. CASE EndSteps
  BY <1>7 DEF EndSteps, RaiseAbort, Derive, ConstructResult, GoesTo
<1>8. CASE AbortLoop \/ EndLoop
  BY <1>8, ExampleCounts DEF AbortLoop, EndLoop, ResultReturned
<1>9. CASE \/ StartPair \/ Admit \/ Reject \/ GuardRaises \/ Evaluation
           \/ JudgePair \/ MeasureRaises \/ Finished \/ UNCHANGED vars
  <2>1. UNCHANGED bodyVars
    BY <1>9 DEF StartPair, Admit, Reject, GuardRaises, Evaluation, JudgePair, MeasureRaises,
                Finished, vars
  <2>2. QED
    BY <2>1 DEF bodyVars
<1>10. QED
  BY <1>1, <1>2, <1>3, <1>4, <1>5, <1>6, <1>7, <1>8, <1>9 DEF Next, RunSteps, LoopSteps

LEMMA StepBalance ==
  ASSUME BalanceInv, ExampleInv, step # "none" => at = "loop", [Next]_vars
  PROVE  BalanceInv'
<1>1. CASE Pass1
  <2>1. example = NoCount
    BY <1>1 DEF Pass1, ExampleInv
  <2>2. example' = Dropped(Entered(NoCount)) \/ at' = "plan"
    BY <1>1, <2>1 DEF Pass1
  <2>3. QED
    BY <2>2, ExampleCounts DEF BalanceInv, Balanced
<1>2. CASE BuildPlan
  <2>1. example = Entered(NoCount) /\ outcome = "unbound"
    BY <1>2 DEF BuildPlan, ExampleInv, Returned, Ended
  <2>2. \/ /\ at' = "failed" /\ outcome' = outcome
           /\ current' = Stage("pass1_plan_construction")
        \/ at' = "pass2"
        \/ example' = Dropped(Entered(NoCount))
    BY <1>2, <2>1 DEF BuildPlan, GoesTo, MeasuredRaises, Breaks, Completes
  <2>3. QED
    BY <2>1, <2>2, ExampleCounts DEF BalanceInv, Balanced, PlanBroke
<1>3. CASE Pass2
  <2>1. example = Entered(NoCount)
    BY <1>3 DEF Pass2, ExampleInv
  <2>2. example' \in {Dropped(Entered(NoCount)), Passed(Entered(NoCount))}
    BY <1>3, <2>1 DEF Pass2
  <2>3. QED
    BY <2>2, ExampleCounts DEF BalanceInv, Balanced
<1>4. CASE \/ PreambleStep \/ NaturalRun \/ Conversions \/ EndSteps \/ LoopSteps
  <2>1. at \notin {"plan", "pass2", "failed"} /\ UNCHANGED example
    <3>1. CASE PreambleStep
      BY <3>1, Zenon DEF PreambleStep
    <3>2. CASE NaturalRun \/ Conversions \/ EndSteps
      BY <3>2 DEF NaturalRun, Conversions, Convert, EndSteps, RaiseAbort, Derive, ConstructResult,
                  GoesTo
    <3>3. CASE StartPair \/ AbortLoop \/ EndLoop
      BY <3>3 DEF StartPair, AbortLoop, EndLoop, bodyVars, ResultReturned
    <3>4. CASE Admit \/ Reject \/ GuardRaises \/ JudgePair \/ MeasureRaises
      BY <3>4 DEF Admit, Reject, GuardRaises, JudgePair, MeasureRaises, bodyVars
    <3>5. CASE Evaluation
      <4>1. step # "none"
        BY <3>5 DEF Evaluation, BuildPair, Lookup, Clone, Evaluate, Release, Mutate, CheckParity,
                    Construct
      <4>2. QED
        BY <3>5, <4>1 DEF Evaluation, bodyVars
    <3>6. QED
      BY <1>4, <3>1, <3>2, <3>3, <3>4, <3>5 DEF LoopSteps
  <2>2. Balanced
    BY <2>1 DEF BalanceInv, PlanBroke
  <2>3. QED
    BY <2>1, <2>2 DEF BalanceInv, Balanced
<1>5. CASE Finished \/ UNCHANGED vars
  BY <1>5 DEF Finished, vars, bodyVars, trackVars, BalanceInv, Balanced, PlanBroke
<1>6. QED
  BY <1>1, <1>2, <1>3, <1>4, <1>5 DEF Next, RunSteps

(* Whatever run_example returned, the example left the funnel once, passed   *)
(* exactly when the pair loop was reached; and where a worker ends with one  *)
(* that did not leave, the construction of its plan raised and the failure   *)
(* report names it.                                                          *)
THEOREM ExampleAccounted == Spec => []ExampleIsAccounted
<1>1. Init => ExampleInv /\ BalanceInv
  BY DEF Init, ExampleInv, LeftOnce, BalanceInv, Balanced, NoCount
<1>2. PairsInv /\ ExampleInv /\ BalanceInv /\ [Next]_vars => ExampleInv' /\ BalanceInv'
  BY StepExample, StepBalance DEF PairsInv, PlaceInv
<1>3. ExampleInv /\ BalanceInv => ExampleIsAccounted
  <2> SUFFICES ASSUME ExampleInv, BalanceInv PROVE ExampleIsAccounted
    OBVIOUS
  <2>1. at \in Ended => Balanced \/ PlanBroke
    BY DEF BalanceInv, Ended
  <2>2. Evidence.failingStage = current
    BY DEF Evidence
  <2>3. QED
    BY <2>1, <2>2 DEF ExampleInv, LeftOnce, Balanced, PlanBroke, ExampleIsAccounted
<1>4. QED
  BY <1>1, <1>2, <1>3, BodyTypeCorrect, PTL DEF Spec

(* Neither the pairs nor the example: the two together.                      *)
THEOREM EntriesAccounted == Spec => []EveryEntryIsAccounted
<1>1. PairsAreAccounted /\ ExampleIsAccounted => EveryEntryIsAccounted
  BY DEF EveryEntryIsAccounted
<1>2. QED
  BY <1>1, PairsAccounted, ExampleAccounted, PTL

-------------------------------------------------------------------------------
(* The abort.  From the guard's own raise on, the current stage is one of    *)
(* the pair in flight, so it is when the loop ends on an exception.          *)

AbortInv ==
  /\ aborted => at \in {"aborted", "failed"} /\ outcome # "unbound"
  /\ k >= 1 => Last(attempted) = k
  /\ step \notin {"none", "guard"} => current \in StagesOf(k)
  /\ aborted /\ current # LoopAbort =>
       /\ outcome = "natural_run_invalid" =>
            current \in {Stage("rkv_complete_pass1"), Stage("model call")}
       /\ outcome = "pass2_execution_exception" =>
            current \in {Stage("rkv_complete_pass2"), Stage("model call")}
       /\ outcome = "valid" => k >= 1 /\ current \in StagesOf(k)

(* An evaluation enters stages of its pair only.                             *)
LEMMA BuildStages ==
  ASSUME BuildPair
  PROVE  /\ current' = current \/ current' \in StagesOf(k)
         /\ k' = k
         /\ step \notin {"none", "guard"}
<1> USE DEF Completes, Breaks, CompletesAround, BreaksAround, Untracked, trackVars, PhaseNames,
            BuildSteps, Phase, StagesOf
<1>1. CASE Lookup
  BY <1>1 DEF Lookup
<1>2. CASE Clone("baseline_clone", "baseline") \/ Clone("swapped_clone", "swapped")
  BY <1>2 DEF Clone
<1>3. CASE \/ Evaluate("baseline", "baseline_release")
           \/ Evaluate("swapped", "swapped_release")
  BY <1>3 DEF Evaluate
<1>4. CASE \/ Release("baseline_release", "baseline")
           \/ Release("swapped_release", "swapped")
  BY <1>4 DEF Release
<1>5. CASE Mutate
  BY <1>5 DEF Mutate
<1>6. CASE CheckParity
  BY <1>6 DEF CheckParity
<1>7. CASE Construct
  BY <1>7 DEF Construct
<1>8. QED
  BY <1>1, <1>2, <1>3, <1>4, <1>5, <1>6, <1>7 DEF BuildPair

(* The two passes abort the example under a stage of their own.              *)
LEMMA PassStages ==
  ASSUME AbortInv, step = "none", Pass1 \/ Pass2
  PROVE  AbortInv'
<1>1. /\ Pass1 => current' \in {Stage("rkv_complete_pass1"), Stage("model call")}
      /\ Pass2 => current' \in {Stage("rkv_complete_pass2"), Stage("model call")}
  BY DEF Pass1, Pass2, MeasuredRaisesAround, BreaksAround, CompletesAround, Breaks, Completes
<1>2. UNCHANGED <<k, step, attempted>>
  BY DEF Pass1, Pass2, pairVars, tallyVars
<1>3. ~aborted
  BY DEF AbortInv, Pass1, Pass2
<1>4. \/ ~aborted'
      \/ Pass1 /\ aborted' /\ at' = "aborted" /\ outcome' = "natural_run_invalid"
      \/ Pass2 /\ aborted' /\ at' = "aborted" /\ outcome' = "pass2_execution_exception"
  BY <1>3 DEF Pass1, Pass2, ResultReturned
<1>5. QED
  BY <1>1, <1>2, <1>4 DEF AbortInv

LEMMA StepAbort ==
  ASSUME TypeOK, PairsInv, AbortInv, [Next]_vars
  PROVE  AbortInv'
<1>1. k \in Nat /\ (step # "none" => k >= 1 /\ at = "loop") /\ aborted \in BOOLEAN
  BY PlanLengthType DEF TypeOK, PairsInv, PlaceInv, PairStarted
<1>2. at # "loop" => step = "none"
  BY <1>1
<1>3. CASE \/ PreambleStep \/ NaturalRun \/ BuildPlan \/ Conversions \/ ConstructResult
           \/ Derive("compare", "call_trace_comparison", "derive")
           \/ Derive("derive", "post-run evidence derivation", "construct")
  <2>1. at \in {"preamble", "natural", "plan", "minimize", "compact", "compare", "derive", "construct"}
    BY <1>3, Zenon DEF PreambleStep, NaturalRun, BuildPlan, Conversions, Convert, Derive, ConstructResult
  <2>2. ~aborted /\ step = "none"
    BY <1>2, <2>1 DEF AbortInv
  <2>3. UNCHANGED <<k, step, attempted>>
    BY <1>3 DEF PreambleStep, NaturalRun, BuildPlan, Conversions, Convert, Derive, ConstructResult,
                pairVars, tallyVars
  <2>4. ~aborted'
    <3>1. CASE PreambleStep
      BY <3>1, <2>2, Zenon DEF PreambleStep
    <3>2. CASE NaturalRun \/ BuildPlan
      BY <3>2, <2>2 DEF NaturalRun, BuildPlan, GoesTo, ResultReturned
    <3>3. CASE \/ Conversions \/ ConstructResult
               \/ Derive("compare", "call_trace_comparison", "derive")
               \/ Derive("derive", "post-run evidence derivation", "construct")
      BY <3>3, <2>2 DEF Conversions, Convert, Derive, ConstructResult, GoesTo
    <3>4. QED
      BY <1>3, <3>1, <3>2, <3>3
  <2>5. QED
    BY <2>2, <2>3, <2>4 DEF AbortInv
<1>4. CASE Pass1 \/ Pass2
  <2>1. at \in {"pass1", "pass2"}
    BY <1>4 DEF Pass1, Pass2
  <2>2. QED
    BY <1>2, <1>4, <2>1, PassStages
<1>5. CASE RaiseAbort
  <2>1. UNCHANGED <<k, step, attempted, outcome, aborted>> /\ at = "aborted" /\ at' = "failed"
    BY <1>5 DEF RaiseAbort, GoesTo, pairVars, tallyVars
  <2>2. current' \in {current, LoopAbort}
    BY <1>5 DEF RaiseAbort, Breaks, Untracked, trackVars
  <2>3. QED
    BY <1>2, <2>1, <2>2 DEF AbortInv
<1>6. CASE AbortLoop
  <2>1. /\ step = "raised" /\ step' = "none" /\ at' = "aborted" /\ outcome' = "valid"
        /\ UNCHANGED <<k, current, attempted>>
    BY <1>6 DEF AbortLoop, ResultReturned, trackVars
  <2>2. k >= 1 /\ current \in StagesOf(k)
    BY <1>1, <2>1 DEF AbortInv
  <2>3. QED
    BY <2>1, <2>2 DEF AbortInv
<1>7. CASE EndLoop
  BY <1>7 DEF EndLoop, ResultReturned, pairVars, tallyVars, AbortInv
<1>8. CASE StartPair
  <2>1. at = "loop" /\ k' = k + 1 /\ step' = "guard" /\ UNCHANGED aborted
        /\ attempted' = Append(attempted, k + 1)
    BY <1>8 DEF StartPair, bodyVars
  <2>2. Last(attempted') = k + 1
    <3>1. attempted \in Seq(1..PlanLength) /\ k + 1 \in 1..PlanLength
      BY <1>1, <1>8, PlanLengthType DEF TypeOK, StartPair, MorePairs
    <3> DEFINE S == 1..PlanLength
    <3>2. attempted \in Seq(S) /\ k + 1 \in S
      BY <3>1
    <3> HIDE DEF S
    <3>3. QED
      BY <2>1, <3>2, AppendToSet
  <2>3. ~aborted
    BY <2>1 DEF AbortInv
  <2>4. QED
    BY <2>1, <2>2, <2>3 DEF AbortInv
<1>9. CASE Evaluation \/ Admit \/ Reject \/ GuardRaises \/ JudgePair \/ MeasureRaises
  <2>1. step # "none" /\ UNCHANGED <<at, aborted, k, attempted>>
    <3>1. CASE Evaluation
      BY <3>1, BuildStages DEF Evaluation, bodyVars, tallyVars
    <3>2. CASE Admit \/ Reject \/ GuardRaises \/ JudgePair \/ MeasureRaises
      BY <3>2 DEF Admit, Reject, GuardRaises, JudgePair, MeasureRaises, bodyVars, tallyVars
    <3>3. QED
      BY <1>9, <3>1, <3>2
  <2>2. ~aborted
    BY <1>1, <2>1 DEF AbortInv
  <2>3. step' \notin {"none", "guard"} => current' \in StagesOf(k)
    <3>1. CASE Evaluation
      BY <3>1, BuildStages DEF Evaluation, AbortInv
    <3>2. CASE Admit \/ Reject \/ GuardRaises
      BY <3>2 DEF Admit, Reject, GuardRaises, Completes, Breaks, StagesOf
    <3>3. CASE JudgePair \/ MeasureRaises
      BY <3>3 DEF JudgePair, MeasureRaises, AbortInv
    <3>4. QED
      BY <1>9, <3>1, <3>2, <3>3
  <2>4. QED
    BY <2>1, <2>2, <2>3 DEF AbortInv
<1>10. CASE Finished \/ UNCHANGED vars
  <2>1. UNCHANGED <<at, aborted, outcome, current, k, step, attempted>>
    BY <1>10 DEF Finished, vars, bodyVars, trackVars, pairVars, tallyVars
  <2>2. QED
    BY <2>1 DEF AbortInv
<1>11. QED
  BY <1>3, <1>4, <1>5, <1>6, <1>7, <1>8, <1>9, <1>10
     DEF Next, RunSteps, LoopSteps, EndSteps

(* The report of an aborted example names a stage of what raised: of the     *)
(* pass, or of the pair attempted last.                                      *)
THEOREM AbortsNameWhatRaised == Spec => []AbortNamesWhatRaised
<1>1. Init => AbortInv
  BY DEF Init, PairInit, AbortInv
<1>2. TypeOK /\ PairsInv /\ AbortInv /\ [Next]_vars => AbortInv'
  BY StepAbort
<1>3. AbortInv => AbortNamesWhatRaised
  <2>1. Evidence.failingStage = current
    BY DEF Evidence
  <2>2. outcome # "unbound" => Evidence.attempted = attempted
    BY DEF Evidence
  <2>3. QED
    BY <2>1, <2>2 DEF AbortInv, AbortNamesWhatRaised
<1>4. QED
  BY <1>1, <1>2, <1>3, BodyTypeCorrect, PTL DEF Spec

-------------------------------------------------------------------------------
(* The completed pairs.  Their checks are counted where the pair is judged,  *)
(* so the pair in flight has none yet; the lists are in the order of the     *)
(* plan; and a result is only returned by a loop that came to its end.       *)

Unjudged == IF step # "none" /\ Real(k) THEN 1 ELSE 0

SoundInv ==
  /\ Cardinality(RealIn(completed)) <= checks.passed
  /\ checks.passed <= checks.attempted
  /\ checks.attempted + Unjudged <= Cardinality(RealIn(attempted))
  /\ ToSet(completed) \subseteq journaled

OrderInv ==
  /\ attempted = [i \in 1..k |-> i]
  /\ details = << >> => completed = [i \in 1..Settled |-> i]

AfterExample == {"compare", "derive", "construct", "returned"}

ReturnInv ==
  /\ at = "natural" => role = "fullkv"
  /\ role = "rkv" /\ at \in AfterExample => ~aborted /\ k \in {0, PlanLength}

LEMMA RealAppended ==
  ASSUME NEW s \in Seq(1..PlanLength), NEW i \in 1..PlanLength
  PROVE  /\ Cardinality(RealIn(s)) \in Nat
         /\ Cardinality(RealIn(Append(s, i))) =
              Cardinality(RealIn(s)) + (IF Real(i) THEN 1 ELSE 0)
<1> DEFINE n == Len(s)
           t == Append(s, i)
<1>1. n \in Nat /\ DOMAIN s = 1..n
  OBVIOUS
<1>2. /\ DOMAIN t = 1..(n + 1)
      /\ t[n + 1] = i
      /\ \A j \in 1..n : t[j] = s[j]
  OBVIOUS
<1> HIDE DEF n, t
<1>3. IsFiniteSet(1..n)
  BY <1>1, FS_Interval
<1>4. RealIn(s) \in SUBSET (1..n)
  BY <1>1 DEF RealIn
<1>5. IsFiniteSet(RealIn(s))
  BY <1>3, <1>4, FS_Subset
<1>6. Cardinality(RealIn(s)) \in Nat
  BY <1>5, FS_CardinalityType
<1>7. RealIn(t) = IF Real(i) THEN RealIn(s) \cup {n + 1} ELSE RealIn(s)
  <2>1. ASSUME NEW j
        PROVE  j \in RealIn(t) <=> j \in RealIn(s) \/ (j = n + 1 /\ Real(i))
    <3>1. CASE j \in 1..n
      BY <1>1, <1>2, <3>1 DEF RealIn
    <3>2. CASE j = n + 1
      BY <1>1, <1>2, <3>2 DEF RealIn
    <3>3. CASE j \notin 1..(n + 1)
      BY <1>1, <1>2, <3>3 DEF RealIn
    <3>4. QED
      BY <1>1, <3>1, <3>2, <3>3
  <2>2. QED
    BY <2>1
<1>8. n + 1 \notin RealIn(s)
  BY <1>1, <1>4
<1>9. Cardinality(RealIn(s) \cup {n + 1}) = Cardinality(RealIn(s)) + 1
  BY <1>5, <1>8, FS_AddElement
<1>10. Cardinality(RealIn(t)) = Cardinality(RealIn(s)) + (IF Real(i) THEN 1 ELSE 0)
  BY <1>6, <1>7, <1>9
<1>11. QED
  BY <1>6, <1>10 DEF t

LEMMA InitSound ==
  ASSUME Init
  PROVE  SoundInv /\ OrderInv /\ ReturnInv
<1>1. Cardinality(RealIn(<< >>)) = 0
  <2>1. RealIn(<< >>) = {}
    BY DEF RealIn
  <2>2. QED
    BY <2>1, FS_EmptySet
<1>2. SoundInv
  BY <1>1, NothingAttempted DEF Init, PairInit, SoundInv, Unjudged
<1>3. << >> = [i \in 1..0 |-> i]
  OBVIOUS
<1>4. OrderInv
  BY <1>3 DEF Init, PairInit, OrderInv, Settled
<1>5. ReturnInv
  BY DEF Init, PairInit, ReturnInv, AfterExample
<1>6. QED
  BY <1>2, <1>4, <1>5

(* A step that judges no pair and starts none.                               *)
LEMMA SoundKept ==
  ASSUME SoundInv, OrderInv,
         UNCHANGED <<k, attempted, completed, details, checks, journaled>>,
         (step' = "none") <=> (step = "none")
  PROVE  SoundInv' /\ OrderInv'
<1>1. Unjudged' = Unjudged /\ Settled' = Settled
  BY DEF Unjudged, Settled, Real, NoOp
<1>2. SoundInv'
  BY <1>1 DEF SoundInv, RealIn, Real, NoOp
<1>3. OrderInv'
  BY <1>1 DEF OrderInv
<1>4. QED
  BY <1>2, <1>3

LEMMA StartSound ==
  ASSUME TypeOK, PairsInv, SoundInv, OrderInv, StartPair
  PROVE  SoundInv' /\ OrderInv'
<1>1. /\ k \in Nat /\ k + 1 \in 1..PlanLength /\ step = "none"
      /\ k' = k + 1 /\ step' = "guard" /\ attempted' = Append(attempted, k + 1)
      /\ UNCHANGED <<completed, details, checks, journaled>>
  BY PlanLengthType DEF TypeOK, StartPair, MorePairs
<1>2. /\ attempted \in Seq(1..PlanLength) /\ completed \in Seq(1..PlanLength)
      /\ checks.attempted \in Nat
  BY DEF TypeOK
<1>3. /\ Cardinality(RealIn(attempted)) \in Nat
      /\ Cardinality(RealIn(Append(attempted, k + 1))) =
           Cardinality(RealIn(attempted)) + (IF Real(k + 1) THEN 1 ELSE 0)
  BY <1>1, <1>2, RealAppended
<1>4. Unjudged = 0 /\ Unjudged' = IF Real(k + 1) THEN 1 ELSE 0
  BY <1>1 DEF Unjudged, Real, NoOp
<1>5. SoundInv'
  <2>1. RealIn(completed)' = RealIn(completed) /\ RealIn(attempted)' = RealIn(attempted')
    BY <1>1 DEF RealIn, Real, NoOp
  <2>2. checks.attempted + Unjudged' <= Cardinality(RealIn(attempted'))
    BY <1>1, <1>2, <1>3, <1>4 DEF SoundInv
  <2>3. QED
    BY <1>1, <2>1, <2>2 DEF SoundInv
<1>6. attempted' = [i \in 1..(k + 1) |-> i]
  <2>1. Len(attempted) = k /\ attempted = [i \in 1..k |-> i]
    BY DEF PairsInv, AttemptedInv, OrderInv
  <2>2. QED
    BY <1>1, <1>2, <2>1
<1>7. Settled = k /\ Settled' = k
  BY <1>1 DEF Settled
<1>8. OrderInv'
  BY <1>1, <1>6, <1>7 DEF OrderInv
<1>9. QED
  BY <1>5, <1>8

(* The pair in flight is judged: kept only with its check passed and its     *)
(* measurement journaled.                                                    *)
LEMMA JudgedSound ==
  ASSUME TypeOK, PairsInv, SoundInv, OrderInv, step # "none", step' = "none",
         UNCHANGED <<k, attempted>>,
         \/ DropPair
         \/ KeepPair /\ swap = "passed" /\ k \in journaled' /\ checks' = CountCheck,
         checks' = checks \/ checks' = CountCheck,
         journaled \subseteq journaled'
  PROVE  SoundInv' /\ OrderInv'
<1>1. /\ k \in 1..PlanLength /\ Settled = k - 1 /\ Settled' = k
      /\ Unjudged' = 0 /\ Unjudged = IF Real(k) THEN 1 ELSE 0
  BY PlanLengthType DEF TypeOK, PairsInv, PlaceInv, PairStarted, Settled, Unjudged
<1>2. /\ attempted \in Seq(1..PlanLength) /\ completed \in Seq(1..PlanLength)
      /\ details \in Seq(1..PlanLength)
      /\ checks.attempted \in Nat /\ checks.passed \in Nat
  BY DEF TypeOK
<1>3. /\ Cardinality(RealIn(attempted)) \in Nat
      /\ Cardinality(RealIn(completed)) \in Nat
      /\ Cardinality(RealIn(Append(completed, k))) =
           Cardinality(RealIn(completed)) + (IF Real(k) THEN 1 ELSE 0)
  BY <1>1, <1>2, RealAppended
<1>4. /\ checks'.attempted <= checks.attempted + Unjudged
      /\ checks'.passed >= checks.passed
      /\ checks'.passed <= checks'.attempted
      /\ KeepPair /\ swap = "passed" /\ checks' = CountCheck =>
           checks'.passed = checks.passed + Unjudged
      /\ checks'.attempted \in Nat /\ checks'.passed \in Nat
  BY <1>1, <1>2 DEF CountCheck, SoundInv
<1>5. attempted' = attempted /\ k' = k
  OBVIOUS
<1>6. CASE DropPair
  <2>1. completed' = completed /\ details' = Append(details, k)
    BY <1>6 DEF DropPair
  <2>2. SoundInv'
    <3>1. RealIn(completed)' = RealIn(completed) /\ RealIn(attempted)' = RealIn(attempted)
      BY <1>5, <2>1 DEF RealIn, Real, NoOp
    <3>2. Cardinality(RealIn(completed)) <= checks'.passed
      BY <1>2, <1>3, <1>4 DEF SoundInv
    <3>3. checks'.attempted + Unjudged' <= Cardinality(RealIn(attempted))
      BY <1>1, <1>2, <1>3, <1>4 DEF SoundInv
    <3>4. ToSet(completed') \subseteq journaled'
      BY <2>1 DEF SoundInv
    <3>5. QED
      BY <1>4, <3>1, <3>2, <3>3, <3>4 DEF SoundInv
  <2>3. details' # << >>
    <3>1. Len(Append(details, k)) = Len(details) + 1 /\ Len(details) \in Nat
      BY <1>1, <1>2
    <3>2. QED
      BY <2>1, <3>1
  <2>4. OrderInv'
    BY <1>5, <2>3 DEF OrderInv
  <2>5. QED
    BY <2>2, <2>4
<1>7. CASE KeepPair /\ swap = "passed" /\ k \in journaled' /\ checks' = CountCheck
  <2>1. completed' = Append(completed, k) /\ details' = details
    BY <1>7 DEF KeepPair
  <2>2. ToSet(completed') = ToSet(completed) \cup {k}
    BY <1>1, <1>2, <2>1, PairAppended
  <2>3. SoundInv'
    <3>1. Cardinality(RealIn(completed')) <= checks'.passed
      BY <1>1, <1>2, <1>3, <1>4, <1>7, <2>1 DEF SoundInv
    <3>2. ToSet(completed') \subseteq journaled'
      BY <1>7, <2>2 DEF SoundInv
    <3>3. checks'.attempted + Unjudged' <= Cardinality(RealIn(attempted'))
      BY <1>1, <1>2, <1>3, <1>4, <1>5 DEF SoundInv
    <3>4. RealIn(completed)' = RealIn(completed') /\ RealIn(attempted)' = RealIn(attempted')
      BY DEF RealIn, Real, NoOp
    <3>5. QED
      BY <1>4, <3>1, <3>2, <3>3, <3>4 DEF SoundInv
  <2>4. ASSUME details = << >> PROVE completed' = [i \in 1..k |-> i]
    <3>1. completed = [i \in 1..(k - 1) |-> i]
      BY <1>1, <2>4 DEF OrderInv
    <3>2. Len(completed) = k - 1
      <4>1. Len(details) = 0
        BY <2>4
      <4>2. QED
        BY <1>1, <1>2, <4>1 DEF PairsInv, SettledInv
    <3>3. QED
      BY <1>1, <1>2, <2>1, <3>1, <3>2
  <2>5. OrderInv'
    BY <1>1, <1>5, <2>1, <2>4 DEF OrderInv
  <2>6. QED
    BY <2>3, <2>5
<1>8. QED
  BY <1>6, <1>7

LEMMA StepSound ==
  ASSUME TypeOK, PairsInv, SoundInv, OrderInv, [Next]_vars
  PROVE  SoundInv' /\ OrderInv'
<1>1. CASE RunSteps \/ Conversions \/ EndSteps \/ EndLoop \/ Finished \/ UNCHANGED vars
  <2>1. UNCHANGED <<pairVars, tallyVars>>
    BY <1>1 DEF RunSteps, Conversions, EndSteps, PreambleStep, NaturalRun, Pass1, BuildPlan,
                Pass2, Convert, RaiseAbort, Derive, ConstructResult, EndLoop, Finished, vars
  <2>2. QED
    BY <2>1, SoundKept DEF pairVars, tallyVars
<1>2. CASE StartPair
  BY <1>2, StartSound
<1>3. CASE Admit \/ GuardRaises \/ MeasureRaises \/ Evaluation
  <2>1. CASE Admit
    BY <2>1, SoundKept DEF Admit
  <2>2. CASE GuardRaises \/ MeasureRaises
    BY <2>2, SoundKept DEF GuardRaises, MeasureRaises, Escapes, tallyVars
  <2>3. CASE Evaluation
    <3>1. UNCHANGED <<attempted, completed, details, checks, journaled>>
      BY <2>3 DEF Evaluation, tallyVars
    <3>2. step # "none" /\ step' # "none" /\ k' = k
      BY <2>3 DEF Evaluation, BuildPair, Lookup, Clone, Evaluate, Release, Mutate, CheckParity,
                  Construct, Proceeds, Returns, Escapes
    <3>3. QED
      BY <3>1, <3>2, SoundKept
  <2>4. QED
    BY <1>3, <2>1, <2>2, <2>3
<1>4. CASE Reject
  BY <1>4, JudgedSound DEF Reject
<1>5. CASE JudgePair
  <2>1. step # "none" /\ step' = "none" /\ UNCHANGED <<k, attempted>>
    BY <1>5 DEF JudgePair
  <2>2. checks' = CountCheck /\ journaled \subseteq journaled' /\ k \in journaled'
    BY <1>5 DEF JudgePair
  <2>3. DropPair \/ (KeepPair /\ swap = "passed")
    BY <1>5 DEF JudgePair
  <2>4. QED
    BY <2>1, <2>2, <2>3, JudgedSound
<1>6. CASE AbortLoop
  BY <1>6, JudgedSound DEF AbortLoop
<1>7. QED
  BY <1>1, <1>2, <1>3, <1>4, <1>5, <1>6 DEF Next, LoopSteps

(* Where a result is returned from.                                          *)
LEMMA StepReturn ==
  ASSUME TypeOK, PairsInv, ReturnInv, [Next]_vars
  PROVE  ReturnInv'
<1> USE DEF ReturnInv, AfterExample
<1>1. k \in 0..PlanLength /\ PlanLength \in Nat
  BY PlanLengthType DEF TypeOK
<1>2. at \in BeforeLoop => k = 0
  BY DEF PairsInv, PlaceInv
<1>3. CASE RunSteps \/ Conversions \/ EndSteps
  <2>1. k' = k /\ role' = role
    BY <1>3 DEF RunSteps, Conversions, EndSteps, PreambleStep, NaturalRun, Pass1, BuildPlan,
                Pass2, Convert, RaiseAbort, Derive, ConstructResult, GoesTo, ResultReturned,
                pairVars
  <2>2. CASE PreambleStep
    <3>1. at' \in {"preamble", "natural", "pass1", "refused", "failed"}
      BY <2>2, Zenon DEF PreambleStep
    <3>2. at' = "natural" => role = "fullkv"
      BY <2>2, SMT DEF PreambleStep
    <3>3. QED
      BY <2>1, <3>1, <3>2
  <2>3. CASE NaturalRun
    BY <2>1, <2>3 DEF NaturalRun, GoesTo
  <2>4. CASE Pass1 \/ BuildPlan \/ Pass2
    <3>1. /\ at' \in {"aborted", "compare", "plan", "pass2", "minimize", "failed"}
          /\ at' = "compare" => ~aborted'
      BY <2>4 DEF Pass1, BuildPlan, Pass2, GoesTo, ResultReturned
    <3>2. k = 0
      BY <1>2, <2>4 DEF Pass1, BuildPlan, Pass2, BeforeLoop
    <3>3. QED
      BY <2>1, <3>1, <3>2
  <2>5. CASE Conversions
    BY <2>1, <2>5 DEF Conversions, Convert, GoesTo
  <2>6. CASE RaiseAbort
    BY <2>1, <2>6 DEF RaiseAbort, GoesTo
  <2>7. CASE \/ Derive("compare", "call_trace_comparison", "derive")
             \/ Derive("derive", "post-run evidence derivation", "construct")
             \/ ConstructResult
    <3>1. /\ at \in AfterExample /\ aborted' = aborted
          /\ at' \in {"derive", "construct", "failed", "returned"}
      BY <2>7 DEF Derive, ConstructResult, GoesTo
    <3>2. QED
      BY <2>1, <3>1
  <2>8. QED
    BY <1>3, <2>2, <2>3, <2>4, <2>5, <2>6, <2>7 DEF RunSteps, EndSteps
<1>4. CASE EndLoop
  <2>1. /\ at' = "compare" /\ aborted' = FALSE /\ k' = k /\ ~(k < PlanLength)
    BY <1>4 DEF EndLoop, ResultReturned, MorePairs, pairVars
  <2>2. QED
    BY <1>1, <2>1
<1>5. CASE AbortLoop
  BY <1>5 DEF AbortLoop, ResultReturned
<1>6. CASE StartPair \/ Admit \/ Reject \/ GuardRaises \/ Evaluation \/ JudgePair \/ MeasureRaises
  <2>1. UNCHANGED bodyVars
    BY <1>6 DEF StartPair, Admit, Reject, GuardRaises, Evaluation, JudgePair, MeasureRaises
  <2>2. at = "loop"
    <3>1. StartPair => at = "loop"
      BY DEF StartPair
    <3>2. ~StartPair => step # "none"
      BY <1>6 DEF Admit, Reject, GuardRaises, Evaluation, JudgePair, MeasureRaises, BuildPair,
                  Lookup, Clone, Evaluate, Release, Mutate, CheckParity, Construct
    <3>3. QED
      BY <3>1, <3>2 DEF PairsInv, PlaceInv
  <2>3. QED
    BY <2>1, <2>2 DEF bodyVars
<1>7. CASE Finished \/ UNCHANGED vars
  BY <1>7 DEF Finished, vars, bodyVars, pairVars
<1>8. QED
  BY <1>3, <1>4, <1>5, <1>6, <1>7 DEF Next, LoopSteps

-------------------------------------------------------------------------------
(* The plan's numbering: the real pairs of an event are one block of it.     *)

Block(e) ==
  IF e = 1 THEN 1..RealPairs ELSE ((e - 1) * RealPairs + 2)..(e * RealPairs + 1)

LEMMA Multiples ==
  ASSUME NEW a \in Int, NEW b \in Int, NEW r \in Nat
  PROVE  /\ a * r \in Int /\ (a + 1) * r = a * r + r /\ (a - 1) * r = a * r - r
         /\ a <= b => a * r <= b * r
  OBVIOUS

LEMMA Quotient ==
  ASSUME NEW a \in Nat, NEW r \in Nat \ {0}
  PROVE  /\ a \div r \in Nat
         /\ (a \div r) * r <= a
         /\ a < (a \div r) * r + r
  OBVIOUS

LEMMA BlockOf ==
  ASSUME NEW i \in 1..PlanLength, Real(i)
  PROVE  /\ EventOf(i) \in 1..Events
         /\ \A e \in 1..Events : EventOf(i) = e <=> i \in Block(e)
<1> DEFINE r == RealPairs
<1>1. r \in Nat \ {0} /\ Events \in Nat \ {0} /\ i \in Nat /\ i <= Events * r + 1 /\ i # r + 1
  BY PlanAssumption, PlanLengthType DEF PlanLength, Real, NoOp
<1>2. Events * r \in Nat /\ 1 * r = r
  BY <1>1
<1>3. CASE i <= r
  <2>1. EventOf(i) = 1
    BY <1>1, <1>3 DEF EventOf, NoOp
  <2>2. ASSUME NEW e \in 1..Events, e # 1 PROVE i \notin Block(e)
    <3>1. (e - 1) * r >= 1 * r
      BY <1>1, <2>2, Multiples
    <3>2. (e - 1) * r \in Int /\ e * r \in Int
      BY <1>1
    <3>3. QED
      BY <1>1, <1>2, <1>3, <2>2, <3>1, <3>2 DEF Block
  <2>3. i \in Block(1)
    BY <1>1, <1>3 DEF Block
  <2>4. QED
    BY <1>1, <2>1, <2>2, <2>3
<1>4. CASE i > r + 1
  <2> DEFINE d == (i - 2) \div r
  <2>1. i - 2 \in Nat
    BY <1>1, <1>4
  <2>2. d \in Nat /\ d * r <= i - 2 /\ i - 2 < d * r + r
    BY <1>1, <2>1, Quotient
  <2>3. EventOf(i) = 1 + d
    BY <1>1, <1>4 DEF EventOf, NoOp
  <2> HIDE DEF d
  <2>4. d * r \in Int
    BY <1>1, <2>2
  <2>5. d >= 1
    <3>1. CASE d = 0
      <4>1. 0 * r = 0
        BY <1>1
      <4>2. QED
        BY <1>1, <1>4, <2>2, <3>1, <4>1
    <3>2. QED
      BY <2>2, <3>1
  <2>6. d + 1 <= Events
    <3>1. CASE Events <= d
      <4>1. Events * r <= d * r
        BY <1>1, <2>2, <3>1, Multiples
      <4>2. QED
        BY <1>1, <1>2, <2>2, <2>4, <4>1
    <3>2. QED
      BY <1>1, <2>2, <3>1
  <2>7. ASSUME NEW e \in 1..Events PROVE 1 + d = e <=> i \in Block(e)
    <3>1. e * r \in Int /\ (e - 1) * r = e * r - r
      BY <1>1, Multiples
    <3>2. CASE e = 1 + d
      <4>1. (e - 1) * r = d * r
        BY <2>2, <3>2
      <4>2. QED
        BY <1>1, <2>1, <2>2, <2>4, <2>5, <3>1, <3>2, <4>1 DEF Block
    <3>3. CASE e < 1 + d
      <4>1. CASE e = 1
        BY <1>1, <1>4, <3>3, <4>1 DEF Block
      <4>2. CASE e # 1
        <5>1. e * r <= d * r
          BY <1>1, <2>2, <3>3, Multiples
        <5>2. QED
          BY <1>1, <2>2, <2>4, <3>1, <3>3, <4>2, <5>1 DEF Block
      <4>3. QED
        BY <4>1, <4>2
    <3>4. CASE e > 1 + d
      <4>1. (d + 1) * r <= (e - 1) * r /\ (d + 1) * r = d * r + r
        BY <1>1, <2>2, <3>4, Multiples
      <4>2. QED
        BY <1>1, <2>1, <2>2, <2>4, <2>5, <3>1, <3>4, <4>1 DEF Block
    <3>5. QED
      BY <1>1, <2>2, <3>2, <3>3, <3>4
  <2>8. QED
    BY <2>2, <2>3, <2>6, <2>7, <1>1
<1>5. QED
  BY <1>1, <1>3, <1>4

LEMMA BlockSize ==
  ASSUME NEW e \in 1..Events
  PROVE  /\ IsFiniteSet(Block(e)) /\ Cardinality(Block(e)) = RealPairs
         /\ Block(e) \subseteq 1..PlanLength
         /\ \A i \in Block(e) : Real(i)
<1> DEFINE r == RealPairs
<1>1. r \in Nat \ {0} /\ Events \in Nat \ {0} /\ Events * r \in Nat
  BY PlanAssumption
<1>2. /\ e * r \in Int /\ (e - 1) * r = e * r - r /\ e * r <= Events * r
      /\ 1 * r = r
  BY <1>1, Multiples
<1>3. CASE e = 1
  <2>1. IsFiniteSet(1..r) /\ Cardinality(1..r) = r
    BY <1>1, FS_Interval
  <2>2. QED
    BY <1>1, <1>2, <1>3, <2>1 DEF Block, PlanLength, Real, NoOp
<1>4. CASE e # 1
  <2> DEFINE a == (e - 1) * r + 2
             b == e * r + 1
  <2>1. a \in Int /\ b \in Int /\ b = a + r - 1
    BY <1>1, <1>2
  <2>2. IsFiniteSet(a..b) /\ Cardinality(a..b) = IF a > b THEN 0 ELSE b - a + 1
    BY <2>1, FS_Interval
  <2>3. Cardinality(a..b) = r
    BY <1>1, <2>1, <2>2
  <2>4. (e - 1) * r >= 1 * r
    BY <1>1, <1>4, Multiples
  <2>5. a >= r + 2 /\ b <= PlanLength
    BY <1>1, <1>2, <2>1, <2>4 DEF PlanLength
  <2>6. a..b \subseteq 1..PlanLength /\ \A i \in a..b : i # r + 1
    BY <1>1, <2>1, <2>5, PlanLengthType
  <2>7. Block(e) = a..b
    BY <1>4 DEF Block
  <2>8. QED
    BY <2>2, <2>3, <2>6, <2>7 DEF Real, NoOp
<1>5. QED
  BY <1>3, <1>4

-------------------------------------------------------------------------------
(* The gates.                                                                *)

(* The pairs of an event among the completed real ones.                      *)
DoneOf(e) == {completed[j] : j \in {i \in CompletedReal : EventOf(completed[i]) = e}}

LEMMA DoneInBlock ==
  ASSUME TypeOK, NEW e \in 1..Events
  PROVE  DoneOf(e) \subseteq Block(e) \cap ToSet(completed)
<1>1. SUFFICES ASSUME NEW j \in DOMAIN completed, Real(completed[j]), EventOf(completed[j]) = e
               PROVE  completed[j] \in Block(e) /\ completed[j] \in ToSet(completed)
  BY DEF DoneOf, CompletedReal, RealIn
<1>2. completed[j] \in 1..PlanLength
  <2>1. completed \in Seq(1..PlanLength)
    BY DEF TypeOK
  <2>2. QED
    BY ONLY <1>1, <2>1, EntryOf, Zenon
<1>3. completed[j] \in Block(e)
  BY <1>1, <1>2, BlockOf
<1>4. QED
  BY <1>3 DEF ToSet

(* What both gates ask of the completed pairs makes them the whole plan.     *)
LEMMA EventsMakeThePlan ==
  ASSUME TypeOK, PairsInv, OrderInv, ReturnInv, at = "returned", role = "rkv",
         EveryEventHasItsPairs, Result.noOpParity
  PROVE  WholePlanCompleted
<1>1. ASSUME NEW e \in 1..Events PROVE Block(e) \subseteq ToSet(completed)
  <2>1. Cardinality(DoneOf(e)) = RealPairs
    BY DEF EveryEventHasItsPairs, Identities, DoneOf
  <2>2. IsFiniteSet(Block(e)) /\ Cardinality(Block(e)) = RealPairs
    BY BlockSize
  <2>3. DoneOf(e) \in SUBSET Block(e)
    BY DoneInBlock
  <2>4. Block(e) = DoneOf(e)
    BY <2>1, <2>2, <2>3, FS_Subset
  <2>5. QED
    BY <2>4, DoneInBlock
<1>2. NoOp \in ToSet(completed)
  BY Zenon DEF Result
<1>3. 1..PlanLength \subseteq ToSet(completed)
  <2>1. ASSUME NEW i \in 1..PlanLength, Real(i) PROVE i \in ToSet(completed)
    BY <1>1, <2>1, BlockOf
  <2>2. QED
    BY <1>2, <2>1 DEF Real
<1>4. /\ ToSet(completed) \cup ToSet(details) = 1..Settled
      /\ ToSet(completed) \cap ToSet(details) = {}
      /\ Len(completed) + Len(details) = Settled
      /\ pairs = [entered |-> k, passed |-> Len(completed), dropped |-> Len(details)]
  BY DEF PairsInv, SettledInv
<1>5. /\ step = "none" /\ Settled = k /\ ~aborted /\ k \in {0, PlanLength}
      /\ k # 0 => outcome = "valid"
  BY DEF PairsInv, PlaceInv, Settled, ReturnInv, AfterExample
<1>6. 1 \in ToSet(completed)
  BY <1>3, PlanLengthType
<1>7. k = PlanLength
  BY <1>4, <1>5, <1>6
<1>8. details = << >>
  <2>1. ToSet(details) = {}
    BY <1>3, <1>4, <1>5, <1>7
  <2>2. details \in Seq(1..PlanLength)
    BY DEF TypeOK
  <2>3. Len(details) = 0
    <3>1. CASE Len(details) # 0
      <4>1. 1 \in DOMAIN details
        BY <2>2, <3>1
      <4>2. details[1] \in ToSet(details)
        BY <4>1 DEF ToSet
      <4>3. QED
        BY <2>1, <4>2
    <3>2. QED
      BY <3>1
  <2>4. QED
    BY <2>2, <2>3
<1>9. completed = [i \in 1..PlanLength |-> i]
  BY <1>5, <1>7, <1>8 DEF OrderInv
<1>10. Len(details) = 0
  BY <1>8
<1>11. Len(completed) = PlanLength
  <2>1. completed \in Seq(1..PlanLength)
    BY DEF TypeOK
  <2>2. QED
    BY <1>4, <1>5, <1>7, <1>10, <2>1
<1>12. pairs = [entered |-> PlanLength, passed |-> PlanLength, dropped |-> 0]
  BY <1>4, <1>7, <1>10, <1>11
<1>13. QED
  BY <1>5, <1>7, <1>8, <1>9, <1>12, PlanLengthType DEF WholePlanCompleted

(* The whole plan, as a list: its real pairs, its events and its size.       *)
LEMMA WholeList ==
  ASSUME NEW s, s = [i \in 1..PlanLength |-> i], NEW S, S = {i \in 1..PlanLength : Real(i)}
  PROVE  /\ Len(s) = PlanLength /\ DOMAIN s = 1..PlanLength
         /\ ToSet(s) = 1..PlanLength
         /\ RealIn(s) = S
         /\ Cardinality(S) = Required
         /\ Identities(s, S) = Required
         /\ Identities(s, DOMAIN s) = PlanLength
         /\ NoOpsIn(s) = 1
         /\ HasCounts(s)
<1>1. PlanLength \in Nat /\ PlanLength = Required + 1 /\ Required \in Nat
  BY PlanAssumption, PlanLengthType DEF PlanLength, Required
<1>2. DOMAIN s = 1..PlanLength /\ Len(s) = PlanLength /\ \A i \in 1..PlanLength : s[i] = i
  BY <1>1
<1>3. ToSet(s) = 1..PlanLength
  BY <1>2 DEF ToSet
<1>4. RealIn(s) = S
  BY <1>2 DEF RealIn
<1>5. IsFiniteSet(1..PlanLength) /\ Cardinality(1..PlanLength) = PlanLength
  BY <1>1, FS_Interval
<1>6. S = 1..PlanLength \ {NoOp}
  BY DEF Real
<1>7. NoOp \in 1..PlanLength
  <2>1. RealPairs \in Nat \ {0} /\ Events \in Nat \ {0}
    BY PlanAssumption
  <2>2. 1 * RealPairs <= Events * RealPairs /\ 1 * RealPairs = RealPairs
    BY <2>1, Multiples
  <2>3. QED
    BY <2>1, <2>2, <1>1 DEF NoOp, Required
<1>8. Cardinality(S) = Required
  <2>1. Cardinality((1..PlanLength) \ {NoOp}) = PlanLength - 1
    BY <1>5, <1>7, FS_RemoveElement
  <2>2. Cardinality(S) = PlanLength - 1
    BY ONLY <1>6, <2>1, Zenon
  <2>3. QED
    BY ONLY <1>1, <2>2, SMT
<1>9. {s[j] : j \in S} = S /\ {s[j] : j \in DOMAIN s} = 1..PlanLength
  BY <1>2, <1>6
<1>10. Identities(s, S) = Required /\ Identities(s, DOMAIN s) = PlanLength
  BY <1>5, <1>8, <1>9 DEF Identities
<1>11. NoOpsIn(s) = 1
  <2>1. NoOpsIn(s) = PlanLength - Required
    BY ONLY <1>2, <1>4, <1>8, Zenon DEF NoOpsIn
  <2>2. QED
    BY ONLY <1>1, <2>1, SMT
<1>12. HasCounts(s)
  BY <1>1, <1>2, <1>4, <1>8 DEF HasCounts, Required
<1>13. QED
  BY <1>2, <1>3, <1>4, <1>8, <1>10, <1>11, <1>12

(* The other way: the whole plan leaves no condition of either gate open.    *)
LEMMA ThePlanHasEverything ==
  ASSUME TypeOK, PairsInv, SoundInv, OrderInv, WholePlanCompleted
  PROVE  /\ PlanSelected /\ Result.tokenIdentical /\ Result.noOpParity
         /\ Result.allPairsCompleted
         /\ checks.attempted = Required /\ checks.passed = Required
         /\ Cardinality(AttemptedReal) = Required /\ Cardinality(CompletedReal) = Required
         /\ Identities(attempted, AttemptedReal) = Required
         /\ Identities(completed, CompletedReal) = Required
         /\ NoOpsIn(attempted) = 1 /\ NoOpsIn(completed) = 1
         /\ EveryEventHasItsPairs
         /\ Len(attempted) = Identities(attempted, DOMAIN attempted)
         /\ ProjectionAvailable /\ PairPhasesPresent
<1> DEFINE S == {i \in 1..PlanLength : Real(i)}
<1>1. k = PlanLength /\ outcome = "valid"
  <2>1. pairs.entered = k /\ pairs.entered = PlanLength
    BY DEF PairsInv, SettledInv, WholePlanCompleted
  <2>2. QED
    BY <2>1 DEF WholePlanCompleted
<1>2. /\ attempted = [i \in 1..PlanLength |-> i]
      /\ completed = [i \in 1..PlanLength |-> i]
  BY <1>1 DEF OrderInv, WholePlanCompleted
<1>3. /\ Len(attempted) = PlanLength /\ AttemptedReal = S /\ Cardinality(S) = Required
      /\ Identities(attempted, S) = Required
      /\ Identities(attempted, DOMAIN attempted) = PlanLength
      /\ NoOpsIn(attempted) = 1 /\ HasCounts(attempted)
  BY <1>2, WholeList DEF AttemptedReal
<1>4. /\ ToSet(completed) = 1..PlanLength /\ DOMAIN completed = 1..PlanLength
      /\ CompletedReal = S /\ Identities(completed, S) = Required
      /\ NoOpsIn(completed) = 1 /\ HasCounts(completed)
  BY <1>2, WholeList DEF CompletedReal
<1>5. checks.attempted = Required /\ checks.passed = Required
  <2>1. checks.attempted \in Nat /\ checks.passed \in Nat /\ Required \in Nat /\ Unjudged \in {0, 1}
    BY PlanAssumption DEF TypeOK, Required, Unjudged
  <2>2. Cardinality(RealIn(completed)) = Required /\ Cardinality(RealIn(attempted)) = Required
    BY <1>3, <1>4 DEF AttemptedReal, CompletedReal
  <2>3. QED
    BY <2>1, <2>2 DEF SoundInv
<1>6. journaled = 1..PlanLength
  BY <1>4 DEF TypeOK, SoundInv
<1>7. ProjectionAvailable /\ PairPhasesPresent
  BY <1>3, <1>6 DEF ProjectionAvailable, PairPhasesPresent
<1>8. PlanSelected /\ Result.tokenIdentical
  BY <1>1 DEF PlanSelected, SelectedEvents, Result
<1>9. Result.noOpParity /\ Result.allPairsCompleted
  <2>1. NoOp \in 1..PlanLength
    <3>1. RealPairs \in Nat \ {0} /\ Events \in Nat \ {0} /\ 1 <= Events
      BY PlanAssumption
    <3>2. 1 * RealPairs <= Events * RealPairs /\ Events * RealPairs \in Int
      BY <3>1, Multiples
    <3>3. QED
      BY <3>1, <3>2 DEF NoOp, PlanLength
  <2>2. NoOp \in ToSet(completed) /\ AllPairsCompleted
    BY <1>3, <1>4, <2>1 DEF AllPairsCompleted
  <2>3. QED
    BY <2>2 DEF Result
<1>10. EveryEventHasItsPairs
  <2>1. ASSUME NEW e \in 1..Events
        PROVE  Identities(completed, {j \in CompletedReal : EventOf(completed[j]) = e}) = RealPairs
    <3>1. Block(e) \subseteq 1..PlanLength /\ Cardinality(Block(e)) = RealPairs
          /\ \A i \in Block(e) : Real(i)
      BY BlockSize
    <3>2. ASSUME NEW i PROVE i \in DoneOf(e) <=> i \in Block(e)
      <4>1. i \in DoneOf(e) <=> i \in S /\ EventOf(i) = e
        BY <1>2, <1>4 DEF DoneOf
      <4>2. i \in S /\ EventOf(i) = e <=> i \in Block(e)
        BY <3>1, BlockOf
      <4>3. QED
        BY <4>1, <4>2
    <3>3. DoneOf(e) = Block(e)
      BY <3>2
    <3>4. QED
      BY <3>1, <3>3 DEF Identities, DoneOf
  <2>2. QED
    BY <1>8, <2>1 DEF EveryEventHasItsPairs
<1>11. QED
  BY <1>3, <1>4, <1>5, <1>7, <1>8, <1>9, <1>10

MandatoryNames ==
  {"token_identical_replay", "no_op_numerical_parity", "semantic_swap_parity",
   "selected_event_count_exact", "real_pair_count_exact", "no_op_count_exact",
   "all_required_pair_evaluations_completed", "unique_real_pair_count_exact",
   "events_with_four_unique_pairs_exact", "no_duplicate_pair_identity",
   "runtime_within_limit"}

FinalNames ==
  {"complete_token_trace_match", "selected_event_ids_exact",
   "unique_real_pair_count_exact", "events_with_four_unique_pairs_exact",
   "no_duplicate_pair_identity", "authorized_no_op_identity_exact",
   "positive_semantic_swap_parity", "no_op_exact_parity",
   "all_required_timings_present", "all_required_memory_phases_present",
   "runtime_within_limit"}

LEMMA MandatoryPass ==
  ASSUME TypeOK, PairsInv, SoundInv, OrderInv, ReturnInv, at = "returned", role = "rkv"
  PROVE  Passes(MandatoryConditions) <=> WholePlanCompleted
<1>1. DOMAIN MandatoryConditions = MandatoryNames
  BY DEF MandatoryConditions, MandatoryNames
<1>2. ASSUME Passes(MandatoryConditions) PROVE WholePlanCompleted
  <2>1. ASSUME NEW c \in MandatoryNames PROVE MandatoryConditions[c]
    BY <1>1, <1>2, Zenon DEF Passes, FailedConditions
  <2>2. MandatoryConditions.no_op_numerical_parity = Result.noOpParity
    BY DEF MandatoryConditions
  <2>3. MandatoryConditions.events_with_four_unique_pairs_exact = EveryEventHasItsPairs
    BY DEF MandatoryConditions
  <2>4. /\ "no_op_numerical_parity" \in MandatoryNames
        /\ "events_with_four_unique_pairs_exact" \in MandatoryNames
    BY DEF MandatoryNames
  <2>5. Result.noOpParity /\ EveryEventHasItsPairs
    BY <2>1, <2>2, <2>3, <2>4, Zenon
  <2>6. QED
    BY <2>5, EventsMakeThePlan
<1>3. ASSUME WholePlanCompleted PROVE Passes(MandatoryConditions)
  <2> DEFINE c == MandatoryConditions
  <2>1. c.token_identical_replay
    <3>1. c.token_identical_replay = (Result.tokenIdentical)
      BY DEF MandatoryConditions
    <3>2. Result.tokenIdentical
      BY <1>3, ThePlanHasEverything
    <3>3. QED
      BY ONLY <3>1, <3>2, Zenon
  <2>2. c.no_op_numerical_parity
    <3>1. c.no_op_numerical_parity = (Result.noOpParity)
      BY DEF MandatoryConditions
    <3>2. Result.noOpParity
      BY <1>3, ThePlanHasEverything
    <3>3. QED
      BY ONLY <3>1, <3>2, Zenon
  <2>3. c.semantic_swap_parity
    <3>1. c.semantic_swap_parity = (checks.attempted = Required /\ checks.passed = Required)
      BY DEF MandatoryConditions
    <3>2. checks.attempted = Required /\ checks.passed = Required
      BY <1>3, ThePlanHasEverything
    <3>3. QED
      BY ONLY <3>1, <3>2, Zenon
  <2>4. c.selected_event_count_exact
    <3>1. c.selected_event_count_exact = (PlanSelected)
      BY DEF MandatoryConditions
    <3>2. PlanSelected
      BY <1>3, ThePlanHasEverything
    <3>3. QED
      BY ONLY <3>1, <3>2, Zenon
  <2>5. c.real_pair_count_exact
    <3>1. c.real_pair_count_exact =
            (Cardinality(AttemptedReal) = Required /\ Cardinality(CompletedReal) = Required)
      BY DEF MandatoryConditions
    <3>2. Cardinality(AttemptedReal) = Required /\ Cardinality(CompletedReal) = Required
      BY <1>3, ThePlanHasEverything
    <3>3. QED
      BY ONLY <3>1, <3>2, Zenon
  <2>6. c.no_op_count_exact
    <3>1. c.no_op_count_exact = (NoOpsIn(attempted) = 1 /\ NoOpsIn(completed) = 1)
      BY DEF MandatoryConditions
    <3>2. NoOpsIn(attempted) = 1 /\ NoOpsIn(completed) = 1
      BY <1>3, ThePlanHasEverything
    <3>3. QED
      BY ONLY <3>1, <3>2, Zenon
  <2>7. c.all_required_pair_evaluations_completed
    <3>1. c.all_required_pair_evaluations_completed = (Result.allPairsCompleted)
      BY DEF MandatoryConditions
    <3>2. Result.allPairsCompleted
      BY <1>3, ThePlanHasEverything
    <3>3. QED
      BY ONLY <3>1, <3>2, Zenon
  <2>8. c.unique_real_pair_count_exact
    <3>1. c.unique_real_pair_count_exact = (Identities(completed, CompletedReal) = Required)
      BY DEF MandatoryConditions
    <3>2. Identities(completed, CompletedReal) = Required
      BY <1>3, ThePlanHasEverything
    <3>3. QED
      BY ONLY <3>1, <3>2, Zenon
  <2>9. c.events_with_four_unique_pairs_exact
    <3>1. c.events_with_four_unique_pairs_exact = (EveryEventHasItsPairs)
      BY DEF MandatoryConditions
    <3>2. EveryEventHasItsPairs
      BY <1>3, ThePlanHasEverything
    <3>3. QED
      BY ONLY <3>1, <3>2, Zenon
  <2>10. c.no_duplicate_pair_identity
    <3>1. c.no_duplicate_pair_identity =
            (Len(attempted) = Identities(attempted, DOMAIN attempted) /\ NoOpsIn(attempted) = 1)
      BY DEF MandatoryConditions
    <3>2. Len(attempted) = Identities(attempted, DOMAIN attempted) /\ NoOpsIn(attempted) = 1
      BY <1>3, ThePlanHasEverything
    <3>3. QED
      BY ONLY <3>1, <3>2, Zenon
  <2>11. c.runtime_within_limit
    <3>1. c.runtime_within_limit = (ProjectionAvailable)
      BY DEF MandatoryConditions
    <3>2. ProjectionAvailable
      BY <1>3, ThePlanHasEverything
    <3>3. QED
      BY ONLY <3>1, <3>2, Zenon
  <2> HIDE DEF c
  <2>12. ASSUME NEW n \in MandatoryNames PROVE c[n]
    BY <2>1, <2>2, <2>3, <2>4, <2>5, <2>6, <2>7, <2>8, <2>9, <2>10, <2>11, Zenon DEF MandatoryNames
  <2>13. QED
    BY <1>1, <2>12, Zenon DEF Passes, FailedConditions, c
<1>4. QED
  BY <1>2, <1>3

LEMMA FinalPass ==
  ASSUME TypeOK, PairsInv, SoundInv, OrderInv, ReturnInv, at = "returned", role = "rkv"
  PROVE  Passes(FinalConditions) <=> WholePlanCompleted
<1>1. DOMAIN FinalConditions = FinalNames
  BY DEF FinalConditions, FinalNames
<1>2. ASSUME Passes(FinalConditions) PROVE WholePlanCompleted
  <2>1. ASSUME NEW c \in FinalNames PROVE FinalConditions[c]
    BY <1>1, <1>2, Zenon DEF Passes, FailedConditions
  <2>2. FinalConditions.no_op_exact_parity = Result.noOpParity
    BY DEF FinalConditions
  <2>3. FinalConditions.events_with_four_unique_pairs_exact = EveryEventHasItsPairs
    BY DEF FinalConditions
  <2>4. "no_op_exact_parity" \in FinalNames /\ "events_with_four_unique_pairs_exact" \in FinalNames
    BY DEF FinalNames
  <2>5. Result.noOpParity /\ EveryEventHasItsPairs
    BY <2>1, <2>2, <2>3, <2>4, Zenon
  <2>6. QED
    BY <2>5, EventsMakeThePlan
<1>3. ASSUME WholePlanCompleted PROVE Passes(FinalConditions)
  <2> DEFINE c == FinalConditions
  <2>1. c.complete_token_trace_match
    <3>1. c.complete_token_trace_match = (Result.tokenIdentical)
      BY DEF FinalConditions
    <3>2. Result.tokenIdentical
      BY <1>3, ThePlanHasEverything
    <3>3. QED
      BY ONLY <3>1, <3>2, Zenon
  <2>2. c.selected_event_ids_exact
    <3>1. c.selected_event_ids_exact = (PlanSelected)
      BY DEF FinalConditions
    <3>2. PlanSelected
      BY <1>3, ThePlanHasEverything
    <3>3. QED
      BY ONLY <3>1, <3>2, Zenon
  <2>3. c.unique_real_pair_count_exact
    <3>1. c.unique_real_pair_count_exact =
            (Cardinality(AttemptedReal) = Required /\ Identities(attempted, AttemptedReal) = Required)
      BY DEF FinalConditions
    <3>2. Cardinality(AttemptedReal) = Required /\ Identities(attempted, AttemptedReal) = Required
      BY <1>3, ThePlanHasEverything
    <3>3. QED
      BY ONLY <3>1, <3>2, Zenon
  <2>4. c.events_with_four_unique_pairs_exact
    <3>1. c.events_with_four_unique_pairs_exact = (EveryEventHasItsPairs)
      BY DEF FinalConditions
    <3>2. EveryEventHasItsPairs
      BY <1>3, ThePlanHasEverything
    <3>3. QED
      BY ONLY <3>1, <3>2, Zenon
  <2>5. c.no_duplicate_pair_identity
    <3>1. c.no_duplicate_pair_identity = (Len(attempted) = Identities(attempted, DOMAIN attempted))
      BY DEF FinalConditions
    <3>2. Len(attempted) = Identities(attempted, DOMAIN attempted)
      BY <1>3, ThePlanHasEverything
    <3>3. QED
      BY ONLY <3>1, <3>2, Zenon
  <2>6. c.authorized_no_op_identity_exact
    <3>1. c.authorized_no_op_identity_exact = (NoOpsIn(attempted) = 1 /\ NoOpsIn(completed) = 1)
      BY DEF FinalConditions
    <3>2. NoOpsIn(attempted) = 1 /\ NoOpsIn(completed) = 1
      BY <1>3, ThePlanHasEverything
    <3>3. QED
      BY ONLY <3>1, <3>2, Zenon
  <2>7. c.positive_semantic_swap_parity
    <3>1. c.positive_semantic_swap_parity = (checks.attempted = Required /\ checks.passed = Required)
      BY DEF FinalConditions
    <3>2. checks.attempted = Required /\ checks.passed = Required
      BY <1>3, ThePlanHasEverything
    <3>3. QED
      BY ONLY <3>1, <3>2, Zenon
  <2>8. c.no_op_exact_parity
    <3>1. c.no_op_exact_parity = (Result.noOpParity)
      BY DEF FinalConditions
    <3>2. Result.noOpParity
      BY <1>3, ThePlanHasEverything
    <3>3. QED
      BY ONLY <3>1, <3>2, Zenon
  <2>9. c.all_required_timings_present
    <3>1. c.all_required_timings_present = (PairPhasesPresent)
      BY DEF FinalConditions
    <3>2. PairPhasesPresent
      BY <1>3, ThePlanHasEverything
    <3>3. QED
      BY ONLY <3>1, <3>2, Zenon
  <2>10. c.all_required_memory_phases_present
    <3>1. c.all_required_memory_phases_present = (PairPhasesPresent)
      BY DEF FinalConditions
    <3>2. PairPhasesPresent
      BY <1>3, ThePlanHasEverything
    <3>3. QED
      BY ONLY <3>1, <3>2, Zenon
  <2>11. c.runtime_within_limit
    <3>1. c.runtime_within_limit = (ProjectionAvailable)
      BY DEF FinalConditions
    <3>2. ProjectionAvailable
      BY <1>3, ThePlanHasEverything
    <3>3. QED
      BY ONLY <3>1, <3>2, Zenon
  <2> HIDE DEF c
  <2>12. ASSUME NEW n \in FinalNames PROVE c[n]
    BY <2>1, <2>2, <2>3, <2>4, <2>5, <2>6, <2>7, <2>8, <2>9, <2>10, <2>11, Zenon DEF FinalNames
  <2>13. QED
    BY <1>1, <2>12, Zenon DEF Passes, FailedConditions, c
<1>4. QED
  BY <1>2, <1>3

(* Both gates pass exactly the result of a whole plan, completed in its      *)
(* order with nothing dropped, for every number of events and real pairs.    *)
THEOREM GatesPassWholePlan == Spec => []GatesPassTheWholePlanOnly
<1>1. Init => SoundInv /\ OrderInv /\ ReturnInv
  BY InitSound
<1>2. TypeOK /\ PairsInv /\ SoundInv /\ OrderInv /\ ReturnInv /\ [Next]_vars
        => (SoundInv /\ OrderInv /\ ReturnInv)'
  BY StepSound, StepReturn
<1>3. TypeOK /\ PairsInv /\ SoundInv /\ OrderInv /\ ReturnInv => GatesPassTheWholePlanOnly
  BY MandatoryPass, FinalPass DEF GatesPassTheWholePlanOnly
<1>4. QED
  BY <1>1, <1>2, <1>3, BodyTypeCorrect, PTL DEF Spec
================================================================================
