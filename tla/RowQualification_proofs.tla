----------------------- MODULE RowQualification_proofs -----------------------
(*****************************************************************************)
(* Proofs about RowQualification for all rows, configs, orders and outcomes. *)
(* What a search has collected is kept as a predicate on its list; a search  *)
(* that stopped is Complete, the artifact holds a complete one, and what is  *)
(* about to be written as the manifest, like the manifest itself, is Granted *)
(* by the artifact.                                                          *)
(*****************************************************************************)
EXTENDS RowQualification, TLAPS

Deciding == {"equivalent", "not_equivalent"}

Searching == {"generate", "verify", "publish"}

(* The outcomes of the first rows, in their order, each judged by what the   *)
(* verifier's child ended with.                                              *)
Follows(attempted, rows) ==
  /\ \E S : attempted \in Seq(S)
  /\ \A i \in 1..Len(attempted) :
       /\ attempted[i].row = rows[i]
       /\ attempted[i].verifier \notin Deciding =>
            attempted[i].status = "unverifiable" /\ attempted[i].failed # {}

NoneQualified(attempted) ==
  \A i \in 1..Len(attempted) : attempted[i].failed # {}

(* A search that has stopped.                                                *)
Complete(attempted, rows) ==
  /\ Follows(attempted, rows)
  /\ Len(attempted) # 0
  /\ \A i \in 1..(Len(attempted) - 1) : attempted[i].failed # {}
  /\ attempted[Len(attempted)].failed = {} \/ Len(attempted) = Len(rows)

(* The artifact selected the row, under the identity, and it qualified.      *)
Granted(row, identity, evidence) ==
  /\ evidence # Absent
  /\ identity = evidence.config
  /\ \E i \in evidence.selected :
       evidence.attempted[i].row = row /\ evidence.attempted[i].failed = {}

ShapeInv ==
  run.at \in Searching =>
    run = [at |-> run.at, config |-> run.config, candidates |-> run.candidates,
           attempted |-> run.attempted, measured |-> run.measured]

RunInv ==
  /\ run.at \in Searching => run.candidates.identity = run.config
  /\ run.at \in {"generate", "verify"} =>
       /\ Follows(run.attempted, run.candidates.rows)
       /\ NoneQualified(run.attempted)
  /\ run.at = "publish" => Complete(run.attempted, run.candidates.rows)
  /\ run.at = "write" => Granted(run.row, run.identity, artifact)

ArtifactInv ==
  artifact # Absent =>
    /\ Complete(artifact.attempted, artifact.candidates.rows)
    /\ artifact.selected = Selected(artifact.attempted)
    /\ artifact.candidates.identity = artifact.config

ManifestInv ==
  manifest # Absent =>
    /\ manifest = [row |-> manifest.row, identity |-> manifest.identity,
                   parses |-> manifest.parses]
    /\ manifest.row # DefaultRow => Granted(manifest.row, manifest.identity, artifact)

IInv == ShapeInv /\ RunInv /\ ArtifactInv /\ ManifestInv

-----------------------------------------------------------------------------
(* No file that exists is the one that does not.                             *)
LEMMA ManifestExists ==
  ASSUME NEW a, NEW b, NEW c
  PROVE  [row |-> a, identity |-> b, parses |-> c] # Absent
  BY DEF Absent

(* Whatever the child ended with that decides nothing makes its row fail.    *)
LEMMA UndecidedFails ==
  ASSUME NEW row, NEW measured, NEW ended
  PROVE  LET outcome == Outcome(row, measured, ended)
         IN /\ outcome.row = row
            /\ outcome.verifier = ended
            /\ ended \notin Deciding =>
                 outcome.status = "unverifiable" /\ outcome.failed # {}
<1>1. /\ Outcome(row, measured, ended).row = row
      /\ Outcome(row, measured, ended).verifier = ended
      /\ Outcome(row, measured, ended).status = AnswerStatus(ended)
      /\ Outcome(row, measured, ended).failed
           = FailedConditions(measured, AnswerStatus(ended))
  BY DEF Outcome
<1>2. ended \notin Deciding => AnswerStatus(ended) = "unverifiable"
  BY DEF Deciding, AnswerStatus
<1>3. "fullkv_answer_verifiable" \in FailedConditions(measured, "unverifiable")
  BY DEF FailedConditions
<1>4. QED
  BY <1>1, <1>2, <1>3

(* A judged candidate at the end of the list.                                *)
LEMMA OneMore ==
  ASSUME NEW attempted, NEW rows, NEW measured, NEW ended,
         Follows(attempted, rows)
  PROVE  LET new == Append(attempted,
                           Outcome(rows[Len(attempted) + 1], measured, ended))
         IN /\ Follows(new, rows)
            /\ Len(new) = Len(attempted) + 1
            /\ Len(attempted) \in Nat
            /\ \A i \in 1..Len(attempted) : new[i] = attempted[i]
<1> DEFINE outcome == Outcome(rows[Len(attempted) + 1], measured, ended)
           new == Append(attempted, outcome)
<1>1. PICK S : attempted \in Seq(S)
  BY DEF Follows
<1> DEFINE T == S \cup {outcome}
<1> HIDE DEF outcome
<1>2. attempted \in Seq(T) /\ outcome \in T
  BY <1>1
<1> HIDE DEF T
<1>3. /\ new \in Seq(T)
      /\ Len(new) = Len(attempted) + 1
      /\ Len(attempted) \in Nat
      /\ \A i \in 1..Len(attempted) : new[i] = attempted[i]
      /\ new[Len(attempted) + 1] = outcome
  BY <1>2
<1> HIDE DEF new
<1>4. ASSUME NEW i \in 1..Len(new)
      PROVE  /\ new[i].row = rows[i]
             /\ new[i].verifier \notin Deciding =>
                  new[i].status = "unverifiable" /\ new[i].failed # {}
  <2>1. CASE i \in 1..Len(attempted)
    BY <2>1, <1>3 DEF Follows
  <2>2. CASE i = Len(attempted) + 1
    <3>1. new[i] = outcome
      BY <2>2, <1>3
    <3>2. /\ outcome.row = rows[i]
          /\ outcome.verifier \notin Deciding =>
               outcome.status = "unverifiable" /\ outcome.failed # {}
      BY <2>2, UndecidedFails DEF outcome
    <3>3. QED
      BY <3>1, <3>2
  <2>3. QED
    BY <1>3, <2>1, <2>2
<1>5. Follows(new, rows)
  BY <1>3, <1>4 DEF Follows
<1>6. QED
  BY <1>3, <1>5 DEF new, outcome

(* What a complete search selects is its last outcome, if that qualifies.    *)
LEMMA SelectedIsLast ==
  ASSUME NEW attempted, NEW rows, Complete(attempted, rows)
  PROVE  /\ Len(attempted) \in Nat \ {0}
         /\ Selected(attempted) = IF attempted[Len(attempted)].failed = {}
                                  THEN {Len(attempted)} ELSE {}
<1>1. PICK S : attempted \in Seq(S)
  BY DEF Complete, Follows
<1>2. DOMAIN attempted = 1..Len(attempted) /\ Len(attempted) \in Nat \ {0}
  BY <1>1 DEF Complete
<1>3. \A i \in 1..(Len(attempted) - 1) : attempted[i].failed # {}
  BY DEF Complete
<1>4. QED
  BY <1>2, <1>3 DEF Selected, Qualifies

-----------------------------------------------------------------------------
(* The steps of a search, seen from its record.                              *)
LEMMA JudgedRun ==
  ASSUME ShapeInv, RunInv, Judge
  PROVE  /\ ShapeInv'
         /\ RunInv'
<1> DEFINE old == run.attempted
           rows == run.candidates.rows
           new == Append(old, Outcome(rows[Len(old) + 1], run.measured, child))
           stop == Stops(new, run.candidates.rows)
<1>1. run.at = "verify" /\ run.at \in Searching
  BY DEF Judge, Searching
<1>2. run' = [run EXCEPT !.attempted = new, !.measured = Absent,
                         !.at = IF stop THEN "publish" ELSE "generate"]
  BY DEF Judge, Current
<1>3. Follows(run.attempted, run.candidates.rows) /\ NoneQualified(run.attempted)
  BY <1>1 DEF RunInv
<1>4. /\ Follows(new, run.candidates.rows)
      /\ Len(new) = Len(run.attempted) + 1
      /\ Len(run.attempted) \in Nat
      /\ \A i \in 1..Len(run.attempted) : new[i] = run.attempted[i]
  <2>1. Follows(old, rows)
    BY <1>3
  <2>2. /\ Follows(new, rows)
        /\ Len(new) = Len(old) + 1
        /\ Len(old) \in Nat
        /\ \A i \in 1..Len(old) : new[i] = old[i]
    <3> HIDE DEF old, rows
    <3>1. QED
      BY <2>1, OneMore
  <2>3. QED
    BY <2>2
<1>5. stop <=> new[Len(new)].failed = {} \/ Len(new) = Len(run.candidates.rows)
  BY DEF Stops, Qualifies
<1> HIDE DEF new, stop
<1>6. run' = [at |-> IF stop THEN "publish" ELSE "generate", config |-> run.config,
              candidates |-> run.candidates, attempted |-> new, measured |-> Absent]
  BY <1>1, <1>2 DEF ShapeInv
<1>7. ShapeInv'
  BY <1>6 DEF ShapeInv
<1>8. \A i \in 1..(Len(new) - 1) : new[i].failed # {}
  BY <1>3, <1>4 DEF NoneQualified
<1>9. CASE stop
  <2>1. Complete(new, run.candidates.rows)
    BY <1>4, <1>5, <1>8, <1>9 DEF Complete
  <2>2. QED
    BY <1>1, <1>6, <1>7, <1>9, <2>1 DEF RunInv
<1>10. CASE ~stop
  <2>1. NoneQualified(new)
    <3>1. ASSUME NEW i \in 1..Len(new) PROVE new[i].failed # {}
      <4>1. i = Len(new) \/ i \in 1..(Len(new) - 1)
        BY <1>4
      <4>2. QED
        BY <4>1, <1>5, <1>8, <1>10
    <3>2. QED
      BY <3>1 DEF NoneQualified
  <2>2. QED
    BY <1>1, <1>4, <1>6, <1>7, <1>10, <2>1 DEF RunInv
<1>11. QED
  BY <1>9, <1>10

LEMMA StartedRun ==
  ASSUME StartQualification
  PROVE  ShapeInv' /\ RunInv'
<1>1. run' = [at |-> "generate", config |-> config, candidates |-> candidates,
              attempted |-> << >>, measured |-> Absent]
      /\ candidates.identity = config
  BY DEF StartQualification
<1>2. Follows(<< >>, candidates.rows) /\ NoneQualified(<< >>)
  <2>1. << >> \in Seq(Nat) /\ Len(<< >>) = 0
    OBVIOUS
  <2>2. \A i \in 1..Len(<< >>) : FALSE
    BY <2>1
  <2>3. \E S : << >> \in Seq(S)
    BY <2>1
  <2>4. QED
    BY <2>2, <2>3 DEF Follows, NoneQualified
<1>3. QED
  BY <1>1, <1>2 DEF ShapeInv, RunInv

LEMMA GeneratedRun ==
  ASSUME ShapeInv, RunInv, Generate
  PROVE  ShapeInv' /\ RunInv'
<1>1. run.at = "generate" /\ run.at \in Searching
  BY DEF Generate, Searching
<1>2. PICK g \in Generations : run' = [run EXCEPT !.at = "verify", !.measured = g]
  BY DEF Generate
<1>3. run' = [at |-> "verify", config |-> run.config, candidates |-> run.candidates,
              attempted |-> run.attempted, measured |-> g]
  BY <1>1, <1>2 DEF ShapeInv
<1>4. QED
  BY <1>1, <1>3 DEF ShapeInv, RunInv

(* What authorizes the freeze of a row grants it.                            *)
LEMMA FreezeIsGranted ==
  ASSUME ArtifactInv, StartFreeze
  PROVE  ShapeInv' /\ RunInv'
<1>1. PICK i \in artifact.selected :
        run' = [at |-> "write", row |-> candidates.rows[i], identity |-> config]
  BY DEF StartFreeze
<1>2. /\ artifact # Absent
      /\ candidates = artifact.candidates
      /\ artifact.candidates.identity = config
      /\ UNCHANGED artifact
  BY DEF StartFreeze, Authorized
<1>3. /\ Complete(artifact.attempted, artifact.candidates.rows)
      /\ artifact.selected = Selected(artifact.attempted)
      /\ artifact.candidates.identity = artifact.config
  BY <1>2 DEF ArtifactInv
<1>4. /\ Len(artifact.attempted) \in Nat \ {0}
      /\ i = Len(artifact.attempted)
      /\ artifact.attempted[i].failed = {}
  <2>1. /\ Len(artifact.attempted) \in Nat \ {0}
        /\ artifact.selected = IF artifact.attempted[Len(artifact.attempted)].failed = {}
                               THEN {Len(artifact.attempted)} ELSE {}
    BY <1>3, SelectedIsLast
  <2>2. QED
    BY <1>1, <2>1
<1>5. artifact.attempted[i].row = artifact.candidates.rows[i]
  <2>1. i \in 1..Len(artifact.attempted)
    BY <1>4
  <2>2. QED
    BY <1>3, <2>1 DEF Complete, Follows
<1>6. Granted(candidates.rows[i], config, artifact)
  BY <1>1, <1>2, <1>3, <1>4, <1>5 DEF Granted
<1>7. Granted(candidates.rows[i], config, artifact')
  BY <1>2, <1>6
<1>8. QED
  BY <1>1, <1>7 DEF ShapeInv, RunInv, Searching

-----------------------------------------------------------------------------
LEMMA InitInv == Init => IInv
<1> SUFFICES ASSUME Init PROVE IInv
  OBVIOUS
<1>1. run = [at |-> "idle"] /\ artifact = Absent
  BY DEF Init, Idle
<1>2. ManifestInv
  <2>1. CASE manifest = Absent
    BY <2>1 DEF ManifestInv
  <2>2. CASE manifest = [row |-> DefaultRow, identity |-> config, parses |-> TRUE]
    BY <2>2 DEF ManifestInv
  <2>3. QED
    BY <2>1, <2>2 DEF Init
<1>3. QED
  BY <1>1, <1>2 DEF IInv, ShapeInv, RunInv, ArtifactInv, Searching

(* A published artifact stays.                                               *)
LEMMA ArtifactStays ==
  ASSUME Next, artifact # Absent
  PROVE  artifact' = artifact
  BY DEF Next, BuildCandidates, EditConfig, SchemaChanges, StartQualification, Generate,
         ChildEnds, ChildTimesOut, Judge, Publish, CommandDies, StartFreeze, WriteManifest,
         Prepare

(* What the artifact granted, it goes on granting.                           *)
LEMMA GrantsStay ==
  ASSUME Next, NEW row, NEW identity, Granted(row, identity, artifact)
  PROVE  Granted(row, identity, artifact')
  BY ArtifactStays DEF Granted

LEMMA StepRun ==
  ASSUME IInv, [Next]_vars
  PROVE  ShapeInv' /\ RunInv'
<1>1. ShapeInv /\ RunInv /\ ArtifactInv
  BY DEF IInv
<1>2. CASE StartQualification
  BY <1>2, StartedRun
<1>3. CASE Generate
  BY <1>1, <1>3, GeneratedRun
<1>4. CASE Judge
  BY <1>1, <1>4, JudgedRun
<1>5. CASE StartFreeze
  BY <1>1, <1>5, FreezeIsGranted
<1>6. CASE Publish \/ CommandDies \/ WriteManifest
  <2>1. run' = [at |-> "idle"]
    BY <1>6 DEF Publish, CommandDies, WriteManifest, Idle
  <2>2. QED
    BY <2>1 DEF ShapeInv, RunInv, Searching
<1>7. CASE BuildCandidates \/ EditConfig \/ SchemaChanges \/ ChildEnds \/ ChildTimesOut
           \/ (\E force \in BOOLEAN : Prepare(force)) \/ UNCHANGED vars
  <2>1. UNCHANGED <<run, artifact>>
    BY <1>7 DEF BuildCandidates, EditConfig, SchemaChanges, ChildEnds, ChildTimesOut,
                Prepare, vars
  <2>2. QED
    BY <1>1, <2>1 DEF ShapeInv, RunInv
<1>8. QED
  BY <1>2, <1>3, <1>4, <1>5, <1>6, <1>7 DEF Next

LEMMA StepArtifact ==
  ASSUME IInv, [Next]_vars
  PROVE  ArtifactInv'
<1>1. RunInv /\ ArtifactInv
  BY DEF IInv
<1>2. CASE artifact' = artifact
  BY <1>1, <1>2 DEF ArtifactInv
<1>3. CASE artifact' # artifact
  <2>1. Publish
    BY <1>3 DEF Next, vars, BuildCandidates, EditConfig, SchemaChanges, StartQualification,
                Generate, ChildEnds, ChildTimesOut, Judge, CommandDies, StartFreeze,
                WriteManifest, Prepare
  <2>2. run.at = "publish"
    BY <2>1 DEF Publish
  <2>3. artifact' = [candidates |-> run.candidates, config |-> run.config,
                     attempted |-> run.attempted, selected |-> Selected(run.attempted)]
    BY <2>1, <1>3 DEF Publish
  <2>4. /\ Complete(run.attempted, run.candidates.rows)
        /\ run.candidates.identity = run.config
    BY <1>1, <2>2 DEF RunInv, Searching
  <2>5. /\ artifact'.attempted = run.attempted
        /\ artifact'.candidates = run.candidates
        /\ artifact'.config = run.config
        /\ artifact'.selected = Selected(run.attempted)
    BY <2>3
  <2>6. QED
    BY <2>4, <2>5 DEF ArtifactInv
<1>4. QED
  BY <1>2, <1>3

LEMMA StepManifest ==
  ASSUME IInv, [Next]_vars
  PROVE  ManifestInv'
<1>1. RunInv /\ ManifestInv
  BY DEF IInv
<1>2. CASE SchemaChanges
  <2>1. /\ manifest # Absent
        /\ manifest' = [manifest EXCEPT !.parses = FALSE]
        /\ UNCHANGED artifact
    BY <1>2 DEF SchemaChanges
  <2>2. manifest' = [row |-> manifest.row, identity |-> manifest.identity, parses |-> FALSE]
    BY <1>1, <2>1 DEF ManifestInv
  <2>3. manifest.row # DefaultRow => Granted(manifest.row, manifest.identity, artifact)
    BY <1>1, <2>1 DEF ManifestInv
  <2>4. QED
    BY <2>1, <2>2, <2>3 DEF ManifestInv
<1>3. CASE WriteManifest
  <2>1. /\ manifest' = [row |-> run.row, identity |-> run.identity, parses |-> TRUE]
        /\ run.at = "write"
        /\ UNCHANGED artifact
    BY <1>3 DEF WriteManifest
  <2>2. Granted(run.row, run.identity, artifact)
    BY <1>1, <2>1 DEF RunInv
  <2>3. QED
    BY <2>1, <2>2 DEF ManifestInv
<1>4. CASE \E force \in BOOLEAN : Prepare(force)
  <2>1. manifest' = [row |-> DefaultRow, identity |-> config, parses |-> TRUE]
    BY <1>4 DEF Prepare
  <2>2. QED
    BY <2>1 DEF ManifestInv
<1>5. CASE BuildCandidates \/ EditConfig \/ StartQualification \/ Generate \/ ChildEnds
           \/ ChildTimesOut \/ Judge \/ Publish \/ CommandDies \/ StartFreeze
  <2>1. UNCHANGED manifest /\ Next
    BY <1>5 DEF BuildCandidates, EditConfig, StartQualification, Generate, ChildEnds,
                ChildTimesOut, Judge, Publish, CommandDies, StartFreeze, Next
  <2>2. manifest # Absent /\ manifest.row # DefaultRow
          => Granted(manifest.row, manifest.identity, artifact')
    BY <1>1, <2>1, GrantsStay DEF ManifestInv
  <2>3. QED
    BY <1>1, <2>1, <2>2 DEF ManifestInv
<1>6. CASE UNCHANGED vars
  BY <1>1, <1>6 DEF vars, ManifestInv
<1>7. QED
  BY <1>2, <1>3, <1>4, <1>5, <1>6 DEF Next

LEMMA Inductive == Spec => []IInv
<1>1. IInv /\ [Next]_vars => IInv'
  BY StepRun, StepArtifact, StepManifest DEF IInv
<1>2. QED
  BY <1>1, InitInv, PTL DEF Spec

-----------------------------------------------------------------------------
(* A published decision is the first row of the committed order to qualify,  *)
(* or none after the last: no later row was tried, none was skipped.         *)
THEOREM FirstQualifiedIsSelected == Spec => []SelectionIsFirstQualified
<1>1. IInv => SelectionIsFirstQualified
  <2> SUFFICES ASSUME IInv, artifact # Absent
               PROVE  LET attempted == artifact.attempted
                          rows == artifact.candidates.rows
                          last == Len(attempted)
                      IN /\ \A i \in 1..last : attempted[i].row = rows[i]
                         /\ \A i \in 1..(last - 1) : attempted[i].failed # {}
                         /\ artifact.selected = IF attempted[last].failed = {} THEN {last} ELSE {}
                         /\ artifact.selected = {} => last = Len(rows)
    BY DEF SelectionIsFirstQualified
  <2>1. /\ Complete(artifact.attempted, artifact.candidates.rows)
        /\ artifact.selected = Selected(artifact.attempted)
    BY DEF IInv, ArtifactInv
  <2>2. artifact.selected = IF artifact.attempted[Len(artifact.attempted)].failed = {}
                            THEN {Len(artifact.attempted)} ELSE {}
    BY <2>1, SelectedIsLast
  <2>3. QED
    BY <2>1, <2>2 DEF Complete, Follows
<1>2. QED
  BY <1>1, Inductive, PTL

(* A verification that ended without a verdict never selects a row.          *)
THEOREM UndecidedAnswersNeverSelect == Spec => []UndecidedIsNeverSelected
<1>1. IInv => UndecidedIsNeverSelected
  <2> SUFFICES ASSUME IInv, artifact # Absent, NEW i \in DOMAIN artifact.attempted,
                      artifact.attempted[i].verifier \notin {"equivalent", "not_equivalent"}
               PROVE  /\ artifact.attempted[i].status = "unverifiable"
                      /\ i \notin artifact.selected
    BY DEF UndecidedIsNeverSelected
  <2>1. /\ Follows(artifact.attempted, artifact.candidates.rows)
        /\ artifact.selected = Selected(artifact.attempted)
    BY DEF IInv, ArtifactInv, Complete
  <2>2. i \in 1..Len(artifact.attempted)
    BY <2>1 DEF Follows
  <2>3. artifact.attempted[i].status = "unverifiable" /\ artifact.attempted[i].failed # {}
    BY <2>1, <2>2 DEF Follows, Deciding
  <2>4. QED
    BY <2>1, <2>3 DEF Selected, Qualifies
<1>2. QED
  BY <1>1, Inductive, PTL

(* The row of the manifest is the default one or one that qualified under    *)
(* the identity the manifest was written for.                                *)
THEOREM FrozenRowIsQualified == Spec => []FrozenRowWasQualified
<1>1. IInv => FrozenRowWasQualified
  BY DEF IInv, ManifestInv, Granted, FrozenRowWasQualified
<1>2. QED
  BY <1>1, Inductive, PTL

(* Nothing that is published is taken back.                                  *)
THEOREM PublishedStays == Spec => PublishedEvidenceStays
<1>1. IInv /\ [Next]_vars =>
        [/\ artifact # Absent => artifact' = artifact
         /\ manifest # Absent /\ manifest.parses /\ manifest'.row # manifest.row =>
              /\ artifact # Absent
              /\ \E i \in artifact.selected : artifact.attempted[i].row = manifest'.row]_vars
  <2> SUFFICES ASSUME IInv, Next
               PROVE  /\ artifact # Absent => artifact' = artifact
                      /\ manifest # Absent /\ manifest.parses /\ manifest'.row # manifest.row =>
                           /\ artifact # Absent
                           /\ \E i \in artifact.selected :
                                artifact.attempted[i].row = manifest'.row
    OBVIOUS
  <2>1. artifact # Absent => artifact' = artifact
    BY ArtifactStays
  <2>2. ASSUME manifest # Absent, manifest.parses, manifest'.row # manifest.row
        PROVE  /\ artifact # Absent
               /\ \E i \in artifact.selected : artifact.attempted[i].row = manifest'.row
    <3>1. CASE WriteManifest
      <4>1. run.at = "write" /\ manifest'.row = run.row
        BY <3>1 DEF WriteManifest
      <4>2. Granted(run.row, run.identity, artifact)
        BY <4>1 DEF IInv, RunInv
      <4>3. QED
        BY <4>1, <4>2 DEF Granted
    <3>2. CASE SchemaChanges
      <4>1. manifest' = [manifest EXCEPT !.parses = FALSE]
        BY <3>2 DEF SchemaChanges
      <4>2. manifest = [row |-> manifest.row, identity |-> manifest.identity,
                        parses |-> manifest.parses]
        BY <2>2 DEF IInv, ManifestInv
      <4>3. manifest'.row = manifest.row
        BY <4>1, <4>2
      <4>4. QED
        BY <4>3, <2>2
    <3>3. CASE \E force \in BOOLEAN : Prepare(force)
      <4>1. manifest.row = DefaultRow
        BY <3>3, <2>2 DEF Prepare, Preparable
      <4>2. manifest'.row = DefaultRow
        BY <3>3 DEF Prepare
      <4>3. QED
        BY <4>1, <4>2, <2>2
    <3>4. CASE UNCHANGED manifest
      BY <3>4, <2>2
    <3>5. QED
      BY <3>1, <3>2, <3>3, <3>4
         DEF Next, BuildCandidates, EditConfig, StartQualification, Generate, ChildEnds,
             ChildTimesOut, Judge, Publish, CommandDies, StartFreeze
  <2>3. QED
    BY <2>1, <2>2
<1>2. QED
  BY <1>1, Inductive, PTL DEF Spec, PublishedEvidenceStays
==============================================================================
