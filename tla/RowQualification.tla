--------------------------- MODULE RowQualification ---------------------------
(*****************************************************************************)
(* How the row of the one-example manifest is chosen: the committed order of *)
(* the candidates (src/src/kvcot/discovery/b2a_r2_candidates.py), the FullKV *)
(* qualification of one after the other (b2a_qualification.py, cli.py's      *)
(* qualify-b2a-row) with the answer verifier in a child process              *)
(* (utils/math_verifier.py), the freeze of the row that qualified            *)
(* (b2a_r2_freeze.py), and prepare-b2a-manifest (manifest_prepare.py), which *)
(* writes the same manifest.                                                 *)
(*                                                                           *)
(* A row is its index in the dataset.  A generation is what qualification    *)
(* measures of it.  One command runs at a time.  It reads its files once and *)
(* goes on with what it has read, while config and candidate manifest may    *)
(* change; it can end anywhere.                                              *)
(*****************************************************************************)
EXTENDS Naturals, Sequences, FiniteSets, SequencesExt

CONSTANTS Eligible,       \* the level-5 rows
          Configs,        \* what a config names: the revisions and the budget
          HashRank(_, _), \* a row's place under an identity: its ordering hash
          Dataset(_),     \* of these, the dataset revision
          CandidateCount, \* rows a candidate manifest keeps: 12
          MinimumEvents,  \* QUALIFICATION_MINIMUM_EVENTS: 3
          Generations,    \* [capped, predicted, eligible, placed]: what a run may measure
          ChildOutcomes   \* what the verifier's child may end with

ASSUME QualificationAssumption ==
  /\ Eligible \subseteq Nat \ {0}
  /\ CandidateCount \in Nat \ {0}
  /\ MinimumEvents \in Nat
  /\ \A g \in Generations : g.capped \in BOOLEAN /\ g.placed \in BOOLEAN
  /\ ChildOutcomes \subseteq
       {"equivalent", "not_equivalent", "prediction_unparseable", "gold_unparseable",
        "verifier_error", "other status", "no JSON", "exit code"}

VARIABLES config,      \* the discovery config file
          candidates,  \* the candidate manifest file
          artifact,    \* the qualification artifact
          manifest,    \* the one-example manifest
          run,         \* the command that runs, with what it has read
          child        \* its verifier process

vars == <<config, candidates, artifact, manifest, run, child>>

(* A file that does not exist.                                              *)
Absent == << >>

NoChild == "none"

DefaultRow == 0

Idle == [at |-> "idle"]

Init ==
  /\ config \in Configs
  /\ candidates = Absent
  /\ artifact = Absent
  /\ manifest \in {Absent, [row |-> DefaultRow, identity |-> config, parses |-> TRUE]}
  /\ run = Idle
  /\ child = NoChild

-----------------------------------------------------------------------------
(* The files.  The order depends on the identity and the rows, on nothing    *)
(* that was generated.  A manifest stands for its own canonical hash.        *)
Ordered(identity) ==
  SortSeq(SetToSeq(Eligible), LAMBDA a, b : HashRank(identity, a) < HashRank(identity, b))

BuildCandidates ==
  /\ candidates' = [identity |-> config,
                    rows |-> SubSeq(Ordered(config), 1,
                                    IF CandidateCount < Cardinality(Eligible)
                                    THEN CandidateCount ELSE Cardinality(Eligible))]
  /\ UNCHANGED <<config, artifact, manifest, run, child>>

EditConfig ==
  /\ config' \in Configs \ {config}
  /\ UNCHANGED <<candidates, artifact, manifest, run, child>>

(* The manifest's schema moves on, and the file no longer parses.            *)
SchemaChanges ==
  /\ manifest # Absent
  /\ manifest' = [manifest EXCEPT !.parses = FALSE]
  /\ UNCHANGED <<config, candidates, artifact, run, child>>

-----------------------------------------------------------------------------
(* qualify-b2a-row --execute.  A config and a candidate manifest of another  *)
(* identity are refused at the start.                                        *)
StartQualification ==
  /\ run.at = "idle"
  /\ candidates # Absent
  /\ candidates.identity = config
  /\ run' = [at |-> "generate", config |-> config, candidates |-> candidates,
             attempted |-> << >>, measured |-> Absent]
  /\ UNCHANGED <<config, candidates, artifact, manifest, child>>

Current == run.candidates.rows[Len(run.attempted) + 1]

(* run_fullkv_worker's generation; an answer that is found goes to the       *)
(* verifier's child, one that is not is unverifiable.                        *)
Generate ==
  /\ run.at = "generate"
  /\ \E g \in Generations : run' = [run EXCEPT !.at = "verify", !.measured = g]
  /\ child' \in {"running", "no answer"}
  /\ UNCHANGED <<config, candidates, artifact, manifest>>

(* A child ends with a line that names a status, with a status that is none, *)
(* without such a line or with an exit code other than 0.                    *)
ChildEnds ==
  /\ child = "running"
  /\ child' \in ChildOutcomes
  /\ UNCHANGED <<config, candidates, artifact, manifest, run>>

(* Mutant of ChildTimesOut: the call is made without a timeout.              *)
ChildTimesOut_Never ==
  /\ child = "running"
  /\ UNCHANGED vars

(* subprocess.run kills the child when the timeout has passed.               *)
ChildTimesOut ==
  /\ child = "running"
  /\ child' = "timeout"
  /\ UNCHANGED <<config, candidates, artifact, manifest, run>>

(* Mutant of AnswerStatus: what is not equivalent is incorrect.              *)
AnswerStatus_NoThirdOutcome(outcome) ==
  IF outcome \in {"equivalent", "exit code"} THEN "correct" ELSE "incorrect"

(* _invoke_worker and Math500AnswerVerifier: of all that can happen to the   *)
(* child only the two statuses that decide do decide.                        *)
AnswerStatus(outcome) ==
  CASE outcome = "equivalent" -> "correct"
    [] outcome = "not_equivalent" -> "incorrect"
    [] OTHER -> "unverifiable"

(* The mandatory conditions that fail; the identity of the worker's report,  *)
(* its batch size, placement and memory are one.                             *)
FailedConditions(measured, status) ==
  {c \in {"no_cap_hit", "fullkv_answer_verifiable", "fullkv_answer_correct",
          "predicted_schedule_has_at_least_three_events",
          "at_least_three_events_have_49_future_tokens", "placement"} :
     \/ c = "no_cap_hit" /\ measured.capped
     \/ c = "fullkv_answer_verifiable" /\ status = "unverifiable"
     \/ c = "fullkv_answer_correct" /\ status # "correct"
     \/ c = "predicted_schedule_has_at_least_three_events" /\ measured.predicted < MinimumEvents
     \/ c = "at_least_three_events_have_49_future_tokens" /\ measured.eligible < MinimumEvents
     \/ c = "placement" /\ ~measured.placed}

Outcome(row, measured, ended) ==
  [row |-> row,
   verifier |-> ended,
   status |-> AnswerStatus(ended),
   failed |-> FailedConditions(measured, AnswerStatus(ended))]

Qualifies(outcome) == outcome.failed = {}

(* Mutant of Stops: every candidate is attempted.                            *)
Stops_AtTheEnd(attempted, rows) == Len(attempted) = Len(rows)

(* The search ends with the first row that qualifies, or the last row.       *)
Stops(attempted, rows) ==
  \/ Qualifies(attempted[Len(attempted)])
  \/ Len(attempted) = Len(rows)

Judge ==
  /\ run.at = "verify"
  /\ child # "running"
  /\ LET attempted == Append(run.attempted, Outcome(Current, run.measured, child))
     IN run' = [run EXCEPT !.attempted = attempted,
                           !.measured = Absent,
                           !.at = IF Stops(attempted, run.candidates.rows)
                                  THEN "publish" ELSE "generate"]
  /\ child' = NoChild
  /\ UNCHANGED <<config, candidates, artifact, manifest>>

(* The ordinal in front of all others that qualified, if there is one.       *)
Selected(attempted) ==
  {i \in DOMAIN attempted :
     Qualifies(attempted[i]) /\ \A j \in 1..(i - 1) : ~Qualifies(attempted[j])}

(* Only after all inference is an artifact that already exists noticed.      *)
Publish ==
  /\ run.at = "publish"
  /\ artifact' = IF artifact # Absent THEN artifact
                 ELSE [candidates |-> run.candidates, config |-> run.config,
                       attempted |-> run.attempted, selected |-> Selected(run.attempted)]
  /\ run' = Idle
  /\ UNCHANGED <<config, candidates, manifest, child>>

(* An exception in a generation or in the freeze's rendering, or a kill      *)
(* anywhere: all outcomes are lost.                                          *)
CommandDies ==
  /\ run.at # "idle"
  /\ run' = Idle
  /\ child' = NoChild
  /\ UNCHANGED <<config, candidates, artifact, manifest>>

-----------------------------------------------------------------------------
(* freeze_qualified_row.                                                     *)
(* Mutant of Authorized: the candidate manifest's hash is not compared.      *)
Authorized_AnyCandidates(evidence, current, cfg) ==
  /\ evidence # Absent
  /\ current # Absent
  /\ evidence.candidates.identity = cfg
  /\ \E i \in evidence.selected : Qualifies(evidence.attempted[i])

(* The candidate manifest the artifact was computed from, a config of the    *)
(* same identity, an ordinal that was selected and whose outcome qualifies.  *)
Authorized(evidence, current, cfg) ==
  /\ evidence # Absent
  /\ current = evidence.candidates
  /\ evidence.candidates.identity = cfg
  /\ \E i \in evidence.selected : Qualifies(evidence.attempted[i])

StartFreeze ==
  /\ run.at = "idle"
  /\ Authorized(artifact, candidates, config)
  /\ \E i \in artifact.selected :
       run' = [at |-> "write", row |-> candidates.rows[i], identity |-> config]
  /\ UNCHANGED <<config, candidates, artifact, manifest, child>>

(* Whatever manifest is there is replaced.                                   *)
WriteManifest ==
  /\ run.at = "write"
  /\ manifest' = [row |-> run.row, identity |-> run.identity, parses |-> TRUE]
  /\ run' = Idle
  /\ UNCHANGED <<config, candidates, artifact, child>>

(* Mutant of Preparable: --force replaces whatever there is.                 *)
Preparable_Forced(force) == manifest # Absent => force

(* prepare-b2a-manifest: without --force only where nothing is; with it, the *)
(* dataset and the row of a manifest that parses have to stay.               *)
Preparable(force) ==
  manifest # Absent =>
    /\ force
    /\ manifest.parses =>
         manifest.row = DefaultRow /\ Dataset(manifest.identity) = Dataset(config)

Prepare(force) ==
  /\ run.at = "idle"
  /\ Preparable(force)
  /\ manifest' = [row |-> DefaultRow, identity |-> config, parses |-> TRUE]
  /\ UNCHANGED <<config, candidates, artifact, run, child>>

Next ==
  \/ BuildCandidates \/ EditConfig \/ SchemaChanges
  \/ StartQualification \/ Generate \/ ChildEnds \/ ChildTimesOut \/ Judge \/ Publish
  \/ CommandDies
  \/ StartFreeze \/ WriteManifest
  \/ \E force \in BOOLEAN : Prepare(force)

(* A process that runs goes on; the operator, and a verifier's child, need   *)
(* not.                                                                      *)
Fairness ==
  /\ WF_vars(Generate) /\ WF_vars(ChildTimesOut) /\ WF_vars(Judge)
  /\ WF_vars(Publish) /\ WF_vars(WriteManifest)

Spec == Init /\ [][Next]_vars /\ Fairness

-----------------------------------------------------------------------------
(* A published decision is that of one search from the first candidate on,   *)
(* whatever runs were cut short before it: the rows attempted are the first  *)
(* of the committed order, none before the last qualified, and the last did  *)
(* if and only if its ordinal is the one selected; without one, all were     *)
(* attempted (run_qualification_execute: never a later candidate, never the  *)
(* best).                                                                    *)
SelectionIsFirstQualified ==
  artifact # Absent =>
    LET attempted == artifact.attempted
        rows == artifact.candidates.rows
        last == Len(attempted)
    IN /\ \A i \in 1..last : attempted[i].row = rows[i]
       /\ \A i \in 1..(last - 1) : attempted[i].failed # {}
       /\ artifact.selected = IF attempted[last].failed = {} THEN {last} ELSE {}
       /\ artifact.selected = {} => last = Len(rows)

(* Whatever becomes of the verifier's child - a timeout, a crash, output     *)
(* that is no JSON or names no status - the answer counts neither as correct *)
(* nor as incorrect, and its row is never selected (math_verifier.py: never  *)
(* False on a failure).                                                      *)
UndecidedIsNeverSelected ==
  artifact # Absent =>
    \A i \in DOMAIN artifact.attempted :
       LET outcome == artifact.attempted[i]
       IN outcome.verifier \notin {"equivalent", "not_equivalent"} =>
            /\ outcome.status = "unverifiable"
            /\ i \notin artifact.selected

(* A manifest that names another row than the default one names the row the  *)
(* published artifact selected, which failed no condition there, under the   *)
(* revisions and the budget it was qualified under: edits of the config and  *)
(* new candidate manifests in between notwithstanding.                       *)
FrozenRowWasQualified ==
  manifest # Absent /\ manifest.row # DefaultRow =>
    /\ artifact # Absent
    /\ manifest.identity = artifact.config
    /\ \E i \in artifact.selected :
         /\ artifact.attempted[i].row = manifest.row
         /\ artifact.attempted[i].failed = {}

(* What is published stays: the artifact is never replaced, and the row of a *)
(* manifest that parses gives way only to the row the artifact selected.     *)
PublishedEvidenceStays ==
  [][/\ artifact # Absent => artifact' = artifact
     /\ manifest # Absent /\ manifest.parses /\ manifest'.row # manifest.row =>
          /\ artifact # Absent
          /\ \E i \in artifact.selected : artifact.attempted[i].row = manifest'.row]_vars

(* A command that has started ends, whatever the verifier's child does:      *)
(* nothing but the timeout ends a child that hangs.                          *)
CommandsEnd == run.at # "idle" ~> run.at = "idle"
==============================================================================
