# A verification project for FaithKV

TLA+ modules that model the core of this repository, TLC configurations that
model-check them on small instances, and TLAPS proofs of their most important
safety properties for every value of their constants.

    tlc -config MCTwoPass.cfg TwoPassCapture     # model-check one instance
    tlapm TwoPassCapture_proofs.tla              # check one module of proofs

`PROJECT.json` lists the components, runs, theorems, findings and hazards, a
mutant of the code for every property, and the source lines each definition
stands for. Paths below are relative to `src/src/kvcot/` unless they begin
with `src/`.

## 1. The system

FaithKV asks what the eviction of a key/value cache (R-KV) does to a model's
chain of thought. It is a command line (`kvcot`, `cli.py`) around two bodies of
work that share the model code:

* the **fixed-trace screen**: generate traces with a full and with a compressed
  cache, select rows, replay prefixes of the traces, judge accuracy, analyse;
* the **B2A discovery attempt**: one example, run once with a full cache and
  once with R-KV; compactions of the R-KV run are chosen, replayed and
  captured, and for each the model is branched with one evicted token swapped
  in for one kept token; the attempt ends in one immutable verdict.

### Inventory

| Component | State it keeps | Operations | Meets | What is hard, and what makes it correct |
|---|---|---|---|---|
| Attempt command (`cli.py` `cmd_b2a_calibrate`, `discovery/b2a_execute.py`) | position in the attempt, the workers' results, verdict, exit code | create the directory, preflight, launch and judge two workers, store artifacts, evaluate gates, publish `final.json`, verify it, record failures | worker processes (subprocess), attempt directory | I/O errors in any of about twenty writes and reads, each with its own handler; kills, Ctrl-C, a publication before its own verification. Exit code, verdict and records must agree; a pass must be justified |
| Attempt directory (`discovery/attempt_artifacts.py`) | write-once files, two journals | atomic write that refuses to overwrite, append, build references | everything above | lost or altered files between verification and use |
| Attempt verifiers (`discovery/attempt_verification.py`) | none | pre-final verification, final verification | directory | what damage they miss |
| Worker process (`discovery/b2a_worker_entry.py`, `worker_envelope.py`) | step, exit code, journal | body, result, envelope, failure envelope | launched and killed by the coordinator | a kill between any two writes; timeouts; no orphan on the GPU |
| Worker bodies (`discovery/b2a_workers.py`) | stage tracker, journal, timer | tracked stages around model loading, Pass 1 and 2, pairs, derivation | `run_example` | an exception out of any stage, any journal append, any measurement; the report must say where, and keep what was done |
| Example and pair loop (`discovery/orchestrator.py`, `pipeline.py`, `attrition.py`, `worker_partial_evidence.py`) | attrition counters, lists of attempted, completed and failed pairs, branch clones | plan, replay, convert, per pair: guard, two branches, swap, checks | worker body, model | thirteen pairs that each can be rejected, dropped, fail or raise; counters and four lists must stay in step |
| Model, adapter, snapshots (`generation/`, `discovery/real_model_adapter.py`, `swap.py`) | R-KV's token counter, flag, cluster records; cache; position map; event log | forward call, compaction, reset, snapshot, restore, swap | external R-KV code patched into the model | four pieces of state changed and restored together; an index at a boundary; a flag read one call late |
| Two passes (`discovery/pass1.py`, `pass2.py`, `capture.py`, `compact_target.py`, `branch_eval.py`) | natural trace, plan, captures, targets | observe, plan, replay, capture, compare, convert, branch | model | Pass 2 finds again, in a rebuilt cache, what Pass 1 chose; a GPU need not select the same slots twice |
| Schedule (`analysis/rkv_schedule.py`) | none | predict cache lengths and events | Pass 1's eligibility rule, qualification | boundary cases of the prediction |
| Row qualification, freeze and manifest preparation (`discovery/b2a_r2_candidates.py`, `b2a_qualification.py`, `b2a_r2_freeze.py`, `manifest_prepare.py`, `utils/math_verifier.py`) | candidate manifest, qualification artifact, one-example manifest | order the candidates, try one after the other, judge the answer in a child process, publish once, freeze the row, prepare the default one | config file, the model, each other's files | hours between the commands, in which config and files change; a child that hangs or crashes; two writers of one manifest |
| Replays and probes (`generation/decode.py`, `replay.py`, `probes/early_answering.py`, `cli.py` `replay-probe`, `replay-fixed-trace`) | the model, snapshots, the set of ids read at the start, the probe file | generate, find the think span, replay with a snapshot per fraction, branch a probe frozen or live, append | model, JSONL store | one model object for all traces and probes; positions counted from three origins; a resume that computes an anchor again |
| JSONL store (`utils/io.py`) | append-only files | read, list ids, open, append | every command of the screen | torn lines, two writers, resumes |
| Screen commands (`cli.py`, `analysis/fixed_trace.py`) | four JSONL files, selection, decision, run manifests | generate, inspect, replay, accuracy gate, analyse | only through files | hours of GPU work interrupted, resumed, repeated under another configuration, overlapped: what an accepted analysis rests on |
| Gates of an attempt (`discovery/b2a_contract.py`, `final_contract.py`) | none | derive 29 and 30 conditions from a result | the worker's result | the same pairs are counted from lists, counters, timings and memory records |
| Probe analysis, scientific summary, recorders, answer extraction, shell scripts | none, or one report | pure functions, one-shot reports | | field-by-field arithmetic |

### Modules

| Module | Models |
|---|---|
| `AttemptDirectory` | the files of an attempt, write-once, with refused writes |
| `AttemptVerifier` | what the two verifications accept |
| `WorkerProcess` | one worker process, from launch to exit or kill |
| `B2AAttempt` | the command and the coordinator; composes the three above |
| `AttemptOutcome`, `B2AOutcome` | the abstract promise of an attempt, and the mapping under which `B2AAttempt` implements it |
| `StageTracker` | stages, timer, memory meter and journal around an operation |
| `PairEvaluation` | `build_swap_pair_record`, phase by phase |
| `ExampleRun` | both worker bodies and `run_example`; composes the two above |
| `B2AGates` | the two gates over what `ExampleRun` returns; extends it |
| `RkvModel` | R-KV with the adapter, snapshots, swap, and the predicted schedule |
| `TwoPassCapture` | natural run, plan, replay, capture, conversion, branches; extends `RkvModel` |
| `ProbeReplay` | base generation, replay with snapshots, probes and their records; composes `RkvModel` and `JsonlFile` |
| `RowQualification` | candidates, qualification, freeze and preparation of the one-example manifest |
| `JsonlFile` | one JSONL file under appends and interruptions |
| `FixedTraceScreen` | the screen's commands; extends `JsonlFile` |
| `ExampleClaims`, `ScreenClaims` | what a document, docstring or comment says and the code does not do; each extends the model of its subject |
| `MC*` | constants for TLC |
| `*_proofs` | theorems and their proofs |

The families meet at four seams. `WorkerProcess` treats the worker body as
one step that returns or raises; `ExampleRun` is that body. `ExampleRun` treats
Pass 1, Pass 2 and each branch as one step that returns one of its outcomes or
raises; `TwoPassCapture` is what happens inside when nothing raises.
`FixedTraceScreen` appends a probe record as one item of a replay; `ProbeReplay`
is how its contents come about. `RowQualification` takes the predicted and the
eligible events of a row as measured; that the prediction is on the safe side is
`QualificationIsConservative` of `TwoPassCapture`.

## 2. The B2A attempt

`pc` is the next step of `cmd_b2a_calibrate` / `run_b2a_calibration` /
`run_both_workers_via_subprocess`; each write, read, verification and handler of
the code is one action, so that a fault or a kill can fall between any two.
`Goto`, `Raise`, `Leave` and `Exit` are the four ways out of a step: on, to the
handlers, through `finally`, out of the process. `CatchException` and `Finally`
are the handlers; `RecordFinalWriteFailure` and `RecordVerificationFailure` the
two exceptions handled on the spot. `mem` is what the coordinator holds of each
role's result, `refs` the manifest embedded in `final.json`, `partial` whether
the exception in flight carries the FullKV result. The worker runs its own
steps concurrently; the coordinator waits in `subprocess.run`, collects the
exit, or kills at the timeout. The operating system may also refuse to start it
(`LaunchWorker`, an `OSError` after `command.json` is written). A worker's append
to its journal can fail with nothing, a part of the line or the whole line on disk
(`AppendFails`).

File contents are symbols ("good", "weak", "with_fullkv", "Altered", ...): what
the verifiers and later steps tell apart. The 29-condition and 30-condition gates
are one answer each, constrained to be "passed" only over results they accept.
`Interrupt` is a `KeyboardInterrupt`: it goes through `finally` and exits 130.
`Crash` is SIGKILL of the command: nothing runs after it, and a worker may
outlive it. `DiskFault` loses or alters one file of `Fragile` at any step; never
`final.json` itself, which nothing verifies once the command has ended. Left out: temporary
files an interrupted atomic write leaves behind, the dry run, and calls without
an attempt directory (tests and helpers). The refusal to overwrite an existing
file is not an action: in a fresh directory no step writes a file that is there.
A write that needed an overwritten file would leave the command without a step;
an interruption or a kill is always possible, so that the deadlock check would
not show it. `Terminates` would, because nothing obliges either to come.

## 3. The worker body and the pair loop

`ExampleRun` runs one body, FullKV or R-KV, from the CUDA check to the result.
`at` is the place in it, `todo` the stages left of the preamble, and a stage is
"staged" (tracked), "measured" (tracked, timed and journalled) or "bare" (no
stage at all). `StageTracker` has the code's two fields and no stack:
`Completes` sets the stage completed last, `Breaks` leaves the failing one
current, and `...Around` does the same with an inner stage inside. The pair loop
follows `run_example`: `StartPair` counts a pair as entered, the guard admits,
rejects or raises, `Evaluation` runs `PairEvaluation` (lookup, baseline clone,
baseline branch, release, swapped clone, swap, parity check, branch, record),
`JudgePair` drops or keeps it, `AbortLoop` is the handler around it all.
`Result` and `Evidence` are the derivations of a successful result and of a
failure report, computed from the lists exactly as `b2a_evidence.py` and
`worker_partial_evidence.py` do.

The numbers a branch computes are open (each check may pass or fail). The
contents of mutation reports and failure details are dropped, all mismatches of
Pass 2 are alike, and the calls made without a timer, a guard or with another
no-op mode (tests and the CPU harness) are left out. A kill of the process can
come at any time and is `WorkerProcess`'s. The model has every pair attempt end
at the pair: an out-of-memory error inside a branch becomes the attrition of
that pair, which the code's tests call intended ("contained at the PAIR boundary
by design").

`B2AGates` evaluates the two gates over every result `ExampleRun` returns, the
partial ones too: `MandatoryConditions` of the first (29) and `FinalConditions`
of the second (30), each derived from the list, counter or timing the code takes
it from. Kept are the eleven of each that the example and its pairs decide; the
others (identities, revisions, placement, snapshots, call traces, limits) depend
on nothing this model follows. `Required` is the product of the two constants,
where the code has 12. The duration of a real pair is journalled when its
measurement has ended, whether the pair is kept or dropped.

## 4. The model and the two passes

`RkvModel` follows one KV head of one layer. A token is its absolute position.
`live.cache` is what is really in the slots; `live.positions` what the adapter
believes is in them (`LayerProvenance.positions`); `model.kept` the cluster's
newest record, `model.length` and `model.compression` the counter and the flag
`CausalLM_forward` keeps, `model.evicted` the cluster's count. A forward call
`Grows` or `Compacts`; which slots a compaction keeps is any choice the budget
and window allow, each time anew, because the scores are floating point on a
GPU. R-KV itself is external: `Counted` and `Attempts` come from how the source
and `src/docs/UPSTREAM_AUDIT.md` use it, the recording of positions from the port in
`src/tests/unit/discovery/_fake_rkv_fixtures.py`. `shuffled` is in no object of
the program: it marks the one situation (a compaction exactly at the budget, on
a cache nothing was evicted from) in which R-KV's own records go wrong.

`TwoPassCapture` runs the model naturally until an end token or the cap, makes a
plan from what it observed (`Eligible`, `EvictedPool`, `RetainedPool`), resets,
replays the same tokens with the capture attached, compares, converts, and runs
four branches (baseline and swapped, for a real pair and for the no-op pair),
each from a snapshot restored into the one model object the branch before it
has advanced. One of the plan's events is followed, with one of its pairs. The
other events run the same code one after the other; what they share with the
followed one, the model, is advanced by the replay all the same.

Left out: scores and likelihoods, the disagreement of two layers about an event
(an assertion the external schedule never triggers), FullKV without a cluster,
aliasing of tensors, the synthetic harness with its own position map, and the
token comparison of Pass 2, which compares tokens with themselves.
The pair-level refusals "insufficient future tokens" and "donor not in kept
positions" are not actions: with deadlock checked, a state that needed them
would be reported, and none is reachable.

`ProbeReplay` uses the same model for the screen's replays. A base record comes
from `BaseReset`, `BasePrefill`, `BaseDecode` and `BaseFinish`, over a trace out
of `Traces`; `ThinkStart`, `ThinkEnd` and `CutPosition` find the span and the
cuts in it; `ReplayReset`, `ReplayPrefill` and `ReplayDecode` feed the trace again and
take a snapshot at every fraction that falls on the token just fed; `Branch`
restores one, `ForceCompressionOff` and `Feed` run a probe from it, frozen (no
compaction allowed) or live. `replay-probe` and the two modes of
`replay-fixed-trace` differ in which fractions they probe, in which order, and in
what they skip. A kill falls anywhere, between text and line break included, and
the next process reads the ids again. Unlike in `TwoPassCapture`, what is computed
from equal states is equal (a compaction keeps the slots a fixed ranking puts
first, and each ranking gives every position its own place), because
reproducibility is the question here. R-KV computes its scores from a window of the
last queries, the `query_cache` that a snapshot captures and restores
(`generation/replay.py:297-299`, `339-343`). No state of the model holds it, and a
probe whose `query_cache` was not restored would rank, and answer, as before: that
restore is taken for granted, as is a GPU that computes the same from the same. An
answer is fed at most `max_new_tokens` long (`MoreToFeed`). FullKV is a budget that
is never reached. Left out: seeds, the decoded text, and the restriction to frozen manifests and rows.

## 5. The screen

Each command is a process that loads configuration and lock once (`stamp`),
then goes through its steps: verify an existing output, open the writer (the ids
it reads then are all it will ever know), read its inputs one by one, append
records, finish, write a selection or a decision. An append is two writes, text
and line break: a record of tens of kilobytes exceeds the 8 KB buffer, so that
the text is on disk before the line break is. An interruption can fall before,
inside and after either. `config` is the identity the files on disk have now; a
record carries the identity it claims (`by`) and, for the properties only, the
one its run had loaded (`made`). The operator may start any command of
`Commands` in any order, restricted to some rows, with or without `--resume`,
and edit the configuration.

Three sets of rows say what a trace can be: `Parsed` (its think span is found),
`Candidates` (the inspection may also rank it: its answer is known to be correct and
was not cut off by the cap) and `Eligible` (it is compressed enough to be selected).

Abstractions: an identity is one value (stage file, upstream commit, model and
tokenizer revision); the order in which a run visits its items is open; one
seed, as the stage configurations say; only the v3 stages
(`require_meaningful_compression`), which have the strict gate; whether the
accuracies of a full population are plausible is open; a torn decision file and
the failure to write a manifest are left out. `CHECK_DEADLOCK FALSE`: the
operator stops after `MaxStarts` commands.

## 6. Choosing the row

`RowQualification` has four files: `config`, `candidates`, `artifact` and
`manifest`. A command reads its files when it starts, keeps what it has read in
`run`, and writes at its end; between the two the operator may edit the config,
build new candidates or change the manifest's schema so that an existing file no
longer parses. `StartQualification` to `Publish` are `qualify-b2a-row --execute`:
one candidate after the other is generated and judged until one qualifies
(`Stops`), and an artifact is written only where there is none. The answer is
judged by a child process that ends in one of `ChildOutcomes` or is killed by the
timeout; `AnswerStatus` maps every end to one of three answers. `StartFreeze` and
`WriteManifest` are the freeze, which compares the artifact with the candidates
and config of now (`Authorized`); `Prepare` is `prepare-b2a-manifest`, with and
without `--force`. `CommandDies` loses a command with everything it has measured.

A row is its index in the dataset, an identity (model, revisions, budget, dataset
revision) one value with a dataset revision under it (`Dataset`), and the order of
the candidates any order the identity fixes (`HashRank`, in the code SHA-256). The
assumption keeps `DefaultRow`, row 0, out of `Eligible`: it is not of level 5.
Commands do not overlap. Generation measures whatever `Generations` allows.

## 7. Runs

| Run | Instance (distinct states) | Question |
|---|---|---|
| `attempt` | 3 refused writes, no disk faults (42 thousand) | Do exit code, verdict, failure records and worker processes agree whatever is refused, killed, interrupted or hangs, and does the command end? |
| `attempt_faults` | 1 refused write, 1 fault on one of 8 files (688 thousand) | What do the verifications catch, in which windows can exit code 0 hide damage; which failures of an R-KV worker keep the FullKV result; does the attempt implement its abstract outcome? |
| `pair_loop` | 3 events, 2 real pairs each, 1 no-op pair (1.1 million) | Is any pair lost, counted twice or misreported, wherever an exception is raised, and do the two gates pass the whole plan and nothing else? |
| `two_pass` | budget 3, window 1, flag every 2 tokens, prompts of 2 to 5, 6 generated tokens, horizon 2 (2.6 million) | Do schedule, positions, plan, capture, swap and prediction agree with what is in the cache? |
| `probe_replay` | 2 rows, 5 shapes of a trace, 2 rankings, fractions 0, 1/2 and 1, budget 3 (60 thousand) | Does a probe depend on its trace and cut alone, and is a snapshot the recorded run at that token? |
| `qualification` | 3 rows of which 2 are candidates, 2 identities that order them in opposite ways, 2 measurements (707 thousand) | What does a frozen row prove, when files change between the commands and commands and children die? |
| `screen` | 2 rows, 2 fractions, 2 configurations, 7 commands, 1 interruption, 1 edit (2.4 million) | Is any record written twice, any part taken for the whole, any probe file mixed; what do a passed gate and an accepted analysis rest on? |
| `overlap` | 2 commands at a time, 2 rows, 4 starts, 1 interruption, the two processes interchangeable (2.6 million) | What still holds when nothing keeps two commands off one file: do readers see growth or refusal, and the gate the exact population? |
| `claim_*` | the same modules, one property each | four places where a document, docstring or comment says something else; see section 10 |

### Why the bounds are enough

* `attempt`: three refused writes are one for the failure, one for its record
  and one for `completion.json`; `CleanDirectoryMeansSuccess` states that two
  beyond the first are needed to mislead, and three make that case happen.
* `attempt_faults`: one fault separates every window, because each property
  speaks of one file; the eight files are one of each kind the verifiers treat
  differently.
* `pair_loop`: three events make a first, a middle and a last one; two real pairs
  an ordinary boundary inside an event and one between events (the code has
  three and four); the counters depend on nothing else.
* `two_pass`: prompts below, at, one and two above the budget; six tokens give up to four
  compactions, so that there is a first one, an eligible one, one before it that
  may differ between passes, and a last one; a budget of three and window of one
  keep two slots on score, enough to permute.
* `screen`: seven commands are the documented pipeline (two generations, an
  inspection, two replays, an analysis) and one repetition; two rows and one
  selected row make a selection that leaves something out.
* `overlap`: two processes meet in one line, and two rows make "a part" and an
  order that differs between the two.
* `probe_replay`: two rows, so that the model has run another trace before; a span
  opened by the prompt, by the model, an empty one, one never closed and none;
  caches below, at and above the budget at the first cut; answers of one token,
  two, and cut off; a ranking that favours old tokens and one without an order.
* `qualification`: two candidates make a first and a later one, and a third row
  one that the next candidate manifest may bring in; the second identity makes the
  order another one; a verifier that decides, one that does not, and the timeout.

### Properties

Every property is stated with its meaning where it is defined. The ones that
took most thought:

* `ReportedVerdictAgrees`, `CleanDirectoryMeansSuccess`: three independent
  records of one outcome (exit code, `final.json`, failure records) agree, and a
  directory that looks successful is a success, with the exceptions named.
* `DamageEscapesOnlyInWindow`: the exact steps between which damage goes
  unnoticed by an attempt that exits 0. It is wider for the pair records, which
  only the gate verifies.
* `NoOrphanWorker`: a worker runs only while its command waits for it, or as the
  orphan of a killed command, and then nothing in the directory speaks of its end
  and there is no verdict: nothing is concluded from files that can still change.
* `PartialEvidenceIsKept`: which failures carry the FullKV result. Those where the
  R-KV worker was reported as terminated or left no result, and no others; what
  that leaves out is in section 10.
* `EveryEntryIsAccounted`, `EvidenceKeepsPairs`: four lists and two counters say
  the same of the example and its thirteen pairs, on every path. One path loses the
  example from its counter (an exception in `build_pass1_plan`, which nothing
  catches), and the property says that it is the only one and that the failure
  report names that stage.
* `GatesPassTheWholePlanOnly`: the two gates count the same pairs from different
  places, and each passes exactly when the whole plan was completed.
* `AbortNamesWhatRaised`: the stage record has no stack, and the report of an
  aborted example still names a stage of the pass that raised, or of the pair
  attempted last; that the stage had not completed does not hold (section 10).
* `ProvenanceTrue`, `NoTokenTwice`: the map a swap is planned with is the cache
  it is applied to, through compactions, reset, restore and swap.
* `ReplayKeepsSchedule`: every compaction of Pass 2 and of every branch falls
  where Pass 1 saw it, which needs the counter and the flag reset and restored.
* `ParityProtects`: R-KV's records can be wrong after a compaction at the budget;
  the capture's parity check catches that where its own map is right.
* `QualificationIsConservative`: predicted events are counted from one later than
  observed ones, leave some out and stop early; a row qualified on them has at
  least as many eligible events in Pass 1.
* `ProbesAreReproducible`, `SnapshotsFollowTheBaseRun`: one model object serves
  every trace and probe; whatever ran on it before, was killed or was skipped, a
  probe's result follows from trace and cut, and a snapshot is the recorded run.
* `FrozenProbesAreUndisturbed`: R-KV's own rules would compact in the middle of a
  frozen probe, and the code has to stop that before every call; the record's
  contamination flag is right either way.
* `OneAnchorPerTrace`: a resumed replay computes the anchor again and writes it
  next to the earlier one.
* `SelectionIsFirstQualified`, `FrozenRowWasQualified`, `PublishedEvidenceStays`:
  the row in the manifest is the first of the committed order that qualified, under
  the manifest's identity, through every edit and restart between the commands.
* `UndecidedIsNeverSelected`: a verifier that fails is neither "correct" nor
  "incorrect".
* `AcceptedPopulation`, `AcceptedProbes`, `CompletedRunIsComplete`: what the gate
  and the analysis let through, after any history of commands. The first is checked
  twice: with overlapping commands under one configuration (`overlap`), and one
  command at a time with two configurations and an edit (`screen`), where its
  clause on the identity of the records has something to exclude.

Each property of each passing run has a mutant, a plausible bug in one mapped
definition, under which TLC finds it violated; the mutants stand beside the
definitions they change (`ResetPatchedState_KeepsLength`, ...).

## 8. Fairness

Two properties need it; all others are checked without.

`Terminates` of the attempt: `FairSpec` is `Spec /\ WF_vars(Main)`: the command's
own process takes its next step in the end, and while it waits the operating
system delivers the timeout that `subprocess.run(..., timeout=...)` asks for.
Nothing is assumed of the worker, which may hang for ever.

`CommandsEnd` of the qualification: weak fairness of `Generate`, `Judge`, `Publish`
and `WriteManifest`, the steps of one process that waits for nothing, and of
`ChildTimesOut`, the timeout of `subprocess.run`. Nothing is assumed of the child
(`ChildEnds`), of the operator, or of files that change. The run's safety
properties are invariants, which fairness does not affect.

## 9. Proofs

Each holds for every value of the constants that satisfies the named
assumptions of its module. Where a theorem assumes more, the table says so.

| Theorem (module) | States | Argument |
|---|---|---|
| `TypeCorrect` (`B2AAttempt_proofs`) | `TypeOK` of the attempt | one lemma per way out of a step (`GotoTyped`, `RaiseTyped`, `LeaveTyped`), one per way to touch the directory |
| `NoOrphan` | `NoOrphanWorker`, the orphan of a killed command included | `OrphanInv` adds that a killed command has exited, so that no later step is its own; that its directory holds no record of the worker is part of `PartialInv` (`ReportsInOrder`), that it holds no verdict part of `VerdictInv` |
| `VerdictAgrees` | `ReportedVerdictAgrees` | `VerdictInv`, below |
| `AttemptImplementsOutcome` | `B2AAttempt` implements `AttemptOutcome` | each step is one of the outcome's steps or a stutter under the mapping; it needs `VerdictInv` |
| `PublishedPassHasEvidence` | `PublishedPassIsJustified` | `PassInv`: while a verdict of "passed" is carried, both results were accepted by the gates, and each required file is in the manifest or was damaged |
| `FailuresAreRecorded` | `FailureIsRecorded` | `RecordInv`: which exception is in flight, and what its handler has still to write |
| `PartialEvidenceKept` | `PartialEvidenceIsKept`, in both directions | `PartialInv`: in which order results and reports come about (`ResultsInOrder`, `ReportsInOrder`), that an exception which carries the FullKV result has a reason on disk (`PartialExplained`), and that the two reasons are followed by nothing else (`PartialWritten`, `NoResultWritten`) |
| `CleanMeansSuccess` | `CleanDirectoryMeansSuccess` | `CleanInv` counts the writes refused between a failure and an exit that left no record |
| `OnlyRecordsAfterFinal` | `NothingAfterFinal` (an action property) | each write of the program after the verdict is one of three; `FaultsLast` tells a write of this step from a fault of this step |
| `OnlyWindowsHideDamage` | `DamageEscapesOnlyInWindow` | `WindowInv`: since a verification looked at a file, it is what it was, or was damaged in a step after that verification |
| `ScreenTypeCorrect`, `FilesOnlyGrow` (`FixedTraceScreen_proofs`) | `TypeOK`; `ReadersSeeGrowth` | lemmas on `JsonlFile` (`JsonlFile_proofs`): a write extends a readable file or makes it unreadable for good |
| `GatePassesWholePopulation` | `AcceptedPopulation`, assuming the configuration is not edited under a running command | `GateInv`: records are what they claim (`by = made`), in the files and in what a command has read, and a running command's stamp is the configuration |
| `OneWriterWritesOnce` | `RecordsAreUnique`, assuming one process | `UniqueInv`: a writer's known ids cover the file it writes, the record in flight included |
| `CompletedRunsAreWhole` | `CompletedRunIsComplete`, however commands overlap and configurations change | `WriterOwes`: what a run owes is in the file, in flight or still to do, unless no reader accepts the file any more |
| `ProbeFilesHaveOneIdentity` | `ProbesHaveOneIdentity`, assuming one process | `ReplayVerified`: a replay past its verification writes to a file of its own identity only |
| `PassedAnalysisIsOneExperiment` | `AcceptedProbes`, assuming one process and no edit under a running command | `ProbesInv`, below |
| `BodyTypeCorrect`, `PairsAccounted`, `ExampleAccounted`, `EntriesAccounted`, `ReportKeepsPairs`, `ClonesBounded`, `AbortsNameWhatRaised` (`ExampleRun_proofs`) | `TypeOK`; `EveryEntryIsAccounted`, in two parts; `EvidenceKeepsPairs`, `ClonesAreBounded`, `AbortNamesWhatRaised` | `PairsInv` says where in the loop a pair can be in flight (`PlaceInv`), that the attempted pairs are 1..k (`AttemptedInv`), and how the rest splits (`SettledInv`); `ClonesInv`: which clone is held follows from the step; `ExampleInv` and `BalanceInv`: the counters of the example follow the passes; `AbortInv`: from the guard's raise on the current stage is one of the pair in flight |
| `GatesPassWholePlan` | `GatesPassTheWholePlanOnly`; a result returned before the pair loop carries no selected events (`SelectedEvents`) | `SoundInv` (completed real pairs, checks passed, checks made and attempted real pairs is a growing chain of counts), `OrderInv` and `ReturnInv` tie the lists to the plan's order; that every event has its pairs is division of the pair number (`BlockOf`) |
| `CaptureTypeCorrect`, `CachesAreBounded`, `ProvenanceIsTrue`, `TokensStayApart` (`TwoPassCapture_proofs`) | `TypeOK`, `CacheBounded`, `ProvenanceTrue`, `NoTokenTwice` | `CaptureInv`, below |
| `ReplaysFollowTheTrace`, `BranchesStayOnTheTrace` (`TwoPassSchedule_proofs`) | `ReplayKeepsSchedule`, `HorizonFits` | `ScheduleInv`: the events of any run are those of a closed form of prompt and position (`Scheduled`) |
| `ParityCheckProtects` | `ParityProtects` | inductive as it stands |
| `SwapIsOneToken` | `SwapChangesOneToken` | `SwapInv` follows donor, slot and candidate from the plan to the branch |
| `PredictionIsExact` | `PredictedLengthIsExact` | both the model (`LengthInv`) and the recursive `Walk` (`WalkIsExact`) have the length `ExactLength` gives in closed form |
| `QualificationKeepsItsPromise` | `QualificationIsConservative` | what `Walk` lists is a rising sequence of calls on which a compaction falls (`PredictedAreForeseen`); where a rising sequence is found in another one, inner entries are found at inner places (`FewerAreEligible`) |
| `ResultsAreReproducible` (`ProbeReplay_proofs`) | `ProbesAreReproducible` | `ProcOK`, below |
| `OneAnchor` | `OneAnchorPerTrace` | `OrderOK`: the cuts are probed in the order of `ProbeOrder`, in a fixed-trace replay the last fraction first; `FileOK`: each record, those of earlier processes included, is what its trace and cut give |
| `SnapshotsFollow` | `SnapshotsFollowTheBaseRun` | `BaseOK`: the states a generation went through are those of a replay of its trace |
| `ProbesAreUndisturbed` | `FrozenProbesAreUndisturbed` | `FedState` along the states of a probe; `Taken`: every cut behind a replay has its snapshot; `FailedUnread`: only an unreadable file stops a replay |
| `FirstQualifiedIsSelected`, `UndecidedAnswersNeverSelect`, `FrozenRowIsQualified`, `PublishedStays` (`RowQualification_proofs`) | `SelectionIsFirstQualified`, `UndecidedIsNeverSelected`, `FrozenRowWasQualified`, `PublishedEvidenceStays`, for every set of rows, order, identity and measurement | `IInv`, below |

**Why `VerdictInv` is needed.** `ReportedVerdictAgrees` speaks of the end only.
To get there one has to know, at each step, which of the files can exist: the
verdict is open until the gates are evaluated, `final.json` carries it and exists
only from its write on, a failure record is written only on a way out that
excludes exit codes 0 and 2, and `completion.json` carries it from its write on.
The theorems about what an attempt leaves behind, `PublishedPassHasEvidence` and
those below it, rest on it (`Base`) and add what each file
was when it was last looked at, because a fault may change any file between two
steps: every one of their invariants says of a file "as it was written, or
damaged, and then at which step".

**Why `ProbesInv` is needed.** A decision is taken over what was read, hours after
it was written. `ProbesInv` says that every probe, in the files and among the
items a replay has left to do, is of a trace of the full-cache file (`TracesExist`;
the file only grows, so it stays there), that a selection on disk is the rule
applied to the bytes it names (`SelectionFollowsRule`), and that what a command
has read so far is what the files still hold (`ReadState`), which is where one
process at a time is used. With two, an analysis can read a file that another
command extends, and the hashes in the decision are then of other bytes.

**Why `CaptureInv` is needed.** `ProvenanceTrue` is true of a state only if it
was true of the snapshot a branch was restored from, and of everything that was
compared on the way to the swap. `Good(m, l)` collects it for one model with its
adapter: `Shaped` (map, cache and record have matching lengths), `Timed` (the flag is
the one the counter left, and the cache has outgrown the budget by no more than
the counter's remainder, which gives the bound), `Named` (map and cache agree,
and are the cluster's newest record, all different, followed by what was fed
since).
`CaptureInv` asserts it of the live model and of both snapshots, with what the
plan, the capture and the target say: that the candidate was evicted by the
planned compaction, that the donor is in the slot the target names. At the
conversion `ReplayAgrees` carries Pass 1's choice over to Pass 2's cache.

**Why `ProcOK` is needed.** Two results are equal only if they were computed from
equal states by equal steps, perhaps by different processes, hours apart, one
of which had replayed another trace before. `ProcOK` says of a process where its
state comes from: the state of a replay is the last of a chain that starts fresh
and feeds the trace, call by call (`Reached`), a snapshot is one of these, and the
state of a probe is the last of a chain that starts at the snapshot of its cut
(`IsFeeding`). What a call does is a function of the state, the tokens and the
ranking (`After`), so any two chains over one trace agree as far as the shorter
goes. `ProbesAreUndisturbed` also needs that the slots a compaction takes are slots
of the cache: `HighestExists` shows that a ranking which gives every position its
own score always has a highest choice, because the positions in a cache differ
(`Placed`).

**Why `IInv` is needed.** What is published was in a command's memory before, and
a manifest written now rests on an artifact read earlier. `RunInv` says that the
outcomes a search holds are those of the first rows in order, none of them
qualified, and that a freeze in flight is still granted by the artifact, which
holds because an artifact never changes; `ArtifactInv` that a published search was
complete; `ManifestInv` that a row other than the default one is granted by the
artifact; `ShapeInv` which fields a command has at which step.

Type invariants are proved (`TypeCorrect`, `ScreenTypeCorrect`, `BodyTypeCorrect`,
`CaptureTypeCorrect`); no run spends a property on them.

Assumptions: `RkvAssumption` (0 < window < budget, the second as R-KV
asserts itself; the divide length is positive), `PlanAssumption` (the horizon is the minimum of
future tokens less the bridge token, as the two constants of the code are),
`ProbeAssumption` (at least one row, finitely many; at least one fraction step, one
forced and one answer token), `TraceAssumption` (a generated trace holds the end token
only at its end, where generation stops), `RankingAssumption` (every position a probe
can reach has its own score), `ScreenAssumption`, `CommandsAssumption`, `QualificationAssumption` (level-5 rows
are positive indices; at least one candidate), and bounds that are natural numbers.
"One process" is `\A x, y \in Procs : x = y`, "no edit under a running command"
is `~EditWhileRunning`: nothing in the code enforces either, `claim_config` shows
that the second is needed, and an analysis that runs while a file it reads grows
that the first is.

**With TLC only**: `Terminates` and `CommandsEnd`, which are liveness and out of
the prover's reach, and the four claims of section 10, which do not hold. Every
other property of the runs is a theorem above.

## 10. Where the repository says something else

Each of these is a run in which TLC shows the disagreement. Others follow the table.

| Run | What is said | What the code does |
|---|---|---|
| `claim_prior` | `utils/io.py:68-70`: "a crash mid-run loses at most the in-flight record, never corrupts prior ones" | a crash between text and line break, then a resume, joins the next record to the last one: one unreadable line, exit code 0 |
| `claim_config` | `config.py:263-264`: the hash is "stored on every record that was produced under it" | `generate` hashes the file anew for every record but loaded it once |
| `claim_swap` | `orchestrator.py:547-551`: expected failures are data, only unexpected exceptions abort | a refused swap is raised through the timer, which wraps it, so the `except` that expects it never matches |
| `claim_provenance` | `test_real_model_adapter_state.py:686-688`: the adapter's positions are right at every step after a compaction exactly at the budget | the adapter adopts R-KV's records, which are wrong from the second compaction on |

Further disagreements, which no run shows. The model takes the code's side in each,
and the first four are visible in it:

* `orchestrator.py:144-148` says of `selected_event_ids`: "always exactly
  `len(plan.events)` (3) for any example that reached this far, populated once, right
  after `build_pass1_plan` succeeds". When Pass 2 does not match, `run_example`
  returns without them and without `selected_event_evidence`
  (`orchestrator.py:320-323`); only results from the pair loop on carry them (583,
  610). The gates refuse such a result either way (`SelectedEvents`, `PlanSelected`);
* `worker_partial_evidence.py:64-66`: "`failing_stage = current_stage` -- never the
  last COMPLETED stage", and `test_final_audit_repairs.py:276-277`: "so
  `failing_stage` can never collide with `last_completed_stage`". `measured()`
  completes the stage and appends to the journal after it
  (`b2a_workers.py:1317-1320`); when that append, or the memory meter around the
  operation, raises, the report names the completed stage as failing
  (`MeasuredRaises`, `BreaksAround`). `AbortNamesWhatRaised` states what is left: the
  stage is one of what raised;
* `attrition.py:93-96`: entered is passed plus dropped, "a denominator can never
  silently shrink without being accounted for at some named stage". An exception in
  `build_pass1_plan` (`orchestrator.py:273`) leaves the example entered and neither;
  the failure report carries these counters, and no worker calls
  `assert_consistent` (`BuildPlan`, the second part of `ExampleIsAccounted`);
* `b2a_workers.py:536-539`: "if FullKV succeeds and R-KV fails, the FullKV result is
  still attached to the raised `WorkerFailedError`". It is attached where the worker
  was reported as ended badly and where it left no result. A result that does not
  validate, an envelope that is missing or contradicts it (`b2a_workers.py:769-783`,
  `RejectResult`), a launch that fails (512-515, `LaunchWorker`), a refused
  termination record and a dead worker whose journal does not parse
  (`RecordTermination`) lose it. `PartialEvidenceIsKept` states both sides;
* `b2a_workers.py:594` records in `termination.json` whether the worker left an
  envelope, but looks for `<role>/envelope.json`, which only the coordinator writes,
  after both workers succeeded, where a worker writes
  `<role>/result.json.envelope.json`; the comment at lines 586-588 says the record
  tells a failed worker's envelope from none;
* `src/docs/B2A_R1_FAILURE_AND_B2A_R2_PROTOCOL_2026-07-22.md:192` and
  `src/CHANGELOG.md:230` call `freeze_qualified_row` the only writer of a replacement
  manifest; `prepare-b2a-manifest --force` writes one too, with the default row, when
  the file that is there no longer parses (`Preparable`);
* an existing qualification artifact is noticed only after all inference
  (`cli.py:2410`, `Publish`);
* the artifact records `config_hash`, which the freeze does not compare, and the
  canonical hash inside a candidate manifest, which it does not recompute;
* `real_pair_wall_seconds` holds the durations of dropped pairs too, where
  `b2a_contract.py:97-100` speaks of completed ones (`ProjectionAvailable`);
* an existing file's identity is verified only with `--resume` (`cli.py:385`),
  while `cli.py:204-208` and `src/CHANGELOG.md:2501-2504` say a mismatch always
  refuses;
* `completion.json` is missing after the refusals before the `try` block
  (`cli.py:2658`), against `src/docs/B1_FINAL_EXECUTION_CALL_GRAPH.md:93-94`;
* `result.json` stays when the envelope cannot be written; the hash of a selection
  or gate input is taken after the input was read; a run manifest is written at
  the very end only; `--resume` refuses a torn file that a person then has to
  repair;
* when an event before the planned one kept other tokens in Pass 2 than in
  Pass 1, the conversion raises `CompactTargetBoundError` and aborts the worker
  (`CompactTargetFails`), where other disagreements of the passes drop the example.

## 11. Not modelled, and why

* Numbers: scores, likelihoods, uncertainty, confidence intervals, the
  conditions of the gates on placement, identities and limits. They are open
  choices where control depends on them.
* Seeded draws: every outcome the draw can have is a choice.
* Answer extraction and normalisation, hashing, seeding, rendering of prompts:
  pure functions of their text.
* The analyses (`analysis/pipeline.py`, the statistics of `analysis/fixed_trace.py`,
  the summary of an attempt), `calibrate-budget`, the failure atlas, environment
  reports, the freezing of populations, shell scripts: they read finished inputs
  once and write one output; there is no state for a property to relate.
* Recorders and device checks around the worker bodies: each reads one object and
  returns a record or raises, and `ExampleRun` keeps whether it raised.
* The synthetic CPU harness: it exists for tests of the same code.

## 12. Plan

In the order of importance for the repository's results. What is described
above is done; to come:

1. The screen: the abstract log of records a `JsonlFile` implements.
2. The progress journal, producer against verifier, and `ExampleRun` shown to
   implement the body step of `WorkerProcess`.
3. `calibrate-budget`, as a choice over finished gate results.
