--------------------------- MODULE FixedTraceScreen ---------------------------
(*****************************************************************************)
(* The fixed-trace screen (src/src/kvcot/cli.py and analysis/fixed_trace.py):*)
(* generate, inspect-fixed-trace --write-selection, replay-fixed-trace,      *)
(* check-fixed-trace-accuracy and analyze-fixed-trace, separate commands     *)
(* that meet only in the files they append to and read.                      *)
(*                                                                           *)
(* An operator starts commands in any order, restricts them to some rows,    *)
(* edits the stage configuration between them (or, with EditWhileRunning,    *)
(* under them), and interrupts them; with several Procs commands also        *)
(* overlap.  A configuration stands for the whole identity of a run: stage   *)
(* file, upstream commit, model and tokenizer revision.  The order in which  *)
(* a run visits its items is left open, and one seed is run, as the stage    *)
(* configurations of the screen say.                                         *)
(*****************************************************************************)
EXTENDS JsonlFile, FiniteSets

CONSTANTS Procs, Rows, Configs, Fractions,
          Commands,          \* the command lines the operator may issue
          Parsed,            \* rows whose trace has a well-formed think span
          Candidates,        \* those of them that are also correct and not capped
          Eligible,          \* the candidates predicted eligible for selection
          MaxSelected, MinEligible,
          MaxStarts, MaxInterrupts, MaxEdits, EditWhileRunning

ASSUME ScreenAssumption ==
  /\ Rows \subseteq Nat /\ IsFiniteSet(Rows)
  /\ Parsed \subseteq Rows /\ Candidates \subseteq Parsed /\ Eligible \subseteq Candidates
  /\ MaxSelected \in Nat /\ MinEligible \in Nat
  /\ MaxStarts \in Nat /\ MaxInterrupts \in Nat /\ MaxEdits \in Nat
  /\ EditWhileRunning \in BOOLEAN

VARIABLES file,        \* the four JSONL files
          selection,   \* results/selections/<stage>.json
          decision,    \* the last decision file written
          accounted,   \* records the run manifests count, per output file
          config,      \* the identity the configuration files now have
          run,         \* the command each process is running
          starts, interrupts, edits

vars == <<file, selection, decision, accounted, config, run, starts, interrupts, edits>>

Natural == {"full", "rkv"}
ProbeFiles == {"full_probes", "rkv_probes"}
Paths == Natural \cup ProbeFiles

(* A record carries the identity it claims (`by`) and, for the properties,   *)
(* the one its run had loaded (`made`); a probe the trace it replayed.       *)
BaseRecords == [id : Rows \X {"base"}, by : Configs, made : Configs, of : {<< >>}]
ProbeRecords ==
  [id : Rows \X Fractions, by : Configs, made : Configs, of : {<<b>> : b \in BaseRecords}]
Records == BaseRecords \cup ProbeRecords

Row(r) == r.id[1]
RowsOf(s) == {Row(s[i]) : i \in DOMAIN s}
Identities(s) == {s[i].by : i \in DOMAIN s}

(* A command line; what a command has no option for stays at a default.      *)
CommandLine(kind, out, rows, resume, sel, cap) ==
  [kind |-> kind, out |-> out, rows |-> rows, resume |-> resume, sel |-> sel, cap |-> cap]

generate(out, rows, resume) == CommandLine("generate", out, rows, resume, FALSE, 0)
replay(out, rows, sel) == CommandLine("replay", out, rows, FALSE, sel, 0)
inspect(cap) == CommandLine("inspect", "full", {}, FALSE, FALSE, cap)
accuracy == CommandLine("accuracy", "full", {}, FALSE, FALSE, 0)
analyze(sel) == CommandLine("analyze", "full", {}, FALSE, sel, 0)

CommandLines ==
  {generate(q, rs, b) : q \in Natural, rs \in SUBSET Rows, b \in BOOLEAN}
    \cup {replay(q, rs, b) : q \in ProbeFiles, rs \in SUBSET Rows, b \in BOOLEAN}
    \cup {inspect(n) : n \in 0..Cardinality(Rows)}
    \cup {accuracy} \cup {analyze(b) : b \in BOOLEAN}

ASSUME CommandsAssumption == Commands \subseteq CommandLines

Nothing == [status |-> "absent"]

Outcomes == {"idle", "ok", "failed"}
Active(p) == run[p].pc \notin Outcomes

(* A process that runs nothing: its memory is gone, how it ended is known.   *)
Resting(p, how) ==
  run' = [run EXCEPT ![p].pc = how, ![p].todo = {}, ![p].known = {}, ![p].pending = {},
                     ![p].seen = [q \in Paths |-> << >>]]

(* What a process remembers when command c begins under identity k.          *)
Fresh(pc, c, k) ==
  [pc |-> pc, cmd |-> c, stamp |-> k, step |-> 1, seen |-> [q \in Paths |-> << >>],
   chosen |-> {}, known |-> {}, written |-> {}, todo |-> {}, pending |-> {}, own |-> 0]

Init ==
  /\ file = [q \in Paths |-> NoRecords]
  /\ selection = Nothing
  /\ decision = Nothing
  /\ accounted = [q \in Paths |-> 0]
  /\ config \in Configs
  /\ run = [p \in Procs |-> Fresh("idle", accuracy, config)]
  /\ starts = 0 /\ interrupts = 0 /\ edits = 0

-------------------------------------------------------------------------------
(* Starting a command: configuration and lock are loaded once.               *)

WritesRecords(c) == c.kind \in {"generate", "replay"}

AfterSelection(c) == IF c.kind = "replay" THEN "verify" ELSE "read"

FirstStep(c) ==
  IF c.kind = "generate" THEN "verify"
  ELSE IF c.sel THEN "selection"
  ELSE AfterSelection(c)

Start(p, c) ==
  /\ ~Active(p) /\ starts < MaxStarts
  /\ starts' = starts + 1
  /\ run' = [run EXCEPT ![p] = Fresh(FirstStep(c), c, config)]
  /\ UNCHANGED <<file, selection, decision, accounted, config, interrupts, edits>>

-------------------------------------------------------------------------------
(* A selection file is trusted only for this configuration and these bytes.  *)

(* Mutant: the hash of the canonical file is not compared.                   *)
SelectionFits_AnyBase ==
  /\ selection.status = "whole"
  /\ selection.by = config
  /\ selection.cap = MaxSelected
  /\ Readable(file["full"])
  /\ selection.rows \subseteq RowsOf(file["full"].lines)

SelectionFits ==
  /\ selection.status = "whole"
  /\ selection.by = config
  /\ selection.cap = MaxSelected
  /\ selection.base = file["full"] /\ Readable(file["full"])
  /\ \A i, j \in DOMAIN selection.ranked : selection.ranked[i] = selection.ranked[j] => i = j
  /\ selection.rows \subseteq RowsOf(file["full"].lines)

LoadSelection(p) ==
  /\ run[p].pc = "selection"
  /\ \/ /\ SelectionFits
        /\ run[p].cmd.kind = "replay" => Cardinality(selection.rows) >= MinEligible
        /\ run' = [run EXCEPT ![p].pc = AfterSelection(run[p].cmd), ![p].chosen = selection.rows]
     \/ /\ ~ (/\ SelectionFits
              /\ run[p].cmd.kind = "replay" => Cardinality(selection.rows) >= MinEligible)
        /\ Resting(p, "failed")
  /\ UNCHANGED <<file, selection, decision, accounted, config, starts, interrupts, edits>>

-------------------------------------------------------------------------------
(* Resuming: every existing record must be this run's, or nothing is written.*)

(* Mutant: only --resume asks for the verification.                          *)
MustVerify_OnRequest(c) == c.resume

MustVerify(c) == c.kind = "replay" \/ c.resume

ResumesSafely(f, stamp) == Readable(f) /\ Identities(f.lines) \subseteq {stamp}

VerifyExisting(p) ==
  LET c == run[p].cmd  f == file[c.out] IN
  /\ run[p].pc = "verify"
  /\ \/ /\ MustVerify(c) => ResumesSafely(f, run[p].stamp)
        /\ run' = [run EXCEPT ![p].pc = "open",
                              ![p].known = IF MustVerify(c) THEN RecordIds(f.lines) ELSE {}]
     \/ /\ MustVerify(c) /\ ~ResumesSafely(f, run[p].stamp)
        /\ Resting(p, "failed")
  /\ UNCHANGED <<file, selection, decision, accounted, config, starts, interrupts, edits>>

(* Mutant: the writer does not read the ids that are already there.          *)
OpenWriter_Forgets(p) ==
  /\ run[p].pc = "open"
  /\ run' = [run EXCEPT
       ![p].pc = IF run[p].cmd.kind = "generate" THEN "work" ELSE "read",
       ![p].todo = IF run[p].cmd.kind = "generate"
                   THEN [id : run[p].cmd.rows \X {"base"}, of : {<< >>}]
                   ELSE {}]
  /\ UNCHANGED <<file, selection, decision, accounted, config, starts, interrupts, edits>>

(* generate plans its rows, replay first reads the traces it is to replay.   *)
OpenWriter(p) ==
  LET c == run[p].cmd  f == file[c.out] IN
  /\ run[p].pc = "open"
  /\ \/ /\ Readable(f)
        /\ run' = [run EXCEPT
             ![p].pc = IF c.kind = "generate" THEN "work" ELSE "read",
             ![p].written = RecordIds(f.lines),
             ![p].todo = IF c.kind = "generate"
                         THEN [id : c.rows \X {"base"}, of : {<< >>}]
                         ELSE {}]
     \/ ~Readable(f) /\ Resting(p, "failed")
  /\ UNCHANGED <<file, selection, decision, accounted, config, starts, interrupts, edits>>

-------------------------------------------------------------------------------
(* Reading the inputs of a command, file after file, into memory.            *)

ReadOrder(c) ==
  IF c.kind = "accuracy" THEN <<"full", "rkv">>
  ELSE IF c.kind = "analyze" THEN <<"full", "full_probes", "rkv_probes", "rkv">>
  ELSE <<"full">>

AfterReading(c) ==
  IF c.kind = "replay" THEN "work" ELSE IF c.kind = "inspect" THEN "select" ELSE "decide"

(* The probes a replay owes: every fraction of every trace it may use.       *)
Replays(r, bases) ==
  LET used == {b \in Range(bases) :
                 /\ Row(b) \in r.cmd.rows \cap Parsed
                 /\ r.cmd.sel => Row(b) \in r.chosen}
  IN {[id |-> <<Row(b), f>>, of |-> <<b>>] : b \in used, f \in Fractions}

ReadInput(p) ==
  LET r == run[p]  q == ReadOrder(r.cmd)[r.step]  s == file[q].lines IN
  /\ r.pc = "read"
  /\ \/ /\ Readable(file[q])
        /\ r.cmd.kind = "inspect" => s # << >>
        /\ run' = [run EXCEPT
             ![p].seen[q] = s,
             ![p].step = IF r.step < Len(ReadOrder(r.cmd)) THEN r.step + 1 ELSE r.step,
             ![p].pc = IF r.step < Len(ReadOrder(r.cmd)) THEN "read" ELSE AfterReading(r.cmd),
             ![p].todo = IF r.cmd.kind = "replay" THEN Replays(r, s) ELSE {}]
     \/ /\ ~Readable(file[q]) \/ (r.cmd.kind = "inspect" /\ s = << >>)
        /\ Resting(p, "failed")
  /\ UNCHANGED <<file, selection, decision, accounted, config, starts, interrupts, edits>>

-------------------------------------------------------------------------------
(* Writing records.  generate trusts what --resume told it, replay what the  *)
(* writer has seen; the writer itself refuses an id twice.                   *)

(* Mutant: one written fraction counts for the whole trace.                  *)
Known_ByRow(p) ==
  {id \in Rows \X (Fractions \cup {"base"}) :
     \E w \in (IF run[p].cmd.kind = "generate" THEN run[p].known ELSE run[p].written) : w[1] = id[1]}

Known(p) == IF run[p].cmd.kind = "generate" THEN run[p].known ELSE run[p].written

(* generate hashes the configuration file again for every record.            *)
Claimed(p) == IF run[p].cmd.kind = "generate" THEN config ELSE run[p].stamp

NewRecord(p, i) == [id |-> i.id, by |-> Claimed(p), made |-> run[p].stamp, of |-> i.of]

SkipKnown(p) ==
  \E i \in run[p].todo :
    /\ run[p].pc = "work" /\ i.id \in Known(p)
    /\ run' = [run EXCEPT ![p].todo = @ \ {i}]
    /\ UNCHANGED <<file, selection, decision, accounted, config, starts, interrupts, edits>>

RefuseDuplicate(p) ==
  \E i \in run[p].todo :
    /\ run[p].pc = "work" /\ i.id \notin Known(p) /\ i.id \in run[p].written
    /\ Resting(p, "failed")
    /\ UNCHANGED <<file, selection, decision, accounted, config, starts, interrupts, edits>>

AppendText(p) ==
  \E i \in run[p].todo :
    /\ run[p].pc = "work" /\ i.id \notin Known(p) /\ i.id \notin run[p].written
    /\ file' = [file EXCEPT ![run[p].cmd.out] = WriteText(@, NewRecord(p, i))]
    /\ run' = [run EXCEPT ![p].pc = "line", ![p].todo = @ \ {i}, ![p].pending = {i.id}]
    /\ UNCHANGED <<selection, decision, accounted, config, starts, interrupts, edits>>

AppendLineBreak(p) ==
  /\ run[p].pc = "line"
  /\ file' = [file EXCEPT ![run[p].cmd.out] = WriteLineBreak(@)]
  /\ run' = [run EXCEPT ![p].pc = "work", ![p].pending = {},
                        ![p].written = @ \cup run[p].pending, ![p].own = @ + 1]
  /\ UNCHANGED <<selection, decision, accounted, config, starts, interrupts, edits>>

(* All done: the run manifest is written, at the end and only then.          *)
FinishRun(p) ==
  /\ run[p].pc = "work" /\ run[p].todo = {}
  /\ accounted' = [accounted EXCEPT ![run[p].cmd.out] = @ + run[p].own]
  /\ Resting(p, "ok")
  /\ UNCHANGED <<file, selection, decision, config, starts, interrupts, edits>>

-------------------------------------------------------------------------------
(* inspect-fixed-trace --write-selection: rank every candidate, keep the     *)
(* eligible ones, then cap; the hash is that of the file as it is now.       *)

SelectRows(s, cap) ==
  LET eligible == RowsOf(s) \cap Eligible
  IN {r \in eligible : Cardinality({q \in eligible : q <= r}) <= cap}

Ranked(s) == LET candidate(r) == Row(r) \in Candidates IN SelectSeq(s, candidate)

WriteSelection(p) ==
  LET s == run[p].seen["full"]  chosen == SelectRows(s, run[p].cmd.cap)  ranked == Ranked(s) IN
  /\ run[p].pc = "select"
  /\ selection' = [status |-> "whole", by |-> config, base |-> file["full"], cap |-> run[p].cmd.cap,
                   ranked |-> [i \in DOMAIN ranked |-> Row(ranked[i])], rows |-> chosen]
  /\ Resting(p, IF Cardinality(chosen) < MinEligible THEN "failed" ELSE "ok")
  /\ UNCHANGED <<file, decision, accounted, config, starts, interrupts, edits>>

(* The budget cannot compress these traces: nothing is written.              *)
StopInspection(p) ==
  /\ run[p].pc = "select"
  /\ Resting(p, "failed")
  /\ UNCHANGED <<file, selection, decision, accounted, config, starts, interrupts, edits>>

-------------------------------------------------------------------------------
(* The strict accuracy gate and the analysis.                                *)

(* Mutants: the records both files happen to share are enough; records of    *)
(* another configuration are counted in.                                     *)
StrictGate_Intersection(r) ==
  Identities(r.seen["full"]) \cup Identities(r.seen["rkv"]) = {r.stamp}

StrictGate_AnyIdentity(r) ==
  LET full == r.seen["full"]  rkv == r.seen["rkv"] IN
  /\ Len(full) = Cardinality(Rows) /\ Len(rkv) = Cardinality(Rows)
  /\ DistinctIds(full) /\ DistinctIds(rkv)
  /\ RecordIds(full) = RecordIds(rkv)

StrictGate(r) ==
  LET full == r.seen["full"]  rkv == r.seen["rkv"] IN
  /\ Len(full) = Cardinality(Rows) /\ Len(rkv) = Cardinality(Rows)
  /\ DistinctIds(full) /\ DistinctIds(rkv)
  /\ RecordIds(full) = RecordIds(rkv)
  /\ Identities(full) \cup Identities(rkv) \subseteq {r.stamp}

(* Every selected trace has every fraction under both policies, no other has.*)
SelectionComplete(r) ==
  /\ r.chosen \subseteq RowsOf(r.seen["full"])
  /\ \A q \in ProbeFiles : RecordIds(r.seen[q]) = r.chosen \X Fractions

(* What makes run_fixed_trace_analysis raise instead of deciding.            *)
InputsCohere(r) ==
  /\ \A q \in ProbeFiles : DistinctIds(r.seen[q])
  /\ \A q \in {"full"} \cup ProbeFiles : Identities(r.seen[q]) \subseteq {r.stamp}
  /\ r.cmd.sel => SelectionComplete(r)

(* Whether the measured accuracies are close enough is left open.            *)
Decide(p) ==
  LET r == run[p] IN
  /\ r.pc = "decide"
  /\ r.cmd.kind = "analyze" => InputsCohere(r)
  /\ \E passed \in BOOLEAN :
       /\ passed => StrictGate(r)
       /\ decision' = [status |-> "whole", kind |-> r.cmd.kind, passed |-> passed, stamp |-> r.stamp,
                       seen |-> r.seen, chosen |-> r.chosen, inputs |-> [q \in Paths |-> file[q].lines],
                       sel |-> r.cmd.sel]
       /\ Resting(p, IF passed THEN "ok" ELSE "failed")
  /\ UNCHANGED <<file, selection, accounted, config, starts, interrupts, edits>>

RefuseInputs(p) ==
  /\ run[p].pc = "decide" /\ run[p].cmd.kind = "analyze" /\ ~InputsCohere(run[p])
  /\ Resting(p, "failed")
  /\ UNCHANGED <<file, selection, decision, accounted, config, starts, interrupts, edits>>

-------------------------------------------------------------------------------
(* The environment.  An interruption is a crash, a kill or an I/O error: the *)
(* command ends wherever it is, and a file it is writing may keep a part.    *)

Interrupt(p) ==
  /\ Active(p) /\ interrupts < MaxInterrupts
  /\ interrupts' = interrupts + 1
  /\ Resting(p, "failed")
  /\ UNCHANGED <<file, selection, decision, accounted, config, starts, edits>>

InterruptText(p) ==
  /\ interrupts < MaxInterrupts
  /\ run[p].pc = "work"
  /\ \E i \in run[p].todo : i.id \notin Known(p) /\ i.id \notin run[p].written
  /\ interrupts' = interrupts + 1
  /\ file' = [file EXCEPT ![run[p].cmd.out] = TearText(@)]
  /\ Resting(p, "failed")
  /\ UNCHANGED <<selection, decision, accounted, config, starts, edits>>

InterruptSelection(p) ==
  /\ interrupts < MaxInterrupts
  /\ run[p].pc = "select"
  /\ interrupts' = interrupts + 1
  /\ selection' = [status |-> "torn"]
  /\ Resting(p, "failed")
  /\ UNCHANGED <<file, decision, accounted, config, starts, edits>>

EditConfig ==
  /\ edits < MaxEdits
  /\ EditWhileRunning \/ \A p \in Procs : ~Active(p)
  /\ edits' = edits + 1
  /\ config' \in Configs \ {config}
  /\ UNCHANGED <<file, selection, decision, accounted, run, starts, interrupts>>

-------------------------------------------------------------------------------
Step(p) ==
  \/ \E c \in Commands : Start(p, c)
  \/ LoadSelection(p) \/ VerifyExisting(p) \/ OpenWriter(p) \/ ReadInput(p)
  \/ SkipKnown(p) \/ RefuseDuplicate(p) \/ AppendText(p) \/ AppendLineBreak(p) \/ FinishRun(p)
  \/ WriteSelection(p) \/ StopInspection(p) \/ Decide(p) \/ RefuseInputs(p)
  \/ Interrupt(p) \/ InterruptText(p) \/ InterruptSelection(p)

Next == (\E p \in Procs : Step(p)) \/ EditConfig

Spec == Init /\ [][Next]_vars

-------------------------------------------------------------------------------
Ids == Rows \X (Fractions \cup {"base"})

Running == {"selection", "verify", "open", "read", "work", "line", "select", "decide"}

RecordsOf(q) == IF q \in Natural THEN BaseRecords ELSE ProbeRecords

(* What a run may still have to write: a trace, or a probe of one.           *)
Items(c) ==
  IF c.kind = "generate" THEN [id : Rows \X {"base"}, of : {<< >>}]
  ELSE [id : Rows \X Fractions, of : {<<b>> : b \in BaseRecords}]

RunState ==
  [pc : Outcomes \cup Running, cmd : CommandLines, stamp : Configs, step : 1..4,
   seen : [Paths -> Seq(Records)], chosen : SUBSET Rows, known : SUBSET Ids, written : SUBSET Ids,
   todo : SUBSET [id : Ids, of : {<< >>} \cup {<<b>> : b \in BaseRecords}],
   pending : SUBSET Ids, own : Nat]

(* Traces stay in the natural files and probes in theirs; only a command that*)
(* writes has anything to do, and it is what its kind of command produces.   *)
TypeOK ==
  /\ file \in [Paths -> JsonlFiles(Records)]
  /\ \A q \in Paths : file[q].lines \in Seq(RecordsOf(q))
  /\ accounted \in [Paths -> Nat]
  /\ config \in Configs
  /\ run \in [Procs -> RunState]
  /\ \A p \in Procs :
       /\ run[p].step <= Len(ReadOrder(run[p].cmd))
       /\ \A q \in Paths : run[p].seen[q] \in Seq(RecordsOf(q))
       /\ run[p].pc \in {"verify", "open", "work", "line"} => WritesRecords(run[p].cmd)
       /\ run[p].todo \subseteq Items(run[p].cmd)
  /\ starts \in 0..MaxStarts /\ interrupts \in 0..MaxInterrupts /\ edits \in 0..MaxEdits

(* A reader of a file sees at most more records than the one before, behind  *)
(* the same ones, or is refused for ever: JsonlWriter only appends, and a    *)
(* line that is no record stays one (utils/io.py).                           *)
FileGrows(q) ==
  Readable(file[q])' => Readable(file[q]) /\ Extends(file[q].lines', file[q].lines)

ReadersSeeGrowth == [][\A q \in Paths : FileGrows(q)]_vars

(* A run that exits 0 leaves every record it owed in its output, or an output*)
(* no reader accepts: no analysis silently takes a part for the whole.       *)
Owed(r) ==
  IF r.cmd.kind = "generate" THEN r.cmd.rows \X {"base"}
  ELSE IF r.cmd.sel THEN (r.chosen \cap r.cmd.rows \cap Parsed) \X Fractions
  ELSE {}

CompletedRunIsComplete ==
  \A p \in Procs :
    run[p].pc = "ok" /\ WritesRecords(run[p].cmd) =>
      LET f == file[run[p].cmd.out] IN Readable(f) => Owed(run[p]) \subseteq RecordIds(f.lines)

(* One writer at a time never writes a record twice, whatever was resumed or *)
(* interrupted (JsonlWriter, _verify_resumable_record_ids).                  *)
RecordsAreUnique == \A q \in Paths : DistinctIds(file[q].lines)

(* replay-fixed-trace never mixes configurations in one file, with or without*)
(* --resume: it verifies whatever is there before it opens its writer.       *)
ProbesHaveOneIdentity == \A q \in ProbeFiles : Cardinality(Identities(file[q].lines)) <= 1

(* The pre-registered rule: the first eligible rows, at most n of them.      *)
FirstEligible(rows, n) ==
  {r \in rows \cap Eligible : Cardinality({q \in rows \cap Eligible : q < r}) < n}

(* The strict gate passes only over the whole pre-registered population, once*)
(* each, produced under the configuration the decision was taken with.       *)
Passed == decision.status = "whole" /\ decision.passed

MadeUnder(s, k) == \A i \in DOMAIN s : s[i].made = k

AcceptedPopulation ==
  Passed => \A q \in Natural :
    /\ RecordIds(decision.seen[q]) = Rows \X {"base"}
    /\ DistinctIds(decision.seen[q])
    /\ MadeUnder(decision.seen[q], decision.stamp)

(* A passed analysis of a selection is about one experiment: the selection   *)
(* the rule gives for this population, every probe of it replayed from a     *)
(* trace of this very population, and the hashes of what was judged.         *)
AcceptedProbes ==
  Passed /\ decision.sel =>
    /\ decision.chosen = FirstEligible(Rows, MaxSelected)
    /\ decision.inputs = decision.seen
    /\ \A q \in ProbeFiles :
         /\ RecordIds(decision.seen[q]) = decision.chosen \X Fractions
         /\ MadeUnder(decision.seen[q], decision.stamp)
         /\ \A i \in DOMAIN decision.seen[q] :
              decision.seen[q][i].of[1] \in Range(decision.seen["full"])
===============================================================================
