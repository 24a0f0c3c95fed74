------------------------ MODULE FixedTraceScreen_proofs ------------------------
(*****************************************************************************)
(* Proofs about FixedTraceScreen, for every set of rows, configurations,     *)
(* fractions and processes, every command list and every bound: what readers *)
(* may see, what the strict accuracy gate and the analysis of a selection    *)
(* accept, that one writer at a time writes no record twice and mixes no     *)
(* identities, and that a run that exits 0 has written what it owed.         *)
(*****************************************************************************)
EXTENDS FixedTraceScreen, JsonlFile_proofs, FiniteSetTheorems

-------------------------------------------------------------------------------
(* Commands and record types.                                                *)

LEMMA CommandsTyped ==
  ASSUME NEW c \in CommandLines
  PROVE  /\ c.kind \in {"generate", "replay", "inspect", "accuracy", "analyze"}
         /\ c.out \in Paths
         /\ c.kind = "generate" => c.out \in Natural
         /\ c.kind = "replay" => c.out \in ProbeFiles
         /\ c.rows \subseteq Rows
         /\ c.resume \in BOOLEAN /\ c.sel \in BOOLEAN
         /\ c.kind = "generate" => ~c.sel
<1>0. \/ \E q \in Natural, rs \in SUBSET Rows, b \in BOOLEAN : c = generate(q, rs, b)
      \/ \E q \in ProbeFiles, rs \in SUBSET Rows, b \in BOOLEAN : c = replay(q, rs, b)
      \/ \E n \in 0..Cardinality(Rows) : c = inspect(n)
      \/ c = accuracy
      \/ \E b \in BOOLEAN : c = analyze(b)
  BY DEF CommandLines
<1> USE DEF generate, replay, inspect, accuracy, analyze, CommandLine, Paths, Natural, ProbeFiles
<1>1. CASE \E q \in Natural, rs \in SUBSET Rows, b \in BOOLEAN : c = generate(q, rs, b)
  BY <1>1
<1>2. CASE \E q \in ProbeFiles, rs \in SUBSET Rows, b \in BOOLEAN : c = replay(q, rs, b)
  BY <1>2
<1>3. CASE \E n \in 0..Cardinality(Rows) : c = inspect(n)
  BY <1>3
<1>4. CASE c = accuracy
  BY <1>4
<1>5. CASE \E b \in BOOLEAN : c = analyze(b)
  BY <1>5
<1>6. QED
  BY <1>0, <1>1, <1>2, <1>3, <1>4, <1>5

LEMMA RecordsTyped ==
  /\ \A q \in Paths : RecordsOf(q) \subseteq Records
  /\ \A r \in Records : r.id \in Ids /\ Row(r) \in Rows
  /\ \A q \in Paths : \A s \in Seq(RecordsOf(q)) :
       s \in Seq(Records) /\ RecordIds(s) \subseteq Ids /\ RowsOf(s) \subseteq Rows
<1>1. \A q \in Paths : RecordsOf(q) \subseteq Records
  BY DEF RecordsOf, Records
<1>2. \A r \in Records : r.id \in Ids /\ Row(r) \in Rows
  BY DEF Records, BaseRecords, ProbeRecords, Ids, Row
<1>3. ASSUME NEW q \in Paths, NEW s \in Seq(RecordsOf(q))
      PROVE  s \in Seq(Records) /\ RecordIds(s) \subseteq Ids /\ RowsOf(s) \subseteq Rows
  <2>1. \A i \in DOMAIN s : s[i] \in Records
    BY <1>1, <1>3
  <2>2. s \in Seq(Records)
    BY <1>1, <1>3
  <2>3. QED
    BY <2>1, <2>2, <1>2 DEF RecordIds, RowsOf
<1>4. QED
  BY <1>1, <1>2, <1>3

LEMMA ReadOrderTyped ==
  ASSUME NEW c \in CommandLines
  PROVE  /\ Len(ReadOrder(c)) \in 1..4
         /\ \A i \in 1..Len(ReadOrder(c)) : ReadOrder(c)[i] \in Paths
         /\ c.kind \in {"replay", "inspect"} =>
              Len(ReadOrder(c)) = 1 /\ ReadOrder(c)[1] = "full"
BY DEF ReadOrder, Paths, Natural, ProbeFiles

-------------------------------------------------------------------------------
(* Type correctness.                                                         *)

RunOK(r) ==
  /\ r \in RunState
  /\ r.step <= Len(ReadOrder(r.cmd))
  /\ \A q \in Paths : r.seen[q] \in Seq(RecordsOf(q))
  /\ r.pc \in {"verify", "open", "work", "line"} => WritesRecords(r.cmd)
  /\ r.todo \subseteq Items(r.cmd)

RunsTyped == run \in [Procs -> RunState] /\ \A p \in Procs : RunOK(run[p])

FilesTyped ==
  /\ file \in [Paths -> JsonlFiles(Records)]
  /\ \A q \in Paths : file[q].lines \in Seq(RecordsOf(q))

OthersTyped ==
  /\ accounted \in [Paths -> Nat]
  /\ config \in Configs
  /\ starts \in 0..MaxStarts /\ interrupts \in 0..MaxInterrupts /\ edits \in 0..MaxEdits

LEMMA TypeParts == TypeOK <=> FilesTyped /\ RunsTyped /\ OthersTyped
BY DEF TypeOK, FilesTyped, RunsTyped, OthersTyped, RunOK

LEMMA TypePartsNext == FilesTyped' /\ RunsTyped' /\ OthersTyped' => TypeOK'
BY DEF TypeOK, FilesTyped, RunsTyped, OthersTyped, RunOK

(* One process changes what it remembers.                                    *)
LEMMA OneRunChanged ==
  ASSUME RunsTyped, NEW p \in Procs, NEW r, RunOK(r), run' = [run EXCEPT ![p] = r]
  PROVE  RunsTyped'
BY DEF RunsTyped, RunOK

LEMMA NoLinesTyped ==
  /\ \A q \in Paths : << >> \in Seq(RecordsOf(q))
  /\ [q \in Paths |-> << >>] \in [Paths -> Seq(Records)]
  /\ \A q \in Paths : [x \in Paths |-> << >>][q] = << >>
OBVIOUS

LEMMA RestingTyped ==
  ASSUME RunsTyped, NEW p \in Procs, NEW how \in Outcomes, Resting(p, how)
  PROVE  RunsTyped'
<1> DEFINE r == [run[p] EXCEPT !.pc = how, !.todo = {}, !.known = {}, !.pending = {},
                               !.seen = [q \in Paths |-> << >>]]
<1>1. DOMAIN run = Procs /\ RunOK(run[p])
  BY DEF RunsTyped
<1>2. run' = [run EXCEPT ![p] = r]
  BY <1>1 DEF Resting, RunOK, RunState
<1>3. RunOK(r)
  BY <1>1, NoLinesTyped DEF RunOK, RunState, Outcomes
<1>4. QED
  BY <1>1, <1>2, <1>3, OneRunChanged

LEMMA StartTyped ==
  ASSUME TypeOK, NEW p \in Procs, NEW c \in Commands, Start(p, c)
  PROVE  RunsTyped'
<1> DEFINE r == Fresh(FirstStep(c), c, config)
<1>1. c \in CommandLines
  BY CommandsAssumption
<1>2. RunOK(r)
  <2>1. FirstStep(c) \in Running /\ (FirstStep(c) = "verify" => WritesRecords(c))
    BY DEF FirstStep, AfterSelection, Running, WritesRecords
  <2>2. FirstStep(c) \notin {"open", "work", "line"}
    BY DEF FirstStep, AfterSelection
  <2>3. config \in Configs
    BY DEF TypeOK
  <2>4. QED
    BY <1>1, <2>1, <2>2, <2>3, NoLinesTyped, ReadOrderTyped DEF RunOK, RunState, Fresh
<1>3. QED
  BY <1>2, TypeParts, OneRunChanged DEF Start

LEMMA LoadSelectionTyped ==
  ASSUME TypeOK, NEW p \in Procs, LoadSelection(p)
  PROVE  RunsTyped'
<1>1. RunsTyped /\ FilesTyped
  BY TypeParts
<1>2. CASE Resting(p, "failed")
  BY <1>1, <1>2, RestingTyped DEF Outcomes
<1>3. CASE ~Resting(p, "failed")
  <2> DEFINE r == [run[p] EXCEPT !.pc = AfterSelection(run[p].cmd), !.chosen = selection.rows]
  <2>1. SelectionFits /\ run' = [run EXCEPT ![p] = r]
    BY <1>1, <1>3 DEF LoadSelection, RunsTyped, RunState
  <2>2. selection.rows \subseteq Rows
    BY <1>1, <2>1, RecordsTyped DEF SelectionFits, FilesTyped, Paths, Natural
  <2>3. RunOK(r)
    <3>1. run[p] \in RunState /\ RunOK(run[p])
      BY <1>1 DEF RunsTyped
    <3>2. /\ AfterSelection(run[p].cmd) \in Running
          /\ AfterSelection(run[p].cmd) \in {"verify", "open", "work", "line"} =>
               WritesRecords(run[p].cmd)
      BY DEF AfterSelection, Running, WritesRecords
    <3> DEFINE next == AfterSelection(run[p].cmd)
    <3> HIDE DEF next
    <3>3. r = [run[p] EXCEPT !.pc = next, !.chosen = selection.rows]
      BY DEF next
    <3> HIDE DEF r
    <3>4. /\ r \in RunState /\ r.pc = next /\ r.cmd = run[p].cmd /\ r.step = run[p].step
          /\ r.seen = run[p].seen /\ r.todo = run[p].todo
      BY <2>2, <3>1, <3>2, <3>3 DEF RunState, next
    <3>5. QED
      BY <3>1, <3>2, <3>4 DEF RunOK, next
  <2>4. QED
    BY <1>1, <2>1, <2>3, OneRunChanged
<1>4. QED
  BY <1>2, <1>3

LEMMA VerifyExistingTyped ==
  ASSUME TypeOK, NEW p \in Procs, VerifyExisting(p)
  PROVE  RunsTyped'
<1>1. RunsTyped /\ FilesTyped
  BY TypeParts
<1>2. CASE Resting(p, "failed")
  BY <1>1, <1>2, RestingTyped DEF Outcomes
<1>3. CASE ~Resting(p, "failed")
  <2> DEFINE ids == IF MustVerify(run[p].cmd) THEN RecordIds(file[run[p].cmd.out].lines) ELSE {}
  <2> DEFINE r == [run[p] EXCEPT !.pc = "open", !.known = ids]
  <2>1. run[p].pc = "verify" /\ run' = [run EXCEPT ![p] = r]
    BY <1>1, <1>3 DEF VerifyExisting, RunsTyped, RunState
  <2>2. RunOK(run[p]) /\ run[p].cmd.out \in Paths
    BY <1>1, CommandsTyped DEF RunsTyped, RunOK, RunState
  <2>3. ids \subseteq Ids
    BY <1>1, <2>2, RecordsTyped DEF FilesTyped
  <2>4. RunOK(r)
    BY <2>1, <2>2, <2>3 DEF RunOK, RunState, Running
  <2>5. QED
    BY <1>1, <2>1, <2>4, OneRunChanged
<1>4. QED
  BY <1>2, <1>3

LEMMA OpenWriterTyped ==
  ASSUME TypeOK, NEW p \in Procs, OpenWriter(p)
  PROVE  RunsTyped'
<1>1. RunsTyped /\ FilesTyped
  BY TypeParts
<1>2. CASE Resting(p, "failed")
  BY <1>1, <1>2, RestingTyped DEF Outcomes
<1>3. CASE ~Resting(p, "failed")
  <2> DEFINE c == run[p].cmd
  <2> DEFINE r == [run[p] EXCEPT
                     !.pc = IF c.kind = "generate" THEN "work" ELSE "read",
                     !.written = RecordIds(file[c.out].lines),
                     !.todo = IF c.kind = "generate" THEN [id : c.rows \X {"base"}, of : {<< >>}] ELSE {}]
  <2>1. run[p].pc = "open" /\ run' = [run EXCEPT ![p] = r]
    BY <1>1, <1>3 DEF OpenWriter, RunsTyped, RunState
  <2>2. RunOK(run[p]) /\ c.out \in Paths /\ c.rows \subseteq Rows
    BY <1>1, CommandsTyped DEF RunsTyped, RunOK, RunState
  <2>3. RecordIds(file[c.out].lines) \subseteq Ids
    BY <1>1, <2>2, RecordsTyped DEF FilesTyped
  <2>4. c.kind = "generate" =>
          /\ [id : c.rows \X {"base"}, of : {<< >>}] \subseteq Items(c)
          /\ Items(c) \subseteq [id : Ids, of : {<< >>} \cup {<<b>> : b \in BaseRecords}]
    BY <2>2 DEF Items, Ids
  <2>5. RunOK(r)
    BY <2>1, <2>2, <2>3, <2>4 DEF RunOK, RunState, Running
  <2>6. QED
    BY <1>1, <2>1, <2>5, OneRunChanged
<1>4. QED
  BY <1>2, <1>3

LEMMA NextStepTyped ==
  ASSUME NEW k \in 1..4, NEW i \in 1..k
  PROVE  (IF i < k THEN i + 1 ELSE i) \in 1..4 /\ (IF i < k THEN i + 1 ELSE i) <= k
OBVIOUS

LEMMA ReadInputTyped ==
  ASSUME TypeOK, NEW p \in Procs, ReadInput(p)
  PROVE  RunsTyped'
<1>1. RunsTyped /\ FilesTyped
  BY TypeParts
<1>2. CASE Resting(p, "failed")
  BY <1>1, <1>2, RestingTyped DEF Outcomes
<1>3. CASE ~Resting(p, "failed")
  <2> DEFINE r0 == run[p]
  <2> DEFINE q == ReadOrder(r0.cmd)[r0.step]
  <2> DEFINE s == file[q].lines
  <2> DEFINE more == r0.step < Len(ReadOrder(r0.cmd))
  <2> DEFINE n == IF more THEN r0.step + 1 ELSE r0.step
  <2> DEFINE pc == IF more THEN "read" ELSE AfterReading(r0.cmd)
  <2> DEFINE todo == IF r0.cmd.kind = "replay" THEN Replays(r0, s) ELSE {}
  <2> DEFINE r == [r0 EXCEPT !.seen = [r0.seen EXCEPT ![q] = s],
                             !.step = n, !.pc = pc,
                             !.todo = todo]
  <2>1. RunOK(r0) /\ r0.cmd \in CommandLines
    BY <1>1 DEF RunsTyped, RunOK, RunState
  <2>2. /\ Len(ReadOrder(r0.cmd)) \in 1..4 /\ r0.step \in 1..Len(ReadOrder(r0.cmd))
        /\ q \in Paths
    BY <2>1, ReadOrderTyped DEF RunOK, RunState
  <2>3. run[p].pc = "read" /\ run' = [run EXCEPT ![p] = r]
    <3>1. /\ run[p].pc = "read"
          /\ run' = [run EXCEPT ![p].seen[q] = s, ![p].step = n, ![p].pc = pc, ![p].todo = todo]
      BY <1>3 DEF ReadInput
    <3> HIDE DEF q, s, n, pc, todo
    <3>2. QED
      BY <1>1, <3>1 DEF RunsTyped, RunState
  <2>4. s \in Seq(RecordsOf(q)) /\ s \in Seq(Records)
    BY <1>1, <2>2, RecordsTyped DEF FilesTyped
  <2>5. /\ todo \subseteq Items(r0.cmd)
        /\ todo \subseteq [id : Ids, of : {<< >>} \cup {<<b>> : b \in BaseRecords}]
    <3>1. CASE r0.cmd.kind = "replay"
      <4>1. s \in Seq(BaseRecords)
        BY <2>1, <2>2, <2>4, <3>1, ReadOrderTyped DEF RecordsOf, Natural
      <4>2. \A b \in Range(s) : b \in BaseRecords /\ Row(b) \in Rows
        BY <4>1, RecordsTyped DEF Range, Records
      <4>3. todo \subseteq [id : Rows \X Fractions, of : {<<b>> : b \in BaseRecords}]
        BY <3>1, <4>2 DEF Replays
      <4>4. QED
        BY <3>1, <4>3 DEF Items, Ids
    <3>2. QED
      BY <3>1
  <2>6. RunOK(r)
    <3>1. r.seen \in [Paths -> Seq(Records)] /\ \A x \in Paths : r.seen[x] \in Seq(RecordsOf(x))
      BY <2>1, <2>2, <2>4 DEF RunOK, RunState
    <3>2. n \in 1..4 /\ n <= Len(ReadOrder(r0.cmd))
      BY <2>2, NextStepTyped
    <3>3. pc \in Running /\ (pc \in {"verify", "open", "work", "line"} => WritesRecords(r0.cmd))
      BY <2>1 DEF AfterReading, Running, WritesRecords, RunOK, RunState
    <3> HIDE DEF n, pc, todo
    <3>4. QED
      BY <2>1, <2>5, <3>1, <3>2, <3>3 DEF RunOK, RunState
  <2>7. QED
    BY <1>1, <2>3, <2>6, OneRunChanged
<1>4. QED
  BY <1>2, <1>3

LEMMA SkipKnownTyped ==
  ASSUME TypeOK, NEW p \in Procs, SkipKnown(p)
  PROVE  RunsTyped'
<1>1. RunsTyped
  BY TypeParts
<1>2. PICK i \in run[p].todo : run' = [run EXCEPT ![p].todo = @ \ {i}]
  BY DEF SkipKnown
<1> DEFINE r == [run[p] EXCEPT !.todo = @ \ {i}]
<1>3. run' = [run EXCEPT ![p] = r] /\ RunOK(r)
  BY <1>1, <1>2 DEF RunsTyped, RunOK, RunState
<1>4. QED
  BY <1>1, <1>3, OneRunChanged

(* What a run appends belongs in its file, under an identity there is.       *)
LEMMA NewRecordTyped ==
  ASSUME TypeOK, NEW p \in Procs, NEW i \in run[p].todo, run[p].pc = "work"
  PROVE  /\ run[p].cmd.out \in Paths
         /\ NewRecord(p, i) \in RecordsOf(run[p].cmd.out)
         /\ NewRecord(p, i).id = i.id /\ i.id \in Ids
<1>1. RunOK(run[p]) /\ run[p].cmd \in CommandLines /\ config \in Configs
  BY TypeParts DEF RunsTyped, RunOK, RunState, OthersTyped
<1>2. WritesRecords(run[p].cmd) /\ i \in Items(run[p].cmd) /\ run[p].stamp \in Configs /\ i.id \in Ids
  BY <1>1 DEF RunOK, RunState
<1>3. CASE run[p].cmd.kind = "generate"
  BY <1>1, <1>2, <1>3, CommandsTyped
     DEF Items, NewRecord, Claimed, RecordsOf, BaseRecords, Paths
<1>4. CASE run[p].cmd.kind = "replay"
  BY <1>1, <1>2, <1>4, CommandsTyped
     DEF Items, NewRecord, Claimed, RecordsOf, ProbeRecords, Natural, ProbeFiles, Paths
<1>5. QED
  BY <1>2, <1>3, <1>4 DEF WritesRecords

(* A change of one file that keeps its records where they belong.            *)
LEMMA OneFileChanged ==
  ASSUME FilesTyped, NEW q \in Paths, NEW f \in JsonlFiles(RecordsOf(q)), file' = [file EXCEPT ![q] = f]
  PROVE  FilesTyped'
<1>1. f \in JsonlFiles(Records) /\ f.lines \in Seq(RecordsOf(q))
  BY RecordsTyped DEF JsonlFiles
<1>2. QED
  BY <1>1 DEF FilesTyped

LEMMA FileTyped ==
  ASSUME FilesTyped, NEW q \in Paths
  PROVE  file[q] \in JsonlFiles(RecordsOf(q))
BY DEF FilesTyped, JsonlFiles

LEMMA AppendTextTyped ==
  ASSUME TypeOK, NEW p \in Procs, AppendText(p)
  PROVE  RunsTyped' /\ FilesTyped'
<1>1. RunsTyped /\ FilesTyped
  BY TypeParts
<1>2. PICK i \in run[p].todo :
        /\ run[p].pc = "work"
        /\ file' = [file EXCEPT ![run[p].cmd.out] = WriteText(@, NewRecord(p, i))]
        /\ run' = [run EXCEPT ![p].pc = "line", ![p].todo = @ \ {i}, ![p].pending = {i.id}]
  BY DEF AppendText
<1>3. FilesTyped'
  <2> DEFINE out == run[p].cmd.out
  <2>1. out \in Paths /\ NewRecord(p, i) \in RecordsOf(out)
    BY <1>2, NewRecordTyped
  <2>2. file[out] \in JsonlFiles(RecordsOf(out))
    BY <1>1, <2>1, FileTyped
  <2>3. WriteText(file[out], NewRecord(p, i)) \in JsonlFiles(RecordsOf(out))
    BY <2>1, <2>2, WriteTextTyped
  <2>4. file' = [file EXCEPT ![out] = WriteText(file[out], NewRecord(p, i))]
    BY <1>2
  <2> HIDE DEF out
  <2>5. QED
    BY <1>1, <2>1, <2>3, <2>4, OneFileChanged
<1> DEFINE r == [run[p] EXCEPT !.pc = "line", !.todo = @ \ {i}, !.pending = {i.id}]
<1>4. run' = [run EXCEPT ![p] = r]
  BY <1>1, <1>2 DEF RunsTyped, RunState
<1>5. RunOK(r)
  <2>1. RunOK(run[p]) /\ run[p] \in RunState /\ run[p].pc = "work" /\ i.id \in Ids
    BY <1>1, <1>2, NewRecordTyped DEF RunsTyped, RunOK
  <2>2. WritesRecords(run[p].cmd)
    BY <2>1 DEF RunOK
  <2>3. /\ r.step = run[p].step /\ r.cmd = run[p].cmd /\ r.seen = run[p].seen
        /\ r.pc = "line" /\ r.todo \subseteq run[p].todo
    BY <2>1 DEF RunState
  <2>4. r \in RunState
    BY <2>1 DEF RunState, Running
  <2> HIDE DEF r
  <2>5. QED
    BY <2>1, <2>2, <2>3, <2>4 DEF RunOK
<1>6. QED
  BY <1>1, <1>3, <1>4, <1>5, OneRunChanged

LEMMA AppendLineBreakTyped ==
  ASSUME TypeOK, NEW p \in Procs, AppendLineBreak(p)
  PROVE  RunsTyped' /\ FilesTyped'
<1>1. RunsTyped /\ FilesTyped /\ RunOK(run[p]) /\ run[p].cmd.out \in Paths
  BY TypeParts, CommandsTyped DEF RunsTyped, RunOK, RunState
<1>2. FilesTyped'
  BY <1>1, FileTyped, WriteLineBreakTyped, OneFileChanged DEF AppendLineBreak
<1> DEFINE r == [run[p] EXCEPT !.pc = "work", !.pending = {}, !.written = @ \cup run[p].pending,
                               !.own = @ + 1]
<1>3. run' = [run EXCEPT ![p] = r]
  BY <1>1 DEF AppendLineBreak, RunsTyped, RunState
<1>4. RunOK(r)
  <2>1. run[p].own + 1 \in Nat /\ run[p].written \cup run[p].pending \subseteq Ids
    BY <1>1 DEF RunOK, RunState
  <2>2. WritesRecords(run[p].cmd)
    BY <1>1 DEF AppendLineBreak, RunOK
  <2>3. QED
    BY <1>1, <2>1, <2>2 DEF RunOK, RunState, Running
<1>5. QED
  BY <1>1, <1>2, <1>3, <1>4, OneRunChanged

LEMMA FinishRunTyped ==
  ASSUME TypeOK, NEW p \in Procs, FinishRun(p)
  PROVE  RunsTyped' /\ OthersTyped'
<1>1. RunsTyped /\ OthersTyped /\ run[p] \in RunState /\ run[p].cmd.out \in Paths
  BY TypeParts, CommandsTyped DEF RunsTyped, RunState
<1>2. OthersTyped'
  BY <1>1 DEF FinishRun, OthersTyped, RunState
<1>3. QED
  BY <1>1, <1>2, RestingTyped DEF FinishRun, Outcomes

LEMMA InterruptTextTyped ==
  ASSUME TypeOK, NEW p \in Procs, InterruptText(p)
  PROVE  RunsTyped' /\ FilesTyped'
<1>1. RunsTyped /\ FilesTyped /\ run[p].cmd.out \in Paths
  BY TypeParts, CommandsTyped DEF RunsTyped, RunOK, RunState
<1>2. FilesTyped'
  BY <1>1, FileTyped, SpoilTailTyped, OneFileChanged DEF InterruptText, TearText
<1>3. QED
  BY <1>1, <1>2, RestingTyped DEF InterruptText, Outcomes

(* Every step keeps the types.                                               *)
LEMMA StepTyped ==
  ASSUME TypeOK, [Next]_vars
  PROVE  TypeOK'
<1>1. FilesTyped /\ RunsTyped /\ OthersTyped
  BY TypeParts
<1>2. FilesTyped' /\ RunsTyped' /\ OthersTyped'
  <2>1. CASE UNCHANGED vars
    BY <1>1, <2>1 DEF vars, FilesTyped, RunsTyped, OthersTyped, RunOK
  <2>2. CASE EditConfig
    BY <1>1, <2>2, ScreenAssumption DEF EditConfig, FilesTyped, RunsTyped, OthersTyped, RunOK
  <2>3. ASSUME NEW p \in Procs, Step(p) PROVE FilesTyped' /\ RunsTyped' /\ OthersTyped'
    <3> USE <1>1, ScreenAssumption DEF Outcomes
    <3>1. ASSUME NEW c \in Commands, Start(p, c) PROVE FilesTyped' /\ RunsTyped' /\ OthersTyped'
      <4>1. OthersTyped' /\ FilesTyped'
        BY <3>1 DEF Start, FilesTyped, OthersTyped
      <4>2. QED
        BY <3>1, <4>1, StartTyped
    <3>2. CASE LoadSelection(p)
      BY <3>2, LoadSelectionTyped DEF LoadSelection, FilesTyped, OthersTyped
    <3>3. CASE VerifyExisting(p)
      BY <3>3, VerifyExistingTyped DEF VerifyExisting, FilesTyped, OthersTyped
    <3>4. CASE OpenWriter(p)
      BY <3>4, OpenWriterTyped DEF OpenWriter, FilesTyped, OthersTyped
    <3>5. CASE ReadInput(p)
      BY <3>5, ReadInputTyped DEF ReadInput, FilesTyped, OthersTyped
    <3>6. CASE SkipKnown(p)
      BY <3>6, SkipKnownTyped DEF SkipKnown, FilesTyped, OthersTyped
    <3>7. CASE RefuseDuplicate(p)
      BY <3>7, RestingTyped DEF RefuseDuplicate, FilesTyped, OthersTyped
    <3>8. CASE AppendText(p)
      BY <3>8, AppendTextTyped DEF AppendText, OthersTyped
    <3>9. CASE AppendLineBreak(p)
      BY <3>9, AppendLineBreakTyped DEF AppendLineBreak, OthersTyped
    <3>10. CASE FinishRun(p)
      BY <3>10, FinishRunTyped DEF FinishRun, FilesTyped
    <3>11. CASE WriteSelection(p)
      BY <3>11, RestingTyped DEF WriteSelection, FilesTyped, OthersTyped
    <3>12. CASE StopInspection(p)
      BY <3>12, RestingTyped DEF StopInspection, FilesTyped, OthersTyped
    <3>13. CASE Decide(p)
      <4>1. PICK how \in Outcomes : Resting(p, how)
        BY <3>13 DEF Decide
      <4>2. QED
        BY <3>13, <4>1, RestingTyped DEF Decide, FilesTyped, OthersTyped
    <3>14. CASE RefuseInputs(p)
      BY <3>14, RestingTyped DEF RefuseInputs, FilesTyped, OthersTyped
    <3>15. CASE Interrupt(p)
      BY <3>15, RestingTyped DEF Interrupt, FilesTyped, OthersTyped
    <3>16. CASE InterruptText(p)
      <4>1. OthersTyped'
        BY <3>16 DEF InterruptText, OthersTyped
      <4>2. QED
        BY <3>16, <4>1, InterruptTextTyped
    <3>17. CASE InterruptSelection(p)
      BY <3>17, RestingTyped DEF InterruptSelection, FilesTyped, OthersTyped
    <3>18. QED
      BY <2>3, <3>1, <3>2, <3>3, <3>4, <3>5, <3>6, <3>7, <3>8, <3>9, <3>10, <3>11, <3>12,
         <3>13, <3>14, <3>15, <3>16, <3>17, Zenon DEF Step
  <2>4. QED
    BY <2>1, <2>2, <2>3 DEF Next
<1>3. QED
  BY <1>2, TypePartsNext

LEMMA InitTyped == Init => TypeOK
<1> SUFFICES ASSUME Init PROVE FilesTyped /\ RunsTyped /\ OthersTyped
  BY TypeParts
<1>1. NoRecords \in JsonlFiles(Records) /\ NoRecords.lines = << >>
  BY DEF NoRecords, JsonlFiles
<1>2. FilesTyped
  BY <1>1, NoLinesTyped DEF Init, FilesTyped
<1>3. accuracy \in CommandLines
  BY DEF CommandLines
<1>4. RunOK(Fresh("idle", accuracy, config))
  BY <1>3, NoLinesTyped, ReadOrderTyped DEF Init, RunOK, RunState, Fresh, Outcomes
<1>5. RunsTyped
  BY <1>4 DEF Init, RunsTyped, RunOK
<1>6. QED
  BY <1>2, <1>5, ScreenAssumption DEF Init, OthersTyped

(* The types of the state, for every sequence of commands: in particular the *)
(* natural files hold traces and the probe files probes, whatever overlaps.  *)
THEOREM ScreenTypeCorrect == Spec => []TypeOK
BY InitTyped, StepTyped, PTL DEF Spec

-------------------------------------------------------------------------------
(* Files grow, or are refused.                                               *)

LEMMA SameFileGrows ==
  ASSUME TypeOK, NEW q \in Paths, UNCHANGED file[q]
  PROVE  FileGrows(q)
<1>1. Len(file[q].lines) \in Nat
  BY DEF TypeOK
<1>2. QED
  BY <1>1 DEF FileGrows, Extends, Readable

LEMMA StepGrows ==
  ASSUME TypeOK, [Next]_vars, NEW q \in Paths
  PROVE  FileGrows(q)
<1>1. FilesTyped /\ RunsTyped
  BY TypeParts
<1>2. CASE UNCHANGED file[q]
  BY <1>2, SameFileGrows
<1>3. CASE \E p \in Procs : AppendText(p) \/ AppendLineBreak(p) \/ InterruptText(p)
  <2>1. PICK p \in Procs : AppendText(p) \/ AppendLineBreak(p) \/ InterruptText(p)
    BY <1>3
  <2> DEFINE o == run[p].cmd.out
  <2>2. o \in Paths /\ file[o] \in JsonlFiles(RecordsOf(o))
    BY <1>1, CommandsTyped, FileTyped DEF RunsTyped, RunOK, RunState
  <2>3. CASE q # o
    <3>1. UNCHANGED file[q]
      BY <1>1, <2>1, <2>3 DEF AppendText, AppendLineBreak, InterruptText, FilesTyped
    <3>2. QED
      BY <1>2, <3>1
  <2>4. CASE q = o /\ AppendText(p)
    <3>1. PICK i \in run[p].todo : run[p].pc = "work" /\ file'[o] = WriteText(file[o], NewRecord(p, i))
      BY <1>1, <2>2, <2>4 DEF AppendText, FilesTyped
    <3>2. QED
      BY <2>2, <2>4, <3>1, NewRecordTyped, WriteTextGrows DEF FileGrows
  <2>5. CASE q = o /\ AppendLineBreak(p)
    <3>1. file'[o] = WriteLineBreak(file[o])
      BY <1>1, <2>2, <2>5 DEF AppendLineBreak, FilesTyped
    <3>2. QED
      BY <2>2, <2>5, <3>1, WriteLineBreakGrows DEF FileGrows
  <2>6. CASE q = o /\ InterruptText(p)
    <3>1. file'[o] = SpoilTail(file[o])
      BY <1>1, <2>2, <2>6 DEF InterruptText, TearText, FilesTyped
    <3>2. QED
      BY <2>2, <2>6, <3>1, SpoiltIsRefused DEF FileGrows
  <2>7. QED
    BY <2>1, <2>3, <2>4, <2>5, <2>6
<1>4. QED
  <2>1. CASE UNCHANGED vars
    BY <1>2, <2>1 DEF vars
  <2>2. CASE Next
    <3>1. CASE EditConfig
      BY <1>2, <3>1 DEF EditConfig
    <3>2. CASE \E p \in Procs : Step(p)
      <4>1. PICK p \in Procs : Step(p)
        BY <3>2
      <4>2. CASE AppendText(p) \/ AppendLineBreak(p) \/ InterruptText(p)
        BY <1>3, <4>2
      <4>3. CASE ~(AppendText(p) \/ AppendLineBreak(p) \/ InterruptText(p))
        BY <1>2, <4>1, <4>3 DEF Step, Start, LoadSelection, VerifyExisting, OpenWriter,
           ReadInput, SkipKnown, RefuseDuplicate, FinishRun, WriteSelection, StopInspection, Decide,
           RefuseInputs, Interrupt, InterruptSelection
      <4>4. QED
        BY <4>2, <4>3
    <3>3. QED
      BY <2>2, <3>1, <3>2 DEF Next
  <2>3. QED
    BY <2>1, <2>2

(* Whatever commands run, overlap or are interrupted, a JSONL file that can  *)
(* still be read shows at least the records it showed before, in the same    *)
(* order; once refused it is refused for good.                               *)
THEOREM FilesOnlyGrow == Spec => ReadersSeeGrowth
<1>1. TypeOK /\ [Next]_vars => [\A q \in Paths : FileGrows(q)]_vars
  BY StepGrows
<1>2. QED
  BY <1>1, ScreenTypeCorrect, PTL DEF Spec, ReadersSeeGrowth

-------------------------------------------------------------------------------
(* The population.                                                           *)

(* As many distinct rows as there are: all of them.                          *)
LEMMA DistinctRowsAreAll ==
  ASSUME NEW s \in Seq(BaseRecords), DistinctIds(s), Len(s) = Cardinality(Rows)
  PROVE  RecordIds(s) = Rows \X {"base"}
<1> DEFINE n == Cardinality(Rows)
<1> DEFINE row == [i \in 1..n |-> s[i].id[1]]
<1>1. /\ \A i \in 1..n : s[i] \in BaseRecords
      /\ DOMAIN s = 1..n
  OBVIOUS
<1>2. \A i \in 1..n : s[i].id = <<s[i].id[1], "base">> /\ s[i].id[1] \in Rows
  BY <1>1 DEF BaseRecords
<1>3. row \in Injection(1..n, Rows)
  <2>1. row \in [1..n -> Rows]
    BY <1>2
  <2>2. ASSUME NEW i \in 1..n, NEW j \in 1..n, row[i] = row[j] PROVE i = j
    <3>1. s[i].id = s[j].id
      BY <1>2, <2>2
    <3>2. QED
      BY <1>1, <3>1 DEF DistinctIds
  <2>3. QED
    BY <2>1, <2>2 DEF Injection, IsInjective
<1>4. IsFiniteSet(Rows) /\ n \in Nat /\ Cardinality(1..n) = n
  BY ScreenAssumption, FS_CardinalityType, FS_Interval
<1>5. row \in Surjection(1..n, Rows)
  BY <1>3, <1>4, FS_Injection
<1>6. \A r \in Rows : \E i \in 1..n : s[i].id = <<r, "base">>
  BY <1>2, <1>5 DEF Surjection
<1>7. ASSUME NEW x \in RecordIds(s) PROVE x \in Rows \X {"base"}
  <2>1. PICK i \in 1..n : x = s[i].id
    BY <1>1 DEF RecordIds
  <2>2. x = <<s[i].id[1], "base">> /\ s[i].id[1] \in Rows
    BY <1>2, <2>1
  <2>3. QED
    BY <2>2
<1>8. \A r \in Rows : <<r, "base">> \in RecordIds(s)
  BY <1>1, <1>6 DEF RecordIds
<1>9. QED
  BY <1>7, <1>8

-------------------------------------------------------------------------------
(* Records tell the truth as long as the configuration is not edited under a *)
(* running command.                                                          *)

Faithful == {r \in Records : r.by = r.made}

GateInv ==
  /\ TypeOK
  /\ \A q \in Paths : file[q].lines \in Seq(Faithful)
  /\ \A p \in Procs : Active(p) => run[p].stamp = config
  /\ \A p \in Procs : \A q \in Paths : run[p].seen[q] \in Seq(Faithful)
  /\ AcceptedPopulation

(* The gate itself: what it passes over is the population, once each.        *)
LEMMA GateIsStrict ==
  ASSUME TypeOK, NEW p \in Procs, StrictGate(run[p]), NEW q \in Natural,
         run[p].seen[q] \in Seq(Faithful)
  PROVE  /\ RecordIds(run[p].seen[q]) = Rows \X {"base"}
         /\ DistinctIds(run[p].seen[q])
         /\ MadeUnder(run[p].seen[q], run[p].stamp)
<1>1. run[p].seen[q] \in Seq(BaseRecords)
  BY DEF TypeOK, RecordsOf, Paths
<1>2. q = "full" \/ q = "rkv"
  BY DEF Natural
<1>3. /\ DistinctIds(run[p].seen[q]) /\ Len(run[p].seen[q]) = Cardinality(Rows)
      /\ Identities(run[p].seen[q]) \subseteq {run[p].stamp}
  BY <1>2 DEF StrictGate
<1>4. MadeUnder(run[p].seen[q], run[p].stamp)
  <2>1. \A i \in DOMAIN run[p].seen[q] : run[p].seen[q][i] \in Faithful
    OBVIOUS
  <2>2. \A i \in DOMAIN run[p].seen[q] : run[p].seen[q][i].by = run[p].stamp
    BY <1>3 DEF Identities
  <2>3. QED
    BY <2>1, <2>2 DEF MadeUnder, Faithful
<1>5. QED
  BY <1>1, <1>3, <1>4, DistinctRowsAreAll

-------------------------------------------------------------------------------
(* Steps of a running command that neither load an identity nor read a file. *)

Moves(p) ==
  /\ Active(p)
  /\ \A x \in Procs : x # p => run'[x] = run[x]
  /\ run'[p].stamp = run[p].stamp
  /\ \A q \in Paths : run'[p].seen[q] \in {run[p].seen[q], << >>}

LEMMA RestingMoves ==
  ASSUME RunsTyped, NEW p \in Procs, NEW how, Active(p), Resting(p, how)
  PROVE  Moves(p)
BY DEF RunsTyped, RunState, Resting, Moves

LEMMA StepMoves ==
  ASSUME TypeOK, NEW p \in Procs, Step(p), ~ReadInput(p), \A c \in Commands : ~Start(p, c)
  PROVE  Moves(p)
<1>1. RunsTyped
  BY TypeParts
<1> USE <1>1, RestingMoves
<1>3. CASE \E how : Resting(p, how)
  <2>1. Active(p)
    BY <1>3 DEF Step, LoadSelection, VerifyExisting, OpenWriter, ReadInput, SkipKnown, RefuseDuplicate,
       AppendText, AppendLineBreak, FinishRun, WriteSelection, StopInspection, Decide, RefuseInputs,
       Interrupt, InterruptText, InterruptSelection, Active, Outcomes
  <2>2. QED
    BY <1>3, <2>1
<1>4. CASE ~ \E how : Resting(p, how)
  <2>1. \/ LoadSelection(p) \/ VerifyExisting(p) \/ OpenWriter(p)
        \/ SkipKnown(p) \/ AppendText(p) \/ AppendLineBreak(p)
    BY <1>4 DEF Step, RefuseDuplicate, FinishRun, WriteSelection, StopInspection, Decide, RefuseInputs,
       Interrupt, InterruptText, InterruptSelection
  <2> USE DEF Moves, Active, Outcomes, RunsTyped, RunState
  <2>2. CASE LoadSelection(p)
    BY <1>4, <2>2 DEF LoadSelection
  <2>3. CASE VerifyExisting(p)
    BY <1>4, <2>3 DEF VerifyExisting
  <2>4. CASE OpenWriter(p)
    BY <1>4, <2>4 DEF OpenWriter
  <2>5. CASE SkipKnown(p)
    BY <2>5 DEF SkipKnown
  <2>6. CASE AppendText(p)
    BY <2>6 DEF AppendText
  <2>7. CASE AppendLineBreak(p)
    BY <2>7 DEF AppendLineBreak
  <2>8. QED
    BY <2>1, <2>2, <2>3, <2>4, <2>5, <2>6, <2>7
<1>5. QED
  BY <1>3, <1>4

-------------------------------------------------------------------------------
(* The invariant holds throughout.                                           *)

LEMMA MovesKeepRuns ==
  ASSUME GateInv, NEW p \in Procs, Moves(p), UNCHANGED config
  PROVE  /\ \A x \in Procs : Active(x)' => run'[x].stamp = config'
         /\ \A x \in Procs : \A q \in Paths : run'[x].seen[q] \in Seq(Faithful)
<1>1. ASSUME NEW x \in Procs
      PROVE  /\ Active(x)' => run'[x].stamp = config'
             /\ \A q \in Paths : run'[x].seen[q] \in Seq(Faithful)
  <2>1. CASE x = p
    <3>1. Active(x)' => run'[x].stamp = config'
      BY <2>1 DEF GateInv, Moves, Active
    <3>2. ASSUME NEW q \in Paths PROVE run'[x].seen[q] \in Seq(Faithful)
      <4>1. run[x].seen[q] \in Seq(Faithful) /\ << >> \in Seq(Faithful)
        BY DEF GateInv
      <4>2. run'[x].seen[q] = run[x].seen[q] \/ run'[x].seen[q] = << >>
        BY <2>1 DEF Moves
      <4>3. QED
        BY <4>1, <4>2
    <3>3. QED
      BY <3>1, <3>2
  <2>2. CASE x # p
    BY <2>2 DEF GateInv, Moves, Active
  <2>3. QED
    BY <2>1, <2>2
<1>2. QED
  BY <1>1

(* Whatever is appended was produced under the identity it claims.           *)
LEMMA StepFaithful ==
  ASSUME GateInv, NEW p \in Procs, Step(p), NEW q \in Paths
  PROVE  file'[q].lines \in Seq(Faithful)
<1>1. /\ FilesTyped /\ RunsTyped
      /\ \A x \in Paths : file[x] \in JsonlFiles(Faithful)
  BY TypeParts DEF GateInv, FilesTyped, JsonlFiles
<1> DEFINE o == run[p].cmd.out
<1>2. o \in Paths
  BY <1>1, CommandsTyped DEF RunsTyped, RunState
<1>3. CASE AppendText(p)
  <2>1. PICK i \in run[p].todo :
          /\ run[p].pc = "work"
          /\ file' = [file EXCEPT ![o] = WriteText(@, NewRecord(p, i))]
    BY <1>3 DEF AppendText
  <2>2. NewRecord(p, i) \in Records
    BY <2>1, NewRecordTyped, RecordsTyped DEF GateInv
  <2>3. run[p].stamp = config
    BY <2>1 DEF GateInv, Active, Outcomes
  <2>4. NewRecord(p, i) \in Faithful
    BY <2>2, <2>3 DEF NewRecord, Claimed, Faithful
  <2>5. WriteText(file[o], NewRecord(p, i)) \in JsonlFiles(Faithful)
    BY <1>1, <1>2, <2>4, WriteTextTyped
  <2>6. QED
    BY <1>1, <1>2, <2>1, <2>5 DEF FilesTyped, JsonlFiles
<1>4. CASE AppendLineBreak(p)
  <2>1. WriteLineBreak(file[o]) \in JsonlFiles(Faithful)
    BY <1>1, <1>2, WriteLineBreakTyped
  <2>2. QED
    BY <1>1, <1>2, <1>4, <2>1 DEF AppendLineBreak, FilesTyped, JsonlFiles
<1>5. CASE InterruptText(p)
  <2>1. SpoilTail(file[o]) \in JsonlFiles(Faithful)
    BY <1>1, <1>2, SpoilTailTyped
  <2>2. QED
    BY <1>1, <1>2, <1>5, <2>1 DEF InterruptText, TearText, FilesTyped, JsonlFiles
<1>6. CASE UNCHANGED file
  BY <1>1, <1>6 DEF JsonlFiles
<1>7. QED
  BY <1>3, <1>4, <1>5, <1>6 DEF Step, Start, LoadSelection, VerifyExisting, OpenWriter,
     ReadInput, SkipKnown, RefuseDuplicate, FinishRun, WriteSelection, StopInspection, Decide,
     RefuseInputs, Interrupt, InterruptSelection

LEMMA StepKeepsRuns ==
  ASSUME GateInv, NEW p \in Procs, Step(p)
  PROVE  /\ \A x \in Procs : Active(x)' => run'[x].stamp = config'
         /\ \A x \in Procs : \A q \in Paths : run'[x].seen[q] \in Seq(Faithful)
<1>1. RunsTyped /\ TypeOK
  BY TypeParts DEF GateInv
<1>2. UNCHANGED config
  BY DEF Step, Start, LoadSelection, VerifyExisting, OpenWriter, ReadInput, SkipKnown, RefuseDuplicate,
     AppendText, AppendLineBreak, FinishRun, WriteSelection, StopInspection, Decide, RefuseInputs,
     Interrupt, InterruptText, InterruptSelection
<1>3. CASE \E c \in Commands : Start(p, c)
  <2>1. PICK c \in Commands : run' = [run EXCEPT ![p] = Fresh(FirstStep(c), c, config)]
    BY <1>3 DEF Start
  <2>2. run'[p].stamp = config /\ \A q \in Paths : run'[p].seen[q] = << >>
    BY <1>1, <2>1 DEF RunsTyped, Fresh
  <2>3. \A x \in Procs : x # p => run'[x] = run[x]
    BY <1>1, <2>1 DEF RunsTyped
  <2>4. << >> \in Seq(Faithful)
    OBVIOUS
  <2>5. \A q \in Paths : run'[p].seen[q] \in Seq(Faithful)
    BY <2>2, <2>4
  <2>6. QED
    BY <1>2, <2>2, <2>3, <2>5 DEF GateInv, Active
<1>4. CASE ReadInput(p)
  <2> DEFINE q == ReadOrder(run[p].cmd)[run[p].step]
  <2>1. run[p].stamp = config
    BY <1>4 DEF ReadInput, GateInv, Active, Outcomes
  <2>2. CASE Resting(p, "failed")
    BY <1>1, <1>2, <1>4, <2>2, RestingMoves, MovesKeepRuns DEF ReadInput, Active, Outcomes
  <2>3. CASE ~Resting(p, "failed")
    <3>1. /\ \A x \in Procs : x # p => run'[x] = run[x]
          /\ run'[p].stamp = run[p].stamp
          /\ run'[p].seen = [run[p].seen EXCEPT ![q] = file[q].lines]
      <4> DEFINE s == file[q].lines
      <4> DEFINE more == run[p].step < Len(ReadOrder(run[p].cmd))
      <4> DEFINE n == IF more THEN run[p].step + 1 ELSE run[p].step
      <4> DEFINE pc == IF more THEN "read" ELSE AfterReading(run[p].cmd)
      <4> DEFINE todo == IF run[p].cmd.kind = "replay" THEN Replays(run[p], s) ELSE {}
      <4>1. run' = [run EXCEPT ![p].seen[q] = s, ![p].step = n, ![p].pc = pc, ![p].todo = todo]
        BY <1>4, <2>3 DEF ReadInput
      <4> HIDE DEF q, s, n, pc, todo
      <4>2. run'[p].seen = [run[p].seen EXCEPT ![q] = s]
        BY <1>1, <4>1 DEF RunsTyped, RunState
      <4>3. run'[p].stamp = run[p].stamp /\ \A x \in Procs : x # p => run'[x] = run[x]
        BY <1>1, <4>1 DEF RunsTyped, RunState
      <4>4. QED
        BY <4>2, <4>3 DEF s
    <3>2. q \in Paths
      BY <1>1, ReadOrderTyped DEF RunsTyped, RunOK, RunState
    <3>3. \A x \in Paths : run'[p].seen[x] \in Seq(Faithful)
      BY <1>1, <3>1, <3>2 DEF GateInv, RunsTyped, RunState
    <3>4. QED
      BY <1>2, <2>1, <3>1, <3>3 DEF GateInv, Active
  <2>4. QED
    BY <2>2, <2>3
<1>5. CASE ~ReadInput(p) /\ \A c \in Commands : ~Start(p, c)
  BY <1>1, <1>2, <1>5, StepMoves, MovesKeepRuns
<1>6. QED
  BY <1>3, <1>4, <1>5

LEMMA DecideAccepts ==
  ASSUME GateInv, NEW p \in Procs, Decide(p)
  PROVE  AcceptedPopulation'
<1>1. CASE ~StrictGate(run[p])
  BY <1>1 DEF Decide, AcceptedPopulation, Passed
<1>2. CASE StrictGate(run[p])
  <2>1. decision'.seen = run[p].seen /\ decision'.stamp = run[p].stamp
    BY DEF Decide
  <2>2. ASSUME NEW q \in Natural
        PROVE  /\ RecordIds(run[p].seen[q]) = Rows \X {"base"}
               /\ DistinctIds(run[p].seen[q])
               /\ MadeUnder(run[p].seen[q], run[p].stamp)
    <3>1. run[p].seen[q] \in Seq(Faithful)
      BY DEF GateInv, Paths
    <3>2. QED
      BY <1>2, <3>1, GateIsStrict DEF GateInv
  <2>3. QED
    BY <2>1, <2>2 DEF AcceptedPopulation
<1>3. QED
  BY <1>1, <1>2

LEMMA GateInvStep ==
  ASSUME ~EditWhileRunning, GateInv, [Next]_vars
  PROVE  GateInv'
<1>1. TypeOK'
  BY StepTyped DEF GateInv
<1>2. CASE UNCHANGED vars
  BY <1>1, <1>2 DEF GateInv, vars, AcceptedPopulation, Passed, Active
<1>3. CASE EditConfig
  <2>1. \A p \in Procs : ~Active(p)'
    BY <1>3 DEF EditConfig, Active
  <2>2. UNCHANGED <<file, run, decision>>
    BY <1>3 DEF EditConfig
  <2>3. QED
    BY <1>1, <2>1, <2>2 DEF GateInv, AcceptedPopulation, Passed
<1>4. ASSUME NEW p \in Procs, Step(p) PROVE GateInv'
  <2>1. AcceptedPopulation'
    <3>1. CASE Decide(p)
      BY <3>1, DecideAccepts
    <3>2. CASE UNCHANGED decision
      BY <3>2 DEF GateInv, AcceptedPopulation, Passed
    <3>3. QED
      BY <1>4, <3>1, <3>2 DEF Step, Start, LoadSelection, VerifyExisting, OpenWriter, ReadInput,
         SkipKnown, RefuseDuplicate, AppendText, AppendLineBreak, FinishRun, WriteSelection,
         StopInspection, RefuseInputs, Interrupt, InterruptText, InterruptSelection
  <2>2. QED
    BY <1>1, <1>4, <2>1, StepFaithful, StepKeepsRuns DEF GateInv
<1>5. QED
  BY <1>2, <1>3, <1>4 DEF Next

LEMMA GateInvInit == Init => GateInv
<1> SUFFICES ASSUME Init PROVE GateInv
  OBVIOUS
<1>1. TypeOK
  BY InitTyped
<1>2. \A q \in Paths : file[q].lines = << >>
  BY DEF Init, NoRecords
<1>3. \A p \in Procs : ~Active(p) /\ \A q \in Paths : run[p].seen[q] = << >>
  BY DEF Init, Fresh, Active, Outcomes
<1>4. AcceptedPopulation
  BY DEF Init, Nothing, AcceptedPopulation, Passed
<1>5. << >> \in Seq(Faithful)
  OBVIOUS
<1>6. QED
  BY <1>1, <1>2, <1>3, <1>4, <1>5 DEF GateInv

(* A gate or an analysis passes only over the whole pre-registered           *)
(* population, every row once, produced under the configuration it was judged*)
(* with: for every population and however the runs that wrote the files were *)
(* split, resumed, repeated, overlapped or interrupted, as long as the       *)
(* configuration is not edited under a running command (claim_config shows   *)
(* why that is needed).                                                      *)
THEOREM GatePassesWholePopulation ==
  ASSUME ~EditWhileRunning
  PROVE  Spec => []AcceptedPopulation
<1>1. GateInv /\ [Next]_vars => GateInv'
  BY GateInvStep
<1>2. GateInv => AcceptedPopulation
  BY DEF GateInv
<1>3. QED
  BY <1>1, <1>2, GateInvInit, PTL DEF Spec

-------------------------------------------------------------------------------
(* One command at a time writes no record twice.                             *)

(* What the writer of p holds of its file: every id that is in it.           *)
WriterKnows(p) ==
  LET ids == RecordIds(file[run[p].cmd.out].lines) IN
  /\ run[p].pc \in {"read", "work"} /\ WritesRecords(run[p].cmd) => ids \subseteq run[p].written
  /\ run[p].pc = "line" => ids \subseteq run[p].written \cup run[p].pending
  /\ run[p].pc = "selection" => run[p].cmd.kind # "generate"

UniqueInv == TypeOK /\ RecordsAreUnique /\ \A p \in Procs : WriterKnows(p)

LEMMA UniqueAppendText ==
  ASSUME UniqueInv, NEW p \in Procs, AppendText(p)
  PROVE  RecordsAreUnique' /\ WriterKnows(p)'
<1> DEFINE o == run[p].cmd.out
<1>1. RunsTyped /\ FilesTyped /\ o \in Paths /\ file[o] \in JsonlFiles(RecordsOf(o))
  BY TypeParts, CommandsTyped, FileTyped DEF UniqueInv, RunsTyped, RunState
<1>2. PICK i \in run[p].todo :
        /\ run[p].pc = "work" /\ i.id \notin run[p].written
        /\ file' = [file EXCEPT ![o] = WriteText(@, NewRecord(p, i))]
        /\ run' = [run EXCEPT ![p].pc = "line", ![p].todo = @ \ {i}, ![p].pending = {i.id}]
  BY DEF AppendText
<1>3. NewRecord(p, i) \in RecordsOf(o) /\ NewRecord(p, i).id = i.id
  BY <1>2, NewRecordTyped DEF UniqueInv
<1>4. RecordIds(file[o].lines) \subseteq run[p].written
  BY <1>1, <1>2 DEF UniqueInv, WriterKnows, RunsTyped, RunOK
<1>5. /\ DistinctIds(WriteText(file[o], NewRecord(p, i)).lines)
      /\ RecordIds(WriteText(file[o], NewRecord(p, i)).lines) \subseteq RecordIds(file[o].lines) \cup {i.id}
  BY <1>1, <1>2, <1>3, <1>4, WriteTextDistinct DEF UniqueInv, RecordsAreUnique
<1>6. /\ file'[o] = WriteText(file[o], NewRecord(p, i))
      /\ \A q \in Paths : q # o => file'[q] = file[q]
  BY <1>1, <1>2 DEF FilesTyped
<1>7. /\ run'[p].pc = "line" /\ run'[p].cmd.out = o
      /\ run'[p].written = run[p].written /\ run'[p].pending = {i.id}
  BY <1>1, <1>2 DEF RunsTyped, RunState
<1>8. RecordsAreUnique'
  BY <1>5, <1>6 DEF UniqueInv, RecordsAreUnique
<1>9. QED
  BY <1>4, <1>5, <1>6, <1>7, <1>8 DEF WriterKnows

LEMMA UniqueAppendLineBreak ==
  ASSUME UniqueInv, NEW p \in Procs, AppendLineBreak(p)
  PROVE  RecordsAreUnique' /\ WriterKnows(p)'
<1> DEFINE o == run[p].cmd.out
<1>1. RunsTyped /\ FilesTyped /\ o \in Paths /\ file[o] \in JsonlFiles(RecordsOf(o))
  BY TypeParts, CommandsTyped, FileTyped DEF UniqueInv, RunsTyped, RunState
<1>2. \A q \in Paths : file'[q].lines = file[q].lines
  BY <1>1, WriteLineBreakTyped DEF AppendLineBreak, FilesTyped
<1>3. /\ run'[p].pc = "work" /\ run'[p].cmd.out = o
      /\ run'[p].written = run[p].written \cup run[p].pending
  BY <1>1 DEF AppendLineBreak, RunsTyped, RunState
<1>4. RecordIds(file[o].lines) \subseteq run[p].written \cup run[p].pending
  BY DEF UniqueInv, WriterKnows, AppendLineBreak
<1>5. QED
  BY <1>1, <1>2, <1>3, <1>4 DEF UniqueInv, RecordsAreUnique, WriterKnows

LEMMA UniqueInterruptText ==
  ASSUME UniqueInv, NEW p \in Procs, InterruptText(p)
  PROVE  RecordsAreUnique'
<1> DEFINE o == run[p].cmd.out
<1>1. RunsTyped /\ FilesTyped /\ o \in Paths /\ file[o] \in JsonlFiles(RecordsOf(o))
  BY TypeParts, CommandsTyped, FileTyped DEF UniqueInv, RunsTyped, RunState
<1>2. /\ file'[o] = SpoilTail(file[o])
      /\ \A q \in Paths : q # o => file'[q] = file[q]
  BY <1>1 DEF InterruptText, TearText, FilesTyped
<1>3. DistinctIds(SpoilTail(file[o]).lines)
  BY <1>1, SpoilTailDistinct DEF UniqueInv, RecordsAreUnique
<1>4. QED
  BY <1>2, <1>3 DEF UniqueInv, RecordsAreUnique

(* The steps that leave the files alone.                                     *)
LEMMA UniqueElsewhere ==
  ASSUME UniqueInv, NEW p \in Procs, Step(p), UNCHANGED file
  PROVE  WriterKnows(p)'
<1>1. RunsTyped
  BY TypeParts DEF UniqueInv
<1> USE <1>1 DEF RunsTyped, RunState, WriterKnows
<1>2. CASE \E how \in Outcomes : Resting(p, how)
  BY <1>2 DEF Resting, Outcomes
<1>3. CASE \E c \in Commands : Start(p, c)
  <2>1. PICK c \in Commands : run' = [run EXCEPT ![p] = Fresh(FirstStep(c), c, config)]
    BY <1>3 DEF Start
  <2>2. run'[p].pc = FirstStep(c) /\ run'[p].cmd = c
    BY <2>1 DEF Fresh
  <2>3. QED
    BY <2>2 DEF FirstStep, AfterSelection, WritesRecords
<1>4. CASE LoadSelection(p)
  <2>1. run[p].cmd.kind # "generate"
    BY <1>4 DEF LoadSelection, UniqueInv
  <2>2. CASE run'[p].pc = AfterSelection(run[p].cmd) /\ run'[p].cmd = run[p].cmd
    BY <2>1, <2>2 DEF AfterSelection, WritesRecords
  <2>3. QED
    BY <1>2, <1>4, <2>2 DEF LoadSelection, Outcomes
<1>5. CASE VerifyExisting(p)
  BY <1>2, <1>5 DEF VerifyExisting, Outcomes
<1>6. CASE OpenWriter(p)
  BY <1>2, <1>6 DEF OpenWriter, Outcomes
<1>7. CASE ReadInput(p)
  <2>1. CASE /\ run'[p].pc \in {"read", "work", "select", "decide"}
             /\ run'[p].cmd = run[p].cmd /\ run'[p].written = run[p].written
    BY <1>7, <2>1 DEF ReadInput, UniqueInv
  <2>2. CASE ~Resting(p, "failed")
    <3>1. /\ run'[p].cmd = run[p].cmd /\ run'[p].written = run[p].written
          /\ run'[p].pc \in {"read", AfterReading(run[p].cmd)}
      <4> DEFINE q == ReadOrder(run[p].cmd)[run[p].step]
      <4> DEFINE s == file[q].lines
      <4> DEFINE more == run[p].step < Len(ReadOrder(run[p].cmd))
      <4> DEFINE n == IF more THEN run[p].step + 1 ELSE run[p].step
      <4> DEFINE pc == IF more THEN "read" ELSE AfterReading(run[p].cmd)
      <4> DEFINE todo == IF run[p].cmd.kind = "replay" THEN Replays(run[p], s) ELSE {}
      <4>1. run' = [run EXCEPT ![p].seen[q] = s, ![p].step = n, ![p].pc = pc, ![p].todo = todo]
        BY <1>7, <2>2 DEF ReadInput
      <4>2. pc \in {"read", AfterReading(run[p].cmd)}
        OBVIOUS
      <4> HIDE DEF q, s, n, pc, todo
      <4>3. QED
        BY <4>1, <4>2
    <3>2. QED
      BY <2>1, <3>1 DEF AfterReading
  <2>3. QED
    BY <1>2, <2>2 DEF Outcomes
<1>8. CASE SkipKnown(p)
  <2>1. /\ run[p].pc = "work" /\ run'[p].pc = run[p].pc
        /\ run'[p].cmd = run[p].cmd /\ run'[p].written = run[p].written
    BY <1>8 DEF SkipKnown
  <2>2. QED
    BY <2>1 DEF UniqueInv
<1>9. CASE AppendText(p) \/ AppendLineBreak(p)
  BY <1>9, UniqueAppendText, UniqueAppendLineBreak
<1>10. QED
  BY <1>2, <1>3, <1>4, <1>5, <1>6, <1>7, <1>8, <1>9 DEF Step, RefuseDuplicate, FinishRun,
     WriteSelection, StopInspection, Decide, RefuseInputs, Interrupt, InterruptText,
     InterruptSelection, Outcomes

LEMMA UniqueInvStep ==
  ASSUME \A x, y \in Procs : x = y, UniqueInv, [Next]_vars
  PROVE  UniqueInv'
<1>1. TypeOK'
  BY StepTyped DEF UniqueInv
<1>2. CASE UNCHANGED vars
  BY <1>1, <1>2 DEF UniqueInv, vars, RecordsAreUnique, WriterKnows
<1>3. CASE EditConfig
  BY <1>1, <1>3 DEF EditConfig, UniqueInv, RecordsAreUnique, WriterKnows
<1>4. ASSUME NEW p \in Procs, Step(p) PROVE UniqueInv'
  <2>1. \A x \in Procs : x = p
    OBVIOUS
  <2>2. CASE AppendText(p) \/ AppendLineBreak(p)
    BY <1>1, <2>1, <2>2, UniqueAppendText, UniqueAppendLineBreak DEF UniqueInv
  <2>3. CASE InterruptText(p)
    <3>1. run'[p].pc = "failed"
      BY <2>3, TypeParts DEF InterruptText, Resting, UniqueInv, RunsTyped, RunState
    <3>2. WriterKnows(p)'
      BY <3>1 DEF WriterKnows
    <3>3. QED
      BY <1>1, <2>1, <2>3, <3>2, UniqueInterruptText DEF UniqueInv
  <2>4. CASE UNCHANGED file
    <3>1. RecordsAreUnique'
      BY <2>4 DEF UniqueInv, RecordsAreUnique
    <3>2. QED
      BY <1>1, <1>4, <2>1, <2>4, <3>1, UniqueElsewhere DEF UniqueInv
  <2>5. QED
    BY <1>4, <2>2, <2>3, <2>4 DEF Step, Start, LoadSelection, VerifyExisting, OpenWriter,
       ReadInput, SkipKnown, RefuseDuplicate, FinishRun, WriteSelection, StopInspection, Decide,
       RefuseInputs, Interrupt, InterruptSelection
<1>5. QED
  BY <1>2, <1>3, <1>4 DEF Next

LEMMA UniqueInvInit == Init => UniqueInv
<1> SUFFICES ASSUME Init PROVE UniqueInv
  OBVIOUS
<1>1. TypeOK
  BY InitTyped
<1>2. RecordsAreUnique
  BY DEF Init, NoRecords, RecordsAreUnique, DistinctIds
<1>3. \A p \in Procs : WriterKnows(p)
  BY DEF Init, Fresh, WriterKnows
<1>4. QED
  BY <1>1, <1>2, <1>3 DEF UniqueInv

(* While commands do not overlap, no file ever holds two records of one id,  *)
(* whatever was resumed, repeated without --resume, refused or interrupted   *)
(* inside an append: the writer's set covers the ids of the file at every    *)
(* point from its opening on.                                                *)
THEOREM OneWriterWritesOnce ==
  ASSUME \A x, y \in Procs : x = y
  PROVE  Spec => []RecordsAreUnique
<1>1. UniqueInv /\ [Next]_vars => UniqueInv'
  BY UniqueInvStep
<1>2. UniqueInv => RecordsAreUnique
  BY DEF UniqueInv
<1>3. QED
  BY <1>1, <1>2, UniqueInvInit, PTL DEF Spec

-------------------------------------------------------------------------------
(* A run that ends well has written all it owed.  What it holds about its    *)
(* output stays true while the output can be read, whoever else writes to it.*)

Grown(q) ==
  Readable(file'[q]) =>
    /\ Readable(file[q])
    /\ RecordIds(file[q].lines) \subseteq RecordIds(file'[q].lines)
    /\ Range(file[q].lines) \subseteq Range(file'[q].lines)
    /\ RowsOf(file[q].lines) \subseteq RowsOf(file'[q].lines)

LEMMA StepGrown ==
  ASSUME TypeOK, TypeOK', [Next]_vars, NEW q \in Paths
  PROVE  Grown(q)
<1> SUFFICES ASSUME Readable(file'[q]) PROVE Grown(q)
  BY DEF Grown
<1>1. Readable(file[q]) /\ Extends(file'[q].lines, file[q].lines)
  BY StepGrows DEF FileGrows
<1>2. /\ DOMAIN file[q].lines = 1..Len(file[q].lines)
      /\ DOMAIN file'[q].lines = 1..Len(file'[q].lines)
      /\ Len(file[q].lines) \in Nat /\ Len(file'[q].lines) \in Nat
  BY DEF TypeOK
<1>3. ASSUME NEW i \in DOMAIN file[q].lines
      PROVE  i \in DOMAIN file'[q].lines /\ file'[q].lines[i] = file[q].lines[i]
  BY <1>1, <1>2 DEF Extends
<1>4. QED
  BY <1>1, <1>3 DEF Grown, RecordIds, Range, RowsOf

WriterOwes(p) ==
  LET r == run[p]  f == file[r.cmd.out]  full == file["full"]  ids == RecordIds(f.lines) IN
  WritesRecords(r.cmd) =>
    /\ r.pc \notin {"select", "decide"}
    /\ r.cmd.kind = "generate" => r.pc \notin {"selection", "read"}
    /\ r.cmd.sel /\ r.pc \in {"verify", "open", "read"} /\ Readable(full) =>
         r.chosen \subseteq RowsOf(full.lines)
    /\ Readable(f) =>
         /\ r.pc \in {"open", "read", "work", "line"} => r.known \subseteq ids
         /\ r.pc \in {"read", "work", "line"} => r.written \subseteq ids
         /\ r.pc = "line" => r.pending \subseteq ids
         /\ r.pc \in {"work", "line"} => Owed(r) \subseteq ids \cup {i.id : i \in r.todo}
         /\ r.pc = "ok" => Owed(r) \subseteq ids

OwesInv == TypeOK /\ \A p \in Procs : WriterOwes(p)

(* A step of another process, or of the operator.                            *)
LEMMA OwesKept ==
  ASSUME OwesInv, [Next]_vars, NEW p \in Procs, run'[p] = run[p]
  PROVE  WriterOwes(p)'
<1>1. TypeOK /\ TypeOK' /\ RunsTyped
  BY StepTyped, TypeParts DEF OwesInv
<1>2. run[p].cmd.out \in Paths /\ "full" \in Paths
  BY <1>1, CommandsTyped DEF RunsTyped, RunState, Paths, Natural
<1>3. Grown(run[p].cmd.out) /\ Grown("full")
  BY <1>1, <1>2, StepGrown DEF Grown
<1>4. WriterOwes(p)
  BY DEF OwesInv
<1>5. QED
  BY <1>3, <1>4 DEF WriterOwes, Grown, Owed

(* The probes of every trace chosen are among those a replay plans.          *)
LEMMA ReplaysCover ==
  ASSUME NEW r, NEW s, r.cmd.sel, r.chosen \subseteq RowsOf(s), r.cmd.kind = "replay"
  PROVE  Owed(r) \subseteq {i.id : i \in Replays(r, s)}
<1> SUFFICES ASSUME NEW x \in r.chosen \cap r.cmd.rows \cap Parsed, NEW f \in Fractions
             PROVE  <<x, f>> \in {i.id : i \in Replays(r, s)}
  BY DEF Owed
<1>1. PICK j \in DOMAIN s : Row(s[j]) = x
  BY DEF RowsOf
<1>2. s[j] \in Range(s)
  BY <1>1 DEF Range
<1>3. [id |-> <<Row(s[j]), f>>, of |-> <<s[j]>>] \in Replays(r, s)
  BY <1>1, <1>2 DEF Replays
<1>4. QED
  BY <1>1, <1>3

LEMMA OwesStep ==
  ASSUME OwesInv, NEW p \in Procs, Step(p)
  PROVE  WriterOwes(p)'
<1>1. TypeOK /\ TypeOK' /\ RunsTyped /\ FilesTyped /\ WriterOwes(p)
  <2>1. [Next]_vars
    BY DEF Next
  <2>2. QED
    BY <2>1, StepTyped, TypeParts DEF OwesInv
<1> DEFINE o == run[p].cmd.out
<1>2. o \in Paths /\ "full" \in Paths
  BY <1>1, CommandsTyped DEF RunsTyped, RunState, Paths, Natural
<1>3. Grown(o) /\ Grown("full")
  <2>1. [Next]_vars
    BY DEF Next
  <2>2. QED
    BY <1>1, <1>2, <2>1, StepGrown DEF Grown
<1>4. DOMAIN run = Procs /\ run[p] \in RunState
  BY <1>1 DEF RunsTyped
<1>5. /\ run[p].cmd.kind = "generate" => ~run[p].cmd.sel
      /\ run[p].pc \in {"verify", "open", "work", "line"} => WritesRecords(run[p].cmd)
  BY <1>1, <1>4, CommandsTyped DEF RunsTyped, RunOK, RunState
<1>6. CASE Resting(p, "failed")
  <2>1. run'[p].pc = "failed"
    BY <1>4, <1>6 DEF Resting, RunState
  <2>2. QED
    BY <2>1 DEF WriterOwes
<1>7. CASE \E c \in Commands : Start(p, c)
  <2>1. PICK c \in Commands : run' = [run EXCEPT ![p] = Fresh(FirstStep(c), c, config)]
    BY <1>7 DEF Start
  <2>2. run'[p].pc = FirstStep(c) /\ run'[p].cmd = c /\ run'[p].chosen = {}
    BY <1>4, <2>1 DEF Fresh
  <2>3. QED
    BY <2>2 DEF WriterOwes, FirstStep, AfterSelection, WritesRecords
<1>8. CASE LoadSelection(p) /\ ~Resting(p, "failed")
  <2>1. /\ SelectionFits /\ run[p].pc = "selection" /\ UNCHANGED file
        /\ run' = [run EXCEPT ![p].pc = AfterSelection(run[p].cmd), ![p].chosen = selection.rows]
    BY <1>8 DEF LoadSelection
  <2>2. /\ run'[p].pc = AfterSelection(run[p].cmd) /\ run'[p].chosen = selection.rows
        /\ run'[p].cmd = run[p].cmd
    BY <1>4, <2>1 DEF RunState
  <2>3. selection.rows \subseteq RowsOf(file["full"].lines)
    BY <2>1 DEF SelectionFits
  <2>4. SUFFICES ASSUME WritesRecords(run[p].cmd) PROVE WriterOwes(p)'
    BY <2>2 DEF WriterOwes
  <2>5. run[p].cmd.kind = "replay" /\ run'[p].pc = "verify"
    BY <1>1, <2>1, <2>2, <2>4 DEF WriterOwes, AfterSelection, WritesRecords
  <2>6. QED
    BY <2>1, <2>2, <2>3, <2>5 DEF WriterOwes
<1>9. CASE VerifyExisting(p) /\ ~Resting(p, "failed")
  <2>1. /\ run[p].pc = "verify" /\ UNCHANGED file
        /\ run'[p].pc = "open" /\ run'[p].cmd = run[p].cmd /\ run'[p].chosen = run[p].chosen
        /\ run'[p].known \subseteq RecordIds(file[o].lines)
    BY <1>4, <1>9 DEF VerifyExisting, RunState
  <2>2. QED
    BY <1>1, <2>1 DEF WriterOwes
<1>10. CASE OpenWriter(p) /\ ~Resting(p, "failed")
  <2>1. /\ run[p].pc = "open" /\ UNCHANGED file
        /\ run'[p].cmd = run[p].cmd /\ run'[p].chosen = run[p].chosen
        /\ run'[p].known = run[p].known /\ run'[p].written = RecordIds(file[o].lines)
    BY <1>4, <1>10 DEF OpenWriter, RunState
  <2>2. CASE run[p].cmd.kind = "generate"
    <3>1. /\ run'[p].pc = "work"
          /\ run'[p].todo = [id : run[p].cmd.rows \X {"base"}, of : {<< >>}]
      <4> DEFINE new == [id : run[p].cmd.rows \X {"base"}, of : {<< >>}]
      <4> DEFINE ids == RecordIds(file[o].lines)
      <4>1. run' = [run EXCEPT ![p].pc = "work", ![p].written = ids, ![p].todo = new]
        BY <1>10, <2>2 DEF OpenWriter
      <4> HIDE DEF new, ids
      <4>2. run'[p].pc = "work" /\ run'[p].todo = new
        BY <1>4, <4>1 DEF RunState
      <4>3. QED
        BY <4>2 DEF new
    <3>2. ASSUME NEW x \in Owed(run'[p]) PROVE x \in {i.id : i \in run'[p].todo}
      <4>1. x \in run[p].cmd.rows \X {"base"}
        BY <2>1, <2>2, <3>2 DEF Owed
      <4>2. [id |-> x, of |-> << >>] \in run'[p].todo
        BY <3>1, <4>1
      <4>3. QED
        BY <4>2
    <3>3. QED
      BY <1>1, <2>1, <2>2, <3>1, <3>2 DEF WriterOwes
  <2>3. CASE run[p].cmd.kind # "generate"
    <3>1. run'[p].pc = "read"
      BY <1>4, <1>10, <2>3 DEF OpenWriter, RunState
    <3>2. QED
      BY <1>1, <2>1, <2>3, <3>1 DEF WriterOwes
  <2>4. QED
    BY <2>2, <2>3
<1>11. CASE ReadInput(p) /\ ~Resting(p, "failed")
  <2> DEFINE q == ReadOrder(run[p].cmd)[run[p].step]
  <2> DEFINE s == file[q].lines
  <2> DEFINE more == run[p].step < Len(ReadOrder(run[p].cmd))
  <2> DEFINE n == IF more THEN run[p].step + 1 ELSE run[p].step
  <2> DEFINE pc == IF more THEN "read" ELSE AfterReading(run[p].cmd)
  <2> DEFINE todo == IF run[p].cmd.kind = "replay" THEN Replays(run[p], s) ELSE {}
  <2>1. /\ run' = [run EXCEPT ![p].seen[q] = s, ![p].step = n, ![p].pc = pc, ![p].todo = todo]
        /\ run[p].pc = "read" /\ UNCHANGED file /\ Readable(file[q])
    BY <1>11 DEF ReadInput
  <2>2. /\ run'[p].pc = pc /\ run'[p].cmd = run[p].cmd /\ run'[p].chosen = run[p].chosen
        /\ run'[p].known = run[p].known /\ run'[p].written = run[p].written
        /\ run'[p].todo = todo
    <3> HIDE DEF q, s, n, pc, todo
    <3>1. QED
      BY <1>4, <2>1 DEF RunState
  <2>3. SUFFICES ASSUME WritesRecords(run[p].cmd) PROVE WriterOwes(p)'
    BY <2>2 DEF WriterOwes
  <2>4. run[p].cmd.kind = "replay"
    BY <1>1, <2>1, <2>3 DEF WriterOwes, WritesRecords
  <2>5. Len(ReadOrder(run[p].cmd)) = 1 /\ ReadOrder(run[p].cmd)[1] = "full"
    BY <1>4, <2>4, ReadOrderTyped DEF RunState
  <2>6. run[p].step = 1
    <3>1. run[p].step <= Len(ReadOrder(run[p].cmd))
      BY <1>1 DEF RunsTyped, RunOK
    <3>2. run[p].step \in 1..4
      BY <1>4 DEF RunState
    <3>3. QED
      BY ONLY <2>5, <3>1, <3>2, SMT
  <2>7. /\ run'[p].pc = "work" /\ q = "full"
        /\ run'[p].todo = Replays(run[p], file["full"].lines)
    BY <2>2, <2>4, <2>5, <2>6 DEF AfterReading
  <2>8. Owed(run'[p]) = Owed(run[p])
    BY <2>2 DEF Owed
  <2>9. Owed(run[p]) \subseteq {i.id : i \in run'[p].todo}
    <3>1. CASE run[p].cmd.sel
      <4>1. run[p].chosen \subseteq RowsOf(file["full"].lines)
        BY <1>1, <2>1, <2>3, <2>7, <3>1 DEF WriterOwes
      <4>2. QED
        BY <2>4, <2>7, <3>1, <4>1, ReplaysCover
    <3>2. CASE ~run[p].cmd.sel
      BY <2>4, <3>2 DEF Owed
    <3>3. QED
      BY <3>1, <3>2
  <2> HIDE DEF q, s, n, pc, todo
  <2>10. QED
    BY <1>1, <2>1, <2>2, <2>3, <2>4, <2>7, <2>8, <2>9 DEF WriterOwes
<1>12. CASE SkipKnown(p)
  <2>1. PICK i \in run[p].todo :
          /\ run[p].pc = "work" /\ i.id \in Known(p) /\ UNCHANGED file
          /\ run' = [run EXCEPT ![p].todo = @ \ {i}]
    BY <1>12 DEF SkipKnown
  <2>2. run'[p] = [run[p] EXCEPT !.todo = run[p].todo \ {i}]
    BY <1>4, <2>1
  <2>3. Owed(run'[p]) = Owed(run[p])
    BY <1>4, <2>2 DEF Owed, RunState
  <2>4. Readable(file[o]) => i.id \in RecordIds(file[o].lines)
    BY <1>1, <1>5, <2>1 DEF WriterOwes, Known
  <2>5. \A x : x \in {j.id : j \in run[p].todo} => x = i.id \/ x \in {j.id : j \in run[p].todo \ {i}}
    OBVIOUS
  <2>6. /\ run'[p].pc = "work" /\ run'[p].cmd = run[p].cmd /\ run'[p].known = run[p].known
        /\ run'[p].written = run[p].written /\ run'[p].todo = run[p].todo \ {i}
    BY <1>4, <2>1, <2>2 DEF RunState
  <2>7. QED
    BY <1>1, <1>5, <2>1, <2>3, <2>4, <2>5, <2>6 DEF WriterOwes
<1>13. CASE AppendText(p)
  <2>1. PICK i \in run[p].todo :
          /\ run[p].pc = "work"
          /\ file' = [file EXCEPT ![o] = WriteText(@, NewRecord(p, i))]
          /\ run' = [run EXCEPT ![p].pc = "line", ![p].todo = @ \ {i}, ![p].pending = {i.id}]
    BY <1>13 DEF AppendText
  <2>2. /\ run'[p].pc = "line" /\ run'[p].cmd = run[p].cmd /\ run'[p].known = run[p].known
        /\ run'[p].written = run[p].written /\ run'[p].todo = run[p].todo \ {i}
        /\ run'[p].pending = {i.id} /\ run'[p].chosen = run[p].chosen
    BY <1>4, <2>1 DEF RunState
  <2>3. Owed(run'[p]) = Owed(run[p])
    BY <2>2 DEF Owed
  <2>4. Readable(file'[o]) => i.id \in RecordIds(file'[o].lines)
    <3>1. file'[o] = WriteText(file[o], NewRecord(p, i)) /\ file[o] \in JsonlFiles(Records)
      BY <1>1, <1>2, <2>1 DEF FilesTyped
    <3>2. SUFFICES ASSUME Readable(file'[o]) PROVE i.id \in RecordIds(file'[o].lines)
      OBVIOUS
    <3>3. file[o].tail = "none"
      BY <3>1, <3>2, SpoiltIsRefused DEF WriteText
    <3>4. file'[o].lines = Append(file[o].lines, NewRecord(p, i))
      BY <3>1, <3>3 DEF WriteText, JsonlFiles
    <3>5. NewRecord(p, i) \in Records /\ NewRecord(p, i).id = i.id /\ file[o].lines \in Seq(Records)
      BY <1>1, <1>2, <2>1, NewRecordTyped, RecordsTyped DEF FilesTyped, JsonlFiles
    <3>6. /\ Len(file[o].lines) + 1 \in DOMAIN file'[o].lines
          /\ file'[o].lines[Len(file[o].lines) + 1] = NewRecord(p, i)
      <4> DEFINE x == NewRecord(p, i)
                 old == file[o].lines
      <4>1. x \in Records /\ old \in Seq(Records)
        BY <3>5
      <4> HIDE DEF x, old
      <4>2. Len(old) + 1 \in DOMAIN Append(old, x) /\ Append(old, x)[Len(old) + 1] = x
        BY <4>1
      <4>3. QED
        BY <3>4, <4>2 DEF x, old
    <3>7. QED
      BY <3>5, <3>6 DEF RecordIds
  <2>5. \A x : x \in {j.id : j \in run[p].todo} => x = i.id \/ x \in {j.id : j \in run[p].todo \ {i}}
    OBVIOUS
  <2>6. QED
    BY <1>1, <1>3, <1>5, <2>1, <2>2, <2>3, <2>4, <2>5 DEF WriterOwes, Grown
<1>14. CASE AppendLineBreak(p)
  <2>1. /\ run[p].pc = "line"
        /\ run'[p].pc = "work" /\ run'[p].cmd = run[p].cmd /\ run'[p].known = run[p].known
        /\ run'[p].written = run[p].written \cup run[p].pending /\ run'[p].todo = run[p].todo
        /\ run'[p].chosen = run[p].chosen
    BY <1>4, <1>14 DEF AppendLineBreak, RunState
  <2>2. Owed(run'[p]) = Owed(run[p])
    BY <2>1 DEF Owed
  <2>3. QED
    BY <1>1, <1>3, <1>5, <2>1, <2>2 DEF WriterOwes, Grown
<1>15. CASE FinishRun(p)
  <2>1. /\ run[p].pc = "work" /\ run[p].todo = {} /\ UNCHANGED file
        /\ run'[p].pc = "ok" /\ run'[p].cmd = run[p].cmd /\ run'[p].chosen = run[p].chosen
    BY <1>4, <1>15 DEF FinishRun, Resting, RunState
  <2>2. Owed(run'[p]) = Owed(run[p])
    BY <2>1 DEF Owed
  <2>3. QED
    BY <1>1, <1>5, <2>1, <2>2 DEF WriterOwes
<1>16. CASE (WriteSelection(p) \/ Decide(p)) /\ ~Resting(p, "failed")
  <2>1. run[p].pc \in {"select", "decide"} /\ run'[p].cmd = run[p].cmd
    <3>1. PICK how : Resting(p, how)
      BY <1>16 DEF WriteSelection, Decide
    <3>2. run'[p].cmd = run[p].cmd
      BY <1>4, <3>1 DEF Resting, RunState
    <3>3. QED
      BY <1>16, <3>2 DEF WriteSelection, Decide
  <2>2. QED
    BY <1>1, <2>1 DEF WriterOwes
<1>17. QED
  BY <1>6, <1>7, <1>8, <1>9, <1>10, <1>11, <1>12, <1>13, <1>14, <1>15, <1>16
     DEF Step, RefuseDuplicate, StopInspection, RefuseInputs, Interrupt, InterruptText, InterruptSelection

LEMMA OwesInvStep ==
  ASSUME OwesInv, [Next]_vars
  PROVE  OwesInv'
<1>1. TypeOK' /\ RunsTyped
  BY StepTyped, TypeParts DEF OwesInv
<1>2. ASSUME NEW p \in Procs, NEW x \in Procs, Step(x), x # p PROVE run'[p] = run[p]
  <2>1. DOMAIN run = Procs
    BY <1>1 DEF RunsTyped
  <2>2. QED
    BY <1>2, <2>1 DEF Step, Start, LoadSelection, VerifyExisting, OpenWriter, ReadInput, SkipKnown,
       RefuseDuplicate, AppendText, AppendLineBreak, FinishRun, WriteSelection, StopInspection, Decide,
       RefuseInputs, Interrupt, InterruptText, InterruptSelection, Resting
<1>3. ASSUME NEW p \in Procs PROVE WriterOwes(p)'
  <2>1. CASE run'[p] = run[p]
    BY <2>1, OwesKept
  <2>2. CASE Step(p)
    BY <2>2, OwesStep
  <2>3. QED
    BY <1>2, <2>1, <2>2 DEF Next, EditConfig, vars
<1>4. QED
  BY <1>1, <1>3 DEF OwesInv

LEMMA OwesInvInit == Init => OwesInv
<1> SUFFICES ASSUME Init PROVE OwesInv
  OBVIOUS
<1>1. TypeOK
  BY InitTyped
<1>2. \A p \in Procs : run[p].pc = "idle"
  BY DEF Init, Fresh
<1>3. QED
  BY <1>1, <1>2 DEF OwesInv, WriterOwes

(* A generate or a replay of a selection that exits 0 leaves every record it *)
(* owed in its output, or an output no reader accepts: however it was        *)
(* resumed, and whatever overlapped it, was interrupted in its file or edited*)
(* the configuration meanwhile.                                              *)
THEOREM CompletedRunsAreWhole == Spec => []CompletedRunIsComplete
<1>1. OwesInv /\ [Next]_vars => OwesInv'
  BY OwesInvStep
<1>2. OwesInv => CompletedRunIsComplete
  BY DEF OwesInv, WriterOwes, CompletedRunIsComplete
<1>3. QED
  BY <1>1, <1>2, OwesInvInit, PTL DEF Spec

-------------------------------------------------------------------------------
(* The identities of probes.  What a step adds to a file is what its process *)
(* had to write.                                                             *)

LEMMA StepRange ==
  ASSUME TypeOK, NEW p \in Procs, Step(p), NEW q \in Paths,
         NEW r \in Range(file'[q].lines), r \notin Range(file[q].lines)
  PROVE  /\ run[p].pc = "work" /\ q = run[p].cmd.out
         /\ \E i \in run[p].todo : r = NewRecord(p, i)
<1> DEFINE o == run[p].cmd.out
<1>1. RunsTyped /\ FilesTyped /\ o \in Paths /\ file[o] \in JsonlFiles(RecordsOf(o))
  BY TypeParts, CommandsTyped, FileTyped DEF RunsTyped, RunState
<1>2. file'[q] # file[q]
  OBVIOUS
<1>3. AppendText(p) \/ AppendLineBreak(p) \/ InterruptText(p)
  BY <1>2 DEF Step, Start, LoadSelection, VerifyExisting, OpenWriter, ReadInput, SkipKnown,
     RefuseDuplicate, FinishRun, WriteSelection, StopInspection, Decide, RefuseInputs, Interrupt,
     InterruptSelection
<1>4. q = o
  BY <1>1, <1>2, <1>3 DEF AppendText, AppendLineBreak, InterruptText, FilesTyped
<1>5. CASE AppendText(p)
  <2>1. PICK i \in run[p].todo :
          run[p].pc = "work" /\ file' = [file EXCEPT ![o] = WriteText(@, NewRecord(p, i))]
    BY <1>5 DEF AppendText
  <2>2. file'[o] = WriteText(file[o], NewRecord(p, i))
    BY <1>1, <2>1 DEF FilesTyped
  <2>3. NewRecord(p, i) \in RecordsOf(o)
    BY <2>1, NewRecordTyped
  <2>4. Range(file'[o].lines) \subseteq Range(file[o].lines) \cup {NewRecord(p, i)}
    BY <1>1, <2>2, <2>3, WriteTextRange
  <2>5. QED
    BY <1>4, <2>1, <2>4
<1>6. CASE AppendLineBreak(p)
  <2>1. file'[o] = WriteLineBreak(file[o])
    BY <1>1, <1>6 DEF AppendLineBreak, FilesTyped
  <2>2. file'[o].lines = file[o].lines
    BY <1>1, <2>1, WriteLineBreakTyped
  <2>3. QED
    BY <1>4, <2>2
<1>7. CASE InterruptText(p)
  <2>1. file'[o] = SpoilTail(file[o])
    BY <1>1, <1>7 DEF InterruptText, TearText, FilesTyped
  <2>2. Range(file'[o].lines) \subseteq Range(file[o].lines)
    BY <1>1, <2>1, SpoilTailRange
  <2>3. QED
    BY <1>4, <2>2
<1>8. QED
  BY <1>3, <1>5, <1>6, <1>7

LEMMA IdentitiesOf ==
  ASSUME NEW s
  PROVE  Identities(s) = {r.by : r \in Range(s)}
BY DEF Identities, Range

OneIdentity(q) == \A a, b \in Range(file[q].lines) : a.by = b.by

(* Past its verification a replay has only records of its own identity in    *)
(* front of it.                                                              *)
ReplayVerified(p) ==
  run[p].cmd.kind = "replay" /\ run[p].pc \in {"open", "read", "work", "line"} =>
    \A a \in Range(file[run[p].cmd.out].lines) : a.by = run[p].stamp

IdentityInv ==
  /\ TypeOK
  /\ \A p \in Procs : ReplayVerified(p)
  /\ \A q \in ProbeFiles : OneIdentity(q)

(* How a replay gets past its verification.                                  *)
LEMMA VerifiedStep ==
  ASSUME TypeOK, NEW p \in Procs, Step(p), run'[p].cmd.kind = "replay",
         run'[p].pc \in {"open", "read", "work", "line"}
  PROVE  /\ run'[p].cmd = run[p].cmd /\ run'[p].stamp = run[p].stamp
         /\ \/ /\ run[p].pc = "verify" /\ UNCHANGED file
               /\ \A a \in Range(file[run[p].cmd.out].lines) : a.by = run[p].stamp
            \/ run[p].pc \in {"open", "read", "work", "line"}
<1>1. RunsTyped /\ DOMAIN run = Procs /\ run[p] \in RunState
  BY TypeParts DEF RunsTyped
<1>2. \A how \in Outcomes : ~Resting(p, how)
  <2> SUFFICES ASSUME NEW how \in Outcomes, Resting(p, how) PROVE FALSE
    OBVIOUS
  <2>1. run'[p].pc = how
    BY <1>1 DEF Resting, RunState
  <2>2. QED
    BY <2>1 DEF Outcomes
<1>3. \A c \in Commands : ~Start(p, c)
  <2> SUFFICES ASSUME NEW c \in Commands, Start(p, c) PROVE FALSE
    OBVIOUS
  <2>1. run'[p].pc = FirstStep(c) /\ run'[p].cmd = c
    BY <1>1 DEF Start, Fresh
  <2>2. QED
    BY <2>1 DEF FirstStep, AfterSelection
<1>4. CASE LoadSelection(p)
  <2>1. run' = [run EXCEPT ![p].pc = AfterSelection(run[p].cmd), ![p].chosen = selection.rows]
    BY <1>2, <1>4 DEF LoadSelection, Outcomes
  <2>2. run'[p].pc = AfterSelection(run[p].cmd) /\ run'[p].cmd = run[p].cmd
    BY <1>1, <2>1 DEF RunState
  <2>3. QED
    BY <2>2 DEF AfterSelection
<1>5. CASE VerifyExisting(p)
  <2>1. /\ run[p].pc = "verify" /\ UNCHANGED file
        /\ MustVerify(run[p].cmd) => ResumesSafely(file[run[p].cmd.out], run[p].stamp)
        /\ run'[p].cmd = run[p].cmd /\ run'[p].stamp = run[p].stamp
    BY <1>1, <1>2, <1>5 DEF VerifyExisting, Outcomes, RunState
  <2>2. Identities(file[run[p].cmd.out].lines) \subseteq {run[p].stamp}
    BY <2>1 DEF MustVerify, ResumesSafely
  <2>3. QED
    BY <2>1, <2>2, IdentitiesOf
<1>6. CASE OpenWriter(p)
  <2>1. run[p].pc = "open" /\ run'[p].cmd = run[p].cmd /\ run'[p].stamp = run[p].stamp
    BY <1>1, <1>2, <1>6 DEF OpenWriter, Outcomes, RunState
  <2>2. QED
    BY <2>1
<1>7. CASE ReadInput(p)
  <2> DEFINE q == ReadOrder(run[p].cmd)[run[p].step]
  <2> DEFINE s == file[q].lines
  <2> DEFINE more == run[p].step < Len(ReadOrder(run[p].cmd))
  <2> DEFINE n == IF more THEN run[p].step + 1 ELSE run[p].step
  <2> DEFINE pc == IF more THEN "read" ELSE AfterReading(run[p].cmd)
  <2> DEFINE todo == IF run[p].cmd.kind = "replay" THEN Replays(run[p], s) ELSE {}
  <2>1. /\ run' = [run EXCEPT ![p].seen[q] = s, ![p].step = n, ![p].pc = pc, ![p].todo = todo]
        /\ run[p].pc = "read"
    BY <1>2, <1>7 DEF ReadInput, Outcomes
  <2> HIDE DEF q, s, n, pc, todo
  <2>2. run'[p].cmd = run[p].cmd /\ run'[p].stamp = run[p].stamp
    BY <1>1, <2>1 DEF RunState
  <2>3. QED
    BY <2>1, <2>2
<1>8. CASE SkipKnown(p) \/ AppendText(p) \/ AppendLineBreak(p)
  <2>1. run'[p].cmd = run[p].cmd /\ run'[p].stamp = run[p].stamp
    <3>1. CASE SkipKnown(p)
      BY <1>1, <3>1 DEF SkipKnown, RunState
    <3>2. CASE AppendText(p)
      BY <1>1, <3>2 DEF AppendText, RunState
    <3>3. CASE AppendLineBreak(p)
      BY <1>1, <3>3 DEF AppendLineBreak, RunState
    <3>4. QED
      BY <1>8, <3>1, <3>2, <3>3
  <2>2. run[p].pc \in {"work", "line"}
    BY <1>8 DEF SkipKnown, AppendText, AppendLineBreak
  <2>3. QED
    BY <2>1, <2>2
<1>9. QED
  BY <1>2, <1>3, <1>4, <1>5, <1>6, <1>7, <1>8 DEF Step, RefuseDuplicate, FinishRun, WriteSelection,
     StopInspection, Decide, RefuseInputs, Interrupt, InterruptText, InterruptSelection, Outcomes

LEMMA IdentityStep ==
  ASSUME IdentityInv, NEW p \in Procs, Step(p)
  PROVE  /\ ReplayVerified(p)'
         /\ \A q \in ProbeFiles : OneIdentity(q)'
<1>1. TypeOK /\ RunsTyped /\ run[p] \in RunState /\ run[p].cmd.out \in Paths
  BY TypeParts, CommandsTyped DEF IdentityInv, RunsTyped, RunState
<1>2. ASSUME run[p].pc = "work", run[p].cmd.out \in ProbeFiles
      PROVE  run[p].cmd.kind = "replay"
  <2>1. WritesRecords(run[p].cmd)
    BY <1>1, <1>2 DEF RunsTyped, RunOK
  <2>2. QED
    BY <1>1, <1>2, <2>1, CommandsTyped DEF WritesRecords, RunState, Natural, ProbeFiles
<1>3. ASSUME run[p].cmd.kind = "replay", run[p].pc = "work", NEW i \in run[p].todo
      PROVE  NewRecord(p, i).by = run[p].stamp
  BY <1>3 DEF NewRecord, Claimed
<1>4. ASSUME NEW q \in ProbeFiles PROVE OneIdentity(q)'
  <2>0. q \in Paths
    BY DEF Paths
  <2>1. OneIdentity(q)
    BY DEF IdentityInv
  <2>2. CASE Range(file'[q].lines) \subseteq Range(file[q].lines)
    BY <2>1, <2>2 DEF OneIdentity
  <2>3. CASE ~(Range(file'[q].lines) \subseteq Range(file[q].lines))
    <3>1. /\ run[p].pc = "work" /\ q = run[p].cmd.out
          /\ \A r \in Range(file'[q].lines) : r \in Range(file[q].lines)
               \/ \E i \in run[p].todo : r = NewRecord(p, i)
      BY <1>1, <2>0, <2>3, StepRange
    <3>2. run[p].cmd.kind = "replay"
      BY <1>2, <3>1
    <3>3. \A a \in Range(file[q].lines) : a.by = run[p].stamp
      BY <3>1, <3>2 DEF IdentityInv, ReplayVerified
    <3>4. \A a \in Range(file'[q].lines) : a.by = run[p].stamp
      BY <1>3, <3>1, <3>2, <3>3
    <3>5. QED
      BY <3>4 DEF OneIdentity
  <2>4. QED
    BY <2>2, <2>3
<1>5. ReplayVerified(p)'
  <2> SUFFICES ASSUME run'[p].cmd.kind = "replay", run'[p].pc \in {"open", "read", "work", "line"}
               PROVE  \A a \in Range(file'[run'[p].cmd.out].lines) : a.by = run'[p].stamp
    BY DEF ReplayVerified
  <2>1. /\ run'[p].cmd = run[p].cmd /\ run'[p].stamp = run[p].stamp
        /\ \/ /\ run[p].pc = "verify" /\ UNCHANGED file
              /\ \A a \in Range(file[run[p].cmd.out].lines) : a.by = run[p].stamp
           \/ run[p].pc \in {"open", "read", "work", "line"}
    BY <1>1, VerifiedStep
  <2>2. CASE run[p].pc = "verify"
    BY <2>1, <2>2
  <2>3. CASE run[p].pc \in {"open", "read", "work", "line"}
    <3>1. \A a \in Range(file[run[p].cmd.out].lines) : a.by = run[p].stamp
      BY <2>1, <2>3 DEF IdentityInv, ReplayVerified
    <3>2. ASSUME NEW a \in Range(file'[run[p].cmd.out].lines),
                 a \notin Range(file[run[p].cmd.out].lines)
          PROVE  a.by = run[p].stamp
      <4>1. run[p].pc = "work" /\ \E i \in run[p].todo : a = NewRecord(p, i)
        BY <1>1, <3>2, StepRange
      <4>2. QED
        BY <1>3, <2>1, <4>1
    <3>3. QED
      BY <2>1, <3>1, <3>2
  <2>4. QED
    BY <2>1, <2>2, <2>3
<1>6. QED
  BY <1>4, <1>5

LEMMA IdentityInvStep ==
  ASSUME \A x, y \in Procs : x = y, IdentityInv, [Next]_vars
  PROVE  IdentityInv'
<1>1. TypeOK'
  BY StepTyped DEF IdentityInv
<1>2. CASE UNCHANGED vars \/ EditConfig
  BY <1>1, <1>2 DEF IdentityInv, vars, EditConfig, OneIdentity, ReplayVerified
<1>3. ASSUME NEW p \in Procs, Step(p) PROVE IdentityInv'
  <2>1. \A x \in Procs : x = p
    OBVIOUS
  <2>2. QED
    BY <1>1, <1>3, <2>1, IdentityStep DEF IdentityInv
<1>4. QED
  BY <1>2, <1>3 DEF Next

LEMMA IdentityInvInit == Init => IdentityInv
<1> SUFFICES ASSUME Init PROVE IdentityInv
  OBVIOUS
<1>1. TypeOK
  BY InitTyped
<1>2. \A q \in Paths : Range(file[q].lines) = {}
  BY DEF Init, NoRecords, Range
<1>3. \A p \in Procs : run[p].pc = "idle"
  BY DEF Init, Fresh
<1>4. QED
  BY <1>1, <1>2, <1>3 DEF IdentityInv, OneIdentity, ReplayVerified, Paths

(* While commands do not overlap, a probe file never mixes the records of    *)
(* two configurations, with or without --resume and even when the            *)
(* configuration is edited under a running replay: every replay verifies     *)
(* what is there against the identity it writes under.                       *)
THEOREM ProbeFilesHaveOneIdentity ==
  ASSUME \A x, y \in Procs : x = y
  PROVE  Spec => []ProbesHaveOneIdentity
<1>1. IdentityInv /\ [Next]_vars => IdentityInv'
  BY IdentityInvStep
<1>2. IdentityInv => ProbesHaveOneIdentity
  <2> SUFFICES ASSUME IdentityInv, NEW q \in ProbeFiles
               PROVE  Cardinality(Identities(file[q].lines)) <= 1
    BY DEF ProbesHaveOneIdentity
  <2> DEFINE S == {r.by : r \in Range(file[q].lines)}
  <2>1. \A a, b \in S : a = b
    BY DEF IdentityInv, OneIdentity
  <2>2. S = {} \/ \E x : S = {x}
    BY <2>1
  <2> HIDE DEF S
  <2>3. Cardinality(S) \in {0, 1}
    BY <2>2, FS_EmptySet, FS_Singleton
  <2>4. Identities(file[q].lines) = S
    BY IdentitiesOf DEF S
  <2>5. QED
    BY <2>3, <2>4
<1>3. QED
  BY <1>1, <1>2, IdentityInvInit, PTL DEF Spec

-------------------------------------------------------------------------------
(* The accepted probes.  Every probe is of a trace of the file it was        *)
(* replayed from, a selection holds the rows the rule gives for the traces it*)
(* names, and what a command has read is what the files still hold.          *)

Traced(o) == Readable(file["full"]) => \E b \in Range(file["full"].lines) : o = <<b>>

TracesExist ==
  /\ \A q \in ProbeFiles : \A r \in Range(file[q].lines) : Traced(r.of)
  /\ \A p \in Procs : run[p].cmd.kind = "replay" => \A i \in run[p].todo : Traced(i.of)

SelectionFollowsRule ==
  selection.status = "whole" => selection.rows = SelectRows(selection.base.lines, selection.cap)

ReadSo(p, i) ==
  LET q == ReadOrder(run[p].cmd)[i] IN
  Readable(file[q]) /\ run[p].seen[q] = file[q].lines

ReadState(p) ==
  LET r == run[p] IN
  /\ r.pc \in {"selection", "verify", "open"} => r.step = 1
  /\ r.pc \in {"selection", "read"} => r.cmd.kind # "generate"
  /\ r.pc = "select" => r.cmd.kind = "inspect"
  /\ r.pc = "decide" => r.cmd.kind \in {"accuracy", "analyze"}
  /\ r.pc = "read" => \A i \in 1..(r.step - 1) : ReadSo(p, i)
  /\ r.pc \in {"select", "decide"} => \A i \in 1..Len(ReadOrder(r.cmd)) : ReadSo(p, i)
  /\ r.cmd.kind = "analyze" /\ r.cmd.sel /\ r.pc \in {"read", "decide"} =>
       r.chosen = SelectRows(file["full"].lines, MaxSelected)

ProbesInv ==
  /\ GateInv
  /\ TracesExist
  /\ SelectionFollowsRule
  /\ \A p \in Procs : ReadState(p)
  /\ AcceptedProbes

LEMMA ReadInputStates ==
  ASSUME TypeOK, NEW p \in Procs, ReadState(p), ReadInput(p), ~Resting(p, "failed")
  PROVE  ReadState(p)'
<1>1. RunsTyped /\ run[p] \in RunState /\ run[p].cmd \in CommandLines
  BY TypeParts DEF RunsTyped, RunState
<1> DEFINE c == run[p].cmd
           m == run[p].step
           q == ReadOrder(c)[m]
           s == file[q].lines
           more == m < Len(ReadOrder(c))
           n == IF more THEN m + 1 ELSE m
           pc == IF more THEN "read" ELSE AfterReading(c)
           todo == IF c.kind = "replay" THEN Replays(run[p], s) ELSE {}
<1>2. /\ run' = [run EXCEPT ![p].seen[q] = s, ![p].step = n, ![p].pc = pc, ![p].todo = todo]
      /\ run[p].pc = "read" /\ UNCHANGED file /\ Readable(file[q])
  BY DEF ReadInput
<1>3. /\ run'[p].pc = pc /\ run'[p].step = n /\ run'[p].cmd = c
      /\ run'[p].chosen = run[p].chosen
      /\ run'[p].seen = [run[p].seen EXCEPT ![q] = s]
  <2> HIDE DEF q, s, n, pc, todo
  <2>1. QED
    BY <1>1, <1>2 DEF RunsTyped, RunState
<1>4. /\ Len(ReadOrder(c)) \in 1..4 /\ m \in 1..4 /\ m <= Len(ReadOrder(c))
      /\ \A i \in 1..Len(ReadOrder(c)) : ReadOrder(c)[i] \in Paths
  BY <1>1, ReadOrderTyped DEF RunsTyped, RunOK, RunState
<1>5. c.kind # "generate" /\ \A i \in 1..(m - 1) : ReadSo(p, i)
  BY <1>2 DEF ReadState
<1>6. ASSUME NEW i \in 1..m
      PROVE  /\ Readable(file'[ReadOrder(c)[i]])
             /\ run'[p].seen[ReadOrder(c)[i]] = file'[ReadOrder(c)[i]].lines
  <2> DEFINE x == ReadOrder(c)[i]
  <2>1. x \in Paths /\ run[p].seen \in [Paths -> Seq(Records)]
    BY <1>1, <1>4 DEF RunState
  <2>2. CASE x = q
    <3>1. s = file'[x].lines /\ Readable(file'[x])
      BY <1>2, <2>2
    <3>2. run'[p].seen[x] = s
      <4> HIDE DEF x, q, s
      <4>1. QED
        BY <1>3, <2>1, <2>2
    <3>3. QED
      BY <3>1, <3>2
  <2>3. CASE x # q
    <3>1. i \in 1..(m - 1)
      BY <1>4, <2>3
    <3>2. Readable(file[x]) /\ run[p].seen[x] = file[x].lines
      BY <1>5, <3>1 DEF ReadSo
    <3>3. run'[p].seen[x] = run[p].seen[x] /\ file' = file
      <4> HIDE DEF x, q, s
      <4>1. QED
        BY <1>2, <1>3, <2>1, <2>3
    <3>4. QED
      BY <3>2, <3>3
  <2>4. QED
    BY <2>2, <2>3
<1>7. CASE more
  <2>1. run'[p].pc = "read" /\ run'[p].step = m + 1 /\ (m + 1) - 1 = m
    BY <1>3, <1>4, <1>7
  <2>2. \A i \in 1..(run'[p].step - 1) : ReadSo(p, i)'
    BY <1>3, <1>6, <2>1 DEF ReadSo
  <2>3. /\ c.kind = "analyze" /\ c.sel => run[p].chosen = SelectRows(file["full"].lines, MaxSelected)
    BY <1>2 DEF ReadState
  <2> HIDE DEF c, m, q, s, more, n, pc, todo
  <2>4. QED
    BY <1>2, <1>3, <1>5, <2>1, <2>2, <2>3 DEF ReadState
<1>8. CASE ~more
  <2>1. run'[p].pc = AfterReading(c) /\ m = Len(ReadOrder(c))
    BY <1>3, <1>4, <1>8
  <2>2. \A i \in 1..Len(ReadOrder(run'[p].cmd)) : ReadSo(p, i)'
    BY <1>3, <1>6, <2>1 DEF ReadSo
  <2>3. /\ c.kind = "analyze" /\ c.sel => run[p].chosen = SelectRows(file["full"].lines, MaxSelected)
    BY <1>2 DEF ReadState
  <2>4. c.kind \in {"replay", "inspect", "accuracy", "analyze"}
    BY <1>1, <1>5, CommandsTyped
  <2>5. /\ run'[p].pc \in {"work", "select", "decide"}
        /\ run'[p].pc = "select" => c.kind = "inspect"
        /\ run'[p].pc = "decide" => c.kind \in {"accuracy", "analyze"}
    <3> HIDE DEF c
    <3>1. QED
      BY <2>1, <2>4 DEF AfterReading
  <2>6. file' = file /\ run'[p].cmd = c /\ run'[p].chosen = run[p].chosen
    BY <1>2, <1>3
  <2> HIDE DEF c, m, q, s, more, n, pc, todo
  <2>7. QED
    BY <2>2, <2>3, <2>5, <2>6 DEF ReadState
<1>9. QED
  BY <1>7, <1>8

LEMMA StepReads ==
  ASSUME TypeOK, SelectionFollowsRule, NEW p \in Procs, ReadState(p), Step(p)
  PROVE  ReadState(p)'
<1>1. RunsTyped /\ DOMAIN run = Procs /\ run[p] \in RunState
  BY TypeParts DEF RunsTyped
<1>2. CASE \E how \in Outcomes : Resting(p, how)
  <2>1. run'[p].pc \in Outcomes
    BY <1>1, <1>2 DEF Resting, RunState
  <2>2. QED
    BY <2>1 DEF ReadState, Outcomes
<1>3. CASE \E c \in Commands : Start(p, c)
  <2>1. PICK c \in Commands : run' = [run EXCEPT ![p] = Fresh(FirstStep(c), c, config)]
    BY <1>3 DEF Start
  <2>2. run'[p].pc = FirstStep(c) /\ run'[p].cmd = c /\ run'[p].step = 1
    BY <1>1, <2>1 DEF Fresh
  <2>3. \A i \in 1..(run'[p].step - 1) : FALSE
    BY <2>2
  <2>4. /\ FirstStep(c) \in {"verify", "selection", "read"}
        /\ FirstStep(c) = "read" => ~c.sel
        /\ c.kind = "generate" => FirstStep(c) = "verify"
    BY DEF FirstStep, AfterSelection
  <2>5. QED
    BY <2>2, <2>3, <2>4 DEF ReadState
<1>4. CASE LoadSelection(p)
  <2>1. CASE ~Resting(p, "failed")
    <3>1. /\ SelectionFits /\ run[p].pc = "selection" /\ UNCHANGED file
          /\ run' = [run EXCEPT ![p].pc = AfterSelection(run[p].cmd), ![p].chosen = selection.rows]
      BY <1>4, <2>1 DEF LoadSelection
    <3>2. /\ run'[p].pc = AfterSelection(run[p].cmd) /\ run'[p].chosen = selection.rows
          /\ run'[p].cmd = run[p].cmd /\ run'[p].step = run[p].step
      BY <1>1, <3>1 DEF RunState
    <3>3. run[p].step = 1 /\ run[p].cmd.kind # "generate"
      BY <3>1 DEF ReadState
    <3>4. selection.rows = SelectRows(file["full"].lines, MaxSelected)
      BY <3>1 DEF SelectionFits, SelectionFollowsRule
    <3>5. \A i \in 1..(run'[p].step - 1) : FALSE
      BY <3>2, <3>3
    <3>6. run'[p].pc \in {"verify", "read"}
      BY <3>2 DEF AfterSelection
    <3>7. QED
      BY <3>1, <3>2, <3>3, <3>4, <3>5, <3>6 DEF ReadState
  <2>2. QED
    BY <1>2, <2>1 DEF Outcomes
<1>5. CASE VerifyExisting(p) \/ OpenWriter(p)
  <2>1. CASE ~Resting(p, "failed")
    <3>1. run[p].pc \in {"verify", "open"}
      BY <1>5 DEF VerifyExisting, OpenWriter
    <3>2. run[p].step = 1 /\ WritesRecords(run[p].cmd)
      BY <1>1, <3>1 DEF ReadState, RunsTyped, RunOK
    <3>3. run'[p].cmd = run[p].cmd /\ run'[p].step = run[p].step
      BY <1>1, <1>5, <2>1 DEF VerifyExisting, OpenWriter, RunState
    <3>4. run'[p].pc = "open" \/ run'[p].pc = (IF run[p].cmd.kind = "generate" THEN "work" ELSE "read")
      <4>1. CASE VerifyExisting(p)
        BY <1>1, <2>1, <4>1 DEF VerifyExisting, RunState
      <4>2. CASE OpenWriter(p)
        <5> DEFINE pc == IF run[p].cmd.kind = "generate" THEN "work" ELSE "read"
        <5> DEFINE ids == RecordIds(file[run[p].cmd.out].lines)
        <5> DEFINE new == IF run[p].cmd.kind = "generate"
                          THEN [id : run[p].cmd.rows \X {"base"}, of : {<< >>}] ELSE {}
        <5>1. run' = [run EXCEPT ![p].pc = pc, ![p].written = ids, ![p].todo = new]
          BY <2>1, <4>2 DEF OpenWriter
        <5> HIDE DEF pc, ids, new
        <5>2. run'[p].pc = pc
          BY <1>1, <5>1 DEF RunState
        <5>3. QED
          BY <5>2 DEF pc
      <4>3. QED
        BY <1>5, <4>1, <4>2
    <3>5. \A i \in 1..(run'[p].step - 1) : FALSE
      BY <3>2, <3>3
    <3>6. QED
      BY <3>2, <3>3, <3>4, <3>5 DEF ReadState, WritesRecords
  <2>2. QED
    BY <1>2, <2>1 DEF Outcomes
<1>6. CASE ReadInput(p)
  BY <1>2, <1>6, ReadInputStates DEF Outcomes
<1>7. CASE SkipKnown(p) \/ AppendText(p) \/ AppendLineBreak(p)
  <2>1. run'[p].pc \in {"work", "line"}
    <3>1. CASE SkipKnown(p)
      BY <1>1, <3>1 DEF SkipKnown, RunState
    <3>2. CASE AppendText(p)
      BY <1>1, <3>2 DEF AppendText, RunState
    <3>3. CASE AppendLineBreak(p)
      BY <1>1, <3>3 DEF AppendLineBreak, RunState
    <3>4. QED
      BY <1>7, <3>1, <3>2, <3>3
  <2>2. QED
    BY <2>1 DEF ReadState
<1>8. QED
  BY <1>2, <1>3, <1>4, <1>5, <1>6, <1>7 DEF Step, RefuseDuplicate, FinishRun, WriteSelection,
     StopInspection, Decide, RefuseInputs, Interrupt, InterruptText, InterruptSelection, Outcomes

LEMMA StepTraces ==
  ASSUME TypeOK, TypeOK', NEW p \in Procs, Step(p), TracesExist, ReadState(p)
  PROVE  /\ \A q \in ProbeFiles : \A r \in Range(file'[q].lines) : Traced(r.of)'
         /\ run'[p].cmd.kind = "replay" => \A i \in run'[p].todo : Traced(i.of)'
<1>1. RunsTyped /\ DOMAIN run = Procs /\ run[p] \in RunState /\ "full" \in Paths /\ [Next]_vars
  BY TypeParts DEF RunsTyped, Paths, Natural, Next
<1>2. Grown("full")
  BY <1>1, StepGrown DEF Grown
<1>3. ASSUME NEW o, Traced(o) PROVE Traced(o)'
  BY <1>2, <1>3 DEF Traced, Grown
<1>4. ASSUME NEW q \in ProbeFiles, NEW r \in Range(file'[q].lines) PROVE Traced(r.of)'
  <2>1. CASE r \in Range(file[q].lines)
    BY <1>3, <2>1 DEF TracesExist
  <2>2. CASE r \notin Range(file[q].lines)
    <3>1. /\ run[p].pc = "work" /\ q = run[p].cmd.out
          /\ \E i \in run[p].todo : r = NewRecord(p, i)
      BY <1>1, <2>2, StepRange DEF Paths
    <3>2. run[p].cmd.kind = "replay"
      <4>1. WritesRecords(run[p].cmd)
        BY <1>1, <3>1 DEF RunsTyped, RunOK
      <4>2. QED
        BY <1>1, <3>1, <4>1, CommandsTyped DEF WritesRecords, RunState, Natural, ProbeFiles
    <3>3. PICK i \in run[p].todo : r.of = i.of
      BY <3>1 DEF NewRecord
    <3>4. Traced(r.of)
      BY <3>2, <3>3 DEF TracesExist
    <3>5. QED
      BY <1>3, <3>4
  <2>3. QED
    BY <2>1, <2>2
<1>5. ASSUME run'[p].cmd.kind = "replay", NEW i \in run'[p].todo PROVE Traced(i.of)'
  <2>1. CASE run'[p].cmd = run[p].cmd /\ run'[p].todo \subseteq run[p].todo
    BY <1>3, <1>5, <2>1 DEF TracesExist
  <2>2. CASE run'[p].todo = {}
    BY <1>5, <2>2
  <2>3. CASE \E how : Resting(p, how)
    BY <1>1, <2>2, <2>3 DEF Resting, RunState
  <2>4. CASE \E c \in Commands : Start(p, c)
    BY <1>1, <2>2, <2>4 DEF Start, Fresh
  <2>5. CASE LoadSelection(p) \/ VerifyExisting(p)
    <3>1. ~(\E how : Resting(p, how)) => run'[p].cmd = run[p].cmd /\ run'[p].todo = run[p].todo
      BY <1>1, <2>5 DEF LoadSelection, VerifyExisting, RunState
    <3>2. QED
      BY <2>1, <2>3, <3>1
  <2>6. CASE OpenWriter(p)
    <3>1. CASE ~(\E how : Resting(p, how))
      <4> DEFINE pc == IF run[p].cmd.kind = "generate" THEN "work" ELSE "read"
      <4> DEFINE ids == RecordIds(file[run[p].cmd.out].lines)
      <4> DEFINE new == IF run[p].cmd.kind = "generate"
                        THEN [id : run[p].cmd.rows \X {"base"}, of : {<< >>}] ELSE {}
      <4>1. run' = [run EXCEPT ![p].pc = pc, ![p].written = ids, ![p].todo = new]
        BY <2>6, <3>1 DEF OpenWriter
      <4> HIDE DEF pc, ids, new
      <4>2. run'[p].todo = new /\ run'[p].cmd = run[p].cmd
        BY <1>1, <4>1 DEF RunState
      <4>3. new = {}
        BY <1>5, <4>2 DEF new
      <4>4. QED
        BY <2>2, <4>2, <4>3
    <3>2. QED
      BY <2>3, <3>1
  <2>7. CASE ReadInput(p)
    <3>1. CASE ~(\E how : Resting(p, how))
      <4> DEFINE q == ReadOrder(run[p].cmd)[run[p].step]
      <4> DEFINE s == file[q].lines
      <4> DEFINE more == run[p].step < Len(ReadOrder(run[p].cmd))
      <4> DEFINE n == IF more THEN run[p].step + 1 ELSE run[p].step
      <4> DEFINE pc == IF more THEN "read" ELSE AfterReading(run[p].cmd)
      <4> DEFINE todo == IF run[p].cmd.kind = "replay" THEN Replays(run[p], s) ELSE {}
      <4>1. /\ run' = [run EXCEPT ![p].seen[q] = s, ![p].step = n, ![p].pc = pc, ![p].todo = todo]
            /\ UNCHANGED file
        BY <2>7, <3>1 DEF ReadInput
      <4>2. run'[p].todo = todo /\ run'[p].cmd = run[p].cmd
        <5> HIDE DEF q, s, n, pc, todo
        <5>1. QED
          BY <1>1, <4>1 DEF RunState
      <4>3. run[p].cmd.kind = "replay"
        BY <1>5, <4>2
      <4>4. q = "full"
        <5>1. Len(ReadOrder(run[p].cmd)) = 1 /\ ReadOrder(run[p].cmd)[1] = "full"
          BY <1>1, <4>3, ReadOrderTyped DEF RunState
        <5>2. run[p].step \in 1..4 /\ run[p].step <= Len(ReadOrder(run[p].cmd))
          BY <1>1 DEF RunsTyped, RunOK, RunState
        <5>3. run[p].step = 1
          BY ONLY <5>1, <5>2, SMT
        <5>4. QED
          BY <5>1, <5>3
      <4>5. i \in Replays(run[p], file["full"].lines)
        BY <1>5, <4>2, <4>3, <4>4
      <4>6. \E b \in Range(file["full"].lines) : i.of = <<b>>
        BY <4>5 DEF Replays
      <4>7. QED
        BY <4>1, <4>6 DEF Traced
    <3>2. QED
      BY <2>3, <3>1
  <2>8. CASE SkipKnown(p) \/ AppendText(p) \/ AppendLineBreak(p)
    <3>1. run'[p].cmd = run[p].cmd /\ run'[p].todo \subseteq run[p].todo
      <4>1. CASE SkipKnown(p)
        BY <1>1, <4>1 DEF SkipKnown, RunState
      <4>2. CASE AppendText(p)
        BY <1>1, <4>2 DEF AppendText, RunState
      <4>3. CASE AppendLineBreak(p)
        BY <1>1, <4>3 DEF AppendLineBreak, RunState
      <4>4. QED
        BY <2>8, <4>1, <4>2, <4>3
    <3>2. QED
      BY <2>1, <3>1
  <2>9. QED
    BY <2>3, <2>4, <2>5, <2>6, <2>7, <2>8 DEF Step, RefuseDuplicate, FinishRun, WriteSelection,
       StopInspection, Decide, RefuseInputs, Interrupt, InterruptText, InterruptSelection
<1>6. QED
  BY <1>4, <1>5

LEMMA StepSelection ==
  ASSUME TypeOK, SelectionFollowsRule, NEW p \in Procs, ReadState(p), Step(p)
  PROVE  SelectionFollowsRule'
<1>1. CASE WriteSelection(p)
  <2>1. Len(ReadOrder(run[p].cmd)) = 1 /\ ReadOrder(run[p].cmd)[1] = "full"
    BY <1>1 DEF WriteSelection, ReadState, ReadOrder
  <2>2. run[p].seen["full"] = file["full"].lines
    BY <1>1, <2>1 DEF WriteSelection, ReadState, ReadSo
  <2>3. /\ selection'.rows = SelectRows(run[p].seen["full"], run[p].cmd.cap)
        /\ selection'.base = file["full"] /\ selection'.cap = run[p].cmd.cap
    BY <1>1 DEF WriteSelection
  <2>4. QED
    BY <2>2, <2>3 DEF SelectionFollowsRule, SelectRows
<1>2. CASE InterruptSelection(p)
  BY <1>2 DEF InterruptSelection, SelectionFollowsRule
<1>3. CASE UNCHANGED selection
  BY <1>3 DEF SelectionFollowsRule, SelectRows
<1>4. QED
  BY <1>1, <1>2, <1>3 DEF Step, Start, LoadSelection, VerifyExisting, OpenWriter, ReadInput, SkipKnown,
     RefuseDuplicate, AppendText, AppendLineBreak, FinishRun, StopInspection, Decide, RefuseInputs,
     Interrupt, InterruptText

(* The rows a selection keeps of the whole population are the pre-registered *)
(* ones.                                                                     *)
LEMMA RuleOnPopulation ==
  ASSUME NEW s, RecordIds(s) = Rows \X {"base"}, NEW n \in Nat
  PROVE  SelectRows(s, n) = FirstEligible(Rows, n)
<1> DEFINE E == Rows \cap Eligible
<1>1. RowsOf(s) = Rows
  <2>1. ASSUME NEW x PROVE x \in RowsOf(s) <=> x \in Rows
    <3>1. x \in RowsOf(s) <=> \E y \in RecordIds(s) : x = y[1]
      BY DEF RowsOf, RecordIds, Row
    <3>2. (\E y \in Rows \X {"base"} : x = y[1]) <=> x \in Rows
      <4>1. ASSUME x \in Rows PROVE \E y \in Rows \X {"base"} : x = y[1]
        <5>1. <<x, "base">> \in Rows \X {"base"} /\ <<x, "base">>[1] = x
          BY <4>1
        <5>2. QED
          BY <5>1
      <4>2. QED
        BY <4>1
    <3>3. QED
      BY <3>1, <3>2
  <2>2. QED
    BY <2>1
<1>2. IsFiniteSet(E) /\ E \subseteq Nat
  BY ScreenAssumption, FS_Subset
<1>3. ASSUME NEW r \in E
      PROVE  Cardinality({q \in E : q <= r}) <= n <=> Cardinality({q \in E : q < r}) < n
  <2> DEFINE B == {q \in E : q < r}
  <2>1. IsFiniteSet(B) /\ r \notin B
    BY <1>2, <1>3, FS_Subset
  <2>2. {q \in E : q <= r} = B \cup {r}
    BY <1>2, <1>3
  <2>3. Cardinality(B \cup {r}) = Cardinality(B) + 1 /\ Cardinality(B) \in Nat
    BY <2>1, FS_AddElement, FS_CardinalityType
  <2>4. Cardinality({q \in E : q <= r}) = Cardinality(B) + 1
    BY <2>2, <2>3
  <2> HIDE DEF B
  <2>5. Cardinality({q \in E : q <= r}) <= n <=> Cardinality(B) < n
    BY <2>3, <2>4
  <2>6. QED
    BY <2>5 DEF B
<1>4. SelectRows(s, n) = {r \in E : Cardinality({q \in E : q <= r}) <= n}
  BY <1>1 DEF SelectRows
<1>5. FirstEligible(Rows, n) = {r \in E : Cardinality({q \in E : q < r}) < n}
  BY DEF FirstEligible
<1> HIDE DEF E
<1>6. QED
  BY <1>3, <1>4, <1>5

LEMMA DecideAcceptsProbes ==
  ASSUME ProbesInv, NEW p \in Procs, Decide(p)
  PROVE  AcceptedProbes'
<1> SUFFICES ASSUME Passed', decision'.sel PROVE AcceptedProbes'
  BY DEF AcceptedProbes
<1>1. /\ TypeOK /\ RunsTyped /\ ReadState(p) /\ run[p].pc = "decide"
      /\ run[p] \in RunState /\ run[p].cmd \in CommandLines
  BY TypeParts DEF ProbesInv, GateInv, RunsTyped, RunState, Decide
<1>2. /\ StrictGate(run[p]) /\ UNCHANGED file
      /\ decision'.seen = run[p].seen /\ decision'.stamp = run[p].stamp
      /\ decision'.chosen = run[p].chosen /\ decision'.sel = run[p].cmd.sel
      /\ decision'.inputs = [q \in Paths |-> file[q].lines]
  BY DEF Decide, Passed
<1>3. run[p].cmd.kind = "analyze" /\ run[p].cmd.sel
  <2>1. run[p].cmd.kind \in {"accuracy", "analyze"}
    BY <1>1 DEF ReadState
  <2>2. run[p].cmd.kind = "accuracy" => ~run[p].cmd.sel
    BY <1>1 DEF CommandLines, generate, replay, inspect, accuracy, analyze, CommandLine
  <2>3. QED
    BY <1>2, <2>1, <2>2
<1>4. InputsCohere(run[p])
  BY <1>3 DEF Decide
<1>5. ReadOrder(run[p].cmd) = <<"full", "full_probes", "rkv_probes", "rkv">>
  BY <1>3 DEF ReadOrder
<1>6. \A q \in Paths : Readable(file[q]) /\ run[p].seen[q] = file[q].lines
  <2>1. \A i \in 1..4 : ReadSo(p, i)
    BY <1>1, <1>5 DEF ReadState
  <2>2. ReadSo(p, 1) /\ ReadSo(p, 2) /\ ReadSo(p, 3) /\ ReadSo(p, 4)
    BY <2>1
  <2>3. \A q \in {"full", "full_probes", "rkv_probes", "rkv"} :
          Readable(file[q]) /\ run[p].seen[q] = file[q].lines
    BY <1>5, <2>2 DEF ReadSo
  <2>4. QED
    BY <2>3 DEF Paths, Natural, ProbeFiles
<1>7. decision'.inputs = decision'.seen
  <2>1. run[p].seen \in [Paths -> Seq(Records)]
    BY <1>1 DEF RunState
  <2>2. QED
    BY <1>2, <1>6, <2>1
<1>8. decision'.chosen = FirstEligible(Rows, MaxSelected)
  <2>1. RecordIds(run[p].seen["full"]) = Rows \X {"base"}
    BY <1>1, <1>2, GateIsStrict DEF ProbesInv, GateInv, Natural, Paths
  <2>2. run[p].chosen = SelectRows(run[p].seen["full"], MaxSelected)
    BY <1>1, <1>3, <1>6 DEF ReadState, Paths, Natural
  <2>3. QED
    BY <1>2, <2>1, <2>2, RuleOnPopulation, ScreenAssumption
<1>9. ASSUME NEW q \in ProbeFiles
      PROVE  /\ RecordIds(run[p].seen[q]) = run[p].chosen \X Fractions
             /\ MadeUnder(run[p].seen[q], run[p].stamp)
             /\ \A i \in DOMAIN run[p].seen[q] :
                  run[p].seen[q][i].of[1] \in Range(run[p].seen["full"])
  <2>1. q \in Paths /\ "full" \in Paths
    BY DEF Paths, Natural
  <2>2. RecordIds(run[p].seen[q]) = run[p].chosen \X Fractions
    BY <1>3, <1>4 DEF InputsCohere, SelectionComplete
  <2>3. MadeUnder(run[p].seen[q], run[p].stamp)
    <3>1. run[p].seen[q] \in Seq(Faithful)
      BY <2>1 DEF ProbesInv, GateInv
    <3>2. \A i \in DOMAIN run[p].seen[q] : run[p].seen[q][i] \in Faithful
      BY <3>1
    <3>3. \A i \in DOMAIN run[p].seen[q] : run[p].seen[q][i].by = run[p].stamp
      <4>1. \A x \in {"full"} \cup ProbeFiles : Identities(run[p].seen[x]) \subseteq {run[p].stamp}
        BY <1>4 DEF InputsCohere
      <4>2. Identities(run[p].seen[q]) \subseteq {run[p].stamp}
        BY <4>1
      <4>3. QED
        BY <4>2 DEF Identities
    <3>4. QED
      BY <3>2, <3>3 DEF MadeUnder, Faithful
  <2>4. ASSUME NEW i \in DOMAIN run[p].seen[q]
        PROVE  run[p].seen[q][i].of[1] \in Range(run[p].seen["full"])
    <3>1. run[p].seen[q][i] \in Range(file[q].lines)
      BY <1>6, <2>1 DEF Range
    <3>2. PICK b \in Range(file["full"].lines) : run[p].seen[q][i].of = <<b>>
      BY <1>6, <2>1, <3>1 DEF ProbesInv, TracesExist, Traced
    <3>3. run[p].seen[q][i].of[1] = b
      BY <3>2
    <3>4. QED
      BY <1>6, <2>1, <3>3
  <2>5. QED
    BY <2>2, <2>3, <2>4
<1>10. QED
  BY <1>2, <1>7, <1>8, <1>9 DEF AcceptedProbes

LEMMA ProbesInvStep ==
  ASSUME ~EditWhileRunning, \A x, y \in Procs : x = y, ProbesInv, [Next]_vars
  PROVE  ProbesInv'
<1>1. GateInv'
  BY GateInvStep DEF ProbesInv
<1>2. CASE UNCHANGED vars \/ EditConfig
  <2>1. UNCHANGED <<file, selection, decision, run>>
    BY <1>2 DEF vars, EditConfig
  <2>2. TracesExist' /\ SelectionFollowsRule'
    BY <2>1 DEF ProbesInv, TracesExist, Traced, SelectionFollowsRule, SelectRows
  <2>3. ASSUME NEW p \in Procs PROVE ReadState(p)'
    <3>1. ReadState(p)
      BY DEF ProbesInv
    <3>2. QED
      BY <2>1, <3>1 DEF ReadState, ReadSo, SelectRows
  <2>4. AcceptedProbes'
    BY <2>1 DEF ProbesInv, AcceptedProbes, Passed
  <2>5. QED
    BY <1>1, <2>2, <2>3, <2>4 DEF ProbesInv
<1>3. ASSUME NEW p \in Procs, Step(p) PROVE ProbesInv'
  <2>1. \A x \in Procs : x = p
    OBVIOUS
  <2>2. TypeOK /\ TypeOK' /\ ReadState(p) /\ TracesExist /\ SelectionFollowsRule
    BY <1>1 DEF ProbesInv, GateInv
  <2>3. ReadState(p)' /\ SelectionFollowsRule'
    BY <1>3, <2>2, StepReads, StepSelection
  <2>4. TracesExist'
    BY <1>3, <2>1, <2>2, StepTraces DEF TracesExist
  <2>5. AcceptedProbes'
    <3>1. CASE Decide(p)
      BY <3>1, DecideAcceptsProbes
    <3>2. CASE UNCHANGED decision
      BY <3>2 DEF ProbesInv, AcceptedProbes, Passed
    <3>3. QED
      BY <1>3, <3>1, <3>2 DEF Step, Start, LoadSelection, VerifyExisting, OpenWriter, ReadInput,
         SkipKnown, RefuseDuplicate, AppendText, AppendLineBreak, FinishRun, WriteSelection,
         StopInspection, RefuseInputs, Interrupt, InterruptText, InterruptSelection
  <2>6. QED
    BY <1>1, <2>1, <2>3, <2>4, <2>5 DEF ProbesInv
<1>4. QED
  BY <1>2, <1>3 DEF Next

LEMMA ProbesInvInit == Init => ProbesInv
<1> SUFFICES ASSUME Init PROVE ProbesInv
  OBVIOUS
<1>1. GateInv
  BY GateInvInit
<1>2. \A q \in Paths : Range(file[q].lines) = {}
  BY DEF Init, NoRecords, Range
<1>3. \A p \in Procs : run[p].pc = "idle" /\ run[p].todo = {}
  BY DEF Init, Fresh
<1>4. TracesExist
  BY <1>2, <1>3 DEF TracesExist, Paths
<1>5. SelectionFollowsRule /\ AcceptedProbes
  BY DEF Init, Nothing, SelectionFollowsRule, AcceptedProbes, Passed
<1>6. QED
  BY <1>1, <1>3, <1>4, <1>5 DEF ProbesInv, ReadState

(* A passed analysis of a selection is about one experiment, for every       *)
(* population, cap and list of fractions: the rows the pre-registered rule   *)
(* gives, every probe of theirs and no other, each produced under the        *)
(* judged configuration from a trace of the judged population, and the files *)
(* as they were read.  It needs commands that do not overlap and a           *)
(* configuration that is not edited under a running one.                     *)
THEOREM PassedAnalysisIsOneExperiment ==
  ASSUME ~EditWhileRunning, \A x, y \in Procs : x = y
  PROVE  Spec => []AcceptedProbes
<1>1. ProbesInv /\ [Next]_vars => ProbesInv'
  BY ProbesInvStep
<1>2. ProbesInv => AcceptedProbes
  BY DEF ProbesInv
<1>3. QED
  BY <1>1, <1>2, ProbesInvInit, PTL DEF Spec
==============================================================================
