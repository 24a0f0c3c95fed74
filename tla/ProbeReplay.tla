------------------------------ MODULE ProbeReplay ------------------------------
(*****************************************************************************)
(* How a recorded generation becomes probe records: the base generation      *)
(* (src/src/kvcot/generation/decode.py), the think span found in it          *)
(* (probes/early_answering.py), its teacher-forced replay with a snapshot at *)
(* every fraction of the span (generation/replay.py), the probe branched     *)
(* from each snapshot, and the records cli.py's replay-probe and             *)
(* replay-fixed-trace append and skip.  The model and its R-KV schedule are  *)
(* those of RkvModel.                                                        *)
(*                                                                           *)
(* What the model computes from equal states is taken to be equal: a         *)
(* compaction keeps the slots ranked highest, and the length of an answer is *)
(* a function of the cache it starts from.  An answer stands for the caches  *)
(* it was decoded from.  The process can be killed at any point, in the      *)
(* middle of an append too, and started again.                               *)
(*****************************************************************************)
EXTENDS RkvModel, JsonlFile, FiniteSets, FiniteSetsExt

CONSTANTS Rows,             \* base records, in file order
          Traces,           \* [prompt, generated] token sequences a record may hold
          Rankings,         \* how compactions may rank the stream's positions
          Denominator,      \* fractions_all is 0, 1/Denominator, ..., 1
          ForcedTokens,     \* tokens of the close marker and the control suffix
          MaxAnswer,        \* the probe's max_new_tokens
          AnswerLength(_)   \* tokens of the answer decoded from a cache; more than
                            \* MaxAnswer: it is cut off

ASSUME ProbeAssumption ==
  /\ Rows \subseteq Nat
  /\ Rows # {} /\ IsFiniteSet(Rows)
  /\ Denominator \in Nat \ {0}
  /\ ForcedTokens \in Nat \ {0}
  /\ MaxAnswer \in Nat \ {0}

(* A generation ends with the EOS it samples, so there is none before that.  *)
Tokens == {"t", "open", "close", "eos"}

ASSUME TraceAssumption ==
  \A trace \in Traces :
     /\ trace \in [prompt : Seq(Tokens), generated : Seq(Tokens)]
     /\ \A i \in 1..(Len(trace.generated) - 1) : trace.generated[i] # "eos"

(* One more than the last position a probe of the trace can feed.            *)
Horizon(trace) ==
  Len(trace.prompt) + Len(trace.generated) + ForcedTokens + MaxAnswer

(* A ranking gives every position a score of its own.                        *)
ASSUME RankingAssumption ==
  \A ranking \in Rankings :
     /\ \A trace \in Traces : 0..(Horizon(trace) - 1) \subseteq DOMAIN ranking
     /\ \A p, q \in DOMAIN ranking :
          ranking[p] \in Int /\ (ranking[p] = ranking[q] => p = q)

VARIABLES setup,    \* the command, its cache mode, the base file and the ranking
          proc,     \* the process: where it is and its local variables
          file,     \* the probe file
          base,     \* of each row generated here: the model after every call
          computed  \* every probe result there has been: no variable of the program

vars == <<model, live, setup, proc, file, base, computed>>

Fractions == 0..Denominator

(* The two commands; only the fixed-trace one reads a cache mode.            *)
Commands ==
  {[command |-> "replay-probe", mode |-> "native"]}
    \cup {[command |-> "replay-fixed-trace", mode |-> mode] : mode \in {"native", "frozen_at_cut"}}

Fixed == setup.command = "replay-fixed-trace"
Frozen == setup.mode = "frozen_at_cut"

-----------------------------------------------------------------------------
(* The think span.  Markers are single tokens.                               *)
Places(token, tokens) == {i \in DOMAIN tokens : tokens[i] = token}

EndsInsideOpenBlock(prompt) ==
  \E i \in Places("open", prompt) : \A j \in Places("close", prompt) : j < i

(* Generated tokens in front of the span, or -1 when there is none.          *)
ThinkStart(trace) ==
  IF EndsInsideOpenBlock(trace.prompt) THEN 0
  ELSE IF Places("open", trace.generated) = {} THEN -1
  ELSE Min(Places("open", trace.generated))

Closings(trace) == {i \in Places("close", trace.generated) : i > ThinkStart(trace)}

Parsed(trace) == ThinkStart(trace) >= 0 /\ Closings(trace) # {}

ThinkEnd(trace) == Min(Closings(trace)) - 1

(* Mutant of CutPosition: counted from the prompt, not from the span.        *)
CutPosition_FromPrompt(trace, f) ==
  Len(trace.prompt) + (f * (ThinkEnd(trace) - ThinkStart(trace))) \div Denominator

(* Tokens of the whole stream in front of the cut at fraction f.             *)
CutPosition(trace, f) ==
  Len(trace.prompt) + ThinkStart(trace)
    + (f * (ThinkEnd(trace) - ThinkStart(trace))) \div Denominator

-----------------------------------------------------------------------------
(* One forward call, with the compaction the ranking decides.  R-KV ranks by *)
(* the last queries it has seen, which are part of a snapshot (query_cache,  *)
(* replay.py:297-299 and 339-343) and of no state here: equal caches are     *)
(* ranked equally, so that a query_cache that is not restored would go       *)
(* unnoticed.                                                                *)
Ranked(k) ==
  LET map == Grown(live.cache, k)
  IN CHOOSE slots \in Survivors(Len(map)) :
       \A i \in 1..(Budget - Window) : \A j \in 1..(Len(map) - Window) :
          \/ \E earlier \in 1..i : slots[earlier] = j
          \/ setup.ranking[map[slots[i]]] > setup.ranking[map[j]]

Calls(k) == Grows(k) \/ Compacts(k, Ranked(k))

-----------------------------------------------------------------------------
NoProbe == [cut |-> << >>, fed |-> 0, first |-> << >>, last |-> << >>, evicted |-> FALSE]

(* A process that has loaded the model and not begun with a row.             *)
Idle == [at |-> "down", row |-> 0, tokens |-> 0, snapshots |-> << >>, fraction |-> 0,
         probe |-> NoProbe, results |-> << >>, seen |-> {}]

Trace == setup.traces[proc.row]
IdOf(row, f) == <<row, f>>
IdsOf(row) == {IdOf(row, f) : f \in Fractions}

Init ==
  /\ model = FreshModel
  /\ live = EmptyState
  /\ setup \in {[command |-> c.command, mode |-> c.mode, traces |-> t, ranking |-> r] :
                  c \in Commands, t \in [Rows -> Traces], r \in Rankings}
  /\ proc = IF Fixed THEN Idle ELSE [Idle EXCEPT !.at = "generate", !.row = Min(Rows)]
  /\ file = NoRecords
  /\ base = [row \in Rows |-> << >>]
  /\ computed = {}

(* The base generation: every token sampled is fed, but a terminal EOS.      *)
BaseReset ==
  /\ proc.at = "generate"
  /\ ResetPatchedState
  /\ proc' = [proc EXCEPT !.at = "base", !.tokens = 0]
  /\ UNCHANGED <<setup, file, base, computed>>

BasePrefill ==
  /\ proc.at = "base"
  /\ base[proc.row] = << >>
  /\ Calls(Len(Trace.prompt))
  /\ base' = [base EXCEPT ![proc.row] = <<[model |-> model', live |-> live']>>]
  /\ UNCHANGED <<setup, proc, file, computed>>

BaseEnds ==
  proc.tokens = Cardinality({i \in DOMAIN Trace.generated : Trace.generated[i] # "eos"})

BaseDecode ==
  /\ proc.at = "base"
  /\ base[proc.row] # << >>
  /\ ~BaseEnds
  /\ Calls(1)
  /\ base' = [base EXCEPT ![proc.row] = Append(@, [model |-> model', live |-> live'])]
  /\ proc' = [proc EXCEPT !.tokens = @ + 1]
  /\ UNCHANGED <<setup, file, computed>>

BaseFinish ==
  /\ proc.at = "base"
  /\ base[proc.row] # << >>
  /\ BaseEnds
  /\ LET later == {row \in Rows : row > proc.row}
     IN proc' = IF later = {} THEN Idle
                ELSE [Idle EXCEPT !.at = "generate", !.row = Min(later)]
  /\ UNCHANGED <<model, live, setup, file, base, computed>>

-----------------------------------------------------------------------------
(* The rows a command replays: those with a think span and, for a fixed      *)
(* trace, a record that is missing.  replay-probe replays the others again.  *)
Replayed(row, seen) ==
  /\ Parsed(setup.traces[row])
  /\ Fixed => ~(IdsOf(row) \subseteq seen)

GoToRow(p, rows) ==
  IF rows = {} THEN [p EXCEPT !.at = "done"]
  ELSE [Idle EXCEPT !.at = "reset", !.row = Min(rows), !.seen = p.seen]

NextRow(p) == GoToRow(p, {row \in Rows : row > p.row /\ Replayed(row, p.seen)})

(* A command starts with a model of its own and refuses a file it cannot     *)
(* read; otherwise it skips the records it finds there.                      *)
Start ==
  /\ proc.at \in {"down", "done", "failed"}
  /\ model' = FreshModel
  /\ live' = EmptyState
  /\ LET seen == RecordIds(file.lines)
     IN proc' = IF Readable(file)
                THEN GoToRow([Idle EXCEPT !.seen = seen], {row \in Rows : Replayed(row, seen)})
                ELSE [Idle EXCEPT !.at = "failed"]
  /\ UNCHANGED <<setup, file, base, computed>>

(* replay_and_snapshot.                                                      *)
ReplayReset ==
  /\ proc.at = "reset"
  /\ ResetPatchedState
  /\ proc' = [proc EXCEPT !.at = "prefill"]
  /\ UNCHANGED <<setup, file, base, computed>>

(* The fractions whose cut is reached, with the snapshot taken after a call. *)
Captured(position) ==
  [f \in {g \in Fractions : CutPosition(Trace, g) = position} |->
     [model |-> model', live |-> live']]

ReplayPrefill ==
  /\ proc.at = "prefill"
  /\ Calls(Len(Trace.prompt))
  /\ proc' = [proc EXCEPT !.at = "decode", !.snapshots = Captured(live'.pos)]
  /\ UNCHANGED <<setup, file, base, computed>>

Joined(old, new) ==
  [f \in DOMAIN old \cup DOMAIN new |-> IF f \in DOMAIN old THEN old[f] ELSE new[f]]

(* The probes' order: as captured, or the anchor's before the others.        *)
ProbeOrder ==
  [n \in 1..(Denominator + 1) |->
     IF ~Fixed THEN n - 1 ELSE IF n = 1 THEN Denominator ELSE n - 2]

(* replay-probe skips before it probes.                                      *)
ToProbe(p) ==
  {n \in 1..(Denominator + 1) : Fixed \/ IdOf(p.row, ProbeOrder[n]) \notin p.seen}

AfterProbe(p, n) ==
  LET later == {m \in ToProbe(p) : m > n}
  IN IF later # {} THEN [p EXCEPT !.at = "branch", !.fraction = ProbeOrder[Min(later)]]
     ELSE IF Fixed THEN [p EXCEPT !.at = "write"]
     ELSE NextRow(p)

(* One recorded token after the other, until a call after which every        *)
(* snapshot is there; it is an error when the tokens end before that.        *)
ReplayDecode ==
  /\ proc.at = "decode"
  /\ proc.tokens < Len(Trace.generated)
  /\ Calls(1)
  /\ LET p == [proc EXCEPT !.tokens = @ + 1, !.snapshots = Joined(@, Captured(live'.pos))]
     IN proc' = IF DOMAIN p.snapshots = Fractions THEN AfterProbe(p, 0)
                ELSE IF p.tokens = Len(Trace.generated) THEN [p EXCEPT !.at = "failed"]
                ELSE p
  /\ UNCHANGED <<setup, file, base, computed>>

-----------------------------------------------------------------------------
(* branch_and_probe.                                                         *)
Branch ==
  /\ proc.at = "branch"
  /\ Restore(proc.snapshots[proc.fraction])
  /\ proc' = [proc EXCEPT !.at = IF Frozen THEN "freeze" ELSE "feed",
                          !.probe = [NoProbe EXCEPT !.cut = proc.snapshots[proc.fraction].live.cache]]
  /\ UNCHANGED <<setup, file, base, computed>>

(* Mutant of ForceCompressionOff: only before the probe's first token.       *)
ForceCompressionOff_Once ==
  /\ proc.at = "freeze"
  /\ model' = [model EXCEPT !.compression = IF proc.probe.fed = 0 THEN "false" ELSE @]
  /\ proc' = [proc EXCEPT !.at = "feed"]
  /\ UNCHANGED <<live, setup, file, base, computed>>

(* The flag is forced off before every token; the call that follows sets it  *)
(* again.                                                                    *)
ForceCompressionOff ==
  /\ proc.at = "freeze"
  /\ model' = [model EXCEPT !.compression = "false"]
  /\ proc' = [proc EXCEPT !.at = "feed"]
  /\ UNCHANGED <<live, setup, file, base, computed>>

(* The close marker and the control suffix are fed, then all tokens of the   *)
(* answer but the one that ends it; of an answer that is cut off, all that   *)
(* were decoded.                                                             *)
MoreToFeed(probe) ==
  \/ probe.fed < ForcedTokens
  \/ /\ probe.fed < ForcedTokens + MaxAnswer
     /\ probe.fed < ForcedTokens + AnswerLength(probe.first) - 1

Feed ==
  /\ proc.at = "feed"
  /\ Calls(1)
  /\ LET fed == proc.probe.fed + 1
         probe == [proc.probe EXCEPT !.fed = fed,
                                     !.first = IF fed = ForcedTokens THEN live'.cache ELSE @,
                                     !.last = live'.cache]
     IN proc' = [proc EXCEPT !.probe = probe,
                             !.at = IF ~MoreToFeed(probe) THEN "judge"
                                    ELSE IF Frozen THEN "freeze" ELSE "feed"]
  /\ UNCHANGED <<setup, file, base, computed>>

(* The code's own check of a frozen probe: the lengths and R-KV's count.     *)
Contaminated ==
  /\ Frozen
  /\ \/ Len(live.cache) # Len(proc.probe.cut) + proc.probe.fed
     \/ model.evicted # proc.snapshots[proc.fraction].model.evicted

(* A probe's result, kept until it is written.                               *)
Result(probe) ==
  [answer |-> <<probe.first, probe.last>>,
   evicted |-> Len(probe.last) < Len(probe.cut) + probe.fed]

Turn(f) == CHOOSE n \in DOMAIN ProbeOrder : ProbeOrder[n] = f

FinishProbe ==
  /\ proc.at = "judge"
  /\ LET p == [proc EXCEPT !.results = Joined(@, [f \in {proc.fraction} |-> Result(proc.probe)])]
     IN IF Contaminated
        THEN proc' = [proc EXCEPT !.at = "failed"] /\ UNCHANGED computed
        ELSE /\ proc' = IF Fixed THEN AfterProbe(p, Turn(p.fraction)) ELSE [p EXCEPT !.at = "write"]
             /\ computed' = computed \cup {[row |-> p.row,
                                            cut |-> CutPosition(Trace, p.fraction),
                                            result |-> p.results[p.fraction]]}
  /\ UNCHANGED <<model, live, setup, file, base>>

-----------------------------------------------------------------------------
(* What is still to be written of the current row: this probe's record, or,  *)
(* once all are probed, every fraction's that is not there yet.              *)
ToWrite ==
  IF Fixed THEN {f \in Fractions : IdOf(proc.row, f) \notin proc.seen}
  ELSE {proc.fraction} \ {f \in Fractions : IdOf(proc.row, f) \in proc.seen}

(* Mutant of Anchor: the answer at the fraction probed first.                *)
Anchor_FirstProbed == proc.results[ProbeOrder[2]].answer

(* The policy's own answer at f=1, as this process has computed it.          *)
Anchor == proc.results[Denominator].answer

Record(f) ==
  [id |-> IdOf(proc.row, f),
   answer |-> proc.results[f].answer,
   anchor |-> IF Fixed THEN Anchor ELSE << >>,
   evicted |-> proc.results[f].evicted]

AppendRecord(f) ==
  /\ proc.at = "write"
  /\ ToWrite # {}
  /\ f = Min(ToWrite)
  /\ file' = WriteLineBreak(WriteText(file, Record(f)))
  /\ proc' = [proc EXCEPT !.seen = @ \cup {IdOf(proc.row, f)}]
  /\ UNCHANGED <<model, live, setup, base, computed>>

RowWritten ==
  /\ proc.at = "write"
  /\ ToWrite = {}
  /\ proc' = IF Fixed THEN NextRow(proc)
             ELSE AfterProbe(proc, Turn(proc.fraction))
  /\ UNCHANGED <<model, live, setup, file, base, computed>>

(* The process ends at any point; inside an append it leaves a part of it.   *)
Killed ==
  /\ proc.at \notin {"generate", "base", "down", "done", "failed"}
  /\ proc' = Idle
  /\ \/ UNCHANGED file
     \/ /\ proc.at = "write"
        /\ \E f \in ToWrite : f = Min(ToWrite) /\ file' \in {TearText(file), WriteText(file, Record(f))}
  /\ UNCHANGED <<model, live, setup, base, computed>>

Next ==
  \/ BaseReset \/ BasePrefill \/ BaseDecode \/ BaseFinish
  \/ Start \/ Killed
  \/ ReplayReset \/ ReplayPrefill \/ ReplayDecode
  \/ Branch \/ ForceCompressionOff \/ Feed \/ FinishProbe
  \/ \E f \in Fractions : AppendRecord(f)
  \/ RowWritten

Spec == Init /\ [][Next]_vars

-----------------------------------------------------------------------------
(* A probe's result depends on the trace and on the cut alone: not on what   *)
(* the process did before, on what an earlier run had written, on where it   *)
(* was killed, nor on which fraction the cut belongs to (the hard gate of    *)
(* branch_and_probe's docstring, and reset_patched_state before every        *)
(* replay).                                                                  *)
ProbesAreReproducible ==
  \A p, q \in computed : p.row = q.row /\ p.cut = q.cut => p.result = q.result

(* However often a fixed-trace replay was interrupted, the records of one    *)
(* trace share one anchor, and the f=1 record, when there, is its answer:    *)
(* a resumed run computes the anchor anew and writes it into the records     *)
(* that are missing.                                                         *)
OneAnchorPerTrace ==
  Fixed =>
    \A i, j \in DOMAIN file.lines :
       LET r == file.lines[i]
           s == file.lines[j]
       IN r.id[1] = s.id[1] =>
            /\ r.anchor = s.anchor
            /\ s.id[2] = Denominator => r.anchor = s.answer

(* Every snapshot is the state the recorded generation was in at that token: *)
(* the same cache, positions, counters and compactions so far.  The one at 0 *)
(* lies right behind what opens the span, the one at 1 right before what     *)
(* closes it.                                                                *)
SnapshotsFollowTheBaseRun ==
  \A f \in DOMAIN proc.snapshots :
     LET position == proc.snapshots[f].live.pos
         fed == position - Len(Trace.prompt)
     IN /\ ~Fixed => proc.snapshots[f] = base[proc.row][fed + 1]
        /\ f = 0 => IF fed = 0 THEN EndsInsideOpenBlock(Trace.prompt)
                    ELSE Trace.generated[fed] = "open"
        /\ f = Denominator => Trace.generated[fed + 1] = "close"

(* A frozen probe only adds the tokens it feeds to the cache it was cut at,  *)
(* slot by slot, and never fails the code's check; a record tells that its   *)
(* probe was disturbed exactly when a token really left the cache.           *)
FrozenProbesAreUndisturbed ==
  /\ proc.at = "failed" => ~Readable(file)
  /\ proc.at = "judge" =>
       LET cut == proc.snapshots[proc.fraction].live
           fed == [j \in 1..proc.probe.fed |-> cut.pos + j - 1]
       IN /\ Frozen => proc.probe.last = cut.cache \o fed
          /\ Result(proc.probe).evicted
               <=> Entries(cut.cache \o fed) # Entries(proc.probe.last)
==============================================================================
