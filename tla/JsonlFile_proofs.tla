---------------------------- MODULE JsonlFile_proofs ----------------------------
(*****************************************************************************)
(* Proofs about the writes and the interruptions of JsonlFile, for every set *)
(* of records.                                                               *)
(*****************************************************************************)
EXTENDS JsonlFile, SequenceTheorems, TLAPS

LEMMA AllButLastTyped ==
  ASSUME NEW R, NEW s \in Seq(R)
  PROVE  /\ AllButLast(s) \in Seq(R)
         /\ Len(AllButLast(s)) <= Len(s)
         /\ \A i \in 1..Len(AllButLast(s)) : AllButLast(s)[i] = s[i]
<1>1. /\ Len(s) \in Nat
      /\ \A i \in 1..(Len(s) - 1) : s[i] \in R
  BY ElementOfSeq
<1>2. /\ SubSeq(s, 1, Len(s) - 1) \in Seq(R)
      /\ Len(SubSeq(s, 1, Len(s) - 1)) =
           IF 1 <= Len(s) - 1 THEN Len(s) - 1 - 1 + 1 ELSE 0
      /\ \A i \in 1..(Len(s) - 1 - 1 + 1) :
           SubSeq(s, 1, Len(s) - 1)[i] = s[1 + i - 1]
  BY <1>1, SubSeqProperties
<1>3. \A i \in 1..(Len(s) - 1) : SubSeq(s, 1, Len(s) - 1)[i] = s[i]
  BY <1>1, <1>2
<1>4. QED
  BY <1>1, <1>2, <1>3 DEF AllButLast

LEMMA SpoilTailTyped ==
  ASSUME NEW R, NEW f \in JsonlFiles(R)
  PROVE  SpoilTail(f) \in JsonlFiles(R)
<1>1. AllButLast(f.lines) \in Seq(R)
  BY AllButLastTyped DEF JsonlFiles
<1>2. QED
  BY <1>1 DEF SpoilTail, JsonlFiles

LEMMA WriteTextTyped ==
  ASSUME NEW R, NEW f \in JsonlFiles(R), NEW r \in R
  PROVE  WriteText(f, r) \in JsonlFiles(R)
<1>1. Append(f.lines, r) \in Seq(R)
  BY AppendProperties DEF JsonlFiles
<1>2. QED
  BY <1>1, SpoilTailTyped DEF WriteText, JsonlFiles

LEMMA WriteLineBreakTyped ==
  ASSUME NEW R, NEW f \in JsonlFiles(R)
  PROVE  /\ WriteLineBreak(f) \in JsonlFiles(R)
         /\ WriteLineBreak(f).lines = f.lines
BY DEF WriteLineBreak, JsonlFiles

(* A record stays where it is, or the file is refused by every reader.       *)
LEMMA WriteTextGrows ==
  ASSUME NEW R, NEW f \in JsonlFiles(R), NEW r \in R, Readable(WriteText(f, r))
  PROVE  Readable(f) /\ Extends(WriteText(f, r).lines, f.lines)
<1>1. f.tail = "none"
  BY DEF Readable, WriteText, SpoilTail, JsonlFiles
<1>2. WriteText(f, r).lines = Append(f.lines, r)
  BY <1>1 DEF WriteText, JsonlFiles
<1>3. /\ Len(Append(f.lines, r)) = Len(f.lines) + 1
      /\ \A i \in 1..Len(f.lines) : Append(f.lines, r)[i] = f.lines[i]
  BY AppendProperties DEF JsonlFiles
<1>4. Len(f.lines) \in Nat
  BY DEF JsonlFiles
<1>5. QED
  BY <1>1, <1>2, <1>3, <1>4 DEF Extends, Readable, WriteText, JsonlFiles

LEMMA WriteLineBreakGrows ==
  ASSUME NEW R, NEW f \in JsonlFiles(R), Readable(WriteLineBreak(f))
  PROVE  Readable(f) /\ Extends(WriteLineBreak(f).lines, f.lines)
<1>1. /\ Len(f.lines) \in Nat
      /\ WriteLineBreak(f).lines = f.lines
  BY WriteLineBreakTyped DEF JsonlFiles
<1>2. Extends(WriteLineBreak(f).lines, f.lines)
  BY <1>1 DEF Extends
<1>3. WriteLineBreak(f).malformed = (f.malformed \/ f.tail = "junk")
  BY Zenon DEF WriteLineBreak, JsonlFiles
<1>4. Readable(f)
  BY <1>3, Zenon DEF Readable
<1>5. QED
  BY <1>2, <1>4

LEMMA SpoiltIsRefused ==
  ASSUME NEW R, NEW f \in JsonlFiles(R)
  PROVE  ~Readable(SpoilTail(f))
BY DEF Readable, SpoilTail, JsonlFiles

(* No write repeats an id, unless its record does.                           *)
LEMMA SpoilTailDistinct ==
  ASSUME NEW R, NEW f \in JsonlFiles(R), DistinctIds(f.lines)
  PROVE  /\ DistinctIds(SpoilTail(f).lines)
         /\ RecordIds(SpoilTail(f).lines) \subseteq RecordIds(f.lines)
<1> DEFINE s == f.lines
<1>1. /\ s \in Seq(R) /\ DOMAIN s = 1..Len(s)
      /\ DOMAIN AllButLast(s) \subseteq DOMAIN s
      /\ \A i \in DOMAIN AllButLast(s) : AllButLast(s)[i] = s[i]
  <2>1. s \in Seq(R)
    BY DEF JsonlFiles
  <2>2. /\ AllButLast(s) \in Seq(R) /\ Len(AllButLast(s)) <= Len(s)
        /\ \A i \in 1..Len(AllButLast(s)) : AllButLast(s)[i] = s[i]
    BY <2>1, AllButLastTyped
  <2>3. QED
    BY <2>1, <2>2
<1>2. DistinctIds(AllButLast(s)) /\ RecordIds(AllButLast(s)) \subseteq RecordIds(s)
  BY <1>1 DEF DistinctIds, RecordIds
<1>3. SpoilTail(f).lines = AllButLast(s) \/ SpoilTail(f).lines = s
  BY DEF SpoilTail, JsonlFiles
<1>4. QED
  BY <1>2, <1>3

LEMMA AppendDistinct ==
  ASSUME NEW R, NEW s \in Seq(R), NEW r \in R, DistinctIds(s), r.id \notin RecordIds(s)
  PROVE  /\ DistinctIds(Append(s, r))
         /\ RecordIds(Append(s, r)) \subseteq RecordIds(s) \cup {r.id}
<1> DEFINE t == Append(s, r)
<1>1. /\ DOMAIN s = 1..Len(s) /\ Len(s) \in Nat
      /\ DOMAIN t = 1..(Len(s) + 1)
      /\ \A i \in 1..Len(s) : t[i] = s[i]
      /\ t[Len(s) + 1] = r
  BY AppendProperties
<1>2. \A i \in 1..Len(s) : s[i].id # r.id
  BY <1>1 DEF RecordIds
<1>3. \A i \in DOMAIN t : i \in 1..Len(s) \/ i = Len(s) + 1
  BY <1>1
<1>4. ASSUME NEW i \in DOMAIN t, NEW j \in DOMAIN t, t[i].id = t[j].id PROVE i = j
  BY <1>1, <1>2, <1>3, <1>4 DEF DistinctIds
<1>5. ASSUME NEW i \in DOMAIN t PROVE t[i].id \in RecordIds(s) \cup {r.id}
  BY <1>1, <1>3 DEF RecordIds
<1> HIDE DEF t
<1>6. DistinctIds(t) /\ RecordIds(t) \subseteq RecordIds(s) \cup {r.id}
  BY <1>4, <1>5 DEF DistinctIds, RecordIds
<1>7. QED
  BY <1>6 DEF t

LEMMA WriteTextDistinct ==
  ASSUME NEW R, NEW f \in JsonlFiles(R), NEW r \in R, DistinctIds(f.lines), r.id \notin RecordIds(f.lines)
  PROVE  /\ DistinctIds(WriteText(f, r).lines)
         /\ RecordIds(WriteText(f, r).lines) \subseteq RecordIds(f.lines) \cup {r.id}
<1>1. WriteText(f, r).lines = Append(f.lines, r) \/ WriteText(f, r) = SpoilTail(f)
  BY DEF WriteText, JsonlFiles
<1>2. f.lines \in Seq(R)
  BY DEF JsonlFiles
<1>3. /\ DistinctIds(Append(f.lines, r))
      /\ RecordIds(Append(f.lines, r)) \subseteq RecordIds(f.lines) \cup {r.id}
  BY <1>2, AppendDistinct
<1>4. /\ DistinctIds(SpoilTail(f).lines)
      /\ RecordIds(SpoilTail(f).lines) \subseteq RecordIds(f.lines)
  BY SpoilTailDistinct
<1>5. CASE WriteText(f, r).lines = Append(f.lines, r)
  BY <1>3, <1>5
<1>6. CASE WriteText(f, r) = SpoilTail(f)
  BY <1>4, <1>6
<1>7. QED
  BY <1>1, <1>5, <1>6

(* No write and no interruption brings in another record.                    *)
LEMMA SpoilTailRange ==
  ASSUME NEW R, NEW f \in JsonlFiles(R)
  PROVE  Range(SpoilTail(f).lines) \subseteq Range(f.lines)
<1> DEFINE s == f.lines
<1>1. s \in Seq(R)
  BY DEF JsonlFiles
<1>2. /\ AllButLast(s) \in Seq(R) /\ Len(AllButLast(s)) <= Len(s)
      /\ \A i \in 1..Len(AllButLast(s)) : AllButLast(s)[i] = s[i]
  BY <1>1, AllButLastTyped
<1>3. Range(AllButLast(s)) \subseteq Range(s)
  BY <1>1, <1>2 DEF Range
<1>4. SpoilTail(f).lines = AllButLast(s) \/ SpoilTail(f).lines = s
  BY DEF SpoilTail, JsonlFiles
<1>5. QED
  BY <1>3, <1>4

LEMMA WriteTextRange ==
  ASSUME NEW R, NEW f \in JsonlFiles(R), NEW r \in R
  PROVE  Range(WriteText(f, r).lines) \subseteq Range(f.lines) \cup {r}
<1>1. WriteText(f, r).lines = Append(f.lines, r) \/ WriteText(f, r) = SpoilTail(f)
  BY DEF WriteText, JsonlFiles
<1>2. f.lines \in Seq(R)
  BY DEF JsonlFiles
<1>3. Range(Append(f.lines, r)) \subseteq Range(f.lines) \cup {r}
  <2> DEFINE s == f.lines
             t == Append(s, r)
  <2>1. /\ DOMAIN s = 1..Len(s) /\ Len(s) \in Nat
        /\ DOMAIN t = 1..(Len(s) + 1)
        /\ \A i \in 1..Len(s) : t[i] = s[i]
        /\ t[Len(s) + 1] = r
    BY <1>2, AppendProperties
  <2> HIDE DEF s, t
  <2>2. Range(t) \subseteq Range(s) \cup {r}
    BY <2>1 DEF Range
  <2>3. QED
    BY <2>2 DEF s, t
<1>4. QED
  BY <1>1, <1>3, SpoilTailRange
=================================================================================
