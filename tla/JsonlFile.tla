------------------------------ MODULE JsonlFile ------------------------------
(*****************************************************************************)
(* A JSONL file as src/src/kvcot/utils/io.py writes and reads it.  A record  *)
(* is appended by two writes, its text and then the line break; a crash or a *)
(* full disk can fall inside the first or between the two, and what follows  *)
(* is then appended to the same line.                                        *)
(*                                                                           *)
(* `lines` holds the records a parser finds, in order.  The last of them has *)
(* no line break yet when `tail` is "whole"; `tail` is "junk" when the file  *)
(* ends in text that is no record, and `malformed` tells that some complete  *)
(* line is none.                                                             *)
(*****************************************************************************)
EXTENDS Integers, Sequences, Functions

JsonlFiles(Record) ==
  [lines : Seq(Record), tail : {"none", "whole", "junk"}, malformed : BOOLEAN]

NoRecords == [lines |-> << >>, tail |-> "none", malformed |-> FALSE]

(* A reader parses every line and raises on the first that is no record.     *)
Readable(f) == f.tail # "junk" /\ ~f.malformed

RecordIds(s) == {s[i].id : i \in DOMAIN s}

DistinctIds(s) == \A i, j \in DOMAIN s : s[i].id = s[j].id => i = j

AllButLast(s) == SubSeq(s, 1, Len(s) - 1)

(* The line that is open is lost for the parser: a record whose line break   *)
(* is missing merges with what is written behind it.                         *)
SpoilTail(f) ==
  [f EXCEPT !.lines = IF f.tail = "whole" THEN AllButLast(f.lines) ELSE f.lines,
            !.tail = "junk"]

(* Mutant: the file is opened in mode "w".                                   *)
WriteText_Overwrites(f, r) == [NoRecords EXCEPT !.lines = <<r>>, !.tail = "whole"]

(* The text of record r, appended in mode "a".                               *)
WriteText(f, r) ==
  IF f.tail = "none"
  THEN [f EXCEPT !.lines = Append(f.lines, r), !.tail = "whole"]
  ELSE SpoilTail(f)

(* The line break that ends it.                                              *)
WriteLineBreak(f) ==
  [f EXCEPT !.tail = "none", !.malformed = f.malformed \/ f.tail = "junk"]

(* Only a part of a record's text reaches the file.                          *)
TearText(f) == SpoilTail(f)

(* What later reads of a file may show: more records behind the same ones.   *)
Extends(new, old) ==
  /\ Len(old) <= Len(new)
  /\ \A i \in 1..Len(old) : new[i] = old[i]
==============================================================================
