------------------------- MODULE MCFixedTraceScreen -------------------------
(* Small instances of FixedTraceScreen for TLC.                              *)
EXTENDS FixedTraceScreen, TLC

TwoRows == {1, 2}

(* No definition tells one process from another.                             *)
ProcSymmetry == Permutations(Procs)

(* The documented order and every other: traces, a selection, replays of it, *)
(* and a generation that was not told to resume.                             *)
SelectedScreen ==
  {generate(q, Rows, TRUE) : q \in Natural} \cup {generate("full", Rows, FALSE)}
    \cup {replay(q, Rows, TRUE) : q \in ProbeFiles} \cup {inspect(MaxSelected), analyze(TRUE)}

(* Commands that overlap on the natural files: the whole population or a     *)
(* part of it, with and without --resume, while the strict gate reads them.  *)
Overlapping ==
  {generate("full", rs, b) : rs \in {Rows, {1}}, b \in BOOLEAN}
    \cup {generate("rkv", Rows, TRUE), accuracy}
=============================================================================
