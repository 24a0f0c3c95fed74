----------------------------- MODULE ScreenClaims -----------------------------
(*****************************************************************************)
(* What documents and comments of the repository say of the commands that    *)
(* append records, and the code does not keep.  Each is checked by a run     *)
(* that is expected to find it violated.                                     *)
(*****************************************************************************)
EXTENDS FixedTraceScreen

OneRow == {1}
TwoRows == {1, 2}

ResumedGeneration == {generate("full", Rows, TRUE)}

(* JsonlWriter: a crash loses at most the record in flight and never         *)
(* corrupts prior ones; README.md: it is safe to interrupt and resume at any *)
(* point.  What a running writer takes for written must then be in its file. *)
PriorRecordsSurvive ==
  \A p \in Procs :
    run[p].pc \in {"work", "line", "ok"} /\ WritesRecords(run[p].cmd) =>
      run[p].written \subseteq RecordIds(file[run[p].cmd.out].lines)

(* config_identity: a record names the configuration it was produced under.  *)
RecordsNameTheirConfig ==
  \A q \in Paths : \A i \in DOMAIN file[q].lines : file[q].lines[i].by = file[q].lines[i].made
===============================================================================
