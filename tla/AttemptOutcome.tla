---------------------------- MODULE AttemptOutcome ----------------------------
(*****************************************************************************)
(* What one B2A attempt promises whoever reads its exit code and final.json: *)
(* a verdict is computed at most once; final.json appears at most once and   *)
(* carries it; success and gate failure are reported only for a published    *)
(* verdict and name that one; otherwise the attempt fails or dies, possibly  *)
(* with its verdict already published.                                       *)
(*****************************************************************************)
VARIABLES verdict,    \* "undecided", "passed" or "failed"
          published,  \* what final.json says: "nothing", "passed" or "failed"
          status      \* "running", then how the command ended

aVars == <<verdict, published, status>>

Init ==
  /\ verdict = "undecided"
  /\ published = "nothing"
  /\ status = "running"

Decide(v) ==
  /\ status = "running" /\ verdict = "undecided"
  /\ verdict' = v
  /\ UNCHANGED <<published, status>>

Publish ==
  /\ status = "running" /\ verdict # "undecided" /\ published = "nothing"
  /\ published' = verdict
  /\ UNCHANGED <<verdict, status>>

ReportSuccess ==
  /\ status = "running" /\ published = "passed"
  /\ status' = "success"
  /\ UNCHANGED <<verdict, published>>

ReportGateFailure ==
  /\ status = "running" /\ published = "failed"
  /\ status' = "gate failure"
  /\ UNCHANGED <<verdict, published>>

Fail ==
  /\ status = "running"
  /\ status' \in {"error", "dead"}
  /\ UNCHANGED <<verdict, published>>

Next ==
  \/ \E v \in {"passed", "failed"} : Decide(v)
  \/ Publish \/ ReportSuccess \/ ReportGateFailure \/ Fail

Spec == Init /\ [][Next]_aVars
===============================================================================
