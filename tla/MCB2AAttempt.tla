---------------------------- MODULE MCB2AAttempt ----------------------------
(* Small instances of B2AAttempt and B2AOutcome for TLC.                                    *)
EXTENDS B2AOutcome

NoFile == {}

(* One file of every kind the verifiers treat differently.                   *)
FragileFiles ==
  {<<"rkv", "result.json">>, <<"rkv", "result.json.envelope.json">>,
   <<"rkv", "progress.jsonl">>, <<"rkv", "timing.json">>, <<"rkv", "pair_records.json">>,
   <<"fullkv", "stdout.log">>, Top("provenance.json"), Completion}
=============================================================================
