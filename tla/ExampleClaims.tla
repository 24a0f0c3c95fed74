----------------------------- MODULE ExampleClaims -----------------------------
(*****************************************************************************)
(* What a comment of the repository says of the failures of a pair, and the  *)
(* code does not keep.  It is checked by a run that is expected to find it   *)
(* violated.                                                                 *)
(*****************************************************************************)
EXTENDS ExampleRun

(* orchestrator.py:547-551: an expected failure of a pair is reported as     *)
(* data and the loop goes on; only an unexpected exception aborts it.  A     *)
(* swap that apply_semantic_within_head_swap refuses is one that             *)
(* build_swap_pair_record expects.                                           *)
RefusedSwapIsData == aborted => swap # "refused"
================================================================================
