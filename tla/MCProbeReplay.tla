---------------------------- MODULE MCProbeReplay ----------------------------
(* Small instances of ProbeReplay for TLC.                                   *)
EXTENDS ProbeReplay

TwoRows == {1, 2}

(* A span the model opens, one the prompt opens, an empty one behind a       *)
(* prompt longer than the budget, one that is never closed, and none.        *)
SmallTraces ==
  {[prompt |-> <<"t">>, generated |-> <<"t", "open", "t", "t", "t", "close", "t", "eos">>],
   [prompt |-> <<"t", "open">>, generated |-> <<"t", "t", "close", "t">>],
   [prompt |-> <<"open", "close", "t", "open">>, generated |-> <<"close", "eos">>],
   [prompt |-> <<"t", "open">>, generated |-> <<"t", "t">>],
   [prompt |-> <<"open", "close">>, generated |-> <<"t", "eos">>]}

(* Scores that favour old positions, and scores without an order.            *)
TwoRankings == {[p \in 0..15 |-> 15 - p], [p \in 0..15 |-> (p * 7) % 16]}

(* One token, two, or more than fit, as the cache has it.                    *)
LengthByCache(cache) == 1 + ((cache[1] + cache[Len(cache)]) % 3)
==============================================================================
