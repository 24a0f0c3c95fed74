-------------------------------- MODULE RkvModel --------------------------------
(*****************************************************************************)
(* One R-KV model with the bookkeeping kept beside it, seen from one KV head *)
(* of one layer: every forward call (a prefill or one decoded token), the    *)
(* compaction it may run, the adapter that follows the cache's contents      *)
(* (src/src/kvcot/discovery/real_model_adapter.py over                       *)
(* generation/replay.py and generation/provenance.py), and the snapshots     *)
(* branches start from (generation/state.py).  R-KV itself, the R1KV cluster *)
(* and the patched forward call, is external; it is modelled from the way    *)
(* src/ uses it and from the port in                                         *)
(* src/tests/unit/discovery/_fake_rkv_fixtures.py.                           *)
(*                                                                           *)
(* A token is its absolute position in the stream: the keys and values of a  *)
(* slot are told apart by the position they were computed at.                *)
(*****************************************************************************)
EXTENDS Integers, Sequences

CONSTANTS Budget,       \* slots left by a compaction
          Window,       \* the newest slots a compaction always keeps
          DivideLength  \* a compaction is scheduled every so many tokens

ASSUME RkvAssumption ==
  /\ Budget \in Nat
  /\ Window \in Nat \ {0}
  /\ Window < Budget
  /\ DivideLength \in Nat \ {0}

VARIABLES model,  \* the patched model: its token counter, flag and R1KV cluster
          live    \* RealModelState or _LiveBranchState: cache, provenance, events, position

Identity(n) == [j \in 1..n |-> j]

Entries(map) == { map[j] : j \in 1..Len(map) }

-----------------------------------------------------------------------------
(* The model object.  "length" is absent and "kept" empty after a reset; 0   *)
(* and << >> stand for that.  "kept" is kept_token_indices[-1], the only one *)
(* of the list that anything reads.  "shuffled" is in no object: it records  *)
(* that a compaction has reordered the slots of a cache it removed nothing   *)
(* from, which the cluster's own count of evicted tokens does not show.      *)
FreshModel ==
  [length |-> 0, compression |-> "none", evicted |-> 0, kept |-> << >>, shuffled |-> FALSE]

EmptyState == [cache |-> << >>, positions |-> << >>, events |-> << >>, pos |-> 0]

(* The counter after a call that feeds k tokens, and the flag it leaves for  *)
(* the NEXT call.                                                            *)
Counted(m, k) ==
  [m EXCEPT !.length = @ + k,
            !.compression = IF (m.length + k) % DivideLength = 0 THEN "true" ELSE "false"]

(* The k positions a call feeds; the cache, or the position map, with them.  *)
Fed(k) == [j \in 1..k |-> live.pos + j - 1]

Grown(map, k) == map \o Fed(k)

(* Mutant of Attempts: a flag that was never set counts as False.            *)
Attempts_OnlyWhenTrue == model.compression = "true"

(* Attention asks the cluster to compact unless the flag is False; below the *)
(* budget the cluster does nothing and records nothing.                      *)
Attempts == model.compression # "false"

Fires(k) == Attempts /\ Len(live.cache) + k >= Budget

(* The slots a compaction of n slots can keep, in the order it stores them:  *)
(* the highest scores (whichever they are) of all but the window, then the   *)
(* window.                                                                   *)
Survivors(n) ==
  { [j \in 1..Budget |-> IF j <= Budget - Window THEN top[j] ELSE n - Budget + j] :
      top \in { t \in [1..(Budget - Window) -> 1..(n - Window)] :
                  \A i, j \in 1..(Budget - Window) : t[i] = t[j] => i = j } }

Gathered(map, slots) == [j \in 1..Budget |-> map[slots[j]]]

(* What the cluster records of them: slot numbers, translated through its    *)
(* previous record once something has been evicted.                          *)
Recorded(slots) ==
  [j \in 1..Budget |->
     IF model.evicted = 0 THEN slots[j] - 1
     ELSE IF slots[j] <= Budget THEN model.kept[slots[j]]
     ELSE slots[j] - 1 + model.evicted]

-----------------------------------------------------------------------------
(* A forward call with advance_after_forward behind it.  Without a           *)
(* compaction the cache and the position map grow by what was fed; with one  *)
(* the map is replaced by the cluster's newest record.                       *)
Grows(k) ==
  /\ ~Fires(k)
  /\ model' = Counted(model, k)
  /\ live' = [live EXCEPT !.cache = Grown(@, k), !.positions = Grown(@, k), !.pos = @ + k]

Compacts(k, slots) ==
  /\ Fires(k)
  /\ LET removed == Len(live.cache) + k - Budget
     IN /\ model' = [Counted(model, k) EXCEPT
                       !.evicted = @ + removed,
                       !.kept = Recorded(slots),
                       !.shuffled = @ \/ (model.evicted + removed = 0 /\ slots # Identity(Budget))]
        /\ live' = [cache |-> Gathered(Grown(live.cache, k), slots),
                    positions |-> Recorded(slots),
                    events |-> Append(live.events, live.pos + k),
                    pos |-> live.pos + k]

Forward(k) ==
  \/ Grows(k)
  \/ \E slots \in Survivors(Len(live.cache) + k) : Compacts(k, slots)

(* The position map an attached capture reads inside the call: the committed *)
(* one with the fed positions pending.                                       *)
Projected(k) == Grown(live.positions, k)

-----------------------------------------------------------------------------
(* Mutant of ResetPatchedState: the token counter survives the reset.        *)
ResetPatchedState_KeepsLength ==
  /\ model' = [FreshModel EXCEPT !.length = model.length]
  /\ live' = EmptyState

(* reset_patched_state with the fresh adapter state both passes start from.  *)
ResetPatchedState ==
  /\ model' = FreshModel
  /\ live' = EmptyState

(* capture_snapshot, evaluated after the call it follows, and                *)
(* restore_snapshot into a fresh cache.                                      *)
Snapshot == [model |-> model, live |-> live]

Restore(s) ==
  /\ model' = s.model
  /\ live' = s.live

(* Mutant of Swapped: the cluster's record keeps naming the donor.           *)
Swapped_OnlyTheMap(s, slot, contents, label) ==
  [s EXCEPT !.live.cache[slot] = contents, !.live.positions[slot] = label]

(* apply_semantic_within_head_swap on a clone of a snapshot: the contents of *)
(* one slot, and both records of what is in it.                              *)
Swapped(s, slot, contents, label) ==
  [model |-> [s.model EXCEPT !.kept = IF @ = << >> THEN @ ELSE [@ EXCEPT ![slot] = label]],
   live |-> [s.live EXCEPT !.cache[slot] = contents, !.positions[slot] = label]]

-----------------------------------------------------------------------------
(* The schedule as predicted without a model (analysis/rkv_schedule.py): per *)
(* simulated call the cache length, whether a compaction is counted, and the *)
(* flag left for the next.  Call 0 is the prefill; call i has processed      *)
(* prompt + i tokens.                                                        *)
Least(a, b) == IF a < b THEN a ELSE b

Divides(length) == length % DivideLength = 0

(* Mutant of Walk: the flag of a call decides for that call, not the next.   *)
Walk_FlagTooEarly(prompt, last) ==
  LET step[i \in 0..(last - prompt)] ==
        IF i = 0
        THEN [length |-> Least(prompt, Budget), event |-> prompt > Budget]
        ELSE LET grown == step[i - 1].length + 1
             IN IF Divides(prompt + i)
                THEN [length |-> Least(grown, Budget), event |-> grown > Budget]
                ELSE [length |-> grown, event |-> FALSE]
  IN step

Walk(prompt, last) ==
  LET step[i \in 0..(last - prompt)] ==
        IF i = 0
        THEN [length |-> Least(prompt, Budget), event |-> prompt > Budget]
        ELSE LET grown == step[i - 1].length + 1
             IN IF Divides(prompt + i - 1)
                THEN [length |-> Least(grown, Budget), event |-> grown > Budget]
                ELSE [length |-> grown, event |-> FALSE]
  IN step

(* Mutant of PredictedEvents: the positions are counted from one later.      *)
PredictedEvents_OneLater(prompt, last) ==
  LET step == Walk(prompt, last)
      found[i \in 0..(last - prompt)] ==
        LET before == IF i = 0 THEN << >> ELSE found[i - 1]
        IN IF step[i].event THEN Append(before, prompt + i + 1) ELSE before
  IN found[last - prompt]

(* predicted_compaction_event_positions: the positions of the walk so far at *)
(* which an event is counted.                                                *)
PredictedEvents(prompt, last) ==
  LET step == Walk(prompt, last)
      found[i \in 0..(last - prompt)] ==
        LET before == IF i = 0 THEN << >> ELSE found[i - 1]
        IN IF step[i].event THEN Append(before, prompt + i) ELSE before
  IN found[last - prompt]
=============================================================================
