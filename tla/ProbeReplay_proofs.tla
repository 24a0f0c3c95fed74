-------------------------- MODULE ProbeReplay_proofs --------------------------
(*****************************************************************************)
(* Proofs about ProbeReplay, for every trace, ranking, budget, window,       *)
(* distance between compactions, number of fractions and length of answers,  *)
(* and however often the commands are killed and started again: a probe's    *)
(* result is a function of the trace and the cut, and so is every anchor; a  *)
(* snapshot is the state the generation was in at that token; and a frozen   *)
(* probe sees the cache of its cut, undisturbed.                             *)
(*****************************************************************************)
EXTENDS ProbeReplay, JsonlFile_proofs, FiniteSetTheorems, WellFoundedInduction

-----------------------------------------------------------------------------
(* Numbers and chains of states.                                             *)
LEMMA LeastOne ==
  ASSUME NEW S \in SUBSET Nat, S # {}
  PROVE \E j \in S : \A i \in S : j <= i
<1> DEFINE R == OpToRel(<, Nat)
<1>1. IsWellFoundedOn(R, Nat)
  BY NatLessThanWellFounded
<1>2. \A x, y \in Nat : x < y => <<x, y>> \in R
  BY DEF OpToRel
<1> HIDE DEF R
<1>3. PICK j \in S : \A i \in S : ~(<<i, j>> \in R)
  BY <1>1, WFMin
<1>4. ASSUME NEW i \in S PROVE j <= i
  <2>1. ~(<<i, j>> \in R)
    BY <1>3
  <2>2. i \in Nat /\ j \in Nat
    OBVIOUS
  <2>3. ~(i < j)
    BY <1>2, <2>1, <2>2, Zenon
  <2> QED BY <2>2, <2>3
<1> QED BY <1>4

LEMMA MinIsLeast ==
  ASSUME NEW S \in SUBSET Nat, S # {}
  PROVE Min(S) \in S /\ \A i \in S : Min(S) <= i
<1>1. \E j \in S : \A i \in S : j <= i
  BY LeastOne
<1>2. QED
  BY <1>1 DEF Min

(* Two chains that start alike and go on alike are alike.                    *)
LEMMA EqualChains ==
  ASSUME NEW n \in Nat, NEW c, NEW d, c[0] = d[0],
         \A i \in 0..(n - 1) : c[i] = d[i] => c[i + 1] = d[i + 1]
  PROVE \A i \in 0..n : c[i] = d[i]
<1> DEFINE S == {i \in 0..n : c[i] # d[i]}
<1>1. SUFFICES ASSUME S # {} PROVE FALSE
  OBVIOUS
<1>2. PICK j \in S : \A i \in S : j <= i
  <2>1. S \in SUBSET Nat
    OBVIOUS
  <2> HIDE DEF S
  <2>2. QED
    BY <1>1, <2>1, LeastOne
<1>3. j \in 1..n
  OBVIOUS
<1>4. (j - 1) \in 0..(n - 1) /\ ~(j - 1 \in S)
  BY <1>2, <1>3
<1>5. c[j - 1] = d[j - 1]
  BY <1>4
<1>6. c[j - 1 + 1] = d[j - 1 + 1]
  BY <1>4, <1>5
<1>7. QED
  BY <1>3, <1>6

-----------------------------------------------------------------------------
(* A call as a function of the state it finds, of the tokens fed and of the  *)
(* ranking.                                                                  *)
Now == [model |-> model, live |-> live]

Fresh == [model |-> FreshModel, live |-> EmptyState]

Longer(s, map, k) == map \o [j \in 1..k |-> s.live.pos + j - 1]

Highest(map, r) ==
  CHOOSE slots \in Survivors(Len(map)) :
    \A i \in 1..(Budget - Window) : \A j \in 1..(Len(map) - Window) :
       \/ \E earlier \in 1..i : slots[earlier] = j
       \/ r[map[slots[i]]] > r[map[j]]

Compaction(s, k) == s.model.compression # "false" /\ Len(s.live.cache) + k >= Budget

Grew(s, k) ==
  [model |-> Counted(s.model, k),
   live |-> [s.live EXCEPT !.cache = Longer(s, @, k), !.positions = Longer(s, @, k), !.pos = @ + k]]

Kept(m, slots) ==
  [j \in 1..Budget |->
     IF m.evicted = 0 THEN slots[j] - 1
     ELSE IF slots[j] <= Budget THEN m.kept[slots[j]]
     ELSE slots[j] - 1 + m.evicted]

Compacted(s, k, slots) ==
  LET removed == Len(s.live.cache) + k - Budget
  IN [model |-> [Counted(s.model, k) EXCEPT
                   !.evicted = @ + removed,
                   !.kept = Kept(s.model, slots),
                   !.shuffled = @ \/ (s.model.evicted + removed = 0 /\ slots # Identity(Budget))],
      live |-> [cache |-> Gathered(Longer(s, s.live.cache, k), slots),
                positions |-> Kept(s.model, slots),
                events |-> Append(s.live.events, s.live.pos + k),
                pos |-> s.live.pos + k]]

After(s, k, r) ==
  IF Compaction(s, k) THEN Compacted(s, k, Highest(Longer(s, s.live.cache, k), r)) ELSE Grew(s, k)

LEMMA CallIsAfter ==
  ASSUME NEW k, Calls(k)
  PROVE Now' = After(Now, k, setup.ranking)
<1>1. Now.model = model /\ Now.live = live
  BY DEF Now
<1>2. Grown(live.cache, k) = Longer(Now, Now.live.cache, k)
  BY <1>1 DEF Grown, Fed, Longer
<1>3. Ranked(k) = Highest(Longer(Now, Now.live.cache, k), setup.ranking)
  BY <1>2 DEF Ranked, Highest
<1>4. Fires(k) <=> Compaction(Now, k)
  BY <1>1 DEF Fires, Attempts, Compaction
<1>5. CASE Grows(k)
  <2>1. ~Compaction(Now, k)
    BY <1>4, <1>5 DEF Grows
  <2>2. model' = Counted(model, k)
    BY <1>5 DEF Grows
  <2>3. live' = [live EXCEPT !.cache = Longer(Now, @, k), !.positions = Longer(Now, @, k),
                             !.pos = @ + k]
    BY <1>1, <1>5 DEF Grows, Grown, Fed, Longer
  <2>4. QED
    BY <1>1, <2>1, <2>2, <2>3 DEF Now, After, Grew
<1>6. CASE Compacts(k, Ranked(k))
  <2> DEFINE slots == Highest(Longer(Now, Now.live.cache, k), setup.ranking)
  <2>1. Compacts(k, slots) /\ Compaction(Now, k)
    BY <1>3, <1>4, <1>6 DEF Compacts
  <2> HIDE DEF slots
  <2>2. Recorded(slots) = Kept(Now.model, slots)
    BY <1>1 DEF Recorded, Kept
  <2>3. Now' = Compacted(Now, k, slots)
    BY <1>1, <1>2, <2>1, <2>2 DEF Now, Compacts, Compacted
  <2>4. QED
    BY <2>1, <2>3 DEF After, slots
<1>7. QED
  BY <1>5, <1>6 DEF Calls

(* The records a state is made of.                                           *)
Shape(s) ==
  /\ s = [model |-> s.model, live |-> s.live]
  /\ s.model = [length |-> s.model.length, compression |-> s.model.compression,
                evicted |-> s.model.evicted, kept |-> s.model.kept, shuffled |-> s.model.shuffled]
  /\ s.live = [cache |-> s.live.cache, positions |-> s.live.positions,
               events |-> s.live.events, pos |-> s.live.pos]
  /\ s.live.pos \in Nat

LEMMA FreshHasShape == Shape(Fresh) /\ Fresh.live.pos = 0
BY DEF Shape, Fresh, FreshModel, EmptyState

LEMMA CountedFields ==
  ASSUME NEW s, Shape(s), NEW k \in Nat
  PROVE \E flag : Counted(s.model, k) =
          [length |-> s.model.length + k, compression |-> flag, evicted |-> s.model.evicted,
           kept |-> s.model.kept, shuffled |-> s.model.shuffled]
<1> DEFINE flag == IF (s.model.length + k) % DivideLength = 0 THEN "true" ELSE "false"
<1>1. PICK a, b, c, d, e :
        s.model = [length |-> a, compression |-> b, evicted |-> c, kept |-> d, shuffled |-> e]
  BY DEF Shape
<1>2. Counted(s.model, k) = [s.model EXCEPT !.length = @ + k, !.compression = flag]
  BY DEF Counted
<1> HIDE DEF flag
<1>3. QED
  BY <1>1, <1>2

LEMMA GrewHasShape ==
  ASSUME NEW s, Shape(s), NEW k \in Nat
  PROVE /\ Shape(Grew(s, k))
        /\ Grew(s, k).model.evicted = s.model.evicted
        /\ Grew(s, k).live.cache = Longer(s, s.live.cache, k)
        /\ Grew(s, k).live.pos = s.live.pos + k
<1>1. PICK flag : Counted(s.model, k) =
          [length |-> s.model.length + k, compression |-> flag, evicted |-> s.model.evicted,
           kept |-> s.model.kept, shuffled |-> s.model.shuffled]
  BY CountedFields
<1>2. PICK a, b, c, d : s.live = [cache |-> a, positions |-> b, events |-> c, pos |-> d]
  BY DEF Shape
<1> DEFINE grown == Longer(s, s.live.cache, k)
           placed == Longer(s, s.live.positions, k)
           l == [s.live EXCEPT !.cache = grown, !.positions = placed, !.pos = @ + k]
<1>3. Grew(s, k) = [model |-> Counted(s.model, k), live |-> l]
  BY DEF Grew
<1> HIDE DEF grown, placed
<1>4. l = [cache |-> grown, positions |-> placed, events |-> s.live.events, pos |-> s.live.pos + k]
  <2>1. DOMAIN s.live = {"cache", "positions", "events", "pos"}
    BY <1>2
  <2>2. DOMAIN l = {"cache", "positions", "events", "pos"}
    BY <2>1
  <2>3. /\ l.cache = grown /\ l.positions = placed /\ l.events = s.live.events
        /\ l.pos = s.live.pos + k
    BY <2>1
  <2>4. l = [f \in DOMAIN l |-> l[f]]
    OBVIOUS
  <2> HIDE DEF l
  <2>5. QED
    BY <2>2, <2>3, <2>4
<1>5. s.live.pos + k \in Nat
  BY DEF Shape
<1> HIDE DEF l
<1>6. QED
  BY <1>1, <1>3, <1>4, <1>5 DEF Shape, grown

LEMMA CompactedHasShape ==
  ASSUME NEW s, Shape(s), NEW k \in Nat, NEW slots
  PROVE /\ Shape(Compacted(s, k, slots))
        /\ Compacted(s, k, slots).live.cache = Gathered(Longer(s, s.live.cache, k), slots)
        /\ Compacted(s, k, slots).live.pos = s.live.pos + k
<1>1. PICK flag : Counted(s.model, k) =
          [length |-> s.model.length + k, compression |-> flag, evicted |-> s.model.evicted,
           kept |-> s.model.kept, shuffled |-> s.model.shuffled]
  BY CountedFields
<1> DEFINE removed == Len(s.live.cache) + k - Budget
           kept == Kept(s.model, slots)
           reordered == s.model.evicted + removed = 0 /\ slots # Identity(Budget)
           m == [Counted(s.model, k) EXCEPT !.evicted = @ + removed, !.kept = kept,
                                            !.shuffled = @ \/ reordered]
           gathered == Gathered(Longer(s, s.live.cache, k), slots)
           noted == Append(s.live.events, s.live.pos + k)
<1>2. Compacted(s, k, slots) =
        [model |-> m,
         live |-> [cache |-> gathered, positions |-> kept, events |-> noted,
                   pos |-> s.live.pos + k]]
  BY DEF Compacted
<1> HIDE DEF removed, kept, reordered, gathered, noted
<1>3. PICK e, f, g :
        m = [length |-> s.model.length + k, compression |-> flag, evicted |-> e,
             kept |-> f, shuffled |-> g]
  <2> DEFINE old == Counted(s.model, k)
             names == {"length", "compression", "evicted", "kept", "shuffled"}
  <2>1. DOMAIN old = names
    BY <1>1
  <2>2. DOMAIN m = names
    BY <2>1
  <2>3. m.length = old.length /\ m.compression = old.compression
    BY <2>1
  <2>4. old.length = s.model.length + k /\ old.compression = flag
    BY <1>1
  <2>5. m = [f \in DOMAIN m |-> m[f]]
    OBVIOUS
  <2> HIDE DEF m, old
  <2>6. m = [length |-> m.length, compression |-> m.compression, evicted |-> m.evicted,
             kept |-> m.kept, shuffled |-> m.shuffled]
    BY <2>2, <2>5
  <2>7. QED
    BY <2>3, <2>4, <2>6
<1>4. s.live.pos + k \in Nat
  BY DEF Shape
<1> HIDE DEF m
<1>5. QED
  BY <1>2, <1>3, <1>4 DEF Shape, gathered

LEMMA AfterHasShape ==
  ASSUME NEW s, Shape(s), NEW k \in Nat, NEW r
  PROVE Shape(After(s, k, r)) /\ After(s, k, r).live.pos = s.live.pos + k
<1>1. CASE Compaction(s, k)
  BY <1>1, CompactedHasShape DEF After
<1>2. CASE ~Compaction(s, k)
  BY <1>2, GrewHasShape DEF After
<1>3. QED
  BY <1>1, <1>2

-----------------------------------------------------------------------------
(* The replay of a trace: the state after its prompt and n tokens.           *)
IsReplay(c, t, r, n) ==
  /\ c[0] = After(Fresh, Len(t.prompt), r)
  /\ \A i \in 0..(n - 1) : c[i + 1] = After(c[i], 1, r)

Reached(t, r, n, s) == \E c : IsReplay(c, t, r, n) /\ c[n] = s

LEMMA ReachedIsUnique ==
  ASSUME NEW t, NEW r, NEW n \in Nat, NEW s, Reached(t, r, n, s), NEW u, Reached(t, r, n, u)
  PROVE s = u
<1>1. PICK c : IsReplay(c, t, r, n) /\ c[n] = s
  BY DEF Reached
<1>2. PICK d : IsReplay(d, t, r, n) /\ d[n] = u
  BY DEF Reached
<1>3. c[0] = d[0]
  BY <1>1, <1>2 DEF IsReplay
<1>4. ASSUME NEW i \in 0..(n - 1), c[i] = d[i] PROVE c[i + 1] = d[i + 1]
  BY <1>1, <1>2, <1>4 DEF IsReplay
<1>5. \A i \in 0..n : c[i] = d[i]
  BY <1>3, <1>4, EqualChains
<1>6. QED
  BY <1>1, <1>2, <1>5

LEMMA PromptReached ==
  ASSUME NEW t, NEW r
  PROVE Reached(t, r, 0, After(Fresh, Len(t.prompt), r))
<1> DEFINE c == [i \in {0} |-> After(Fresh, Len(t.prompt), r)]
<1>1. IsReplay(c, t, r, 0) /\ c[0] = After(Fresh, Len(t.prompt), r)
  BY DEF IsReplay
<1>2. QED
  BY <1>1 DEF Reached

(* A chain, and one more call.                                               *)
Extended(c, n, s) == [i \in 0..(n + 1) |-> IF i = n + 1 THEN s ELSE c[i]]

LEMMA ExtendedFacts ==
  ASSUME NEW c, NEW n \in Nat, NEW s
  PROVE /\ Extended(c, n, s)[n + 1] = s
        /\ \A i \in 0..n : Extended(c, n, s)[i] = c[i]
BY DEF Extended

LEMMA TokenReached ==
  ASSUME NEW t, NEW r, NEW n \in Nat, NEW s, Reached(t, r, n, s)
  PROVE Reached(t, r, n + 1, After(s, 1, r))
<1>1. PICK c : IsReplay(c, t, r, n) /\ c[n] = s
  BY DEF Reached
<1> DEFINE d == Extended(c, n, After(s, 1, r))
<1>2. d[n + 1] = After(s, 1, r) /\ \A i \in 0..n : d[i] = c[i]
  BY ExtendedFacts
<1> HIDE DEF d
<1>3. d[0] = After(Fresh, Len(t.prompt), r)
  BY <1>1, <1>2 DEF IsReplay
<1>4. ASSUME NEW i \in 0..n PROVE d[i + 1] = After(d[i], 1, r)
  <2>1. CASE i = n
    BY <1>1, <1>2, <2>1
  <2>2. CASE i # n
    <3>1. i \in 0..(n - 1) /\ i + 1 \in 0..n
      BY <2>2
    <3>2. c[i + 1] = After(c[i], 1, r)
      BY <1>1, <3>1 DEF IsReplay
    <3>3. QED
      BY <1>2, <3>1, <3>2
  <2>3. QED
    BY <2>1, <2>2
<1>5. IsReplay(d, t, r, n + 1)
  BY <1>3, <1>4 DEF IsReplay
<1>6. QED
  BY <1>2, <1>5 DEF Reached

-----------------------------------------------------------------------------
(* A probe branched from a snapshot: the states after n tokens of it.        *)
AfterFeed(s, frozen, r) ==
  After(IF frozen THEN [s EXCEPT !.model.compression = "false"] ELSE s, 1, r)

IsFeeding(c, s, frozen, r, n) ==
  /\ c[0] = s
  /\ \A i \in 0..(n - 1) : c[i + 1] = AfterFeed(c[i], frozen, r)

FirstOf(c, n) == IF n >= ForcedTokens THEN c[ForcedTokens].live.cache ELSE << >>

More(n, first) ==
  \/ n < ForcedTokens
  \/ /\ n < ForcedTokens + MaxAnswer
     /\ n < ForcedTokens + AnswerLength(first) - 1

(* The tokens up to the n-th were all fed because more were to be.           *)
FedSoFar(c, n) == \A i \in 1..(n - 1) : More(i, FirstOf(c, i))

ResultOf(c, s, n) ==
  [answer |-> <<FirstOf(c, n), c[n].live.cache>>,
   evicted |-> Len(c[n].live.cache) < Len(s.live.cache) + n]

IsProbe(s, frozen, r, result) ==
  \E n \in Nat \ {0} : \E c :
     /\ IsFeeding(c, s, frozen, r, n)
     /\ FedSoFar(c, n)
     /\ ~More(n, FirstOf(c, n))
     /\ result = ResultOf(c, s, n)

LEMMA ProbeIsUniqueUpTo ==
  ASSUME NEW s, NEW frozen, NEW r,
         NEW n \in Nat \ {0}, NEW c, IsFeeding(c, s, frozen, r, n), FedSoFar(c, n),
         ~More(n, FirstOf(c, n)),
         NEW m \in Nat \ {0}, NEW d, IsFeeding(d, s, frozen, r, m), FedSoFar(d, m),
         n <= m
  PROVE n = m /\ ResultOf(c, s, n) = ResultOf(d, s, m)
<1>1. c[0] = d[0]
  BY DEF IsFeeding
<1>2. ASSUME NEW i \in 0..(n - 1), c[i] = d[i] PROVE c[i + 1] = d[i + 1]
  <2>1. i \in 0..(m - 1)
    OBVIOUS
  <2>2. QED
    BY <1>2, <2>1 DEF IsFeeding
<1>3. \A i \in 0..n : c[i] = d[i]
  BY <1>1, <1>2, EqualChains
<1>4. FirstOf(c, n) = FirstOf(d, n)
  <2>1. CASE n >= ForcedTokens
    <3>1. ForcedTokens \in 0..n
      BY <2>1, ProbeAssumption
    <3>2. QED
      BY <1>3, <3>1 DEF FirstOf
  <2>2. CASE ~(n >= ForcedTokens)
    BY <2>2 DEF FirstOf
  <2>3. QED
    BY <2>1, <2>2
<1>5. n = m
  <2>1. SUFFICES ASSUME n # m PROVE FALSE
    OBVIOUS
  <2>2. n \in 1..(m - 1)
    BY <2>1
  <2>3. QED
    BY <1>4, <2>2 DEF FedSoFar
<1>6. QED
  BY <1>3, <1>4, <1>5 DEF ResultOf

LEMMA ProbeIsUnique ==
  ASSUME NEW s, NEW frozen, NEW r, NEW a, IsProbe(s, frozen, r, a), NEW b, IsProbe(s, frozen, r, b)
  PROVE a = b
<1>1. PICK n \in Nat \ {0} : \E c :
        /\ IsFeeding(c, s, frozen, r, n) /\ FedSoFar(c, n)
        /\ ~More(n, FirstOf(c, n)) /\ a = ResultOf(c, s, n)
  BY DEF IsProbe
<1>2. PICK m \in Nat \ {0} : \E c :
        /\ IsFeeding(c, s, frozen, r, m) /\ FedSoFar(c, m)
        /\ ~More(m, FirstOf(c, m)) /\ b = ResultOf(c, s, m)
  BY DEF IsProbe
<1>3. CASE n <= m
  BY <1>1, <1>2, <1>3, ProbeIsUniqueUpTo
<1>4. CASE m <= n
  BY <1>1, <1>2, <1>4, ProbeIsUniqueUpTo
<1>5. QED
  BY <1>3, <1>4

(* The result of a probe that starts at a position of a trace.               *)
IsResult(t, r, frozen, cut, result) ==
  \E s : Reached(t, r, cut - Len(t.prompt), s) /\ IsProbe(s, frozen, r, result)

LEMMA ResultIsUnique ==
  ASSUME NEW t, NEW r, NEW frozen, NEW cut, cut - Len(t.prompt) \in Nat,
         NEW a, IsResult(t, r, frozen, cut, a), NEW b, IsResult(t, r, frozen, cut, b)
  PROVE a = b
<1>1. PICK s : Reached(t, r, cut - Len(t.prompt), s) /\ IsProbe(s, frozen, r, a)
  BY DEF IsResult
<1>2. PICK u : Reached(t, r, cut - Len(t.prompt), u) /\ IsProbe(u, frozen, r, b)
  BY DEF IsResult
<1>3. s = u
  BY <1>1, <1>2, ReachedIsUnique
<1>4. QED
  BY <1>1, <1>2, <1>3, ProbeIsUnique

-----------------------------------------------------------------------------
(* The think span lies in the generated tokens.                              *)
LEMMA MinOfNat ==
  ASSUME NEW S, S \subseteq Nat, S # {}
  PROVE Min(S) \in S /\ Min(S) \in Nat /\ \A i \in S : Min(S) <= i
BY MinIsLeast

LEMMA Quotient ==
  ASSUME NEW a \in Nat, NEW d \in Nat \ {0}
  PROVE a \div d \in Nat /\ d * (a \div d) <= a
OBVIOUS

LEMMA ProductIsNat ==
  ASSUME NEW a \in Nat, NEW b \in Nat
  PROVE a * b \in Nat
OBVIOUS

LEMMA SpanFacts ==
  ASSUME NEW t \in Traces, Parsed(t)
  PROVE /\ Len(t.prompt) \in Nat
        /\ Len(t.generated) \in Nat
        /\ ThinkStart(t) \in Nat
        /\ ThinkEnd(t) \in Nat
        /\ ThinkStart(t) <= ThinkEnd(t)
        /\ ThinkEnd(t) + 1 \in 1..Len(t.generated)
        /\ t.generated[ThinkEnd(t) + 1] = "close"
        /\ ThinkStart(t) = 0 => EndsInsideOpenBlock(t.prompt)
        /\ ThinkStart(t) # 0 => t.generated[ThinkStart(t)] = "open"
<1>1. /\ t.prompt \in Seq(Tokens) /\ t.generated \in Seq(Tokens)
  BY TraceAssumption
<1>2. /\ Len(t.prompt) \in Nat /\ Len(t.generated) \in Nat
      /\ DOMAIN t.generated = 1..Len(t.generated)
  BY <1>1
<1>3. /\ ThinkStart(t) \in Nat
      /\ ThinkStart(t) = 0 => EndsInsideOpenBlock(t.prompt)
      /\ ThinkStart(t) # 0 => t.generated[ThinkStart(t)] = "open"
  <2>1. ThinkStart(t) >= 0
    BY DEF Parsed
  <2>2. CASE EndsInsideOpenBlock(t.prompt)
    BY <2>2 DEF ThinkStart
  <2>3. CASE ~EndsInsideOpenBlock(t.prompt)
    <3> DEFINE opens == Places("open", t.generated)
    <3>1. opens # {} /\ ThinkStart(t) = Min(opens)
      BY <2>1, <2>3 DEF ThinkStart
    <3>2. opens \subseteq 1..Len(t.generated) /\ \A i \in opens : t.generated[i] = "open"
      BY <1>2 DEF Places
    <3> HIDE DEF opens
    <3>3. opens \subseteq Nat
      BY <3>2
    <3>4. Min(opens) \in opens
      BY <3>1, <3>3, MinOfNat
    <3>5. Min(opens) \in 1..Len(t.generated) /\ t.generated[Min(opens)] = "open"
      BY <3>2, <3>4
    <3>6. Min(opens) \in Nat /\ Min(opens) # 0
      BY <1>2, <3>5
    <3>7. QED
      BY <3>1, <3>5, <3>6
  <2>4. QED
    BY <2>2, <2>3
<1>4. /\ Closings(t) # {}
      /\ Closings(t) \subseteq 1..Len(t.generated)
      /\ \A i \in Closings(t) : i > ThinkStart(t) /\ t.generated[i] = "close"
  BY <1>2 DEF Parsed, Closings, Places
<1>5. Closings(t) \subseteq Nat
  BY <1>2, <1>4
<1>6. Min(Closings(t)) \in Closings(t)
  BY <1>4, <1>5, MinOfNat
<1> DEFINE first == Min(Closings(t))
<1>7. /\ first \in 1..Len(t.generated)
      /\ first > ThinkStart(t)
      /\ t.generated[first] = "close"
  BY <1>4, <1>6
<1>8. ThinkEnd(t) = first - 1
  BY DEF ThinkEnd
<1> HIDE DEF first
<1>9. QED
  BY <1>2, <1>3, <1>7, <1>8

LEMMA CutFacts ==
  ASSUME NEW t \in Traces, Parsed(t), NEW f \in Fractions
  PROVE /\ CutPosition(t, f) - Len(t.prompt) \in Nat
        /\ CutPosition(t, f) \in Nat
        /\ CutPosition(t, f) <= Len(t.prompt) + ThinkEnd(t)
        /\ f = 0 => CutPosition(t, f) = Len(t.prompt) + ThinkStart(t)
        /\ f = Denominator => CutPosition(t, f) = Len(t.prompt) + ThinkEnd(t)
<1> DEFINE n == ThinkEnd(t) - ThinkStart(t)
           d == Denominator
           q == (f * n) \div d
<1>1. /\ Len(t.prompt) \in Nat /\ ThinkStart(t) \in Nat /\ ThinkEnd(t) \in Nat
      /\ n \in Nat /\ d \in Nat \ {0} /\ f \in Nat /\ f <= d
  BY SpanFacts, ProbeAssumption DEF Fractions
<1>2. CutPosition(t, f) = Len(t.prompt) + ThinkStart(t) + q
  BY DEF CutPosition
<1>3. n = ThinkEnd(t) - ThinkStart(t)
  OBVIOUS
<1> HIDE DEF n, d
<1>4. f * n \in Nat /\ f * n <= d * n
  BY <1>1
<1>5. q \in Nat /\ d * q <= f * n
  BY <1>1, <1>4, Quotient
<1>6. q <= n
  <2> HIDE DEF q
  <2>1. SUFFICES ASSUME q >= n + 1 PROVE FALSE
    BY <1>1, <1>5
  <2>2. d * q >= d * (n + 1)
    BY <1>1, <1>5, <2>1
  <2>3. d * (n + 1) = d * n + d
    BY <1>1
  <2>4. d * n \in Nat /\ d * q \in Nat
    BY <1>1, <1>5
  <2>5. QED
    BY <1>1, <1>4, <1>5, <2>2, <2>3, <2>4
<1>7. f = 0 => q = 0
  BY <1>1
<1>8. f = d => q = n
  <2>1. d * n \in Nat /\ (d * n) \div d = n
    BY <1>1
  <2>2. QED
    BY <2>1
<1> HIDE DEF q
<1>9. /\ CutPosition(t, f) - Len(t.prompt) \in Nat /\ CutPosition(t, f) \in Nat
      /\ CutPosition(t, f) <= Len(t.prompt) + ThinkEnd(t)
  <2>1. q \in Nat
    BY <1>5
  <2> DEFINE a == Len(t.prompt)
             b == ThinkStart(t)
             e == ThinkEnd(t)
             p == CutPosition(t, f)
  <2>2. a \in Nat /\ b \in Nat /\ e \in Nat /\ q <= e - b /\ p = a + b + q
    BY <1>1, <1>2, <1>3, <1>6
  <2> HIDE DEF a, b, e, p
  <2>3. p - a \in Nat /\ p \in Nat /\ p <= a + e
    BY <2>1, <2>2
  <2>4. QED
    BY <2>3 DEF a, e, p
<1>10. f = 0 => CutPosition(t, f) = Len(t.prompt) + ThinkStart(t)
  BY <1>1, <1>2, <1>7
<1>11. f = Denominator => CutPosition(t, f) = Len(t.prompt) + ThinkEnd(t)
  BY <1>1, <1>2, <1>3, <1>8 DEF d
<1>12. QED
  BY <1>9, <1>10, <1>11

-----------------------------------------------------------------------------
(* What a process's local variables hold.  `p` is the process, `s` the model *)
(* and the state beside it, `su` the setup.                                  *)
ProcNames == {"at", "row", "tokens", "snapshots", "fraction", "probe", "results", "seen"}

Probing == {"freeze", "feed", "judge"}

AtAProbe == Probing \cup {"branch", "write"}

Replaying == AtAProbe \cup {"reset", "prefill", "decode"}

Phases == Replaying \cup {"generate", "base", "down", "done", "failed"}

TraceOf(p, su) == su.traces[p.row]

FrozenIn(su) == su.mode = "frozen_at_cut"

Located(p, su) ==
  /\ DOMAIN p = ProcNames
  /\ p.at \in Phases
  /\ p.at \in Replaying \/ DOMAIN p.snapshots # {} => p.row \in Rows /\ Parsed(TraceOf(p, su))
  /\ p.at \in {"generate", "base"} => p.row \in Rows
  /\ p.tokens \in Nat
  /\ p.at \in {"reset", "prefill"} => p.tokens = 0
  /\ p.at \in {"reset", "prefill", "decode"} => DOMAIN p.results = {}
  /\ p.at \in AtAProbe => DOMAIN p.snapshots = Fractions
  /\ p.at \in Replaying => p.fraction \in Fractions

(* A snapshot is the state of the trace's replay at its cut.                 *)
IsCut(t, f, r, snapshot) ==
  /\ f \in Fractions
  /\ Shape(snapshot)
  /\ snapshot.live.pos = CutPosition(t, f)
  /\ Reached(t, r, CutPosition(t, f) - Len(t.prompt), snapshot)

Cuts(p, su) ==
  \A f \in DOMAIN p.snapshots : IsCut(TraceOf(p, su), f, su.ranking, p.snapshots[f])

Results(p, su) ==
  \A f \in DOMAIN p.results :
     /\ f \in Fractions
     /\ IsResult(TraceOf(p, su), su.ranking, FrozenIn(su), CutPosition(TraceOf(p, su), f),
                 p.results[f])

Replays(p, s, su) ==
  /\ p.at = "prefill" => s = Fresh
  /\ p.at = "decode" =>
       /\ Reached(TraceOf(p, su), su.ranking, p.tokens, s)
       /\ s.live.pos = Len(TraceOf(p, su).prompt) + p.tokens

Unflagged(s, frozen) == IF frozen THEN [s EXCEPT !.model.compression = "false"] ELSE s

(* The probe under way is a chain of states from its snapshot on.            *)
Feeding(c, p, s, su) ==
  LET cut == p.snapshots[p.fraction]
      n == p.probe.fed
  IN /\ DOMAIN p.probe = {"cut", "fed", "first", "last", "evicted"}
     /\ n \in Nat
     /\ p.probe.cut = cut.live.cache
     /\ IsFeeding(c, cut, FrozenIn(su), su.ranking, n)
     /\ FedSoFar(c, n)
     /\ p.probe.first = FirstOf(c, n)
     /\ n > 0 => p.probe.last = c[n].live.cache
     /\ p.at = "judge" => n > 0 /\ ~More(n, FirstOf(c, n)) /\ s = c[n]
     /\ p.at # "judge" /\ n > 0 => More(n, FirstOf(c, n))
     /\ p.at = "freeze" => FrozenIn(su) /\ s = c[n]
     /\ p.at = "feed" => s = Unflagged(c[n], FrozenIn(su))

Feeds(p, s, su) == p.at \in Probing => \E c : Feeding(c, p, s, su)

ProcOK(p, s, su) ==
  /\ Shape(s)
  /\ Located(p, su)
  /\ Cuts(p, su)
  /\ Results(p, su)
  /\ Replays(p, s, su)
  /\ Feeds(p, s, su)

(* Only these variables of the process matter to its snapshots and results.  *)
LEMMA CutsStay ==
  ASSUME NEW p, NEW q, NEW su, Cuts(p, su), q.row = p.row, q.snapshots = p.snapshots
  PROVE Cuts(q, su)
BY DEF Cuts, TraceOf

LEMMA ResultsStay ==
  ASSUME NEW p, NEW q, NEW su, Results(p, su), q.row = p.row, q.results = p.results
  PROVE Results(q, su)
BY DEF Results, TraceOf

LEMMA IdleFields ==
  /\ DOMAIN Idle = ProcNames
  /\ Idle.at = "down" /\ Idle.tokens = 0 /\ DOMAIN Idle.snapshots = {} /\ DOMAIN Idle.results = {}
  /\ Idle.fraction \in Fractions
BY ProbeAssumption DEF Idle, ProcNames, Fractions

(* A process without snapshots and results.                                  *)
LEMMA BlankIsOK ==
  ASSUME NEW p, NEW su, NEW s, Shape(s), DOMAIN p = ProcNames,
         p.at \in {"down", "failed", "done", "generate", "base", "reset"},
         p.at \in {"generate", "base"} => p.row \in Rows,
         p.at = "reset" =>
           p.row \in Rows /\ Parsed(TraceOf(p, su)) /\ p.tokens = 0 /\ p.fraction \in Fractions,
         p.tokens \in Nat, DOMAIN p.snapshots = {}, DOMAIN p.results = {}
  PROVE ProcOK(p, s, su)
<1>1. Located(p, su)
  BY DEF Located, Phases, Replaying, AtAProbe, Probing
<1>2. Cuts(p, su) /\ Results(p, su)
  BY DEF Cuts, Results
<1>3. Replays(p, s, su) /\ Feeds(p, s, su)
  BY DEF Replays, Feeds, Probing
<1>4. QED
  BY <1>1, <1>2, <1>3 DEF ProcOK

LEMMA GoToRowIsOK ==
  ASSUME NEW p, NEW su, NEW s, Shape(s), Located(p, su), Cuts(p, su), Results(p, su),
         NEW rows, \A row \in rows : row \in Rows /\ Parsed(su.traces[row])
  PROVE ProcOK(GoToRow(p, rows), s, su)
<1>1. CASE rows = {}
  <2> DEFINE q == [p EXCEPT !.at = "done"]
  <2>1. GoToRow(p, rows) = q
    BY <1>1 DEF GoToRow
  <2>2. /\ DOMAIN q = ProcNames /\ q.at = "done" /\ q.row = p.row /\ q.tokens = p.tokens
        /\ q.snapshots = p.snapshots /\ q.results = p.results
    BY DEF Located, ProcNames
  <2> HIDE DEF q
  <2>3. Located(q, su)
    BY <2>2 DEF Located, Phases, Replaying, AtAProbe, Probing, TraceOf
  <2>4. Cuts(q, su) /\ Results(q, su)
    BY <2>2, CutsStay, ResultsStay
  <2>5. Replays(q, s, su) /\ Feeds(q, s, su)
    BY <2>2 DEF Replays, Feeds, Probing
  <2>6. QED
    BY <2>1, <2>3, <2>4, <2>5 DEF ProcOK
<1>2. CASE rows # {}
  <2> DEFINE q == [Idle EXCEPT !.at = "reset", !.row = Min(rows), !.seen = p.seen]
  <2>1. GoToRow(p, rows) = q
    BY <1>2 DEF GoToRow
  <2>2. /\ DOMAIN q = ProcNames /\ q.at = "reset" /\ q.row = Min(rows) /\ q.tokens = 0
        /\ q.snapshots = Idle.snapshots /\ q.results = Idle.results
        /\ q.fraction = Idle.fraction
    BY IdleFields DEF ProcNames
  <2> HIDE DEF q
  <2>3. rows \subseteq Nat
    BY ProbeAssumption
  <2>4. Min(rows) \in rows
    BY <1>2, <2>3, MinOfNat
  <2>5. q.row \in Rows /\ Parsed(TraceOf(q, su))
    BY <2>2, <2>4 DEF TraceOf
  <2>6. ProcOK(q, s, su)
    BY <2>2, <2>5, IdleFields, BlankIsOK
  <2>7. QED
    BY <2>1, <2>6
<1>3. QED
  BY <1>1, <1>2

LEMMA NextRowIsOK ==
  ASSUME NEW p, NEW s, Shape(s), Located(p, setup), Cuts(p, setup), Results(p, setup)
  PROVE ProcOK(NextRow(p), s, setup)
<1> DEFINE rows == {row \in Rows : row > p.row /\ Replayed(row, p.seen)}
<1>1. \A row \in rows : row \in Rows /\ Parsed(setup.traces[row])
  BY DEF Replayed
<1>2. NextRow(p) = GoToRow(p, rows)
  BY DEF NextRow
<1> HIDE DEF rows
<1>3. QED
  BY <1>1, <1>2, GoToRowIsOK

(* The probe after the n-th of a row, and what follows the last.             *)
LEMMA AfterProbeIsOK ==
  ASSUME NEW p, NEW s, NEW n, Shape(s), Located(p, setup), Cuts(p, setup), Results(p, setup),
         DOMAIN p.snapshots = Fractions, p.fraction \in Fractions
  PROVE ProcOK(AfterProbe(p, n), s, setup)
<1> DEFINE later == {m \in ToProbe(p) : m > n}
<1>1. p.row \in Rows /\ Parsed(TraceOf(p, setup))
  <2>1. DOMAIN p.snapshots # {}
    BY ProbeAssumption DEF Fractions
  <2>2. QED
    BY <2>1 DEF Located
<1>2. CASE later # {}
  <2> DEFINE f == ProbeOrder[Min(later)]
             q == [p EXCEPT !.at = "branch", !.fraction = f]
  <2>1. AfterProbe(p, n) = q
    BY <1>2 DEF AfterProbe
  <2>2. later \subseteq 1..(Denominator + 1)
    BY DEF ToProbe
  <2>3. Min(later) \in 1..(Denominator + 1)
    <3>1. later \subseteq Nat
      BY <2>2
    <3> HIDE DEF later
    <3>2. QED
      BY <1>2, <2>2, <3>1, MinOfNat
  <2> HIDE DEF later
  <2>4. f \in Fractions
    BY <2>3, ProbeAssumption DEF ProbeOrder, Fractions
  <2> HIDE DEF f
  <2>5. /\ DOMAIN q = ProcNames /\ q.at = "branch" /\ q.row = p.row /\ q.tokens = p.tokens
        /\ q.snapshots = p.snapshots /\ q.results = p.results /\ q.fraction = f
    BY DEF Located, ProcNames
  <2> HIDE DEF q
  <2>6. Located(q, setup)
    BY <1>1, <2>4, <2>5 DEF Located, Phases, Replaying, AtAProbe, Probing, TraceOf
  <2>7. Cuts(q, setup) /\ Results(q, setup)
    BY <2>5, CutsStay, ResultsStay
  <2>8. Replays(q, s, setup) /\ Feeds(q, s, setup)
    BY <2>5 DEF Replays, Feeds, Probing
  <2>9. QED
    BY <2>1, <2>6, <2>7, <2>8 DEF ProcOK
<1>3. CASE later = {} /\ Fixed
  <2> DEFINE q == [p EXCEPT !.at = "write"]
  <2>1. AfterProbe(p, n) = q
    BY <1>3 DEF AfterProbe
  <2>2. /\ DOMAIN q = ProcNames /\ q.at = "write" /\ q.row = p.row /\ q.tokens = p.tokens
        /\ q.snapshots = p.snapshots /\ q.results = p.results /\ q.fraction = p.fraction
    BY DEF Located, ProcNames
  <2> HIDE DEF q
  <2>3. Located(q, setup)
    BY <1>1, <2>2 DEF Located, Phases, Replaying, AtAProbe, Probing, TraceOf
  <2>4. Cuts(q, setup) /\ Results(q, setup)
    BY <2>2, CutsStay, ResultsStay
  <2>5. Replays(q, s, setup) /\ Feeds(q, s, setup)
    BY <2>2 DEF Replays, Feeds, Probing
  <2>6. QED
    BY <2>1, <2>3, <2>4, <2>5 DEF ProcOK
<1>4. CASE later = {} /\ ~Fixed
  <2>1. AfterProbe(p, n) = NextRow(p)
    BY <1>4 DEF AfterProbe
  <2>2. QED
    BY <2>1, NextRowIsOK
<1>5. QED
  BY <1>2, <1>3, <1>4

(* A process that moves on with the snapshots and results it has.            *)
LEMMA MovedIsOK ==
  ASSUME NEW p, NEW q, NEW su, NEW s, Shape(s), Located(p, su), Cuts(p, su), Results(p, su),
         DOMAIN q = ProcNames, q.row = p.row, q.snapshots = p.snapshots, q.results = p.results,
         q.tokens \in Nat, q.at \in {"base", "failed", "done"}, q.at = "base" => p.row \in Rows
  PROVE ProcOK(q, s, su)
<1>1. Located(q, su)
  BY DEF Located, Phases, Replaying, AtAProbe, Probing, TraceOf
<1>2. Cuts(q, su) /\ Results(q, su)
  BY CutsStay, ResultsStay
<1>3. Replays(q, s, su) /\ Feeds(q, s, su)
  BY DEF Replays, Feeds, Probing
<1>4. QED
  BY <1>1, <1>2, <1>3 DEF ProcOK

-----------------------------------------------------------------------------
(* The steps of the process keep what its variables hold.                    *)
SetupOK ==
  /\ setup.traces \in [Rows -> Traces]
  /\ setup.ranking \in Rankings

LEMMA CallKeepsShape ==
  ASSUME NEW k \in Nat, Calls(k), Shape(Now)
  PROVE Shape(Now') /\ live'.pos = live.pos + k
<1>1. Now' = After(Now, k, setup.ranking)
  BY CallIsAfter
<1>2. Shape(Now') /\ Now'.live.pos = Now.live.pos + k
  BY <1>1, AfterHasShape
<1>3. Now.live = live /\ Now'.live = live'
  BY DEF Now
<1>4. QED
  BY <1>2, <1>3

LEMMA ResetIsFresh ==
  ASSUME model' = FreshModel, live' = EmptyState
  PROVE Now' = Fresh /\ Shape(Now')
BY FreshHasShape DEF Now, Fresh

LEMMA TraceFacts ==
  ASSUME SetupOK, proc.row \in Rows
  PROVE /\ Trace \in Traces
        /\ Trace = TraceOf(proc, setup)
        /\ Len(Trace.prompt) \in Nat
        /\ Len(Trace.generated) \in Nat
<1>1. Trace \in Traces
  BY DEF SetupOK, Trace
<1>2. Trace.prompt \in Seq(Tokens) /\ Trace.generated \in Seq(Tokens)
  BY <1>1, TraceAssumption
<1>3. QED
  BY <1>1, <1>2, SMTT(30) DEF Trace, TraceOf

LEMMA BaseProcOK ==
  ASSUME SetupOK, ProcOK(proc, Now, setup), BaseReset \/ BasePrefill \/ BaseDecode \/ BaseFinish
  PROVE ProcOK(proc', Now', setup)
<1> USE DEF ProcOK
<1>1. /\ DOMAIN proc = ProcNames /\ proc.tokens \in Nat
      /\ proc.at \in {"generate", "base"} => proc.row \in Rows
  BY DEF Located
<1>2. CASE BaseReset
  <2>1. Shape(Now')
    BY <1>2, ResetIsFresh DEF BaseReset, ResetPatchedState
  <2>2. proc.at = "generate" /\ proc' = [proc EXCEPT !.at = "base", !.tokens = 0]
    BY <1>2 DEF BaseReset
  <2>3. /\ DOMAIN proc' = ProcNames /\ proc'.at = "base" /\ proc'.tokens \in Nat
        /\ proc'.row = proc.row /\ proc'.snapshots = proc.snapshots
        /\ proc'.results = proc.results
    BY <1>1, <2>2 DEF ProcNames
  <2>4. QED
    BY <1>1, <2>1, <2>2, <2>3, MovedIsOK
<1>3. CASE BasePrefill
  <2>1. Calls(Len(Trace.prompt)) /\ proc' = proc /\ proc.at = "base"
    BY <1>3 DEF BasePrefill
  <2>2. Len(Trace.prompt) \in Nat
    BY <1>1, <2>1, TraceFacts
  <2>3. Shape(Now')
    BY <2>1, <2>2, CallKeepsShape
  <2>4. QED
    BY <1>1, <2>1, <2>3, MovedIsOK
<1>4. CASE BaseDecode
  <2>1. Calls(1) /\ proc.at = "base" /\ proc' = [proc EXCEPT !.tokens = @ + 1]
    BY <1>4 DEF BaseDecode
  <2>2. Shape(Now')
    BY <2>1, CallKeepsShape
  <2>3. /\ DOMAIN proc' = ProcNames /\ proc'.at = "base" /\ proc'.tokens \in Nat
        /\ proc'.row = proc.row /\ proc'.snapshots = proc.snapshots
        /\ proc'.results = proc.results
    BY <1>1, <2>1 DEF ProcNames
  <2>4. QED
    BY <1>1, <2>1, <2>2, <2>3, MovedIsOK
<1>5. CASE BaseFinish
  <2> DEFINE later == {row \in Rows : row > proc.row}
  <2>1. /\ model' = model /\ live' = live
        /\ proc' = IF later = {} THEN Idle ELSE [Idle EXCEPT !.at = "generate", !.row = Min(later)]
    BY <1>5 DEF BaseFinish
  <2>2. Shape(Now')
    BY <2>1 DEF Now
  <2>3. CASE later = {}
    BY <2>1, <2>2, <2>3, IdleFields, BlankIsOK
  <2>4. CASE later # {}
    <3>1. later \subseteq Nat /\ later \subseteq Rows
      BY ProbeAssumption
    <3>2. proc' = [Idle EXCEPT !.at = "generate", !.row = Min(later)]
      BY <2>1, <2>4
    <3> HIDE DEF later
    <3>3. Min(later) \in Rows
      BY <2>4, <3>1, MinOfNat
    <3>4. /\ DOMAIN proc' = ProcNames /\ proc'.at = "generate" /\ proc'.row \in Rows
          /\ proc'.tokens = 0 /\ proc'.snapshots = Idle.snapshots /\ proc'.results = Idle.results
      BY <3>2, <3>3, IdleFields DEF ProcNames
    <3>5. QED
      BY <2>2, <3>4, IdleFields, BlankIsOK
  <2>5. QED
    BY <2>3, <2>4
<1>6. QED
  BY <1>2, <1>3, <1>4, <1>5

LEMMA StartProcOK ==
  ASSUME Start
  PROVE ProcOK(proc', Now', setup)
<1>1. Shape(Now')
  BY ResetIsFresh DEF Start
<1> DEFINE seen == RecordIds(file.lines)
           p == [Idle EXCEPT !.seen = seen]
           rows == {row \in Rows : Replayed(row, seen)}
<1>2. proc' = IF Readable(file) THEN GoToRow(p, rows) ELSE [Idle EXCEPT !.at = "failed"]
  BY DEF Start
<1>3. CASE Readable(file)
  <2>1. proc' = GoToRow(p, rows)
    BY <1>2, <1>3
  <2>2. /\ DOMAIN p = ProcNames /\ p.at = "down" /\ p.tokens = 0
        /\ p.snapshots = Idle.snapshots /\ p.results = Idle.results
    BY IdleFields DEF ProcNames
  <2>3. \A row \in rows : row \in Rows /\ Parsed(setup.traces[row])
    BY DEF Replayed
  <2> HIDE DEF p, rows
  <2>4. ProcOK(p, Now', setup)
    BY <1>1, <2>2, IdleFields, BlankIsOK
  <2>5. QED
    BY <1>1, <2>1, <2>3, <2>4, GoToRowIsOK DEF ProcOK
<1>4. CASE ~Readable(file)
  <2>1. proc' = [Idle EXCEPT !.at = "failed"]
    BY <1>2, <1>4
  <2>2. /\ DOMAIN proc' = ProcNames /\ proc'.at = "failed" /\ proc'.tokens = 0
        /\ proc'.snapshots = Idle.snapshots /\ proc'.results = Idle.results
    BY <2>1, IdleFields DEF ProcNames
  <2>3. QED
    BY <1>1, <2>2, IdleFields, BlankIsOK
<1>5. QED
  BY <1>3, <1>4

LEMMA KilledProcOK ==
  ASSUME ProcOK(proc, Now, setup), Killed
  PROVE ProcOK(proc', Now', setup)
<1>1. proc' = Idle /\ model' = model /\ live' = live
  BY DEF Killed
<1>2. Shape(Now')
  BY <1>1 DEF Now, ProcOK
<1>3. QED
  BY <1>1, <1>2, IdleFields, BlankIsOK

LEMMA ResetProcOK ==
  ASSUME ProcOK(proc, Now, setup), ReplayReset
  PROVE ProcOK(proc', Now', setup)
<1>1. Now' = Fresh /\ Shape(Now')
  BY ResetIsFresh DEF ReplayReset, ResetPatchedState
<1>2. proc.at = "reset" /\ proc' = [proc EXCEPT !.at = "prefill"]
  BY DEF ReplayReset
<1>3. DOMAIN proc = ProcNames
  BY DEF ProcOK, Located
<1>4. /\ DOMAIN proc' = ProcNames /\ proc'.at = "prefill" /\ proc'.row = proc.row
      /\ proc'.tokens = proc.tokens /\ proc'.snapshots = proc.snapshots
      /\ proc'.results = proc.results /\ proc'.fraction = proc.fraction
  BY <1>2, <1>3 DEF ProcNames
<1>5. Located(proc', setup)
  BY <1>2, <1>4 DEF ProcOK, Located, Phases, Replaying, AtAProbe, Probing, TraceOf
<1>6. Cuts(proc', setup) /\ Results(proc', setup)
  BY <1>4, CutsStay, ResultsStay DEF ProcOK
<1>7. Replays(proc', Now', setup) /\ Feeds(proc', Now', setup)
  BY <1>1, <1>4 DEF Replays, Feeds, Probing
<1>8. QED
  BY <1>1, <1>5, <1>6, <1>7 DEF ProcOK

LEMMA CapturedFacts ==
  ASSUME NEW position, NEW f \in DOMAIN Captured(position)
  PROVE f \in Fractions /\ CutPosition(Trace, f) = position /\ Captured(position)[f] = Now'
BY DEF Captured, Now

LEMMA PrefillProcOK ==
  ASSUME SetupOK, ProcOK(proc, Now, setup), ReplayPrefill
  PROVE ProcOK(proc', Now', setup)
<1> DEFINE r == setup.ranking
           taken == Captured(live'.pos)
<1>1. /\ DOMAIN proc = ProcNames /\ proc.at = "prefill" /\ proc.row \in Rows
      /\ Parsed(TraceOf(proc, setup)) /\ proc.tokens = 0 /\ DOMAIN proc.results = {}
      /\ proc.fraction \in Fractions /\ Now = Fresh /\ Shape(Now)
  BY DEF ReplayPrefill, ProcOK, Located, Replays, Replaying, AtAProbe
<1>2. /\ Trace \in Traces /\ Trace = TraceOf(proc, setup) /\ Len(Trace.prompt) \in Nat
  BY <1>1, TraceFacts
<1>3. Calls(Len(Trace.prompt)) /\ proc' = [proc EXCEPT !.at = "decode", !.snapshots = taken]
  BY DEF ReplayPrefill
<1>4. Shape(Now') /\ live'.pos = live.pos + Len(Trace.prompt)
  BY <1>1, <1>2, <1>3, CallKeepsShape
<1>5. live.pos = 0
  BY <1>1, FreshHasShape DEF Now
<1>6. live'.pos = Len(Trace.prompt) /\ Now'.live.pos = live'.pos
  BY <1>2, <1>4, <1>5 DEF Now
<1>7. Reached(Trace, r, 0, Now')
  <2>1. Now' = After(Fresh, Len(Trace.prompt), r)
    BY <1>1, <1>3, CallIsAfter
  <2>2. QED
    BY <2>1, PromptReached
<1>8. \A f \in DOMAIN taken :
         f \in Fractions /\ CutPosition(Trace, f) = live'.pos /\ taken[f] = Now'
  BY CapturedFacts
<1> HIDE DEF taken
<1>9. /\ DOMAIN proc' = ProcNames /\ proc'.at = "decode" /\ proc'.row = proc.row
      /\ proc'.tokens = proc.tokens /\ proc'.snapshots = taken
      /\ proc'.results = proc.results /\ proc'.fraction = proc.fraction
  BY <1>1, <1>3 DEF ProcNames
<1>10. TraceOf(proc', setup) = Trace
  BY <1>2, <1>9 DEF TraceOf
<1>11. Located(proc', setup)
  BY <1>1, <1>2, <1>9, <1>10 DEF Located, Phases, Replaying, AtAProbe, Probing
<1>12. Cuts(proc', setup)
  <2>1. ASSUME NEW f \in DOMAIN taken PROVE IsCut(Trace, f, r, taken[f])
    <3>1. f \in Fractions /\ CutPosition(Trace, f) = Len(Trace.prompt) /\ taken[f] = Now'
      BY <1>6, <1>8
    <3>2. CutPosition(Trace, f) - Len(Trace.prompt) = 0
      BY <1>2, <3>1
    <3>3. QED
      BY <1>4, <1>6, <1>7, <3>1, <3>2 DEF IsCut
  <2>2. QED
    BY <1>9, <1>10, <2>1 DEF Cuts
<1>13. Results(proc', setup)
  BY <1>9, ResultsStay DEF ProcOK
<1>14. Replays(proc', Now', setup)
  BY <1>1, <1>2, <1>6, <1>7, <1>9, <1>10 DEF Replays
<1>15. Feeds(proc', Now', setup)
  BY <1>9 DEF Feeds, Probing
<1>16. QED
  BY <1>4, <1>11, <1>12, <1>13, <1>14, <1>15 DEF ProcOK

LEMMA JoinedFacts ==
  ASSUME NEW a, NEW b
  PROVE /\ DOMAIN Joined(a, b) = DOMAIN a \cup DOMAIN b
        /\ \A x \in DOMAIN a : Joined(a, b)[x] = a[x]
        /\ \A x \in DOMAIN b : x \notin DOMAIN a => Joined(a, b)[x] = b[x]
BY DEF Joined

LEMMA DecodeProcOK ==
  ASSUME SetupOK, ProcOK(proc, Now, setup), ReplayDecode
  PROVE ProcOK(proc', Now', setup)
<1> DEFINE r == setup.ranking
           taken == Captured(live'.pos)
           all == Joined(proc.snapshots, taken)
           p == [proc EXCEPT !.tokens = @ + 1, !.snapshots = all]
<1>1. /\ DOMAIN proc = ProcNames /\ proc.at = "decode" /\ proc.row \in Rows
      /\ Parsed(TraceOf(proc, setup)) /\ proc.tokens \in Nat /\ DOMAIN proc.results = {}
      /\ proc.fraction \in Fractions /\ Shape(Now)
  BY DEF ReplayDecode, ProcOK, Located, Replays, Replaying, AtAProbe
<1>2. /\ Trace \in Traces /\ Trace = TraceOf(proc, setup) /\ Len(Trace.prompt) \in Nat
  BY <1>1, TraceFacts
<1>3. /\ Calls(1)
      /\ proc' = IF DOMAIN p.snapshots = Fractions THEN AfterProbe(p, 0)
                 ELSE IF p.tokens = Len(Trace.generated) THEN [p EXCEPT !.at = "failed"]
                 ELSE p
  BY DEF ReplayDecode
<1>4. Shape(Now') /\ live'.pos = live.pos + 1
  BY <1>1, <1>3, CallKeepsShape
<1>5. Reached(Trace, r, proc.tokens, Now) /\ live.pos = Len(Trace.prompt) + proc.tokens
  BY <1>1, <1>2 DEF ProcOK, Replays, Now
<1>6. live'.pos = Len(Trace.prompt) + (proc.tokens + 1) /\ Now'.live.pos = live'.pos
  BY <1>1, <1>2, <1>4, <1>5 DEF Now
<1>7. Reached(Trace, r, proc.tokens + 1, Now')
  BY <1>1, <1>3, <1>5, CallIsAfter, TokenReached
<1>8. \A f \in DOMAIN taken :
         f \in Fractions /\ CutPosition(Trace, f) = live'.pos /\ taken[f] = Now'
  BY CapturedFacts
<1> HIDE DEF taken
<1>9. /\ DOMAIN all = DOMAIN proc.snapshots \cup DOMAIN taken
      /\ \A x \in DOMAIN proc.snapshots : all[x] = proc.snapshots[x]
      /\ \A x \in DOMAIN taken : x \notin DOMAIN proc.snapshots => all[x] = taken[x]
  BY JoinedFacts
<1> HIDE DEF all
<1>10. /\ DOMAIN p = ProcNames /\ p.at = "decode" /\ p.row = proc.row
       /\ p.tokens = proc.tokens + 1 /\ p.snapshots = all
       /\ p.results = proc.results /\ p.fraction = proc.fraction
  BY <1>1 DEF ProcNames
<1> HIDE DEF p
<1>11. TraceOf(p, setup) = Trace
  BY <1>2, <1>10 DEF TraceOf
<1>12. Located(p, setup)
  BY <1>1, <1>2, <1>10, <1>11 DEF Located, Phases, Replaying, AtAProbe, Probing
<1>13. Cuts(p, setup)
  <2>1. ASSUME NEW f \in DOMAIN all PROVE IsCut(Trace, f, r, all[f])
    <3>1. CASE f \in DOMAIN proc.snapshots
      BY <1>2, <1>9, <3>1 DEF ProcOK, Cuts
    <3>2. CASE f \notin DOMAIN proc.snapshots
      <4>1. f \in Fractions /\ all[f] = Now'
            /\ CutPosition(Trace, f) = Len(Trace.prompt) + (proc.tokens + 1)
        BY <1>6, <1>8, <1>9, <3>2
      <4>2. CutPosition(Trace, f) - Len(Trace.prompt) = proc.tokens + 1
        BY <1>1, <1>2, <4>1
      <4>3. QED
        BY <1>4, <1>6, <1>7, <4>1, <4>2 DEF IsCut
    <3>3. QED
      BY <3>1, <3>2
  <2>2. QED
    BY <1>10, <1>11, <2>1 DEF Cuts
<1>14. Results(p, setup)
  BY <1>10, ResultsStay DEF ProcOK
<1>15. CASE DOMAIN p.snapshots = Fractions
  <2>1. proc' = AfterProbe(p, 0)
    BY <1>3, <1>15
  <2>2. QED
    BY <1>1, <1>4, <1>10, <1>12, <1>13, <1>14, <1>15, <2>1, AfterProbeIsOK
<1>16. CASE DOMAIN p.snapshots # Fractions /\ p.tokens = Len(Trace.generated)
  <2>1. proc' = [p EXCEPT !.at = "failed"]
    BY <1>3, <1>16
  <2>2. /\ DOMAIN proc' = ProcNames /\ proc'.at = "failed" /\ proc'.row = p.row
        /\ proc'.tokens = p.tokens /\ proc'.snapshots = p.snapshots /\ proc'.results = p.results
    BY <1>10, <2>1 DEF ProcNames
  <2>3. p.tokens \in Nat
    BY <1>1, <1>10
  <2>4. QED
    BY <1>4, <1>12, <1>13, <1>14, <2>2, <2>3, MovedIsOK
<1>17. CASE DOMAIN p.snapshots # Fractions /\ p.tokens # Len(Trace.generated)
  <2>1. proc' = p
    BY <1>3, <1>17
  <2>2. Replays(p, Now', setup)
    BY <1>6, <1>7, <1>10, <1>11 DEF Replays
  <2>3. Feeds(p, Now', setup)
    BY <1>10 DEF Feeds, Probing
  <2>4. QED
    BY <1>4, <1>12, <1>13, <1>14, <2>1, <2>2, <2>3 DEF ProcOK
<1>18. QED
  BY <1>15, <1>16, <1>17

LEMMA BranchProcOK ==
  ASSUME SetupOK, ProcOK(proc, Now, setup), Branch
  PROVE ProcOK(proc', Now', setup)
<1> DEFINE cut == proc.snapshots[proc.fraction]
           probe == [NoProbe EXCEPT !.cut = cut.live.cache]
           c == [i \in {0} |-> cut]
<1>1. /\ DOMAIN proc = ProcNames /\ proc.at = "branch" /\ proc.tokens \in Nat
      /\ DOMAIN proc.snapshots = Fractions /\ proc.fraction \in Fractions
  BY DEF Branch, ProcOK, Located, Replaying, AtAProbe
<1>2. /\ model' = cut.model /\ live' = cut.live
      /\ proc' = [proc EXCEPT !.at = IF Frozen THEN "freeze" ELSE "feed", !.probe = probe]
  BY DEF Branch, Restore
<1>3. Shape(cut)
  BY <1>1 DEF ProcOK, Cuts, IsCut
<1>4. Now' = cut
  BY <1>2, <1>3 DEF Now, Shape
<1>5. /\ DOMAIN probe = {"cut", "fed", "first", "last", "evicted"} /\ probe.fed = 0
      /\ probe.cut = cut.live.cache /\ probe.first = << >>
  BY DEF NoProbe
<1>6. c[0] = cut
  OBVIOUS
<1> HIDE DEF cut, probe, c
<1>7. /\ DOMAIN proc' = ProcNames /\ proc'.at = (IF Frozen THEN "freeze" ELSE "feed")
      /\ proc'.row = proc.row /\ proc'.tokens = proc.tokens
      /\ proc'.snapshots = proc.snapshots /\ proc'.results = proc.results
      /\ proc'.fraction = proc.fraction /\ proc'.probe = probe
  BY <1>1, <1>2 DEF ProcNames
<1>8. FirstOf(c, 0) = << >>
  BY ProbeAssumption DEF FirstOf
<1>9. Located(proc', setup)
  BY <1>1, <1>7 DEF ProcOK, Located, Phases, Replaying, AtAProbe, Probing, TraceOf
<1>10. Cuts(proc', setup) /\ Results(proc', setup)
  BY <1>7, CutsStay, ResultsStay DEF ProcOK
<1>11. Replays(proc', Now', setup)
  BY <1>7 DEF Replays
<1>12. Frozen <=> FrozenIn(setup)
  BY DEF Frozen, FrozenIn
<1>13. proc'.snapshots[proc'.fraction] = cut
  BY <1>7 DEF cut
<1>14. IsFeeding(c, cut, FrozenIn(setup), setup.ranking, 0) /\ FedSoFar(c, 0)
  BY <1>6 DEF IsFeeding, FedSoFar
<1>15. proc'.at = "feed" => ~FrozenIn(setup) /\ Now' = Unflagged(c[0], FrozenIn(setup))
  BY <1>4, <1>6, <1>7, <1>12 DEF Unflagged
<1>16. proc'.at = "freeze" => FrozenIn(setup) /\ Now' = c[0]
  BY <1>4, <1>6, <1>7, <1>12
<1>17. Feeding(c, proc', Now', setup)
  <2>1. proc'.at # "judge" /\ proc'.probe.fed = 0
    BY <1>5, <1>7
  <2>2. QED
    BY <1>5, <1>7, <1>8, <1>13, <1>14, <1>15, <1>16, <2>1 DEF Feeding
<1>18. Feeds(proc', Now', setup)
  BY <1>17 DEF Feeds
<1>19. Shape(Now')
  BY <1>3, <1>4
<1>20. QED
  BY <1>9, <1>10, <1>11, <1>18, <1>19 DEF ProcOK

LEMMA ForceProcOK ==
  ASSUME SetupOK, ProcOK(proc, Now, setup), ForceCompressionOff
  PROVE ProcOK(proc', Now', setup)
<1>1. /\ DOMAIN proc = ProcNames /\ proc.at = "freeze" /\ proc.tokens \in Nat /\ Shape(Now)
  BY DEF ForceCompressionOff, ProcOK, Located
<1>2. /\ model' = [model EXCEPT !.compression = "false"] /\ live' = live
      /\ proc' = [proc EXCEPT !.at = "feed"]
  BY DEF ForceCompressionOff
<1>3. /\ DOMAIN proc' = ProcNames /\ proc'.at = "feed" /\ proc'.row = proc.row
      /\ proc'.tokens = proc.tokens /\ proc'.snapshots = proc.snapshots
      /\ proc'.results = proc.results /\ proc'.fraction = proc.fraction
      /\ proc'.probe = proc.probe
  BY <1>1, <1>2 DEF ProcNames
<1>4. Now' = Unflagged(Now, TRUE)
  BY <1>2 DEF Now, Unflagged
<1>5. Shape(Now')
  <2>1. PICK a, b, d, e, g :
          model = [length |-> a, compression |-> b, evicted |-> d, kept |-> e, shuffled |-> g]
    BY <1>1 DEF Shape, Now
  <2>2. model' = [length |-> a, compression |-> "false", evicted |-> d, kept |-> e, shuffled |-> g]
    BY <1>2, <2>1
  <2>3. Now'.model = model' /\ Now'.live = live /\ Now' = [model |-> model', live |-> live]
    BY <1>2 DEF Now
  <2>4. Now.live = live
    BY DEF Now
  <2>5. QED
    BY <1>1, <2>2, <2>3, <2>4 DEF Shape
<1>6. Located(proc', setup)
  BY <1>1, <1>3 DEF ProcOK, Located, Phases, Replaying, AtAProbe, Probing, TraceOf
<1>7. Cuts(proc', setup) /\ Results(proc', setup)
  BY <1>3, CutsStay, ResultsStay DEF ProcOK
<1>8. Replays(proc', Now', setup)
  BY <1>3 DEF Replays
<1>9. Feeds(proc', Now', setup)
  <2>1. PICK c : Feeding(c, proc, Now, setup)
    BY <1>1 DEF ProcOK, Feeds, Probing
  <2>2. FrozenIn(setup) /\ Now = c[proc.probe.fed]
    BY <1>1, <2>1 DEF Feeding
  <2>3. Now' = Unflagged(c[proc.probe.fed], FrozenIn(setup))
    BY <1>4, <2>2 DEF Unflagged
  <2>4. Feeding(c, proc', Now', setup)
    BY <1>1, <1>3, <2>1, <2>3 DEF Feeding
  <2>5. QED
    BY <2>4 DEF Feeds
<1>10. QED
  BY <1>5, <1>6, <1>7, <1>8, <1>9 DEF ProcOK

LEMMA MoreIsMoreToFeed ==
  ASSUME NEW probe
  PROVE MoreToFeed(probe) <=> More(probe.fed, probe.first)
BY DEF MoreToFeed, More

(* The chain of a probe with one token more.                                 *)
LEMMA FirstOfExtended ==
  ASSUME NEW c, NEW n \in Nat, NEW s
  PROVE /\ \A i \in 0..n : FirstOf(Extended(c, n, s), i) = FirstOf(c, i)
        /\ FirstOf(Extended(c, n, s), n + 1) =
             IF n + 1 = ForcedTokens THEN s.live.cache ELSE FirstOf(c, n)
<1> DEFINE d == Extended(c, n, s)
<1>1. d[n + 1] = s /\ \A i \in 0..n : d[i] = c[i]
  BY ExtendedFacts
<1> HIDE DEF d
<1>2. ForcedTokens \in Nat
  BY ProbeAssumption
<1>3. ASSUME NEW i \in 0..n PROVE FirstOf(d, i) = FirstOf(c, i)
  <2>1. CASE i >= ForcedTokens
    <3>1. ForcedTokens \in 0..n
      BY <1>2, <2>1
    <3>2. d[ForcedTokens] = c[ForcedTokens]
      BY <1>1, <3>1
    <3>3. QED
      BY <3>2 DEF FirstOf
  <2>2. CASE ~(i >= ForcedTokens)
    BY <2>2 DEF FirstOf
  <2>3. QED
    BY <2>1, <2>2
<1>4. FirstOf(d, n + 1) = IF n + 1 = ForcedTokens THEN s.live.cache ELSE FirstOf(c, n)
  <2>1. CASE n + 1 = ForcedTokens
    BY <1>1, <1>2, <2>1 DEF FirstOf
  <2>2. CASE n + 1 > ForcedTokens
    <3>1. ForcedTokens \in 0..n
      BY <1>2, <2>2
    <3>2. d[ForcedTokens] = c[ForcedTokens]
      BY <1>1, <3>1
    <3>3. n + 1 # ForcedTokens /\ n >= ForcedTokens /\ n + 1 >= ForcedTokens
      BY <1>2, <2>2
    <3>4. QED
      BY <3>2, <3>3 DEF FirstOf
  <2>3. CASE n + 1 < ForcedTokens
    BY <1>2, <2>3 DEF FirstOf
  <2>4. QED
    BY <1>2, <2>1, <2>2, <2>3
<1>5. QED
  BY <1>3, <1>4 DEF d

LEMMA FeedingGrows ==
  ASSUME NEW c, NEW n \in Nat, NEW cut, NEW frozen, NEW r,
         IsFeeding(c, cut, frozen, r, n), FedSoFar(c, n), n > 0 => More(n, FirstOf(c, n)),
         NEW s, s = AfterFeed(c[n], frozen, r)
  PROVE /\ IsFeeding(Extended(c, n, s), cut, frozen, r, n + 1)
        /\ FedSoFar(Extended(c, n, s), n + 1)
<1> DEFINE d == Extended(c, n, s)
<1>1. d[n + 1] = s /\ \A i \in 0..n : d[i] = c[i]
  BY ExtendedFacts
<1>2. \A i \in 0..n : FirstOf(d, i) = FirstOf(c, i)
  BY FirstOfExtended
<1> HIDE DEF d
<1>3. ASSUME NEW i \in 0..n PROVE d[i + 1] = AfterFeed(d[i], frozen, r)
  <2>1. CASE i = n
    BY <1>1, <2>1
  <2>2. CASE i # n
    <3>1. i \in 0..(n - 1) /\ i + 1 \in 0..n
      BY <2>2
    <3>2. c[i + 1] = AfterFeed(c[i], frozen, r)
      BY <3>1 DEF IsFeeding
    <3>3. QED
      BY <1>1, <3>1, <3>2
  <2>3. QED
    BY <2>1, <2>2
<1>4. d[0] = cut
  BY <1>1 DEF IsFeeding
<1>5. IsFeeding(d, cut, frozen, r, n + 1)
  BY <1>3, <1>4 DEF IsFeeding
<1>6. ASSUME NEW i \in 1..n PROVE More(i, FirstOf(d, i))
  <2>1. FirstOf(d, i) = FirstOf(c, i)
    BY <1>2
  <2>2. CASE i = n
    BY <2>1, <2>2
  <2>3. CASE i # n
    <3>1. i \in 1..(n - 1)
      BY <2>3
    <3>2. QED
      BY <2>1, <3>1 DEF FedSoFar
  <2>4. QED
    BY <2>2, <2>3
<1>7. FedSoFar(d, n + 1)
  BY <1>6 DEF FedSoFar
<1>8. QED
  BY <1>5, <1>7 DEF d

LEMMA FeedProcOK ==
  ASSUME SetupOK, ProcOK(proc, Now, setup), Feed
  PROVE ProcOK(proc', Now', setup)
<1> DEFINE n == proc.probe.fed
           r == setup.ranking
           cut == proc.snapshots[proc.fraction]
           first == IF n + 1 = ForcedTokens THEN live'.cache ELSE proc.probe.first
           probe == [proc.probe EXCEPT !.fed = n + 1, !.first = first, !.last = live'.cache]
           at == IF ~MoreToFeed(probe) THEN "judge" ELSE IF Frozen THEN "freeze" ELSE "feed"
<1>1. /\ DOMAIN proc = ProcNames /\ proc.at = "feed" /\ proc.tokens \in Nat /\ Shape(Now)
  BY DEF Feed, ProcOK, Located
<1>2. Calls(1) /\ proc' = [proc EXCEPT !.probe = probe, !.at = at]
  <2>1. Calls(1)
    BY DEF Feed
  <2>2. proc' = [proc EXCEPT !.probe = probe, !.at = at]
    BY Zenon DEF Feed
  <2>3. QED
    BY <2>1, <2>2
<1>3. PICK c : Feeding(c, proc, Now, setup)
  BY <1>1 DEF ProcOK, Feeds, Probing
<1>4. /\ DOMAIN proc.probe = {"cut", "fed", "first", "last", "evicted"}
      /\ n \in Nat /\ proc.probe.cut = cut.live.cache
      /\ IsFeeding(c, cut, FrozenIn(setup), r, n) /\ FedSoFar(c, n)
      /\ proc.probe.first = FirstOf(c, n)
      /\ n > 0 => More(n, FirstOf(c, n))
      /\ Now = Unflagged(c[n], FrozenIn(setup))
  BY <1>1, <1>3 DEF Feeding
<1>5. /\ DOMAIN probe = {"cut", "fed", "first", "last", "evicted"}
      /\ probe.fed = n + 1 /\ probe.first = first /\ probe.last = live'.cache
      /\ probe.cut = cut.live.cache
  BY <1>4
<1> DEFINE d == Extended(c, n, Now')
<1>6. Now' = After(Now, 1, r)
  BY <1>2, CallIsAfter
<1>7. Now' = AfterFeed(c[n], FrozenIn(setup), r)
  BY <1>4, <1>6 DEF AfterFeed, Unflagged
<1>8. Shape(Now')
  BY <1>1, <1>2, CallKeepsShape
<1>9. IsFeeding(d, cut, FrozenIn(setup), r, n + 1) /\ FedSoFar(d, n + 1)
  BY <1>4, <1>7, FeedingGrows
<1>10. d[n + 1] = Now' /\ Now'.live.cache = live'.cache
  BY <1>4, ExtendedFacts DEF Now
<1>11. FirstOf(d, n + 1) = first
  <2>1. n \in Nat
    BY <1>4
  <2> HIDE DEF n
  <2>2. FirstOf(d, n + 1) = IF n + 1 = ForcedTokens THEN Now'.live.cache ELSE FirstOf(c, n)
    BY <2>1, FirstOfExtended
  <2>3. QED
    BY <1>4, <1>10, <2>2
<1>12. MoreToFeed(probe) <=> More(n + 1, FirstOf(d, n + 1))
  BY <1>5, <1>11, MoreIsMoreToFeed
<1>13. /\ at = "judge" => ~More(n + 1, FirstOf(d, n + 1))
       /\ at # "judge" => More(n + 1, FirstOf(d, n + 1))
       /\ at = "freeze" => FrozenIn(setup)
       /\ at = "feed" => ~FrozenIn(setup)
       /\ at \in {"judge", "freeze", "feed"}
  BY <1>12 DEF Frozen, FrozenIn
<1> HIDE DEF d, probe, first, at
<1>14. /\ DOMAIN proc' = ProcNames /\ proc'.at = at /\ proc'.row = proc.row
       /\ proc'.tokens = proc.tokens /\ proc'.snapshots = proc.snapshots
       /\ proc'.results = proc.results /\ proc'.fraction = proc.fraction
       /\ proc'.probe = probe
  BY <1>1, <1>2 DEF ProcNames
<1>15. Located(proc', setup)
  BY <1>1, <1>13, <1>14 DEF ProcOK, Located, Phases, Replaying, AtAProbe, Probing, TraceOf
<1>16. Cuts(proc', setup) /\ Results(proc', setup)
  BY <1>14, CutsStay, ResultsStay DEF ProcOK
<1>17. Replays(proc', Now', setup)
  BY <1>13, <1>14 DEF Replays
<1>18. Feeding(d, proc', Now', setup)
  <2>1. proc'.snapshots[proc'.fraction] = cut /\ proc'.probe.fed = n + 1 /\ n + 1 \in Nat
    BY <1>4, <1>5, <1>14
  <2>2. n + 1 > 0
    BY <1>4
  <2>3. at = "feed" => Now' = Unflagged(d[n + 1], FrozenIn(setup))
    BY <1>10, <1>13 DEF Unflagged
  <2> HIDE DEF cut, n, r
  <2>4. /\ DOMAIN proc'.probe = {"cut", "fed", "first", "last", "evicted"}
        /\ proc'.probe.cut = cut.live.cache /\ proc'.probe.first = FirstOf(d, n + 1)
        /\ proc'.probe.last = d[n + 1].live.cache
    BY <1>5, <1>10, <1>11, <1>14
  <2>5. IsFeeding(d, cut, FrozenIn(setup), setup.ranking, n + 1)
    BY <1>9 DEF r
  <2>6. QED
    BY <1>9, <1>10, <1>13, <1>14, <2>1, <2>2, <2>3, <2>4, <2>5 DEF Feeding
<1>19. Feeds(proc', Now', setup)
  BY <1>18 DEF Feeds
<1>20. QED
  BY <1>8, <1>15, <1>16, <1>17, <1>19 DEF ProcOK

(* The probe that ends has a result of its cut.                              *)
LEMMA JudgedIsResult ==
  ASSUME SetupOK, ProcOK(proc, Now, setup), proc.at = "judge"
  PROVE /\ proc.row \in Rows /\ Parsed(Trace) /\ proc.fraction \in Fractions
        /\ Trace = TraceOf(proc, setup)
        /\ IsResult(Trace, setup.ranking, FrozenIn(setup), CutPosition(Trace, proc.fraction),
                    Result(proc.probe))
<1> DEFINE n == proc.probe.fed
           cut == proc.snapshots[proc.fraction]
           r == setup.ranking
<1>1. /\ proc.row \in Rows /\ Parsed(TraceOf(proc, setup)) /\ proc.fraction \in Fractions
      /\ DOMAIN proc.snapshots = Fractions
  BY DEF ProcOK, Located, Replaying, AtAProbe, Probing
<1>2. Trace = TraceOf(proc, setup)
  BY DEF Trace, TraceOf
<1>3. PICK c : Feeding(c, proc, Now, setup)
  BY DEF ProcOK, Feeds, Probing
<1>4. /\ n \in Nat /\ n > 0 /\ proc.probe.cut = cut.live.cache
      /\ IsFeeding(c, cut, FrozenIn(setup), r, n) /\ FedSoFar(c, n)
      /\ proc.probe.first = FirstOf(c, n) /\ proc.probe.last = c[n].live.cache
      /\ ~More(n, FirstOf(c, n))
  BY <1>3 DEF Feeding
<1>5. Result(proc.probe) = ResultOf(c, cut, n)
  BY <1>4 DEF Result, ResultOf
<1>6. n \in Nat \ {0}
  BY <1>4
<1>7. IsProbe(cut, FrozenIn(setup), r, Result(proc.probe))
  BY <1>4, <1>5, <1>6 DEF IsProbe
<1>8. Reached(Trace, r, CutPosition(Trace, proc.fraction) - Len(Trace.prompt), cut)
  BY <1>1, <1>2 DEF ProcOK, Cuts, IsCut
<1>9. QED
  BY <1>1, <1>2, <1>7, <1>8 DEF IsResult

(* The results with one more, which counts unless it was there.              *)
LEMMA ResultAdded ==
  ASSUME SetupOK, ProcOK(proc, Now, setup), proc.at = "judge",
         NEW p, p = [proc EXCEPT !.results =
                       Joined(@, [f \in {proc.fraction} |-> Result(proc.probe)])]
  PROVE /\ DOMAIN p = ProcNames /\ p.at = "judge" /\ p.row = proc.row
        /\ p.tokens = proc.tokens /\ p.snapshots = proc.snapshots
        /\ p.fraction = proc.fraction
        /\ DOMAIN p.results = DOMAIN proc.results \cup {proc.fraction}
        /\ Located(p, setup) /\ Cuts(p, setup) /\ Results(p, setup)
<1> DEFINE new == [f \in {proc.fraction} |-> Result(proc.probe)]
           all == Joined(proc.results, new)
<1>1. /\ DOMAIN proc = ProcNames /\ Located(proc, setup)
  BY DEF ProcOK, Located
<1>2. /\ DOMAIN new = {proc.fraction} /\ new[proc.fraction] = Result(proc.probe)
  OBVIOUS
<1> HIDE DEF new
<1>3. /\ DOMAIN all = DOMAIN proc.results \cup {proc.fraction}
      /\ \A f \in DOMAIN proc.results : all[f] = proc.results[f]
      /\ proc.fraction \notin DOMAIN proc.results => all[proc.fraction] = Result(proc.probe)
  <2>1. /\ DOMAIN all = DOMAIN proc.results \cup DOMAIN new
        /\ \A f \in DOMAIN proc.results : all[f] = proc.results[f]
        /\ \A f \in DOMAIN new : f \notin DOMAIN proc.results => all[f] = new[f]
    BY JoinedFacts, ZenonT(40)
  <2> HIDE DEF all
  <2>2. QED
    BY <1>2, <2>1
<1> HIDE DEF all
<1>4. p = [proc EXCEPT !.results = all]
  BY DEF all, new
<1>5. /\ DOMAIN p = ProcNames /\ p.at = "judge" /\ p.row = proc.row
      /\ p.tokens = proc.tokens /\ p.snapshots = proc.snapshots
      /\ p.fraction = proc.fraction /\ p.results = all
  BY <1>1, <1>4 DEF ProcNames
<1>6. Located(p, setup)
  BY <1>1, <1>5 DEF Located, Phases, Replaying, AtAProbe, Probing, TraceOf
<1>7. Cuts(p, setup)
  BY <1>5, CutsStay DEF ProcOK
<1>8. Results(p, setup)
  <2>1. TraceOf(p, setup) = Trace /\ TraceOf(proc, setup) = Trace
    BY <1>5 DEF TraceOf, Trace
  <2>2. ASSUME NEW f \in DOMAIN all
        PROVE /\ f \in Fractions
              /\ IsResult(Trace, setup.ranking, FrozenIn(setup), CutPosition(Trace, f), all[f])
    <3>1. CASE f \in DOMAIN proc.results
      BY <1>3, <2>1, <3>1 DEF ProcOK, Results
    <3>2. CASE f \notin DOMAIN proc.results
      BY <1>3, <3>2, JudgedIsResult
    <3>3. QED
      BY <3>1, <3>2
  <2>3. QED
    BY <1>5, <2>1, <2>2 DEF Results
<1>9. QED
  BY <1>3, <1>5, <1>6, <1>7, <1>8

LEMMA FinishProcOK ==
  ASSUME SetupOK, ProcOK(proc, Now, setup), FinishProbe
  PROVE ProcOK(proc', Now', setup)
<1> DEFINE p == [proc EXCEPT !.results =
                   Joined(@, [f \in {proc.fraction} |-> Result(proc.probe)])]
<1>1. /\ proc.at = "judge" /\ model' = model /\ live' = live
      /\ proc' = IF Contaminated THEN [proc EXCEPT !.at = "failed"]
                 ELSE IF Fixed THEN AfterProbe(p, Turn(p.fraction))
                 ELSE [p EXCEPT !.at = "write"]
  BY DEF FinishProbe
<1>2. Shape(Now') /\ DOMAIN proc = ProcNames /\ proc.tokens \in Nat
  BY <1>1 DEF ProcOK, Located, Now
<1>3. /\ DOMAIN p = ProcNames /\ p.at = "judge" /\ p.row = proc.row
      /\ p.tokens = proc.tokens /\ p.snapshots = proc.snapshots
      /\ p.fraction = proc.fraction
      /\ Located(p, setup) /\ Cuts(p, setup) /\ Results(p, setup)
  BY <1>1, ResultAdded
<1>4. /\ DOMAIN p.snapshots = Fractions /\ p.fraction \in Fractions
  BY <1>3 DEF Located, Replaying, AtAProbe, Probing
<1> HIDE DEF p
<1>5. CASE Contaminated
  <2>1. proc' = [proc EXCEPT !.at = "failed"]
    BY <1>1, <1>5
  <2>2. /\ DOMAIN proc' = ProcNames /\ proc'.at = "failed" /\ proc'.row = proc.row
        /\ proc'.tokens = proc.tokens /\ proc'.snapshots = proc.snapshots
        /\ proc'.results = proc.results
    BY <1>2, <2>1 DEF ProcNames
  <2>3. QED
    BY <1>2, <2>2, MovedIsOK DEF ProcOK
<1>6. CASE ~Contaminated /\ Fixed
  BY <1>1, <1>2, <1>3, <1>4, <1>6, AfterProbeIsOK
<1>7. CASE ~Contaminated /\ ~Fixed
  <2>1. proc' = [p EXCEPT !.at = "write"]
    BY <1>1, <1>7
  <2>2. /\ DOMAIN proc' = ProcNames /\ proc'.at = "write" /\ proc'.row = p.row
        /\ proc'.tokens = p.tokens /\ proc'.snapshots = p.snapshots
        /\ proc'.results = p.results /\ proc'.fraction = p.fraction
    BY <1>3, <2>1 DEF ProcNames
  <2>3. Located(proc', setup)
    BY <1>3, <1>4, <2>2 DEF Located, Phases, Replaying, AtAProbe, Probing, TraceOf
  <2>4. Cuts(proc', setup) /\ Results(proc', setup)
    BY <1>3, <2>2, CutsStay, ResultsStay
  <2>5. Replays(proc', Now', setup) /\ Feeds(proc', Now', setup)
    BY <2>2 DEF Replays, Feeds, Probing
  <2>6. QED
    BY <1>2, <2>3, <2>4, <2>5 DEF ProcOK
<1>8. QED
  BY <1>5, <1>6, <1>7

LEMMA WriteProcOK ==
  ASSUME SetupOK, ProcOK(proc, Now, setup), (\E f \in Fractions : AppendRecord(f)) \/ RowWritten
  PROVE ProcOK(proc', Now', setup)
<1>1. /\ Shape(Now) /\ DOMAIN proc = ProcNames /\ Located(proc, setup)
      /\ Cuts(proc, setup) /\ Results(proc, setup)
  BY DEF ProcOK, Located
<1>2. ASSUME NEW f \in Fractions, AppendRecord(f)
      PROVE ProcOK(proc', Now', setup)
  <2>1. /\ proc.at = "write" /\ model' = model /\ live' = live
        /\ proc' = [proc EXCEPT !.seen = @ \cup {IdOf(proc.row, f)}]
    BY <1>2 DEF AppendRecord
  <2>2. Now' = Now
    BY <2>1 DEF Now
  <2>3. /\ DOMAIN proc' = ProcNames /\ proc'.at = "write" /\ proc'.row = proc.row
        /\ proc'.tokens = proc.tokens /\ proc'.snapshots = proc.snapshots
        /\ proc'.results = proc.results /\ proc'.fraction = proc.fraction
    BY <1>1, <2>1 DEF ProcNames
  <2>4. Located(proc', setup)
    BY <1>1, <2>1, <2>3 DEF Located, TraceOf
  <2>5. Cuts(proc', setup) /\ Results(proc', setup)
    BY <1>1, <2>3, CutsStay, ResultsStay
  <2>6. Replays(proc', Now', setup) /\ Feeds(proc', Now', setup)
    BY <2>3 DEF Replays, Feeds, Probing
  <2>7. QED
    BY <1>1, <2>2, <2>4, <2>5, <2>6 DEF ProcOK
<1>3. CASE RowWritten
  <2>1. /\ proc.at = "write" /\ model' = model /\ live' = live
        /\ proc' = IF Fixed THEN NextRow(proc) ELSE AfterProbe(proc, Turn(proc.fraction))
    BY <1>3 DEF RowWritten
  <2>2. Now' = Now
    BY <2>1 DEF Now
  <2>3. DOMAIN proc.snapshots = Fractions /\ proc.fraction \in Fractions
    BY <1>1, <2>1 DEF Located, Replaying, AtAProbe
  <2>4. QED
    BY <1>1, <2>1, <2>2, <2>3, NextRowIsOK, AfterProbeIsOK
<1>4. QED
  BY <1>2, <1>3

LEMMA InitProcOK ==
  ASSUME Init
  PROVE SetupOK /\ ProcOK(proc, Now, setup)
<1>1. /\ model = FreshModel /\ live = EmptyState
      /\ proc = IF Fixed THEN Idle ELSE [Idle EXCEPT !.at = "generate", !.row = Min(Rows)]
  BY DEF Init
<1>2. SetupOK
  <2>1. PICK c \in Commands, t \in [Rows -> Traces], r \in Rankings :
          setup = [command |-> c.command, mode |-> c.mode, traces |-> t, ranking |-> r]
    BY DEF Init
  <2>2. QED
    BY <2>1 DEF SetupOK
<1>3. Shape(Now)
  BY <1>1, FreshHasShape DEF Now, Fresh
<1>4. CASE Fixed
  BY <1>1, <1>2, <1>3, <1>4, IdleFields, BlankIsOK
<1>5. CASE ~Fixed
  <2>1. proc = [Idle EXCEPT !.at = "generate", !.row = Min(Rows)]
    BY <1>1, <1>5
  <2>2. Min(Rows) \in Rows
    BY ProbeAssumption, MinOfNat
  <2>3. /\ DOMAIN proc = ProcNames /\ proc.at = "generate" /\ proc.row \in Rows
        /\ proc.tokens = 0 /\ proc.snapshots = Idle.snapshots /\ proc.results = Idle.results
    BY <2>1, <2>2, IdleFields DEF ProcNames
  <2>4. QED
    BY <1>2, <1>3, <2>3, IdleFields, BlankIsOK
<1>6. QED
  BY <1>2, <1>4, <1>5

LEMMA NextProcOK ==
  ASSUME SetupOK, ProcOK(proc, Now, setup), [Next]_vars
  PROVE SetupOK' /\ ProcOK(proc', Now', setup) /\ setup' = setup
<1>1. setup' = setup
  BY DEF Next, vars, BaseReset, BasePrefill, BaseDecode, BaseFinish, Start, Killed, ReplayReset,
         ReplayPrefill, ReplayDecode, Branch, ForceCompressionOff, Feed, FinishProbe,
         AppendRecord, RowWritten
<1>2. SetupOK'
  BY <1>1 DEF SetupOK
<1>3. CASE UNCHANGED vars
  <2>1. proc' = proc /\ Now' = Now
    BY <1>3 DEF vars, Now
  <2>2. QED
    BY <1>1, <1>2, <2>1
<1>4. CASE Next
  BY <1>1, <1>2, <1>4, BaseProcOK, StartProcOK, KilledProcOK, ResetProcOK, PrefillProcOK,
     DecodeProcOK, BranchProcOK, ForceProcOK, FeedProcOK, FinishProcOK, WriteProcOK DEF Next
<1>5. QED
  BY <1>3, <1>4

LEMMA ProcInvariant == Spec => [](SetupOK /\ ProcOK(proc, Now, setup))
<1>1. Init => SetupOK /\ ProcOK(proc, Now, setup)
  BY InitProcOK
<1>2. SetupOK /\ ProcOK(proc, Now, setup) /\ [Next]_vars
        => (SetupOK /\ ProcOK(proc, Now, setup))'
  BY NextProcOK
<1>3. QED
  BY <1>1, <1>2, PTL DEF Spec

-----------------------------------------------------------------------------
(* Every result there has been is that of its trace and cut.                 *)
ComputedOK ==
  \A p \in computed :
     LET t == setup.traces[p.row]
     IN /\ p.cut - Len(t.prompt) \in Nat
        /\ IsResult(t, setup.ranking, FrozenIn(setup), p.cut, p.result)

LEMMA FinishComputedOK ==
  ASSUME SetupOK, ProcOK(proc, Now, setup), ComputedOK, FinishProbe, setup' = setup
  PROVE ComputedOK'
<1> DEFINE p == [proc EXCEPT !.results =
                   Joined(@, [f \in {proc.fraction} |-> Result(proc.probe)])]
           entry == [row |-> p.row, cut |-> CutPosition(Trace, p.fraction),
                     result |-> p.results[p.fraction]]
<1>1. proc.at = "judge" /\ computed' \subseteq computed \cup {entry}
  BY DEF FinishProbe
<1>2. /\ p.row = proc.row /\ p.fraction = proc.fraction /\ Results(p, setup)
      /\ p.fraction \in DOMAIN p.results
  BY <1>1, ResultAdded
<1>3. /\ proc.row \in Rows /\ Parsed(Trace) /\ proc.fraction \in Fractions
      /\ Trace \in Traces
  BY <1>1, JudgedIsResult, TraceFacts
<1> HIDE DEF p
<1>4. TraceOf(p, setup) = Trace /\ setup.traces[entry.row] = Trace
  BY <1>2 DEF TraceOf, Trace
<1>5. IsResult(Trace, setup.ranking, FrozenIn(setup), entry.cut, entry.result)
  BY <1>2, <1>4 DEF Results
<1>6. entry.cut - Len(Trace.prompt) \in Nat
  BY <1>2, <1>3, CutFacts
<1> HIDE DEF entry
<1>7. QED
  BY <1>1, <1>4, <1>5, <1>6 DEF ComputedOK

LEMMA NextComputedOK ==
  ASSUME SetupOK, ProcOK(proc, Now, setup), ComputedOK, [Next]_vars
  PROVE ComputedOK'
<1>1. setup' = setup
  BY NextProcOK
<1>2. computed' = computed \/ FinishProbe
  BY DEF Next, vars, BaseReset, BasePrefill, BaseDecode, BaseFinish, Start, Killed, ReplayReset,
         ReplayPrefill, ReplayDecode, Branch, ForceCompressionOff, Feed, AppendRecord, RowWritten
<1>3. CASE computed' = computed
  BY <1>1, <1>3 DEF ComputedOK
<1>4. CASE FinishProbe
  BY <1>1, <1>4, FinishComputedOK
<1>5. QED
  BY <1>2, <1>3, <1>4

(* A probe's result depends on the trace and the cut alone, whatever the     *)
(* process did before, whatever earlier runs wrote, wherever they were       *)
(* killed and whichever fraction the cut belongs to (branch_and_probe of     *)
(* generation/replay.py behind reset_patched_state).                         *)
THEOREM ResultsAreReproducible == Spec => []ProbesAreReproducible
<1>1. Init => ComputedOK
  BY DEF Init, ComputedOK
<1>2. SetupOK /\ ProcOK(proc, Now, setup) /\ ComputedOK /\ [Next]_vars => ComputedOK'
  BY NextComputedOK
<1>3. ComputedOK => ProbesAreReproducible
  <2>1. SUFFICES ASSUME ComputedOK, NEW p \in computed, NEW q \in computed,
                        p.row = q.row, p.cut = q.cut
                 PROVE p.result = q.result
    BY DEF ProbesAreReproducible
  <2> DEFINE t == setup.traces[p.row]
  <2>2. /\ p.cut - Len(t.prompt) \in Nat
        /\ IsResult(t, setup.ranking, FrozenIn(setup), p.cut, p.result)
        /\ IsResult(t, setup.ranking, FrozenIn(setup), p.cut, q.result)
    BY <2>1 DEF ComputedOK
  <2>3. QED
    BY <2>2, ResultIsUnique
<1>4. QED
  BY <1>1, <1>2, <1>3, ProcInvariant, PTL DEF Spec

-----------------------------------------------------------------------------
(* The order of the probes of a fixed trace: the anchor's, and then the      *)
(* others as their fractions are ordered.                                    *)
LEMMA OrderFacts ==
  ASSUME Fixed
  PROVE /\ DOMAIN ProbeOrder = 1..(Denominator + 1)
        /\ \A m, n \in 1..(Denominator + 1) : ProbeOrder[m] = ProbeOrder[n] => m = n
        /\ {ProbeOrder[m] : m \in 1..(Denominator + 1)} = Fractions
<1>1. Denominator \in Nat \ {0}
  BY ProbeAssumption
<1>2. \A n \in 1..(Denominator + 1) :
         ProbeOrder[n] = IF n = 1 THEN Denominator ELSE n - 2
  BY DEF ProbeOrder
<1>3. DOMAIN ProbeOrder = 1..(Denominator + 1)
  BY DEF ProbeOrder
<1>4. \A m, n \in 1..(Denominator + 1) : ProbeOrder[m] = ProbeOrder[n] => m = n
  BY <1>1, <1>2
<1>5. ASSUME NEW f \in Fractions PROVE \E m \in 1..(Denominator + 1) : ProbeOrder[m] = f
  <2>1. CASE f = Denominator
    BY <1>1, <1>2, <2>1
  <2>2. CASE f # Denominator
    <3>1. f + 2 \in 1..(Denominator + 1) /\ f + 2 # 1 /\ (f + 2) - 2 = f
      BY <1>1, <2>2 DEF Fractions
    <3>2. ProbeOrder[f + 2] = f
      BY <1>2, <3>1
    <3>3. QED
      BY <3>1, <3>2
  <2>3. QED
    BY <2>1, <2>2
<1>6. \A n \in 1..(Denominator + 1) : ProbeOrder[n] \in Fractions
  BY <1>1, <1>2 DEF Fractions
<1>7. QED
  BY <1>3, <1>4, <1>5, <1>6

LEMMA TurnFacts ==
  ASSUME Fixed, NEW n \in 1..(Denominator + 1)
  PROVE Turn(ProbeOrder[n]) = n
BY OrderFacts DEF Turn

ProbedBefore(n) == {ProbeOrder[m] : m \in 1..(n - 1)}

LEMMA AfterFixedProbe ==
  ASSUME Fixed, NEW p, DOMAIN p = ProcNames, NEW n \in 0..(Denominator + 1)
  PROVE /\ AfterProbe(p, n).results = p.results
        /\ n <= Denominator =>
             AfterProbe(p, n).at = "branch" /\ AfterProbe(p, n).fraction = ProbeOrder[n + 1]
        /\ n = Denominator + 1 => AfterProbe(p, n).at = "write"
<1> DEFINE later == {m \in ToProbe(p) : m > n}
<1>1. later = {m \in 1..(Denominator + 1) : m > n} /\ Denominator \in Nat
  BY ProbeAssumption DEF ToProbe
<1>2. CASE n <= Denominator
  <2>1. n + 1 \in later /\ \A m \in later : n + 1 <= m
    BY <1>1, <1>2
  <2>2. later \subseteq Nat
    BY <1>1
  <2>3. AfterProbe(p, n) = IF later # {} THEN [p EXCEPT !.at = "branch",
                                                        !.fraction = ProbeOrder[Min(later)]]
                           ELSE [p EXCEPT !.at = "write"]
    BY DEF AfterProbe
  <2> HIDE DEF later
  <2>4. Min(later) \in later /\ Min(later) \in Nat /\ Min(later) <= n + 1
    BY <2>1, <2>2, MinOfNat
  <2>5. Min(later) = n + 1
    BY <2>1, <2>4
  <2>6. later # {}
    BY <2>1
  <2>7. AfterProbe(p, n) = [p EXCEPT !.at = "branch", !.fraction = ProbeOrder[n + 1]]
    BY <2>3, <2>5, <2>6
  <2>8. QED
    BY <1>1, <1>2, <2>7 DEF ProcNames
<1>3. CASE n = Denominator + 1
  <2>1. later = {}
    BY <1>1, <1>3
  <2>2. AfterProbe(p, n) = [p EXCEPT !.at = "write"]
    BY <2>1 DEF AfterProbe
  <2>3. QED
    BY <1>1, <1>3, <2>2 DEF ProcNames
<1>4. QED
  BY <1>1, <1>2, <1>3

(* What has been probed when a probe is under way, and when records are      *)
(* written.                                                                  *)
OrderOK ==
  /\ Fixed /\ proc.at \in Probing \cup {"branch"} =>
       \E n \in 1..(Denominator + 1) :
          proc.fraction = ProbeOrder[n] /\ DOMAIN proc.results = ProbedBefore(n)
  /\ proc.at = "write" =>
       IF Fixed THEN DOMAIN proc.results = Fractions ELSE proc.fraction \in DOMAIN proc.results

LEMMA StaysInOrder ==
  ASSUME OrderOK, setup' = setup, DOMAIN proc = ProcNames,
         \/ proc.at \in Probing \cup {"branch"} /\ proc'.at \in Probing
         \/ proc.at = "write" /\ proc'.at = "write",
         proc'.results = proc.results, proc'.fraction = proc.fraction
  PROVE OrderOK'
<1>1. (Fixed' <=> Fixed) /\ ProbeOrder' = ProbeOrder
  BY DEF Fixed, ProbeOrder
<1>2. QED
  BY <1>1 DEF OrderOK, ProbedBefore, Probing

LEMMA AfterFixedProbeInOrder ==
  ASSUME Fixed, setup' = setup, NEW p, DOMAIN p = ProcNames, NEW n \in 0..(Denominator + 1),
         proc' = AfterProbe(p, n), DOMAIN p.results = ProbedBefore(n + 1)
  PROVE OrderOK'
<1>1. (Fixed' <=> Fixed) /\ ProbeOrder' = ProbeOrder /\ Denominator \in Nat
  BY ProbeAssumption DEF Fixed, ProbeOrder
<1>2. /\ proc'.results = p.results
      /\ n <= Denominator => proc'.at = "branch" /\ proc'.fraction = ProbeOrder[n + 1]
      /\ n = Denominator + 1 => proc'.at = "write"
  BY AfterFixedProbe
<1>3. CASE n <= Denominator
  <2>1. n + 1 \in 1..(Denominator + 1)
    BY <1>1, <1>3
  <2>2. QED
    BY <1>1, <1>2, <1>3, <2>1 DEF OrderOK, ProbedBefore
<1>4. CASE n = Denominator + 1
  <2>1. (n + 1) - 1 = Denominator + 1
    BY <1>1, <1>4
  <2>2. DOMAIN p.results = Fractions
    BY <2>1, OrderFacts DEF ProbedBefore
  <2>3. QED
    BY <1>1, <1>2, <1>4, <2>2 DEF OrderOK, Probing
<1>5. QED
  BY <1>1, <1>3, <1>4

LEMMA NextRowLeaves ==
  ASSUME NEW p, DOMAIN p = ProcNames
  PROVE NextRow(p).at \in {"done", "reset"}
BY IdleFields DEF NextRow, GoToRow, ProcNames

LEMMA ElsewhereInOrder ==
  ASSUME proc'.at \notin Probing \cup {"branch", "write"}
  PROVE OrderOK'
BY DEF OrderOK, Probing

LEMMA NativeAfterProbe ==
  ASSUME ~Fixed, setup' = setup, NEW p, DOMAIN p = ProcNames, NEW n, proc' = AfterProbe(p, n)
  PROVE OrderOK'
<1>1. ~Fixed'
  BY DEF Fixed
<1>2. proc'.at # "write"
  <2>1. \/ proc' = NextRow(p)
        \/ proc'.at = "branch"
    BY DEF AfterProbe, ProcNames
  <2>2. QED
    BY <2>1, NextRowLeaves
<1>3. QED
  BY <1>1, <1>2 DEF OrderOK

LEMMA DecodeInOrder ==
  ASSUME ProcOK(proc, Now, setup), ReplayDecode
  PROVE OrderOK'
<1> DEFINE p == [proc EXCEPT !.tokens = @ + 1,
                             !.snapshots = Joined(@, Captured(live'.pos))]
<1>1. /\ DOMAIN proc = ProcNames /\ proc.at = "decode" /\ DOMAIN proc.results = {}
  BY DEF ReplayDecode, ProcOK, Located
<1>2. /\ setup' = setup
      /\ proc' = IF DOMAIN p.snapshots = Fractions THEN AfterProbe(p, 0)
                 ELSE IF p.tokens = Len(Trace.generated) THEN [p EXCEPT !.at = "failed"]
                 ELSE p
  BY DEF ReplayDecode
<1>3. DOMAIN p = ProcNames /\ p.at = "decode" /\ p.results = proc.results
  BY <1>1 DEF ProcNames
<1> HIDE DEF p
<1>4. CASE proc' = AfterProbe(p, 0)
  <2>1. CASE Fixed
    <3>1. DOMAIN p.results = ProbedBefore(0 + 1)
      BY <1>1, <1>3 DEF ProbedBefore
    <3>2. 0 \in 0..(Denominator + 1)
      BY ProbeAssumption
    <3>3. QED
      BY <1>2, <1>3, <1>4, <2>1, <3>1, <3>2, AfterFixedProbeInOrder
  <2>2. CASE ~Fixed
    BY <1>2, <1>3, <1>4, <2>2, NativeAfterProbe
  <2>3. QED
    BY <2>1, <2>2
<1>5. CASE proc' = [p EXCEPT !.at = "failed"] \/ proc' = p
  <2>1. proc'.at \in {"failed", "decode"}
    BY <1>3, <1>5 DEF ProcNames
  <2>2. QED
    BY <2>1, ElsewhereInOrder DEF Probing
<1>6. QED
  BY <1>2, <1>4, <1>5

LEMMA FinishInOrder ==
  ASSUME SetupOK, ProcOK(proc, Now, setup), OrderOK, FinishProbe
  PROVE OrderOK'
<1> DEFINE p == [proc EXCEPT !.results =
                   Joined(@, [f \in {proc.fraction} |-> Result(proc.probe)])]
<1>1. /\ proc.at = "judge" /\ setup' = setup
      /\ proc' = IF Contaminated THEN [proc EXCEPT !.at = "failed"]
                 ELSE IF Fixed THEN AfterProbe(p, Turn(p.fraction))
                 ELSE [p EXCEPT !.at = "write"]
  BY DEF FinishProbe
<1>2. DOMAIN proc = ProcNames
  BY DEF ProcOK, Located
<1>3. /\ DOMAIN p = ProcNames /\ p.fraction = proc.fraction
      /\ DOMAIN p.results = DOMAIN proc.results \cup {proc.fraction}
  BY <1>1, ResultAdded
<1> HIDE DEF p
<1>4. CASE Contaminated
  <2>1. proc'.at = "failed"
    BY <1>1, <1>2, <1>4 DEF ProcNames
  <2>2. QED
    BY <2>1, ElsewhereInOrder DEF Probing
<1>5. CASE ~Contaminated /\ Fixed
  <2>1. PICK n \in 1..(Denominator + 1) :
          proc.fraction = ProbeOrder[n] /\ DOMAIN proc.results = ProbedBefore(n)
    BY <1>1, <1>5 DEF OrderOK, Probing
  <2>2. Turn(p.fraction) = n
    BY <1>3, <1>5, <2>1, TurnFacts
  <2>3. DOMAIN p.results = ProbedBefore(n + 1)
    <3>1. n \in Nat /\ 1..((n + 1) - 1) = 1..(n - 1) \cup {n}
      BY <2>1, ProbeAssumption
    <3>2. QED
      BY <1>3, <2>1, <3>1 DEF ProbedBefore
  <2>4. n \in 0..(Denominator + 1)
    BY <2>1
  <2>5. QED
    BY <1>1, <1>3, <1>5, <2>2, <2>3, <2>4, AfterFixedProbeInOrder
<1>6. CASE ~Contaminated /\ ~Fixed
  <2>1. ~Fixed'
    BY <1>1, <1>6 DEF Fixed
  <2>2. proc' = [p EXCEPT !.at = "write"]
    BY <1>1, <1>6
  <2>3. proc'.at = "write" /\ proc'.fraction = p.fraction /\ proc'.results = p.results
    BY <1>3, <2>2 DEF ProcNames
  <2>4. QED
    BY <1>3, <2>1, <2>3 DEF OrderOK
<1>7. QED
  BY <1>4, <1>5, <1>6

LEMMA NextInOrder ==
  ASSUME SetupOK, ProcOK(proc, Now, setup), OrderOK, [Next]_vars
  PROVE OrderOK'
<1>1. setup' = setup /\ DOMAIN proc = ProcNames
  BY NextProcOK DEF ProcOK, Located
<1>2. CASE UNCHANGED vars
  <2>1. proc' = proc /\ ProbeOrder' = ProbeOrder /\ (Fixed' <=> Fixed)
    BY <1>2 DEF vars, ProbeOrder, Fixed
  <2>2. QED
    BY <2>1 DEF OrderOK, ProbedBefore
<1>3. CASE BaseReset \/ BasePrefill \/ BaseDecode \/ ReplayReset \/ ReplayPrefill
  <2>1. proc'.at \in {"base", "prefill", "decode"}
    BY <1>1, <1>3 DEF BaseReset, BasePrefill, BaseDecode, ReplayReset, ReplayPrefill, ProcNames
  <2>2. QED
    BY <2>1, ElsewhereInOrder DEF Probing
<1>4. CASE BaseFinish \/ Killed
  <2>1. proc' = Idle \/ \E row : proc' = [Idle EXCEPT !.at = "generate", !.row = row]
    BY <1>4 DEF BaseFinish, Killed
  <2>2. proc'.at \in {"down", "generate"}
    BY <2>1, IdleFields DEF ProcNames
  <2>3. QED
    BY <2>2, ElsewhereInOrder DEF Probing
<1>5. CASE Start
  <2>1. \/ \E p, rows : DOMAIN p = ProcNames /\ proc' = GoToRow(p, rows)
        \/ proc' = [Idle EXCEPT !.at = "failed"]
    <3> DEFINE p == [Idle EXCEPT !.seen = RecordIds(file.lines)]
    <3>1. DOMAIN p = ProcNames
      BY IdleFields
    <3>2. QED
      BY <1>5, <3>1 DEF Start
  <2>2. proc'.at \in {"done", "reset", "failed"}
    BY <2>1, IdleFields DEF GoToRow, ProcNames
  <2>3. QED
    BY <2>2, ElsewhereInOrder DEF Probing
<1>6. CASE ReplayDecode
  BY <1>6, DecodeInOrder
<1>7. CASE Branch \/ ForceCompressionOff
  <2>1. /\ proc.at \in {"branch", "freeze"} /\ proc'.at \in {"freeze", "feed"}
        /\ proc'.results = proc.results /\ proc'.fraction = proc.fraction
    BY <1>1, <1>7 DEF Branch, ForceCompressionOff, ProcNames
  <2>2. QED
    BY <1>1, <2>1, StaysInOrder DEF Probing
<1>8. CASE Feed
  <2>1. proc.at = "feed" /\ \E probe, at : /\ at \in {"judge", "freeze", "feed"}
                                          /\ proc' = [proc EXCEPT !.probe = probe, !.at = at]
    <3> DEFINE fed == proc.probe.fed + 1
               probe == [proc.probe EXCEPT
                           !.fed = fed,
                           !.first = IF fed = ForcedTokens THEN live'.cache ELSE @,
                           !.last = live'.cache]
               at == IF ~MoreToFeed(probe) THEN "judge" ELSE IF Frozen THEN "freeze" ELSE "feed"
    <3>1. proc.at = "feed" /\ proc' = [proc EXCEPT !.probe = probe, !.at = at]
      BY <1>8, Zenon DEF Feed
    <3>2. at \in {"judge", "freeze", "feed"}
      OBVIOUS
    <3> HIDE DEF probe, at
    <3>3. QED
      BY <3>1, <3>2
  <2>2. /\ proc.at \in Probing /\ proc'.at \in Probing
        /\ proc'.results = proc.results /\ proc'.fraction = proc.fraction
    BY <1>1, <2>1 DEF ProcNames, Probing
  <2>3. QED
    BY <1>1, <2>2, StaysInOrder
<1>9. CASE FinishProbe
  BY <1>9, FinishInOrder
<1>10. CASE \E f \in Fractions : AppendRecord(f)
  <2>1. /\ proc.at = "write" /\ proc'.at = "write"
        /\ proc'.results = proc.results /\ proc'.fraction = proc.fraction
    BY <1>1, <1>10 DEF AppendRecord, ProcNames
  <2>2. QED
    BY <1>1, <2>1, StaysInOrder
<1>11. CASE RowWritten
  <2>1. proc' = IF Fixed THEN NextRow(proc) ELSE AfterProbe(proc, Turn(proc.fraction))
    BY <1>11 DEF RowWritten
  <2>2. CASE Fixed
    BY <1>1, <2>1, <2>2, NextRowLeaves, ElsewhereInOrder DEF Probing
  <2>3. CASE ~Fixed
    BY <1>1, <2>1, <2>3, NativeAfterProbe
  <2>4. QED
    BY <2>2, <2>3
<1>12. QED
  BY <1>2, <1>3, <1>4, <1>5, <1>6, <1>7, <1>8, <1>9, <1>10, <1>11 DEF Next

LEMMA OrderInvariant == Spec => []OrderOK
<1>1. Init => OrderOK
  <2>1. SUFFICES ASSUME Init PROVE OrderOK
    OBVIOUS
  <2>2. proc = Idle \/ \E row : proc = [Idle EXCEPT !.at = "generate", !.row = row]
    BY <2>1 DEF Init
  <2>3. proc.at \in {"down", "generate"}
    BY <2>2, IdleFields DEF ProcNames
  <2>4. QED
    BY <2>3 DEF OrderOK, Probing
<1>2. SetupOK /\ ProcOK(proc, Now, setup) /\ OrderOK /\ [Next]_vars => OrderOK'
  BY NextInOrder
<1>3. QED
  BY <1>1, <1>2, ProcInvariant, PTL DEF Spec

-----------------------------------------------------------------------------
(* The records in the file.                                                  *)
AnswerAt(t, r, frozen, f, answer) ==
  \E result : IsResult(t, r, frozen, CutPosition(t, f), result) /\ answer = result.answer

LEMMA AnswerIsUnique ==
  ASSUME NEW t \in Traces, Parsed(t), NEW f \in Fractions, NEW r, NEW frozen,
         NEW a, AnswerAt(t, r, frozen, f, a), NEW b, AnswerAt(t, r, frozen, f, b)
  PROVE a = b
<1>1. PICK x : IsResult(t, r, frozen, CutPosition(t, f), x) /\ a = x.answer
  BY DEF AnswerAt
<1>2. PICK y : IsResult(t, r, frozen, CutPosition(t, f), y) /\ b = y.answer
  BY DEF AnswerAt
<1>3. CutPosition(t, f) - Len(t.prompt) \in Nat
  BY CutFacts
<1>4. x = y
  BY <1>1, <1>2, <1>3, ResultIsUnique
<1>5. QED
  BY <1>1, <1>2, <1>4

GoodRecord(q, su) ==
  LET t == su.traces[q.id[1]]
  IN /\ q.id[1] \in Rows /\ q.id[2] \in Fractions /\ Parsed(t)
     /\ AnswerAt(t, su.ranking, FrozenIn(su), q.id[2], q.answer)
     /\ su.command = "replay-fixed-trace" =>
          AnswerAt(t, su.ranking, FrozenIn(su), Denominator, q.anchor)

FileOf(f, su) == \E R : f \in JsonlFiles(R) /\ \A q \in R : GoodRecord(q, su)

FileOK == FileOf(file, setup)

LEMMA RecordIsGood ==
  ASSUME SetupOK, ProcOK(proc, Now, setup), OrderOK, proc.at = "write", NEW f \in ToWrite
  PROVE GoodRecord(Record(f), setup)
<1> DEFINE q == Record(f)
           r == setup.ranking
<1>1. /\ proc.row \in Rows /\ Parsed(TraceOf(proc, setup)) /\ Results(proc, setup)
  BY DEF ProcOK, Located, Replaying, AtAProbe
<1>2. f \in DOMAIN proc.results /\ f \in Fractions
  BY <1>1 DEF OrderOK, ToWrite, Results
<1>3. /\ q.id[1] = proc.row /\ q.id[2] = f /\ q.answer = proc.results[f].answer
      /\ q.anchor = IF Fixed THEN Anchor ELSE << >>
  BY DEF Record, IdOf
<1> HIDE DEF q
<1>4. setup.traces[q.id[1]] = TraceOf(proc, setup)
  BY <1>3 DEF TraceOf
<1>5. AnswerAt(TraceOf(proc, setup), r, FrozenIn(setup), f, q.answer)
  BY <1>1, <1>2, <1>3 DEF Results, AnswerAt
<1>6. Fixed => AnswerAt(TraceOf(proc, setup), r, FrozenIn(setup), Denominator, q.anchor)
  <2>1. SUFFICES ASSUME Fixed
                 PROVE AnswerAt(TraceOf(proc, setup), r, FrozenIn(setup), Denominator, q.anchor)
    OBVIOUS
  <2>2. Denominator \in DOMAIN proc.results
    BY <2>1, ProbeAssumption DEF OrderOK, Fractions
  <2>3. q.anchor = proc.results[Denominator].answer
    BY <1>3, <2>1 DEF Anchor
  <2>4. QED
    BY <1>1, <2>2, <2>3 DEF Results, AnswerAt
<1>7. QED
  BY <1>1, <1>2, <1>3, <1>4, <1>5, <1>6 DEF GoodRecord, Fixed, q

LEMMA ToWriteFacts ==
  ASSUME ToWrite # {}, proc.fraction \in Fractions
  PROVE ToWrite \subseteq Fractions /\ Min(ToWrite) \in ToWrite
<1>1. ToWrite \subseteq Fractions
  BY DEF ToWrite
<1>2. Fractions \subseteq Nat
  BY ProbeAssumption DEF Fractions
<1>3. QED
  BY <1>1, <1>2, MinOfNat

LEMMA JsonlFilesGrow ==
  ASSUME NEW R, NEW f \in JsonlFiles(R), NEW q
  PROVE f \in JsonlFiles(R \cup {q})
BY DEF JsonlFiles

LEMMA WritesAreGood ==
  ASSUME NEW f, NEW su, FileOf(f, su), NEW q, GoodRecord(q, su)
  PROVE /\ FileOf(WriteText(f, q), su)
        /\ FileOf(WriteLineBreak(WriteText(f, q)), su)
        /\ FileOf(TearText(f), su)
<1>1. PICK R : f \in JsonlFiles(R) /\ \A x \in R : GoodRecord(x, su)
  BY DEF FileOf
<1> DEFINE S == R \cup {q}
<1>2. /\ f \in JsonlFiles(S) /\ q \in S /\ \A x \in S : GoodRecord(x, su)
  BY <1>1, JsonlFilesGrow
<1> HIDE DEF S
<1>3. WriteText(f, q) \in JsonlFiles(S)
  BY <1>2, WriteTextTyped
<1>4. WriteLineBreak(WriteText(f, q)) \in JsonlFiles(S)
  BY <1>3, WriteLineBreakTyped
<1>5. TearText(f) \in JsonlFiles(S)
  BY <1>2, SpoilTailTyped DEF TearText
<1>6. QED
  BY <1>2, <1>3, <1>4, <1>5 DEF FileOf

LEMMA NextFileOK ==
  ASSUME SetupOK, ProcOK(proc, Now, setup), OrderOK, FileOK, [Next]_vars
  PROVE FileOK'
<1> USE DEF FileOK
<1>0. setup' = setup
  BY NextProcOK
<1>1. \/ file' = file
      \/ \E f \in Fractions : AppendRecord(f)
      \/ Killed
  BY DEF Next, vars, BaseReset, BasePrefill, BaseDecode, BaseFinish, Start, ReplayReset,
         ReplayPrefill, ReplayDecode, Branch, ForceCompressionOff, Feed, FinishProbe, RowWritten
<1>2. CASE file' = file
  BY <1>0, <1>2
<1>3. ASSUME NEW f \in Fractions, AppendRecord(f) PROVE FileOK'
  <2>1. /\ proc.at = "write" /\ ToWrite # {} /\ f = Min(ToWrite)
        /\ file' = WriteLineBreak(WriteText(file, Record(f)))
    BY <1>3 DEF AppendRecord
  <2>2. f \in ToWrite
    <3>1. proc.fraction \in Fractions
      BY <2>1 DEF ProcOK, Located, Replaying, AtAProbe
    <3>2. QED
      BY <2>1, <3>1, ToWriteFacts
  <2>3. QED
    BY <1>0, <2>1, <2>2, RecordIsGood, WritesAreGood
<1>4. CASE Killed
  <2>1. \/ file' = file
        \/ /\ proc.at = "write"
           /\ \E f \in ToWrite : file' \in {TearText(file), WriteText(file, Record(f))}
    BY <1>4 DEF Killed
  <2>2. QED
    BY <1>0, <2>1, RecordIsGood, WritesAreGood
<1>5. QED
  BY <1>1, <1>2, <1>3, <1>4

(* However often a fixed-trace replay was killed and resumed, the records of *)
(* one trace share one anchor, and the record of the last fraction has it as *)
(* its answer (the anchor cmd_replay_fixed_trace computes anew in every      *)
(* process).                                                                 *)
THEOREM OneAnchor == Spec => []OneAnchorPerTrace
<1>1. Init => FileOK
  <2>1. NoRecords \in JsonlFiles({})
    BY DEF NoRecords, JsonlFiles
  <2>2. QED
    BY <2>1 DEF Init, FileOf, FileOK
<1>2. SetupOK /\ ProcOK(proc, Now, setup) /\ OrderOK /\ FileOK /\ [Next]_vars => FileOK'
  BY NextFileOK
<1>3. SetupOK /\ FileOK => OneAnchorPerTrace
  <2>1. SUFFICES ASSUME SetupOK, FileOK, Fixed,
                        NEW i \in DOMAIN file.lines, NEW j \in DOMAIN file.lines,
                        file.lines[i].id[1] = file.lines[j].id[1]
                 PROVE /\ file.lines[i].anchor = file.lines[j].anchor
                       /\ file.lines[j].id[2] = Denominator =>
                            file.lines[i].anchor = file.lines[j].answer
    BY DEF OneAnchorPerTrace
  <2> DEFINE x == file.lines[i]
             y == file.lines[j]
             t == setup.traces[x.id[1]]
             r == setup.ranking
  <2>2. GoodRecord(x, setup) /\ GoodRecord(y, setup)
    <3>1. PICK R : file \in JsonlFiles(R) /\ \A q \in R : GoodRecord(q, setup)
      BY <2>1 DEF FileOf, FileOK
    <3>2. file.lines \in Seq(R)
      BY <3>1 DEF JsonlFiles
    <3>3. x \in R /\ y \in R
      BY <3>2
    <3>4. QED
      BY <3>1, <3>3
  <2>3. t = setup.traces[y.id[1]] /\ setup.command = "replay-fixed-trace"
    BY <2>1 DEF Fixed
  <2>4. t \in Traces /\ Parsed(t) /\ Denominator \in Fractions
    <3>1. x.id[1] \in Rows /\ Parsed(setup.traces[x.id[1]])
      BY <2>2 DEF GoodRecord
    <3>2. Denominator \in Fractions
      BY ProbeAssumption DEF Fractions
    <3>3. setup.traces[x.id[1]] \in Traces
      BY <2>1, <3>1 DEF SetupOK
    <3>4. QED
      BY <3>1, <3>2, <3>3
  <2>5. /\ AnswerAt(t, r, FrozenIn(setup), Denominator, x.anchor)
        /\ AnswerAt(t, r, FrozenIn(setup), Denominator, y.anchor)
        /\ AnswerAt(t, r, FrozenIn(setup), y.id[2], y.answer)
    BY <2>2, <2>3 DEF GoodRecord
  <2> HIDE DEF x, y, t, r
  <2>6. x.anchor = y.anchor
    BY <2>4, <2>5, AnswerIsUnique
  <2>7. y.id[2] = Denominator => x.anchor = y.answer
    BY <2>4, <2>5, AnswerIsUnique
  <2>8. QED
    BY <2>6, <2>7 DEF x, y
<1>4. QED
  BY <1>1, <1>2, <1>3, ProcInvariant, OrderInvariant, PTL DEF Spec

-----------------------------------------------------------------------------
(* The base generations.                                                     *)
Ended(t) == Cardinality({i \in DOMAIN t.generated : t.generated[i] # "eos"})

LEMMA EndedFacts ==
  ASSUME NEW t \in Traces
  PROVE /\ Ended(t) \in Nat
        /\ Ended(t) <= Len(t.generated)
        /\ Len(t.generated) - 1 <= Ended(t)
<1> DEFINE n == Len(t.generated)
           fed == {i \in DOMAIN t.generated : t.generated[i] # "eos"}
<1>1. n \in Nat /\ DOMAIN t.generated = 1..n
  BY TraceAssumption
<1>2. 1..(n - 1) \subseteq fed /\ fed \subseteq 1..n
  BY <1>1, TraceAssumption
<1>3. Ended(t) = Cardinality(fed)
  BY DEF Ended
<1> HIDE DEF fed, n
<1>4. IsFiniteSet(1..n) /\ Cardinality(1..n) = n
  BY <1>1, FS_Interval
<1>5. IsFiniteSet(fed) /\ Cardinality(fed) <= n
  <2>1. fed \in SUBSET (1..n)
    BY <1>2
  <2> DEFINE I == 1..n
  <2>2. fed \in SUBSET I /\ IsFiniteSet(I) /\ Cardinality(I) = n
    BY <1>4, <2>1
  <2> HIDE DEF I
  <2>3. QED
    BY <2>2, FS_Subset
<1>6. Cardinality(fed) \in Nat
  BY <1>5, FS_CardinalityType
<1>7. n - 1 <= Cardinality(fed)
  <2>1. CASE n = 0
    BY <1>6, <2>1
  <2>2. CASE n # 0
    <3> DEFINE m == n - 1
    <3>1. m \in Nat
      BY <1>1, <2>2
    <3>2. 1..m \in SUBSET fed
      BY <1>2
    <3> HIDE DEF m
    <3>3. Cardinality(1..m) = m
      BY <3>1, FS_Interval
    <3>4. Cardinality(1..m) <= Cardinality(fed)
      BY <1>5, <3>2, FS_Subset
    <3>5. QED
      BY <3>3, <3>4 DEF m
  <2>3. QED
    BY <2>1, <2>2
<1>8. QED
  BY <1>3, <1>5, <1>6, <1>7 DEF n

(* The states a base generation went through, a call after the other.        *)
BaseRun(b, t, r) ==
  /\ \E S : b \in Seq(S)
  /\ \A i \in 1..Len(b) : Reached(t, r, i - 1, b[i])

LEMMA BaseRunStarts ==
  ASSUME NEW t, NEW r, NEW s, Reached(t, r, 0, s)
  PROVE BaseRun(<<s>>, t, r) /\ Len(<<s>>) = 1 /\ <<s>> # << >>
<1>1. <<s>> \in Seq({s}) /\ Len(<<s>>) = 1 /\ <<s>>[1] = s
  OBVIOUS
<1>2. \A i \in 1..Len(<<s>>) : Reached(t, r, i - 1, <<s>>[i])
  BY <1>1
<1>3. QED
  BY <1>1, <1>2 DEF BaseRun

LEMMA BaseRunGrows ==
  ASSUME NEW t, NEW r, NEW b, BaseRun(b, t, r), NEW s, Reached(t, r, Len(b), s)
  PROVE /\ BaseRun(Append(b, s), t, r)
        /\ Len(Append(b, s)) = Len(b) + 1
        /\ Append(b, s) # << >>
<1>1. PICK S : b \in Seq(S)
  BY DEF BaseRun
<1> DEFINE T == S \cup {s}
           d == Append(b, s)
<1>2. b \in Seq(T) /\ s \in T
  BY <1>1
<1> HIDE DEF T
<1>3. /\ d \in Seq(T) /\ Len(d) = Len(b) + 1 /\ d[Len(b) + 1] = s
      /\ \A i \in 1..Len(b) : d[i] = b[i]
      /\ Len(b) \in Nat
  BY <1>2, AppendProperties
<1> HIDE DEF d
<1>4. ASSUME NEW i \in 1..Len(d) PROVE Reached(t, r, i - 1, d[i])
  <2>1. CASE i = Len(b) + 1
    <3>1. i - 1 = Len(b) /\ d[i] = s
      BY <1>3, <2>1
    <3>2. QED
      BY <3>1
  <2>2. CASE i # Len(b) + 1
    <3>1. i \in 1..Len(b)
      BY <1>3, <2>2
    <3>2. QED
      BY <1>3, <3>1 DEF BaseRun
  <2>3. QED
    BY <2>1, <2>2
<1>5. d # << >>
  BY <1>3
<1>6. QED
  BY <1>3, <1>4, <1>5 DEF BaseRun, d

Generating == {"generate", "base"}

TraceIn(row) == setup.traces[row]

Complete(row) == Len(base[row]) = Ended(TraceIn(row)) + 1

(* Rows are generated in order, each from a model that has been reset.       *)
BaseOK ==
  ~Fixed =>
    /\ DOMAIN base = Rows
    /\ \A row \in Rows : BaseRun(base[row], TraceIn(row), setup.ranking)
    /\ proc.at \notin Generating => \A row \in Rows : Complete(row)
    /\ proc.at \in Generating =>
         /\ proc.row \in Rows /\ DOMAIN proc.snapshots = {}
         /\ \A row \in Rows : row < proc.row => Complete(row)
         /\ \A row \in Rows : row > proc.row => base[row] = << >>
    /\ proc.at = "generate" => base[proc.row] = << >>
    /\ proc.at = "base" =>
         \/ base[proc.row] = << >> /\ proc.tokens = 0 /\ Now = Fresh
         \/ /\ base[proc.row] # << >> /\ proc.tokens \in Nat
            /\ Len(base[proc.row]) = proc.tokens + 1
            /\ Reached(TraceIn(proc.row), setup.ranking, proc.tokens, Now)

LEMMA AfterProbeLeaves ==
  ASSUME NEW p, DOMAIN p = ProcNames, NEW n
  PROVE AfterProbe(p, n).at \in {"branch", "write", "done", "reset"}
<1>1. \/ AfterProbe(p, n) = NextRow(p)
      \/ AfterProbe(p, n).at \in {"branch", "write"}
  BY DEF AfterProbe, ProcNames
<1>2. QED
  BY <1>1, NextRowLeaves

LEMMA GeneratingEnds ==
  ASSUME SetupOK, ProcOK(proc, Now, setup), Next,
         ~(BaseReset \/ BasePrefill \/ BaseDecode \/ BaseFinish)
  PROVE proc.at \notin Generating /\ proc'.at \notin Generating /\ base' = base
<1> USE DEF Generating
<1>1. DOMAIN proc = ProcNames
  BY DEF ProcOK, Located
<1>2. proc.at \notin Generating /\ base' = base
  BY DEF Next, Start, Killed, ReplayReset, ReplayPrefill, ReplayDecode, Branch,
         ForceCompressionOff, Feed, FinishProbe, AppendRecord, RowWritten
<1>3. CASE Start
  <2>1. \/ \E p, rows : DOMAIN p = ProcNames /\ proc' = GoToRow(p, rows)
        \/ proc' = [Idle EXCEPT !.at = "failed"]
    <3> DEFINE p == [Idle EXCEPT !.seen = RecordIds(file.lines)]
    <3>1. DOMAIN p = ProcNames
      BY IdleFields
    <3>2. QED
      BY <1>3, <3>1 DEF Start
  <2>2. proc'.at \in {"done", "reset", "failed"}
    BY <2>1, IdleFields DEF GoToRow, ProcNames
  <2>3. QED
    BY <1>2, <2>2
<1>4. CASE Killed
  BY <1>2, <1>4, IdleFields DEF Killed
<1>5. CASE ReplayReset \/ ReplayPrefill \/ Branch \/ ForceCompressionOff
  <2>1. proc'.at \in {"prefill", "decode", "freeze", "feed"}
    BY <1>1, <1>5 DEF ReplayReset, ReplayPrefill, Branch, ForceCompressionOff, ProcNames
  <2>2. QED
    BY <1>2, <2>1
<1>6. CASE ReplayDecode
  <2> DEFINE p == [proc EXCEPT !.tokens = @ + 1,
                               !.snapshots = Joined(@, Captured(live'.pos))]
  <2>1. /\ proc.at = "decode"
        /\ proc' = IF DOMAIN p.snapshots = Fractions THEN AfterProbe(p, 0)
                   ELSE IF p.tokens = Len(Trace.generated) THEN [p EXCEPT !.at = "failed"]
                   ELSE p
    BY <1>6 DEF ReplayDecode
  <2>2. DOMAIN p = ProcNames /\ p.at = "decode"
    BY <1>1, <2>1 DEF ProcNames
  <2> HIDE DEF p
  <2>3. proc'.at \in {"branch", "write", "done", "reset", "failed", "decode"}
    BY <2>1, <2>2, AfterProbeLeaves DEF ProcNames
  <2>4. QED
    BY <1>2, <2>3
<1>7. CASE Feed
  <2>1. \E probe, at : /\ at \in {"judge", "freeze", "feed"}
                       /\ proc' = [proc EXCEPT !.probe = probe, !.at = at]
    <3> DEFINE fed == proc.probe.fed + 1
               probe == [proc.probe EXCEPT
                           !.fed = fed,
                           !.first = IF fed = ForcedTokens THEN live'.cache ELSE @,
                           !.last = live'.cache]
               at == IF ~MoreToFeed(probe) THEN "judge" ELSE IF Frozen THEN "freeze" ELSE "feed"
    <3>1. proc' = [proc EXCEPT !.probe = probe, !.at = at]
      BY <1>7, Zenon DEF Feed
    <3>2. at \in {"judge", "freeze", "feed"}
      OBVIOUS
    <3> HIDE DEF probe, at
    <3>3. QED
      BY <3>1, <3>2
  <2>2. proc'.at \in {"judge", "freeze", "feed"}
    BY <1>1, <2>1 DEF ProcNames
  <2>3. QED
    BY <1>2, <2>2
<1>8. CASE FinishProbe
  <2> DEFINE p == [proc EXCEPT !.results =
                     Joined(@, [f \in {proc.fraction} |-> Result(proc.probe)])]
  <2>1. /\ proc.at = "judge"
        /\ \/ proc' = [proc EXCEPT !.at = "failed"]
           \/ proc' = AfterProbe(p, Turn(p.fraction))
           \/ proc' = [p EXCEPT !.at = "write"]
    BY <1>8 DEF FinishProbe
  <2>2. DOMAIN p = ProcNames
    BY <1>1
  <2> HIDE DEF p
  <2>3. proc'.at \in {"branch", "write", "done", "reset", "failed"}
    BY <1>1, <2>1, <2>2, AfterProbeLeaves DEF ProcNames
  <2>4. QED
    BY <1>2, <2>3
<1>9. CASE \E f \in Fractions : AppendRecord(f)
  <2>1. proc'.at = "write"
    BY <1>1, <1>9 DEF AppendRecord, ProcNames
  <2>2. QED
    BY <1>2, <2>1
<1>10. CASE RowWritten
  <2>1. proc' = NextRow(proc) \/ proc' = AfterProbe(proc, Turn(proc.fraction))
    BY <1>10 DEF RowWritten
  <2>2. QED
    BY <1>1, <1>2, <2>1, NextRowLeaves, AfterProbeLeaves
<1>11. QED
  BY <1>3, <1>4, <1>5, <1>6, <1>7, <1>8, <1>9, <1>10 DEF Next

(* A step of a base generation, with what BaseOK says before it.             *)
LEMMA BaseResetOK ==
  ASSUME SetupOK, ProcOK(proc, Now, setup), BaseOK, BaseReset
  PROVE BaseOK'
<1>1. /\ proc.at = "generate" /\ model' = FreshModel /\ live' = EmptyState
      /\ proc' = [proc EXCEPT !.at = "base", !.tokens = 0] /\ setup' = setup /\ base' = base
  BY DEF BaseReset, ResetPatchedState
<1>2. DOMAIN proc = ProcNames
  BY DEF ProcOK, Located
<1>3. /\ proc'.at = "base" /\ proc'.tokens = 0 /\ proc'.row = proc.row
      /\ proc'.snapshots = proc.snapshots
  BY <1>1, <1>2 DEF ProcNames
<1>4. Now' = Fresh /\ Fresh' = Fresh
  BY <1>1, ResetIsFresh DEF Fresh
<1>5. (~Fixed' <=> ~Fixed) /\ \A row : TraceIn(row)' = TraceIn(row) /\ (Complete(row)' <=> Complete(row))
  BY <1>1 DEF Fixed, TraceIn, Complete
<1>6. QED
  BY <1>1, <1>3, <1>4, <1>5 DEF BaseOK, Generating

LEMMA BasePrefillOK ==
  ASSUME SetupOK, ProcOK(proc, Now, setup), BaseOK, BasePrefill
  PROVE BaseOK'
<1>1. /\ proc.at = "base" /\ base[proc.row] = << >> /\ Calls(Len(Trace.prompt))
      /\ base' = [base EXCEPT ![proc.row] = <<Now'>>] /\ setup' = setup /\ proc' = proc
  BY DEF BasePrefill, Now
<1>2. ~Fixed' <=> ~Fixed
  BY <1>1 DEF Fixed
<1>3. SUFFICES ASSUME ~Fixed PROVE BaseOK'
  BY <1>2 DEF BaseOK
<1> DEFINE here == proc.row
           t == TraceIn(here)
           r == setup.ranking
<1>4. /\ DOMAIN base = Rows /\ here \in Rows /\ DOMAIN proc.snapshots = {}
      /\ \A row \in Rows : BaseRun(base[row], TraceIn(row), r)
      /\ \A row \in Rows : row < here => Complete(row)
      /\ \A row \in Rows : row > here => base[row] = << >>
  BY <1>1, <1>3 DEF BaseOK, Generating
<1>5. proc.tokens = 0 /\ Now = Fresh
  BY <1>1, <1>3 DEF BaseOK
<1>6. Reached(t, r, 0, Now')
  <2>1. Now' = After(Fresh, Len(t.prompt), r)
    BY <1>1, <1>5, CallIsAfter DEF Trace, TraceIn
  <2>2. QED
    BY <2>1, PromptReached
<1>7. BaseRun(<<Now'>>, t, r) /\ Len(<<Now'>>) = 1 /\ <<Now'>> # << >>
  BY <1>6, BaseRunStarts
<1>8. /\ DOMAIN base' = Rows /\ base'[here] = <<Now'>>
      /\ \A row \in Rows : row # here => base'[row] = base[row]
  BY <1>1, <1>4
<1>9. \A row \in Rows : BaseRun(base'[row], TraceIn(row), r)
  BY <1>4, <1>7, <1>8
<1>10. \A row \in Rows : row # here => (Complete(row)' <=> Complete(row))
  BY <1>1, <1>8 DEF Complete, TraceIn
<1>11. \A row : TraceIn(row)' = TraceIn(row)
  BY <1>1 DEF TraceIn
<1>12. Rows \subseteq Nat
  BY ProbeAssumption
<1>13. /\ \A row \in Rows : row < here => Complete(row)'
       /\ \A row \in Rows : row > here => base'[row] = << >>
  BY <1>4, <1>8, <1>10, <1>12
<1> HIDE DEF here, t, r
<1>14. QED
  BY <1>1, <1>4, <1>5, <1>6, <1>7, <1>8, <1>9, <1>11, <1>13 DEF BaseOK, Generating, here, t, r

LEMMA BaseDecodeOK ==
  ASSUME SetupOK, ProcOK(proc, Now, setup), BaseOK, BaseDecode
  PROVE BaseOK'
<1>1. /\ proc.at = "base" /\ base[proc.row] # << >> /\ Calls(1)
      /\ base' = [base EXCEPT ![proc.row] = Append(@, Now')] /\ setup' = setup
      /\ proc' = [proc EXCEPT !.tokens = @ + 1]
  BY DEF BaseDecode, Now
<1>2. ~Fixed' <=> ~Fixed
  BY <1>1 DEF Fixed
<1>3. SUFFICES ASSUME ~Fixed PROVE BaseOK'
  BY <1>2 DEF BaseOK
<1> DEFINE here == proc.row
           t == TraceIn(here)
           r == setup.ranking
           run == Append(base[here], Now')
<1>4. /\ DOMAIN base = Rows /\ here \in Rows /\ DOMAIN proc.snapshots = {}
      /\ \A row \in Rows : BaseRun(base[row], TraceIn(row), r)
      /\ \A row \in Rows : row < here => Complete(row)
      /\ \A row \in Rows : row > here => base[row] = << >>
  BY <1>1, <1>3 DEF BaseOK, Generating
<1>5. /\ Len(base[here]) = proc.tokens + 1 /\ proc.tokens \in Nat
      /\ Reached(t, r, proc.tokens, Now)
  BY <1>1, <1>3 DEF BaseOK
<1>6. Reached(t, r, proc.tokens + 1, Now')
  BY <1>1, <1>5, CallIsAfter, TokenReached
<1>7. BaseRun(run, t, r) /\ Len(run) = proc.tokens + 1 + 1 /\ run # << >>
  BY <1>4, <1>5, <1>6, BaseRunGrows
<1> HIDE DEF run
<1>8. /\ DOMAIN base' = Rows /\ base'[here] = run
      /\ \A row \in Rows : row # here => base'[row] = base[row]
  BY <1>1, <1>4 DEF run
<1>9. \A row \in Rows : BaseRun(base'[row], TraceIn(row), r)
  BY <1>4, <1>7, <1>8
<1>10. \A row \in Rows : row # here => (Complete(row)' <=> Complete(row))
  BY <1>1, <1>8 DEF Complete, TraceIn
<1>11. \A row : TraceIn(row)' = TraceIn(row)
  BY <1>1 DEF TraceIn
<1>12. Rows \subseteq Nat
  BY ProbeAssumption
<1>13. /\ \A row \in Rows : row < here => Complete(row)'
       /\ \A row \in Rows : row > here => base'[row] = << >>
  BY <1>4, <1>8, <1>10, <1>12
<1>14. DOMAIN proc = ProcNames
  BY DEF ProcOK, Located
<1>15. /\ proc'.at = "base" /\ proc'.row = here /\ proc'.tokens = proc.tokens + 1
       /\ proc'.snapshots = proc.snapshots /\ proc.tokens + 1 \in Nat
  BY <1>1, <1>5, <1>14 DEF ProcNames
<1> HIDE DEF here, t, r
<1>16. QED
  BY <1>1, <1>4, <1>6, <1>7, <1>8, <1>9, <1>11, <1>13, <1>15 DEF BaseOK, Generating, t, r

LEMMA BaseFinishOK ==
  ASSUME SetupOK, ProcOK(proc, Now, setup), BaseOK, BaseFinish
  PROVE BaseOK'
<1> DEFINE later == {row \in Rows : row > proc.row}
           here == proc.row
<1>1. /\ proc.at = "base" /\ base[here] # << >> /\ BaseEnds
      /\ proc' = IF later = {} THEN Idle ELSE [Idle EXCEPT !.at = "generate", !.row = Min(later)]
      /\ setup' = setup /\ base' = base
  BY DEF BaseFinish
<1>2. ~Fixed' <=> ~Fixed
  BY <1>1 DEF Fixed
<1>3. SUFFICES ASSUME ~Fixed PROVE BaseOK'
  BY <1>2 DEF BaseOK
<1>4. /\ DOMAIN base = Rows /\ here \in Rows
      /\ \A row \in Rows : BaseRun(base[row], TraceIn(row), setup.ranking)
      /\ \A row \in Rows : row < here => Complete(row)
      /\ \A row \in Rows : row > here => base[row] = << >>
  BY <1>1, <1>3 DEF BaseOK, Generating
<1>5. Complete(here)
  <2>1. Len(base[here]) = proc.tokens + 1
    BY <1>1, <1>3 DEF BaseOK
  <2>2. proc.tokens = Ended(TraceIn(here))
    BY <1>1 DEF BaseEnds, Ended, TraceIn, Trace
  <2>3. QED
    BY <2>1, <2>2 DEF Complete
<1>6. \A row : TraceIn(row)' = TraceIn(row) /\ (Complete(row)' <=> Complete(row))
  BY <1>1 DEF TraceIn, Complete
<1>7. Rows \subseteq Nat
  BY ProbeAssumption
<1>8. CASE later = {}
  <2>1. proc' = Idle
    BY <1>1, <1>8
  <2>2. \A row \in Rows : Complete(row)
    BY <1>4, <1>5, <1>7, <1>8
  <2>3. proc'.at = "down"
    BY <2>1, IdleFields
  <2>4. QED
    BY <1>1, <1>4, <1>6, <2>2, <2>3 DEF BaseOK, Generating
<1>9. CASE later # {}
  <2> DEFINE next == Min(later)
  <2>1. proc' = [Idle EXCEPT !.at = "generate", !.row = next]
    BY <1>1, <1>9
  <2>2. next \in later /\ \A row \in later : next <= row
    <3>1. later \subseteq Nat
      BY <1>7
    <3> HIDE DEF later
    <3>2. QED
      BY <1>9, <3>1, MinOfNat
  <2> HIDE DEF next
  <2>3. /\ proc'.at = "generate" /\ proc'.row = next /\ proc'.snapshots = Idle.snapshots
    BY <2>1, IdleFields DEF ProcNames
  <2>4. next \in Rows /\ next > here
    BY <2>2
  <2>5. \A row \in Rows : row < next => Complete(row)
    <3>1. SUFFICES ASSUME NEW row \in Rows, row < next PROVE Complete(row)
      OBVIOUS
    <3>2. row <= here
      BY <1>4, <1>7, <2>2, <2>4, <3>1
    <3>3. row < here \/ row = here
      BY <1>4, <1>7, <3>2
    <3>4. QED
      BY <1>4, <1>5, <3>3
  <2>6. \A row \in Rows : row >= next => base[row] = << >>
    BY <1>4, <1>7, <2>4
  <2>7. base[next] = << >> /\ \A row \in Rows : row > next => base[row] = << >>
    BY <1>4, <1>7, <2>4, <2>6
  <2>8. QED
    BY <1>1, <1>4, <1>6, <2>3, <2>4, <2>5, <2>7, IdleFields DEF BaseOK, Generating
<1>10. QED
  BY <1>8, <1>9

LEMMA BaseInvariant == Spec => []BaseOK
<1>1. Init => BaseOK
  <2>1. SUFFICES ASSUME Init, ~Fixed PROVE BaseOK
    BY DEF BaseOK
  <2>2. /\ proc = [Idle EXCEPT !.at = "generate", !.row = Min(Rows)]
        /\ base = [row \in Rows |-> << >>]
    BY <2>1 DEF Init
  <2>3. /\ proc.at = "generate" /\ proc.row = Min(Rows) /\ proc.snapshots = Idle.snapshots
    BY <2>2, IdleFields DEF ProcNames
  <2>4. Min(Rows) \in Rows /\ Rows \subseteq Nat /\ \A row \in Rows : Min(Rows) <= row
    BY ProbeAssumption, MinOfNat
  <2>5. \A row \in Rows : ~(row < Min(Rows))
    <3> DEFINE m == Min(Rows)
    <3>1. m \in Nat /\ \A row \in Rows : row \in Nat /\ m <= row
      BY <2>4
    <3> HIDE DEF m
    <3>2. \A row \in Rows : ~(row < m)
      BY <3>1
    <3>3. QED
      BY <3>2 DEF m
  <2>6. \A t, r : BaseRun(<< >>, t, r)
    <3>1. << >> \in Seq({}) /\ Len(<< >>) = 0
      OBVIOUS
    <3>2. QED
      BY <3>1 DEF BaseRun
  <2>7. QED
    BY <2>2, <2>3, <2>4, <2>5, <2>6, IdleFields DEF BaseOK, Generating
<1>2. SetupOK /\ ProcOK(proc, Now, setup) /\ BaseOK /\ [Next]_vars => BaseOK'
  <2>1. SUFFICES ASSUME SetupOK, ProcOK(proc, Now, setup), BaseOK, [Next]_vars PROVE BaseOK'
    OBVIOUS
  <2>2. setup' = setup
    BY <2>1, NextProcOK
  <2>3. (~Fixed' <=> ~Fixed) /\ \A row : TraceIn(row)' = TraceIn(row)
    BY <2>2 DEF Fixed, TraceIn
  <2>4. CASE UNCHANGED vars
    <3>1. proc' = proc /\ base' = base /\ Now' = Now /\ Fresh' = Fresh
      BY <2>4 DEF vars, Now, Fresh
    <3>2. \A row : Complete(row)' <=> Complete(row)
      BY <2>3, <3>1 DEF Complete
    <3>3. QED
      BY <2>1, <2>2, <2>3, <3>1, <3>2 DEF BaseOK
  <2>5. CASE BaseReset \/ BasePrefill \/ BaseDecode \/ BaseFinish
    BY <2>1, <2>5, BaseResetOK, BasePrefillOK, BaseDecodeOK, BaseFinishOK
  <2>6. CASE Next /\ ~(BaseReset \/ BasePrefill \/ BaseDecode \/ BaseFinish)
    <3>1. proc.at \notin Generating /\ proc'.at \notin Generating /\ base' = base
      BY <2>1, <2>6, GeneratingEnds
    <3>2. \A row : Complete(row)' <=> Complete(row)
      BY <2>3, <3>1 DEF Complete
    <3>3. QED
      BY <2>1, <2>2, <2>3, <3>1, <3>2 DEF BaseOK, Generating
  <2>7. QED
    BY <2>1, <2>4, <2>5, <2>6
<1>3. QED
  BY <1>1, <1>2, ProcInvariant, PTL DEF Spec

(* A snapshot is the state the recorded generation was in at that token; the *)
(* first and the last cut lie at the markers of the span (replay_and_snapshot*)
(* against generate_base, and absolute_cut_position against find_think_span).*)
THEOREM SnapshotsFollow == Spec => []SnapshotsFollowTheBaseRun
<1>1. SetupOK /\ ProcOK(proc, Now, setup) /\ BaseOK => SnapshotsFollowTheBaseRun
  <2>1. SUFFICES ASSUME SetupOK, ProcOK(proc, Now, setup), BaseOK,
                        NEW f \in DOMAIN proc.snapshots
                 PROVE LET position == proc.snapshots[f].live.pos
                           fed == position - Len(Trace.prompt)
                       IN /\ ~Fixed => proc.snapshots[f] = base[proc.row][fed + 1]
                          /\ f = 0 => IF fed = 0 THEN EndsInsideOpenBlock(Trace.prompt)
                                      ELSE Trace.generated[fed] = "open"
                          /\ f = Denominator => Trace.generated[fed + 1] = "close"
    BY DEF SnapshotsFollowTheBaseRun
  <2> DEFINE position == proc.snapshots[f].live.pos
             fed == position - Len(Trace.prompt)
  <2>2. /\ proc.row \in Rows /\ Parsed(TraceOf(proc, setup))
        /\ IsCut(TraceOf(proc, setup), f, setup.ranking, proc.snapshots[f])
    BY <2>1 DEF ProcOK, Located, Cuts
  <2>3. Trace \in Traces /\ Trace = TraceOf(proc, setup) /\ Len(Trace.prompt) \in Nat
    BY <2>1, <2>2, TraceFacts
  <2>4. /\ f \in Fractions /\ position = CutPosition(Trace, f)
        /\ Reached(Trace, setup.ranking, fed, proc.snapshots[f])
    BY <2>2, <2>3 DEF IsCut
  <2>5. /\ fed \in Nat /\ fed <= ThinkEnd(Trace)
        /\ f = 0 => fed = ThinkStart(Trace)
        /\ f = Denominator => fed = ThinkEnd(Trace)
    <3>1. /\ ThinkStart(Trace) \in Nat /\ ThinkEnd(Trace) \in Nat
      BY <2>2, <2>3, SpanFacts
    <3>2. /\ position - Len(Trace.prompt) \in Nat /\ position \in Nat
          /\ position <= Len(Trace.prompt) + ThinkEnd(Trace)
          /\ f = 0 => position = Len(Trace.prompt) + ThinkStart(Trace)
          /\ f = Denominator => position = Len(Trace.prompt) + ThinkEnd(Trace)
      BY <2>2, <2>3, <2>4, CutFacts
    <3> HIDE DEF position
    <3>3. QED
      BY <2>3, <3>1, <3>2
  <2> HIDE DEF position, fed
  <2>6. ~Fixed => proc.snapshots[f] = base[proc.row][fed + 1]
    <3>1. SUFFICES ASSUME ~Fixed PROVE proc.snapshots[f] = base[proc.row][fed + 1]
      OBVIOUS
    <3> DEFINE b == base[proc.row]
    <3>2. BaseRun(b, Trace, setup.ranking) /\ Len(b) = Ended(Trace) + 1
      <4>1. proc.at \notin Generating
        BY <2>1, <3>1 DEF BaseOK
      <4>2. Complete(proc.row) /\ BaseRun(b, TraceIn(proc.row), setup.ranking)
        BY <2>1, <2>2, <3>1, <4>1 DEF BaseOK
      <4>3. TraceIn(proc.row) = Trace
        BY DEF TraceIn, Trace
      <4>4. QED
        BY <4>2, <4>3 DEF Complete
    <3>3. ThinkEnd(Trace) \in Nat /\ ThinkEnd(Trace) + 1 <= Len(Trace.generated)
      BY <2>2, <2>3, SpanFacts
    <3>4. Ended(Trace) \in Nat /\ Len(Trace.generated) - 1 <= Ended(Trace)
          /\ Len(Trace.generated) \in Nat
      BY <2>1, <2>2, <2>3, EndedFacts, TraceFacts
    <3>5. fed + 1 \in 1..Len(b) /\ (fed + 1) - 1 = fed
      BY <2>5, <3>2, <3>3, <3>4
    <3>6. Reached(Trace, setup.ranking, fed, b[fed + 1])
      BY <3>2, <3>5 DEF BaseRun
    <3>7. QED
      BY <2>4, <2>5, <3>6, ReachedIsUnique
  <2>7. f = 0 => IF fed = 0 THEN EndsInsideOpenBlock(Trace.prompt)
                 ELSE Trace.generated[fed] = "open"
    BY <2>2, <2>3, <2>5, SpanFacts
  <2>8. f = Denominator => Trace.generated[fed + 1] = "close"
    BY <2>2, <2>3, <2>5, SpanFacts
  <2>9. QED
    BY <2>6, <2>7, <2>8 DEF fed, position
<1>2. QED
  BY <1>1, ProcInvariant, BaseInvariant, PTL

-----------------------------------------------------------------------------
(* Maps of different positions.                                              *)
LEMMA FunctionIsSeq ==
  ASSUME NEW n \in Nat, NEW f \in [1..n -> Nat]
  PROVE f \in Seq(Nat) /\ Len(f) = n
OBVIOUS

LEMMA ConcatFacts ==
  ASSUME NEW s \in Seq(Nat), NEW t \in Seq(Nat)
  PROVE /\ s \o t \in Seq(Nat)
        /\ Len(s \o t) = Len(s) + Len(t)
        /\ \A j \in 1..Len(s) : (s \o t)[j] = s[j]
        /\ \A j \in (Len(s) + 1)..(Len(s) + Len(t)) : (s \o t)[j] = t[j - Len(s)]
OBVIOUS

LEMMA SeqsEqual ==
  ASSUME NEW s \in Seq(Nat), NEW t \in Seq(Nat), Len(s) = Len(t),
         \A j \in 1..Len(s) : s[j] = t[j]
  PROVE s = t
OBVIOUS

(* A cache holds different positions, none of them to come.                  *)
Placed(map, position) ==
  /\ map \in Seq(Nat)
  /\ \A i \in 1..Len(map) : map[i] < position
  /\ \A i, j \in 1..Len(map) : map[i] = map[j] => i = j

LongerMap(map, position, k) == map \o [j \in 1..k |-> position + j - 1]

LEMMA LongerSlots ==
  ASSUME NEW map \in Seq(Nat), NEW position \in Nat, NEW k \in Nat
  PROVE /\ LongerMap(map, position, k) \in Seq(Nat)
        /\ Len(LongerMap(map, position, k)) = Len(map) + k
        /\ \A j \in 1..Len(map) : LongerMap(map, position, k)[j] = map[j]
        /\ \A j \in (Len(map) + 1)..(Len(map) + k) :
              LongerMap(map, position, k)[j] = position + j - Len(map) - 1
<1> DEFINE new == [j \in 1..k |-> position + j - 1]
<1>1. new \in [1..k -> Nat] /\ \A j \in 1..k : new[j] = position + j - 1
  OBVIOUS
<1>2. new \in Seq(Nat) /\ Len(new) = k
  BY <1>1, FunctionIsSeq
<1> HIDE DEF new
<1>3. /\ map \o new \in Seq(Nat)
      /\ Len(map \o new) = Len(map) + Len(new)
      /\ \A j \in 1..Len(map) : (map \o new)[j] = map[j]
      /\ \A j \in (Len(map) + 1)..(Len(map) + Len(new)) : (map \o new)[j] = new[j - Len(map)]
  BY <1>2, ConcatFacts
<1>4. ASSUME NEW j \in (Len(map) + 1)..(Len(map) + k)
      PROVE (map \o new)[j] = position + j - Len(map) - 1
  <2>1. j - Len(map) \in 1..k /\ Len(map) \in Nat /\ j \in Nat
    OBVIOUS
  <2>2. (map \o new)[j] = new[j - Len(map)]
    BY <1>2, <1>3
  <2>3. new[j - Len(map)] = position + (j - Len(map)) - 1
    BY <1>1, <2>1
  <2>4. QED
    BY <2>1, <2>2, <2>3
<1>5. LongerMap(map, position, k) = map \o new
  BY DEF LongerMap, new
<1>6. QED
  BY <1>2, <1>3, <1>4, <1>5

LEMMA LongerFacts ==
  ASSUME NEW position \in Nat, NEW map, Placed(map, position), NEW k \in Nat
  PROVE /\ Placed(LongerMap(map, position, k), position + k)
        /\ Len(LongerMap(map, position, k)) = Len(map) + k
        /\ Entries(LongerMap(map, position, k)) =
             Entries(map) \cup (position..(position + k - 1))
<1> DEFINE long == LongerMap(map, position, k)
           n == Len(map)
<1>1. map \in Seq(Nat) /\ n \in Nat /\ \A i \in 1..n : map[i] \in Nat /\ map[i] < position
  BY DEF Placed
<1>2. /\ long \in Seq(Nat) /\ Len(long) = n + k
      /\ \A j \in 1..n : long[j] = map[j]
      /\ \A j \in (n + 1)..(n + k) : long[j] = position + j - n - 1
  BY <1>1, LongerSlots
<1> HIDE DEF long, n
<1>3. ASSUME NEW i \in 1..(n + k)
      PROVE long[i] < position + k /\ (i <= n <=> long[i] < position)
  <2>1. CASE i <= n
    <3>1. i \in 1..n
      BY <1>1, <2>1
    <3>2. long[i] = map[i] /\ map[i] < position /\ map[i] \in Nat
      BY <1>1, <1>2, <3>1
    <3>3. QED
      BY <2>1, <3>2
  <2>2. CASE ~(i <= n)
    <3>1. i \in (n + 1)..(n + k)
      BY <1>1, <2>2
    <3>2. long[i] = position + i - n - 1
      BY <1>2, <3>1
    <3>3. QED
      BY <1>1, <2>2, <3>1, <3>2
  <2>3. QED
    BY <2>1, <2>2
<1>4. ASSUME NEW i \in 1..(n + k), NEW j \in 1..(n + k), long[i] = long[j]
      PROVE i = j
  <2>1. i <= n <=> j <= n
    BY <1>3, <1>4
  <2>2. CASE i <= n
    <3>1. i \in 1..n /\ j \in 1..n
      BY <1>1, <2>1, <2>2
    <3>2. map[i] = map[j]
      BY <1>2, <1>4, <3>1
    <3>3. QED
      BY <3>1, <3>2 DEF Placed, n
  <2>3. CASE ~(i <= n)
    <3>1. i \in (n + 1)..(n + k) /\ j \in (n + 1)..(n + k)
      BY <1>1, <2>1, <2>3
    <3>2. position + i - n - 1 = position + j - n - 1
      BY <1>2, <1>4, <3>1
    <3>3. QED
      BY <1>1, <3>1, <3>2
  <2>4. QED
    BY <2>2, <2>3
<1>5. Placed(long, position + k)
  BY <1>2, <1>3, <1>4 DEF Placed
<1>6. ASSUME NEW x PROVE x \in Entries(long) <=> x \in Entries(map) \/ x \in position..(position + k - 1)
  <2>1. ASSUME x \in Entries(long)
        PROVE x \in Entries(map) \/ x \in position..(position + k - 1)
    <3>1. PICK i \in 1..(n + k) : x = long[i]
      BY <1>2, <2>1 DEF Entries
    <3>2. CASE i <= n
      <4>1. i \in 1..n
        BY <1>1, <3>2
      <4>2. QED
        BY <1>2, <3>1, <4>1 DEF Entries, n
    <3>3. CASE ~(i <= n)
      <4>1. i \in (n + 1)..(n + k)
        BY <1>1, <3>3
      <4>2. x = position + i - n - 1
        BY <1>2, <3>1, <4>1
      <4>3. QED
        BY <1>1, <4>1, <4>2
    <3>4. QED
      BY <3>2, <3>3
  <2>2. ASSUME x \in Entries(map) PROVE x \in Entries(long)
    <3>1. PICK i \in 1..n : x = map[i]
      BY <2>2 DEF Entries, n
    <3>2. i \in 1..Len(long) /\ x = long[i]
      BY <1>1, <1>2, <3>1
    <3>3. QED
      BY <3>2 DEF Entries
  <2>3. ASSUME x \in position..(position + k - 1) PROVE x \in Entries(long)
    <3> DEFINE i == x - position + n + 1
    <3>1. i \in (n + 1)..(n + k) /\ x = position + i - n - 1
      BY <1>1, <2>3
    <3> HIDE DEF i
    <3>2. long[i] = x /\ i \in 1..Len(long)
      BY <1>1, <1>2, <3>1
    <3>3. QED
      BY <3>2 DEF Entries
  <2>4. QED
    BY <2>1, <2>2, <2>3
<1>7. Entries(long) = Entries(map) \cup (position..(position + k - 1))
  BY <1>6
<1>8. QED
  BY <1>2, <1>5, <1>7 DEF long, n

(* As many entries as slots.                                                 *)
LEMMA EntriesSize ==
  ASSUME NEW position, NEW map, Placed(map, position)
  PROVE IsFiniteSet(Entries(map)) /\ Cardinality(Entries(map)) = Len(map)
<1> DEFINE n == Len(map)
           m == [i \in 1..n |-> map[i]]
<1>1. n \in Nat /\ \A i, j \in 1..n : map[i] = map[j] => i = j
  BY DEF Placed
<1>2. IsFiniteSet(1..n) /\ Cardinality(1..n) = n
  <2> HIDE DEF n
  <2>1. n \in Int /\ 1 \in Int /\ (n < 1 => n = 0)
    BY <1>1
  <2>2. QED
    BY <1>1, <2>1, FS_Interval
<1>3. m \in Bijection(1..n, Entries(map))
  BY <1>1 DEF Bijection, Injection, Surjection, IsInjective, Entries
<1>4. ExistsBijection(1..n, Entries(map))
  BY <1>3 DEF ExistsBijection
<1>5. QED
  BY <1>2, <1>4, FS_Bijection

-----------------------------------------------------------------------------
(* A compaction always has slots ranked highest to keep: of slots with       *)
(* different scores, any number can be taken from the highest down.          *)
LEMMA BestLeft ==
  ASSUME NEW m \in Nat, NEW g \in [1..m -> Int], \A i, j \in 1..m : g[i] = g[j] => i = j,
         NEW R \in SUBSET (1..m), R # {}
  PROVE \E best \in R : \A j \in R : j = best \/ g[best] > g[j]
<1> DEFINE Above(j) == {i \in 1..m : g[i] > g[j]}
           S == {Cardinality(Above(j)) : j \in R}
<1>1. IsFiniteSet(1..m)
  BY FS_Interval
<1>2. \A j \in R : IsFiniteSet(Above(j)) /\ Cardinality(Above(j)) \in Nat
  BY <1>1, FS_Subset, FS_CardinalityType
<1>3. S \in SUBSET Nat /\ S # {}
  <2> HIDE DEF Above
  <2>1. \A c \in S : c \in Nat
    BY <1>2
  <2>2. PICK j : j \in R
    OBVIOUS
  <2>3. Cardinality(Above(j)) \in S
    BY <2>2
  <2> HIDE DEF S
  <2>4. QED
    BY <2>1, <2>3
<1>4. PICK least \in S : \A c \in S : least <= c
  <2> HIDE DEF S
  <2>1. QED
    BY <1>3, LeastOne
<1>5. PICK best \in R : least = Cardinality(Above(best))
  BY <1>4
<1> HIDE DEF Above
<1>6. ASSUME NEW j \in R, j # best PROVE g[best] > g[j]
  <2>1. g[j] \in Int /\ g[best] \in Int /\ g[j] # g[best]
    BY <1>6
  <2>2. SUFFICES ASSUME g[j] > g[best] PROVE FALSE
    BY <2>1
  <2>3. Above(j) \subseteq Above(best) /\ j \in Above(best) /\ j \notin Above(j)
    BY <2>1, <2>2 DEF Above
  <2>4. Cardinality(Above(best)) <= Cardinality(Above(j))
    <3>1. Cardinality(Above(j)) \in S
      OBVIOUS
    <3>2. QED
      BY <1>4, <1>5, <3>1
  <2>5. /\ IsFiniteSet(Above(best))
        /\ Cardinality(Above(best)) \in Nat /\ Cardinality(Above(j)) \in Nat
    BY <1>2
  <2>6. Cardinality(Above(j)) <= Cardinality(Above(best))
    BY <2>3, <2>5, FS_Subset
  <2>7. Cardinality(Above(j)) = Cardinality(Above(best))
    BY <2>4, <2>5, <2>6
  <2>8. QED
    BY <2>3, <2>5, <2>7, FS_Subset
<1>7. QED
  BY <1>6

TakesBest(top, g, k, m) ==
  /\ top \in [1..k -> 1..m]
  /\ \A a, b \in 1..k : top[a] = top[b] => a = b
  /\ \A a \in 1..k, j \in 1..m : (\E e \in 1..a : top[e] = j) \/ g[top[a]] > g[j]

LEMMA OneMore ==
  ASSUME NEW m \in Nat, NEW g \in [1..m -> Int], \A i, j \in 1..m : g[i] = g[j] => i = j,
         NEW k \in Nat, k < m, NEW top, TakesBest(top, g, k, m)
  PROVE \E longer : TakesBest(longer, g, k + 1, m)
<1> DEFINE R == {j \in 1..m : \A e \in 1..k : top[e] # j}
<1>1. top \in [1..k -> 1..m]
  BY DEF TakesBest
<1>2. R # {}
  <2>1. SUFFICES ASSUME R = {} PROVE FALSE
    OBVIOUS
  <2>2. top \in Surjection(1..k, 1..m)
    BY <1>1, <2>1 DEF Surjection
  <2>3. IsFiniteSet(1..k) /\ Cardinality(1..k) = k /\ Cardinality(1..m) = m
    <3>1. /\ k \in Int /\ m \in Int /\ 1 \in Int /\ (k < 1 => k = 0) /\ (m < 1 => m = 0)
      OBVIOUS
    <3>2. QED
      BY <3>1, FS_Interval
  <2>4. m <= k
    BY <2>2, <2>3, FS_Surjection
  <2>5. QED
    BY <2>4
<1>3. R \in SUBSET (1..m)
  OBVIOUS
<1>4. PICK best \in R : \A j \in R : j = best \/ g[best] > g[j]
  <2> HIDE DEF R
  <2>1. QED
    BY <1>2, <1>3, BestLeft
<1> DEFINE longer == [e \in 1..(k + 1) |-> IF e = k + 1 THEN best ELSE top[e]]
<1>5. longer \in [1..(k + 1) -> 1..m]
  BY <1>1
<1>6. longer[k + 1] = best /\ \A e \in 1..k : longer[e] = top[e]
  OBVIOUS
<1>7. best \in 1..m /\ \A e \in 1..k : top[e] # best
  OBVIOUS
<1> HIDE DEF longer
<1>8. ASSUME NEW a \in 1..(k + 1), NEW b \in 1..(k + 1), longer[a] = longer[b]
      PROVE a = b
  <2>1. (a \in 1..k \/ a = k + 1) /\ (b \in 1..k \/ b = k + 1)
    OBVIOUS
  <2>2. QED
    BY <1>6, <1>7, <1>8, <2>1 DEF TakesBest
<1>9. ASSUME NEW a \in 1..(k + 1), NEW j \in 1..m
      PROVE (\E e \in 1..a : longer[e] = j) \/ g[longer[a]] > g[j]
  <2>1. CASE a \in 1..k
    <3>1. (\E e \in 1..a : top[e] = j) \/ g[top[a]] > g[j]
      BY <2>1 DEF TakesBest
    <3>2. CASE \E e \in 1..a : top[e] = j
      <4>1. PICK e \in 1..a : top[e] = j
        BY <3>2
      <4>2. e \in 1..k
        BY <2>1
      <4>3. QED
        BY <1>6, <4>1, <4>2
    <3>3. CASE g[top[a]] > g[j]
      BY <1>6, <2>1, <3>3
    <3>4. QED
      BY <3>1, <3>2, <3>3
  <2>2. CASE a = k + 1
    <3>1. CASE j \in R
      <4>1. j = best \/ g[best] > g[j]
        BY <1>4, <3>1
      <4>2. a \in 1..a
        BY <2>2
      <4>3. QED
        BY <1>6, <2>2, <4>1, <4>2
    <3>2. CASE j \notin R
      <4>1. PICK e \in 1..k : top[e] = j
        BY <3>2
      <4>2. e \in 1..a
        BY <2>2
      <4>3. QED
        BY <1>6, <4>1, <4>2
    <3>3. QED
      BY <3>1, <3>2
  <2>3. QED
    BY <2>1, <2>2
<1>10. TakesBest(longer, g, k + 1, m)
  BY <1>5, <1>8, <1>9 DEF TakesBest
<1>11. QED
  BY <1>10

LEMMA BestExist ==
  ASSUME NEW m \in Nat, NEW g \in [1..m -> Int], \A i, j \in 1..m : g[i] = g[j] => i = j,
         NEW k \in 0..m
  PROVE \E top : TakesBest(top, g, k, m)
<1> DEFINE S == {i \in 0..m : ~(\E top : TakesBest(top, g, i, m))}
<1>1. SUFFICES ASSUME S # {} PROVE FALSE
  OBVIOUS
<1>2. PICK i \in S : \A j \in S : i <= j
  <2>1. S \in SUBSET Nat
    OBVIOUS
  <2> HIDE DEF S
  <2>2. QED
    BY <1>1, <2>1, LeastOne
<1>3. i # 0
  <2> DEFINE none == [e \in 1..0 |-> e]
  <2>1. TakesBest(none, g, 0, m)
    BY DEF TakesBest
  <2>2. QED
    BY <2>1
<1>4. (i - 1) \in Nat /\ (i - 1) \in 0..m /\ i - 1 < m /\ (i - 1) \notin S
  BY <1>2, <1>3
<1>5. PICK top : TakesBest(top, g, i - 1, m)
  BY <1>4
<1>6. \E longer : TakesBest(longer, g, i - 1 + 1, m)
  BY <1>4, <1>5, OneMore
<1>7. i - 1 + 1 = i
  BY <1>4
<1>8. QED
  BY <1>6, <1>7

(* A ranking of different numbers for the positions a map can hold.          *)
Ranks(r, position) ==
  /\ 0..(position - 1) \subseteq DOMAIN r
  /\ \A p, q \in DOMAIN r : r[p] \in Int /\ (r[p] = r[q] => p = q)

LEMMA HighestExists ==
  ASSUME NEW position \in Nat, NEW map, Placed(map, position), NEW r, Ranks(r, position),
         Len(map) >= Budget
  PROVE Highest(map, r) \in Survivors(Len(map))
<1> DEFINE n == Len(map)
           m == n - Window
           k == Budget - Window
           g == [j \in 1..m |-> r[map[j]]]
<1> USE RkvAssumption
<1>1. /\ map \in Seq(Nat) /\ n \in Nat
      /\ \A i \in 1..n : map[i] \in Nat /\ map[i] < position
      /\ \A i, j \in 1..n : map[i] = map[j] => i = j
  BY DEF Placed
<1>2. m \in Nat /\ k \in 0..m /\ m <= n /\ k \in Nat /\ n >= Budget
  BY <1>1
<1> HIDE DEF n, m, k
<1>3. \A j \in 1..m : map[j] \in DOMAIN r
  <2>1. ASSUME NEW j \in 1..m PROVE map[j] \in 0..(position - 1)
    <3>1. j \in 1..n
      BY <1>1, <1>2
    <3>2. QED
      BY <1>1, <3>1
  <2>2. QED
    BY <2>1 DEF Ranks
<1>4. g \in [1..m -> Int] /\ \A i, j \in 1..m : g[i] = g[j] => i = j
  <2>1. \A j \in 1..m : g[j] = r[map[j]] /\ j \in 1..n
    BY <1>1, <1>2
  <2>2. \A j \in 1..m : r[map[j]] \in Int
    BY <1>3 DEF Ranks
  <2>3. ASSUME NEW i \in 1..m, NEW j \in 1..m, g[i] = g[j] PROVE i = j
    <3>1. map[i] = map[j]
      BY <1>3, <2>1, <2>3 DEF Ranks
    <3>2. QED
      BY <1>1, <2>1, <3>1
  <2>4. QED
    BY <2>2, <2>3
<1>5. \A j \in 1..m : g[j] = r[map[j]]
  OBVIOUS
<1> HIDE DEF g
<1>6. PICK top : TakesBest(top, g, k, m)
  BY <1>2, <1>4, BestExist
<1> DEFINE slots == [j \in 1..Budget |-> IF j <= k THEN top[j] ELSE n - Budget + j]
<1>7. slots \in Survivors(n)
  BY <1>6 DEF Survivors, TakesBest, k, m
<1>8. \A i \in 1..k : slots[i] = top[i] /\ top[i] \in 1..m
  BY <1>2, <1>6 DEF TakesBest, k
<1> HIDE DEF slots
<1>9. ASSUME NEW i \in 1..k, NEW j \in 1..m
      PROVE \/ \E earlier \in 1..i : slots[earlier] = j
            \/ r[map[slots[i]]] > r[map[j]]
  <2>1. (\E e \in 1..i : top[e] = j) \/ g[top[i]] > g[j]
    BY <1>6 DEF TakesBest
  <2>2. \A e \in 1..i : slots[e] = top[e]
    BY <1>2, <1>8
  <2>3. g[top[i]] = r[map[slots[i]]] /\ g[j] = r[map[j]]
    BY <1>5, <1>8
  <2>4. QED
    BY <2>1, <2>2, <2>3
<1>10. \E s \in Survivors(Len(map)) :
         \A i \in 1..(Budget - Window) : \A j \in 1..(Len(map) - Window) :
            \/ \E earlier \in 1..i : s[earlier] = j
            \/ r[map[s[i]]] > r[map[j]]
  BY <1>7, <1>9 DEF n, m, k
<1>11. QED
  BY <1>10 DEF Highest

-----------------------------------------------------------------------------
(* What a call leaves in the cache.                                          *)
Sound(s) == Shape(s) /\ Placed(s.live.cache, s.live.pos)

LEMMA SlotFacts ==
  ASSUME NEW n \in Nat, n >= Budget, NEW slots \in Survivors(n)
  PROVE /\ slots \in [1..Budget -> 1..n]
        /\ \A i, j \in 1..Budget : slots[i] = slots[j] => i = j
<1> USE RkvAssumption
<1>1. PICK top \in [1..(Budget - Window) -> 1..(n - Window)] :
        /\ \A i, j \in 1..(Budget - Window) : top[i] = top[j] => i = j
        /\ slots = [j \in 1..Budget |-> IF j <= Budget - Window THEN top[j] ELSE n - Budget + j]
  BY DEF Survivors
<1>2. ASSUME NEW j \in 1..Budget
      PROVE /\ slots[j] \in 1..n
            /\ slots[j] = IF j <= Budget - Window THEN top[j] ELSE n - Budget + j
            /\ slots[j] <= n - Window <=> j <= Budget - Window
  <2>1. slots[j] = IF j <= Budget - Window THEN top[j] ELSE n - Budget + j
    BY <1>1
  <2>2. CASE j <= Budget - Window
    <3>1. top[j] \in 1..(n - Window)
      BY <1>1, <2>2
    <3>2. QED
      BY <2>1, <2>2, <3>1
  <2>3. CASE ~(j <= Budget - Window)
    BY <2>1, <2>3
  <2>4. QED
    BY <2>2, <2>3
<1>3. ASSUME NEW i \in 1..Budget, NEW j \in 1..Budget, slots[i] = slots[j]
      PROVE i = j
  <2>1. i <= Budget - Window <=> j <= Budget - Window
    BY <1>2, <1>3
  <2>2. CASE j <= Budget - Window
    BY <1>1, <1>2, <1>3, <2>1, <2>2
  <2>3. CASE ~(j <= Budget - Window)
    <3>1. n - Budget + i = n - Budget + j
      BY <1>2, <1>3, <2>1, <2>3
    <3>2. QED
      BY <3>1
  <2>4. QED
    BY <2>2, <2>3
<1>4. QED
  BY <1>1, <1>2, <1>3

LEMMA GatheredFacts ==
  ASSUME NEW position \in Nat, NEW map, Placed(map, position), Len(map) >= Budget,
         NEW slots \in Survivors(Len(map))
  PROVE /\ Placed(Gathered(map, slots), position)
        /\ Entries(Gathered(map, slots)) \subseteq Entries(map)
<1> DEFINE n == Len(map)
           short == Gathered(map, slots)
<1>1. /\ map \in Seq(Nat) /\ n \in Nat
      /\ \A i \in 1..n : map[i] \in Nat /\ map[i] < position
      /\ \A i, j \in 1..n : map[i] = map[j] => i = j
  BY DEF Placed
<1>2. /\ slots \in [1..Budget -> 1..n]
      /\ \A i, j \in 1..Budget : slots[i] = slots[j] => i = j
  BY <1>1, SlotFacts
<1>3. short = [j \in 1..Budget |-> map[slots[j]]]
  BY DEF Gathered
<1> HIDE DEF n, short
<1>4. \A j \in 1..Budget : slots[j] \in 1..n /\ short[j] = map[slots[j]]
  BY <1>2, <1>3
<1>5. short \in [1..Budget -> Nat]
  BY <1>1, <1>3, <1>4
<1>6. short \in Seq(Nat) /\ Len(short) = Budget
  BY <1>5, RkvAssumption, FunctionIsSeq
<1>7. Placed(short, position)
  <2>1. \A j \in 1..Budget : short[j] < position
    BY <1>1, <1>4
  <2>2. ASSUME NEW i \in 1..Budget, NEW j \in 1..Budget, short[i] = short[j] PROVE i = j
    <3>1. slots[i] = slots[j]
      BY <1>1, <1>4, <2>2, SMTT(30)
    <3>2. QED
      BY <1>2, <3>1
  <2>3. QED
    BY <1>6, <2>1, <2>2 DEF Placed
<1>8. Entries(short) \subseteq Entries(map)
  BY <1>4, <1>6 DEF Entries, n
<1>9. QED
  BY <1>7, <1>8 DEF short

LEMMA AfterIsSound ==
  ASSUME NEW s, Sound(s), NEW k \in Nat, NEW r, Ranks(r, s.live.pos + k)
  PROVE LET t == After(s, k, r)
        IN /\ Sound(t)
           /\ t.live.pos = s.live.pos + k
           /\ Entries(t.live.cache)
                \subseteq Entries(s.live.cache) \cup (s.live.pos..(s.live.pos + k - 1))
           /\ s.model.compression = "false" =>
                /\ t.live.cache = LongerMap(s.live.cache, s.live.pos, k)
                /\ t.model.evicted = s.model.evicted
<1> DEFINE t == After(s, k, r)
           map == s.live.cache
           pos == s.live.pos
           long == LongerMap(map, pos, k)
<1>1. Shape(s) /\ pos \in Nat /\ Placed(map, pos)
  BY DEF Sound, Shape
<1>2. /\ Placed(long, pos + k) /\ Len(long) = Len(map) + k
      /\ Entries(long) = Entries(map) \cup (pos..(pos + k - 1))
  <2>1. pos \in Nat /\ Placed(map, pos) /\ k \in Nat
    BY <1>1
  <2> HIDE DEF pos, map, t
  <2>2. Placed(long, pos + k)
    BY <2>1, LongerFacts
  <2>3. Len(long) = Len(map) + k
    BY <2>1, LongerFacts
  <2>4. Entries(long) = Entries(map) \cup (pos..(pos + k - 1))
    BY <2>1, LongerFacts
  <2>5. QED
    BY <2>2, <2>3, <2>4
<1>3. long = Longer(s, map, k)
  BY DEF LongerMap, Longer
<1> HIDE DEF long
<1>4. CASE ~Compaction(s, k)
  <2>1. t = Grew(s, k)
    BY <1>4 DEF After
  <2>2. /\ Shape(t) /\ t.model.evicted = s.model.evicted /\ t.live.cache = long
        /\ t.live.pos = pos + k
    BY <1>1, <1>3, <2>1, GrewHasShape
  <2> HIDE DEF t, map, pos
  <2>3. Sound(t)
    BY <1>2, <2>2 DEF Sound
  <2>4. QED
    BY <1>2, <2>2, <2>3 DEF t, map, pos, long
<1>5. CASE Compaction(s, k)
  <2> DEFINE slots == Highest(long, r)
  <2>1. t = Compacted(s, k, slots) /\ Len(map) + k >= Budget /\ s.model.compression # "false"
    BY <1>3, <1>5 DEF After, Compaction
  <2>2. pos + k \in Nat
    BY <1>1
  <2>3. slots \in Survivors(Len(long))
    BY <1>2, <2>1, <2>2, HighestExists
  <2> HIDE DEF slots
  <2>4. Placed(Gathered(long, slots), pos + k) /\ Entries(Gathered(long, slots)) \subseteq Entries(long)
    BY <1>2, <2>1, <2>2, <2>3, GatheredFacts
  <2>5. Shape(t) /\ t.live.cache = Gathered(long, slots) /\ t.live.pos = pos + k
    BY <1>1, <1>3, <2>1, CompactedHasShape
  <2> HIDE DEF t, map, pos
  <2>6. Sound(t)
    BY <2>4, <2>5 DEF Sound
  <2>7. QED
    BY <1>2, <2>1, <2>4, <2>5, <2>6 DEF t, map, pos
<1>6. QED
  BY <1>4, <1>5

-----------------------------------------------------------------------------
(* Along a replay, and along a probe.                                        *)
LEMMA RankedUpTo ==
  ASSUME NEW t \in Traces, NEW r \in Rankings, NEW n \in Nat, n <= Horizon(t)
  PROVE Ranks(r, n)
<1>1. /\ 0..(Horizon(t) - 1) \subseteq DOMAIN r
      /\ \A p, q \in DOMAIN r : r[p] \in Int /\ (r[p] = r[q] => p = q)
  BY RankingAssumption
<1>2. Horizon(t) \in Int
  <2>1. t.prompt \in Seq(Tokens) /\ t.generated \in Seq(Tokens)
    BY TraceAssumption
  <2>2. QED
    BY <2>1, ProbeAssumption DEF Horizon
<1>3. 0..(n - 1) \subseteq 0..(Horizon(t) - 1)
  BY <1>2
<1>4. QED
  BY <1>1, <1>3 DEF Ranks

LEMMA FewerRanks ==
  ASSUME NEW r, NEW n \in Nat, NEW m \in Nat, m <= n, Ranks(r, n)
  PROVE Ranks(r, m)
BY DEF Ranks

LEMMA FreshIsSound == Sound(Fresh)
<1>1. << >> \in Seq(Nat) /\ Len(<< >>) = 0
  OBVIOUS
<1>2. Fresh.live.cache = << >>
  BY DEF Fresh, EmptyState
<1>3. QED
  BY <1>1, <1>2, FreshHasShape DEF Sound, Placed

LEMMA ReachedIsSound ==
  ASSUME NEW t \in Traces, NEW r \in Rankings, NEW n \in Nat, n <= Len(t.generated),
         NEW s, Reached(t, r, n, s)
  PROVE Sound(s) /\ s.live.pos = Len(t.prompt) + n
<1>1. PICK c : IsReplay(c, t, r, n) /\ c[n] = s
  BY DEF Reached
<1>2. Len(t.prompt) \in Nat /\ Len(t.generated) \in Nat
  <2>1. t.prompt \in Seq(Tokens) /\ t.generated \in Seq(Tokens)
    BY TraceAssumption
  <2>2. QED
    BY <2>1
<1> DEFINE a == Len(t.prompt)
           Holds(i) == Sound(c[i]) /\ c[i].live.pos = a + i
           S == {i \in 0..n : ~Holds(i)}
<1>3. ASSUME NEW m \in Nat, m <= a + n PROVE Ranks(r, m)
  <2>1. m <= Horizon(t)
    <3> DEFINE b == Len(t.generated)
    <3>1. Horizon(t) = a + b + ForcedTokens + MaxAnswer
      BY DEF Horizon
    <3>2. a \in Nat /\ b \in Nat /\ ForcedTokens \in Nat /\ MaxAnswer \in Nat /\ n <= b
      BY <1>2, ProbeAssumption
    <3> HIDE DEF a, b
    <3>3. QED
      BY <1>3, <3>1, <3>2
  <2>2. QED
    BY <2>1, RankedUpTo
<1>4. SUFFICES ASSUME S # {} PROVE FALSE
  BY <1>1
<1>5. PICK i \in S : \A j \in S : i <= j
  <2>1. S \in SUBSET Nat
    OBVIOUS
  <2> HIDE DEF S
  <2>2. QED
    BY <1>4, <2>1, LeastOne
<1>6. i \in 0..n /\ ~Holds(i)
  OBVIOUS
<1>7. CASE i = 0
  <2>1. c[0] = After(Fresh, a, r)
    BY <1>1 DEF IsReplay
  <2>2. Fresh.live.pos = 0 /\ Sound(Fresh)
    BY FreshHasShape, FreshIsSound
  <2>3. Ranks(r, Fresh.live.pos + a)
    BY <1>2, <1>3, <2>2
  <2>4. Sound(c[0]) /\ c[0].live.pos = Fresh.live.pos + a
    BY <1>2, <2>1, <2>2, <2>3, AfterIsSound
  <2>5. QED
    BY <1>2, <1>6, <1>7, <2>2, <2>4
<1>8. CASE i # 0
  <2>1. (i - 1) \in 0..(n - 1) /\ (i - 1) \in 0..n /\ i - 1 < i
    BY <1>6, <1>8
  <2>2. Holds(i - 1)
    BY <1>5, <2>1
  <2>3. c[i] = After(c[i - 1], 1, r)
    BY <1>1, <2>1 DEF IsReplay
  <2>4. c[i - 1].live.pos + 1 = a + i /\ a + i \in Nat /\ a + i <= a + n
    BY <1>2, <1>6, <2>1, <2>2
  <2>5. Ranks(r, c[i - 1].live.pos + 1)
    BY <1>3, <2>4
  <2>6. Sound(c[i]) /\ c[i].live.pos = c[i - 1].live.pos + 1
    BY <2>2, <2>3, <2>5, AfterIsSound
  <2>7. QED
    BY <1>6, <2>4, <2>6
<1>9. QED
  BY <1>7, <1>8

LEMMA UnflaggedFacts ==
  ASSUME NEW s, Sound(s), NEW frozen \in BOOLEAN
  PROVE /\ Sound(Unflagged(s, frozen))
        /\ Unflagged(s, frozen).live = s.live
        /\ Unflagged(s, frozen).model.evicted = s.model.evicted
        /\ frozen => Unflagged(s, frozen).model.compression = "false"
<1>1. CASE ~frozen
  BY <1>1 DEF Unflagged
<1>2. CASE frozen
  <2> DEFINE u == [s EXCEPT !.model.compression = "false"]
  <2>1. Unflagged(s, frozen) = u
    BY <1>2 DEF Unflagged
  <2>2. PICK a, b, d, e, g :
          s.model = [length |-> a, compression |-> b, evicted |-> d, kept |-> e, shuffled |-> g]
    BY DEF Sound, Shape
  <2>3. s = [model |-> s.model, live |-> s.live]
    BY DEF Sound, Shape
  <2>4. /\ u = [model |-> [s.model EXCEPT !.compression = "false"], live |-> s.live]
    BY <2>3
  <2> HIDE DEF u
  <2>5. u.model = [length |-> a, compression |-> "false", evicted |-> d, kept |-> e,
                   shuffled |-> g]
    BY <2>2, <2>4
  <2>6. u.live = s.live
    BY <2>4
  <2>7. Shape(u)
    BY <2>4, <2>5, <2>6 DEF Sound, Shape
  <2>8. Sound(u)
    BY <2>6, <2>7 DEF Sound
  <2>9. QED
    BY <2>1, <2>2, <2>5, <2>6, <2>8
<1>3. QED
  BY <1>1, <1>2

(* A state of a probe: nothing but what was in the cut and what was fed, and *)
(* all of it when compression was forced off.                                *)
FedState(s, cut, frozen, i) ==
  /\ Sound(s)
  /\ s.live.pos = cut.live.pos + i
  /\ Entries(s.live.cache)
       \subseteq Entries(cut.live.cache) \cup (cut.live.pos..(cut.live.pos + i - 1))
  /\ frozen => /\ s.live.cache = LongerMap(cut.live.cache, cut.live.pos, i)
               /\ s.model.evicted = cut.model.evicted

LEMMA OneLonger ==
  ASSUME NEW map \in Seq(Nat), NEW position \in Nat, NEW i \in Nat
  PROVE LongerMap(LongerMap(map, position, i), position + i, 1) = LongerMap(map, position, i + 1)
<1> DEFINE a == LongerMap(map, position, i)
           b == LongerMap(a, position + i, 1)
           d == LongerMap(map, position, i + 1)
           n == Len(map)
<1>1. n \in Nat
  OBVIOUS
<1>2. /\ a \in Seq(Nat) /\ Len(a) = n + i
      /\ \A j \in 1..n : a[j] = map[j]
      /\ \A j \in (n + 1)..(n + i) : a[j] = position + j - n - 1
  BY LongerSlots
<1>3. /\ d \in Seq(Nat) /\ Len(d) = n + (i + 1)
      /\ \A j \in 1..n : d[j] = map[j]
      /\ \A j \in (n + 1)..(n + (i + 1)) : d[j] = position + j - n - 1
  <2>1. i + 1 \in Nat
    OBVIOUS
  <2>2. QED
    BY <2>1, LongerSlots
<1> HIDE DEF a, d
<1>4. /\ b \in Seq(Nat) /\ Len(b) = Len(a) + 1
      /\ \A j \in 1..Len(a) : b[j] = a[j]
      /\ \A j \in (Len(a) + 1)..(Len(a) + 1) : b[j] = (position + i) + j - Len(a) - 1
  <2>1. position + i \in Nat /\ 1 \in Nat
    OBVIOUS
  <2>2. QED
    BY <1>2, <2>1, LongerSlots, ZenonT(40)
<1> HIDE DEF b, n
<1>5. ASSUME NEW j \in 1..(n + i + 1) PROVE b[j] = d[j]
  <2>1. CASE j \in 1..n
    <3>1. j \in 1..Len(a)
      BY <1>1, <1>2, <2>1
    <3>2. QED
      BY <1>2, <1>3, <1>4, <2>1, <3>1
  <2>2. CASE j \in (n + 1)..(n + i)
    <3>1. j \in 1..Len(a) /\ j \in (n + 1)..(n + (i + 1))
      BY <1>1, <1>2, <2>2
    <3>2. QED
      BY <1>2, <1>3, <1>4, <2>2, <3>1
  <2>3. CASE j = n + i + 1
    <3>1. j \in (Len(a) + 1)..(Len(a) + 1) /\ j \in (n + 1)..(n + (i + 1))
      BY <1>1, <1>2, <2>3
    <3>2. b[j] = (position + i) + j - Len(a) - 1 /\ d[j] = position + j - n - 1
      BY <1>3, <1>4, <3>1
    <3>3. QED
      BY <1>1, <1>2, <2>3, <3>2
  <2>4. QED
    BY <1>1, <2>1, <2>2, <2>3
<1>6. Len(b) = n + i + 1 /\ Len(d) = n + i + 1
  BY <1>1, <1>2, <1>3, <1>4
<1>7. b = d
  BY <1>3, <1>4, <1>5, <1>6, SeqsEqual
<1>8. QED
  BY <1>7 DEF a, b, d

LEMMA FeedingIsSound ==
  ASSUME NEW cut, Sound(cut), NEW n \in Nat, NEW r, Ranks(r, cut.live.pos + n),
         NEW frozen \in BOOLEAN, NEW c, IsFeeding(c, cut, frozen, r, n)
  PROVE FedState(c[n], cut, frozen, n)
<1> DEFINE S == {i \in 0..n : ~FedState(c[i], cut, frozen, i)}
           pos == cut.live.pos
           map == cut.live.cache
<1>1. pos \in Nat /\ Placed(map, pos) /\ map \in Seq(Nat)
  BY DEF Sound, Shape, Placed
<1>2. SUFFICES ASSUME S # {} PROVE FALSE
  OBVIOUS
<1>3. PICK i \in S : \A j \in S : i <= j
  <2>1. S \in SUBSET Nat
    OBVIOUS
  <2> HIDE DEF S
  <2>2. QED
    BY <1>2, <2>1, LeastOne
<1>4. i \in 0..n /\ ~FedState(c[i], cut, frozen, i)
  OBVIOUS
<1>5. CASE i = 0
  <2>1. c[0] = cut
    BY DEF IsFeeding
  <2>2. LongerMap(map, pos, 0) = map
    <3>1. /\ LongerMap(map, pos, 0) \in Seq(Nat) /\ Len(LongerMap(map, pos, 0)) = Len(map) + 0
          /\ \A j \in 1..Len(map) : LongerMap(map, pos, 0)[j] = map[j]
      <4>1. 0 \in Nat
        OBVIOUS
      <4>2. QED
        BY <1>1, <4>1, LongerSlots
    <3>2. Len(map) + 0 = Len(map)
      BY <1>1
    <3>3. QED
      BY <1>1, <3>1, <3>2, SeqsEqual
  <2>3. FedState(c[0], cut, frozen, 0)
    BY <1>1, <2>1, <2>2 DEF FedState
  <2>4. QED
    BY <1>4, <1>5, <2>3
<1>6. CASE i # 0
  <2> DEFINE j == i - 1
             s == c[j]
             u == Unflagged(s, frozen)
  <2>1. j \in 0..(n - 1) /\ j \in 0..n /\ j < i /\ j \in Nat /\ i = j + 1
    BY <1>4, <1>6
  <2>2. FedState(s, cut, frozen, j)
    BY <1>3, <2>1
  <2>3. c[j + 1] = AfterFeed(s, frozen, r)
    BY <2>1 DEF IsFeeding
  <2>4. c[i] = After(u, 1, r)
    BY <2>1, <2>3 DEF AfterFeed, Unflagged
  <2> HIDE DEF S, j, s
  <2>5. /\ Sound(u) /\ u.live = s.live /\ u.model.evicted = s.model.evicted
        /\ frozen => u.model.compression = "false"
    BY <2>2, UnflaggedFacts DEF FedState
  <2> HIDE DEF u
  <2>6. u.live.pos = pos + j
    BY <2>2, <2>5 DEF FedState
  <2>7. Ranks(r, u.live.pos + 1)
    <3>1. pos + j + 1 \in Nat /\ pos + n \in Nat /\ pos + j + 1 <= pos + n
      BY <1>1, <2>1
    <3>2. QED
      BY <2>6, <3>1, FewerRanks
  <2>8. /\ Sound(c[i]) /\ c[i].live.pos = u.live.pos + 1
        /\ Entries(c[i].live.cache)
             \subseteq Entries(u.live.cache) \cup (u.live.pos..(u.live.pos + 1 - 1))
        /\ u.model.compression = "false" =>
             /\ c[i].live.cache = LongerMap(u.live.cache, u.live.pos, 1)
             /\ c[i].model.evicted = u.model.evicted
    BY <2>4, <2>5, <2>7, AfterIsSound
  <2>9. c[i].live.pos = pos + i
    <3> HIDE DEF pos
    <3>1. c[i].live.pos = pos + j + 1
      BY <2>6, <2>8
    <3>2. pos + j + 1 = pos + i
      BY <1>1, <2>1
    <3>3. QED
      BY <3>1, <3>2
  <2>10. Entries(c[i].live.cache) \subseteq Entries(map) \cup (pos..(pos + i - 1))
    <3>1. Entries(u.live.cache) \subseteq Entries(map) \cup (pos..(pos + j - 1))
      BY <2>2, <2>5 DEF FedState
    <3>2. pos..(pos + j - 1) \subseteq pos..(pos + i - 1)
      BY <1>1, <2>1
    <3>3. u.live.pos..(u.live.pos + 1 - 1) \subseteq pos..(pos + i - 1)
      BY <1>1, <2>1, <2>6
    <3>4. QED
      BY <2>8, <3>1, <3>2, <3>3
  <2>11. ASSUME frozen
         PROVE c[i].live.cache = LongerMap(map, pos, i) /\ c[i].model.evicted = cut.model.evicted
    <3>1. /\ c[i].live.cache = LongerMap(u.live.cache, u.live.pos, 1)
          /\ c[i].model.evicted = u.model.evicted
      BY <2>5, <2>8, <2>11
    <3>2. u.live.cache = LongerMap(map, pos, j) /\ u.model.evicted = cut.model.evicted
      BY <2>2, <2>5, <2>11 DEF FedState
    <3>3. LongerMap(LongerMap(map, pos, j), pos + j, 1) = LongerMap(map, pos, j + 1)
      BY <1>1, <2>1, OneLonger
    <3>4. QED
      BY <2>1, <2>6, <3>1, <3>2, <3>3
  <2>12. FedState(c[i], cut, frozen, i)
    BY <2>8, <2>9, <2>10, <2>11 DEF FedState
  <2>13. QED
    BY <1>4, <2>12
<1>7. QED
  BY <1>5, <1>6

-----------------------------------------------------------------------------
(* A probe that is judged.                                                   *)
LEMMA FedAtMost ==
  ASSUME NEW c, NEW n \in Nat \ {0}, FedSoFar(c, n)
  PROVE n <= ForcedTokens + MaxAnswer
<1>1. ForcedTokens \in Nat \ {0} /\ MaxAnswer \in Nat \ {0}
  BY ProbeAssumption
<1>2. CASE n = 1
  BY <1>1, <1>2
<1>3. CASE n # 1
  <2>1. (n - 1) \in 1..(n - 1)
    BY <1>3
  <2>2. More(n - 1, FirstOf(c, n - 1))
    BY <2>1 DEF FedSoFar
  <2>3. n - 1 < ForcedTokens \/ n - 1 < ForcedTokens + MaxAnswer
    BY <2>2 DEF More
  <2>4. QED
    BY <1>1, <2>3
<1>4. QED
  BY <1>2, <1>3

LEMMA CutIsSound ==
  ASSUME NEW t \in Traces, Parsed(t), NEW f, NEW r \in Rankings, NEW cut, IsCut(t, f, r, cut)
  PROVE /\ Sound(cut)
        /\ \A n \in Nat : n <= ForcedTokens + MaxAnswer => Ranks(r, cut.live.pos + n)
<1> DEFINE a == Len(t.prompt)
           b == Len(t.generated)
           e == ThinkEnd(t)
           pos == CutPosition(t, f)
<1>1. f \in Fractions /\ cut.live.pos = pos /\ Reached(t, r, pos - a, cut)
  BY DEF IsCut
<1>2. /\ a \in Nat /\ b \in Nat /\ e \in Nat /\ e + 1 \in 1..b
  BY SpanFacts
<1>3. pos - a \in Nat /\ pos \in Nat /\ pos <= a + e
  BY <1>1, CutFacts
<1>4. Horizon(t) = a + b + ForcedTokens + MaxAnswer
  BY DEF Horizon
<1> HIDE DEF a, e, pos
<1>5. pos - a <= b /\ pos <= a + b
  BY <1>2, <1>3
<1>6. Sound(cut)
  BY <1>1, <1>3, <1>5, ReachedIsSound
<1> HIDE DEF b
<1>7. ASSUME NEW n \in Nat, n <= ForcedTokens + MaxAnswer
      PROVE Ranks(r, cut.live.pos + n)
  <2>1. ForcedTokens \in Nat /\ MaxAnswer \in Nat
    BY ProbeAssumption
  <2>2. pos + n \in Nat /\ pos + n <= Horizon(t)
    BY <1>2, <1>3, <1>4, <1>5, <1>7, <2>1
  <2>3. QED
    BY <1>1, <2>2, RankedUpTo
<1>8. QED
  BY <1>6, <1>7

LEMMA JudgedIsSound ==
  ASSUME SetupOK, ProcOK(proc, Now, setup), proc.at = "judge"
  PROVE LET cut == proc.snapshots[proc.fraction]
            n == proc.probe.fed
        IN /\ n \in Nat
           /\ Sound(cut)
           /\ proc.probe.cut = cut.live.cache
           /\ proc.probe.last = live.cache
           /\ FedState(Now, cut, Frozen, n)
<1> DEFINE n == proc.probe.fed
           cut == proc.snapshots[proc.fraction]
           r == setup.ranking
           f == proc.fraction
<1>1. /\ proc.row \in Rows /\ Parsed(TraceOf(proc, setup)) /\ f \in Fractions
      /\ DOMAIN proc.snapshots = Fractions
  BY DEF ProcOK, Located, Replaying, AtAProbe, Probing
<1>2. Trace \in Traces /\ Trace = TraceOf(proc, setup) /\ r \in Rankings
  BY <1>1, TraceFacts DEF SetupOK
<1>3. PICK c : Feeding(c, proc, Now, setup)
  BY DEF ProcOK, Feeds, Probing
<1>4. /\ n \in Nat /\ n > 0 /\ proc.probe.cut = cut.live.cache
      /\ IsFeeding(c, cut, FrozenIn(setup), r, n) /\ FedSoFar(c, n)
      /\ proc.probe.last = c[n].live.cache /\ Now = c[n]
  BY <1>3 DEF Feeding
<1>5. IsCut(Trace, f, r, cut)
  BY <1>1, <1>2 DEF ProcOK, Cuts
<1>6. FrozenIn(setup) = Frozen /\ Frozen \in BOOLEAN
  BY DEF FrozenIn, Frozen
<1> HIDE DEF n, cut, r
<1>7. n \in Nat \ {0} /\ n <= ForcedTokens + MaxAnswer
  <2>1. n \in Nat \ {0}
    BY <1>4
  <2>2. QED
    BY <1>4, <2>1, FedAtMost
<1>8. Sound(cut) /\ Ranks(r, cut.live.pos + n)
  BY <1>1, <1>2, <1>5, <1>7, CutIsSound
<1>9. FedState(c[n], cut, Frozen, n)
  BY <1>4, <1>6, <1>8, FeedingIsSound
<1>10. proc.probe.last = live.cache
  BY <1>4 DEF Now
<1>11. QED
  BY <1>4, <1>8, <1>9, <1>10 DEF n, cut

(* The code's check of a frozen probe never fires.                           *)
LEMMA JudgedIsClean ==
  ASSUME SetupOK, ProcOK(proc, Now, setup), proc.at = "judge"
  PROVE ~Contaminated
<1> DEFINE n == proc.probe.fed
           cut == proc.snapshots[proc.fraction]
<1>1. SUFFICES ASSUME Frozen PROVE ~Contaminated
  BY DEF Contaminated
<1>2. /\ n \in Nat /\ Sound(cut) /\ proc.probe.cut = cut.live.cache
      /\ FedState(Now, cut, Frozen, n)
  BY JudgedIsSound
<1> HIDE DEF n, cut
<1>3. /\ Now.live.cache = LongerMap(cut.live.cache, cut.live.pos, n)
      /\ Now.model.evicted = cut.model.evicted
  BY <1>1, <1>2 DEF FedState
<1>4. cut.live.pos \in Nat /\ Placed(cut.live.cache, cut.live.pos)
  BY <1>2 DEF Sound, Shape
<1>5. Len(Now.live.cache) = Len(cut.live.cache) + n
  BY <1>2, <1>3, <1>4, LongerFacts
<1>6. live = Now.live /\ model = Now.model
  BY DEF Now
<1>7. Len(live.cache) = Len(proc.probe.cut) + n /\ model.evicted = cut.model.evicted
  BY <1>2, <1>3, <1>5, <1>6
<1>8. QED
  BY <1>7 DEF Contaminated, n, cut

(* What a record says of its probe is so.                                    *)
LEMMA FewerMeansOthers ==
  ASSUME NEW a, NEW b, NEW p, NEW q, Placed(a, p), Placed(b, q), Entries(b) \subseteq Entries(a)
  PROVE Len(b) < Len(a) <=> Entries(a) # Entries(b)
<1>1. /\ IsFiniteSet(Entries(a)) /\ Cardinality(Entries(a)) = Len(a)
      /\ IsFiniteSet(Entries(b)) /\ Cardinality(Entries(b)) = Len(b)
  BY EntriesSize
<1>2. /\ Cardinality(Entries(b)) <= Cardinality(Entries(a))
      /\ Cardinality(Entries(a)) = Cardinality(Entries(b)) => Entries(a) = Entries(b)
  BY <1>1, FS_Subset
<1>3. Len(a) \in Nat /\ Len(b) \in Nat
  BY DEF Placed
<1>4. QED
  BY <1>1, <1>2, <1>3

LEMMA JudgedIsTold ==
  ASSUME SetupOK, ProcOK(proc, Now, setup), proc.at = "judge"
  PROVE LET cut == proc.snapshots[proc.fraction].live
            fed == [j \in 1..proc.probe.fed |-> cut.pos + j - 1]
        IN /\ Frozen => proc.probe.last = cut.cache \o fed
           /\ Result(proc.probe).evicted
                <=> Entries(cut.cache \o fed) # Entries(proc.probe.last)
<1> DEFINE n == proc.probe.fed
           s == proc.snapshots[proc.fraction]
           map == s.live.cache
           pos == s.live.pos
           long == LongerMap(map, pos, n)
           last == proc.probe.last
<1>1. /\ n \in Nat /\ Sound(s) /\ proc.probe.cut = map
      /\ last = live.cache /\ FedState(Now, s, Frozen, n)
  BY JudgedIsSound
<1>2. map \o [j \in 1..n |-> pos + j - 1] = long
  BY DEF LongerMap
<1>3. Now.live = live
  BY DEF Now
<1> HIDE DEF n, s, long, last
<1>4. /\ Sound(Now) /\ Entries(last) \subseteq Entries(map) \cup (pos..(pos + n - 1))
      /\ Frozen => last = long
  BY <1>1, <1>3 DEF FedState, long
<1>5. pos \in Nat /\ Placed(map, pos) /\ Placed(last, Now.live.pos)
  BY <1>1, <1>3, <1>4 DEF Sound, Shape
<1> HIDE DEF map, pos
<1>6. Placed(long, pos + n)
  BY <1>1, <1>5, LongerFacts DEF long
<1>7. Len(long) = Len(map) + n
  BY <1>1, <1>5, LongerFacts DEF long
<1>8. Entries(long) = Entries(map) \cup (pos..(pos + n - 1))
  BY <1>1, <1>5, LongerFacts DEF long
<1>9. Entries(last) \subseteq Entries(long)
  BY <1>4, <1>8
<1>10. Len(last) < Len(long) <=> Entries(long) # Entries(last)
  BY <1>5, <1>6, <1>9, FewerMeansOthers
<1>11. Result(proc.probe).evicted <=> Len(last) < Len(map) + n
  BY <1>1 DEF Result, last, n
<1>12. Result(proc.probe).evicted <=> Entries(long) # Entries(last)
  BY <1>7, <1>10, <1>11
<1>13. /\ Frozen => last = map \o [j \in 1..n |-> pos + j - 1]
       /\ Result(proc.probe).evicted
            <=> Entries(map \o [j \in 1..n |-> pos + j - 1]) # Entries(last)
  BY <1>2, <1>4, <1>12
<1>14. QED
  BY <1>13 DEF map, pos, s, n, last

-----------------------------------------------------------------------------
(* A replay takes every snapshot on its way, and nothing but an unreadable   *)
(* file makes a command fail.                                                *)
Taken ==
  proc.at = "decode" =>
    \A f \in Fractions : CutPosition(Trace, f) <= live.pos => f \in DOMAIN proc.snapshots

FailedUnread == proc.at = "failed" => ~Readable(file)

LEMMA PrefillTakes ==
  ASSUME SetupOK, ProcOK(proc, Now, setup), ReplayPrefill
  PROVE Taken' /\ FailedUnread'
<1> DEFINE taken == Captured(live'.pos)
           a == Len(Trace.prompt)
<1>1. /\ DOMAIN proc = ProcNames /\ proc.at = "prefill" /\ proc.row \in Rows
      /\ Parsed(TraceOf(proc, setup)) /\ Now = Fresh /\ Shape(Now)
  BY DEF ReplayPrefill, ProcOK, Located, Replays, Replaying, AtAProbe
<1>2. /\ Trace \in Traces /\ Trace = TraceOf(proc, setup) /\ a \in Nat
  BY <1>1, TraceFacts
<1>3. Calls(a) /\ proc' = [proc EXCEPT !.at = "decode", !.snapshots = taken] /\ setup' = setup
  BY DEF ReplayPrefill
<1>4. live'.pos = live.pos + a
  BY <1>1, <1>2, <1>3, CallKeepsShape
<1>5. live.pos = 0
  BY <1>1, FreshHasShape DEF Now
<1>6. DOMAIN taken = {g \in Fractions : CutPosition(Trace, g) = live'.pos}
  BY DEF Captured
<1> HIDE DEF taken
<1>7. proc'.at = "decode" /\ proc'.row = proc.row /\ proc'.snapshots = taken
  BY <1>1, <1>3 DEF ProcNames
<1>8. Trace' = Trace
  BY <1>3, <1>7 DEF Trace
<1>9. ASSUME NEW f \in Fractions, CutPosition(Trace, f) <= live'.pos
      PROVE f \in DOMAIN taken
  <2>1. CutPosition(Trace, f) - a \in Nat /\ CutPosition(Trace, f) \in Nat
    BY <1>1, <1>2, CutFacts
  <2>2. CutPosition(Trace, f) = live'.pos
    BY <1>2, <1>4, <1>5, <1>9, <2>1
  <2>3. QED
    BY <1>6, <2>2
<1>10. \A f \in Fractions : CutPosition(Trace', f) <= live'.pos => f \in DOMAIN proc'.snapshots
  BY <1>7, <1>8, <1>9
<1>11. Taken'
  BY <1>10 DEF Taken, CutPosition, ThinkStart, ThinkEnd, Closings, EndsInsideOpenBlock, Places
<1>12. QED
  BY <1>7, <1>11 DEF FailedUnread

LEMMA DecodeTakes ==
  ASSUME SetupOK, ProcOK(proc, Now, setup), Taken, ReplayDecode
  PROVE Taken' /\ FailedUnread'
<1> DEFINE taken == Captured(live'.pos)
           all == Joined(proc.snapshots, taken)
           p == [proc EXCEPT !.tokens = @ + 1, !.snapshots = all]
           a == Len(Trace.prompt)
           b == Len(Trace.generated)
<1>1. /\ DOMAIN proc = ProcNames /\ proc.at = "decode" /\ proc.row \in Rows
      /\ Parsed(TraceOf(proc, setup)) /\ proc.tokens \in Nat /\ Shape(Now)
  BY DEF ReplayDecode, ProcOK, Located, Replaying, AtAProbe
<1>2. /\ Trace \in Traces /\ Trace = TraceOf(proc, setup) /\ a \in Nat /\ b \in Nat
  BY <1>1, TraceFacts
<1>3. /\ Calls(1) /\ setup' = setup
      /\ proc' = IF DOMAIN p.snapshots = Fractions THEN AfterProbe(p, 0)
                 ELSE IF p.tokens = b THEN [p EXCEPT !.at = "failed"]
                 ELSE p
  BY DEF ReplayDecode
<1>4. live'.pos = live.pos + 1
  BY <1>1, <1>3, CallKeepsShape
<1>5. live.pos = a + proc.tokens
  BY <1>1, <1>2 DEF ProcOK, Replays, Now
<1>6. DOMAIN taken = {g \in Fractions : CutPosition(Trace, g) = live'.pos}
  BY DEF Captured
<1> HIDE DEF taken
<1>7. DOMAIN all = DOMAIN proc.snapshots \cup DOMAIN taken
  BY JoinedFacts
<1> HIDE DEF all
<1>8. /\ DOMAIN p = ProcNames /\ p.at = "decode" /\ p.row = proc.row
      /\ p.tokens = proc.tokens + 1 /\ p.snapshots = all
  BY <1>1 DEF ProcNames
<1> HIDE DEF p
<1>9. ASSUME NEW f \in Fractions
      PROVE /\ CutPosition(Trace, f) \in Nat
            /\ CutPosition(Trace, f) <= a + b
            /\ CutPosition(Trace, f) <= live'.pos => f \in DOMAIN all
  <2>1. CutPosition(Trace, f) \in Nat /\ CutPosition(Trace, f) <= a + ThinkEnd(Trace)
    BY <1>1, <1>2, CutFacts
  <2>2. ThinkEnd(Trace) \in Nat /\ ThinkEnd(Trace) + 1 \in 1..b
    BY <1>1, <1>2, SpanFacts
  <2>3. CutPosition(Trace, f) <= a + b
    <3> DEFINE e == ThinkEnd(Trace)
               cut == CutPosition(Trace, f)
    <3>1. a \in Nat /\ b \in Nat /\ e \in Nat /\ e <= b /\ cut \in Nat /\ cut <= a + e
      BY <1>2, <2>1, <2>2
    <3> HIDE DEF a, b, e, cut
    <3>2. cut <= a + b
      BY <3>1
    <3>3. QED
      BY <3>2 DEF cut
  <2>4. ASSUME CutPosition(Trace, f) <= live'.pos PROVE f \in DOMAIN all
    <3>1. CutPosition(Trace, f) <= live.pos \/ CutPosition(Trace, f) = live'.pos
      BY <1>1, <1>2, <1>4, <1>5, <2>1, <2>4
    <3>2. QED
      BY <1>1, <1>6, <1>7, <3>1 DEF Taken
  <2>5. QED
    BY <2>1, <2>3, <2>4
<1>10. CASE DOMAIN p.snapshots = Fractions
  <2>1. proc' = AfterProbe(p, 0)
    BY <1>3, <1>10
  <2>2. proc'.at \in {"branch", "write", "done", "reset"}
    BY <1>8, <2>1, AfterProbeLeaves
  <2>3. QED
    BY <2>2 DEF Taken, FailedUnread
<1>11. CASE DOMAIN p.snapshots # Fractions /\ p.tokens = b
  <2>1. live'.pos = a + b
    <3>1. proc.tokens + 1 = b
      BY <1>8, <1>11
    <3> HIDE DEF a, b
    <3>2. live'.pos = a + proc.tokens + 1
      BY <1>4, <1>5
    <3>3. QED
      BY <1>1, <1>2, <3>1, <3>2
  <2>2. Fractions \subseteq DOMAIN all
    BY <1>9, <2>1
  <2>3. DOMAIN proc.snapshots \subseteq Fractions
    BY DEF ProcOK, Cuts, IsCut
  <2>4. DOMAIN all = Fractions
    BY <1>6, <1>7, <2>2, <2>3
  <2>5. QED
    BY <1>8, <1>11, <2>4
<1>12. CASE DOMAIN p.snapshots # Fractions /\ p.tokens # b
  <2>1. proc' = p
    BY <1>3, <1>12
  <2>2. Trace' = Trace
    BY <1>3, <1>8, <2>1 DEF Trace
  <2>3. \A f \in Fractions : CutPosition(Trace', f) <= live'.pos => f \in DOMAIN proc'.snapshots
    BY <1>8, <1>9, <2>1, <2>2
  <2>4. Taken'
    BY <2>3 DEF Taken, CutPosition, ThinkStart, ThinkEnd, Closings, EndsInsideOpenBlock, Places
  <2>5. QED
    BY <1>8, <2>1, <2>4 DEF FailedUnread
<1>13. QED
  BY <1>10, <1>11, <1>12

LEMMA NextTakes ==
  ASSUME SetupOK, ProcOK(proc, Now, setup), Taken, FailedUnread, [Next]_vars
  PROVE Taken' /\ FailedUnread'
<1>1. DOMAIN proc = ProcNames
  BY DEF ProcOK, Located
<1>2. CASE UNCHANGED vars
  <2>1. proc' = proc /\ file' = file /\ live' = live /\ setup' = setup
    BY <1>2 DEF vars
  <2>2. Taken'
    <3>1. Trace' = Trace
      BY <2>1 DEF Trace
    <3>2. QED
      BY <2>1, <3>1, ZenonT(40) DEF Taken, CutPosition, ThinkStart, ThinkEnd, Closings, EndsInsideOpenBlock,
                                  Places
  <2>3. QED
    BY <2>1, <2>2 DEF FailedUnread
<1>3. CASE BaseReset \/ BasePrefill \/ BaseDecode \/ BaseFinish
  <2>1. CASE BaseFinish
    <3>1. PICK row : proc' = Idle \/ proc' = [Idle EXCEPT !.at = "generate", !.row = row]
      BY <2>1 DEF BaseFinish
    <3>2. proc'.at \in {"down", "generate"}
      BY <3>1, IdleFields DEF ProcNames
    <3>3. QED
      BY <3>2 DEF Taken, FailedUnread
  <2>2. CASE BaseReset \/ BasePrefill \/ BaseDecode
    <3>1. proc'.at \in {"generate", "base"}
      BY <1>1, <2>2 DEF BaseReset, BasePrefill, BaseDecode, ProcNames
    <3>2. QED
      BY <3>1 DEF Taken, FailedUnread
  <2>3. QED
    BY <1>3, <2>1, <2>2
<1>4. CASE Start
  <2> DEFINE seen == RecordIds(file.lines)
             rows == {row \in Rows : Replayed(row, seen)}
             p == [Idle EXCEPT !.seen = seen]
  <2>1. /\ proc' = IF Readable(file) THEN GoToRow(p, rows) ELSE [Idle EXCEPT !.at = "failed"]
        /\ file' = file
    BY <1>4 DEF Start
  <2>2. DOMAIN p = ProcNames
    BY IdleFields
  <2> HIDE DEF p, rows
  <2>3. CASE Readable(file)
    <3>1. proc'.at \in {"done", "reset"}
      BY <2>1, <2>2, <2>3, IdleFields DEF GoToRow, ProcNames
    <3>2. QED
      BY <3>1 DEF Taken, FailedUnread
  <2>4. CASE ~Readable(file)
    <3>1. proc'.at = "failed"
      BY <2>1, <2>4, IdleFields DEF ProcNames
    <3>2. ~Readable(file')
      BY <2>1, <2>4
    <3>3. QED
      BY <3>1, <3>2 DEF Taken, FailedUnread, Readable
  <2>5. QED
    BY <2>3, <2>4
<1>5. CASE ReplayPrefill
  BY <1>5, PrefillTakes
<1>6. CASE ReplayDecode
  BY <1>6, DecodeTakes
<1>7. CASE FinishProbe
  <2> DEFINE p == [proc EXCEPT !.results =
                     Joined(@, [f \in {proc.fraction} |-> Result(proc.probe)])]
  <2>1. proc.at = "judge"
    BY <1>7 DEF FinishProbe
  <2>2. ~Contaminated
    BY <2>1, JudgedIsClean
  <2>3. proc' = IF Fixed THEN AfterProbe(p, Turn(p.fraction)) ELSE [p EXCEPT !.at = "write"]
    BY <1>7, <2>2 DEF FinishProbe
  <2>4. DOMAIN p = ProcNames
    BY <1>1
  <2> HIDE DEF p
  <2>5. proc'.at \in {"branch", "write", "done", "reset"}
    BY <2>3, <2>4, AfterProbeLeaves DEF ProcNames
  <2>6. QED
    BY <2>5 DEF Taken, FailedUnread
<1>8. CASE Killed
  <2>1. proc'.at = "down"
    BY <1>8, IdleFields DEF Killed
  <2>2. QED
    BY <2>1 DEF Taken, FailedUnread
<1>9. CASE ReplayReset \/ Branch \/ ForceCompressionOff
  <2>1. proc'.at \in {"prefill", "freeze", "feed"}
    BY <1>1, <1>9 DEF ReplayReset, Branch, ForceCompressionOff, ProcNames
  <2>2. QED
    BY <2>1 DEF Taken, FailedUnread
<1>10. CASE Feed
  <2>1. PICK probe, at : /\ proc' = [proc EXCEPT !.probe = probe, !.at = at]
                         /\ at \in {"judge", "freeze", "feed"}
    BY <1>10, Zenon DEF Feed
  <2>2. proc'.at \in {"judge", "freeze", "feed"}
    BY <1>1, <2>1 DEF ProcNames
  <2>3. QED
    BY <2>2 DEF Taken, FailedUnread
<1>11. CASE \E f \in Fractions : AppendRecord(f)
  <2>1. proc'.at = "write"
    BY <1>1, <1>11 DEF AppendRecord, ProcNames
  <2>2. QED
    BY <2>1 DEF Taken, FailedUnread
<1>12. CASE RowWritten
  <2>1. proc' = NextRow(proc) \/ proc' = AfterProbe(proc, Turn(proc.fraction))
    BY <1>12 DEF RowWritten
  <2>2. proc'.at \in {"branch", "write", "done", "reset"}
    BY <1>1, <2>1, NextRowLeaves, AfterProbeLeaves
  <2>3. QED
    BY <2>2 DEF Taken, FailedUnread
<1>13. QED
  BY <1>2, <1>3, <1>4, <1>5, <1>6, <1>7, <1>8, <1>9, <1>10, <1>11, <1>12 DEF Next

(* A frozen probe has the cache of its cut and what it was fed, a record     *)
(* tells truly whether a token left the cache, and neither the code's check  *)
(* of a frozen probe nor its check that every snapshot was taken ever fails. *)
THEOREM ProbesAreUndisturbed == Spec => []FrozenProbesAreUndisturbed
<1>1. Init => Taken /\ FailedUnread
  <2>1. SUFFICES ASSUME Init PROVE Taken /\ FailedUnread
    OBVIOUS
  <2>2. proc = Idle \/ proc = [Idle EXCEPT !.at = "generate", !.row = Min(Rows)]
    BY <2>1 DEF Init
  <2>3. proc.at \in {"down", "generate"}
    BY <2>2, IdleFields DEF ProcNames
  <2>4. QED
    BY <2>3 DEF Taken, FailedUnread
<1>2. /\ SetupOK /\ ProcOK(proc, Now, setup)
      /\ Taken /\ FailedUnread /\ [Next]_vars
      => Taken' /\ FailedUnread'
  BY NextTakes
<1>3. SetupOK /\ ProcOK(proc, Now, setup) /\ FailedUnread => FrozenProbesAreUndisturbed
  BY JudgedIsTold DEF FrozenProbesAreUndisturbed, FailedUnread
<1>4. QED
  BY <1>1, <1>2, <1>3, ProcInvariant, PTL DEF Spec
=============================================================================
