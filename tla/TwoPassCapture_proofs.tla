------------------------- MODULE TwoPassCapture_proofs -------------------------
(*****************************************************************************)
(* What holds of every cache, whatever the budget, the window, the distance  *)
(* between compactions, the prompts and the choices of the GPU.              *)
(*****************************************************************************)
EXTENDS TwoPassCapture, WellFoundedInduction, TLAPS

-----------------------------------------------------------------------------
(* Sequences of positions, and remainders.                                   *)
LEMMA FunctionIsSeq ==
  ASSUME NEW n \in Nat, NEW f \in [1..n -> Nat]
  PROVE f \in Seq(Nat) /\ Len(f) = n
  OBVIOUS

LEMMA ConcatFacts ==
  ASSUME NEW s \in Seq(Nat), NEW t \in Seq(Nat)
  PROVE /\ s \o t \in Seq(Nat)
        /\ Len(s \o t) = Len(s) + Len(t)
        /\ \A j \in 1..Len(s) : (s \o t)[j] = s[j]
        /\ \A j \in (Len(s) + 1)..(Len(s) + Len(t)) : (s \o t)[j] = t[j - Len(s)]
  OBVIOUS

LEMMA SeqsEqual ==
  ASSUME NEW s \in Seq(Nat), NEW t \in Seq(Nat), Len(s) = Len(t),
         \A j \in 1..Len(s) : s[j] = t[j]
  PROVE s = t
  OBVIOUS

LEMMA Division ==
  ASSUME NEW n \in Int, NEW d \in Nat \ {0}
  PROVE n % d \in 0..(d - 1) /\ n \div d \in Int /\ n = d * (n \div d) + (n % d)
  OBVIOUS

LEMMA Remainder ==
  ASSUME NEW n \in Int, NEW d \in Nat \ {0}
  PROVE n % d \in 0..(d - 1)
  OBVIOUS

LEMMA SmallMultiple ==
  ASSUME NEW d \in Nat \ {0}, NEW x \in Int, NEW e \in Int, d * x = e, -d < e, e < d
  PROVE e = 0
<1>1. CASE x >= 1
  <2>1. d * x >= d BY <1>1, Z3
  <2> QED BY <2>1
<1>2. CASE x <= -1
  <2>1. d * x <= -d BY <1>2, Z3
  <2> QED BY <2>1
<1>3. CASE x = 0
  BY <1>3
<1> QED BY <1>1, <1>2, <1>3

LEMMA RemainderIsUnique ==
  ASSUME NEW a \in Int, NEW d \in Nat \ {0}, NEW q \in Int, NEW r \in 0..(d - 1), a = d * q + r
  PROVE a % d = r
<1> DEFINE p == a \div d
<1> DEFINE s == a % d
<1>1. p \in Int /\ s \in 0..(d - 1) /\ a = d * p + s
  BY Division
<1> HIDE DEF p, s
<1>2. d * (q - p) = s - r
  BY <1>1
<1>3. s - r = 0
  <2>1. s - r \in Int /\ -d < s - r /\ s - r < d /\ q - p \in Int
    BY <1>1
  <2> QED BY <1>2, <2>1, SmallMultiple
<1> QED BY <1>1, <1>3 DEF s

LEMMA NoMultipleBetween ==
  ASSUME NEW n \in Nat, NEW d \in Nat \ {0}, n % d # 0
  PROVE ((n - 1) % d) + 1 = n % d
<1> DEFINE q == n \div d
<1> DEFINE r == n % d
<1>1. q \in Int /\ r \in 0..(d - 1) /\ n = d * q + r
  BY Division
<1>2. r # 0
  OBVIOUS
<1> HIDE DEF q, r
<1>3. n - 1 = d * q + (r - 1) /\ r - 1 \in 0..(d - 1) /\ n - 1 \in Int
  BY <1>1, <1>2
<1>4. (n - 1) % d = r - 1
  BY <1>1, <1>3, RemainderIsUnique
<1>5. ((n - 1) % d) + 1 = r
  BY <1>4, <1>1
<1> QED BY <1>5 DEF r

-----------------------------------------------------------------------------
(* The invariant of a model and its adapter, and of every snapshot of them.  *)

(* The shape the adapter and the cluster agree on.                           *)
Shaped(m, l) ==
  /\ m \in ModelStates
  /\ l \in LiveStates
  /\ Len(l.positions) = Len(l.cache)
  /\ m.kept = << >> => m.evicted = 0
  /\ m.kept # << >> => Len(m.kept) = Budget /\ Budget <= Len(l.cache)

(* The flag is the one the counter left, and the cache has grown by less     *)
(* than the counter has advanced since the flag was last set.                *)
Timed(m, l) ==
  /\ m.length = 0 => m.compression = "none" /\ l.cache = << >>
  /\ m.length # 0 =>
       /\ m.compression = IF m.length % DivideLength = 0 THEN "true" ELSE "false"
       /\ Len(l.cache) <= Budget + ((m.length - 1) % DivideLength)

(* What is in the cache: before the first compaction everything; after one   *)
(* what the cluster recorded, all different, then all that was fed since.    *)
(* Until something is evicted, slots are in the order of the stream.         *)
Named(m, l) ==
  ~m.shuffled =>
    /\ l.positions = l.cache
    /\ l.pos = Len(l.cache) + m.evicted
    /\ m.kept = << >> => \A j \in 1..Len(l.cache) : l.cache[j] = j - 1
    /\ m.kept # << >> =>
         /\ \A j \in 1..Budget : l.cache[j] = m.kept[j] /\ m.kept[j] < Budget + m.evicted
         /\ \A j \in (Budget + 1)..Len(l.cache) : l.cache[j] = j - 1 + m.evicted
         /\ \A i, j \in 1..Budget : m.kept[i] = m.kept[j] => i = j
         /\ m.evicted = 0 => \A j \in 1..Budget : m.kept[j] = j - 1

Good(m, l) == Shaped(m, l) /\ Timed(m, l) /\ Named(m, l)

LEMMA FreshIsGood == Good(FreshModel, EmptyState)
<1>1. << >> \in Seq(Nat) /\ Len(<< >>) = 0
  OBVIOUS
<1>2. Shaped(FreshModel, EmptyState)
  BY <1>1 DEF Shaped, FreshModel, EmptyState, ModelStates, LiveStates
<1>3. Timed(FreshModel, EmptyState)
  BY DEF Timed, FreshModel, EmptyState
<1>4. Named(FreshModel, EmptyState)
  BY <1>1 DEF Named, FreshModel, EmptyState
<1> QED BY <1>2, <1>3, <1>4 DEF Good

(* A map with what a call feeds appended to it.                              *)
LEMMA GrownFacts ==
  ASSUME live \in LiveStates, NEW k \in Nat, NEW map \in Seq(Nat)
  PROVE /\ Grown(map, k) \in Seq(Nat)
        /\ Len(Grown(map, k)) = Len(map) + k
        /\ \A j \in 1..Len(map) : Grown(map, k)[j] = map[j]
        /\ \A j \in (Len(map) + 1)..(Len(map) + k) :
              Grown(map, k)[j] = live.pos + j - Len(map) - 1
<1>1. Fed(k) \in [1..k -> Nat] /\ \A j \in 1..k : Fed(k)[j] = live.pos + j - 1
  BY DEF Fed, LiveStates
<1>2. Fed(k) \in Seq(Nat) /\ Len(Fed(k)) = k
  BY <1>1, FunctionIsSeq
<1>3. /\ map \o Fed(k) \in Seq(Nat)
      /\ Len(map \o Fed(k)) = Len(map) + Len(Fed(k))
      /\ \A j \in 1..Len(map) : (map \o Fed(k))[j] = map[j]
      /\ \A j \in (Len(map) + 1)..(Len(map) + Len(Fed(k))) :
            (map \o Fed(k))[j] = Fed(k)[j - Len(map)]
  BY <1>2, ConcatFacts
<1>4. ASSUME NEW j \in (Len(map) + 1)..(Len(map) + k)
      PROVE (map \o Fed(k))[j] = live.pos + j - Len(map) - 1
  <2>1. j - Len(map) \in 1..k /\ Len(map) \in Nat /\ live.pos \in Nat
    BY DEF LiveStates
  <2>2. (map \o Fed(k))[j] = Fed(k)[j - Len(map)]
    BY <1>2, <1>3
  <2>3. Fed(k)[j - Len(map)] = live.pos + (j - Len(map)) - 1
    BY <1>1, <2>1
  <2> QED BY <2>1, <2>2, <2>3
<1> QED BY <1>2, <1>3, <1>4 DEF Grown

(* The slots of a compaction are different slots of the cache.               *)
LEMMA SurvivorFacts ==
  ASSUME NEW n \in Nat, n >= Budget, NEW slots \in Survivors(n)
  PROVE /\ slots \in [1..Budget -> 1..n]
        /\ \A i, j \in 1..Budget : slots[i] = slots[j] => i = j
<1> USE RkvAssumption
<1>1. PICK top \in [1..(Budget - Window) -> 1..(n - Window)] :
        /\ \A i, j \in 1..(Budget - Window) : top[i] = top[j] => i = j
        /\ slots = [j \in 1..Budget |-> IF j <= Budget - Window THEN top[j] ELSE n - Budget + j]
  BY DEF Survivors
<1>2. ASSUME NEW j \in 1..Budget
      PROVE /\ slots[j] \in 1..n
            /\ slots[j] = IF j <= Budget - Window THEN top[j] ELSE n - Budget + j
            /\ slots[j] <= n - Window <=> j <= Budget - Window
  <2>1. slots[j] = IF j <= Budget - Window THEN top[j] ELSE n - Budget + j
    BY <1>1
  <2>2. CASE j <= Budget - Window
    <3>1. top[j] \in 1..(n - Window)
      BY <1>1, <2>2
    <3> QED BY <2>1, <2>2, <3>1
  <2>3. CASE ~(j <= Budget - Window)
    BY <2>1, <2>3
  <2> QED BY <2>2, <2>3
<1>3. ASSUME NEW i \in 1..Budget, NEW j \in 1..Budget, slots[i] = slots[j]
      PROVE i = j
  <2>1. CASE j <= Budget - Window
    <3>1. i <= Budget - Window
      BY <1>2, <1>3, <2>1
    <3> QED BY <1>1, <1>2, <1>3, <2>1, <3>1
  <2>2. CASE ~(j <= Budget - Window)
    <3>1. ~(i <= Budget - Window)
      BY <1>2, <1>3, <2>2
    <3>2. n - Budget + i = n - Budget + j
      BY <1>2, <1>3, <2>2, <3>1
    <3> QED BY <3>2
  <2> QED BY <2>1, <2>2
<1> QED BY <1>1, <1>2, <1>3

-----------------------------------------------------------------------------
(* One forward call: the prefill of a fresh model, or one token.             *)
Calls(k) == k \in Nat \ {0} /\ (model.length = 0 \/ k = 1)

LEMMA CountedFacts ==
  ASSUME model \in ModelStates, NEW k \in Nat \ {0}
  PROVE /\ Counted(model, k) \in ModelStates
        /\ Counted(model, k).length = model.length + k
        /\ Counted(model, k).compression
             = IF (model.length + k) % DivideLength = 0 THEN "true" ELSE "false"
        /\ Counted(model, k).evicted = model.evicted
        /\ Counted(model, k).kept = model.kept
        /\ Counted(model, k).shuffled = model.shuffled
<1> DEFINE flag == IF (model.length + k) % DivideLength = 0 THEN "true" ELSE "false"
<1>1. flag \in {"none", "true", "false"} /\ model.length + k \in Nat
  BY DEF ModelStates
<1>2. Counted(model, k) = [model EXCEPT !.length = @ + k, !.compression = flag]
  BY DEF Counted
<1> HIDE DEF flag
<1>3. /\ Counted(model, k) \in ModelStates
      /\ Counted(model, k).length = model.length + k
      /\ Counted(model, k).compression = flag
      /\ Counted(model, k).evicted = model.evicted
      /\ Counted(model, k).kept = model.kept
      /\ Counted(model, k).shuffled = model.shuffled
  BY <1>1, <1>2 DEF ModelStates
<1> QED BY <1>3 DEF flag

(* What a cache holds, slot by slot, once a call has appended to it.         *)
LEMMA FullFacts ==
  ASSUME Good(model, live), NEW k \in Nat \ {0}, ~model.shuffled
  PROVE /\ model.kept = << >> =>
             model.evicted = 0 /\ \A j \in 1..(Len(live.cache) + k) : Grown(live.cache, k)[j] = j - 1
        /\ model.kept # << >> =>
             /\ \A j \in 1..Budget : Grown(live.cache, k)[j] = model.kept[j]
             /\ \A j \in (Budget + 1)..(Len(live.cache) + k) :
                   Grown(live.cache, k)[j] = j - 1 + model.evicted
<1> USE RkvAssumption
<1> DEFINE cache == Grown(live.cache, k)
<1>1. live.cache \in Seq(Nat) /\ Len(live.cache) \in Nat /\ live.pos \in Nat /\ model.evicted \in Nat
  BY DEF Good, Shaped, ModelStates, LiveStates
<1>2. live.pos = Len(live.cache) + model.evicted
  BY DEF Good, Named
<1>3. /\ \A j \in 1..Len(live.cache) : cache[j] = live.cache[j]
      /\ \A j \in (Len(live.cache) + 1)..(Len(live.cache) + k) :
            cache[j] = live.pos + j - Len(live.cache) - 1
  BY <1>1, GrownFacts DEF Good, Shaped
<1> HIDE DEF cache
<1>4. CASE model.kept = << >>
  <2>1. model.evicted = 0 /\ \A j \in 1..Len(live.cache) : live.cache[j] = j - 1
    BY <1>4 DEF Good, Shaped, Named
  <2>2. ASSUME NEW j \in 1..(Len(live.cache) + k) PROVE cache[j] = j - 1
    <3>1. CASE j <= Len(live.cache)
      <4>1. j \in 1..Len(live.cache)
        BY <1>1, <3>1
      <4> QED BY <1>3, <2>1, <4>1
    <3>2. CASE ~(j <= Len(live.cache))
      <4>1. j \in (Len(live.cache) + 1)..(Len(live.cache) + k)
        BY <1>1, <3>2
      <4>2. cache[j] = live.pos + j - Len(live.cache) - 1
        BY <1>3, <4>1
      <4> QED BY <1>1, <1>2, <2>1, <4>1, <4>2
    <3> QED BY <3>1, <3>2
  <2> QED BY <1>4, <2>1, <2>2 DEF cache
<1>5. CASE model.kept # << >>
  <2>1. Budget <= Len(live.cache)
    BY <1>5 DEF Good, Shaped
  <2>2. /\ \A j \in 1..Budget : live.cache[j] = model.kept[j]
        /\ \A j \in (Budget + 1)..Len(live.cache) : live.cache[j] = j - 1 + model.evicted
    BY <1>5 DEF Good, Named
  <2>3. ASSUME NEW j \in 1..Budget PROVE cache[j] = model.kept[j]
    <3>1. j \in 1..Len(live.cache)
      BY <1>1, <2>1
    <3> QED BY <1>3, <2>2, <3>1
  <2>4. ASSUME NEW j \in (Budget + 1)..(Len(live.cache) + k)
        PROVE cache[j] = j - 1 + model.evicted
    <3>1. CASE j <= Len(live.cache)
      <4>1. j \in 1..Len(live.cache) /\ j \in (Budget + 1)..Len(live.cache)
        BY <1>1, <3>1
      <4> QED BY <1>3, <2>2, <4>1
    <3>2. CASE ~(j <= Len(live.cache))
      <4>1. j \in (Len(live.cache) + 1)..(Len(live.cache) + k)
        BY <1>1, <3>2
      <4>2. cache[j] = live.pos + j - Len(live.cache) - 1
        BY <1>3, <4>1
      <4> QED BY <1>1, <1>2, <4>1, <4>2
    <3> QED BY <3>1, <3>2
  <2> QED BY <1>5, <2>3, <2>4 DEF cache
<1> QED BY <1>4, <1>5

LEMMA GrowsIsGood ==
  ASSUME Good(model, live), NEW k, Calls(k), Grows(k)
  PROVE Good(model', live')
<1> USE RkvAssumption
<1> k \in Nat \ {0}
  BY DEF Calls
<1>1. model \in ModelStates /\ live \in LiveStates /\ Len(live.positions) = Len(live.cache)
  BY DEF Good, Shaped
<1>2. /\ live.cache \in Seq(Nat) /\ live.positions \in Seq(Nat) /\ live.events \in Seq(Nat)
      /\ live.pos \in Nat /\ Len(live.cache) \in Nat
  BY <1>1 DEF LiveStates
<1> DEFINE cache == Grown(live.cache, k)
<1> DEFINE positions == Grown(live.positions, k)
<1>3. /\ cache \in Seq(Nat) /\ Len(cache) = Len(live.cache) + k
      /\ \A j \in 1..Len(live.cache) : cache[j] = live.cache[j]
      /\ \A j \in (Len(live.cache) + 1)..(Len(live.cache) + k) :
            cache[j] = live.pos + j - Len(live.cache) - 1
  BY <1>1, <1>2, GrownFacts
<1>4. positions \in Seq(Nat) /\ Len(positions) = Len(live.cache) + k
  BY <1>1, <1>2, GrownFacts
<1>5. model' = Counted(model, k) /\ live' = [live EXCEPT !.cache = cache, !.positions = positions, !.pos = @ + k]
  BY DEF Grows
<1>6. /\ live' \in LiveStates
      /\ live'.cache = cache /\ live'.positions = positions /\ live'.pos = live.pos + k
  <2>1. live.pos + k \in Nat
    BY <1>2
  <2> HIDE DEF cache, positions
  <2> QED BY <1>1, <1>3, <1>4, <1>5, <2>1 DEF LiveStates
<1>7. /\ model' \in ModelStates /\ model'.length = model.length + k
      /\ model'.compression = IF (model.length + k) % DivideLength = 0 THEN "true" ELSE "false"
      /\ model'.evicted = model.evicted /\ model'.kept = model.kept
      /\ model'.shuffled = model.shuffled
  BY <1>1, <1>5, CountedFacts
<1> HIDE DEF cache, positions
<1>8. Shaped(model', live')
  BY <1>2, <1>3, <1>4, <1>6, <1>7 DEF Good, Shaped
<1>9. Timed(model', live')
  <2>1. model.length \in Nat /\ model'.length # 0
    BY <1>1, <1>7 DEF ModelStates
  <2>2. Len(cache) <= Budget + ((model'.length - 1) % DivideLength)
    <3> DEFINE slack == (model'.length - 1) % DivideLength
    <3>1. slack \in 0..(DivideLength - 1)
      <4>1. model'.length - 1 \in Int
        BY <1>7, <2>1
      <4> QED BY <4>1, Remainder
    <3>2. CASE model.compression # "false"
      <4>1. Len(live.cache) + k < Budget
        BY <1>2, <3>2 DEF Grows, Fires, Attempts
      <4> HIDE DEF slack
      <4>2. Len(cache) <= Budget + slack
        BY <1>2, <1>3, <3>1, <4>1
      <4> QED BY <4>2 DEF slack
    <3>3. CASE model.compression = "false"
      <4>1. model.length # 0 /\ k = 1
        BY <3>3 DEF Good, Timed, Calls
      <4>2. model.length % DivideLength # 0
        BY <3>3, <4>1 DEF Good, Timed
      <4>3. Len(live.cache) <= Budget + ((model.length - 1) % DivideLength)
        BY <4>1 DEF Good, Timed
      <4>4. ((model.length - 1) % DivideLength) + 1 = model.length % DivideLength
        BY <2>1, <4>2, NoMultipleBetween
      <4>5. slack = model.length % DivideLength
        BY <1>7, <2>1, <4>1
      <4> DEFINE before == (model.length - 1) % DivideLength
      <4>6. before \in 0..(DivideLength - 1)
        <5>1. model.length - 1 \in Int
          BY <2>1
        <5> QED BY <5>1, Remainder
      <4>7. before + 1 = slack /\ Len(live.cache) <= Budget + before
        BY <4>3, <4>4, <4>5
      <4> HIDE DEF slack, before
      <4>8. Len(cache) <= Budget + slack
        BY <1>2, <1>3, <3>1, <4>1, <4>6, <4>7
      <4> QED BY <4>8 DEF slack
    <3> QED BY <3>2, <3>3
  <2> QED BY <1>6, <1>7, <2>1, <2>2 DEF Timed
<1>10. Named(model', live')
  <2> SUFFICES ASSUME ~model'.shuffled PROVE Named(model', live')
    BY DEF Named
  <2>1. ~model.shuffled
    BY <1>7
  <2>2. live.positions = live.cache /\ live.pos = Len(live.cache) + model.evicted
    BY <2>1 DEF Good, Named
  <2>3. positions = cache
    BY <2>2 DEF positions, cache
  <2>4. model.evicted \in Nat
    BY <1>1 DEF ModelStates
  <2>5. live'.pos = Len(cache) + model'.evicted
    BY <1>2, <1>3, <1>6, <1>7, <2>2, <2>4
  <2>6. CASE model.kept = << >>
    <3>1. \A j \in 1..Len(cache) : cache[j] = j - 1
      BY <1>3, <2>1, <2>6, FullFacts DEF cache
    <3> QED BY <1>6, <1>7, <2>3, <2>5, <2>6, <3>1 DEF Named
  <2>7. CASE model.kept # << >>
    <3>1. /\ \A j \in 1..Budget : cache[j] = model.kept[j]
          /\ \A j \in (Budget + 1)..Len(cache) : cache[j] = j - 1 + model.evicted
      BY <1>3, <2>1, <2>7, FullFacts DEF cache
    <3>2. /\ \A j \in 1..Budget : model.kept[j] < Budget + model.evicted
          /\ \A i, j \in 1..Budget : model.kept[i] = model.kept[j] => i = j
          /\ model.evicted = 0 => \A j \in 1..Budget : model.kept[j] = j - 1
      BY <2>1, <2>7 DEF Good, Named
    <3> QED BY <1>6, <1>7, <2>3, <2>5, <2>7, <3>1, <3>2 DEF Named
  <2> QED BY <2>6, <2>7
<1> QED BY <1>8, <1>9, <1>10 DEF Good

(* A compaction, and what a capture inside it sees.                          *)
KeepsOf(pre, m) ==
  ~m.shuffled =>
    /\ \A j \in 1..Len(pre) : pre[j] < Budget + m.evicted
    /\ m.evicted = 0 => Entries(pre) \subseteq Entries(m.kept)

LEMMA CompactsIsGood ==
  ASSUME Good(model, live), NEW k, Calls(k),
         NEW slots \in Survivors(Len(live.cache) + k), Compacts(k, slots)
  PROVE /\ Good(model', live')
        /\ model'.kept # << >>
        /\ ~model'.shuffled => Projected(k) = Grown(live.cache, k)
        /\ KeepsOf(Projected(k), model')
<1> USE RkvAssumption
<1> k \in Nat \ {0}
  BY DEF Calls
<1>1. model \in ModelStates /\ live \in LiveStates /\ Len(live.positions) = Len(live.cache)
  BY DEF Good, Shaped
<1>2. /\ live.cache \in Seq(Nat) /\ live.positions \in Seq(Nat) /\ live.events \in Seq(Nat)
      /\ live.pos \in Nat /\ Len(live.cache) \in Nat
      /\ model.evicted \in Nat /\ model.kept \in Seq(Nat)
  BY <1>1 DEF LiveStates, ModelStates
<1> DEFINE n == Len(live.cache) + k
<1> DEFINE full == Grown(live.cache, k)
<1> DEFINE kept == Recorded(slots)
<1> DEFINE cache == Gathered(full, slots)
<1>3. n \in Nat /\ n >= Budget
  BY <1>2 DEF Compacts, Fires
<1>4. /\ slots \in [1..Budget -> 1..n]
      /\ \A i, j \in 1..Budget : slots[i] = slots[j] => i = j
  BY <1>3, SurvivorFacts
<1>5. full \in Seq(Nat) /\ Len(full) = n
  BY <1>1, <1>2, GrownFacts
<1>6. cache \in [1..Budget -> Nat] /\ \A j \in 1..Budget : cache[j] = full[slots[j]]
  <2> HIDE DEF full
  <2>1. \A i \in 1..n : full[i] \in Nat
    BY <1>5
  <2>2. \A j \in 1..Budget : full[slots[j]] \in Nat
    BY <1>4, <2>1
  <2> QED BY <2>2 DEF Gathered
<1>7. cache \in Seq(Nat) /\ Len(cache) = Budget
  BY <1>6, FunctionIsSeq
<1>8. /\ kept \in [1..Budget -> Nat]
      /\ \A j \in 1..Budget :
            kept[j] = IF model.evicted = 0 THEN slots[j] - 1
                      ELSE IF slots[j] <= Budget THEN model.kept[slots[j]]
                      ELSE slots[j] - 1 + model.evicted
  <2>1. ASSUME NEW j \in 1..Budget
        PROVE (IF model.evicted = 0 THEN slots[j] - 1
               ELSE IF slots[j] <= Budget THEN model.kept[slots[j]]
               ELSE slots[j] - 1 + model.evicted) \in Nat
    <3>1. slots[j] \in 1..n
      BY <1>4
    <3>2. CASE model.evicted = 0 \/ ~(slots[j] <= Budget)
      BY <1>2, <1>3, <3>1, <3>2
    <3>3. CASE model.evicted # 0 /\ slots[j] <= Budget
      <4>1. Len(model.kept) = Budget
        BY <3>3 DEF Good, Shaped
      <4>2. slots[j] \in 1..Len(model.kept)
        BY <1>3, <3>1, <3>3, <4>1
      <4>3. \A i \in 1..Len(model.kept) : model.kept[i] \in Nat
        BY <1>2
      <4>4. model.kept[slots[j]] \in Nat
        BY <4>2, <4>3
      <4> QED BY <3>3, <4>4
    <3> QED BY <3>2, <3>3
  <2> QED BY <2>1 DEF Recorded
<1>9. kept \in Seq(Nat) /\ Len(kept) = Budget /\ kept # << >>
  <2>1. kept \in Seq(Nat) /\ Len(kept) = Budget
    BY <1>8, FunctionIsSeq
  <2> HIDE DEF kept
  <2>2. Budget # 0 /\ Len(<< >>) = 0
    OBVIOUS
  <2> QED BY <2>1, <2>2
<1>10. /\ model'.length = model.length + k
       /\ model'.compression = IF (model.length + k) % DivideLength = 0 THEN "true" ELSE "false"
       /\ model'.evicted = model.evicted + (n - Budget)
       /\ model'.kept = kept
       /\ model'.shuffled = (model.shuffled \/ (model.evicted + (n - Budget) = 0
                                                /\ slots # Identity(Budget)))
       /\ model' \in ModelStates
  <2> DEFINE c == Counted(model, k)
  <2> DEFINE mixed == model.shuffled \/ (model.evicted + (n - Budget) = 0 /\ slots # Identity(Budget))
  <2>1. /\ c \in ModelStates /\ c.length = model.length + k
        /\ c.compression = IF (model.length + k) % DivideLength = 0 THEN "true" ELSE "false"
        /\ c.evicted = model.evicted /\ c.kept = model.kept /\ c.shuffled = model.shuffled
    BY <1>1, CountedFacts
  <2>2. model' = [c EXCEPT !.evicted = @ + (n - Budget), !.kept = kept,
                           !.shuffled = @ \/ (model.evicted + (n - Budget) = 0
                                              /\ slots # Identity(Budget))]
    <3> DEFINE removed == Len(live.cache) + k - Budget
    <3>1. model' = [c EXCEPT !.evicted = @ + removed, !.kept = kept,
                             !.shuffled = @ \/ (model.evicted + removed = 0
                                                /\ slots # Identity(Budget))]
      BY Zenon DEF Compacts
    <3>2. removed = n - Budget
      BY <1>2
    <3> HIDE DEF removed, n
    <3> QED BY <3>1, <3>2
  <2>3. model.evicted + (n - Budget) \in Nat
    BY <1>2, <1>3
  <2> HIDE DEF c, n, kept
  <2>4. model.shuffled \in BOOLEAN
    BY <1>1 DEF ModelStates
  <2> QED BY <1>9, <2>1, <2>2, <2>3, <2>4 DEF ModelStates
<1>11. /\ live'.cache = cache /\ live'.positions = kept /\ live'.pos = live.pos + k
       /\ live' \in LiveStates
  <2>1. live' = [cache |-> cache, positions |-> kept, events |-> Append(live.events, live.pos + k),
                 pos |-> live.pos + k]
    BY DEF Compacts
  <2>2. live.pos + k \in Nat /\ Append(live.events, live.pos + k) \in Seq(Nat)
    BY <1>2
  <2> HIDE DEF cache, kept
  <2> QED BY <1>7, <1>9, <2>1, <2>2 DEF LiveStates
<1> HIDE DEF n, full, kept, cache
<1>12. Shaped(model', live')
  <2>1. Budget <= Len(live'.cache)
    BY <1>7, <1>11
  <2> QED BY <1>7, <1>9, <1>10, <1>11, <2>1 DEF Shaped
<1>13. Timed(model', live')
  <2>1. model.length \in Nat /\ model'.length # 0 /\ model'.length - 1 \in Int
    BY <1>1, <1>10 DEF ModelStates
  <2> DEFINE slack == (model'.length - 1) % DivideLength
  <2>2. slack \in 0..(DivideLength - 1)
    BY <2>1, Remainder
  <2> HIDE DEF slack
  <2>3. Len(live'.cache) <= Budget + slack
    BY <1>7, <1>11, <2>2
  <2> QED BY <1>10, <2>1, <2>3 DEF Timed, slack
<1>14. ASSUME ~model'.shuffled
       PROVE /\ ~model.shuffled
             /\ live.positions = live.cache /\ live.pos + k = Budget + model'.evicted
             /\ \A j \in 1..n : full[j] = IF model.evicted = 0 THEN j - 1
                                        ELSE IF j <= Budget THEN model.kept[j]
                                        ELSE j - 1 + model.evicted
             /\ \A j \in 1..n : full[j] < Budget + model'.evicted
             /\ \A i, j \in 1..n : full[i] = full[j] => i = j
             /\ model'.evicted = 0 => /\ n = Budget /\ model.evicted = 0
                                      /\ \A j \in 1..Budget : slots[j] = j
  <2>1. ~model.shuffled
    BY <1>10, <1>14
  <2>2. live.positions = live.cache /\ live.pos = Len(live.cache) + model.evicted
    BY <2>1 DEF Good, Named
  <2>3. live.pos + k = Budget + model'.evicted
    BY <1>2, <1>10, <2>2 DEF n
  <2>4. ASSUME NEW j \in 1..n
        PROVE /\ full[j] = IF model.evicted = 0 THEN j - 1
                           ELSE IF j <= Budget THEN model.kept[j]
                           ELSE j - 1 + model.evicted
              /\ j <= Budget => full[j] < Budget + model.evicted
    <3>1. CASE model.kept = << >>
      <4>1. model.evicted = 0 /\ full[j] = j - 1
        BY <2>1, <3>1, FullFacts DEF n, full
      <4> QED BY <1>3, <4>1
    <3>2. CASE model.kept # << >>
      <4>1. /\ \A i \in 1..Budget : model.kept[i] < Budget + model.evicted
            /\ model.evicted = 0 => \A i \in 1..Budget : model.kept[i] = i - 1
        BY <2>1, <3>2 DEF Good, Named
      <4>2. CASE j <= Budget
        <5>1. j \in 1..Budget
          BY <1>3, <4>2
        <5>2. full[j] = model.kept[j]
          BY <2>1, <3>2, <5>1, FullFacts DEF full
        <5> QED BY <4>1, <4>2, <5>1, <5>2
      <4>3. CASE ~(j <= Budget)
        <5>1. j \in (Budget + 1)..(Len(live.cache) + k)
          BY <1>2, <1>3, <4>3 DEF n
        <5>2. full[j] = j - 1 + model.evicted
          BY <2>1, <3>2, <5>1, FullFacts DEF full
        <5> QED BY <1>2, <1>3, <4>3, <5>2
      <4> QED BY <4>2, <4>3
    <3> QED BY <3>1, <3>2
  <2>5. ASSUME NEW j \in 1..n PROVE full[j] < Budget + model'.evicted
    <3>1. full[j] \in Nat
      <4>1. \A i \in 1..Len(full) : full[i] \in Nat
        BY <1>5
      <4> QED BY <1>5, <4>1
    <3>2. CASE j <= Budget
      BY <1>2, <1>3, <1>10, <2>4, <3>1, <3>2
    <3>3. CASE ~(j <= Budget)
      <4>1. full[j] = j - 1 + model.evicted
        <5>1. CASE model.evicted = 0
          <6>1. full[j] = j - 1
            BY <2>4, <5>1
          <6> QED BY <1>3, <5>1, <6>1
        <5>2. CASE model.evicted # 0
          BY <2>4, <3>3, <5>2
        <5> QED BY <5>1, <5>2
      <4>2. model'.evicted = model.evicted + (n - Budget)
        BY <1>10
      <4> QED BY <1>2, <1>3, <4>1, <4>2
    <3> QED BY <3>2, <3>3
  <2>6. ASSUME NEW i \in 1..n, NEW j \in 1..n, full[i] = full[j] PROVE i = j
    <3>1. CASE model.evicted = 0
      BY <1>3, <2>4, <2>6, <3>1
    <3>2. CASE model.evicted # 0
      <4>1. model.kept # << >>
        BY <3>2 DEF Good, Shaped
      <4>2. \A x, y \in 1..Budget : model.kept[x] = model.kept[y] => x = y
        BY <2>1, <4>1 DEF Good, Named
      <4>3. CASE i <= Budget /\ j <= Budget
        <5>1. i \in 1..Budget /\ j \in 1..Budget
          BY <1>3, <4>3
        <5>2. full[i] = model.kept[i] /\ full[j] = model.kept[j]
          BY <2>4, <3>2, <4>3
        <5> QED BY <2>6, <4>2, <5>1, <5>2
      <4>4. CASE ~(i <= Budget) /\ ~(j <= Budget)
        <5>1. full[i] = i - 1 + model.evicted /\ full[j] = j - 1 + model.evicted
          BY <2>4, <3>2, <4>4
        <5>2. i - 1 + model.evicted = j - 1 + model.evicted
          BY <2>6, <5>1
        <5>3. model.evicted \in Nat /\ i \in Int /\ j \in Int
          BY <1>2, <1>3
        <5> QED BY <5>2, <5>3
      <4>5. CASE i <= Budget /\ ~(j <= Budget)
        <5>1. full[i] < Budget + model.evicted /\ full[j] = j - 1 + model.evicted
          BY <2>4, <3>2, <4>5
        <5> QED BY <1>2, <1>3, <2>6, <4>5, <5>1
      <4>6. CASE ~(i <= Budget) /\ j <= Budget
        <5>1. full[j] < Budget + model.evicted /\ full[i] = i - 1 + model.evicted
          BY <2>4, <3>2, <4>6
        <5> QED BY <1>2, <1>3, <2>6, <4>6, <5>1
      <4> QED BY <4>3, <4>4, <4>5, <4>6
    <3> QED BY <3>1, <3>2
  <2>7. ASSUME model'.evicted = 0
        PROVE /\ n = Budget /\ model.evicted = 0
              /\ \A j \in 1..Budget : slots[j] = j
    <3>1. n = Budget /\ model.evicted = 0
      BY <1>2, <1>3, <1>10, <2>7
    <3>2. slots = Identity(Budget)
      BY <1>10, <1>14, <2>7
    <3> QED BY <3>1, <3>2 DEF Identity
  <2> QED BY <2>1, <2>2, <2>3, <2>4, <2>5, <2>6, <2>7
<1>15. ASSUME ~model'.shuffled PROVE \A j \in 1..Budget : kept[j] = full[slots[j]]
  <2>1. \A j \in 1..n : full[j] = IF model.evicted = 0 THEN j - 1
                                ELSE IF j <= Budget THEN model.kept[j]
                                ELSE j - 1 + model.evicted
    BY <1>14, <1>15
  <2> QED BY <1>4, <1>8, <2>1
<1>16. Named(model', live')
  <2> SUFFICES ASSUME ~model'.shuffled PROVE Named(model', live')
    BY DEF Named
  <2>1. \A j \in 1..Budget : cache[j] = kept[j]
    BY <1>6, <1>15
  <2>2. cache = kept
    BY <1>7, <1>9, <2>1, SeqsEqual
  <2>3. live'.pos = Len(cache) + model'.evicted
    BY <1>7, <1>11, <1>14
  <2>4. ASSUME NEW j \in 1..Budget PROVE kept[j] < Budget + model'.evicted
    <3>1. slots[j] \in 1..n
      BY <1>4
    <3> QED BY <1>14, <1>15, <3>1
  <2>5. ASSUME NEW i \in 1..Budget, NEW j \in 1..Budget, kept[i] = kept[j] PROVE i = j
    <3>1. slots[i] \in 1..n /\ slots[j] \in 1..n
      BY <1>4
    <3>2. full[slots[i]] = full[slots[j]]
      BY <1>15, <2>5
    <3>3. slots[i] = slots[j]
      BY <1>14, <3>1, <3>2
    <3> QED BY <1>4, <3>3
  <2>6. ASSUME model'.evicted = 0, NEW j \in 1..Budget PROVE kept[j] = j - 1
    <3>1. slots[j] = j /\ model.evicted = 0
      BY <1>14, <2>6
    <3> QED BY <1>8, <3>1
  <2>7. (Budget + 1)..Len(cache) = {}
    BY <1>7
  <2> QED BY <1>7, <1>9, <1>10, <1>11, <2>1, <2>2, <2>3, <2>4, <2>5, <2>6, <2>7 DEF Named
<1>17. ~model'.shuffled => Projected(k) = full
  BY <1>14 DEF Projected, full
<1>18. KeepsOf(Projected(k), model')
  <2> SUFFICES ASSUME ~model'.shuffled
               PROVE /\ \A j \in 1..Len(full) : full[j] < Budget + model'.evicted
                     /\ model'.evicted = 0 => Entries(full) \subseteq Entries(model'.kept)
    BY <1>17 DEF KeepsOf
  <2>1. \A j \in 1..Len(full) : full[j] < Budget + model'.evicted
    BY <1>5, <1>14
  <2>2. ASSUME model'.evicted = 0, NEW j \in 1..Len(full) PROVE full[j] \in Entries(kept)
    <3>1. j \in 1..Budget /\ slots[j] = j
      BY <1>5, <1>14, <2>2
    <3>2. full[j] = kept[j]
      BY <1>15, <3>1
    <3> QED BY <1>9, <3>1, <3>2 DEF Entries
  <2> QED BY <1>10, <2>1, <2>2 DEF Entries
<1>19. Good(model', live')
  BY <1>12, <1>13, <1>16 DEF Good
<1> QED BY <1>9, <1>10, <1>17, <1>18, <1>19 DEF full

LEMMA ForwardIsGood ==
  ASSUME Good(model, live), NEW k, Calls(k), Forward(k)
  PROVE Good(model', live')
<1>1. CASE Grows(k)
  BY <1>1, GrowsIsGood
<1>2. ASSUME NEW slots \in Survivors(Len(live.cache) + k), Compacts(k, slots)
      PROVE Good(model', live')
  BY <1>2, CompactsIsGood
<1> QED BY <1>1, <1>2 DEF Forward

-----------------------------------------------------------------------------
(* The tokens of a cache are different ones.                                 *)
LEMMA GoodTokensDiffer ==
  ASSUME NEW m, NEW l, Good(m, l), ~m.shuffled,
         NEW i \in 1..Len(l.cache), NEW j \in 1..Len(l.cache), l.cache[i] = l.cache[j]
  PROVE i = j
<1> USE RkvAssumption
<1>1. m.evicted \in Nat /\ Len(l.cache) \in Nat
  BY DEF Good, Shaped, ModelStates, LiveStates
<1>2. CASE m.kept = << >>
  <2>1. l.cache[i] = i - 1 /\ l.cache[j] = j - 1
    BY <1>2 DEF Good, Named
  <2>2. i - 1 = j - 1
    BY <2>1, Zenon
  <2>3. i \in Int /\ j \in Int
    BY <1>1
  <2> QED BY <2>2, <2>3
<1>3. CASE m.kept # << >>
  <2>1. /\ \A x \in 1..Budget : l.cache[x] = m.kept[x] /\ m.kept[x] < Budget + m.evicted
        /\ \A x \in (Budget + 1)..Len(l.cache) : l.cache[x] = x - 1 + m.evicted
        /\ \A x, y \in 1..Budget : m.kept[x] = m.kept[y] => x = y
    BY <1>3 DEF Good, Named
  <2>2. CASE i <= Budget /\ j <= Budget
    <3>1. i \in 1..Budget /\ j \in 1..Budget
      BY <1>1, <2>2
    <3>2. m.kept[i] = m.kept[j]
      BY <2>1, <3>1
    <3> QED BY <2>1, <3>1, <3>2
  <2>3. CASE ~(i <= Budget) /\ ~(j <= Budget)
    <3>1. i \in (Budget + 1)..Len(l.cache) /\ j \in (Budget + 1)..Len(l.cache)
      BY <1>1, <2>3
    <3>2. i - 1 + m.evicted = j - 1 + m.evicted
      BY <2>1, <3>1
    <3> QED BY <1>1, <3>1, <3>2
  <2>4. CASE i <= Budget /\ ~(j <= Budget)
    <3>1. i \in 1..Budget /\ j \in (Budget + 1)..Len(l.cache)
      BY <1>1, <2>4
    <3>2. l.cache[i] < Budget + m.evicted /\ l.cache[j] = j - 1 + m.evicted
      BY <2>1, <3>1
    <3> QED BY <1>1, <3>1, <3>2
  <2>5. CASE ~(i <= Budget) /\ j <= Budget
    <3>1. j \in 1..Budget /\ i \in (Budget + 1)..Len(l.cache)
      BY <1>1, <2>5
    <3>2. l.cache[j] < Budget + m.evicted /\ l.cache[i] = i - 1 + m.evicted
      BY <2>1, <3>1
    <3> QED BY <1>1, <3>1, <3>2
  <2> QED BY <2>2, <2>3, <2>4, <2>5
<1> QED BY <1>2, <1>3

(* What a swap may put where: a token of the right name, in the slot that    *)
(* already holds it or, if it was evicted, in any of those just kept.        *)
Fits(m, slot, contents, label) ==
  /\ slot \in 1..Budget
  /\ contents \in Nat
  /\ label \in Nat
  /\ ~m.shuffled =>
       /\ contents = label
       /\ label < Budget + m.evicted
       /\ label = m.kept[slot] \/ (label \notin Entries(m.kept) /\ m.evicted # 0)

LEMMA SwapIsGood ==
  ASSUME NEW s, Good(s.model, s.live), s.model.kept # << >>,
         NEW slot, NEW contents, NEW label, Fits(s.model, slot, contents, label)
  PROVE Good(Swapped(s, slot, contents, label).model, Swapped(s, slot, contents, label).live)
<1> USE RkvAssumption
<1> DEFINE m == s.model
<1> DEFINE l == s.live
<1> DEFINE kept == [m.kept EXCEPT ![slot] = label]
<1> DEFINE cache == [l.cache EXCEPT ![slot] = contents]
<1> DEFINE positions == [l.positions EXCEPT ![slot] = label]
<1> DEFINE mm == [m EXCEPT !.kept = kept]
<1> DEFINE ll == [l EXCEPT !.cache = cache, !.positions = positions]
<1>1. Swapped(s, slot, contents, label).model = mm /\ Swapped(s, slot, contents, label).live = ll
  BY DEF Swapped
<1>2. /\ m \in ModelStates /\ l \in LiveStates /\ Len(l.positions) = Len(l.cache)
      /\ Len(m.kept) = Budget /\ Budget <= Len(l.cache)
  BY DEF Good, Shaped
<1>3. /\ m.kept \in Seq(Nat) /\ l.cache \in Seq(Nat) /\ l.positions \in Seq(Nat)
      /\ m.evicted \in Nat /\ Len(l.cache) \in Nat
  BY <1>2 DEF ModelStates, LiveStates
<1>4. /\ slot \in 1..Budget /\ slot \in 1..Len(m.kept) /\ slot \in 1..Len(l.cache)
      /\ slot \in 1..Len(l.positions) /\ contents \in Nat /\ label \in Nat
  BY <1>2, <1>3 DEF Fits
<1>r. ASSUME NEW map \in Seq(Nat), slot \in 1..Len(map), NEW entry \in Nat
      PROVE /\ [map EXCEPT ![slot] = entry] \in Seq(Nat)
            /\ Len([map EXCEPT ![slot] = entry]) = Len(map)
            /\ [map EXCEPT ![slot] = entry][slot] = entry
            /\ \A j \in 1..Len(map) : j # slot => [map EXCEPT ![slot] = entry][j] = map[j]
  BY <1>r
<1>5. /\ kept \in Seq(Nat) /\ Len(kept) = Budget /\ kept[slot] = label
      /\ \A j \in 1..Budget : j # slot => kept[j] = m.kept[j]
  <2> HIDE DEF l, m
  <2>1. m.kept \in Seq(Nat) /\ slot \in 1..Len(m.kept) /\ label \in Nat
    BY <1>3, <1>4
  <2>2. /\ kept \in Seq(Nat) /\ Len(kept) = Len(m.kept) /\ kept[slot] = label
        /\ \A j \in 1..Len(m.kept) : j # slot => kept[j] = m.kept[j]
    BY <2>1, <1>r, Zenon
  <2> QED BY <1>2, <2>2, Zenon
<1>6. /\ cache \in Seq(Nat) /\ Len(cache) = Len(l.cache) /\ cache[slot] = contents
      /\ \A j \in 1..Len(l.cache) : j # slot => cache[j] = l.cache[j]
  <2> HIDE DEF l, m
  <2>1. l.cache \in Seq(Nat) /\ slot \in 1..Len(l.cache) /\ contents \in Nat
    BY <1>3, <1>4
  <2> QED BY <2>1, <1>r, Zenon
<1>7. positions \in Seq(Nat) /\ Len(positions) = Len(l.cache)
  <2> HIDE DEF l, m
  <2>1. l.positions \in Seq(Nat) /\ slot \in 1..Len(l.positions) /\ label \in Nat
    BY <1>3, <1>4
  <2>2. positions \in Seq(Nat) /\ Len(positions) = Len(l.positions)
    BY <2>1, <1>r, Zenon
  <2> QED BY <1>2, <2>2, Zenon
<1>8. kept # << >>
  <2> HIDE DEF kept
  <2>1. Budget # 0 /\ Len(<< >>) = 0
    OBVIOUS
  <2> QED BY <1>5, <2>1
<1> HIDE DEF m, l, kept, cache, positions
<1>9. /\ mm \in ModelStates /\ mm.kept = kept /\ mm.length = m.length
      /\ mm.compression = m.compression /\ mm.evicted = m.evicted /\ mm.shuffled = m.shuffled
  BY <1>2, <1>5 DEF ModelStates
<1>10. /\ ll \in LiveStates /\ ll.cache = cache /\ ll.positions = positions /\ ll.pos = l.pos
  BY <1>2, <1>6, <1>7 DEF LiveStates
<1> HIDE DEF mm, ll
<1>11. Shaped(mm, ll)
  BY <1>2, <1>5, <1>6, <1>7, <1>8, <1>9, <1>10 DEF Shaped
<1>12. Timed(mm, ll)
  <2>1. Timed(m, l)
    BY DEF Good, m, l
  <2>2. m.length # 0
    <3>1. CASE m.length = 0
      <4>1. l.cache = << >>
        BY <2>1, <3>1 DEF Timed
      <4>2. Len(l.cache) = 0
        BY <4>1
      <4> QED BY <1>2, <4>2
    <3> QED BY <3>1
  <2> QED BY <1>6, <1>9, <1>10, <2>1, <2>2 DEF Timed
<1>13. Named(mm, ll)
  <2> SUFFICES ASSUME ~m.shuffled PROVE Named(mm, ll)
    BY <1>9 DEF Named
  <2>1. /\ contents = label /\ label < Budget + m.evicted
        /\ label = m.kept[slot] \/ (label \notin Entries(m.kept) /\ m.evicted # 0)
    BY DEF Fits, m
  <2>2. /\ l.positions = l.cache
        /\ l.pos = Len(l.cache) + m.evicted
        /\ \A j \in 1..Budget : l.cache[j] = m.kept[j] /\ m.kept[j] < Budget + m.evicted
        /\ \A j \in (Budget + 1)..Len(l.cache) : l.cache[j] = j - 1 + m.evicted
        /\ \A i, j \in 1..Budget : m.kept[i] = m.kept[j] => i = j
        /\ m.evicted = 0 => \A j \in 1..Budget : m.kept[j] = j - 1
    BY DEF Good, Named, m, l
  <2>3. positions = cache
    BY <2>1, <2>2 DEF positions, cache
  <2>4. ASSUME NEW j \in 1..Budget PROVE cache[j] = kept[j] /\ kept[j] < Budget + m.evicted
    <3>1. j \in 1..Len(l.cache)
      BY <1>2, <1>3
    <3>2. CASE j = slot
      BY <1>5, <1>6, <2>1, <3>2
    <3>3. CASE j # slot
      <4>1. cache[j] = l.cache[j] /\ kept[j] = m.kept[j]
        BY <1>5, <1>6, <3>1, <3>3
      <4> QED BY <2>2, <4>1
    <3> QED BY <3>2, <3>3
  <2>5. ASSUME NEW j \in (Budget + 1)..Len(cache) PROVE cache[j] = j - 1 + m.evicted
    <3>1. j \in 1..Len(l.cache) /\ j # slot /\ j \in (Budget + 1)..Len(l.cache)
      BY <1>3, <1>4, <1>6
    <3>2. cache[j] = l.cache[j]
      BY <1>6, <3>1
    <3> QED BY <2>2, <3>1, <3>2
  <2>6. ASSUME NEW i \in 1..Budget, NEW j \in 1..Budget, kept[i] = kept[j] PROVE i = j
    <3>1. \A x \in 1..Budget : x # slot => m.kept[x] # label
      <4> SUFFICES ASSUME NEW x \in 1..Budget, x # slot PROVE m.kept[x] # label
        OBVIOUS
      <4>1. CASE label = m.kept[slot]
        BY <1>4, <2>2, <4>1
      <4>2. CASE label \notin Entries(m.kept)
        <5>1. x \in 1..Len(m.kept)
          BY <1>2
        <5> QED BY <4>2, <5>1 DEF Entries
      <4> QED BY <2>1, <4>1, <4>2
    <3>2. CASE i # slot /\ j # slot
      BY <1>5, <2>2, <2>6, <3>2
    <3>3. CASE i = slot /\ j # slot
      BY <1>5, <2>6, <3>1, <3>3
    <3>4. CASE i # slot /\ j = slot
      BY <1>5, <2>6, <3>1, <3>4
    <3> QED BY <3>2, <3>3, <3>4
  <2>7. ASSUME m.evicted = 0, NEW j \in 1..Budget PROVE kept[j] = j - 1
    <3>1. label = m.kept[slot]
      BY <2>1, <2>7
    <3>2. kept[j] = m.kept[j]
      BY <1>5, <3>1
    <3> QED BY <2>2, <2>7, <3>2
  <2> QED BY <1>6, <1>8, <1>9, <1>10, <2>2, <2>3, <2>4, <2>5, <2>6, <2>7 DEF Named
<1>14. Good(mm, ll)
  BY <1>11, <1>12, <1>13 DEF Good
<1> QED BY <1>1, <1>14

-----------------------------------------------------------------------------
(* The inductive invariant.  What Pass 1 hands to the plan, Pass 2 to the    *)
(* conversion and the conversion to the branches is what makes a swapped     *)
(* cache a good one again.                                                   *)
Records == { s \in Seq(Nat) : Len(s) = Budget }

ObservedEvents == [position : Nat, pre : Seq(Nat), kept : Records]

TraceOK ==
  /\ trace = [prompt |-> trace.prompt, total |-> trace.total, events |-> trace.events]
  /\ trace.prompt \in Nat /\ trace.total \in Nat
  /\ at # "prefill1" => trace.prompt # 0
  /\ at \in {"prefill1", "pass1", "planning"} => trace.events \in Seq(ObservedEvents)

PlanOK ==
  at \in {"reset", "prefill2", "pass2", "compact", "pairs", "branch"} =>
    /\ plan.kept \in Records
    /\ plan.candidate \in Nat /\ plan.candidate \notin Entries(plan.kept)
    /\ plan.donor \in Entries(plan.kept)

(* A compaction as Pass 2 captured it, and the snapshot taken after it.      *)
Faithful(capture, m) ==
  /\ m.kept # << >>
  /\ capture.observed = m.kept
  /\ capture.pre \in Seq(Nat) /\ capture.contents \in Seq(Nat)
  /\ Len(capture.pre) = Len(capture.contents)
  /\ ~m.shuffled => capture.pre = capture.contents
  /\ KeepsOf(capture.pre, m)

ReplayOK ==
  replay.capture # None =>
    /\ Good(replay.snapshot.model, replay.snapshot.live)
    /\ replay.capture.fired => Faithful(replay.capture, replay.snapshot.model)

TargetOK ==
  at \in {"pairs", "branch"} =>
    LET s == target.snapshot
    IN /\ Good(s.model, s.live)
       /\ s.model.kept # << >>
       /\ Fits(s.model, target.slot, target.candidate.contents, target.candidate.label)
       /\ Fits(s.model, target.slot, target.donor.contents, target.donor.label)

BranchOK ==
  /\ branch = None \/ branch \in [ordinal : 1..4, fed : Nat]
  /\ at = "branch" => branch # None

Places == {"prefill1", "pass1", "planning", "reset", "prefill2", "pass2", "compact",
           "pairs", "branch"} \cup Ended

CaptureInv ==
  /\ at \in Places
  /\ Good(model, live)
  /\ at \in {"prefill1", "prefill2"} => model = FreshModel /\ live = EmptyState
  /\ at = "compact" => ReplayAgrees
  /\ TraceOK
  /\ PlanOK
  /\ ReplayOK
  /\ TargetOK
  /\ BranchOK

-----------------------------------------------------------------------------
(* A nonempty set of slots has a first one.                                  *)
LEMMA FirstIsOne ==
  ASSUME NEW S \in SUBSET Nat, S # {}
  PROVE First(S) \in S
<1> DEFINE R == OpToRel(<, Nat)
<1>1. IsWellFoundedOn(R, Nat)
  BY NatLessThanWellFounded
<1>2. \A x, y \in Nat : x < y => <<x, y>> \in R
  BY DEF OpToRel
<1> HIDE DEF R
<1>3. PICK j \in S : \A i \in S : ~(<<i, j>> \in R)
  BY <1>1, WFMin
<1>4. ASSUME NEW i \in S PROVE j <= i
  <2>1. ~(<<i, j>> \in R)
    BY <1>3
  <2>2. i \in Nat /\ j \in Nat
    OBVIOUS
  <2>3. ~(i < j)
    BY <1>2, <2>1, <2>2, Zenon
  <2> QED BY <2>2, <2>3
<1> QED BY <1>4 DEF First

(* What Pass 1 notes of a call.                                              *)
LEMMA ObservedIsTyped ==
  ASSUME Good(model, live), NEW k, Calls(k), Forward(k), NEW events \in Seq(ObservedEvents)
  PROVE Observed(events, k) \in Seq(ObservedEvents)
<1> k \in Nat \ {0}
  BY DEF Calls
<1>1. CASE Fires(k)
  <2>1. PICK slots \in Survivors(Len(live.cache) + k) : Compacts(k, slots)
    BY <1>1 DEF Forward, Grows
  <2>2. model'.kept \in Records
    BY <2>1, CompactsIsGood DEF Good, Shaped, ModelStates, Records
  <2>3. Projected(k) \in Seq(Nat)
    BY GrownFacts DEF Projected, Good, Shaped, LiveStates
  <2>4. live.pos + k - 1 \in Nat
    BY DEF Good, Shaped, LiveStates
  <2> DEFINE event == [position |-> live.pos + k - 1, pre |-> Projected(k), kept |-> model'.kept]
  <2>5. event \in ObservedEvents
    BY <2>2, <2>3, <2>4 DEF ObservedEvents
  <2>6. Observed(events, k) = Append(events, event)
    BY <1>1 DEF Observed
  <2> HIDE DEF event
  <2> QED BY <2>5, <2>6
<1>2. CASE ~Fires(k)
  BY <1>2 DEF Observed
<1> QED BY <1>1, <1>2

LEMMA InitKeeps == Init => CaptureInv
<1> SUFFICES ASSUME Init PROVE CaptureInv
  OBVIOUS
<1>1. Good(model, live)
  BY FreshIsGood DEF Init
<1>2. << >> \in Seq(ObservedEvents)
  OBVIOUS
<1>3. TraceOK
  BY <1>2 DEF Init, TraceOK
<1> QED BY <1>1, <1>3 DEF Init, CaptureInv, Places, PlanOK, ReplayOK, TargetOK, BranchOK

LEMMA PrefillPass1Keeps ==
  ASSUME CaptureInv, PrefillPass1
  PROVE CaptureInv'
<1> USE PlanAssumption
<1>1. PICK prompt \in PromptLengths :
        Forward(prompt) /\ trace' = [trace EXCEPT !.prompt = prompt, !.events = Observed(@, prompt)]
  BY DEF PrefillPass1
<1>2. at = "prefill1" /\ at' = "pass1" /\ UNCHANGED <<plan, replay, target, branch>>
  BY DEF PrefillPass1, GoesTo
<1>3. prompt \in Nat \ {0}
  OBVIOUS
<1>4. Good(model, live) /\ Calls(prompt)
  BY <1>2, <1>3 DEF CaptureInv, Calls, FreshModel
<1>5. Good(model', live')
  BY <1>1, <1>4, ForwardIsGood
<1>6. Good(model, live)'
  BY <1>5
<1>7. TraceOK'
  <2>1. trace.events \in Seq(ObservedEvents)
    BY <1>2 DEF CaptureInv, TraceOK
  <2>2. Observed(trace.events, prompt) \in Seq(ObservedEvents)
    BY <1>1, <1>4, <2>1, ObservedIsTyped
  <2>3. /\ trace = [prompt |-> trace.prompt, total |-> trace.total, events |-> trace.events]
        /\ trace.total \in Nat
    BY DEF CaptureInv, TraceOK
  <2> DEFINE seen == Observed(trace.events, prompt)
  <2>4. trace' = [prompt |-> prompt, total |-> trace.total, events |-> seen]
    BY <1>1, <2>3
  <2> HIDE DEF seen
  <2>5. trace'.prompt = prompt /\ trace'.total = trace.total /\ trace'.events = seen
    BY <2>4
  <2>6. seen \in Seq(ObservedEvents)
    BY <2>2 DEF seen
  <2> QED BY <1>3, <2>3, <2>4, <2>5, <2>6 DEF TraceOK
<1> QED BY <1>2, <1>6, <1>7 DEF CaptureInv, Places, PlanOK, ReplayOK, TargetOK, BranchOK

LEMMA DecodePass1Keeps ==
  ASSUME CaptureInv, DecodePass1
  PROVE CaptureInv'
<1>1. /\ at = "pass1" /\ Forward(1) /\ trace' = [trace EXCEPT !.events = Observed(@, 1)]
      /\ UNCHANGED <<at, plan, replay, target, branch>>
  BY DEF DecodePass1
<1>2. Good(model, live) /\ Calls(1)
  BY DEF CaptureInv, Calls
<1>3. Good(model, live)'
  BY <1>1, <1>2, ForwardIsGood
<1>4. TraceOK'
  <2>1. trace.events \in Seq(ObservedEvents)
    BY <1>1 DEF CaptureInv, TraceOK
  <2> DEFINE seen == Observed(trace.events, 1)
  <2>2. seen \in Seq(ObservedEvents)
    BY <1>1, <1>2, <2>1, ObservedIsTyped
  <2>3. /\ trace = [prompt |-> trace.prompt, total |-> trace.total, events |-> trace.events]
        /\ trace.total \in Nat /\ trace.prompt \in Nat /\ trace.prompt # 0
    BY <1>1 DEF CaptureInv, TraceOK
  <2>4. trace' = [prompt |-> trace.prompt, total |-> trace.total, events |-> seen]
    BY <1>1, <2>3
  <2> HIDE DEF seen
  <2>5. trace'.prompt = trace.prompt /\ trace'.total = trace.total /\ trace'.events = seen
    BY <2>4
  <2> QED BY <1>1, <2>2, <2>3, <2>4, <2>5 DEF TraceOK
<1> QED BY <1>1, <1>3, <1>4 DEF CaptureInv, Places, PlanOK, ReplayOK, TargetOK, BranchOK

LEMMA StopPass1Keeps ==
  ASSUME CaptureInv, NEW next \in {"planning", "dropped"}, StopPass1(next)
  PROVE CaptureInv'
<1>1. /\ at = "pass1" /\ at' = next /\ trace' = [trace EXCEPT !.total = live.pos]
      /\ UNCHANGED <<model, live, plan, replay, target, branch>>
  BY DEF StopPass1, GoesTo
<1>2. Good(model, live)'
  BY <1>1 DEF CaptureInv
<1>3. live.pos \in Nat
  BY DEF CaptureInv, Good, Shaped, LiveStates
<1>4. TraceOK'
  <2>1. /\ trace = [prompt |-> trace.prompt, total |-> trace.total, events |-> trace.events]
        /\ trace.prompt \in Nat /\ trace.prompt # 0 /\ trace.events \in Seq(ObservedEvents)
    BY <1>1 DEF CaptureInv, TraceOK
  <2>2. trace' = [prompt |-> trace.prompt, total |-> live.pos, events |-> trace.events]
    BY <1>1, <2>1
  <2>3. trace'.prompt = trace.prompt /\ trace'.total = live.pos /\ trace'.events = trace.events
    BY <2>2
  <2> QED BY <1>3, <2>1, <2>2, <2>3 DEF TraceOK
<1> QED BY <1>1, <1>2, <1>4 DEF CaptureInv, Places, Ended, PlanOK, ReplayOK, TargetOK, BranchOK

LEMMA BuildPlanKeeps ==
  ASSUME CaptureInv, BuildPlan
  PROVE CaptureInv'
<1> USE RkvAssumption
<1>1. /\ at = "planning" /\ at' = "reset" /\ trace' = [trace EXCEPT !.events = EventPositions]
      /\ UNCHANGED <<model, live, replay, target, branch>>
  BY DEF BuildPlan, GoesTo
<1>2. Good(model, live)'
  BY <1>1 DEF CaptureInv
<1>3. TraceOK'
  <2>1. /\ trace = [prompt |-> trace.prompt, total |-> trace.total, events |-> trace.events]
        /\ trace.prompt \in Nat /\ trace.prompt # 0 /\ trace.total \in Nat
    BY <1>1 DEF CaptureInv, TraceOK
  <2> DEFINE positions == EventPositions
  <2>2. trace' = [prompt |-> trace.prompt, total |-> trace.total, events |-> positions]
    BY <1>1, <2>1
  <2> HIDE DEF positions
  <2>3. trace'.prompt = trace.prompt /\ trace'.total = trace.total /\ trace'.events = positions
    BY <2>2
  <2> QED BY <1>1, <2>1, <2>2, <2>3 DEF TraceOK
<1>4. PlanOK'
  <2>1. PICK i \in EligibleEvents :
          \E candidate \in EvictedPool(trace.events[i]), donor \in RetainedPool(trace.events[i]) :
             plan' = [position |-> trace.events[i].position, kept |-> trace.events[i].kept,
                      candidate |-> candidate, donor |-> donor]
    BY DEF BuildPlan
  <2>2. PICK candidate \in EvictedPool(trace.events[i]), donor \in RetainedPool(trace.events[i]) :
             plan' = [position |-> trace.events[i].position, kept |-> trace.events[i].kept,
                      candidate |-> candidate, donor |-> donor]
    BY <2>1
  <2>3. trace.events \in Seq(ObservedEvents)
    BY <1>1 DEF CaptureInv, TraceOK
  <2>4. i \in 1..Len(trace.events)
    <3>1. Len(trace.events) \in Nat
      BY <2>3
    <3>2. Len(EventPositions) = Len(trace.events)
      BY <3>1 DEF EventPositions
    <3> QED BY <3>1, <3>2 DEF EligibleEvents, Eligible
  <2> DEFINE event == trace.events[i]
  <2>5. event \in ObservedEvents
    BY <2>3, <2>4
  <2>6. event.pre \in Seq(Nat) /\ event.kept \in Seq(Nat) /\ Len(event.kept) = Budget
    BY <2>5 DEF ObservedEvents, Records
  <2>7. candidate \in EvictedPool(event) /\ donor \in RetainedPool(event)
    BY <2>2
  <2>8. plan'.kept = event.kept /\ plan'.candidate = candidate /\ plan'.donor = donor
    BY <2>2
  <2> HIDE DEF event
  <2>9. candidate \in Nat /\ candidate \notin Entries(event.kept)
    BY <2>6, <2>7 DEF EvictedPool, Entries
  <2>10. donor \in Entries(event.kept)
    <3>1. PICK j \in 1..(Budget - Window) : donor = event.kept[j]
      BY <2>7 DEF RetainedPool
    <3>2. j \in 1..Len(event.kept)
      BY <2>6
    <3> QED BY <3>1, <3>2 DEF Entries
  <2>11. plan'.kept \in Records /\ Entries(plan'.kept) = Entries(event.kept)
    BY <2>6, <2>8 DEF Records
  <2> QED BY <2>8, <2>9, <2>10, <2>11 DEF PlanOK, Entries
<1> QED BY <1>1, <1>2, <1>3, <1>4 DEF CaptureInv, Places, ReplayOK, TargetOK, BranchOK

LEMMA PlanFailsKeeps ==
  ASSUME CaptureInv, PlanFails
  PROVE CaptureInv'
<1>1. at' = "dropped" /\ at = "planning" /\ UNCHANGED <<model, live, trace, plan, replay, target, branch>>
  BY DEF PlanFails, GoesTo
<1> QED BY <1>1 DEF CaptureInv, Places, Ended, TraceOK, PlanOK, ReplayOK, TargetOK, BranchOK

LEMMA ResetKeeps ==
  ASSUME CaptureInv, ResetForPass2
  PROVE CaptureInv'
<1>1. /\ at = "reset" /\ at' = "prefill2" /\ UNCHANGED <<trace, plan, replay, target, branch>>
      /\ model' = FreshModel /\ live' = EmptyState
  BY DEF ResetForPass2, ResetPatchedState, GoesTo
<1>2. Good(model, live)'
  BY <1>1, FreshIsGood
<1>3. model' = FreshModel' /\ live' = EmptyState'
  BY <1>1 DEF FreshModel, EmptyState
<1> QED BY <1>1, <1>2, <1>3
        DEF CaptureInv, Places, TraceOK, PlanOK, ReplayOK, TargetOK, BranchOK, Entries

LEMMA PrefillPass2Keeps ==
  ASSUME CaptureInv, PrefillPass2
  PROVE CaptureInv'
<1>1. /\ at = "prefill2" /\ at' = "pass2" /\ UNCHANGED <<trace, plan, replay, target, branch>>
      /\ Forward(trace.prompt)
  BY DEF PrefillPass2, GoesTo
<1>2. Good(model, live) /\ Calls(trace.prompt)
  BY <1>1 DEF CaptureInv, TraceOK, Calls, FreshModel
<1>3. Good(model, live)'
  BY <1>1, <1>2, ForwardIsGood
<1> QED BY <1>1, <1>3
        DEF CaptureInv, Places, TraceOK, PlanOK, ReplayOK, TargetOK, BranchOK, Entries

LEMMA ReplayTokenKeeps ==
  ASSUME CaptureInv, ReplayToken
  PROVE CaptureInv'
<1>1. at = "pass2" /\ Forward(1) /\ UNCHANGED <<at, trace, plan, replay, target, branch>>
  BY DEF ReplayToken
<1>2. Good(model, live)'
  BY <1>1, ForwardIsGood DEF CaptureInv, Calls
<1> QED BY <1>1, <1>2
        DEF CaptureInv, Places, TraceOK, PlanOK, ReplayOK, TargetOK, BranchOK, Entries

LEMMA ReplayTargetKeeps ==
  ASSUME CaptureInv, ReplayTarget
  PROVE CaptureInv'
<1>1. at = "pass2" /\ UNCHANGED <<at, trace, plan, target, branch>>
  BY DEF ReplayTarget
<1>2. Good(model, live) /\ Calls(1)
  BY DEF CaptureInv, Calls
<1>3. ASSUME Grows(1), replay' = [capture |-> Captured(None, TRUE), snapshot |-> Snapshot']
      PROVE Good(model, live)' /\ ReplayOK'
  <2>1. Good(model', live')
    BY <1>2, <1>3, GrowsIsGood
  <2>2. replay'.snapshot.model = model' /\ replay'.snapshot.live = live'
    BY <1>3 DEF Snapshot
  <2>3. replay'.capture # None => ~replay'.capture.fired
    <3>1. replay'.capture = Captured(None, TRUE) /\ ~Fires(1)
      BY <1>3 DEF Grows
    <3>2. CASE ~Attempts
      BY <3>1, <3>2 DEF Captured
    <3>3. CASE Attempts
      <4>1. replay'.capture.fired = Fires(1)
        BY <3>1, <3>3 DEF Captured
      <4> QED BY <3>1, <4>1
    <3> QED BY <3>2, <3>3
  <2>4. ReplayOK'
    BY <2>1, <2>2, <2>3 DEF ReplayOK, None
  <2> QED BY <2>1, <2>4
<1>4. ASSUME NEW slots \in Survivors(Len(live.cache) + 1), NEW same \in BOOLEAN,
             Compacts(1, slots),
             replay' = [capture |-> Captured(slots, same), snapshot |-> Snapshot']
      PROVE Good(model, live)' /\ ReplayOK'
  <2>1. /\ Good(model', live')
        /\ model'.kept # << >>
        /\ ~model'.shuffled => Projected(1) = Grown(live.cache, 1)
        /\ KeepsOf(Projected(1), model')
    BY <1>2, <1>4, CompactsIsGood
  <2>2. replay'.snapshot.model = model' /\ replay'.snapshot.live = live'
    BY <1>4 DEF Snapshot
  <2>3. /\ replay'.capture.observed = model'.kept
        /\ replay'.capture.pre = Projected(1)
        /\ replay'.capture.contents = Grown(live.cache, 1)
    BY <1>4 DEF Captured, Compacts, Fires
  <2>4. /\ Projected(1) \in Seq(Nat) /\ Grown(live.cache, 1) \in Seq(Nat)
        /\ Len(Projected(1)) = Len(Grown(live.cache, 1))
    <3>1. /\ live \in LiveStates /\ live.positions \in Seq(Nat) /\ live.cache \in Seq(Nat)
          /\ Len(live.positions) = Len(live.cache)
      BY <1>2 DEF Good, Shaped, LiveStates
    <3>2. /\ Grown(live.positions, 1) \in Seq(Nat)
          /\ Len(Grown(live.positions, 1)) = Len(live.positions) + 1
      BY <3>1, GrownFacts
    <3>3. /\ Grown(live.cache, 1) \in Seq(Nat)
          /\ Len(Grown(live.cache, 1)) = Len(live.cache) + 1
      BY <3>1, GrownFacts
    <3> QED BY <3>1, <3>2, <3>3 DEF Projected
  <2>5. Faithful(replay'.capture, model')
    BY <2>1, <2>3, <2>4 DEF Faithful
  <2>6. ReplayOK'
    BY <2>1, <2>2, <2>5 DEF ReplayOK, Faithful, KeepsOf, Entries
  <2> QED BY <2>1, <2>6
<1>5. Good(model, live)' /\ ReplayOK'
  BY <1>3, <1>4 DEF ReplayTarget
<1> QED BY <1>1, <1>5
        DEF CaptureInv, Places, TraceOK, PlanOK, TargetOK, BranchOK, Entries

LEMMA AcceptReplayKeeps ==
  ASSUME CaptureInv, AcceptReplay
  PROVE CaptureInv'
<1>1. /\ at = "pass2" /\ at' = "compact" /\ ReplayAgrees
      /\ UNCHANGED <<model, live, trace, plan, replay, target, branch>>
  BY DEF AcceptReplay, ReplayEnds, GoesTo
<1>2. ReplayAgrees'
  BY <1>1 DEF ReplayAgrees
<1> QED BY <1>1, <1>2
        DEF CaptureInv, Places, TraceOK, PlanOK, ReplayOK, TargetOK, BranchOK, Entries

LEMMA RejectReplayKeeps ==
  ASSUME CaptureInv, RejectReplay
  PROVE CaptureInv'
<1>1. /\ at = "pass2" /\ at' = "dropped"
      /\ UNCHANGED <<model, live, trace, plan, replay, target, branch>>
  BY DEF RejectReplay, ReplayEnds, GoesTo
<1> QED BY <1>1
        DEF CaptureInv, Places, Ended, TraceOK, PlanOK, ReplayOK, TargetOK, BranchOK, Entries

(* What the conversion finds fits the snapshot it is to be swapped into.     *)
LEMMA CompactTargetKeeps ==
  ASSUME CaptureInv, CompactTarget
  PROVE CaptureInv'
<1> USE RkvAssumption
<1> DEFINE capture == replay.capture
<1> DEFINE m == replay.snapshot.model
<1> DEFINE slot == First(SlotAfter(plan.donor))
<1>1. /\ at = "compact" /\ at' = "pairs" /\ UNCHANGED <<model, live, trace, plan, branch>>
      /\ SlotBefore(plan.candidate) # {} /\ SlotBefore(plan.donor) # {}
      /\ target' = [candidate |-> Selected(plan.candidate), donor |-> Selected(plan.donor),
                    slot |-> slot, snapshot |-> replay.snapshot]
      /\ replay' = [capture |-> None, snapshot |-> None]
  BY DEF CompactTarget, GoesTo
<1>2. /\ replay.capture # None /\ capture.fired /\ capture.observed = plan.kept
      /\ Good(m, replay.snapshot.live) /\ Faithful(capture, m)
  BY <1>1 DEF CaptureInv, ReplayAgrees, ReplayOK
<1>3. /\ plan.kept \in Records /\ plan.candidate \in Nat
      /\ plan.candidate \notin Entries(plan.kept) /\ plan.donor \in Entries(plan.kept)
  BY <1>1 DEF CaptureInv, PlanOK
<1>4. /\ m.kept = plan.kept /\ Len(m.kept) = Budget /\ m.kept \in Seq(Nat) /\ m.kept # << >>
      /\ m.evicted \in Nat
      /\ capture.pre \in Seq(Nat) /\ capture.contents \in Seq(Nat)
      /\ Len(capture.pre) = Len(capture.contents)
      /\ ~m.shuffled => capture.pre = capture.contents
      /\ KeepsOf(capture.pre, m)
  BY <1>2, <1>3 DEF Faithful, Records, Good, Shaped, ModelStates
<1>5. slot \in 1..Budget /\ m.kept[slot] = plan.donor
  <2>1. PICK j \in 1..Budget : m.kept[j] = plan.donor
    BY <1>3, <1>4 DEF Entries
  <2>2. SlotAfter(plan.donor) = { i \in 1..Budget : m.kept[i] = plan.donor }
    BY <1>2, <1>4 DEF SlotAfter, SlotsOf
  <2>3. j \in SlotAfter(plan.donor) /\ SlotAfter(plan.donor) \in SUBSET Nat
    BY <2>1, <2>2
  <2>4. slot \in SlotAfter(plan.donor)
    BY <2>3, FirstIsOne
  <2> HIDE DEF slot
  <2> QED BY <2>2, <2>4
<1>6. plan.donor \in Nat
  <2>1. \A i \in 1..Len(m.kept) : m.kept[i] \in Nat
    BY <1>4
  <2> HIDE DEF slot, m
  <2> QED BY <1>4, <1>5, <2>1
<1>7. ASSUME NEW label \in Nat, SlotBefore(label) # {}
      PROVE /\ Selected(label).label = label
            /\ Selected(label).contents \in Nat
            /\ ~m.shuffled => Selected(label).contents = label /\ label \in Entries(capture.pre)
                              /\ label < Budget + m.evicted
  <2> DEFINE first == First(SlotBefore(label))
  <2>1. /\ Selected(label).label = label
        /\ Selected(label).contents = capture.contents[first]
    BY DEF Selected
  <2>2. SlotBefore(label) \in SUBSET Nat
    BY DEF SlotBefore, SlotsOf
  <2>3. first \in SlotBefore(label)
    BY <1>7, <2>2, FirstIsOne
  <2> HIDE DEF first, capture, m
  <2>4. first \in 1..(Len(capture.pre) - Window) /\ capture.pre[first] = label
    BY <2>3 DEF SlotBefore, SlotsOf, capture
  <2>5. first \in 1..Len(capture.pre) /\ first \in 1..Len(capture.contents)
    <3>1. Len(capture.pre) \in Nat
      BY <1>4
    <3> QED BY <1>4, <2>4, <3>1
  <2>6. \A j \in 1..Len(capture.contents) : capture.contents[j] \in Nat
    BY <1>4
  <2>7. label \in Entries(capture.pre)
    BY <2>4, <2>5 DEF Entries
  <2>8. ASSUME ~m.shuffled PROVE capture.contents[first] = label /\ label < Budget + m.evicted
    <3>1. capture.pre = capture.contents /\ \A j \in 1..Len(capture.pre) : capture.pre[j] < Budget + m.evicted
      BY <1>4, <2>8 DEF KeepsOf
    <3> QED BY <2>4, <2>5, <3>1
  <2> QED BY <2>1, <2>5, <2>6, <2>7, <2>8
<1>8. Fits(m, slot, Selected(plan.candidate).contents, Selected(plan.candidate).label)
  <2>1. plan.candidate \notin Entries(m.kept)
    BY <1>3, <1>4
  <2>2. ASSUME ~m.shuffled PROVE m.evicted # 0
    <3>1. plan.candidate \in Entries(capture.pre)
      BY <1>1, <1>3, <1>7, <2>2
    <3>2. m.evicted = 0 => Entries(capture.pre) \subseteq Entries(m.kept)
      BY <1>4, <2>2 DEF KeepsOf
    <3> QED BY <2>1, <3>1, <3>2
  <2> HIDE DEF m, slot, capture
  <2> QED BY <1>1, <1>3, <1>5, <1>7, <2>1, <2>2 DEF Fits
<1>9. Fits(m, slot, Selected(plan.donor).contents, Selected(plan.donor).label)
  <2> HIDE DEF m, slot, capture
  <2> QED BY <1>1, <1>5, <1>6, <1>7 DEF Fits
<1>10. TargetOK'
  <2>1. /\ target'.candidate = Selected(plan.candidate) /\ target'.donor = Selected(plan.donor)
        /\ target'.slot = slot /\ target'.snapshot = replay.snapshot
    BY <1>1
  <2> HIDE DEF slot
  <2> QED BY <1>2, <1>4, <1>8, <1>9, <2>1 DEF TargetOK, Fits
<1>11. ReplayOK'
  BY <1>1 DEF ReplayOK, None
<1> QED BY <1>1, <1>10, <1>11 DEF CaptureInv, Places, TraceOK, PlanOK, BranchOK, Entries

LEMMA CompactTargetFailsKeeps ==
  ASSUME CaptureInv, CompactTargetFails
  PROVE CaptureInv'
<1>1. /\ at = "compact" /\ at' = "failed"
      /\ UNCHANGED <<model, live, trace, plan, replay, target, branch>>
  BY DEF CompactTargetFails, GoesTo
<1> QED BY <1>1
        DEF CaptureInv, Places, Ended, TraceOK, PlanOK, ReplayOK, TargetOK, BranchOK, Entries

LEMMA StartBranchKeeps ==
  ASSUME CaptureInv, StartBranch
  PROVE CaptureInv'
<1> DEFINE s == target.snapshot
<1> DEFINE kind == Branches[Evaluated + 1]
<1>1. /\ at = "pairs" /\ at' = "branch" /\ UNCHANGED <<trace, plan, replay, target>>
      /\ Evaluated < Len(Branches) /\ branch' = [ordinal |-> Evaluated + 1, fed |-> 0]
      /\ model' = BranchSource(kind).model /\ live' = BranchSource(kind).live
  BY DEF StartBranch, Restore, GoesTo
<1>2. /\ Good(s.model, s.live) /\ s.model.kept # << >>
      /\ Fits(s.model, target.slot, target.candidate.contents, target.candidate.label)
      /\ Fits(s.model, target.slot, target.donor.contents, target.donor.label)
  BY <1>1 DEF CaptureInv, TargetOK
<1> HIDE DEF kind
<1>3. Good(BranchSource(kind).model, BranchSource(kind).live)
  <2>1. CASE ~kind.swapped
    BY <1>2, <2>1 DEF BranchSource
  <2>2. CASE kind.swapped
    <3>1. Fits(s.model, target.slot, InSlot(kind).contents, InSlot(kind).label)
      BY <1>2 DEF InSlot
    <3> HIDE DEF s
    <3>2. Good(Swapped(s, target.slot, InSlot(kind).contents, InSlot(kind).label).model,
               Swapped(s, target.slot, InSlot(kind).contents, InSlot(kind).label).live)
      BY <1>2, <3>1, SwapIsGood
    <3>3. BranchSource(kind) = Swapped(s, target.slot, InSlot(kind).contents, InSlot(kind).label)
      BY <2>2 DEF BranchSource, s
    <3> QED BY <3>2, <3>3
  <2> QED BY <2>1, <2>2
<1>4. Good(model, live)'
  BY <1>1, <1>3
<1>5. BranchOK'
  <2>1. Len(Branches) = 4
    BY DEF Branches
  <2>2. Evaluated \in 0..4
    BY DEF CaptureInv, BranchOK, Evaluated
  <2>3. Evaluated + 1 \in 1..4 /\ 0 \in Nat
    BY <1>1, <2>1, <2>2
  <2> DEFINE next == Evaluated + 1
  <2>4. branch' = [ordinal |-> next, fed |-> 0] /\ next \in 1..4
    BY <1>1, <2>3
  <2> HIDE DEF next
  <2>5. branch' \in [ordinal : 1..4, fed : Nat]
    BY <2>4
  <2>6. branch' # << >>
    <3>1. "fed" \in DOMAIN branch' /\ DOMAIN << >> = {}
      BY <2>4
    <3> QED BY <3>1
  <2> QED BY <2>5, <2>6 DEF BranchOK, None
<1> QED BY <1>1, <1>4, <1>5
        DEF CaptureInv, Places, TraceOK, PlanOK, ReplayOK, TargetOK, Entries

LEMMA BranchStepKeeps ==
  ASSUME CaptureInv, BranchStep
  PROVE CaptureInv'
<1>1. /\ at = "branch" /\ Forward(1) /\ branch' = [branch EXCEPT !.fed = @ + 1]
      /\ UNCHANGED <<at, trace, plan, replay, target>>
  BY DEF BranchStep
<1>2. Good(model, live)'
  BY <1>1, ForwardIsGood DEF CaptureInv, Calls
<1>3. BranchOK'
  <2>1. branch \in [ordinal : 1..4, fed : Nat]
    BY <1>1 DEF CaptureInv, BranchOK
  <2>2. branch' \in [ordinal : 1..4, fed : Nat]
    BY <1>1, <2>1
  <2>3. branch' # << >>
    <3>1. "fed" \in DOMAIN branch' /\ DOMAIN << >> = {}
      BY <2>2
    <3> QED BY <3>1
  <2> QED BY <2>2, <2>3 DEF BranchOK, None
<1> QED BY <1>1, <1>2, <1>3
        DEF CaptureInv, Places, TraceOK, PlanOK, ReplayOK, TargetOK, Entries

LEMMA EndBranchKeeps ==
  ASSUME CaptureInv, EndBranch
  PROVE CaptureInv'
<1>1. /\ at = "branch" /\ at' \in {"done", "pairs"}
      /\ UNCHANGED <<model, live, trace, plan, replay, target, branch>>
  BY DEF EndBranch, GoesTo
<1> QED BY <1>1
        DEF CaptureInv, Places, Ended, TraceOK, PlanOK, ReplayOK, TargetOK, BranchOK, Entries

LEMMA StutterKeeps ==
  ASSUME CaptureInv, UNCHANGED vars
  PROVE CaptureInv'
BY DEF vars, CaptureInv, Places, Ended, TraceOK, PlanOK, ReplayAgrees, ReplayOK, TargetOK,
       BranchOK, Entries

LEMMA CaptureInvariant == Spec => []CaptureInv
<1>1. CaptureInv /\ [Next]_vars => CaptureInv'
  <2> SUFFICES ASSUME CaptureInv, [Next]_vars PROVE CaptureInv'
    OBVIOUS
  <2>1. CASE PrefillPass1 BY <2>1, PrefillPass1Keeps
  <2>2. CASE DecodePass1 BY <2>2, DecodePass1Keeps
  <2>3. CASE StopPass1("planning") \/ StopPass1("dropped") BY <2>3, StopPass1Keeps
  <2>4. CASE BuildPlan BY <2>4, BuildPlanKeeps
  <2>5. CASE PlanFails BY <2>5, PlanFailsKeeps
  <2>6. CASE ResetForPass2 BY <2>6, ResetKeeps
  <2>7. CASE PrefillPass2 BY <2>7, PrefillPass2Keeps
  <2>8. CASE ReplayToken BY <2>8, ReplayTokenKeeps
  <2>9. CASE ReplayTarget BY <2>9, ReplayTargetKeeps
  <2>10. CASE AcceptReplay BY <2>10, AcceptReplayKeeps
  <2>11. CASE RejectReplay BY <2>11, RejectReplayKeeps
  <2>12. CASE CompactTarget BY <2>12, CompactTargetKeeps
  <2>13. CASE CompactTargetFails BY <2>13, CompactTargetFailsKeeps
  <2>14. CASE StartBranch BY <2>14, StartBranchKeeps
  <2>15. CASE BranchStep BY <2>15, BranchStepKeeps
  <2>16. CASE EndBranch BY <2>16, EndBranchKeeps
  <2>17. CASE Finished \/ UNCHANGED vars BY <2>17, StutterKeeps DEF Finished
  <2> QED BY <2>1, <2>2, <2>3, <2>4, <2>5, <2>6, <2>7, <2>8, <2>9, <2>10, <2>11, <2>12,
             <2>13, <2>14, <2>15, <2>16, <2>17 DEF Next
<1> QED BY <1>1, InitKeeps, PTL DEF Spec

-----------------------------------------------------------------------------
(* Every variable holds a value of its type, and the adapter's map has one   *)
(* entry per slot of the cache.                                              *)
THEOREM CaptureTypeCorrect == Spec => []TypeOK
<1>1. CaptureInv => TypeOK
  <2> SUFFICES ASSUME CaptureInv PROVE TypeOK
    OBVIOUS
  <2>1. /\ model \in ModelStates /\ live \in LiveStates /\ Len(live.positions) = Len(live.cache)
        /\ model.kept = << >> \/ Len(model.kept) = Budget
    BY DEF CaptureInv, Good, Shaped
  <2>2. Evaluated \in 0..4
    BY DEF CaptureInv, BranchOK, Evaluated
  <2> QED BY <2>1, <2>2 DEF TypeOK, CaptureInv, Places, TraceOK
<1> QED BY <1>1, CaptureInvariant, PTL

(* No cache outgrows the budget by a whole scheduling distance, in either    *)
(* pass or in any branch, for every budget, window and distance.             *)
THEOREM CachesAreBounded == Spec => []CacheBounded
<1>1. CaptureInv => CacheBounded
  <2> SUFFICES ASSUME CaptureInv PROVE CacheBounded
    OBVIOUS
  <2> USE RkvAssumption
  <2>1. live.cache \in Seq(Nat) /\ Len(live.cache) \in Nat /\ model.length \in Nat
    BY DEF CaptureInv, Good, Shaped, LiveStates, ModelStates
  <2>2. CASE model.length = 0
    <3>1. live.cache = << >>
      BY <2>2 DEF CaptureInv, Good, Timed
    <3>2. Len(live.cache) = 0
      BY <3>1
    <3> QED BY <3>2 DEF CacheBounded
  <2>3. CASE model.length # 0
    <3> DEFINE slack == (model.length - 1) % DivideLength
    <3>1. slack \in 0..(DivideLength - 1)
      <4>1. model.length - 1 \in Int
        BY <2>1
      <4> QED BY <4>1, Remainder
    <3>2. Len(live.cache) <= Budget + slack
      BY <2>3 DEF CaptureInv, Good, Timed
    <3> HIDE DEF slack
    <3> QED BY <2>1, <3>1, <3>2 DEF CacheBounded
  <2> QED BY <2>2, <2>3
<1> QED BY <1>1, CaptureInvariant, PTL

(* The adapter's map names the token in every slot, through compactions,     *)
(* snapshots, restores and swaps, unless slots were reordered unrecorded.    *)
THEOREM ProvenanceIsTrue == Spec => []ProvenanceTrue
<1>1. CaptureInv => ProvenanceTrue
  BY DEF CaptureInv, Good, Named, ProvenanceTrue
<1> QED BY <1>1, CaptureInvariant, PTL

(* No token is ever in a cache twice, in a swapped branch neither.           *)
THEOREM TokensStayApart == Spec => []NoTokenTwice
<1>1. CaptureInv => NoTokenTwice
  BY GoodTokensDiffer DEF CaptureInv, NoTokenTwice
<1> QED BY <1>1, CaptureInvariant, PTL
=============================================================================
