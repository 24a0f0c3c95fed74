------------------------ MODULE TwoPassSchedule_proofs ------------------------
(*****************************************************************************)
(* When compactions happen and what a branch starts from, for every budget,  *)
(* window, distance, prompt and choice of the GPU: the schedule is a         *)
(* function of the prompt's length alone, so Pass 2 and every branch repeat  *)
(* that of Pass 1, the cache lengths predicted without a model are the real  *)
(* ones, and the compactions predicted are among the real ones.              *)
(*****************************************************************************)
EXTENDS TwoPassCapture_proofs, FiniteSetTheorems, FunctionTheorems

-----------------------------------------------------------------------------
(* The schedule.  A compaction falls on the call after which this many       *)
(* positions have been fed: the prefill, or the token after a multiple of    *)
(* the distance, once there is a budget's worth of tokens.                   *)
Falls(after, prompt) ==
  /\ after >= Budget
  /\ \/ after = prompt
     \/ after > prompt /\ (after - 1) % DivideLength = 0

(* The compactions of a run up to a position, each once and in order.        *)
Scheduled(events, prompt, pos) ==
  /\ events \in Seq(Nat)
  /\ \A i, j \in 1..Len(events) : i < j => events[i] < events[j]
  /\ \A i \in 1..Len(events) : events[i] <= pos /\ Falls(events[i], prompt)
  /\ \A after \in prompt..pos :
       Falls(after, prompt) => \E i \in 1..Len(events) : events[i] = after

LEMMA NothingScheduled ==
  ASSUME NEW prompt \in Nat \ {0}
  PROVE Scheduled(<< >>, prompt, prompt - 1)
<1>1. << >> \in Seq(Nat) /\ Len(<< >>) = 0
  OBVIOUS
<1>2. prompt..(prompt - 1) = {}
  OBVIOUS
<1> QED BY <1>1, <1>2 DEF Scheduled

LEMMA AppendFacts ==
  ASSUME NEW s \in Seq(Nat), NEW e \in Nat
  PROVE /\ Append(s, e) \in Seq(Nat)
        /\ Len(Append(s, e)) = Len(s) + 1
        /\ \A i \in 1..Len(s) : Append(s, e)[i] = s[i]
        /\ Append(s, e)[Len(s) + 1] = e
  OBVIOUS

(* One more call: its compaction is appended if it falls on this call.       *)
LEMMA NextIsScheduled ==
  ASSUME NEW prompt \in Nat \ {0}, NEW events, NEW next \in Nat, next >= prompt,
         Scheduled(events, prompt, next - 1)
  PROVE /\ Falls(next, prompt) => Scheduled(Append(events, next), prompt, next)
        /\ ~Falls(next, prompt) => Scheduled(events, prompt, next)
<1>1. /\ events \in Seq(Nat) /\ Len(events) \in Nat
      /\ \A i, j \in 1..Len(events) : i < j => events[i] < events[j]
      /\ \A i \in 1..Len(events) : events[i] <= next - 1 /\ Falls(events[i], prompt)
      /\ \A i \in 1..Len(events) : events[i] \in Nat
      /\ \A after \in prompt..(next - 1) :
           Falls(after, prompt) => \E i \in 1..Len(events) : events[i] = after
  BY DEF Scheduled
<1>2. \A after \in prompt..next : after = next \/ after \in prompt..(next - 1)
  OBVIOUS
<1>3. ASSUME ~Falls(next, prompt) PROVE Scheduled(events, prompt, next)
  <2>1. \A i \in 1..Len(events) : events[i] <= next
    BY <1>1
  <2> QED BY <1>1, <1>2, <1>3, <2>1 DEF Scheduled
<1>4. ASSUME Falls(next, prompt) PROVE Scheduled(Append(events, next), prompt, next)
  <2> DEFINE more == Append(events, next)
  <2>1. /\ more \in Seq(Nat) /\ Len(more) = Len(events) + 1
        /\ \A i \in 1..Len(events) : more[i] = events[i]
        /\ more[Len(events) + 1] = next
    BY <1>1, AppendFacts
  <2> HIDE DEF more
  <2>2. \A i \in 1..Len(more) : i \in 1..Len(events) \/ i = Len(events) + 1
    BY <1>1, <2>1
  <2>3. ASSUME NEW i \in 1..Len(more), NEW j \in 1..Len(more), i < j
        PROVE more[i] < more[j]
    <3>1. i \in 1..Len(events)
      BY <1>1, <2>1, <2>3
    <3>2. CASE j \in 1..Len(events)
      BY <1>1, <2>1, <2>3, <3>1, <3>2
    <3>3. CASE j = Len(events) + 1
      <4>1. more[i] = events[i] /\ more[j] = next /\ events[i] <= next - 1 /\ events[i] \in Nat
        BY <1>1, <2>1, <3>1, <3>3
      <4> QED BY <4>1
    <3> QED BY <2>2, <3>2, <3>3
  <2>4. ASSUME NEW i \in 1..Len(more) PROVE more[i] <= next /\ Falls(more[i], prompt)
    <3>1. CASE i \in 1..Len(events)
      <4>1. more[i] = events[i] /\ events[i] <= next - 1 /\ events[i] \in Nat /\ Falls(events[i], prompt)
        BY <1>1, <2>1, <3>1
      <4> QED BY <4>1
    <3>2. CASE i = Len(events) + 1
      BY <1>4, <2>1, <3>2
    <3> QED BY <2>2, <3>1, <3>2
  <2>5. ASSUME NEW after \in prompt..next, Falls(after, prompt)
        PROVE \E i \in 1..Len(more) : more[i] = after
    <3>1. CASE after = next
      <4>1. Len(events) + 1 \in 1..Len(more)
        BY <1>1, <2>1
      <4> QED BY <2>1, <3>1, <4>1
    <3>2. CASE after \in prompt..(next - 1)
      <4>1. PICK i \in 1..Len(events) : events[i] = after
        BY <1>1, <2>5, <3>2
      <4>2. i \in 1..Len(more) /\ more[i] = events[i]
        BY <1>1, <2>1
      <4> QED BY <4>1, <4>2
    <3> QED BY <1>2, <3>1, <3>2
  <2> QED BY <2>1, <2>3, <2>4, <2>5 DEF Scheduled, more
<1> QED BY <1>3, <1>4

(* A set of naturals that is not empty has a least element.                  *)
LEMMA LeastOne ==
  ASSUME NEW S \in SUBSET Nat, S # {}
  PROVE \E j \in S : \A i \in S : j <= i
<1> DEFINE R == OpToRel(<, Nat)
<1>1. IsWellFoundedOn(R, Nat)
  BY NatLessThanWellFounded
<1>2. \A x, y \in Nat : x < y => <<x, y>> \in R
  BY DEF OpToRel
<1> HIDE DEF R
<1>3. PICK j \in S : \A i \in S : ~(<<i, j>> \in R)
  BY <1>1, WFMin
<1>4. ASSUME NEW i \in S PROVE j <= i
  <2>1. ~(<<i, j>> \in R)
    BY <1>3
  <2>2. i \in Nat /\ j \in Nat
    OBVIOUS
  <2>3. ~(i < j)
    BY <1>2, <2>1, <2>2, Zenon
  <2> QED BY <2>2, <2>3
<1> QED BY <1>4

(* Two runs over one prompt compact on the same calls: the shorter run's     *)
(* compactions are the first of the longer one's.                            *)
LEMMA SameSchedule ==
  ASSUME NEW prompt \in Nat, NEW p \in Nat, NEW q \in Nat, p <= q,
         NEW a, Scheduled(a, prompt, p), NEW b, Scheduled(b, prompt, q)
  PROVE /\ Len(a) <= Len(b)
        /\ \A i \in 1..Len(b) :
             IF b[i] <= p THEN i <= Len(a) /\ a[i] = b[i] ELSE i > Len(a)
<1>1. /\ a \in Seq(Nat) /\ Len(a) \in Nat /\ \A i \in 1..Len(a) : a[i] \in Nat
      /\ \A i, j \in 1..Len(a) : i < j => a[i] < a[j]
      /\ \A i \in 1..Len(a) : a[i] <= p /\ Falls(a[i], prompt)
      /\ \A after \in prompt..p : Falls(after, prompt) => \E i \in 1..Len(a) : a[i] = after
  BY DEF Scheduled
<1>2. /\ b \in Seq(Nat) /\ Len(b) \in Nat /\ \A i \in 1..Len(b) : b[i] \in Nat
      /\ \A i, j \in 1..Len(b) : i < j => b[i] < b[j]
      /\ \A i \in 1..Len(b) : b[i] <= q /\ Falls(b[i], prompt)
      /\ \A after \in prompt..q : Falls(after, prompt) => \E i \in 1..Len(b) : b[i] = after
  BY DEF Scheduled
<1>3. \A after \in Nat : Falls(after, prompt) => after >= prompt
  BY DEF Falls
<1> DEFINE Bad == { i \in 1..Len(a) : ~(i <= Len(b) /\ a[i] = b[i]) }
<1>4. Bad = {}
  <2> SUFFICES ASSUME Bad # {} PROVE FALSE
    OBVIOUS
  <2>1. Bad \in SUBSET Nat
    BY <1>1
  <2>2. PICK i \in Bad : \A j \in Bad : i <= j
    <3> HIDE DEF Bad
    <3> QED BY <2>1, LeastOne
  <2>3. i \in 1..Len(a) /\ ~(i <= Len(b) /\ a[i] = b[i])
    OBVIOUS
  <2>4. \A j \in 1..Len(a) : j < i => j <= Len(b) /\ a[j] = b[j]
    BY <1>1, <2>2, <2>3
  <2> HIDE DEF Bad
  <2>5. a[i] \in prompt..q /\ Falls(a[i], prompt)
    <3>1. a[i] \in Nat /\ a[i] <= p /\ Falls(a[i], prompt)
      BY <1>1, <2>3
    <3>2. a[i] >= prompt
      BY <1>3, <3>1
    <3> QED BY <3>1, <3>2
  <2>6. PICK m \in 1..Len(b) : b[m] = a[i]
    BY <1>2, <2>5
  <2>7. m >= i
    <3> SUFFICES ASSUME m < i PROVE FALSE
      BY <1>1, <1>2, <2>3
    <3>1. m \in 1..Len(a)
      BY <1>1, <1>2, <2>3
    <3>2. a[m] = b[m] /\ a[m] < a[i] /\ a[i] \in Nat
      BY <1>1, <2>3, <2>4, <3>1
    <3> QED BY <2>6, <3>2
  <2>8. i \in 1..Len(b)
    BY <1>1, <1>2, <2>3, <2>7
  <2>9. b[i] <= a[i]
    <3>1. CASE m = i
      BY <1>1, <1>2, <2>3, <2>6, <3>1
    <3>2. CASE i < m
      <4>1. b[i] < b[m] /\ b[i] \in Nat /\ b[m] \in Nat
        BY <1>2, <2>8, <3>2
      <4> QED BY <2>6, <4>1
    <3> QED BY <1>2, <2>7, <2>8, <3>1, <3>2
  <2>10. PICK n \in 1..Len(a) : a[n] = b[i]
    <3>1. b[i] \in Nat /\ Falls(b[i], prompt) /\ a[i] <= p /\ a[i] \in Nat
      BY <1>1, <1>2, <2>3, <2>8
    <3>2. b[i] \in prompt..p
      BY <1>3, <2>9, <3>1
    <3> QED BY <1>1, <3>1, <3>2
  <2>11. n <= i
    <3> SUFFICES ASSUME i < n PROVE FALSE
      BY <1>1, <2>3
    <3>1. a[i] < a[n] /\ a[i] \in Nat /\ a[n] \in Nat
      BY <1>1, <2>3
    <3> QED BY <2>9, <2>10, <3>1
  <2>12. CASE n = i
    BY <2>3, <2>8, <2>10, <2>12
  <2>13. CASE n < i
    <3>1. n \in 1..Len(b) /\ a[n] = b[n]
      BY <1>1, <1>2, <2>4, <2>8, <2>13
    <3>2. b[n] < b[i] /\ b[n] \in Nat
      BY <1>2, <2>8, <2>13, <3>1
    <3> QED BY <2>10, <3>1, <3>2
  <2> QED BY <1>1, <2>3, <2>11, <2>12, <2>13
<1>5. \A i \in 1..Len(a) : i <= Len(b) /\ a[i] = b[i]
  BY <1>4
<1> HIDE DEF Bad
<1>6. Len(a) <= Len(b)
  <2>1. CASE Len(a) = 0
    BY <1>2, <2>1
  <2>2. CASE Len(a) # 0
    <3>1. Len(a) \in 1..Len(a)
      BY <1>1, <2>2
    <3> QED BY <1>5, <3>1
  <2> QED BY <2>1, <2>2
<1>7. ASSUME NEW i \in 1..Len(b)
      PROVE IF b[i] <= p THEN i <= Len(a) /\ a[i] = b[i] ELSE i > Len(a)
  <2>1. CASE b[i] <= p
    <3>1. b[i] \in Nat /\ Falls(b[i], prompt)
      BY <1>2
    <3>2. b[i] \in prompt..p
      BY <1>3, <2>1, <3>1
    <3>3. PICK n \in 1..Len(a) : a[n] = b[i]
      BY <1>1, <3>1, <3>2
    <3>4. n \in 1..Len(b) /\ b[n] = b[i] /\ n \in Nat
      BY <1>1, <1>2, <1>5, <3>3
    <3>5. n = i
      <4>1. ~(n < i) /\ ~(i < n)
        BY <1>2, <3>1, <3>4
      <4> QED BY <1>2, <3>4, <4>1
    <3> QED BY <2>1, <3>3, <3>5
  <2>2. CASE ~(b[i] <= p)
    <3>1. ASSUME i <= Len(a) PROVE FALSE
      <4>1. i \in 1..Len(a)
        BY <1>1, <1>2, <3>1
      <4> QED BY <1>1, <1>5, <2>2, <4>1
    <3> QED BY <1>1, <1>2, <2>2, <3>1
  <2> QED BY <2>1, <2>2
<1> QED BY <1>6, <1>7

-----------------------------------------------------------------------------
(* A model and its adapter that have followed the schedule: the counter is   *)
(* the stream position, the cache holds the whole stream or a budget of it,  *)
(* and a compaction has been noted wherever one falls.                       *)
Clock(m, l) ==
  /\ m.length = l.pos
  /\ Len(l.cache) = l.pos \/ (Budget <= Len(l.cache) /\ Budget <= l.pos)

Punctual(m, l, prompt) ==
  /\ l.pos >= prompt
  /\ Clock(m, l)
  /\ Scheduled(l.events, prompt, l.pos)

(* What a forward call does to the counter, the position, the length of the  *)
(* cache and the events.                                                     *)
LEMMA CallEffects ==
  ASSUME Good(model, live), NEW k, Calls(k), Forward(k)
  PROVE /\ model'.length = model.length + k
        /\ live'.pos = live.pos + k
        /\ Fires(k) => /\ live'.events = Append(live.events, live.pos + k)
                       /\ Len(live'.cache) = Budget
                       /\ Observed(trace.events, k)
                            = Append(trace.events, [position |-> live.pos + k - 1,
                                                    pre |-> Projected(k),
                                                    kept |-> model'.kept])
        /\ ~Fires(k) => /\ live'.events = live.events
                        /\ Len(live'.cache) = Len(live.cache) + k
                        /\ Observed(trace.events, k) = trace.events
<1> USE RkvAssumption
<1> k \in Nat \ {0}
  BY DEF Calls
<1>1. model \in ModelStates /\ live \in LiveStates /\ live.cache \in Seq(Nat)
  BY DEF Good, Shaped, LiveStates
<1>2. CASE Grows(k)
  <2> DEFINE cache == Grown(live.cache, k)
  <2> DEFINE positions == Grown(live.positions, k)
  <2>1. Len(cache) = Len(live.cache) + k
    BY <1>1, GrownFacts
  <2>2. live' = [live EXCEPT !.cache = cache, !.positions = positions, !.pos = @ + k]
    BY <1>2 DEF Grows
  <2> HIDE DEF cache, positions
  <2>3. live'.cache = cache /\ live'.pos = live.pos + k /\ live'.events = live.events
    BY <1>1, <2>2 DEF LiveStates
  <2>4. model'.length = model.length + k
    BY <1>1, <1>2, CountedFacts DEF Grows
  <2>5. ~Fires(k)
    BY <1>2 DEF Grows
  <2>6. Observed(trace.events, k) = trace.events
    BY <2>5 DEF Observed
  <2> QED BY <2>1, <2>3, <2>4, <2>5, <2>6
<1>3. CASE \E slots \in Survivors(Len(live.cache) + k) : Compacts(k, slots)
  <2>1. PICK slots \in Survivors(Len(live.cache) + k) : Compacts(k, slots)
    BY <1>3
  <2> DEFINE cache == Gathered(Grown(live.cache, k), slots)
  <2>2. live' = [cache |-> cache, positions |-> Recorded(slots),
                 events |-> Append(live.events, live.pos + k), pos |-> live.pos + k]
    BY <2>1 DEF Compacts
  <2>3. Good(model', live') /\ model'.kept # << >>
    BY <2>1, CompactsIsGood
  <2>4. Len(cache) = Budget
    <3>1. cache = [j \in 1..Budget |-> Grown(live.cache, k)[slots[j]]]
      BY DEF Gathered
    <3> HIDE DEF cache
    <3>2. cache = live'.cache
      BY <2>2
    <3>3. live'.cache \in Seq(Nat)
      BY <2>3 DEF Good, Shaped, LiveStates
    <3>4. DOMAIN cache = 1..Budget /\ cache \in Seq(Nat)
      BY <3>1, <3>2, <3>3
    <3> QED BY <3>4
  <2>5. model'.length = model.length + k
    <3> DEFINE c == Counted(model, k)
    <3>1. c \in ModelStates /\ c.length = model.length + k
      BY <1>1, CountedFacts
    <3> DEFINE removed == Len(live.cache) + k - Budget
    <3>2. model' = [c EXCEPT !.evicted = @ + removed, !.kept = Recorded(slots),
                             !.shuffled = @ \/ (model.evicted + removed = 0
                                                /\ slots # Identity(Budget))]
      BY <2>1, Zenon DEF Compacts
    <3> HIDE DEF c, removed
    <3>3. model'.length = c.length
      BY <3>1, <3>2 DEF ModelStates
    <3> QED BY <3>1, <3>3
  <2>6. Fires(k)
    BY <2>1 DEF Compacts
  <2>7. Observed(trace.events, k)
          = Append(trace.events, [position |-> live.pos + k - 1, pre |-> Projected(k),
                                  kept |-> model'.kept])
    BY <2>6 DEF Observed
  <2> HIDE DEF cache
  <2> QED BY <2>2, <2>4, <2>5, <2>6, <2>7
<1> QED BY <1>2, <1>3 DEF Forward

(* The clock goes on, and the compaction noted is the one that falls here.   *)
LEMMA ClockTicks ==
  ASSUME Good(model, live), NEW k, Calls(k), Forward(k), Clock(model, live)
  PROVE Clock(model', live')
<1> USE RkvAssumption
<1> k \in Nat \ {0}
  BY DEF Calls
<1>1. /\ model.length \in Nat /\ live.pos \in Nat /\ Len(live.cache) \in Nat
      /\ model.length = live.pos
      /\ Len(live.cache) = live.pos \/ (Budget <= Len(live.cache) /\ Budget <= live.pos)
  BY DEF Good, Shaped, LiveStates, ModelStates, Clock
<1>2. model'.length = model.length + k /\ live'.pos = live.pos + k
  BY CallEffects
<1>3. CASE Fires(k)
  <2>1. Len(live'.cache) = Budget /\ Len(live.cache) + k >= Budget
    BY <1>3, CallEffects DEF Fires
  <2> QED BY <1>1, <1>2, <2>1 DEF Clock
<1>4. CASE ~Fires(k)
  <2>1. Len(live'.cache) = Len(live.cache) + k
    BY <1>4, CallEffects
  <2> QED BY <1>1, <1>2, <2>1 DEF Clock
<1> QED BY <1>3, <1>4

LEMMA FiresWhenDue ==
  ASSUME Good(model, live), NEW prompt \in Nat \ {0}, NEW k, Calls(k), Clock(model, live),
         \/ k = prompt /\ live.pos = 0
         \/ k = 1 /\ live.pos >= prompt
  PROVE Fires(k) <=> Falls(live.pos + k, prompt)
<1> USE RkvAssumption
<1> k \in Nat \ {0}
  BY DEF Calls
<1>1. /\ model.length \in Nat /\ live.pos \in Nat /\ Len(live.cache) \in Nat
      /\ model.length = live.pos
      /\ Len(live.cache) = live.pos \/ (Budget <= Len(live.cache) /\ Budget <= live.pos)
  BY DEF Good, Shaped, LiveStates, ModelStates, Clock
<1>2. Len(live.cache) + k >= Budget <=> live.pos + k >= Budget
  BY <1>1
<1>3. CASE k = prompt /\ live.pos = 0
  <2>1. model.compression = "none"
    BY <1>1, <1>3 DEF Good, Timed
  <2>2. Attempts
    BY <2>1 DEF Attempts
  <2>3. live.pos + k = prompt
    BY <1>3
  <2> QED BY <1>2, <2>2, <2>3 DEF Fires, Falls
<1>4. CASE k = 1 /\ live.pos >= prompt
  <2>1. model.length # 0
    BY <1>1, <1>4
  <2>2. model.compression = IF model.length % DivideLength = 0 THEN "true" ELSE "false"
    BY <2>1 DEF Good, Timed
  <2>3. Attempts <=> live.pos % DivideLength = 0
    BY <1>1, <2>2 DEF Attempts
  <2>4. live.pos + k > prompt /\ live.pos + k # prompt /\ (live.pos + k) - 1 = live.pos
    BY <1>1, <1>4
  <2> QED BY <1>2, <2>3, <2>4 DEF Fires, Falls
<1> QED BY <1>3, <1>4

(* A prefill of a fresh model, and one more token.                           *)
LEMMA PrefillIsPunctual ==
  ASSUME model = FreshModel, live = EmptyState, NEW prompt \in Nat \ {0}, Forward(prompt)
  PROVE Punctual(model', live', prompt) /\ live'.pos = prompt
<1>1. /\ Good(model, live) /\ Calls(prompt) /\ model.length = 0 /\ live.pos = 0
      /\ live.events = << >> /\ live.cache = << >>
  BY FreshIsGood DEF Calls, FreshModel, EmptyState
<1>2. Clock(model, live)
  <2>1. Len(live.cache) = 0
    BY <1>1
  <2> QED BY <1>1, <2>1 DEF Clock
<1>3. Fires(prompt) <=> Falls(prompt, prompt)
  <2>1. live.pos + prompt = prompt
    BY <1>1
  <2>2. Fires(prompt) <=> Falls(live.pos + prompt, prompt)
    BY <1>1, <1>2, FiresWhenDue
  <2> QED BY <2>1, <2>2
<1>4. /\ Scheduled(live.events, prompt, prompt - 1)
      /\ Falls(prompt, prompt) => Scheduled(Append(live.events, prompt), prompt, prompt)
      /\ ~Falls(prompt, prompt) => Scheduled(live.events, prompt, prompt)
  <2>1. Scheduled(live.events, prompt, prompt - 1)
    BY <1>1, NothingScheduled
  <2> QED BY <2>1, NextIsScheduled
<1>5. /\ live'.pos = prompt
      /\ Fires(prompt) => live'.events = Append(live.events, prompt)
      /\ ~Fires(prompt) => live'.events = live.events
  <2>1. live.pos + prompt = prompt
    BY <1>1
  <2> QED BY <1>1, <2>1, CallEffects
<1>6. Clock(model', live')
  BY <1>1, <1>2, ClockTicks
<1>7. Scheduled(live'.events, prompt, live'.pos)
  <2>1. CASE Fires(prompt)
    BY <1>3, <1>4, <1>5, <2>1, Zenon
  <2>2. CASE ~Fires(prompt)
    BY <1>3, <1>4, <1>5, <2>2, Zenon
  <2> QED BY <2>1, <2>2
<1>8. live'.pos >= prompt
  BY <1>5
<1> QED BY <1>5, <1>6, <1>7, <1>8 DEF Punctual

LEMMA TokenIsPunctual ==
  ASSUME Good(model, live), NEW prompt \in Nat \ {0}, Punctual(model, live, prompt), Forward(1)
  PROVE Punctual(model', live', prompt) /\ live'.pos = live.pos + 1
<1> DEFINE next == live.pos + 1
<1>1. live.pos \in Nat /\ live.pos >= prompt /\ Clock(model, live) /\ Calls(1)
  BY DEF Good, Shaped, LiveStates, Punctual, Calls
<1>2. Fires(1) <=> Falls(next, prompt)
  BY <1>1, FiresWhenDue
<1>3. next \in Nat /\ next >= prompt /\ next - 1 = live.pos
  BY <1>1
<1>4. /\ live'.pos = next
      /\ Fires(1) => live'.events = Append(live.events, next)
      /\ ~Fires(1) => live'.events = live.events
  BY <1>1, CallEffects
<1> HIDE DEF next
<1>5. /\ Falls(next, prompt) => Scheduled(Append(live.events, next), prompt, next)
      /\ ~Falls(next, prompt) => Scheduled(live.events, prompt, next)
  <2>1. Scheduled(live.events, prompt, next - 1)
    BY <1>3 DEF Punctual
  <2> QED BY <1>3, <2>1, NextIsScheduled
<1>6. Clock(model', live')
  BY <1>1, ClockTicks
<1> QED BY <1>2, <1>3, <1>4, <1>5, <1>6 DEF Punctual, next

-----------------------------------------------------------------------------
(* The inductive invariant, beside that of TwoPassCapture_proofs: Pass 1     *)
(* notes its schedule, the plan fits what it noted, and Pass 2, its snapshot *)
(* and every branch follow the same schedule.                                *)
Noted(noted, events) ==
  /\ Len(noted) = Len(events)
  /\ \A i \in 1..Len(events) : noted[i].position + 1 = events[i]

TraceInv ==
  /\ at = "prefill1" => trace.events = << >>
  /\ at \in {"pass1", "planning"} =>
       Punctual(model, live, trace.prompt) /\ Noted(trace.events, live.events)
  /\ at = "planning" => trace.total = live.pos

After == [i \in 1..Len(trace.events) |-> trace.events[i] + 1]

Playing == {"pass2", "compact", "pairs", "branch", "done"}

Planned == {"reset", "prefill2"} \cup Playing

PlanInv ==
  at \in Planned =>
    /\ plan.position \in Nat
    /\ Enough
    /\ trace.prompt <= trace.total
    /\ trace.events \in Seq(Nat)
    /\ Scheduled(After, trace.prompt, trace.total)

(* The snapshot is the one after the planned event.                          *)
Taken(s) ==
  /\ Punctual(s.model, s.live, trace.prompt)
  /\ s.live.pos = plan.position + 1

PlayInv ==
  /\ at \in Playing => Punctual(model, live, trace.prompt) /\ live.pos <= trace.total
  /\ at \in {"pass2", "compact"} /\ replay.capture # None => Taken(replay.snapshot)
  /\ at \in {"prefill1", "pass1", "planning", "reset", "prefill2"} => replay.capture = None
  /\ at \in {"pairs", "branch"} => Taken(target.snapshot)
  /\ at = "branch" => /\ live.pos = plan.position + 1 + branch.fed
                      /\ branch.fed <= ScoredHorizon

ScheduleInv == TraceInv /\ PlanInv /\ PlayInv

LEMMA InitSchedules == Init => ScheduleInv
BY DEF Init, ScheduleInv, TraceInv, PlanInv, PlayInv, Planned, Playing, None

LEMMA NoteOne ==
  ASSUME NEW noted \in Seq(ObservedEvents), NEW events \in Seq(Nat), Noted(noted, events),
         NEW event \in ObservedEvents, NEW after \in Nat, event.position + 1 = after
  PROVE Noted(Append(noted, event), Append(events, after))
<1> DEFINE more == Append(noted, event)
<1> DEFINE next == Append(events, after)
<1>1. /\ Len(more) = Len(noted) + 1 /\ more[Len(noted) + 1] = event
      /\ \A i \in 1..Len(noted) : more[i] = noted[i]
  OBVIOUS
<1>2. /\ Len(next) = Len(events) + 1 /\ next[Len(events) + 1] = after
      /\ \A i \in 1..Len(events) : next[i] = events[i]
  BY AppendFacts
<1> HIDE DEF more, next
<1>3. Len(noted) = Len(events) /\ Len(events) \in Nat
      /\ \A i \in 1..Len(events) : noted[i].position + 1 = events[i]
  BY DEF Noted
<1>4. ASSUME NEW i \in 1..Len(next) PROVE more[i].position + 1 = next[i]
  <2>1. CASE i = Len(events) + 1
    BY <1>1, <1>2, <1>3, <2>1
  <2>2. CASE i # Len(events) + 1
    <3>1. i \in 1..Len(events) /\ i \in 1..Len(noted)
      BY <1>2, <1>3, <2>2
    <3> QED BY <1>1, <1>2, <1>3, <3>1
  <2> QED BY <2>1, <2>2
<1> QED BY <1>1, <1>2, <1>3, <1>4 DEF Noted, more, next

LEMMA CallIsNoted ==
  ASSUME Good(model, live), NEW k, Calls(k), Forward(k), trace.events \in Seq(ObservedEvents),
         Noted(trace.events, live.events)
  PROVE Noted(Observed(trace.events, k), live'.events)
<1> k \in Nat \ {0}
  BY DEF Calls
<1>1. live.events \in Seq(Nat) /\ live.pos \in Nat
  BY DEF Good, Shaped, LiveStates
<1>2. CASE ~Fires(k)
  BY <1>2, CallEffects
<1>3. CASE Fires(k)
  <2> DEFINE event == [position |-> live.pos + k - 1, pre |-> Projected(k), kept |-> model'.kept]
  <2>1. /\ Observed(trace.events, k) = Append(trace.events, event)
        /\ live'.events = Append(live.events, live.pos + k)
    BY <1>3, CallEffects
  <2>2. event \in ObservedEvents
    <3>1. PICK slots \in Survivors(Len(live.cache) + k) : Compacts(k, slots)
      BY <1>3 DEF Forward, Grows
    <3>2. model'.kept \in Records
      BY <3>1, CompactsIsGood DEF Good, Shaped, ModelStates, Records
    <3>3. Projected(k) \in Seq(Nat)
      BY GrownFacts DEF Projected, Good, Shaped, LiveStates
    <3>4. live.pos + k - 1 \in Nat
      BY <1>1
    <3> QED BY <3>2, <3>3, <3>4 DEF ObservedEvents
  <2>3. event.position + 1 = live.pos + k /\ live.pos + k \in Nat
    BY <1>1
  <2> HIDE DEF event
  <2> QED BY <1>1, <2>1, <2>2, <2>3, NoteOne
<1> QED BY <1>2, <1>3

LEMMA PrefillPass1Schedules ==
  ASSUME CaptureInv, ScheduleInv, PrefillPass1
  PROVE ScheduleInv'
<1> USE PlanAssumption
<1>1. PICK prompt \in PromptLengths :
        Forward(prompt) /\ trace' = [trace EXCEPT !.prompt = prompt, !.events = Observed(@, prompt)]
  BY DEF PrefillPass1
<1>2. /\ at = "prefill1" /\ at' = "pass1" /\ UNCHANGED <<plan, replay, target, branch>>
      /\ model = FreshModel /\ live = EmptyState /\ prompt \in Nat \ {0}
  BY DEF PrefillPass1, GoesTo, CaptureInv
<1>3. trace.events = << >> /\ trace.events \in Seq(ObservedEvents) /\ live.events = << >>
  <2>1. trace.events = << >>
    BY <1>2 DEF ScheduleInv, TraceInv
  <2>2. << >> \in Seq(ObservedEvents)
    OBVIOUS
  <2> QED BY <1>2, <2>1, <2>2, Zenon DEF EmptyState
<1>4. Punctual(model', live', prompt)
  BY <1>1, <1>2, PrefillIsPunctual
<1>5. Noted(Observed(trace.events, prompt), live'.events)
  <2>1. Good(model, live) /\ Calls(prompt)
    BY <1>2, FreshIsGood DEF Calls, FreshModel
  <2>2. Noted(trace.events, live.events)
    BY <1>3 DEF Noted
  <2> QED BY <1>1, <1>3, <2>1, <2>2, CallIsNoted
<1>6. trace'.prompt = prompt /\ trace'.events = Observed(trace.events, prompt)
  <2> DEFINE seen == Observed(trace.events, prompt)
  <2>1. /\ trace = [prompt |-> trace.prompt, total |-> trace.total, events |-> trace.events]
        /\ trace' = [trace EXCEPT !.prompt = prompt, !.events = seen]
    BY <1>1 DEF CaptureInv, TraceOK
  <2> HIDE DEF seen
  <2>2. trace'.prompt = prompt /\ trace'.events = seen
    BY <2>1
  <2> QED BY <2>2 DEF seen
<1>7. replay'.capture = None
  BY <1>2 DEF ScheduleInv, PlayInv
<1>8. TraceInv'
  BY <1>2, <1>4, <1>5, <1>6 DEF TraceInv
<1> QED BY <1>2, <1>7, <1>8 DEF ScheduleInv, PlanInv, PlayInv, Planned, Playing, None

LEMMA DecodePass1Schedules ==
  ASSUME CaptureInv, ScheduleInv, DecodePass1
  PROVE ScheduleInv'
<1>1. /\ at = "pass1" /\ Forward(1) /\ trace' = [trace EXCEPT !.events = Observed(@, 1)]
      /\ UNCHANGED <<at, plan, replay, target, branch>>
  BY DEF DecodePass1
<1>2. /\ Good(model, live) /\ Calls(1) /\ trace.prompt \in Nat \ {0}
      /\ trace.events \in Seq(ObservedEvents)
      /\ Punctual(model, live, trace.prompt) /\ Noted(trace.events, live.events)
  BY <1>1 DEF CaptureInv, TraceOK, Calls, ScheduleInv, TraceInv
<1>3. Punctual(model', live', trace.prompt)
  BY <1>1, <1>2, TokenIsPunctual
<1>4. Noted(Observed(trace.events, 1), live'.events)
  BY <1>1, <1>2, CallIsNoted
<1>5. trace'.prompt = trace.prompt /\ trace'.events = Observed(trace.events, 1)
  <2> DEFINE seen == Observed(trace.events, 1)
  <2>1. /\ trace = [prompt |-> trace.prompt, total |-> trace.total, events |-> trace.events]
        /\ trace' = [trace EXCEPT !.events = seen]
    BY <1>1 DEF CaptureInv, TraceOK
  <2> HIDE DEF seen
  <2>2. trace'.prompt = trace.prompt /\ trace'.events = seen
    BY <2>1
  <2> QED BY <2>2 DEF seen
<1>6. replay'.capture = None
  BY <1>1 DEF ScheduleInv, PlayInv
<1>7. TraceInv'
  BY <1>1, <1>3, <1>4, <1>5 DEF TraceInv
<1> QED BY <1>1, <1>6, <1>7 DEF ScheduleInv, PlanInv, PlayInv, Planned, Playing, None

LEMMA StopPass1Schedules ==
  ASSUME CaptureInv, ScheduleInv, NEW next \in {"planning", "dropped"}, StopPass1(next)
  PROVE ScheduleInv'
<1>1. /\ at = "pass1" /\ at' = next /\ trace' = [trace EXCEPT !.total = live.pos]
      /\ UNCHANGED <<model, live, plan, replay, target, branch>>
  BY DEF StopPass1, GoesTo
<1>2. Punctual(model, live, trace.prompt) /\ Noted(trace.events, live.events)
  BY <1>1 DEF ScheduleInv, TraceInv
<1>3. trace'.prompt = trace.prompt /\ trace'.events = trace.events /\ trace'.total = live.pos
  <2>1. trace = [prompt |-> trace.prompt, total |-> trace.total, events |-> trace.events]
    BY DEF CaptureInv, TraceOK
  <2> QED BY <1>1, <2>1
<1>4. TraceInv'
  BY <1>1, <1>2, <1>3 DEF TraceInv
<1>5. replay'.capture = None
  BY <1>1 DEF ScheduleInv, PlayInv
<1> QED BY <1>1, <1>4, <1>5 DEF ScheduleInv, PlanInv, PlayInv, Planned, Playing, None

(* A planned event is one Pass 1 noted, with the horizon's room after it.    *)
LEMMA BuildPlanSchedules ==
  ASSUME CaptureInv, ScheduleInv, BuildPlan
  PROVE ScheduleInv'
<1> USE PlanAssumption
<1>1. /\ at = "planning" /\ at' = "reset" /\ trace' = [trace EXCEPT !.events = EventPositions]
      /\ UNCHANGED <<model, live, replay, target, branch>>
  BY DEF BuildPlan, GoesTo
<1>2. /\ Punctual(model, live, trace.prompt) /\ Noted(trace.events, live.events)
      /\ trace.total = live.pos
      /\ trace.events \in Seq(ObservedEvents) /\ Len(trace.events) \in Nat
      /\ trace.prompt \in Nat /\ trace.total \in Nat
  BY <1>1 DEF ScheduleInv, TraceInv, CaptureInv, TraceOK
<1>3. trace'.prompt = trace.prompt /\ trace'.total = trace.total /\ trace'.events = EventPositions
  <2> DEFINE positions == EventPositions
  <2>1. /\ trace = [prompt |-> trace.prompt, total |-> trace.total, events |-> trace.events]
        /\ trace' = [trace EXCEPT !.events = positions]
    BY <1>1 DEF CaptureInv, TraceOK
  <2> HIDE DEF positions
  <2>2. trace'.prompt = trace.prompt /\ trace'.total = trace.total /\ trace'.events = positions
    BY <2>1
  <2> QED BY <2>2 DEF positions
<1>4. PICK i \in EligibleEvents :
        plan'.position = trace.events[i].position
  BY DEF BuildPlan
<1>5. /\ EventPositions = [j \in 1..Len(trace.events) |-> trace.events[j].position]
      /\ Len(EventPositions) = Len(trace.events) /\ DOMAIN EventPositions = 1..Len(trace.events)
      /\ \A j \in 1..Len(trace.events) :
           EventPositions[j] = trace.events[j].position /\ trace.events[j].position \in Nat
  <2>1. ASSUME NEW j \in 1..Len(trace.events) PROVE trace.events[j].position \in Nat
    <3>1. trace.events[j] \in ObservedEvents
      BY <1>2
    <3> QED BY <3>1 DEF ObservedEvents
  <2> QED BY <1>2, <2>1 DEF EventPositions
<1>6. /\ i \in 1..Len(trace.events)
      /\ (trace.total - 1) - EventPositions[i] >= MinimumFutureTokens
  <2>1. i \in 2..(Len(EventPositions) - 1)
        /\ (trace.total - 1) - EventPositions[i] >= MinimumFutureTokens
    BY DEF EligibleEvents, Eligible
  <2> QED BY <1>2, <1>5, <2>1
<1>7. plan'.position \in Nat /\ plan'.position + 2 + ScoredHorizon <= trace.total
  <2>1. plan'.position = EventPositions[i] /\ EventPositions[i] \in Nat
    BY <1>4, <1>5, <1>6
  <2> QED BY <1>2, <1>6, <2>1
<1>8. After' = live.events
  <2>1. live.events \in Seq(Nat) /\ Len(live.events) = Len(trace.events)
        /\ \A j \in 1..Len(trace.events) : trace.events[j].position + 1 = live.events[j]
    BY <1>2 DEF Noted, Punctual, Scheduled
  <2>2. After' = [j \in 1..Len(trace.events) |-> EventPositions[j] + 1]
    BY <1>3, <1>5 DEF After
  <2> DEFINE f == [j \in 1..Len(trace.events) |-> EventPositions[j] + 1]
  <2>3. f \in [1..Len(trace.events) -> Nat]
    <3>1. \A j \in 1..Len(trace.events) : EventPositions[j] + 1 \in Nat
      <4>1. \A j \in 1..Len(trace.events) : EventPositions[j] \in Nat
        BY <1>5, Zenon
      <4> QED BY <4>1
    <3> QED BY <3>1, Zenon
  <2>4. f \in Seq(Nat) /\ Len(f) = Len(trace.events)
    BY <1>2, <2>3, FunctionIsSeq
  <2>5. \A j \in 1..Len(f) : f[j] = live.events[j]
    BY <1>5, <2>1, <2>4
  <2> HIDE DEF f
  <2>6. f = live.events
    BY <2>1, <2>4, <2>5, SeqsEqual
  <2> QED BY <2>2, <2>6 DEF f
<1>9. PlanInv'
  <2>1. trace.prompt <= trace.total /\ Scheduled(live.events, trace.prompt, trace.total)
    BY <1>2 DEF Punctual
  <2>2. Enough'
    BY <1>3, <1>7 DEF Enough
  <2>3. EventPositions \in Seq(Nat)
    <3>1. EventPositions \in [1..Len(trace.events) -> Nat]
      BY <1>5
    <3> QED BY <1>2, <3>1, FunctionIsSeq
  <2> QED BY <1>3, <1>7, <1>8, <2>1, <2>2, <2>3 DEF PlanInv
<1>10. replay'.capture = None
  BY <1>1 DEF ScheduleInv, PlayInv
<1> QED BY <1>1, <1>9, <1>10 DEF ScheduleInv, TraceInv, PlayInv, Playing, None

(* Once there is a plan, what the schedule says of it no longer changes.     *)
LEMMA PlanStays ==
  ASSUME PlanInv, at \in Planned, UNCHANGED <<trace, plan>>
  PROVE PlanInv'
<1>1. After' = After
  BY DEF After
<1> QED BY <1>1 DEF PlanInv, Enough

LEMMA GivingUpSchedules ==
  ASSUME at' \in {"dropped", "failed"}
  PROVE ScheduleInv'
BY DEF ScheduleInv, TraceInv, PlanInv, PlayInv, Planned, Playing

LEMMA ResetSchedules ==
  ASSUME CaptureInv, ScheduleInv, ResetForPass2
  PROVE ScheduleInv'
<1>1. /\ at = "reset" /\ at' = "prefill2" /\ UNCHANGED <<trace, plan, replay, target, branch>>
  BY DEF ResetForPass2, GoesTo
<1>2. PlanInv'
  BY <1>1, PlanStays DEF ScheduleInv, Planned
<1>3. replay'.capture = None
  BY <1>1 DEF ScheduleInv, PlayInv
<1> QED BY <1>1, <1>2, <1>3 DEF ScheduleInv, TraceInv, PlayInv, Playing, None

LEMMA PrefillPass2Schedules ==
  ASSUME CaptureInv, ScheduleInv, PrefillPass2
  PROVE ScheduleInv'
<1>1. /\ at = "prefill2" /\ at' = "pass2" /\ UNCHANGED <<trace, plan, replay, target, branch>>
      /\ Forward(trace.prompt)
  BY DEF PrefillPass2, GoesTo
<1>2. /\ model = FreshModel /\ live = EmptyState /\ trace.prompt \in Nat \ {0}
      /\ trace.prompt <= trace.total
  BY <1>1 DEF CaptureInv, TraceOK, ScheduleInv, PlanInv, Planned
<1>3. Punctual(model', live', trace.prompt) /\ live'.pos = trace.prompt
  BY <1>1, <1>2, PrefillIsPunctual
<1>4. PlanInv'
  BY <1>1, PlanStays DEF ScheduleInv, Planned
<1>5. replay'.capture = None
  BY <1>1 DEF ScheduleInv, PlayInv
<1>6. Punctual(model', live', trace'.prompt) /\ live'.pos <= trace'.total
  BY <1>1, <1>2, <1>3
<1> QED BY <1>1, <1>4, <1>5, <1>6 DEF ScheduleInv, TraceInv, PlayInv

(* One more replayed token, the planned event's or another.                  *)
LEMMA ReplayedToken ==
  ASSUME CaptureInv, ScheduleInv, at = "pass2", live.pos < trace.total, Forward(1)
  PROVE /\ Punctual(model', live', trace.prompt)
        /\ live'.pos = live.pos + 1 /\ live'.pos <= trace.total
<1>1. /\ Good(model, live) /\ trace.prompt \in Nat \ {0} /\ Punctual(model, live, trace.prompt)
      /\ live.pos \in Nat /\ trace.total \in Nat
  BY DEF CaptureInv, TraceOK, ScheduleInv, PlayInv, Playing, Good, Shaped, LiveStates
<1>2. Punctual(model', live', trace.prompt) /\ live'.pos = live.pos + 1
  BY <1>1, TokenIsPunctual
<1> QED BY <1>1, <1>2

LEMMA ReplayTokenSchedules ==
  ASSUME CaptureInv, ScheduleInv, ReplayToken
  PROVE ScheduleInv'
<1>1. /\ at = "pass2" /\ live.pos < trace.total /\ Forward(1)
      /\ UNCHANGED <<at, trace, plan, replay, target, branch>>
  BY DEF ReplayToken
<1>2. Punctual(model', live', trace'.prompt) /\ live'.pos <= trace'.total
  BY <1>1, ReplayedToken
<1>3. PlanInv'
  BY <1>1, PlanStays DEF ScheduleInv, Planned, Playing
<1>4. replay'.capture # None => Taken(replay.snapshot)'
  BY <1>1 DEF ScheduleInv, PlayInv, Taken, Punctual, Clock, Scheduled, Falls
<1> QED BY <1>1, <1>2, <1>3, <1>4 DEF ScheduleInv, TraceInv, PlayInv

LEMMA TargetIsForward ==
  ASSUME ReplayTarget
  PROVE Forward(1) /\ replay'.snapshot = Snapshot'
<1>1. CASE Grows(1) /\ replay' = [capture |-> Captured(None, TRUE), snapshot |-> Snapshot']
  BY <1>1 DEF Forward
<1>2. ASSUME NEW slots \in Survivors(Len(live.cache) + 1), NEW same \in BOOLEAN, Compacts(1, slots),
             replay' = [capture |-> Captured(slots, same), snapshot |-> Snapshot']
      PROVE Forward(1) /\ replay'.snapshot = Snapshot'
  BY <1>2 DEF Forward
<1> QED BY <1>1, <1>2 DEF ReplayTarget

LEMMA ReplayTargetSchedules ==
  ASSUME CaptureInv, ScheduleInv, ReplayTarget
  PROVE ScheduleInv'
<1>1. /\ at = "pass2" /\ live.pos < trace.total /\ live.pos = plan.position
      /\ UNCHANGED <<at, trace, plan, target, branch>>
      /\ Forward(1) /\ replay'.snapshot = Snapshot'
  BY TargetIsForward DEF ReplayTarget, AtTarget
<1>2. /\ Punctual(model', live', trace'.prompt) /\ live'.pos <= trace'.total
      /\ live'.pos = plan'.position + 1
  BY <1>1, ReplayedToken
<1>3. PlanInv'
  BY <1>1, PlanStays DEF ScheduleInv, Planned, Playing
<1>4. replay'.snapshot.model = model' /\ replay'.snapshot.live = live'
  BY <1>1 DEF Snapshot
<1>5. Taken(replay.snapshot)'
  BY <1>2, <1>4 DEF Taken, Punctual, Clock, Scheduled, Falls
<1> QED BY <1>1, <1>2, <1>3, <1>5 DEF ScheduleInv, TraceInv, PlayInv

LEMMA AcceptReplaySchedules ==
  ASSUME CaptureInv, ScheduleInv, AcceptReplay
  PROVE ScheduleInv'
<1>1. /\ at = "pass2" /\ at' = "compact"
      /\ UNCHANGED <<model, live, trace, plan, replay, target, branch>>
  BY DEF AcceptReplay, ReplayEnds, GoesTo
<1>2. PlanInv'
  BY <1>1, PlanStays DEF ScheduleInv, Planned, Playing
<1>3. Punctual(model', live', trace'.prompt) /\ live'.pos <= trace'.total
  BY <1>1 DEF ScheduleInv, PlayInv, Playing
<1>4. replay'.capture # None => Taken(replay.snapshot)'
  BY <1>1 DEF ScheduleInv, PlayInv, Taken, Punctual, Clock, Scheduled, Falls
<1> QED BY <1>1, <1>2, <1>3, <1>4 DEF ScheduleInv, TraceInv, PlayInv

LEMMA CompactTargetSchedules ==
  ASSUME CaptureInv, ScheduleInv, CompactTarget
  PROVE ScheduleInv'
<1>1. /\ at = "compact" /\ at' = "pairs" /\ UNCHANGED <<model, live, trace, plan, branch>>
      /\ target'.snapshot = replay.snapshot
  BY DEF CompactTarget, GoesTo
<1>2. PlanInv'
  BY <1>1, PlanStays DEF ScheduleInv, Planned, Playing
<1>3. Punctual(model', live', trace'.prompt) /\ live'.pos <= trace'.total
  BY <1>1 DEF ScheduleInv, PlayInv, Playing
<1>4. Taken(target.snapshot)'
  <2>1. Taken(replay.snapshot)
    BY <1>1 DEF ScheduleInv, PlayInv, CaptureInv, ReplayAgrees
  <2> QED BY <1>1, <2>1 DEF Taken, Punctual, Clock, Scheduled, Falls
<1> QED BY <1>1, <1>2, <1>3, <1>4 DEF ScheduleInv, TraceInv, PlayInv

(* A swap changes one entry of the maps, no length, counter or event.        *)
LEMMA SwapIsPunctual ==
  ASSUME NEW s, Good(s.model, s.live), NEW prompt, Punctual(s.model, s.live, prompt),
         NEW slot, NEW contents, NEW label
  PROVE LET t == Swapped(s, slot, contents, label)
        IN Punctual(t.model, t.live, prompt) /\ t.live.pos = s.live.pos
<1> DEFINE t == Swapped(s, slot, contents, label)
<1> DEFINE cache == [s.live.cache EXCEPT ![slot] = contents]
<1> DEFINE positions == [s.live.positions EXCEPT ![slot] = label]
<1> DEFINE kept == IF s.model.kept = << >> THEN s.model.kept
                   ELSE [s.model.kept EXCEPT ![slot] = label]
<1>1. /\ t.model = [s.model EXCEPT !.kept = kept]
      /\ t.live = [s.live EXCEPT !.cache = cache, !.positions = positions]
  BY DEF Swapped
<1>2. s.model \in ModelStates /\ s.live \in LiveStates /\ s.live.cache \in Seq(Nat)
  BY DEF Good, Shaped, LiveStates
<1>3. Len(cache) = Len(s.live.cache)
  BY <1>2
<1> HIDE DEF cache, positions, kept, t
<1>4. /\ t.model.length = s.model.length
      /\ t.live.pos = s.live.pos /\ t.live.events = s.live.events /\ t.live.cache = cache
  BY <1>1, <1>2 DEF ModelStates, LiveStates
<1>5. Punctual(t.model, t.live, prompt) /\ t.live.pos = s.live.pos
  BY <1>3, <1>4 DEF Punctual, Clock
<1> QED BY <1>5 DEF t

LEMMA StartBranchSchedules ==
  ASSUME CaptureInv, ScheduleInv, StartBranch
  PROVE ScheduleInv'
<1> USE PlanAssumption
<1> DEFINE kind == Branches[Evaluated + 1]
<1> DEFINE s == target.snapshot
<1>1. /\ at = "pairs" /\ at' = "branch" /\ UNCHANGED <<trace, plan, replay, target>>
      /\ branch'.fed = 0
      /\ model' = BranchSource(kind).model /\ live' = BranchSource(kind).live
  BY DEF StartBranch, Restore, GoesTo
<1>2. /\ Taken(s) /\ Good(s.model, s.live) /\ Enough
      /\ plan.position \in Nat /\ trace.total \in Nat
  BY <1>1 DEF ScheduleInv, PlayInv, PlanInv, Planned, Playing, CaptureInv, TargetOK, TraceOK
<1> HIDE DEF kind, s
<1>3. /\ Punctual(BranchSource(kind).model, BranchSource(kind).live, trace.prompt)
      /\ BranchSource(kind).live.pos = plan.position + 1
  <2>1. CASE ~kind.swapped
    BY <1>2, <2>1 DEF BranchSource, Taken, s
  <2>2. CASE kind.swapped
    <3>1. BranchSource(kind) = Swapped(s, target.slot, InSlot(kind).contents, InSlot(kind).label)
      BY <2>2 DEF BranchSource, s
    <3> QED BY <1>2, <3>1, SwapIsPunctual DEF Taken
  <2> QED BY <2>1, <2>2
<1>4. /\ Punctual(model', live', trace'.prompt)
      /\ live'.pos = plan'.position + 1 + branch'.fed
      /\ live'.pos <= trace'.total /\ branch'.fed <= ScoredHorizon
  BY <1>1, <1>2, <1>3 DEF Enough
<1>5. PlanInv'
  BY <1>1, PlanStays DEF ScheduleInv, Planned, Playing
<1>6. Taken(target.snapshot)'
  BY <1>1, <1>2 DEF Taken, Punctual, Clock, Scheduled, Falls, s
<1> QED BY <1>1, <1>4, <1>5, <1>6 DEF ScheduleInv, TraceInv, PlayInv

LEMMA BranchStepSchedules ==
  ASSUME CaptureInv, ScheduleInv, BranchStep
  PROVE ScheduleInv'
<1> USE PlanAssumption
<1>1. /\ at = "branch" /\ Forward(1) /\ branch' = [branch EXCEPT !.fed = @ + 1]
      /\ branch.fed < ScoredHorizon /\ UNCHANGED <<at, trace, plan, replay, target>>
  BY DEF BranchStep
<1>2. /\ Good(model, live) /\ trace.prompt \in Nat \ {0} /\ Punctual(model, live, trace.prompt)
      /\ live.pos \in Nat /\ trace.total \in Nat /\ plan.position \in Nat
      /\ live.pos = plan.position + 1 + branch.fed /\ Enough
      /\ branch \in [ordinal : 1..4, fed : Nat]
  BY <1>1 DEF CaptureInv, TraceOK, BranchOK, ScheduleInv, PlayInv, PlanInv, Planned, Playing,
              Good, Shaped, LiveStates
<1>3. Punctual(model', live', trace.prompt) /\ live'.pos = live.pos + 1
  BY <1>1, <1>2, TokenIsPunctual
<1>4. branch'.fed = branch.fed + 1 /\ branch.fed \in Nat
  BY <1>1, <1>2
<1>5. /\ Punctual(model', live', trace'.prompt)
      /\ live'.pos = plan'.position + 1 + branch'.fed
      /\ live'.pos <= trace'.total /\ branch'.fed <= ScoredHorizon
  BY <1>1, <1>2, <1>3, <1>4 DEF Enough
<1>6. PlanInv'
  BY <1>1, PlanStays DEF ScheduleInv, Planned, Playing
<1>7. Taken(target.snapshot)'
  BY <1>1 DEF ScheduleInv, PlayInv, Taken, Punctual, Clock, Scheduled, Falls
<1> QED BY <1>1, <1>5, <1>6, <1>7 DEF ScheduleInv, TraceInv, PlayInv

LEMMA EndBranchSchedules ==
  ASSUME CaptureInv, ScheduleInv, EndBranch
  PROVE ScheduleInv'
<1>1. /\ at = "branch" /\ at' \in {"done", "pairs"}
      /\ UNCHANGED <<model, live, trace, plan, replay, target, branch>>
  BY DEF EndBranch, GoesTo
<1>2. PlanInv'
  BY <1>1, PlanStays DEF ScheduleInv, Planned, Playing
<1>3. Punctual(model', live', trace'.prompt) /\ live'.pos <= trace'.total
  BY <1>1 DEF ScheduleInv, PlayInv, Playing
<1>4. Taken(target.snapshot)'
  BY <1>1 DEF ScheduleInv, PlayInv, Taken, Punctual, Clock, Scheduled, Falls
<1> QED BY <1>1, <1>2, <1>3, <1>4 DEF ScheduleInv, TraceInv, PlayInv

LEMMA StutterSchedules ==
  ASSUME ScheduleInv, UNCHANGED vars
  PROVE ScheduleInv'
<1>1. After' = After
  BY DEF vars, After
<1> QED BY <1>1 DEF vars, ScheduleInv, TraceInv, PlanInv, PlayInv, Planned, Playing, Enough, Taken

LEMMA ScheduleInvariant == Spec => []ScheduleInv
<1>1. CaptureInv /\ ScheduleInv /\ [Next]_vars => ScheduleInv'
  <2> SUFFICES ASSUME CaptureInv, ScheduleInv, [Next]_vars PROVE ScheduleInv'
    OBVIOUS
  <2>1. CASE PrefillPass1 BY <2>1, PrefillPass1Schedules
  <2>2. CASE DecodePass1 BY <2>2, DecodePass1Schedules
  <2>3. CASE StopPass1("planning") \/ StopPass1("dropped") BY <2>3, StopPass1Schedules
  <2>4. CASE BuildPlan BY <2>4, BuildPlanSchedules
  <2>5. CASE PlanFails \/ RejectReplay \/ CompactTargetFails
    BY <2>5, GivingUpSchedules DEF PlanFails, RejectReplay, CompactTargetFails, GoesTo
  <2>6. CASE ResetForPass2 BY <2>6, ResetSchedules
  <2>7. CASE PrefillPass2 BY <2>7, PrefillPass2Schedules
  <2>8. CASE ReplayToken BY <2>8, ReplayTokenSchedules
  <2>9. CASE ReplayTarget BY <2>9, ReplayTargetSchedules
  <2>10. CASE AcceptReplay BY <2>10, AcceptReplaySchedules
  <2>11. CASE CompactTarget BY <2>11, CompactTargetSchedules
  <2>12. CASE StartBranch BY <2>12, StartBranchSchedules
  <2>13. CASE BranchStep BY <2>13, BranchStepSchedules
  <2>14. CASE EndBranch BY <2>14, EndBranchSchedules
  <2>15. CASE Finished \/ UNCHANGED vars BY <2>15, StutterSchedules DEF Finished
  <2> QED BY <2>1, <2>2, <2>3, <2>4, <2>5, <2>6, <2>7, <2>8, <2>9, <2>10, <2>11, <2>12,
             <2>13, <2>14, <2>15 DEF Next
<1> QED BY <1>1, InitSchedules, CaptureInvariant, PTL DEF Spec

(* Pass 2 and every branch compact on the calls where Pass 1 saw it, for     *)
(* every prompt, whatever each compaction keeps.                             *)
THEOREM ReplaysFollowTheTrace == Spec => []ReplayKeepsSchedule
<1>1. CaptureInv /\ ScheduleInv => ReplayKeepsSchedule
  <2> SUFFICES ASSUME CaptureInv, ScheduleInv, at \in Planned \ {"reset"}
               PROVE /\ Len(live.events) <= Len(trace.events)
                     /\ \A i \in 1..Len(trace.events) :
                          IF trace.events[i] + 1 <= live.pos
                          THEN i <= Len(live.events) /\ live.events[i] = trace.events[i] + 1
                          ELSE i > Len(live.events)
    BY DEF ReplayKeepsSchedule, Planned, Playing
  <2>1. /\ trace.prompt \in Nat \ {0} /\ trace.total \in Nat
        /\ Scheduled(After, trace.prompt, trace.total) /\ trace.prompt <= trace.total
    BY DEF ScheduleInv, PlanInv, CaptureInv, TraceOK, Planned, Playing
  <2>2. PICK p \in Nat : p <= trace.total /\ Scheduled(live.events, trace.prompt, p)
                         /\ \A i \in 1..Len(After) : After[i] <= p <=> After[i] <= live.pos
    <3>1. CASE at \in Playing
      <4>1. live.pos \in Nat
        BY DEF CaptureInv, Good, Shaped, LiveStates
      <4> QED BY <3>1, <4>1 DEF ScheduleInv, PlayInv, Punctual
    <3>2. CASE at = "prefill2"
      <4>1. live.events = << >> /\ live.pos = 0
        BY <3>2 DEF CaptureInv, EmptyState
      <4>2. trace.prompt - 1 \in Nat /\ trace.prompt - 1 <= trace.total
        BY <2>1
      <4>3. Scheduled(live.events, trace.prompt, trace.prompt - 1)
        BY <2>1, <4>1, NothingScheduled
      <4>4. ASSUME NEW i \in 1..Len(After)
            PROVE After[i] <= trace.prompt - 1 <=> After[i] <= live.pos
        <5>1. After \in Seq(Nat) /\ Falls(After[i], trace.prompt)
          BY <2>1 DEF Scheduled
        <5>2. After[i] \in Nat /\ After[i] >= trace.prompt
          BY <2>1, <5>1 DEF Falls
        <5> QED BY <2>1, <4>1, <5>2
      <4> QED BY <4>2, <4>3, <4>4
    <3> QED BY <3>1, <3>2 DEF Planned
  <2>3. /\ Len(live.events) <= Len(After)
        /\ \A i \in 1..Len(After) :
             IF After[i] <= p THEN i <= Len(live.events) /\ live.events[i] = After[i]
             ELSE i > Len(live.events)
    BY <2>1, <2>2, SameSchedule
  <2>4. /\ Len(After) = Len(trace.events)
        /\ \A i \in 1..Len(After) : After[i] = trace.events[i] + 1
    <3>1. trace.events \in Seq(Nat) /\ Len(trace.events) \in Nat
      BY DEF ScheduleInv, PlanInv, Planned, Playing
    <3> QED BY <3>1 DEF After
  <2> QED BY <2>2, <2>3, <2>4
<1> QED BY <1>1, CaptureInvariant, ScheduleInvariant, PTL

(* A planned event leaves room for the bridge token and the whole horizon:   *)
(* no branch runs off the trace, whatever the horizon.                       *)
THEOREM BranchesStayOnTheTrace == Spec => []HorizonFits
<1>1. ScheduleInv => HorizonFits
  BY DEF ScheduleInv, PlanInv, PlayInv, Planned, Playing, HorizonFits
<1> QED BY <1>1, ScheduleInvariant, PTL

-----------------------------------------------------------------------------
(* A capture whose map was right and whose check passed records what the     *)
(* compaction left in the cache, whatever the selection.                     *)
THEOREM ParityCheckProtects == Spec => []ParityProtects
<1>1. Init => ParityProtects
  BY DEF Init, ParityProtects, None
<1>2. ParityProtects /\ [Next]_vars => ParityProtects'
  <2> SUFFICES ASSUME ParityProtects, [Next]_vars PROVE ParityProtects'
    OBVIOUS
  <2>1. CASE UNCHANGED replay
    BY <2>1 DEF ParityProtects
  <2>2. CASE ReplayTarget
    <3>1. ASSUME Grows(1), replay' = [capture |-> Captured(None, TRUE), snapshot |-> Snapshot']
          PROVE ParityProtects'
      <4>1. ~Fires(1) /\ replay'.capture = Captured(None, TRUE)
        BY <3>1 DEF Grows
      <4>2. CASE ~Attempts
        BY <4>1, <4>2 DEF Captured, ParityProtects
      <4>3. CASE Attempts
        <5>1. replay'.capture.fired = Fires(1)
          BY <4>1, <4>3 DEF Captured
        <5> QED BY <4>1, <5>1 DEF ParityProtects
      <4> QED BY <4>2, <4>3
    <3>2. ASSUME NEW slots \in Survivors(Len(live.cache) + 1), NEW same \in BOOLEAN,
                 Compacts(1, slots),
                 replay' = [capture |-> Captured(slots, same), snapshot |-> Snapshot']
          PROVE ParityProtects'
      <4>1. Fires(1) /\ Attempts
        BY <3>2 DEF Compacts, Fires
      <4>2. live' = [cache |-> Gathered(Grown(live.cache, 1), slots), positions |-> Recorded(slots),
                     events |-> Append(live.events, live.pos + 1), pos |-> live.pos + 1]
        BY <3>2 DEF Compacts
      <4>3. replay'.snapshot.live.cache = Gathered(Grown(live.cache, 1), slots)
        BY <3>2, <4>2 DEF Snapshot
      <4>4. /\ replay'.capture.pre = Projected(1)
            /\ replay'.capture.contents = Grown(live.cache, 1)
            /\ replay'.capture.observed = model'.kept
            /\ replay'.capture.parity
                 = (~Fires(1) \/ (same /\ Gathered(Projected(1), slots) = model'.kept))
        BY <3>2, <4>1, Zenon DEF Captured
      <4> SUFFICES ASSUME replay'.capture.parity, replay'.capture.pre = replay'.capture.contents
                   PROVE replay'.capture.observed = replay'.snapshot.live.cache
        BY DEF ParityProtects
      <4>5. Gathered(Projected(1), slots) = model'.kept
        BY <4>1, <4>4, Zenon
      <4> QED BY <4>3, <4>4, <4>5
    <3> QED BY <2>2, <3>1, <3>2 DEF ReplayTarget
  <2>3. CASE CompactTarget
    BY <2>3 DEF CompactTarget, ParityProtects
  <2> QED BY <2>1, <2>2, <2>3
          DEF Next, vars, PrefillPass1, DecodePass1, StopPass1, BuildPlan, PlanFails,
              ResetForPass2, PrefillPass2, ReplayToken, AcceptReplay, RejectReplay,
              CompactTargetFails, StartBranch, BranchStep, EndBranch, Finished
<1> QED BY <1>1, <1>2, PTL DEF Spec

-----------------------------------------------------------------------------
(* What a swap starts from: the tokens Pass 1 chose, in the slots and with   *)
(* the contents of Pass 2, and a cache that has just been compacted.         *)
SwapInv ==
  /\ replay.capture # None /\ replay.capture.fired => Len(replay.snapshot.live.cache) = Budget
  /\ at \in {"pairs", "branch"} =>
       /\ target.candidate.label = plan.candidate
       /\ target.donor.label = plan.donor
       /\ target.snapshot.model.kept = plan.kept
       /\ Len(target.snapshot.live.cache) = Budget
  /\ at = "branch" /\ branch.fed = 0 =>
       /\ model = BranchSource(Branches[branch.ordinal]).model
       /\ live = BranchSource(Branches[branch.ordinal]).live

LEMMA ReplayTargetSwaps ==
  ASSUME CaptureInv, SwapInv, ReplayTarget
  PROVE SwapInv'
<1>1. at = "pass2" /\ UNCHANGED <<at, trace, plan, target, branch>>
  BY DEF ReplayTarget
<1>2. Good(model, live) /\ Calls(1)
  BY DEF CaptureInv, Calls
<1>3. Forward(1) /\ replay'.snapshot.live = live'
  BY TargetIsForward DEF Snapshot
<1>4. replay'.capture # None /\ replay'.capture.fired => Fires(1)
  <2>1. ASSUME Grows(1), replay' = [capture |-> Captured(None, TRUE), snapshot |-> Snapshot'],
               Attempts
        PROVE replay'.capture.fired = Fires(1)
    BY <2>1 DEF Captured
  <2>2. ASSUME NEW slots, NEW same, Compacts(1, slots) PROVE Fires(1)
    BY <2>2 DEF Compacts
  <2>3. ASSUME ~Attempts, Grows(1),
               replay' = [capture |-> Captured(None, TRUE), snapshot |-> Snapshot']
        PROVE replay'.capture = None
    BY <2>3 DEF Captured
  <2> QED BY <2>1, <2>2, <2>3 DEF ReplayTarget
<1>5. Fires(1) => Len(live'.cache) = Budget
  BY <1>2, <1>3, CallEffects
<1> QED BY <1>1, <1>3, <1>4, <1>5 DEF SwapInv

LEMMA CompactTargetSwaps ==
  ASSUME CaptureInv, SwapInv, CompactTarget
  PROVE SwapInv'
<1>1. /\ at = "compact" /\ at' = "pairs" /\ UNCHANGED <<model, live, trace, plan, branch>>
      /\ target'.candidate = Selected(plan.candidate) /\ target'.donor = Selected(plan.donor)
      /\ target'.snapshot = replay.snapshot
      /\ replay'.capture = None
  BY DEF CompactTarget, GoesTo
<1>2. replay.capture # None /\ replay.capture.fired /\ replay.capture.observed = plan.kept
  BY <1>1 DEF CaptureInv, ReplayAgrees
<1>3. replay.snapshot.model.kept = plan.kept
  BY <1>2 DEF CaptureInv, ReplayOK, Faithful
<1>4. Len(replay.snapshot.live.cache) = Budget
  BY <1>2 DEF SwapInv
<1>5. target'.candidate.label = plan.candidate /\ target'.donor.label = plan.donor
  BY <1>1 DEF Selected
<1> QED BY <1>1, <1>3, <1>4, <1>5 DEF SwapInv

LEMMA StartBranchSwaps ==
  ASSUME CaptureInv, SwapInv, StartBranch
  PROVE SwapInv'
<1> DEFINE kind == Branches[Evaluated + 1]
<1>1. /\ at = "pairs" /\ at' = "branch" /\ UNCHANGED <<trace, plan, replay, target>>
      /\ branch'.ordinal = Evaluated + 1
      /\ model' = BranchSource(kind).model /\ live' = BranchSource(kind).live
  BY DEF StartBranch, Restore, GoesTo
<1>2. BranchSource(Branches[branch.ordinal])' = BranchSource(kind)
  <2>1. target' = target /\ Branches[branch'.ordinal] = kind
    BY <1>1
  <2> HIDE DEF kind
  <2> QED BY <2>1 DEF BranchSource, InSlot, Swapped, Branches
<1> HIDE DEF kind
<1>3. /\ model' = BranchSource(Branches[branch.ordinal]).model'
      /\ live' = BranchSource(Branches[branch.ordinal]).live'
  BY <1>1, <1>2
<1> QED BY <1>1, <1>3 DEF SwapInv

LEMMA SwapInvariant == Spec => []SwapInv
<1>1. Init => SwapInv
  BY DEF Init, SwapInv, None
<1>2. CaptureInv /\ SwapInv /\ [Next]_vars => SwapInv'
  <2> SUFFICES ASSUME CaptureInv, SwapInv, [Next]_vars PROVE SwapInv'
    OBVIOUS
  <2>1. CASE UNCHANGED <<replay, target>> /\ at' \notin {"pairs", "branch"}
    BY <2>1 DEF SwapInv
  <2>2. CASE ReplayTarget
    BY <2>2, ReplayTargetSwaps
  <2>3. CASE CompactTarget
    BY <2>3, CompactTargetSwaps
  <2>4. CASE StartBranch
    BY <2>4, StartBranchSwaps
  <2>5. CASE BranchStep
    <3>1. branch' = [branch EXCEPT !.fed = @ + 1] /\ branch \in [ordinal : 1..4, fed : Nat]
      BY <2>5 DEF BranchStep, CaptureInv, BranchOK
    <3>2. branch'.fed # 0
      BY <3>1
    <3> QED BY <2>5, <3>2 DEF BranchStep, SwapInv
  <2>6. CASE EndBranch
    BY <2>6 DEF EndBranch, GoesTo, SwapInv
  <2>7. CASE Finished \/ UNCHANGED vars
    BY <2>7 DEF Finished, vars, SwapInv, BranchSource, InSlot, Swapped, Branches
  <2> QED BY <2>1, <2>2, <2>3, <2>4, <2>5, <2>6, <2>7
          DEF Next, GoesTo, PrefillPass1, DecodePass1, StopPass1, BuildPlan, PlanFails,
              ResetForPass2, PrefillPass2, ReplayToken, AcceptReplay, RejectReplay,
              CompactTargetFails
<1> QED BY <1>1, <1>2, CaptureInvariant, PTL DEF Spec

(* A swapped branch differs from the baseline in the planned donor's slot    *)
(* only, which then holds the planned candidate, evicted by that compaction  *)
(* and nowhere else in the cache; a no-op branch does not differ at all.     *)
THEOREM SwapIsOneToken == Spec => []SwapChangesOneToken
<1>1. CaptureInv /\ ScheduleInv /\ SwapInv => SwapChangesOneToken
  <2> SUFFICES ASSUME CaptureInv, ScheduleInv, SwapInv,
                      at = "branch", branch.fed = 0, ~model.shuffled
               PROVE LET before == target.snapshot.live
                         kind == Branches[branch.ordinal]
                     IN /\ before.pos = plan.position + 1
                        /\ IF kind.swapped /\ kind.pair = "real"
                           THEN /\ before.cache[target.slot] = plan.donor
                                /\ plan.candidate \notin Entries(before.cache)
                                /\ live.cache = [before.cache EXCEPT ![target.slot] = plan.candidate]
                           ELSE live.cache = before.cache
    BY DEF SwapChangesOneToken
  <2> USE RkvAssumption
  <2> DEFINE s == target.snapshot
  <2> DEFINE slot == target.slot
  <2> DEFINE kind == Branches[branch.ordinal]
  <2>1. s.live.pos = plan.position + 1
    BY DEF ScheduleInv, PlayInv, Taken
  <2>2. /\ target.candidate.label = plan.candidate /\ target.donor.label = plan.donor
        /\ s.model.kept = plan.kept /\ Len(s.live.cache) = Budget
        /\ model = BranchSource(kind).model /\ live = BranchSource(kind).live
    BY DEF SwapInv
  <2>3. /\ Good(s.model, s.live) /\ s.model.kept # << >>
        /\ Fits(s.model, slot, target.candidate.contents, target.candidate.label)
        /\ Fits(s.model, slot, target.donor.contents, target.donor.label)
    BY DEF CaptureInv, TargetOK
  <2>4. plan.candidate \notin Entries(plan.kept) /\ plan.donor \in Entries(plan.kept)
    BY DEF CaptureInv, PlanOK
  <2> HIDE DEF s, slot, kind
  <2>5. ASSUME NEW contents, NEW label, s.model \in ModelStates, s.live \in LiveStates
        PROVE /\ Swapped(s, slot, contents, label).model.shuffled = s.model.shuffled
              /\ Swapped(s, slot, contents, label).live.cache = [s.live.cache EXCEPT ![slot] = contents]
    <3> DEFINE cache == [s.live.cache EXCEPT ![slot] = contents]
    <3> DEFINE positions == [s.live.positions EXCEPT ![slot] = label]
    <3> DEFINE kept == IF s.model.kept = << >> THEN s.model.kept
                       ELSE [s.model.kept EXCEPT ![slot] = label]
    <3> DEFINE t == Swapped(s, slot, contents, label)
    <3>1. /\ t.model = [s.model EXCEPT !.kept = kept]
          /\ t.live = [s.live EXCEPT !.cache = cache, !.positions = positions]
      BY DEF Swapped
    <3> HIDE DEF cache, positions, kept, t
    <3>2. t.model.shuffled = s.model.shuffled /\ t.live.cache = cache
      BY <2>5, <3>1 DEF ModelStates, LiveStates
    <3> QED BY <3>2 DEF t, cache
  <2>6. /\ s.model \in ModelStates /\ s.live \in LiveStates /\ s.live.cache \in Seq(Nat)
        /\ slot \in 1..Budget
    BY <2>3 DEF Good, Shaped, LiveStates, Fits
  <2>7. /\ kind.swapped => BranchSource(kind) = Swapped(s, slot, InSlot(kind).contents, InSlot(kind).label)
        /\ ~kind.swapped => BranchSource(kind) = s
    BY DEF BranchSource, s, slot
  <2>8. ~s.model.shuffled
    <3>1. ~BranchSource(kind).model.shuffled
      BY <2>2
    <3>2. CASE kind.swapped
      <4> DEFINE contents == InSlot(kind).contents
                 label == InSlot(kind).label
      <4> HIDE DEF contents, label
      <4>1. BranchSource(kind) = Swapped(s, slot, contents, label)
        BY <2>7, <3>2 DEF contents, label
      <4>2. Swapped(s, slot, contents, label).model.shuffled = s.model.shuffled
        BY <2>5, <2>6
      <4> QED BY <3>1, <4>1, <4>2
    <3>3. CASE ~kind.swapped
      BY <2>7, <3>1, <3>3
    <3> QED BY <3>2, <3>3
  <2>9. /\ \A j \in 1..Budget : s.live.cache[j] = s.model.kept[j]
        /\ Len(s.model.kept) = Budget
    BY <2>3, <2>8 DEF Good, Named, Shaped
  <2>10. Entries(s.live.cache) = Entries(plan.kept)
    BY <2>2, <2>9 DEF Entries
  <2>11. /\ target.donor.contents = plan.donor /\ target.candidate.contents = plan.candidate
         /\ s.live.cache[slot] = plan.donor
    <3>1. target.donor.contents = plan.donor /\ target.candidate.contents = plan.candidate
      BY <2>2, <2>3, <2>8 DEF Fits
    <3>2. plan.donor = s.model.kept[slot]
      BY <2>2, <2>3, <2>4, <2>8 DEF Fits
    <3> QED BY <2>6, <2>9, <3>1, <3>2
  <2>12. CASE ~kind.swapped
    BY <2>1, <2>2, <2>7, <2>12 DEF s, kind
  <2>13. CASE kind.swapped /\ kind.pair = "real"
    <3>1. live.cache = [s.live.cache EXCEPT ![slot] = plan.candidate]
      BY <2>2, <2>5, <2>6, <2>7, <2>11, <2>13 DEF InSlot
    <3>2. plan.candidate \notin Entries(s.live.cache)
      BY <2>4, <2>10
    <3> QED BY <2>1, <2>11, <2>13, <3>1, <3>2 DEF s, kind, slot
  <2>14. CASE kind.swapped /\ kind.pair # "real"
    <3>1. live.cache = [s.live.cache EXCEPT ![slot] = plan.donor]
      BY <2>2, <2>5, <2>6, <2>7, <2>11, <2>14 DEF InSlot
    <3>2. live.cache = s.live.cache
      <4>1. /\ s.live.cache \in Seq(Nat) /\ s.live.cache[slot] = plan.donor
        BY <2>6, <2>11
      <4> QED BY <3>1, <4>1, SMTT(30)
    <3> QED BY <2>1, <2>14, <3>2 DEF s, kind
  <2> QED BY <2>12, <2>13, <2>14
<1> QED BY <1>1, CaptureInvariant, ScheduleInvariant, SwapInvariant, PTL

-----------------------------------------------------------------------------
(* The length of the cache as a function of the prompt and the position:     *)
(* since the last multiple of the distance the cache has grown by a token a  *)
(* call, from the budget if a compaction fell there.                         *)
ExactLength(prompt, pos) ==
  LET since == (pos - 1) % DivideLength
  IN IF prompt < pos - since /\ Budget <= pos - since THEN Budget + since
     ELSE IF Budget <= prompt THEN Budget + (pos - prompt)
     ELSE pos

LEMMA ExactAtPrompt ==
  ASSUME NEW prompt \in Nat \ {0}
  PROVE /\ ExactLength(prompt, prompt) = Least(prompt, Budget)
        /\ ExactLength(prompt, prompt) = IF Falls(prompt, prompt) THEN Budget ELSE prompt
<1> USE RkvAssumption
<1> DEFINE since == (prompt - 1) % DivideLength
<1>1. since \in 0..(DivideLength - 1)
  <2>1. prompt - 1 \in Int
    OBVIOUS
  <2> QED BY <2>1, Remainder
<1>2. ExactLength(prompt, prompt)
        = IF prompt < prompt - since /\ Budget <= prompt - since THEN Budget + since
          ELSE IF Budget <= prompt THEN Budget + (prompt - prompt) ELSE prompt
  BY DEF ExactLength
<1> HIDE DEF since
<1>3. Falls(prompt, prompt) <=> prompt >= Budget
  BY DEF Falls
<1> QED BY <1>1, <1>2, <1>3 DEF Least

LEMMA ExactGrows ==
  ASSUME NEW prompt \in Nat \ {0}, NEW pos \in Nat, prompt <= pos
  PROVE /\ ExactLength(prompt, pos) \in Nat
        /\ ExactLength(prompt, pos) = pos \/ (Budget <= ExactLength(prompt, pos) /\ Budget <= pos)
        /\ ExactLength(prompt, pos + 1)
             = IF Falls(pos + 1, prompt) THEN Budget ELSE ExactLength(prompt, pos) + 1
<1> USE RkvAssumption
<1> DEFINE since == (pos - 1) % DivideLength
<1> DEFINE next == pos % DivideLength
<1>1. since \in 0..(DivideLength - 1) /\ next \in 0..(DivideLength - 1)
  <2>1. pos - 1 \in Int /\ pos \in Int
    OBVIOUS
  <2> QED BY <2>1, Remainder
<1>2. next # 0 => since + 1 = next
  BY NoMultipleBetween
<1>3. (pos + 1) - 1 = pos
  OBVIOUS
<1>4. ExactLength(prompt, pos)
        = IF prompt < pos - since /\ Budget <= pos - since THEN Budget + since
          ELSE IF Budget <= prompt THEN Budget + (pos - prompt) ELSE pos
  BY DEF ExactLength
<1>5. ExactLength(prompt, pos + 1)
        = IF prompt < pos + 1 - next /\ Budget <= pos + 1 - next THEN Budget + next
          ELSE IF Budget <= prompt THEN Budget + (pos + 1 - prompt) ELSE pos + 1
  BY <1>3 DEF ExactLength
<1>6. Falls(pos + 1, prompt) <=> pos + 1 >= Budget /\ next = 0
  <2>1. pos + 1 # prompt /\ pos + 1 > prompt
    OBVIOUS
  <2> QED BY <1>3, <2>1 DEF Falls
<1> HIDE DEF since, next
<1>7. /\ ExactLength(prompt, pos) \in Nat
      /\ ExactLength(prompt, pos) = pos \/ (Budget <= ExactLength(prompt, pos) /\ Budget <= pos)
  BY <1>1, <1>4
<1>8. CASE next = 0
  BY <1>1, <1>4, <1>5, <1>6, <1>8
<1>9. CASE next # 0
  <2>1. since + 1 = next
    BY <1>2, <1>9
  <2> QED BY <1>1, <1>4, <1>5, <1>6, <1>9, <2>1
<1> QED BY <1>7, <1>8, <1>9

(* The prediction without a model gives that length at every position, and   *)
(* counts an event only where a compaction falls.                            *)
LEMMA WalkIsExact ==
  ASSUME NEW prompt \in Nat \ {0}, NEW last \in Nat, prompt <= last
  PROVE \A i \in 0..(last - prompt) :
          /\ Walk(prompt, last)[i].length = ExactLength(prompt, prompt + i)
          /\ Walk(prompt, last)[i].event => Falls(prompt + i, prompt)
<1> USE RkvAssumption
<1> DEFINE n == last - prompt
<1> DEFINE Exact(i) == ExactLength(prompt, prompt + i)
<1> DEFINE Call(i, grown) ==
      IF i = 0
      THEN [length |-> Least(prompt, Budget), event |-> prompt > Budget]
      ELSE IF Divides(prompt + i - 1)
           THEN [length |-> Least(grown, Budget), event |-> grown > Budget]
           ELSE [length |-> grown, event |-> FALSE]
<1> DEFINE Body(f) == [i \in 0..n |-> Call(i, f[i - 1].length + 1)]
<1>1. Walk(prompt, last) = CHOOSE f : f = Body(f)
  BY DEF Walk
<1>2. n \in Nat
  OBVIOUS
<1>3. Call(0, Exact(0 - 1) + 1).length = Exact(0) /\ \A grown : Call(0, grown).length = Exact(0)
  <2>1. prompt + 0 = prompt
    OBVIOUS
  <2> QED BY <2>1, ExactAtPrompt
<1>4. ASSUME NEW i \in 0..n, i # 0
      PROVE Call(i, Exact(i - 1) + 1).length = Exact(i)
  <2> DEFINE pos == prompt + i - 1
  <2>1. pos \in Nat /\ prompt <= pos /\ pos + 1 = prompt + i /\ pos = prompt + (i - 1)
        /\ (pos + 1) - 1 = pos /\ pos + 1 # prompt /\ pos + 1 > prompt
    BY <1>4
  <2> HIDE DEF pos
  <2>2. /\ ExactLength(prompt, pos) \in Nat
        /\ ExactLength(prompt, pos) = pos
           \/ (Budget <= ExactLength(prompt, pos) /\ Budget <= pos)
        /\ ExactLength(prompt, pos + 1)
             = IF Falls(pos + 1, prompt) THEN Budget ELSE ExactLength(prompt, pos) + 1
    BY <2>1, ExactGrows
  <2>3. Exact(i) = ExactLength(prompt, pos + 1) /\ Exact(i - 1) = ExactLength(prompt, pos)
    BY <2>1
  <2>4. Falls(pos + 1, prompt) <=> pos + 1 >= Budget /\ Divides(pos)
    BY <2>1 DEF Falls, Divides
  <2>5. Call(i, Exact(i - 1) + 1).length
          = IF Divides(pos) THEN Least(Exact(i - 1) + 1, Budget) ELSE Exact(i - 1) + 1
    BY <1>4 DEF pos
  <2> HIDE DEF Exact, Call
  <2> QED BY <2>1, <2>2, <2>3, <2>4, <2>5 DEF Least
<1> DEFINE Solution == [i \in 0..n |-> Call(i, Exact(i - 1) + 1)]
<1> HIDE DEF Exact
<1>5. ASSUME NEW i \in 0..n PROVE Solution[i].length = Exact(i)
  <2> HIDE DEF Call
  <2>1. Solution[i] = Call(i, Exact(i - 1) + 1)
    OBVIOUS
  <2> QED BY <1>3, <1>4, <2>1
<1>6. Solution = Body(Solution)
  <2>1. ASSUME NEW i \in 0..n
        PROVE Call(i, Exact(i - 1) + 1) = Call(i, Solution[i - 1].length + 1)
    <3>1. CASE i = 0
      BY <3>1
    <3>2. CASE i # 0
      <4>1. i - 1 \in 0..n
        BY <1>2, <3>2
      <4>2. Solution[i - 1].length = Exact(i - 1)
        BY <1>5, <4>1
      <4> QED BY <4>2
    <3> QED BY <3>1, <3>2
  <2> HIDE DEF Call
  <2> QED BY <2>1
<1> DEFINE walk == Walk(prompt, last)
<1>7. walk = Body(walk)
  <2>1. \E f : f = Body(f)
    BY <1>6
  <2> QED BY <1>1, <2>1
<1> HIDE DEF walk, Solution
<1> DEFINE Wrong == { i \in 0..n : walk[i].length # Exact(i) }
<1>8. Wrong = {}
  <2> SUFFICES ASSUME Wrong # {} PROVE FALSE
    OBVIOUS
  <2>1. Wrong \in SUBSET Nat
    BY <1>2
  <2>2. PICK i \in Wrong : \A j \in Wrong : i <= j
    <3> HIDE DEF Wrong
    <3> QED BY <2>1, LeastOne
  <2>3. i \in 0..n /\ walk[i].length # Exact(i)
    OBVIOUS
  <2> HIDE DEF Call
  <2>4. walk[i] = Call(i, walk[i - 1].length + 1)
    BY <1>7, <2>3
  <2>5. CASE i = 0
    BY <1>3, <2>3, <2>4, <2>5
  <2>6. CASE i # 0
    <3>1. i - 1 \in 0..n /\ ~(i <= i - 1)
      BY <1>2, <2>3, <2>6
    <3>2. walk[i - 1].length = Exact(i - 1)
      BY <2>2, <3>1
    <3> QED BY <1>4, <2>3, <2>4, <2>6, <3>2
  <2> QED BY <2>5, <2>6
<1>9. ASSUME NEW i \in 0..n, walk[i].event PROVE Falls(prompt + i, prompt)
  <2> HIDE DEF Call
  <2>1. walk[i] = Call(i, walk[i - 1].length + 1)
    BY <1>7
  <2>2. CASE i = 0
    <3>1. walk[i].event = (prompt > Budget)
      BY <2>1, <2>2 DEF Call
    <3>2. prompt > Budget
      BY <1>9, <3>1, Zenon
    <3>3. prompt + i = prompt
      BY <2>2
    <3> QED BY <3>2, <3>3 DEF Falls
  <2>3. CASE i # 0
    <3> DEFINE pos == prompt + (i - 1)
    <3> DEFINE grown == walk[i - 1].length + 1
    <3>1. /\ i - 1 \in 0..n /\ pos \in Nat /\ prompt <= pos
          /\ pos + 1 = prompt + i /\ pos = prompt + i - 1
      BY <1>2, <2>3
    <3>2. walk[i - 1].length = ExactLength(prompt, pos)
      BY <1>8, <3>1 DEF Exact
    <3>3. /\ ExactLength(prompt, pos) \in Nat
          /\ ExactLength(prompt, pos) = pos \/ Budget <= pos
      BY <3>1, ExactGrows
    <3>4. Divides(prompt + i - 1) /\ grown > Budget
      <4> HIDE DEF grown
      <4>1. Call(i, grown).event
        BY <1>9, <2>1 DEF grown
      <4> QED BY <2>3, <4>1 DEF Call
    <3>5. Divides(pos) /\ pos + 1 >= Budget
      BY <3>1, <3>2, <3>3, <3>4
    <3>6. (pos + 1) - 1 = pos /\ pos + 1 > prompt
      BY <3>1
    <3> HIDE DEF pos, grown
    <3> QED BY <3>1, <3>5, <3>6 DEF Falls, Divides
  <2> QED BY <2>2, <2>3
<1> QED BY <1>8, <1>9 DEF walk, Exact

(* In Pass 1 the cache has that length.                                      *)
LengthInv == at = "pass1" => Len(live.cache) = ExactLength(trace.prompt, live.pos)

LEMMA LengthInvariant == Spec => []LengthInv
<1>1. Init => LengthInv
  BY DEF Init, LengthInv
<1>2. CaptureInv /\ ScheduleInv /\ LengthInv /\ [Next]_vars => LengthInv'
  <2> SUFFICES ASSUME CaptureInv, ScheduleInv, LengthInv, [Next]_vars PROVE LengthInv'
    OBVIOUS
  <2> USE PlanAssumption
  <2>1. CASE PrefillPass1
    <3>1. PICK prompt \in PromptLengths :
            Forward(prompt) /\ trace' = [trace EXCEPT !.prompt = prompt, !.events = Observed(@, prompt)]
      BY <2>1 DEF PrefillPass1
    <3>2. /\ model = FreshModel /\ live = EmptyState /\ prompt \in Nat \ {0}
          /\ Good(model, live) /\ Calls(prompt)
      BY <2>1, FreshIsGood DEF PrefillPass1, CaptureInv, Calls, FreshModel
    <3>3. trace'.prompt = prompt
      <4> DEFINE seen == Observed(trace.events, prompt)
      <4>1. /\ trace = [prompt |-> trace.prompt, total |-> trace.total, events |-> trace.events]
            /\ trace' = [trace EXCEPT !.prompt = prompt, !.events = seen]
        BY <3>1 DEF CaptureInv, TraceOK
      <4> HIDE DEF seen
      <4> QED BY <4>1
    <3>4. live'.pos = prompt
      BY <3>1, <3>2, PrefillIsPunctual
    <3>5. Len(live.cache) = 0 /\ live.pos = 0 /\ model.length = 0
      BY <3>2 DEF EmptyState, FreshModel
    <3>6. Fires(prompt) <=> Falls(prompt, prompt)
      <4>1. Clock(model, live) /\ live.pos + prompt = prompt
        BY <3>2, <3>5 DEF Clock
      <4>2. Fires(prompt) <=> Falls(live.pos + prompt, prompt)
        BY <3>2, <3>5, <4>1, FiresWhenDue
      <4> QED BY <4>1, <4>2
    <3>7. Len(live'.cache) = IF Falls(prompt, prompt) THEN Budget ELSE prompt
      <4>1. Len(live.cache) + prompt = prompt
        BY <3>2, <3>5
      <4>2. (Fires(prompt) => Len(live'.cache) = Budget)
            /\ (~Fires(prompt) => Len(live'.cache) = Len(live.cache) + prompt)
        BY <3>1, <3>2, CallEffects
      <4> QED BY <3>6, <4>1, <4>2
    <3> QED BY <3>2, <3>3, <3>4, <3>7, ExactAtPrompt DEF LengthInv
  <2>2. CASE DecodePass1
    <3>1. /\ at = "pass1" /\ Forward(1) /\ trace' = [trace EXCEPT !.events = Observed(@, 1)]
          /\ Good(model, live) /\ Calls(1) /\ Punctual(model, live, trace.prompt)
          /\ trace.prompt \in Nat \ {0}
          /\ Len(live.cache) = ExactLength(trace.prompt, live.pos)
      BY <2>2 DEF DecodePass1, CaptureInv, Calls, ScheduleInv, TraceInv, TraceOK, LengthInv
    <3>2. trace'.prompt = trace.prompt
      <4> DEFINE seen == Observed(trace.events, 1)
      <4>1. /\ trace = [prompt |-> trace.prompt, total |-> trace.total, events |-> trace.events]
            /\ trace' = [trace EXCEPT !.events = seen]
        BY <3>1 DEF CaptureInv, TraceOK
      <4> HIDE DEF seen
      <4> QED BY <4>1
    <3>3. live.pos \in Nat /\ trace.prompt <= live.pos /\ Clock(model, live)
      BY <3>1 DEF Good, Shaped, LiveStates, Punctual
    <3>4. Fires(1) <=> Falls(live.pos + 1, trace.prompt)
      BY <3>1, <3>3, FiresWhenDue
    <3>5. /\ live'.pos = live.pos + 1
          /\ Fires(1) => Len(live'.cache) = Budget
          /\ ~Fires(1) => Len(live'.cache) = Len(live.cache) + 1
      BY <3>1, CallEffects
    <3>6. ExactLength(trace.prompt, live.pos + 1)
            = IF Falls(live.pos + 1, trace.prompt) THEN Budget
              ELSE ExactLength(trace.prompt, live.pos) + 1
      BY <3>1, <3>3, ExactGrows
    <3> QED BY <3>1, <3>2, <3>4, <3>5, <3>6 DEF LengthInv
  <2>3. CASE at' # "pass1"
    BY <2>3 DEF LengthInv
  <2>4. CASE UNCHANGED vars
    BY <2>4 DEF vars, LengthInv
  <2> QED BY <2>1, <2>2, <2>3, <2>4
          DEF Next, GoesTo, StopPass1, BuildPlan, PlanFails,
              ResetForPass2, PrefillPass2, ReplayToken, ReplayTarget, AcceptReplay, RejectReplay,
              CompactTarget, CompactTargetFails, StartBranch, BranchStep, EndBranch, Finished
<1> QED BY <1>1, <1>2, CaptureInvariant, ScheduleInvariant, PTL DEF Spec

(* The lengths predicted from the prompt alone are those of the real cache,  *)
(* at every position, for every budget and distance.                         *)
THEOREM PredictionIsExact == Spec => []PredictedLengthIsExact
<1>1. CaptureInv /\ ScheduleInv /\ LengthInv => PredictedLengthIsExact
  <2> SUFFICES ASSUME CaptureInv, ScheduleInv, LengthInv, at = "pass1"
               PROVE Walk(trace.prompt, live.pos)[live.pos - trace.prompt].length = Len(live.cache)
    BY DEF PredictedLengthIsExact
  <2>1. /\ trace.prompt \in Nat \ {0} /\ live.pos \in Nat /\ trace.prompt <= live.pos
    BY DEF CaptureInv, TraceOK, Good, Shaped, LiveStates, ScheduleInv, TraceInv, Punctual
  <2>2. /\ live.pos - trace.prompt \in 0..(live.pos - trace.prompt)
        /\ trace.prompt + (live.pos - trace.prompt) = live.pos
    BY <2>1
  <2>3. Walk(trace.prompt, live.pos)[live.pos - trace.prompt].length
          = ExactLength(trace.prompt, trace.prompt + (live.pos - trace.prompt))
    BY <2>1, <2>2, WalkIsExact
  <2> QED BY <2>2, <2>3 DEF LengthInv
<1> QED BY <1>1, CaptureInvariant, ScheduleInvariant, LengthInvariant, PTL

-----------------------------------------------------------------------------
(* The row qualification's prediction.  What the walk lists is a rising      *)
(* sequence of calls on which a compaction falls.                            *)
Rising(s) == \A i, j \in 1..Len(s) : i < j => s[i] < s[j]

(* What a list of compactions up to a position may hold.                     *)
Foreseen(list, prompt, pos) ==
  /\ list \in Seq(Nat)
  /\ Rising(list)
  /\ \A i \in 1..Len(list) : list[i] \in prompt..pos /\ Falls(list[i], prompt)

LEMMA NextIsForeseen ==
  ASSUME NEW prompt \in Nat \ {0}, NEW next \in Nat, prompt <= next, Falls(next, prompt),
         NEW list, Foreseen(list, prompt, next - 1)
  PROVE Foreseen(Append(list, next), prompt, next)
<1> DEFINE more == Append(list, next)
<1>1. /\ list \in Seq(Nat) /\ Len(list) \in Nat
      /\ \A i, j \in 1..Len(list) : i < j => list[i] < list[j]
      /\ \A i \in 1..Len(list) : list[i] \in Nat
      /\ \A i \in 1..Len(list) : list[i] \in prompt..(next - 1) /\ Falls(list[i], prompt)
  BY DEF Foreseen, Rising
<1>2. /\ more \in Seq(Nat) /\ Len(more) = Len(list) + 1
      /\ \A i \in 1..Len(list) : more[i] = list[i]
      /\ more[Len(list) + 1] = next
  BY <1>1, AppendFacts
<1> HIDE DEF more
<1>3. \A i \in 1..Len(more) : i \in 1..Len(list) \/ i = Len(list) + 1
  BY <1>1, <1>2
<1>4. ASSUME NEW i \in 1..Len(more), NEW j \in 1..Len(more), i < j
      PROVE more[i] < more[j]
  <2>1. i \in 1..Len(list)
    BY <1>1, <1>2, <1>4
  <2>2. CASE j \in 1..Len(list)
    BY <1>1, <1>2, <1>4, <2>1, <2>2
  <2>3. CASE j = Len(list) + 1
    <3>1. more[i] = list[i] /\ more[j] = next /\ list[i] \in prompt..(next - 1)
      BY <1>1, <1>2, <2>1, <2>3
    <3> QED BY <3>1
  <2> QED BY <1>3, <2>2, <2>3
<1>5. ASSUME NEW i \in 1..Len(more)
      PROVE more[i] \in prompt..next /\ Falls(more[i], prompt)
  <2>1. CASE i \in 1..Len(list)
    <3>1. more[i] = list[i] /\ list[i] \in prompt..(next - 1) /\ Falls(list[i], prompt)
      BY <1>1, <1>2, <2>1
    <3> QED BY <3>1
  <2>2. CASE i = Len(list) + 1
    BY <1>2, <2>2
  <2> QED BY <1>3, <2>1, <2>2
<1> QED BY <1>2, <1>4, <1>5 DEF Foreseen, Rising, more

LEMMA PredictedAreForeseen ==
  ASSUME NEW prompt \in Nat \ {0}, NEW last \in Nat, prompt <= last
  PROVE Foreseen(PredictedEvents(prompt, last), prompt, last)
<1> DEFINE n == last - prompt
<1> DEFINE step == Walk(prompt, last)
<1> DEFINE Add(i, before) == IF step[i].event THEN Append(before, prompt + i) ELSE before
<1> DEFINE Call(i, before) == Add(i, IF i = 0 THEN << >> ELSE before)
<1> DEFINE Upto(k, f) == [i \in 0..k |-> Call(i, f[i - 1])]
<1> DEFINE found == CHOOSE f : f = Upto(n, f)
<1>1. PredictedEvents(prompt, last) = found[n]
  BY DEF PredictedEvents
<1>2. n \in Nat /\ prompt + n = last
  OBVIOUS
<1>3. \A i \in 0..n : step[i].event => Falls(prompt + i, prompt)
  BY WalkIsExact
<1> HIDE DEF step
(* There is such a list, call by call. *)
<1> DEFINE Missing == { k \in Nat : ~ \E f : f = Upto(k, f) }
<1>4. Missing = {}
  <2> SUFFICES ASSUME Missing # {} PROVE FALSE
    OBVIOUS
  <2>1. PICK k \in Missing : \A j \in Missing : k <= j
    <3>1. Missing \in SUBSET Nat
      OBVIOUS
    <3> HIDE DEF Missing
    <3> QED BY <3>1, LeastOne
  <2>2. k \in Nat /\ ~ \E f : f = Upto(k, f)
    OBVIOUS
  <2> HIDE DEF Call
  <2>3. CASE k = 0
    <3> DEFINE g == [i \in 0..0 |-> Call(i, << >>)]
    <3>1. ASSUME NEW i \in 0..0 PROVE Call(i, << >>) = Call(i, g[i - 1])
      <4>1. i = 0
        OBVIOUS
      <4> QED BY <4>1 DEF Call
    <3>2. g = Upto(0, g)
      <4>1. g = [i \in 0..0 |-> Call(i, << >>)]
        OBVIOUS
      <4> HIDE DEF g
      <4> QED BY <3>1, <4>1
    <3> QED BY <2>2, <2>3, <3>2
  <2>4. CASE k # 0
    <3>1. k - 1 \in Nat /\ ~(k <= k - 1)
      BY <2>2, <2>4
    <3>2. \E f : f = Upto(k - 1, f)
      BY <2>1, <3>1
    <3>3. PICK f : f = Upto(k - 1, f)
      BY <3>2
    <3> DEFINE g == [i \in 0..k |-> IF i = k THEN Call(k, f[k - 1]) ELSE f[i]]
    <3>4. ASSUME NEW i \in 0..k PROVE g[i] = Call(i, g[i - 1])
      <4>1. g = [j \in 0..k |-> IF j = k THEN Call(k, f[k - 1]) ELSE f[j]]
        OBVIOUS
      <4> HIDE DEF g
      <4>2. CASE i = k
        <5>1. k - 1 \in 0..k /\ k - 1 # k
          BY <2>2, <3>1
        <5>2. g[k - 1] = f[k - 1]
          BY <4>1, <5>1
        <5> QED BY <4>1, <4>2, <5>2
      <4>3. CASE i # k
        <5>1. i \in 0..(k - 1)
          BY <2>2, <4>3
        <5>2. g[i] = f[i] /\ f[i] = Call(i, f[i - 1])
          BY <3>3, <4>1, <4>3, <5>1
        <5>3. CASE i = 0
          BY <5>2, <5>3 DEF Call
        <5>4. CASE i # 0
          <6>1. i - 1 \in 0..k /\ i - 1 # k
            BY <2>2, <5>1, <5>4
          <6>2. g[i - 1] = f[i - 1]
            BY <4>1, <6>1
          <6> QED BY <5>2, <6>2
        <5> QED BY <5>3, <5>4
      <4> QED BY <4>2, <4>3
    <3>5. g = Upto(k, g)
      <4>1. g = [i \in 0..k |-> g[i]]
        OBVIOUS
      <4> HIDE DEF g
      <4> QED BY <3>4, <4>1
    <3> QED BY <2>2, <3>5
  <2> QED BY <2>3, <2>4
<1>5. found = Upto(n, found)
  <2>1. \E f : f = Upto(n, f)
    BY <1>2, <1>4
  <2> QED BY <2>1
<1> HIDE DEF found, Missing
(* And it holds what it may. *)
<1> DEFINE Wrong == { i \in 0..n : ~Foreseen(found[i], prompt, prompt + i) }
<1>6. Wrong = {}
  <2> SUFFICES ASSUME Wrong # {} PROVE FALSE
    OBVIOUS
  <2>1. Wrong \in SUBSET Nat
    BY <1>2
  <2>2. PICK i \in Wrong : \A j \in Wrong : i <= j
    <3> HIDE DEF Wrong
    <3> QED BY <2>1, LeastOne
  <2>3. i \in 0..n /\ i \in Nat /\ ~Foreseen(found[i], prompt, prompt + i)
    BY <1>2
  <2> DEFINE before == IF i = 0 THEN << >> ELSE found[i - 1]
  <2>4. found[i] = Add(i, before)
    <3> HIDE DEF Add
    <3> QED BY <1>5, <2>3
  <2>5. Foreseen(before, prompt, (prompt + i) - 1)
    <3>1. CASE i = 0
      <4>1. before = << >> /\ << >> \in Seq(Nat) /\ Len(<< >>) = 0
        BY <3>1
      <4> HIDE DEF before
      <4> QED BY <4>1 DEF Foreseen, Rising
    <3>2. CASE i # 0
      <4>1. i - 1 \in 0..n /\ ~(i <= i - 1) /\ prompt + (i - 1) = (prompt + i) - 1
        BY <1>2, <2>3, <3>2
      <4>2. i - 1 \notin Wrong
        BY <2>2, <4>1
      <4>3. Foreseen(found[i - 1], prompt, prompt + (i - 1))
        BY <4>1, <4>2
      <4> QED BY <3>2, <4>1, <4>3
    <3> QED BY <3>1, <3>2
  <2> HIDE DEF before, Wrong
  <2>6. prompt + i \in Nat /\ prompt <= prompt + i
    BY <2>3
  <2>7. CASE step[i].event
    <3>1. found[i] = Append(before, prompt + i) /\ Falls(prompt + i, prompt)
      BY <1>3, <2>3, <2>4, <2>7
    <3> QED BY <2>3, <2>5, <2>6, <3>1, NextIsForeseen
  <2>8. CASE ~step[i].event
    <3>1. found[i] = before
      BY <2>4, <2>8
    <3>2. \A e \in prompt..((prompt + i) - 1) : e \in prompt..(prompt + i)
      BY <2>6
    <3> QED BY <2>3, <2>5, <3>1, <3>2 DEF Foreseen
  <2> QED BY <2>7, <2>8
<1>7. Foreseen(found[n], prompt, prompt + n)
  <2>1. n \in 0..n /\ n \notin Wrong
    BY <1>2, <1>6
  <2> HIDE DEF n
  <2> QED BY <2>1
<1> QED BY <1>1, <1>2, <1>7

(* A rising sequence whose entries are found, one lower, in another rising   *)
(* one has no more eligible entries than that one.                           *)
LEMMA FewerAreEligible ==
  ASSUME NEW prompt \in Nat, NEW total \in Nat, NEW p \in Seq(Nat), Rising(p),
         \A i \in 1..Len(p) : p[i] >= prompt,
         NEW e \in Seq(Nat), Rising(e),
         \A i \in 1..Len(p) : p[i] - 1 \in Entries(e)
  PROVE Cardinality(Eligible(p, prompt, total)) <= Cardinality(Eligible(e, prompt, total))
<1> USE PlanAssumption
<1>1. /\ Len(p) \in Nat /\ Len(e) \in Nat
      /\ \A i \in 1..Len(p) : p[i] \in Nat
      /\ \A j \in 1..Len(e) : e[j] \in Nat
      /\ \A i, j \in 1..Len(p) : i < j => p[i] < p[j]
      /\ \A i, j \in 1..Len(e) : i < j => e[i] < e[j]
  BY DEF Rising
<1>2. \A i \in 1..Len(p) : \E j \in 1..Len(e) : e[j] = p[i] - 1
  BY DEF Entries
<1> DEFINE place == [i \in 1..Len(p) |-> CHOOSE j \in 1..Len(e) : e[j] = p[i] - 1]
<1>3. \A i \in 1..Len(p) : place[i] \in 1..Len(e) /\ e[place[i]] = p[i] - 1
  BY <1>2
<1> HIDE DEF place
<1>4. ASSUME NEW i \in 1..Len(p), NEW k \in 1..Len(p), i < k PROVE place[i] < place[k]
  <2>1. /\ place[i] \in 1..Len(e) /\ e[place[i]] = p[i] - 1 /\ e[place[i]] \in Nat
        /\ place[k] \in 1..Len(e) /\ e[place[k]] = p[k] - 1 /\ e[place[k]] \in Nat
        /\ p[i] < p[k] /\ p[i] \in Nat /\ p[k] \in Nat
    BY <1>1, <1>3, <1>4
  <2> DEFINE a == place[i]
  <2> DEFINE b == place[k]
  <2>2. e[a] < e[b]
    <3>1. \A u, v \in Nat : u < v => u - 1 < v - 1
      OBVIOUS
    <3> QED BY <2>1, <3>1, Zenon
  <2>3. a \in 1..Len(e) /\ b \in 1..Len(e)
    BY <2>1
  <2> HIDE DEF a, b
  <2>4. a < b
    <3>1. e[a] \in Nat /\ e[b] \in Nat /\ a \in Nat /\ b \in Nat
      BY <1>1, <2>3
    <3>2. a # b
      BY <2>2, <3>1
    <3>3. ASSUME b < a PROVE FALSE
      <4>1. e[b] < e[a]
        BY <1>1, <2>3, <3>3
      <4>2. \A u, v \in Nat : u < v => ~(v < u)
        OBVIOUS
      <4> QED BY <2>2, <3>1, <4>1, <4>2, Zenon
    <3> QED BY <3>1, <3>2, <3>3
  <2> QED BY <2>4 DEF a, b
<1> DEFINE P == Eligible(p, prompt, total)
<1> DEFINE E == Eligible(e, prompt, total)
<1> DEFINE f == [i \in P |-> place[i]]
<1>5. ASSUME NEW i \in P PROVE place[i] \in E /\ i \in 1..Len(p)
  <2>1. /\ i \in 2..(Len(p) - 1)
        /\ (total - 1) - p[i] >= MinimumFutureTokens
    BY DEF Eligible
  <2>2. i \in 1..Len(p) /\ i - 1 \in 1..Len(p) /\ i + 1 \in 1..Len(p) /\ i - 1 < i /\ i < i + 1
    BY <1>1, <2>1
  <2>3. /\ place[i - 1] < place[i] /\ place[i] < place[i + 1]
        /\ place[i - 1] \in 1..Len(e) /\ place[i] \in 1..Len(e) /\ place[i + 1] \in 1..Len(e)
    BY <1>3, <1>4, <2>2
  <2>4. place[i] \in 2..(Len(e) - 1)
    <3>1. \A u, v, w \in 1..Len(e) : u < v /\ v < w => v \in 2..(Len(e) - 1)
      BY <1>1
    <3> QED BY <2>3, <3>1, Zenon
  <2>5. p[i - 1] < p[i] /\ prompt <= p[i - 1] /\ p[i] \in Nat /\ p[i - 1] \in Nat
    BY <1>1, <2>2
  <2>6. e[place[i]] = p[i] - 1
    BY <1>3, <2>2
  <2>7. e[place[i]] >= prompt /\ (total - 1) - e[place[i]] >= MinimumFutureTokens
    <3>1. \A u, v \in Nat : v < u /\ prompt <= v /\ (total - 1) - u >= MinimumFutureTokens
                              => u - 1 >= prompt /\ (total - 1) - (u - 1) >= MinimumFutureTokens
      OBVIOUS
    <3> QED BY <2>1, <2>5, <2>6, <3>1, Zenon
  <2> QED BY <2>2, <2>4, <2>7 DEF Eligible
<1>6. IsFiniteSet(E)
  <2>1. IsFiniteSet(2..(Len(e) - 1))
    BY <1>1, FS_Interval
  <2>2. E \in SUBSET (2..(Len(e) - 1))
    BY DEF Eligible
  <2> HIDE DEF E
  <2> QED BY <2>1, <2>2, FS_Subset
<1>7. f \in Injection(P, E)
  <2> HIDE DEF P, E
  <2>1. f \in [P -> E]
    BY <1>5
  <2>2. ASSUME NEW i \in P, NEW k \in P, f[i] = f[k] PROVE i = k
    <3>1. i \in 1..Len(p) /\ k \in 1..Len(p) /\ place[i] = place[k] /\ place[i] \in 1..Len(e)
      BY <1>3, <1>5, <2>2
    <3>2. ~(i < k) /\ ~(k < i)
      BY <1>1, <1>4, <3>1
    <3> QED BY <1>1, <3>1, <3>2
  <2> QED BY <2>1, <2>2, Fun_IsInj
<1> QED BY <1>6, <1>7, FS_Injection

(* A row qualified on the prediction has at least as many compactions to     *)
(* plan with as the prediction counts, for every budget and distance, every  *)
(* prompt and every length of the trace.                                     *)
THEOREM QualificationKeepsItsPromise == Spec => []QualificationIsConservative
<1>1. CaptureInv /\ ScheduleInv => QualificationIsConservative
  <2> SUFFICES ASSUME CaptureInv, ScheduleInv, at = "planning"
               PROVE /\ \A i \in 1..Len(Predicted) : Predicted[i] - 1 \in Entries(EventPositions)
                     /\ Cardinality(Eligible(Predicted, trace.prompt, trace.total))
                          <= Cardinality(EligibleEvents)
    BY DEF QualificationIsConservative
  <2>1. /\ trace.prompt \in Nat \ {0} /\ trace.total \in Nat /\ trace.prompt <= trace.total
        /\ trace.events \in Seq(ObservedEvents)
        /\ Scheduled(live.events, trace.prompt, trace.total)
        /\ Noted(trace.events, live.events)
    BY DEF CaptureInv, TraceOK, Good, Shaped, LiveStates, ScheduleInv, TraceInv, Punctual
  <2> DEFINE last == IF trace.total > trace.prompt THEN trace.total - 1 ELSE trace.prompt
  <2>2. last \in Nat /\ trace.prompt <= last /\ last <= trace.total
    BY <2>1
  <2>3. Predicted = PredictedEvents(trace.prompt, last)
    BY DEF Predicted
  <2> HIDE DEF last
  <2>4. Foreseen(Predicted, trace.prompt, last)
    BY <2>1, <2>2, <2>3, PredictedAreForeseen
  <2>5. /\ Predicted \in Seq(Nat) /\ Rising(Predicted)
        /\ \A i \in 1..Len(Predicted) : /\ Predicted[i] \in trace.prompt..last
                                        /\ Falls(Predicted[i], trace.prompt)
    BY <2>4 DEF Foreseen
  <2>6. /\ live.events \in Seq(Nat) /\ Len(live.events) = Len(trace.events)
        /\ Len(trace.events) \in Nat
        /\ \A i, j \in 1..Len(live.events) : i < j => live.events[i] < live.events[j]
        /\ \A after \in trace.prompt..trace.total :
             Falls(after, trace.prompt) => \E i \in 1..Len(live.events) : live.events[i] = after
        /\ \A i \in 1..Len(live.events) : trace.events[i].position + 1 = live.events[i]
        /\ \A i \in 1..Len(live.events) : live.events[i] \in Nat
        /\ \A i \in 1..Len(trace.events) : trace.events[i].position \in Nat
    <3>1. \A i \in 1..Len(trace.events) : trace.events[i].position \in Nat
      <4> DEFINE seen == trace.events
      <4>1. seen \in Seq(ObservedEvents)
        BY <2>1
      <4> HIDE DEF seen
      <4>2. \A i \in 1..Len(seen) : seen[i] \in ObservedEvents
        BY <4>1
      <4> QED BY <4>2 DEF seen, ObservedEvents
    <3>2. /\ live.events \in Seq(Nat)
          /\ \A i, j \in 1..Len(live.events) : i < j => live.events[i] < live.events[j]
          /\ \A after \in trace.prompt..trace.total :
               Falls(after, trace.prompt) => \E i \in 1..Len(live.events) : live.events[i] = after
      BY <2>1 DEF Scheduled
    <3>3. /\ Len(trace.events) = Len(live.events)
          /\ \A i \in 1..Len(live.events) : trace.events[i].position + 1 = live.events[i]
      BY <2>1 DEF Noted
    <3>4. /\ Len(live.events) \in Nat
          /\ \A i \in 1..Len(live.events) : live.events[i] \in Nat
      BY <3>2
    <3> QED BY <3>1, <3>2, <3>3, <3>4
  <2>7. /\ EventPositions \in Seq(Nat) /\ Len(EventPositions) = Len(trace.events)
        /\ \A i \in 1..Len(trace.events) : EventPositions[i] = trace.events[i].position
    <3>1. EventPositions \in [1..Len(trace.events) -> Nat]
      BY <2>6 DEF EventPositions
    <3>2. EventPositions \in Seq(Nat) /\ Len(EventPositions) = Len(trace.events)
      BY <2>6, <3>1, FunctionIsSeq
    <3> QED BY <3>2 DEF EventPositions
  <2>8. Rising(EventPositions)
    <3> SUFFICES ASSUME NEW i \in 1..Len(trace.events), NEW j \in 1..Len(trace.events), i < j
                 PROVE EventPositions[i] < EventPositions[j]
      BY <2>7 DEF Rising
    <3>1. /\ EventPositions[i] + 1 = live.events[i] /\ EventPositions[j] + 1 = live.events[j]
          /\ EventPositions[i] \in Nat /\ EventPositions[j] \in Nat
          /\ live.events[i] < live.events[j]
      BY <2>6, <2>7
    <3> QED BY <3>1
  <2>9. ASSUME NEW i \in 1..Len(Predicted)
        PROVE Predicted[i] - 1 \in Entries(EventPositions)
    <3>1. Predicted[i] \in trace.prompt..trace.total /\ Falls(Predicted[i], trace.prompt)
      BY <2>1, <2>2, <2>5
    <3>2. PICK j \in 1..Len(live.events) : live.events[j] = Predicted[i]
      BY <2>6, <3>1
    <3>3. EventPositions[j] = Predicted[i] - 1 /\ j \in 1..Len(EventPositions)
      <4>1. /\ j \in 1..Len(EventPositions) /\ j \in 1..Len(trace.events)
            /\ EventPositions[j] = trace.events[j].position /\ trace.events[j].position \in Nat
            /\ trace.events[j].position + 1 = live.events[j] /\ Predicted[i] \in Int
        BY <2>1, <2>6, <2>7, <3>1
      <4>2. \A u \in Nat : (u + 1) - 1 = u
        OBVIOUS
      <4>3. EventPositions[j] = (trace.events[j].position + 1) - 1
        BY <4>1, <4>2, Zenon
      <4> QED BY <3>2, <4>1, <4>3, Zenon
    <3> QED BY <3>3 DEF Entries
  <2>10. \A i \in 1..Len(Predicted) : Predicted[i] >= trace.prompt
    BY <2>1, <2>2, <2>5
  <2>11. Cardinality(Eligible(Predicted, trace.prompt, trace.total))
           <= Cardinality(Eligible(EventPositions, trace.prompt, trace.total))
    BY <2>1, <2>5, <2>7, <2>8, <2>9, <2>10, FewerAreEligible
  <2> QED BY <2>9, <2>11 DEF EligibleEvents
<1> QED BY <1>1, CaptureInvariant, ScheduleInvariant, PTL
=============================================================================
