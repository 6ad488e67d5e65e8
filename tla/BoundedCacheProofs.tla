------------------------- MODULE BoundedCacheProofs -------------------------
(* Theorems about BoundedCache, for every set of keys, capacity and ttl. *)
EXTENDS BoundedCache, FiniteSetTheorems, TLAPS

\* The generation in a slot: those below next were filled in this round of the
\* ring, the others in the round before, if there was one.
SlotGen(s) ==
    IF s < next THEN gen - next + s + 1
    ELSE IF gen < Capacity THEN 0
    ELSE gen - next + s + 1 - Capacity

\* The slots hold the last Capacity generations in order.
RingInv ==
    /\ next <= gen
    /\ gen < Capacity => next = gen
    /\ \A s \in Slots : ring[s].gen = SlotGen(s)

Owns(k, s) == ring[s].key = k /\ ring[s].gen = entries[k].gen

\* An entry is the latest addition of its key and owns a slot; an addition
\* that is recent and fresh has its entry.
EntryInv ==
    \A k \in Keys :
        /\ latest[k].gen <= gen
        /\ entries[k].gen # 0 => entries[k] = latest[k] /\ \E s \in Slots : Owns(k, s)
        /\ Recent(k) /\ Fresh(latest[k], now) => entries[k].gen # 0

IInv == TypeOK /\ RingInv /\ EntryInv

-----------------------------------------------------------------------------

\* The next slot, without the remainder.
LEMMA NextSlotCases ==
    ASSUME next \in Slots
    PROVE  NextSlot = IF next + 1 = Capacity THEN 0 ELSE next + 1
<1>1. next \in Nat /\ Capacity \in Nat /\ 0 < Capacity /\ next + 1 <= Capacity
  BY CacheAssumption DEF Slots
<1>2. CASE next + 1 = Capacity
  BY <1>1, <1>2 DEF NextSlot
<1>3. CASE next + 1 < Capacity
  BY <1>1, <1>3 DEF NextSlot
<1> QED BY <1>1, <1>2, <1>3

\* The oldest slot, which the next addition takes.
LEMMA OldestSlot ==
    ASSUME TypeOK, RingInv
    PROVE  /\ next \in Slots /\ gen \in Nat
           /\ ring[next].gen = IF gen < Capacity THEN 0 ELSE gen + 1 - Capacity
           /\ \A s \in Slots : ring[s].gen = ring[next].gen /\ ring[s].gen # 0 => s = next
<1>1. next \in Slots /\ gen \in Nat /\ MaxAdditions \in Nat
  BY CacheAssumption DEF TypeOK, Generations
<1>2. next \in Nat /\ Capacity \in Nat /\ next < Capacity
  BY <1>1, CacheAssumption DEF Slots
<1>3. ring[next].gen = IF gen < Capacity THEN 0 ELSE gen + 1 - Capacity
  BY <1>1, <1>2 DEF RingInv, SlotGen
<1>4. ASSUME NEW s \in Slots, ring[s].gen = ring[next].gen, ring[s].gen # 0
      PROVE  s = next
  <2>1. s \in Nat /\ s < Capacity
    BY CacheAssumption DEF Slots
  <2>2. ring[s].gen = SlotGen(s) /\ next <= gen
    BY DEF RingInv
  <2> QED BY <1>1, <1>2, <1>3, <1>4, <2>1, <2>2 DEF SlotGen
<1> QED BY <1>1, <1>3, <1>4

\* The generation of a slot in use is one of the last Capacity.
LEMMA SlotsAreRecent ==
    ASSUME TypeOK, RingInv, NEW s \in Slots, ring[s].gen # 0
    PROVE  gen < ring[s].gen + Capacity /\ ring[s].gen <= gen
<1>1. next \in Nat /\ gen \in Nat /\ Capacity \in Nat /\ next < Capacity
  BY OldestSlot, CacheAssumption DEF Slots
<1>2. s \in Nat /\ s < Capacity
  BY CacheAssumption DEF Slots
<1>3. ring[s].gen = SlotGen(s) /\ next <= gen
  BY DEF RingInv
<1> QED BY <1>1, <1>2, <1>3 DEF SlotGen

\* A reading that finds an entry stale is right by the clock, too.
LEMMA ReadingsLag ==
    ASSUME TypeOK, NEW t \in Readings, NEW k \in Keys, Fresh(latest[k], now)
    PROVE  Fresh(latest[k], t)
<1>1. latest[k].at \in Nat /\ now \in Nat /\ t \in Nat /\ t <= now /\ TTL \in Nat
  BY CacheAssumption DEF TypeOK, Times, Readings
<1> QED BY <1>1 DEF Fresh

\* An operation that adds nothing forgets keys that are not live.
Forget(t) ==
    \E gone \in SUBSET Keys :
        /\ \A k \in gone : ~Live(k, t)
        /\ entries' = [k \in Keys |-> IF k \in gone THEN Absent ELSE entries[k]]
        /\ UNCHANGED <<now, ring, next, gen, latest>>

\* What a step can be.
LEMMA StepCases ==
    ASSUME TypeOK, [Next]_vars
    PROVE  \/ \E k \in Keys, t \in Readings : ~Live(k, t) /\ Insert(k, t)
           \/ \E t \in Readings : Forget(t)
           \/ Tick
           \/ UNCHANGED vars
<1>1. ASSUME NEW k \in Keys, NEW t \in Readings, SeenOrAdd(k, t)
      PROVE  (~Live(k, t) /\ Insert(k, t)) \/ UNCHANGED vars
  BY <1>1 DEF SeenOrAdd
<1>2. ASSUME NEW k \in Keys, NEW t \in Readings, Contains(k, t)
      PROVE  Forget(t)
  <2> DEFINE gone == IF Live(k, t) THEN {} ELSE {k}
  <2>1. gone \in SUBSET Keys /\ \A j \in gone : ~Live(j, t)
    OBVIOUS
  <2>2. entries' = [j \in Keys |-> IF j \in gone THEN Absent ELSE entries[j]]
    BY <1>2 DEF Contains, TypeOK
  <2>3. UNCHANGED <<now, ring, next, gen, latest>>
    BY <1>2 DEF Contains
  <2> HIDE DEF gone
  <2> QED BY <2>1, <2>2, <2>3 DEF Forget
<1>3. ASSUME NEW matching \in SUBSET Keys, NEW t \in Readings, Any(matching, t)
      PROVE  Forget(t)
  <2>1. PICK gone \in SUBSET {k \in Keys : entries[k].gen # 0 /\ ~Fresh(entries[k], t)} :
            /\ entries' = [k \in Keys |-> IF k \in gone THEN Absent ELSE entries[k]]
            /\ UNCHANGED <<now, ring, next, gen, latest>>
    BY <1>3 DEF Any
  <2>2. gone \in SUBSET Keys /\ \A k \in gone : ~Live(k, t)
    BY DEF Live
  <2> QED BY <2>1, <2>2 DEF Forget
<1> QED BY <1>1, <1>2, <1>3 DEF Next

\* What an addition does to the map: the key gets its entry, and at most the
\* entry that owned the oldest slot goes.
LEMMA InsertEntries ==
    ASSUME TypeOK, NEW k \in Keys, NEW t \in Readings, Insert(k, t)
    PROVE  /\ gen \in Nat /\ gen' = gen + 1 /\ gen' \in Generations /\ now' = now
           /\ entries'[k] = latest'[k] /\ latest'[k].gen = gen + 1
           /\ \A j \in Keys \ {k} :
                /\ latest'[j] = latest[j]
                /\ \/ entries'[j] = entries[j] /\ ~(ring[next].gen # 0 /\ Owns(j, next))
                   \/ entries'[j] = Absent /\ ring[next].gen # 0 /\ Owns(j, next)
           /\ entries' \in [Keys -> [at : Times, gen : Generations]]
           /\ latest' \in [Keys -> [at : Times, gen : Generations]]
<1> DEFINE e == [at |-> t, gen |-> gen + 1]
           Entry == [at : Times, gen : Generations]
<1>1. gen \in Nat /\ gen' = gen + 1 /\ gen' \in Generations /\ now' = now
  BY CacheAssumption DEF Insert, TypeOK, Generations
<1>2. e \in Entry /\ Absent \in Entry
  <2>1. t \in Times /\ gen + 1 \in Generations
    BY <1>1 DEF Readings
  <2>2. 0 \in Times /\ 0 \in Generations
    BY CacheAssumption DEF Times, Generations
  <2> QED BY <2>1, <2>2 DEF Absent
<1>3. Evicted \in [Keys -> Entry]
  BY <1>2 DEF Evicted, TypeOK
<1>4. entries' = [Evicted EXCEPT ![k] = e] /\ latest' = [latest EXCEPT ![k] = e]
  BY DEF Insert
<1>5. latest \in [Keys -> Entry]
  BY DEF TypeOK
<1> HIDE DEF e, Entry
<1>6. /\ entries' \in [Keys -> Entry] /\ latest' \in [Keys -> Entry]
      /\ entries'[k] = e /\ latest'[k] = e
      /\ \A j \in Keys \ {k} : latest'[j] = latest[j] /\ entries'[j] = Evicted[j]
  BY <1>2, <1>3, <1>4, <1>5
<1>7. \A j \in Keys :
        \/ Evicted[j] = entries[j] /\ ~(ring[next].gen # 0 /\ Owns(j, next))
        \/ Evicted[j] = Absent /\ ring[next].gen # 0 /\ Owns(j, next)
  BY DEF Evicted, Owns
<1>8. e.gen = gen + 1
  BY DEF e
<1> QED BY <1>1, <1>6, <1>7, <1>8 DEF Entry

\* The ring after an addition.
LEMMA InsertRing ==
    ASSUME TypeOK, RingInv, NEW k \in Keys, NEW t \in Readings, Insert(k, t)
    PROVE  /\ ring' \in [Slots -> [key : Keys, at : Times, gen : Generations]]
           /\ ring'[next].key = k /\ ring'[next].gen = gen + 1
           /\ \A s \in Slots \ {next} : ring'[s] = ring[s]
           /\ next' \in Slots
           /\ RingInv'
<1>1. next \in Slots /\ next \in Nat /\ gen \in Nat /\ Capacity \in Nat /\ next < Capacity
      /\ next <= gen /\ (gen < Capacity => next = gen)
  BY OldestSlot, CacheAssumption DEF Slots, RingInv
<1>2. next' = IF next + 1 = Capacity THEN 0 ELSE next + 1
  BY <1>1, NextSlotCases DEF Insert
<1>3. gen' = gen + 1
  BY DEF Insert
<1>4. [key |-> k, at |-> t, gen |-> gen + 1] \in [key : Keys, at : Times, gen : Generations]
  BY <1>3, InsertEntries DEF Readings
<1>5. /\ ring' \in [Slots -> [key : Keys, at : Times, gen : Generations]]
      /\ ring'[next].key = k /\ ring'[next].gen = gen + 1
      /\ \A s \in Slots \ {next} : ring'[s] = ring[s]
  <2> DEFINE e == [key |-> k, at |-> t, gen |-> gen + 1]
             Addition == [key : Keys, at : Times, gen : Generations]
  <2>1. ring \in [Slots -> Addition]
    BY DEF TypeOK
  <2>2. ring' = [ring EXCEPT ![next] = e]
    BY DEF Insert
  <2>3. e \in Addition /\ e.key = k /\ e.gen = gen + 1
    BY <1>4
  <2> HIDE DEF e, Addition
  <2>4. ring' \in [Slots -> Addition] /\ ring'[next] = e
        /\ \A s \in Slots \ {next} : ring'[s] = ring[s]
    BY <1>1, <2>1, <2>2, <2>3
  <2> QED BY <2>3, <2>4 DEF Addition
<1>6. next' \in Slots
  BY <1>1, <1>2 DEF Slots
<1>7. next' <= gen' /\ (gen' < Capacity => next' = gen')
  BY <1>1, <1>2, <1>3
<1>8. ASSUME NEW s \in Slots PROVE ring'[s].gen = SlotGen(s)'
  <2>1. s \in Nat /\ s < Capacity
    BY CacheAssumption DEF Slots
  <2>2. CASE s = next
    <3>1. ring'[s].gen = gen + 1
      BY <1>5, <2>2
    <3> QED BY <1>1, <1>2, <1>3, <2>1, <2>2, <3>1 DEF SlotGen
  <2>3. CASE s # next
    <3>1. ring'[s].gen = SlotGen(s)
      BY <1>5, <2>3 DEF RingInv
    <3> QED BY <1>1, <1>2, <1>3, <2>1, <2>3, <3>1 DEF SlotGen
  <2> QED BY <2>2, <2>3
<1> QED BY <1>5, <1>6, <1>7, <1>8 DEF RingInv

LEMMA InsertInv ==
    ASSUME IInv, NEW k \in Keys, NEW t \in Readings, Insert(k, t)
    PROVE  IInv'
<1>1. TypeOK /\ RingInv /\ EntryInv
  BY DEF IInv
<1>2. TypeOK'
  BY <1>1, InsertEntries, InsertRing DEF TypeOK
<1>3. RingInv'
  BY <1>1, InsertRing
<1>4. gen \in Nat /\ gen' = gen + 1 /\ Capacity \in Nat /\ 0 < Capacity /\ now' = now
  BY <1>1, OldestSlot, InsertEntries, CacheAssumption
<1>5. next \in Slots /\ ring[next].gen = IF gen < Capacity THEN 0 ELSE gen + 1 - Capacity
  BY <1>1, OldestSlot
<1>6. ASSUME NEW j \in Keys
      PROVE  /\ latest'[j].gen <= gen'
             /\ entries'[j].gen # 0 => entries'[j] = latest'[j] /\ \E s \in Slots : Owns(j, s)'
             /\ (Recent(j) /\ Fresh(latest[j], now))' => entries'[j].gen # 0
  <2>1. CASE j = k
    <3>1. entries'[k] = latest'[k] /\ latest'[k].gen = gen + 1
      BY <1>1, InsertEntries
    <3>2. ring'[next].key = k /\ ring'[next].gen = gen + 1
      BY <1>1, InsertRing
    <3> QED BY <1>4, <1>5, <2>1, <3>1, <3>2 DEF Owns
  <2>2. CASE j # k
    <3>1. latest'[j] = latest[j] /\ latest[j].gen <= gen /\ latest[j].gen \in Nat
      <4>1. latest[j].gen \in Nat /\ latest[j].gen <= gen
        BY <1>1, CacheAssumption DEF EntryInv, TypeOK, Generations
      <4> QED BY <1>1, <2>2, <4>1, InsertEntries
    <3>2. CASE entries'[j] = entries[j] /\ ~(ring[next].gen # 0 /\ Owns(j, next))
      <4>1. ASSUME entries'[j].gen # 0
            PROVE  entries'[j] = latest'[j] /\ \E s \in Slots : Owns(j, s)'
        <5>1. PICK s \in Slots : Owns(j, s)
          BY <1>1, <3>2, <4>1 DEF EntryInv
        <5>2. s # next
          BY <3>2, <4>1, <5>1 DEF Owns
        <5>3. Owns(j, s)'
          BY <1>1, <3>2, <5>1, <5>2, InsertRing DEF Owns
        <5>4. entries[j] = latest[j]
          BY <1>1, <3>2, <4>1 DEF EntryInv
        <5> QED BY <3>1, <3>2, <5>3, <5>4
      <4>2. (Recent(j) /\ Fresh(latest[j], now))' => Recent(j) /\ Fresh(latest[j], now)
        BY <1>4, <3>1 DEF Recent, Fresh
      <4> QED BY <1>1, <1>4, <3>1, <3>2, <4>1, <4>2 DEF EntryInv
    <3>3. CASE entries'[j] = Absent /\ ring[next].gen # 0 /\ Owns(j, next)
      <4>1. entries[j].gen = gen + 1 - Capacity /\ entries[j] = latest[j]
        BY <1>1, <1>5, <3>3 DEF EntryInv, Owns
      <4>2. ~Recent(j)'
        BY <1>4, <3>1, <4>1 DEF Recent
      <4> QED BY <1>4, <3>1, <3>3, <4>2 DEF Absent
    <3> QED BY <1>1, <2>2, <3>2, <3>3, InsertEntries
  <2> QED BY <2>1, <2>2
<1> QED BY <1>2, <1>3, <1>6 DEF IInv, EntryInv

LEMMA ForgetInv ==
    ASSUME IInv, NEW t \in Readings, Forget(t)
    PROVE  IInv'
<1>1. TypeOK /\ RingInv /\ EntryInv
  BY DEF IInv
<1>2. UNCHANGED <<now, ring, next, gen, latest>>
  BY DEF Forget
<1>3. PICK gone \in SUBSET Keys :
        /\ \A k \in gone : ~Live(k, t)
        /\ entries' = [k \in Keys |-> IF k \in gone THEN Absent ELSE entries[k]]
  BY DEF Forget
<1>4. Absent \in [at : Times, gen : Generations]
  BY CacheAssumption DEF Absent, Times, Generations
<1>5. TypeOK'
  BY <1>1, <1>2, <1>3, <1>4 DEF TypeOK
<1>6. RingInv'
  BY <1>1, <1>2 DEF RingInv, SlotGen
<1>7. ASSUME NEW k \in Keys
      PROVE  /\ latest'[k].gen <= gen'
             /\ entries'[k].gen # 0 => entries'[k] = latest'[k] /\ \E s \in Slots : Owns(k, s)'
             /\ (Recent(k) /\ Fresh(latest[k], now))' => entries'[k].gen # 0
  <2>1. /\ latest[k].gen <= gen
        /\ entries[k].gen # 0 => entries[k] = latest[k] /\ \E s \in Slots : Owns(k, s)
        /\ Recent(k) /\ Fresh(latest[k], now) => entries[k].gen # 0
    BY <1>1 DEF EntryInv
  <2>2. (Recent(k) /\ Fresh(latest[k], now))' <=> Recent(k) /\ Fresh(latest[k], now)
    BY <1>2 DEF Recent, Fresh
  <2>3. CASE k \in gone
    <3>1. entries'[k].gen = 0
      BY <1>3, <2>3 DEF Absent
    <3>2. ~(Recent(k) /\ Fresh(latest[k], now))
      <4>1. SUFFICES ASSUME Recent(k), Fresh(latest[k], now) PROVE FALSE
        OBVIOUS
      <4>2. entries[k].gen # 0 /\ Fresh(entries[k], t)
        BY <1>1, <2>1, <4>1, ReadingsLag
      <4> QED BY <1>3, <2>3, <4>2 DEF Live
    <3> QED BY <1>2, <2>1, <2>2, <3>1, <3>2
  <2>4. CASE k \notin gone
    <3>1. entries'[k] = entries[k]
      BY <1>3, <2>4
    <3>2. \A s \in Slots : Owns(k, s)' <=> Owns(k, s)
      BY <1>2, <3>1 DEF Owns
    <3> QED BY <1>2, <2>1, <2>2, <3>1, <3>2
  <2> QED BY <2>3, <2>4
<1> QED BY <1>5, <1>6, <1>7 DEF IInv, EntryInv

LEMMA TickInv ==
    ASSUME IInv, Tick
    PROVE  IInv'
<1>1. TypeOK /\ RingInv /\ EntryInv
  BY DEF IInv
<1>2. now' = now + 1 /\ now' \in Times /\ now \in Nat /\ UNCHANGED <<entries, ring, next, gen, latest>>
  BY <1>1, CacheAssumption DEF Tick, TypeOK, Times
<1>3. TypeOK'
  BY <1>1, <1>2 DEF TypeOK
<1>4. RingInv'
  BY <1>1, <1>2 DEF RingInv, SlotGen
<1>5. ASSUME NEW k \in Keys
      PROVE  /\ (Recent(k) /\ Fresh(latest[k], now))' => Recent(k) /\ Fresh(latest[k], now)
             /\ \A s \in Slots : Owns(k, s)' <=> Owns(k, s)
  <2>1. latest[k].at \in Nat /\ TTL \in Nat
    BY <1>1, CacheAssumption DEF TypeOK, Times
  <2> QED BY <1>2, <2>1 DEF Recent, Fresh, Owns
<1>6. EntryInv'
  BY <1>1, <1>2, <1>5 DEF EntryInv
<1> QED BY <1>3, <1>4, <1>6 DEF IInv

-----------------------------------------------------------------------------

\* The inductive invariant: the slots hold the last Capacity additions in
\* order, and an entry owns the slot of its addition.
THEOREM Invariant == Spec => []IInv
<1>1. Init => IInv
  <2> SUFFICES ASSUME Init PROVE IInv
    OBVIOUS
  <2>1. 0 \in Times /\ 0 \in Generations /\ 0 \in Slots /\ Capacity \in Nat /\ 0 < Capacity
    BY CacheAssumption DEF Times, Generations, Slots
  <2>2. Unused \in [key : Keys, at : Times, gen : Generations] /\ Unused.gen = 0
    BY <2>1, KeysAssumption DEF Unused
  <2>3. Absent \in [at : Times, gen : Generations] /\ Absent.gen = 0
    BY <2>1 DEF Absent
  <2>4. TypeOK
    BY <2>1, <2>2, <2>3 DEF Init, TypeOK
  <2>5. RingInv
    <3>1. \A s \in Slots : ring[s].gen = 0 /\ s \in Nat
      BY <2>2 DEF Init, Slots
    <3> QED BY <2>1, <3>1 DEF Init, RingInv, SlotGen
  <2>6. EntryInv
    BY <2>3 DEF Init, EntryInv, Recent
  <2> QED BY <2>4, <2>5, <2>6 DEF IInv
<1>2. IInv /\ [Next]_vars => IInv'
  <2> SUFFICES ASSUME IInv, [Next]_vars PROVE IInv'
    OBVIOUS
  <2>1. CASE UNCHANGED vars
    BY <2>1 DEF IInv, TypeOK, RingInv, SlotGen, EntryInv, Recent, Fresh, Owns, vars
  <2> QED BY <2>1, StepCases, InsertInv, ForgetInv, TickInv DEF IInv
<1> QED BY <1>1, <1>2, PTL DEF Spec

\* The cache is type correct for every capacity, ttl and set of keys.
THEOREM TypeCorrect == Spec => []TypeOK
<1>1. IInv => TypeOK
  BY DEF IInv
<1> QED BY <1>1, Invariant, PTL

\* A key is remembered exactly for its ttl or until Capacity further additions.
THEOREM Exact == Spec => []RemembersExactly
<1>1. IInv => RemembersExactly
  <2> SUFFICES ASSUME IInv, NEW k \in Keys
               PROVE  Live(k, now) <=> Recent(k) /\ Fresh(latest[k], now)
    BY DEF RemembersExactly
  <2>1. TypeOK /\ RingInv /\ EntryInv
    BY DEF IInv
  <2>2. ASSUME Recent(k), Fresh(latest[k], now) PROVE Live(k, now)
    BY <2>1, <2>2 DEF EntryInv, Live
  <2>3. ASSUME Live(k, now) PROVE Recent(k) /\ Fresh(latest[k], now)
    <3>1. entries[k].gen # 0 /\ entries[k] = latest[k] /\ Fresh(entries[k], now)
      BY <2>1, <2>3 DEF EntryInv, Live
    <3>2. PICK s \in Slots : Owns(k, s)
      BY <2>1, <3>1 DEF EntryInv
    <3>3. gen < latest[k].gen + Capacity
      BY <2>1, <3>1, <3>2, SlotsAreRecent DEF Owns
    <3> QED BY <3>1, <3>3 DEF Recent
  <2> QED BY <2>2, <2>3
<1> QED BY <1>1, Invariant, PTL

\* A repeated key within both bounds is recognised, whatever reading of the
\* clock it is looked up with.
THEOREM NoDuplicate == Spec => NoDuplicateWithinWindow
<1>1. IInv /\ [Next]_vars =>
        [\A k \in Keys : latest'[k] # latest[k] /\ Recent(k) => ~Fresh(latest[k], now)]_vars
  <2> SUFFICES ASSUME IInv, [Next]_vars, NEW k \in Keys, latest'[k] # latest[k], Recent(k),
                      Fresh(latest[k], now)
               PROVE  FALSE
    OBVIOUS
  <2>1. TypeOK /\ EntryInv
    BY DEF IInv
  <2>2. PICK j \in Keys, t \in Readings : ~Live(j, t) /\ Insert(j, t)
    BY <2>1, StepCases DEF Forget, Tick, vars
  <2>3. j = k
    BY <2>1, <2>2, InsertEntries
  <2>4. entries[k].gen # 0 /\ entries[k] = latest[k]
    BY <2>1 DEF EntryInv
  <2>5. Fresh(entries[k], t)
    BY <2>1, <2>4, ReadingsLag
  <2> QED BY <2>2, <2>3, <2>4, <2>5 DEF Live
<1> QED BY <1>1, Invariant, PTL DEF Spec, NoDuplicateWithinWindow

\* The map never outgrows the ring.
THEOREM Bounded == Spec => []MapIsBounded
<1>1. IInv => MapIsBounded
  <2> SUFFICES ASSUME IInv PROVE MapIsBounded
    OBVIOUS
  <2> DEFINE remembered == {k \in Keys : entries[k].gen # 0}
             owners == {ring[s].key : s \in Slots}
  <2>1. remembered \subseteq owners
    BY DEF IInv, EntryInv, Owns
  <2>2. IsFiniteSet(Slots) /\ Cardinality(Slots) = Capacity
    <3>1. Capacity \in Nat /\ 0 < Capacity /\ 0 \in Int /\ Capacity - 1 \in Int
      BY CacheAssumption
    <3>2. IsFiniteSet(0 .. Capacity - 1)
          /\ Cardinality(0 .. Capacity - 1) = IF 0 > Capacity - 1 THEN 0 ELSE Capacity - 1 - 0 + 1
      BY <3>1, FS_Interval
    <3> QED BY <3>1, <3>2 DEF Slots
  <2>3. IsFiniteSet(owners) /\ Cardinality(owners) <= Cardinality(Slots)
    <3> DEFINE keyOf == [s \in Slots |-> ring[s].key]
    <3>1. keyOf \in Surjection(Slots, owners)
      BY DEF Surjection
    <3> HIDE DEF keyOf, owners
    <3> QED BY <2>2, <3>1, FS_Surjection
  <2>4. Cardinality(remembered) <= Cardinality(owners) /\ IsFiniteSet(remembered)
    BY <2>1, <2>3, FS_Subset
  <2>5. Cardinality(remembered) \in Nat /\ Cardinality(owners) \in Nat /\ Capacity \in Nat
    BY <2>3, <2>4, FS_CardinalityType, CacheAssumption
  <2>6. Cardinality(remembered) <= Capacity
    BY <2>2, <2>3, <2>4, <2>5
  <2> QED BY <2>6 DEF MapIsBounded
<1> QED BY <1>1, Invariant, PTL
=============================================================================
