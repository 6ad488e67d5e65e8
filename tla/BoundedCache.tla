---------------------------- MODULE BoundedCache ----------------------------
(***************************************************************************)
(* boundedCache: the memory of the inbound packets already taken and of    *)
(* the packets the bot sent.  A map of the live keys, and a ring of every  *)
(* addition in order, whose oldest slot is reused.  Each operation is one  *)
(* critical section; its caller read the clock before it.                  *)
(***************************************************************************)
EXTENDS Naturals, FiniteSets

CONSTANTS
    Keys,
    Capacity,
    TTL,
    Skew,          \* how old the caller's clock reading may be
    MaxTime,       \* bound: the clock stops here
    MaxAdditions   \* bound: additions to the cache

ASSUME CacheAssumption ==
    /\ Capacity \in Nat \ {0} /\ TTL \in Nat \ {0} /\ Skew \in Nat
    /\ MaxTime \in Nat /\ MaxAdditions \in Nat

ASSUME KeysAssumption == Keys # {}

VARIABLES
    now,
    entries,  \* the map; generation 0 stands for a key that is not in it
    ring,     \* the additions still in the ring; generation 0 for an unused slot
    next,     \* the slot of the next addition
    gen,      \* the generation of the latest addition
    latest    \* the latest addition of each key, whatever became of it

vars == <<now, entries, ring, next, gen, latest>>

Times == 0 .. MaxTime
Slots == 0 .. Capacity - 1
Generations == 0 .. MaxAdditions

Absent == [at |-> 0, gen |-> 0]

\* A slot never used holds the zero key.
Unused == [key |-> CHOOSE k \in Keys : TRUE, at |-> 0, gen |-> 0]

Init ==
    /\ now = 0
    /\ entries = [k \in Keys |-> Absent]
    /\ ring = [s \in Slots |-> Unused]
    /\ next = 0 /\ gen = 0
    /\ latest = [k \in Keys |-> Absent]

\* The clock readings an operation may come with.
Readings == {t \in Times : t <= now /\ now <= t + Skew}

\* now.Sub(e.at) < ttl, which is true of an entry younger than the reading.
Fresh(e, t) == t < e.at + TTL

Live(k, t) == entries[k].gen # 0 /\ Fresh(entries[k], t)

\* Mutant: the slot's key goes even if it was added again since.
EvictedByKey ==
    [k \in Keys |-> IF ring[next].gen # 0 /\ k = ring[next].key THEN Absent ELSE entries[k]]

\* Mutant: nothing leaves the map with its slot.
EvictedNothing == entries

\* What is left of the map once the oldest slot is given up: the slot's key
\* goes with it, unless the key was added again since.
Evicted ==
    LET old == ring[next]
    IN  [k \in Keys |-> IF old.gen # 0 /\ k = old.key /\ entries[k].gen = old.gen
                        THEN Absent ELSE entries[k]]

\* Mutant: the ring does not wrap.
NextSlotUnwrapped == next + 1

\* The slot after the next one.
NextSlot == (next + 1) % Capacity

\* A new generation of the key takes the oldest slot.
Insert(k, t) ==
    /\ gen < MaxAdditions
    /\ gen' = gen + 1
    /\ entries' = [Evicted EXCEPT ![k] = [at |-> t, gen |-> gen + 1]]
    /\ ring' = [ring EXCEPT ![next] = [key |-> k, at |-> t, gen |-> gen + 1]]
    /\ next' = NextSlot
    /\ latest' = [latest EXCEPT ![k] = [at |-> t, gen |-> gen + 1]]
    /\ UNCHANGED now

\* add, and seenOrAdd, which also tells whether the key was live.
SeenOrAdd(k, t) ==
    IF Live(k, t) THEN UNCHANGED vars ELSE Insert(k, t)

\* contains: an expired entry leaves the map, and its slot stays.
Contains(k, t) ==
    /\ entries' = IF Live(k, t) THEN entries ELSE [entries EXCEPT ![k] = Absent]
    /\ UNCHANGED <<now, ring, next, gen, latest>>

\* any: the map is visited in no particular order, expired entries leave it,
\* and the first live match ends the visit.
Any(matching, t) ==
    LET expired == {k \in Keys : entries[k].gen # 0 /\ ~Fresh(entries[k], t)}
        found == \E k \in matching : Live(k, t)
    IN  \E gone \in SUBSET expired :
            /\ ~found => gone = expired
            /\ entries' = [k \in Keys |-> IF k \in gone THEN Absent ELSE entries[k]]
            /\ UNCHANGED <<now, ring, next, gen, latest>>

Tick == now < MaxTime /\ now' = now + 1 /\ UNCHANGED <<entries, ring, next, gen, latest>>

Next ==
    \/ \E k \in Keys, t \in Readings : SeenOrAdd(k, t) \/ Contains(k, t)
    \/ \E matching \in SUBSET Keys, t \in Readings : Any(matching, t)
    \/ Tick

Spec == Init /\ [][Next]_vars

-----------------------------------------------------------------------------

TypeOK ==
    /\ now \in Times
    /\ entries \in [Keys -> [at : Times, gen : Generations]]
    /\ ring \in [Slots -> [key : Keys, at : Times, gen : Generations]]
    /\ next \in Slots
    /\ gen \in Generations
    /\ latest \in [Keys -> [at : Times, gen : Generations]]

\* A key was added among the last Capacity additions.
Recent(k) == latest[k].gen # 0 /\ gen < latest[k].gen + Capacity

\* The cache remembers a key exactly as long as it should: until TTL after its
\* latest addition, or until Capacity further additions.  A slot left over
\* from an earlier addition of the same key does not cut that short.
RemembersExactly ==
    \A k \in Keys : Live(k, now) <=> Recent(k) /\ Fresh(latest[k], now)

\* A key is taken anew only when its latest addition has expired or was pushed
\* out: within both bounds a repeated packet is recognised as a duplicate,
\* however old the reading it is looked up with.
NoDuplicateWithinWindow ==
    [][\A k \in Keys : latest'[k] # latest[k] /\ Recent(k) => ~Fresh(latest[k], now)]_vars

\* The map never outgrows the ring, although expired entries stay in it until
\* they are looked at and their slots are reused apart from them.
MapIsBounded == Cardinality({k \in Keys : entries[k].gen # 0}) <= Capacity
=============================================================================
