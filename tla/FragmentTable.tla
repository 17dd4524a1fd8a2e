--------------------------- MODULE FragmentTable ---------------------------
(***************************************************************************)
(* The fragment table of one worker (fragment_table.rs): which backend the *)
(* first fragment of a datagram was given, by the hash of its 3-tuple.     *)
(* A table is a function from slots to entries; an entry keeps its age at  *)
(* the worker's latest `now` instead of inserted_at.                       *)
(***************************************************************************)
EXTENDS Integers

CONSTANTS
    FragCapacity,   \* number of slots, a power of two
    FragHashes,     \* the 3-tuple hashes that occur
    FragTtl,        \* fragment_ttl
    MaxAge,         \* ages saturate here, beyond every duration that matters
    Backends,
    Empty           \* a slot with occupied = false

ASSUME FragAssumption ==
    /\ FragCapacity \in Nat \ {0}
    /\ FragHashes \subseteq Nat
    /\ FragTtl \in Nat /\ MaxAge \in Nat /\ MaxAge > FragTtl

FragSlots     == 0 .. (FragCapacity - 1)
FragmentEntry == [hash : FragHashes, backend_ip : Backends, age : 0 .. MaxAge]

ASSUME FragEmptyAssumption == Empty \notin FragmentEntry

probe_distance(h, i) == (i - (h % FragCapacity)) % FragCapacity

FragExpired(e) == e.age > FragTtl

\* The slot where get stops on a match: up to it every slot is occupied, holds
\* another hash and is as far from its own home as the probe has come.
FragFound(t, h) ==
    {i \in FragSlots :
        /\ t[i] # Empty /\ t[i].hash = h
        /\ \A j \in FragSlots : probe_distance(h, j) < probe_distance(h, i) =>
              /\ t[j] # Empty /\ t[j].hash # h
              /\ probe_distance(t[j].hash, j) >= probe_distance(h, j)}

\* What get returns, as a set of at most one backend.
frag_get(t, h) == {t[i].backend_ip : i \in {j \in FragFound(t, h) : ~FragExpired(t[j])}}

\* Mutant of ProbeStep: a match is not overwritten, the entry goes behind it.
ProbeStepPastMatch(s, i) ==
    LET e == s.table[i] IN
    IF e = Empty \/ FragExpired(e)
    THEN [s EXCEPT !.table[i] = s.cur, !.done = TRUE]
    ELSE IF probe_distance(e.hash, i) < s.dist
    THEN [s EXCEPT !.table[i] = s.cur, !.cur = e, !.dist = probe_distance(e.hash, i) + 1]
    ELSE [s EXCEPT !.dist = @ + 1]

\* Mutant of ProbeStep: no entry is ever displaced.
ProbeStepNoSwap(s, i) ==
    LET e == s.table[i] IN
    IF e = Empty \/ FragExpired(e) \/ e.hash = s.cur.hash
    THEN [s EXCEPT !.table[i] = s.cur, !.done = TRUE]
    ELSE [s EXCEPT !.dist = @ + 1]

\* One iteration of insert at slot i with the entry s.cur in hand: store it in
\* a free or expired slot or over its own older entry, or swap it for an entry
\* closer to home, or go on.
ProbeStep(s, i) ==
    LET e == s.table[i] IN
    IF e = Empty \/ FragExpired(e) \/ e.hash = s.cur.hash
    THEN [s EXCEPT !.table[i] = s.cur, !.done = TRUE]
    ELSE IF probe_distance(e.hash, i) < s.dist
    THEN [s EXCEPT !.table[i] = s.cur, !.cur = e, !.dist = probe_distance(e.hash, i) + 1]
    ELSE [s EXCEPT !.dist = @ + 1]

\* The loop variables of insert(h, b) after n iterations.
InsertLoop(t, h, b) ==
    LET loop[n \in 0 .. FragCapacity] ==
          IF n = 0
          THEN [table |-> t, cur |-> [hash |-> h, backend_ip |-> b, age |-> 0],
                dist |-> 0, done |-> FALSE]
          ELSE IF loop[n - 1].done THEN loop[n - 1]
          ELSE ProbeStep(loop[n - 1], (h + n - 1) % FragCapacity)
    IN  loop

\* insert: what is still in hand after FragCapacity iterations is lost.
frag_insert(t, h, b) == InsertLoop(t, h, b)[FragCapacity].table

\* Whether an iteration of insert at slot i ends in the expired slot of
\* another hash than the one in hand.
Reclaim(s, i) ==
    LET e == s.table[i] IN ~s.done /\ e # Empty /\ FragExpired(e) /\ e.hash # s.cur.hash

\* Whether insert loses an entry for want of a slot, or reclaims a slot.
Overflows(t, h, b) == ~InsertLoop(t, h, b)[FragCapacity].done
Reclaims(t, h, b)  ==
    LET loop == InsertLoop(t, h, b) IN
    \E n \in 0 .. (FragCapacity - 1) : Reclaim(loop[n], (h + n) % FragCapacity)

\* The passing of d units of time.
frag_age(t, d) ==
    [i \in FragSlots |->
        IF t[i] = Empty THEN Empty
        ELSE [t[i] EXCEPT !.age = IF @ + d > MaxAge THEN MaxAge ELSE @ + d]]
=============================================================================
