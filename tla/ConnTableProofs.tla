-------------------------- MODULE ConnTableProofs --------------------------
(***************************************************************************)
(* Proofs about ConnTable, for any capacity, hashes, TTLs and flags: until *)
(* insert reclaims an expired slot the Robin Hood order get relies on is   *)
(* kept, a flow has one entry at most and a Closing flow stays Closing;    *)
(* and always a packet that is not refused leaves its flow where get finds *)
(* it, an insert loses no live flow unless it refuses one, and size counts *)
(* the occupied slots.                                                     *)
(***************************************************************************)
EXTENDS ConnTable, FiniteSetTheorems, TLAPS

Table == [Slots -> ConnEntry \cup {Empty}]

InsertType == [cur : ConnEntry, idx : Slots, dist : Nat, n : Slots,
               hash : Hashes, flags : FlagSets \cup {NoFlags}]

\* The types, without the bound on size.
Typed ==
    /\ entries \in Table
    /\ reclaimed \in BOOLEAN
    /\ ins = <<>> \/ ins \in InsertType

-----------------------------------------------------------------------------
(***************************************************************************)
(* Probe distances.                                                        *)
(***************************************************************************)
\* A home slot is met at distance 0, then every slot once.
LEMMA Distance ==
    ASSUME NEW h \in Nat, NEW i \in Slots
    PROVE  /\ h % Capacity \in Slots
           /\ probe_distance(h, i) \in Slots /\ probe_distance(h, i) \in Nat
           /\ probe_distance(h, i) = IF i >= h % Capacity THEN i - (h % Capacity)
                                     ELSE i - (h % Capacity) + Capacity
  <1> DEFINE home == h % Capacity
  <1>1. home \in 0 .. (Capacity - 1)
    BY ConnAssumption
  <1> HIDE DEF home
  <1>2. CASE i >= home
    <2>1. i - home \in 0 .. (Capacity - 1)
      BY <1>1, <1>2, ConnAssumption DEF Slots
    <2>2. (i - home) % Capacity = i - home
      BY <2>1, ConnAssumption
    <2> QED
      BY <1>1, <1>2, <2>1, <2>2, ConnAssumption DEF probe_distance, home, Slots
  <1>3. CASE i < home
    <2>1. i - home \in Int /\ -Capacity <= i - home /\ i - home < 0
      BY <1>1, <1>3, ConnAssumption DEF Slots
    <2>2. (i - home) % Capacity = i - home + Capacity
      BY <2>1, ConnAssumption
    <2>3. i - home + Capacity \in 0 .. (Capacity - 1)
      BY <1>1, <2>1, ConnAssumption DEF Slots
    <2> QED
      BY <1>1, <1>3, <2>2, <2>3, ConnAssumption DEF probe_distance, home, Slots
  <1> QED
    BY <1>1, <1>2, <1>3, ConnAssumption DEF Slots

\* No two slots are at the same distance.
LEMMA DistanceInjective ==
    ASSUME NEW h \in Nat, NEW i \in Slots, NEW j \in Slots,
           probe_distance(h, i) = probe_distance(h, j)
    PROVE  i = j
  <1> DEFINE home == h % Capacity
  <1>1. home \in 0 .. (Capacity - 1)
    BY ConnAssumption
  <1>2. /\ probe_distance(h, i) = IF i >= home THEN i - home ELSE i - home + Capacity
        /\ probe_distance(h, j) = IF j >= home THEN j - home ELSE j - home + Capacity
    BY Distance
  <1>3. Capacity \in Nat /\ i \in 0 .. (Capacity - 1) /\ j \in 0 .. (Capacity - 1)
    BY ConnAssumption DEF Slots
  <1> HIDE DEF home
  <1>4. \A a, b \in 0 .. (Capacity - 1) :
           (IF a >= home THEN a - home ELSE a - home + Capacity)
              = (IF b >= home THEN b - home ELSE b - home + Capacity) => a = b
    BY <1>1, <1>3
  <1> QED
    BY <1>2, <1>3, <1>4

\* A flow begins at its home, and the next slot is one further.
LEMMA DistanceSteps ==
    ASSUME NEW h \in Nat
    PROVE  /\ probe_distance(h, h % Capacity) = 0
           /\ \A i \in Slots :
                 /\ (i + 1) % Capacity \in Slots
                 /\ probe_distance(h, i) + 1 < Capacity =>
                       probe_distance(h, (i + 1) % Capacity) = probe_distance(h, i) + 1
  <1> DEFINE home == h % Capacity
  <1>1. home \in 0 .. (Capacity - 1) /\ home \in Slots
    BY ConnAssumption DEF Slots
  <1>2. \A i \in Slots :
           probe_distance(h, i) = IF i >= home THEN i - home ELSE i - home + Capacity
    BY Distance
  <1>3. probe_distance(h, home) = 0
    <2> HIDE DEF home
    <2> QED
      BY <1>1, <1>2, ConnAssumption
  <1>4. ASSUME NEW i \in Slots
        PROVE  (i + 1) % Capacity = IF i = Capacity - 1 THEN 0 ELSE i + 1
    BY ConnAssumption DEF Slots
  <1>5. ASSUME NEW i \in Slots
        PROVE  /\ (i + 1) % Capacity \in Slots
               /\ probe_distance(h, i) + 1 < Capacity =>
                       probe_distance(h, (i + 1) % Capacity) = probe_distance(h, i) + 1
    <2> DEFINE next == (i + 1) % Capacity
    <2>1. next = IF i = Capacity - 1 THEN 0 ELSE i + 1
      BY <1>4
    <2> HIDE DEF home, next
    <2>2. next \in Slots
      BY <2>1, ConnAssumption DEF Slots
    <2>3. /\ probe_distance(h, i) = IF i >= home THEN i - home ELSE i - home + Capacity
          /\ probe_distance(h, next) = IF next >= home THEN next - home ELSE next - home + Capacity
      BY <1>2, <2>2
    <2>4. probe_distance(h, i) + 1 < Capacity => probe_distance(h, next) = probe_distance(h, i) + 1
      BY <1>1, <2>1, <2>2, <2>3, ConnAssumption DEF Slots
    <2> QED
      BY <2>2, <2>4 DEF next
  <1> QED
    BY <1>3, <1>5

-----------------------------------------------------------------------------
(***************************************************************************)
(* The Robin Hood order.                                                   *)
(***************************************************************************)
\* What a probe for h finds on its first d slots: other flows, none of which
\* is closer to its home than the probe is to that of h.
Passed(t, h, d) ==
    \A j \in Slots : probe_distance(h, j) < d =>
        /\ t[j] # Empty /\ t[j].hash # h
        /\ probe_distance(t[j].hash, j) >= probe_distance(h, j)

\* Every entry is where a probe for its flow gets to.
Ordered(t) == \A i \in Occupied(t) : Passed(t, t[i].hash, probe_distance(t[i].hash, i))

LEMMA EntryFacts ==
    ASSUME NEW e \in ConnEntry
    PROVE  e # Empty /\ e.hash \in Hashes /\ e.hash \in Nat
  BY ConnAssumption, EmptyAssumption DEF ConnEntry

LEMMA SlotFacts ==
    ASSUME NEW t \in Table, NEW i \in Slots, t[i] # Empty
    PROVE  /\ t[i] \in ConnEntry /\ t[i].hash \in Nat
           /\ \A j \in Slots : probe_distance(t[i].hash, j) \in Slots
  BY EntryFacts, Distance DEF Table

\* The probe goes past one more slot.
LEMMA PassOne ==
    ASSUME NEW t \in Table, NEW h \in Nat, NEW k \in Slots,
           Passed(t, h, probe_distance(h, k)),
           t[k] # Empty, t[k].hash # h,
           probe_distance(t[k].hash, k) >= probe_distance(h, k)
    PROVE  Passed(t, h, probe_distance(h, k) + 1)
  <1> SUFFICES ASSUME NEW j \in Slots, probe_distance(h, j) < probe_distance(h, k) + 1
               PROVE  /\ t[j] # Empty /\ t[j].hash # h
                      /\ probe_distance(t[j].hash, j) >= probe_distance(h, j)
    BY DEF Passed
  <1>1. probe_distance(h, j) \in Nat /\ probe_distance(h, k) \in Nat
    BY Distance
  <1>2. CASE probe_distance(h, j) < probe_distance(h, k)
    BY <1>2 DEF Passed
  <1>3. CASE probe_distance(h, j) = probe_distance(h, k)
    BY <1>3, DistanceInjective
  <1> QED
    BY <1>1, <1>2, <1>3

\* A slot that the probe has not come to does not matter to it.
LEMMA PassedElsewhere ==
    ASSUME NEW t \in Table, NEW h \in Nat, NEW d \in Nat, NEW k \in Slots, NEW c,
           Passed(t, h, d), probe_distance(h, k) >= d
    PROVE  Passed([t EXCEPT ![k] = c], h, d)
  <1> SUFFICES ASSUME NEW j \in Slots, probe_distance(h, j) < d
               PROVE  j # k
    BY DEF Passed, Table
  <1> QED
    BY Distance

\* A store keeps the order when it fills a free slot, replaces the same flow's
\* entry, or takes the slot of an entry closer to its home.
LEMMA StoreKeepsOrder ==
    ASSUME NEW t \in Table, NEW k \in Slots, NEW c \in ConnEntry,
           Ordered(t), Passed(t, c.hash, probe_distance(c.hash, k)),
           \/ t[k] = Empty \/ t[k].hash = c.hash
           \/ probe_distance(t[k].hash, k) < probe_distance(c.hash, k)
    PROVE  Ordered([t EXCEPT ![k] = c])
  <1> DEFINE u == [t EXCEPT ![k] = c]
  <1>1. u \in Table /\ u[k] = c /\ \A j \in Slots : j # k => u[j] = t[j]
    BY DEF Table
  <1> HIDE DEF u
  <1> SUFFICES ASSUME NEW i \in Occupied(u), NEW j \in Slots,
                      probe_distance(u[i].hash, j) < probe_distance(u[i].hash, i)
               PROVE  /\ u[j] # Empty /\ u[j].hash # u[i].hash
                      /\ probe_distance(u[j].hash, j) >= probe_distance(u[i].hash, j)
    BY DEF Ordered, Passed, u
  <1>2. i \in Slots /\ u[i] # Empty
    BY DEF Occupied
  <1>3. /\ u[i].hash \in Nat
        /\ probe_distance(u[i].hash, j) \in Slots /\ probe_distance(u[i].hash, i) \in Slots
    BY <1>1, <1>2, SlotFacts
  <1>4. j # i
    BY <1>3 DEF Slots
  <1>5. CASE i = k
    <2>1. u[j] = t[j] /\ u[i] = c
      BY <1>1, <1>4, <1>5
    <2> QED
      BY <1>5, <2>1 DEF Passed
  <1>6. CASE i # k /\ j # k
    <2>1. u[j] = t[j] /\ u[i] = t[i] /\ i \in Occupied(t)
      BY <1>1, <1>2, <1>6 DEF Occupied
    <2> QED
      BY <2>1 DEF Ordered, Passed
  <1>7. CASE i # k /\ j = k
    <2>1. u[i] = t[i] /\ i \in Occupied(t) /\ u[j] = c
      BY <1>1, <1>2, <1>7 DEF Occupied
    <2>2. /\ t[k] # Empty /\ t[k].hash # t[i].hash
          /\ probe_distance(t[k].hash, k) >= probe_distance(t[i].hash, k)
      BY <1>7, <2>1 DEF Ordered, Passed
    <2>3. /\ probe_distance(t[k].hash, k) \in Nat /\ probe_distance(t[i].hash, k) \in Nat
          /\ probe_distance(c.hash, k) \in Nat /\ c # Empty
      <3>1. t[k].hash \in Nat /\ t[i].hash \in Nat /\ c.hash \in Nat /\ c # Empty
        BY <1>2, <2>1, <2>2, SlotFacts, EntryFacts
      <3> QED
        BY <3>1, Distance
    <2>4. CASE t[k].hash = c.hash
      BY <1>7, <2>1, <2>2, <2>3, <2>4
    <2>5. CASE probe_distance(t[k].hash, k) < probe_distance(c.hash, k)
      <3>1. c.hash # t[i].hash
        BY <2>2, <2>3, <2>5
      <3> QED
        BY <1>7, <2>1, <2>2, <2>3, <2>5, <3>1
    <2> QED
      BY <2>2, <2>4, <2>5
  <1> QED
    BY <1>5, <1>6, <1>7

\* An entry that gave way has passed the slot it had.
LEMMA DisplacedHasPassed ==
    ASSUME NEW t \in Table, NEW k \in Slots, NEW c \in ConnEntry,
           Ordered(t), t[k] # Empty, t[k].hash # c.hash,
           probe_distance(t[k].hash, k) < probe_distance(c.hash, k)
    PROVE  Passed([t EXCEPT ![k] = c], t[k].hash, probe_distance(t[k].hash, k) + 1)
  <1> DEFINE u == [t EXCEPT ![k] = c]
             h == t[k].hash
             d == probe_distance(h, k)
  <1>1. u \in Table /\ u[k] = c
    BY DEF Table
  <1>2. h \in Nat /\ d \in Nat /\ probe_distance(c.hash, k) \in Nat /\ c # Empty
    <2>1. h \in Nat /\ c.hash \in Nat /\ c # Empty
      BY SlotFacts, EntryFacts
    <2> QED
      BY <2>1, Distance
  <1>3. Passed(t, h, d)
    BY DEF Ordered, Occupied
  <1> HIDE DEF h
  <1>4. Passed(u, h, d)
    BY <1>2, <1>3, PassedElsewhere
  <1> USE DEF h
  <1> QED
    BY <1>1, <1>2, <1>4, PassOne

\* In an ordered table an entry is found, and no flow has a second.
LEMMA OrderedFinds ==
    ASSUME NEW t \in Table, Ordered(t), NEW i \in Occupied(t)
    PROVE  /\ i \in Found(t, t[i].hash)
           /\ \A k \in Occupied(t) : t[k].hash = t[i].hash => k = i
  <1>1. i \in Found(t, t[i].hash)
    BY DEF Found, Ordered, Passed, Occupied
  <1>2. ASSUME NEW k \in Occupied(t), t[k].hash = t[i].hash
        PROVE  k = i
    <2> DEFINE h == t[i].hash
    <2>1. h \in Nat /\ i \in Slots /\ k \in Slots
      BY SlotFacts DEF Occupied
    <2>2. probe_distance(h, i) \in Nat /\ probe_distance(h, k) \in Nat
      BY <2>1, Distance
    <2>3. ~(probe_distance(h, i) < probe_distance(h, k)) /\ ~(probe_distance(h, k) < probe_distance(h, i))
      BY <1>2, <2>1 DEF Ordered, Passed
    <2> QED
      BY <2>1, <2>2, <2>3, DistanceInjective
  <1> QED
    BY <1>1, <1>2

-----------------------------------------------------------------------------
(***************************************************************************)
(* Touches, TCP transitions and the clock: they move no entry and reopen   *)
(* none that is Closing.                                                   *)
(***************************************************************************)
Kept(t, u) ==
    \A i \in Slots :
        /\ u[i] = Empty <=> t[i] = Empty
        /\ t[i] # Empty => /\ u[i].hash = t[i].hash
                           /\ t[i].state = "Closing" => u[i].state = "Closing"

LEMMA MaxAgeType == MaxAge \in Nat
  <1> DEFINE S == {Ttl[x] + 1 : x \in Buckets}
             a == Ttl["tcp_handshake"] + 1
             b == Ttl["tcp_closing"] + 1
             c == Ttl["tcp_established"] + 1
             d == Ttl["udp"] + 1
             e == Ttl["other"] + 1
             ab  == IF a >= b THEN a ELSE b
             cd  == IF c >= d THEN c ELSE d
             cde == IF cd >= e THEN cd ELSE e
             m   == IF ab >= cde THEN ab ELSE cde
  <1>1. S = {a, b, c, d, e}
    BY DEF Buckets
  <1>2. a \in Nat /\ b \in Nat /\ c \in Nat /\ d \in Nat /\ e \in Nat
    BY ConnAssumption DEF Buckets
  <1>3. m \in {a, b, c, d, e} /\ a <= m /\ b <= m /\ c <= m /\ d <= m /\ e <= m
    <2> HIDE DEF a, b, c, d, e
    <2> QED
      BY <1>2
  <1>4. m \in S /\ \A n \in S : n <= m
    <2> HIDE DEF a, b, c, d, e, m, S
    <2> QED
      BY <1>1, <1>3
  <1>5. m \in S /\ \A x \in Buckets : Ttl[x] + 1 <= m
    <2> HIDE DEF m
    <2> QED
      BY <1>4
  <1>6. MaxAge \in S
    <2> HIDE DEF m
    <2> QED
      BY <1>5 DEF MaxAge
  <1> QED
    <2> HIDE DEF a, b, c, d, e
    <2> QED
      BY <1>1, <1>2, <1>6

LEMMA RenewedEntry ==
    ASSUME NEW e \in ConnEntry, NEW s \in States
    PROVE  /\ [e EXCEPT !.state = s, !.age = 0] \in ConnEntry
           /\ [e EXCEPT !.state = s, !.age = 0].hash = e.hash
           /\ [e EXCEPT !.state = s, !.age = 0].age = 0
           /\ [e EXCEPT !.state = s, !.age = 0].state = s
  <1>1. [e EXCEPT !.state = s, !.age = 0]
           = [hash |-> e.hash, backend_ip |-> e.backend_ip, state |-> s, age |-> 0]
    <2> DEFINE f == [e EXCEPT !.state = s]
    <2>1. f = [hash |-> e.hash, backend_ip |-> e.backend_ip, state |-> s, age |-> e.age]
      BY DEF ConnEntry
    <2> HIDE DEF f
    <2>2. [f EXCEPT !.age = 0] = [hash |-> e.hash, backend_ip |-> e.backend_ip, state |-> s, age |-> 0]
      BY <2>1
    <2> QED
      BY <2>2 DEF f
  <1>2. [e EXCEPT !.state = s, !.age = 0] \in ConnEntry
    BY <1>1, MaxAgeType DEF ConnEntry
  <1> QED
    BY <1>1, <1>2

LEMMA KeptTrans ==
    ASSUME NEW t, NEW u, NEW v, Kept(t, u), Kept(u, v)
    PROVE  Kept(t, v)
  BY DEF Kept

LEMMA KeptFacts ==
    ASSUME NEW t \in Table, NEW u \in Table, Kept(t, u)
    PROVE  /\ Occupied(u) = Occupied(t)
           /\ \A h \in Hashes : Found(u, h) = Found(t, h)
           /\ Ordered(t) => Ordered(u)
  BY DEF Kept, Occupied, Found, Ordered, Passed

LEMMA TouchKeeps ==
    ASSUME NEW t \in Table, NEW h \in Hashes
    PROVE  touch(t, h) \in Table /\ Kept(t, touch(t, h))
  <1>1. ASSUME NEW i \in Slots, t[i] # Empty
        PROVE  [t[i] EXCEPT !.age = 0] \in ConnEntry
    BY <1>1, SlotFacts, MaxAgeType DEF ConnEntry
  <1>2. Found(t, h) \subseteq Occupied(t)
    BY DEF Found, Occupied
  <1>3. touch(t, h) \in Table
    BY <1>1, <1>2 DEF touch, Table, Occupied
  <1>4. ASSUME NEW i \in Slots
        PROVE  /\ touch(t, h)[i] = Empty <=> t[i] = Empty
               /\ t[i] # Empty => touch(t, h)[i].hash = t[i].hash /\ touch(t, h)[i].state = t[i].state
    <2>1. CASE i \in Found(t, h)
      <3>1. t[i] \in ConnEntry /\ touch(t, h)[i] = [t[i] EXCEPT !.age = 0]
        BY <1>2, <2>1, SlotFacts DEF touch, Occupied
      <3>2. touch(t, h)[i] \in ConnEntry
        BY <1>1, <1>2, <2>1, <3>1 DEF Occupied
      <3> QED
        BY <3>1, <3>2, EntryFacts DEF ConnEntry
    <2>2. CASE i \notin Found(t, h)
      BY <2>2 DEF touch
    <2> QED
      BY <2>1, <2>2
  <1> QED
    BY <1>3, <1>4 DEF Kept

LEMMA MarkKeeps ==
    ASSUME NEW t \in Table, NEW h \in Hashes
    PROVE  /\ mark_established(t, h) \in Table /\ Kept(t, mark_established(t, h))
           /\ mark_closing(t, h) \in Table /\ Kept(t, mark_closing(t, h))
  <1>1. ASSUME NEW i \in Slots, t[i] # Empty, NEW s \in States
        PROVE  /\ [t[i] EXCEPT !.state = s, !.age = 0] \in ConnEntry
               /\ [t[i] EXCEPT !.state = s, !.age = 0] # Empty
               /\ [t[i] EXCEPT !.state = s, !.age = 0].hash = t[i].hash
               /\ [t[i] EXCEPT !.state = s, !.age = 0].state = s
    <2>1. t[i] \in ConnEntry
      BY <1>1, SlotFacts
    <2> QED
      BY <2>1, RenewedEntry, EntryFacts
  <1>2. Found(t, h) \subseteq Occupied(t) /\ "Established" \in States /\ "Closing" \in States
    BY DEF Found, Occupied, States
  <1>3. mark_established(t, h) \in Table /\ mark_closing(t, h) \in Table
    BY <1>1, <1>2 DEF mark_established, mark_closing, Table, Occupied
  <1>4. Kept(t, mark_established(t, h))
    <2> SUFFICES ASSUME NEW i \in Slots
                 PROVE  LET v == mark_established(t, h)[i]
                        IN  /\ v = Empty <=> t[i] = Empty
                            /\ t[i] # Empty => /\ v.hash = t[i].hash
                                               /\ t[i].state = "Closing" => v.state = "Closing"
      BY DEF Kept
    <2>1. CASE i \in Found(t, h) /\ ProtoOf[h] = "Tcp" /\ t[i].state # "Closing"
      <3>1. t[i] # Empty /\ mark_established(t, h)[i] = [t[i] EXCEPT !.state = "Established", !.age = 0]
        BY <1>2, <2>1 DEF mark_established, Occupied
      <3>2. mark_established(t, h)[i] # Empty /\ mark_established(t, h)[i].hash = t[i].hash
        BY <1>1, <1>2, <3>1, ZenonT(30)
      <3> QED
        BY <2>1, <3>1, <3>2
    <2>2. CASE ~(i \in Found(t, h) /\ ProtoOf[h] = "Tcp" /\ t[i].state # "Closing")
      BY <2>2 DEF mark_established
    <2> QED
      BY <2>1, <2>2
  <1>5. Kept(t, mark_closing(t, h))
    <2> SUFFICES ASSUME NEW i \in Slots
                 PROVE  LET v == mark_closing(t, h)[i]
                        IN  /\ v = Empty <=> t[i] = Empty
                            /\ t[i] # Empty => /\ v.hash = t[i].hash
                                               /\ t[i].state = "Closing" => v.state = "Closing"
      BY DEF Kept
    <2>1. CASE i \in Found(t, h) /\ ProtoOf[h] = "Tcp"
      <3>1. t[i] # Empty /\ mark_closing(t, h)[i] = [t[i] EXCEPT !.state = "Closing", !.age = 0]
        BY <1>2, <2>1 DEF mark_closing, Occupied
      <3>2. /\ mark_closing(t, h)[i] # Empty /\ mark_closing(t, h)[i].hash = t[i].hash
            /\ mark_closing(t, h)[i].state = "Closing"
        <4>1. /\ [t[i] EXCEPT !.state = "Closing", !.age = 0] # Empty
              /\ [t[i] EXCEPT !.state = "Closing", !.age = 0].hash = t[i].hash
              /\ [t[i] EXCEPT !.state = "Closing", !.age = 0].state = "Closing"
          BY <1>1, <1>2, <3>1
        <4> QED
          BY <3>1, <4>1
      <3> QED
        BY <3>1, <3>2
    <2>2. CASE ~(i \in Found(t, h) /\ ProtoOf[h] = "Tcp")
      BY <2>2 DEF mark_closing
    <2> QED
      BY <2>1, <2>2
  <1> QED
    BY <1>3, <1>4, <1>5

LEMMA TransitionsKeep ==
    ASSUME NEW t \in Table, NEW h \in Hashes, NEW flags
    PROVE  /\ apply_tcp_transitions(t, h, flags) \in Table
           /\ Kept(t, apply_tcp_transitions(t, h, flags))
  <1>1. Kept(t, t)
    BY DEF Kept
  <1> QED
    BY <1>1, MarkKeeps DEF apply_tcp_transitions

LEMMA TickKeeps ==
    ASSUME Typed, Tick
    PROVE  entries' \in Table /\ Kept(entries, entries')
  <1>1. ASSUME NEW i \in Slots, entries[i] # Empty, entries[i].age # MaxAge
        PROVE  /\ entries'[i] = [entries[i] EXCEPT !.age = @ + 1]
               /\ entries'[i] \in ConnEntry
               /\ entries'[i].hash = entries[i].hash /\ entries'[i].state = entries[i].state
    <2>1. entries[i] \in ConnEntry
      BY <1>1, SlotFacts DEF Typed
    <2>2. entries'[i] = [entries[i] EXCEPT !.age = @ + 1]
      BY <1>1 DEF Tick
    <2>3. entries[i].age + 1 \in 0 .. MaxAge
      BY <1>1, <2>1, MaxAgeType DEF ConnEntry
    <2> QED
      BY <2>1, <2>2, <2>3 DEF ConnEntry
  <1>2. ASSUME NEW i \in Slots, entries[i] = Empty \/ entries[i].age = MaxAge
        PROVE  entries'[i] = entries[i]
    BY <1>2 DEF Tick
  <1>3. entries' \in Table
    <2>1. entries' = [i \in Slots |-> entries'[i]]
      BY DEF Tick
    <2>2. \A i \in Slots : entries'[i] \in ConnEntry \cup {Empty}
      BY <1>1, <1>2 DEF Typed, Table
    <2> QED
      BY <2>1, <2>2 DEF Table
  <1>4. Kept(entries, entries')
    BY <1>1, <1>2, EntryFacts DEF Kept
  <1> QED
    BY <1>3, <1>4

-----------------------------------------------------------------------------
(***************************************************************************)
(* The invariant.                                                          *)
(***************************************************************************)
\* The entry in hand is as far from its home as the probe says, and the probe
\* has come ins.n slots from the home of the packet's flow.
HandInv ==
    ~Idle => /\ ins.dist = probe_distance(ins.cur.hash, ins.idx)
             /\ ins.dist <= ins.n
             /\ probe_distance(ins.hash, ins.idx) = ins.n
             /\ before.hash = ins.hash

OrderInv ==
    ~reclaimed => /\ Ordered(entries)
                  /\ ~Idle => Passed(entries, ins.cur.hash, ins.dist)

\* A flow seen Closing by its packet: its entry stays so, and an insert for it
\* comes to that entry before it displaces any.
ClosingAt(t, h, i)  == i \in Occupied(t) /\ t[i].hash = h /\ t[i].state = "Closing"
EntriesClosing(t, h) == \A i \in Occupied(t) : t[i].hash = h => t[i].state = "Closing"

ClosingInv ==
    ~reclaimed /\ before.closing =>
        /\ Idle => EntriesClosing(entries, before.hash)
        /\ ~Idle => /\ ins.cur.hash = ins.hash
                    /\ \E i \in Slots : ClosingAt(entries, ins.hash, i)

\* The packet's flow is in hand until it is stored, and what the insert stores
\* later is further along the probe.
TrackInv ==
    /\ ~Idle => \/ ins.cur.hash = ins.hash /\ Passed(entries, ins.hash, ins.n)
                \/ \E p \in Found(entries, ins.hash) : probe_distance(ins.hash, p) < ins.n
    /\ PacketIsTracked

ConnInv == Typed /\ HandInv /\ OrderInv /\ ClosingInv /\ TrackInv

-----------------------------------------------------------------------------
LEMMA FoundStays ==
    ASSUME NEW t \in Table, NEW h \in Nat, NEW p \in Found(t, h), NEW k \in Slots, NEW c,
           probe_distance(h, p) < probe_distance(h, k)
    PROVE  p \in Found([t EXCEPT ![k] = c], h)
  <1>1. p \in Slots /\ probe_distance(h, p) \in Nat /\ probe_distance(h, k) \in Nat
    BY Distance DEF Found
  <1>2. p # k
    BY <1>1
  <1>3. ASSUME NEW j \in Slots, probe_distance(h, j) < probe_distance(h, p)
        PROVE  j # k
    BY <1>1, <1>3
  <1> QED
    BY <1>1, <1>2, <1>3 DEF Found, Table

LEMMA FoundStored ==
    ASSUME NEW t \in Table, NEW k \in Slots, NEW c \in ConnEntry,
           Passed(t, c.hash, probe_distance(c.hash, k))
    PROVE  k \in Found([t EXCEPT ![k] = c], c.hash)
  <1>1. c.hash \in Nat /\ c # Empty
    BY EntryFacts
  <1>2. probe_distance(c.hash, k) \in Nat
    BY <1>1, Distance
  <1>3. ASSUME NEW j \in Slots, probe_distance(c.hash, j) < probe_distance(c.hash, k)
        PROVE  j # k
    BY <1>2, <1>3
  <1> QED
    BY <1>1, <1>3 DEF Found, Passed, Table

LEMMA PassedNone ==
    ASSUME NEW t \in Table, NEW h \in Nat
    PROVE  Passed(t, h, 0)
  BY Distance DEF Passed

LEMMA StateTypes ==
    /\ \A flags \in FlagSets \cup {NoFlags} : initial_tcp_state(flags) \in States
    /\ \A s, r \in States : /\ promote_state(s, r) \in States
                            /\ promote_state(s, r) \in {s, r}
                            /\ promote_state("Closing", r) = "Closing"
  <1>1. ASSUME NEW flags \in FlagSets \cup {NoFlags}
        PROVE  initial_tcp_state(flags) \in States
    <2>1. CASE flags = NoFlags
      BY <2>1 DEF initial_tcp_state, States
    <2>2. CASE flags # NoFlags /\ flags \cap {"rst", "fin"} # {}
      BY <2>2 DEF initial_tcp_state, States
    <2>3. CASE flags # NoFlags /\ flags \cap {"rst", "fin"} = {}
      <3>1. "rst" \notin flags /\ "fin" \notin flags
        BY <2>3
      <3>2. CASE "ack" \notin flags
        <4>1. flags \cap {"rst", "fin", "ack"} = {}
          BY <3>1, <3>2
        <4> QED
          BY <2>3, <3>2, <4>1 DEF initial_tcp_state, States
      <3>3. CASE "ack" \in flags /\ "syn" \in flags
        <4>1. {"syn", "ack"} \subseteq flags
          BY <3>3
        <4> QED
          BY <2>3, <3>3, <4>1 DEF initial_tcp_state, States
      <3>4. CASE "ack" \in flags /\ "syn" \notin flags
        <4>1. flags \cap {"rst", "fin", "syn"} = {}
          BY <3>1, <3>4
        <4> QED
          BY <2>3, <3>4, <4>1 DEF initial_tcp_state, States
      <3> QED
        BY <3>2, <3>3, <3>4
    <2> QED
      BY <2>1, <2>2, <2>3
  <1>2. ASSUME NEW s \in States, NEW r \in States
        PROVE  /\ promote_state(s, r) \in States /\ promote_state(s, r) \in {s, r}
               /\ promote_state("Closing", r) = "Closing"
    <2>1. promote_state("Closing", r) = "Closing"
      BY DEF promote_state
    <2>2. CASE "Closing" \in {s, r}
      BY <2>2, <2>1 DEF promote_state, States
    <2>3. CASE "Closing" \notin {s, r} /\ "Established" \in {s, r}
      BY <2>3, <2>1 DEF promote_state, States
    <2>4. CASE "Closing" \notin {s, r} /\ "Established" \notin {s, r}
      <3>1. {s, r} \cap {"Closing", "Established"} = {}
        BY <2>4
      <3>2. s \in {"NotTcp", "Handshake"} /\ r \in {"NotTcp", "Handshake"}
        BY <2>4 DEF States
      <3>3. "NotTcp" \in {s, r} \/ {s, r} = {"Handshake"}
        BY <3>2
      <3> QED
        BY <2>1, <2>4, <3>1, <3>3 DEF promote_state, States
    <2> QED
      BY <2>2, <2>3, <2>4
  <1> QED
    BY <1>1, <1>2

\* What insert holds, with its types.
LEMMA HandFacts ==
    ASSUME Typed, ~Idle
    PROVE  /\ ins \in InsertType /\ ins.cur \in ConnEntry
           /\ ins.idx \in Slots /\ ins.dist \in Nat /\ ins.n \in Nat /\ ins.n < Capacity
           /\ ins.hash \in Hashes /\ ins.hash \in Nat
           /\ ins.cur.hash \in Hashes /\ ins.cur.hash \in Nat
           /\ ins.flags \in FlagSets \cup {NoFlags}
  <1>1. ins \in InsertType
    BY DEF Typed, Idle
  <1>2. ins.cur \in ConnEntry /\ ins.hash \in Hashes /\ ins.n \in Slots
    BY <1>1 DEF InsertType
  <1>3. /\ ins.idx \in Slots /\ ins.dist \in Nat
        /\ ins.cur \in ConnEntry /\ ins.flags \in FlagSets \cup {NoFlags}
    BY <1>1 DEF InsertType
  <1>4. ins.n \in Nat /\ ins.n < Capacity
    BY <1>2, ConnAssumption DEF Slots
  <1>5. /\ ins.hash \in Nat
        /\ ins.cur.hash \in Hashes /\ ins.cur.hash \in Nat
    BY <1>2, EntryFacts, ConnAssumption
  <1> QED
    BY <1>1, <1>2, <1>3, <1>4, <1>5

LEMMA KeptClosing ==
    ASSUME NEW t, NEW u, NEW h, Kept(t, u)
    PROVE  /\ EntriesClosing(t, h) => EntriesClosing(u, h)
           /\ \A i \in Slots : ClosingAt(t, h, i) => ClosingAt(u, h, i)
  BY DEF Kept, EntriesClosing, ClosingAt, Occupied

\* In an ordered table one Closing entry is all the entries of its flow.
LEMMA OneClosing ==
    ASSUME NEW t \in Table, Ordered(t), NEW h, NEW i \in Slots, ClosingAt(t, h, i)
    PROVE  EntriesClosing(t, h)
  <1> SUFFICES ASSUME NEW k \in Occupied(t), t[k].hash = h
               PROVE  t[k].state = "Closing"
    BY DEF EntriesClosing
  <1>1. i \in Occupied(t) /\ t[i].hash = h
    BY DEF ClosingAt
  <1>2. k = i
    BY <1>1, OrderedFinds
  <1> QED
    BY <1>2 DEF ClosingAt

-----------------------------------------------------------------------------
(***************************************************************************)
(* The steps.                                                              *)
(***************************************************************************)
LEMMA FinishFacts ==
    ASSUME Typed, ~Idle, NEW t \in Table, NEW r, Finish(t, r)
    PROVE  /\ Typed' /\ Idle' /\ Kept(t, entries')
           /\ before' = before /\ result' = r
           /\ ~reclaimed' => ~reclaimed /\ r # "EvictedExpired"
  <1>1. entries' \in Table /\ Kept(t, entries')
    BY HandFacts, TransitionsKeep DEF Finish
  <1> QED
    BY <1>1 DEF Typed, Finish, Idle

LEMMA PacketHitInv ==
    ASSUME ConnInv, NEW h \in Hashes, NEW flags, PacketHit(h, flags)
    PROVE  ConnInv'
  <1>1. entries \in Table
    BY DEF ConnInv, Typed
  <1>2. touch(entries, h) \in Table /\ Kept(entries, touch(entries, h))
    BY <1>1, TouchKeeps
  <1>3. entries' \in Table /\ Kept(entries, entries')
    BY <1>2, TransitionsKeep, KeptTrans DEF PacketHit
  <1>4. Typed' /\ Idle' /\ reclaimed' = reclaimed
    BY <1>3 DEF ConnInv, Typed, PacketHit, Idle
  <1>5. HandInv' /\ TrackInv'
    BY <1>4 DEF HandInv, TrackInv, PacketIsTracked, PacketHit
  <1>6. OrderInv'
    BY <1>1, <1>3, <1>4, KeptFacts DEF ConnInv, OrderInv
  <1>7. ClosingInv'
    <2> SUFFICES ASSUME ~reclaimed, before'.closing
                 PROVE  EntriesClosing(entries', before'.hash)
      BY <1>4 DEF ClosingInv
    <2>1. before'.hash = h /\ \E i \in Slots : ClosingAt(entries, h, i)
      BY DEF PacketHit, Observe, Live, Occupied, ClosingAt
    <2>2. Ordered(entries)
      BY DEF ConnInv, OrderInv
    <2> QED
      BY <1>1, <1>3, <2>1, <2>2, OneClosing, KeptClosing
  <1> QED
    BY <1>4, <1>5, <1>6, <1>7 DEF ConnInv

LEMMA PacketInsertInv ==
    ASSUME ConnInv, NEW h \in Hashes, NEW flags \in FlagSets \cup {NoFlags}, NEW b \in Backends,
           PacketInsert(h, flags, b)
    PROVE  ConnInv'
  <1>1. entries \in Table /\ entries' = entries /\ reclaimed' = reclaimed /\ result' = "none"
    BY DEF ConnInv, Typed, PacketInsert
  <1>2. h \in Nat
    BY ConnAssumption
  <1>3. /\ ins'.cur.hash = h /\ ins'.idx = h % Capacity /\ ins'.dist = 0 /\ ins'.n = 0
        /\ ins'.hash = h /\ before'.hash = h
    BY DEF PacketInsert, Observe
  <1>4. ins' \in InsertType
    <2>1. h % Capacity \in Slots /\ 0 \in Slots
      BY <1>2, Distance, ConnAssumption DEF Slots
    <2>2. initial_tcp_state(flags) \in States
      BY StateTypes
    <2>3. [hash |-> h, backend_ip |-> b, state |-> initial_tcp_state(flags), age |-> 0] \in ConnEntry
      BY <2>2, MaxAgeType DEF ConnEntry
    <2> QED
      BY <2>1, <2>3 DEF PacketInsert, InsertType
  <1>5. Typed'
    BY <1>1, <1>4 DEF ConnInv, Typed
  <1>6. ~Idle'
    <2>1. "n" \in DOMAIN ins'
      BY DEF PacketInsert
    <2>2. DOMAIN <<>> = {}
      OBVIOUS
    <2> QED
      BY <2>1, <2>2 DEF Idle
  <1>7. probe_distance(h, h % Capacity) = 0
    BY <1>2, DistanceSteps
  <1>8. Passed(entries, h, 0)
    BY <1>1, <1>2, PassedNone
  <1>9. HandInv'
    BY <1>3, <1>7 DEF HandInv
  <1>10. OrderInv'
    BY <1>1, <1>3, <1>8 DEF ConnInv, OrderInv
  <1>11. ClosingInv'
    <2> SUFFICES ASSUME before'.closing
                 PROVE  \E i \in Slots : ClosingAt(entries, h, i)
      BY <1>1, <1>3, <1>6 DEF ClosingInv
    <2> QED
      BY DEF PacketInsert, Observe, Live, Occupied, ClosingAt
  <1>12. TrackInv'
    BY <1>1, <1>3, <1>6, <1>8 DEF TrackInv, PacketIsTracked
  <1> QED
    BY <1>5, <1>9, <1>10, <1>11, <1>12 DEF ConnInv

LEMMA TickInv ==
    ASSUME ConnInv, Tick
    PROVE  ConnInv'
  <1>1. entries \in Table /\ entries' \in Table /\ Kept(entries, entries')
    BY TickKeeps DEF ConnInv, Typed
  <1>2. Typed' /\ Idle /\ Idle' /\ reclaimed' = reclaimed /\ before' = before
    BY <1>1 DEF ConnInv, Typed, Tick, Idle
  <1>3. HandInv' /\ TrackInv'
    BY <1>2 DEF HandInv, TrackInv, PacketIsTracked, Tick
  <1>4. OrderInv'
    BY <1>1, <1>2, KeptFacts DEF ConnInv, OrderInv
  <1>5. ClosingInv'
    BY <1>1, <1>2, KeptClosing DEF ConnInv, ClosingInv
  <1> QED
    BY <1>2, <1>3, <1>4, <1>5 DEF ConnInv

LEMMA FinishInv ==
    ASSUME ConnInv, ~Idle, NEW t \in Table, NEW r, Finish(t, r),
           ~reclaimed /\ r # "EvictedExpired" =>
               Ordered(t) /\ (before.closing => EntriesClosing(t, ins.hash)),
           r \in {"Inserted", "Updated", "EvictedExpired"} => Found(t, ins.hash) # {}
    PROVE  ConnInv'
  <1>1. /\ Typed' /\ Idle' /\ Kept(t, entries')
        /\ before' = before /\ result' = r
        /\ ~reclaimed' => ~reclaimed /\ r # "EvictedExpired"
    BY FinishFacts DEF ConnInv
  <1>2. entries' \in Table
    BY <1>1 DEF Typed
  <1>3. before.hash = ins.hash /\ ins.hash \in Hashes
    BY HandFacts DEF ConnInv, HandInv
  <1>4. HandInv'
    BY <1>1 DEF HandInv
  <1>5. OrderInv'
    BY <1>1, <1>2, KeptFacts DEF OrderInv
  <1>6. ClosingInv'
    BY <1>1, <1>3, KeptClosing DEF ClosingInv
  <1>7. Found(entries', ins.hash) = Found(t, ins.hash)
    BY <1>1, <1>2, <1>3, KeptFacts
  <1>8. TrackInv'
    BY <1>1, <1>3, <1>7 DEF TrackInv, PacketIsTracked
  <1> QED
    BY <1>1, <1>4, <1>5, <1>6, <1>8 DEF ConnInv

\* What insert stores is where get finds it, or get finds the packet's flow
\* before it comes to that slot.
LEMMA StoreFinds ==
    ASSUME ConnInv, ~Idle, NEW c \in ConnEntry, c.hash = ins.cur.hash
    PROVE  \E p \in Found([entries EXCEPT ![ins.idx] = c], ins.hash) :
              probe_distance(ins.hash, p) <= ins.n
  <1>1. /\ entries \in Table /\ ins.idx \in Slots /\ ins.n \in Nat /\ ins.hash \in Nat
        /\ probe_distance(ins.hash, ins.idx) = ins.n
    BY HandFacts DEF ConnInv, Typed, HandInv
  <1>2. CASE ins.cur.hash = ins.hash /\ Passed(entries, ins.hash, ins.n)
    <2>1. ins.idx \in Found([entries EXCEPT ![ins.idx] = c], ins.hash)
      BY <1>1, <1>2, FoundStored
    <2> QED
      BY <1>1, <2>1
  <1>3. CASE \E p \in Found(entries, ins.hash) : probe_distance(ins.hash, p) < ins.n
    <2>1. PICK p \in Found(entries, ins.hash) : probe_distance(ins.hash, p) < ins.n
      BY <1>3
    <2>2. p \in Found([entries EXCEPT ![ins.idx] = c], ins.hash)
      BY <1>1, <2>1, FoundStays
    <2>3. probe_distance(ins.hash, p) \in Nat
      BY <1>1, Distance DEF Found
    <2> QED
      BY <1>1, <2>1, <2>2, <2>3
  <1> QED
    BY <1>2, <1>3 DEF ConnInv, TrackInv

LEMMA StoreOrders ==
    ASSUME ConnInv, ~Idle, ~reclaimed, NEW c \in ConnEntry, c.hash = ins.cur.hash,
           \/ entries[ins.idx] = Empty \/ entries[ins.idx].hash = c.hash
           \/ probe_distance(entries[ins.idx].hash, ins.idx) < ins.dist
    PROVE  Ordered([entries EXCEPT ![ins.idx] = c])
  <1>1. entries \in Table /\ ins.idx \in Slots /\ ins.dist = probe_distance(c.hash, ins.idx)
    BY HandFacts DEF ConnInv, Typed, HandInv
  <1>2. Ordered(entries) /\ Passed(entries, c.hash, probe_distance(c.hash, ins.idx))
    BY <1>1 DEF ConnInv, OrderInv
  <1> QED
    BY <1>1, <1>2, StoreKeepsOrder

\* An insert for a Closing flow is at its entry, or at that of another flow
\* which does not give way.
LEMMA ClosingAhead ==
    ASSUME ConnInv, ~Idle, ~reclaimed, before.closing
    PROVE  /\ ins.cur.hash = ins.hash /\ EntriesClosing(entries, ins.hash)
           /\ \E i \in Slots : ClosingAt(entries, ins.hash, i)
           /\ Occupant # Empty
           /\ \/ ClosingAt(entries, ins.hash, ins.idx)
              \/ Occupant.hash # ins.hash /\ Incumbent >= ins.dist
  <1>1. /\ entries \in Table /\ ins.idx \in Slots /\ ins.hash \in Nat /\ ins.cur.hash = ins.hash
        /\ probe_distance(ins.hash, ins.idx) = ins.dist
    BY HandFacts DEF ConnInv, Typed, HandInv, ClosingInv
  <1>2. Ordered(entries) /\ Passed(entries, ins.hash, ins.dist)
    BY <1>1 DEF ConnInv, OrderInv
  <1>3. PICK i \in Slots : ClosingAt(entries, ins.hash, i)
    BY DEF ConnInv, ClosingInv
  <1>4. EntriesClosing(entries, ins.hash)
    BY <1>1, <1>2, <1>3, OneClosing
  <1>5. probe_distance(ins.hash, i) \in Nat /\ ins.dist \in Nat
    <2>1. probe_distance(ins.hash, i) \in Nat /\ probe_distance(ins.hash, ins.idx) \in Nat
      BY <1>1, Distance
    <2> QED
      BY <1>1, <2>1
  <1>6. ~(probe_distance(ins.hash, i) < ins.dist)
    BY <1>2, <1>3 DEF Passed, ClosingAt
  <1>7. CASE probe_distance(ins.hash, i) = ins.dist
    <2>1. i = ins.idx
      BY <1>1, <1>7, DistanceInjective
    <2> QED
      BY <1>1, <1>3, <1>4, <2>1 DEF ClosingAt, Occupied, Occupant
  <1>8. CASE ins.dist < probe_distance(ins.hash, i)
    <2>1. Passed(entries, ins.hash, probe_distance(ins.hash, i))
      BY <1>2, <1>3 DEF Ordered, ClosingAt
    <2>2. Occupant # Empty /\ Occupant.hash # ins.hash /\ Incumbent >= ins.dist
      BY <1>1, <1>8, <2>1 DEF Passed, Occupant, Incumbent
    <2> QED
      BY <1>1, <1>3, <1>4, <2>2
  <1> QED
    BY <1>5, <1>6, <1>7, <1>8

LEMMA InsertEmptyInv ==
    ASSUME ConnInv, InsertEmpty
    PROVE  ConnInv'
  <1> DEFINE t == [entries EXCEPT ![ins.idx] = ins.cur]
  <1>1. ~Idle /\ entries[ins.idx] = Empty /\ Finish(t, "Inserted")
    BY DEF InsertEmpty
  <1>2. ins.cur \in ConnEntry /\ ins.idx \in Slots /\ entries \in Table
    BY <1>1, HandFacts DEF ConnInv, Typed
  <1>3. t \in Table
    BY <1>2 DEF Table
  <1>4. ~reclaimed => Ordered(t)
    BY <1>1, <1>2, StoreOrders
  <1>5. ~reclaimed => ~before.closing
    BY <1>1, ClosingAhead DEF Occupant
  <1>6. Found(t, ins.hash) # {}
    BY <1>1, <1>2, StoreFinds
  <1> HIDE DEF t
  <1> QED
    BY <1>1, <1>3, <1>4, <1>5, <1>6, FinishInv

LEMMA InsertExpiredInv ==
    ASSUME ConnInv, InsertExpired
    PROVE  ConnInv'
  <1> DEFINE t == [entries EXCEPT ![ins.idx] = ins.cur]
  <1>1. ~Idle /\ Finish(t, "EvictedExpired")
    BY DEF InsertExpired
  <1>2. ins.cur \in ConnEntry /\ ins.idx \in Slots /\ entries \in Table
    BY <1>1, HandFacts DEF ConnInv, Typed
  <1>3. t \in Table
    BY <1>2 DEF Table
  <1>4. Found(t, ins.hash) # {}
    BY <1>1, <1>2, StoreFinds
  <1> HIDE DEF t
  <1> QED
    BY <1>1, <1>3, <1>4, FinishInv

LEMMA InsertUpdateInv ==
    ASSUME ConnInv, InsertUpdate
    PROVE  ConnInv'
  <1> DEFINE s == promote_state(Occupant.state, ins.cur.state)
             c == [ins.cur EXCEPT !.state = s]
             t == [entries EXCEPT ![ins.idx] = c]
  <1>1. /\ ~Idle /\ Occupant # Empty /\ Occupant.hash = ins.cur.hash
        /\ Finish(t, "Updated")
    BY DEF InsertUpdate, Blocked
  <1>2. ins.cur \in ConnEntry /\ ins.idx \in Slots /\ entries \in Table
    BY <1>1, HandFacts DEF ConnInv, Typed
  <1>3. Occupant \in ConnEntry
    BY <1>1, <1>2, SlotFacts DEF Occupant
  <1>4. s \in States /\ (Occupant.state = "Closing" => s = "Closing")
    BY <1>2, <1>3, StateTypes DEF ConnEntry
  <1>5. c \in ConnEntry /\ c.hash = ins.cur.hash /\ c.state = s
    <2> HIDE DEF s
    <2> QED
      BY <1>2, <1>4 DEF ConnEntry
  <1>6. t \in Table
    <2> HIDE DEF c
    <2> QED
      BY <1>2, <1>5 DEF Table
  <1>7. ~reclaimed => Ordered(t)
    <2> HIDE DEF c
    <2> QED
      BY <1>1, <1>2, <1>5, StoreOrders DEF Occupant
  <1>8. ~reclaimed /\ before.closing => EntriesClosing(t, ins.hash)
    <2> SUFFICES ASSUME ~reclaimed, before.closing
                 PROVE  EntriesClosing(t, ins.hash)
      OBVIOUS
    <2>1. EntriesClosing(entries, ins.hash) /\ ClosingAt(entries, ins.hash, ins.idx)
      BY <1>1, ClosingAhead
    <2>2. c.state = "Closing"
      BY <1>4, <1>5, <2>1 DEF ClosingAt, Occupant
    <2> HIDE DEF c
    <2> QED
      BY <1>2, <2>1, <2>2 DEF EntriesClosing, Occupied, Table
  <1>9. Found(t, ins.hash) # {}
    <2> HIDE DEF c
    <2> QED
      BY <1>1, <1>2, <1>5, StoreFinds
  <1> HIDE DEF t
  <1> QED
    BY <1>1, <1>6, <1>7, <1>8, <1>9, FinishInv

\* The loop goes on past a slot, its incumbent left there or taken in hand.
LEMMA InsertProbeInv ==
    ASSUME ConnInv, InsertProbe
    PROVE  ConnInv'
  <1> DEFINE swap == Incumbent < ins.dist
             t == IF swap THEN [entries EXCEPT ![ins.idx] = ins.cur] ELSE entries
             d == IF swap THEN Incumbent ELSE ins.dist
             e == IF swap THEN Occupant ELSE ins.cur
             next == (ins.idx + 1) % Capacity
  <1>1. ~Idle /\ Occupant # Empty /\ Occupant.hash # ins.cur.hash
    BY DEF InsertProbe, Mismatch, Blocked
  <1>2. /\ ins \in InsertType /\ ins.cur \in ConnEntry /\ ins.idx \in Slots
        /\ ins.dist \in Nat /\ ins.n \in Nat /\ ins.hash \in Nat /\ ins.cur.hash \in Nat
        /\ entries \in Table
    BY <1>1, HandFacts DEF ConnInv, Typed
  <1>3. /\ Occupant \in ConnEntry /\ Occupant.hash \in Nat /\ Incumbent \in Nat
        /\ Occupant = entries[ins.idx]
        /\ Incumbent = probe_distance(Occupant.hash, ins.idx)
    BY <1>1, <1>2, SlotFacts, Distance DEF Occupant, Incumbent
  <1>4. /\ ins.dist = probe_distance(ins.cur.hash, ins.idx) /\ ins.dist <= ins.n
        /\ probe_distance(ins.hash, ins.idx) = ins.n /\ before.hash = ins.hash
    BY <1>1 DEF ConnInv, HandInv
  <1>5. t \in Table
    BY <1>2 DEF Table
  \* What the step keeps in the table.
  <1>6. ~reclaimed => Ordered(t)
    <2>1. CASE swap
      <3> SUFFICES ASSUME ~reclaimed
                   PROVE  Ordered([entries EXCEPT ![ins.idx] = ins.cur])
        BY <2>1
      <3> QED
        BY <1>1, <1>2, <1>3, <2>1, StoreOrders
    <2>2. CASE ~swap
      BY <2>2 DEF ConnInv, OrderInv
    <2> QED
      BY <2>1, <2>2
  <1>7. ~reclaimed /\ before.closing =>
           /\ ~swap /\ t = entries /\ ins.cur.hash = ins.hash
           /\ EntriesClosing(t, ins.hash) /\ \E i \in Slots : ClosingAt(t, ins.hash, i)
    <2> SUFFICES ASSUME ~reclaimed, before.closing
                 PROVE  ~swap /\ ins.cur.hash = ins.hash
                        /\ EntriesClosing(entries, ins.hash)
                        /\ \E i \in Slots : ClosingAt(entries, ins.hash, i)
      OBVIOUS
    <2>1. /\ ins.cur.hash = ins.hash /\ EntriesClosing(entries, ins.hash)
          /\ \E i \in Slots : ClosingAt(entries, ins.hash, i)
          /\ ClosingAt(entries, ins.hash, ins.idx) \/ Incumbent >= ins.dist
      BY <1>1, ClosingAhead
    <2>2. ~ClosingAt(entries, ins.hash, ins.idx)
      BY <1>1, <1>3, <2>1 DEF ClosingAt
    <2> QED
      BY <1>2, <1>3, <2>1, <2>2
  <1>8. CASE ins.n + 1 = Capacity /\ Finish(t, "DroppedFull")
    <2> HIDE DEF t
    <2> QED
      BY <1>1, <1>5, <1>6, <1>7, <1>8, FinishInv
  <1>9. CASE /\ ins.n + 1 < Capacity /\ entries' = t
             /\ ins' = [ins EXCEPT !.cur = IF swap THEN Occupant ELSE @,
                                   !.dist = d + 1, !.idx = next, !.n = @ + 1]
             /\ UNCHANGED <<result, before, reclaimed>>
    <2> HIDE DEF t, next, d
    <2>1. ins' = [cur |-> e, idx |-> next, dist |-> d + 1, n |-> ins.n + 1,
                  hash |-> ins.hash, flags |-> ins.flags]
      BY <1>2, <1>9 DEF InsertType
    <2>2. e \in ConnEntry /\ e.hash \in Nat
      BY <1>2, <1>3
    <2> HIDE DEF e
    <2>3. /\ ins'.cur = e /\ ins'.idx = next /\ ins'.dist = d + 1 /\ ins'.n = ins.n + 1
          /\ ins'.hash = ins.hash
      BY <2>1
    <2>4. d \in Nat /\ d <= ins.n /\ d = probe_distance(e.hash, ins.idx)
      BY <1>2, <1>3, <1>4 DEF d, e
    <2>5. next \in Slots
      BY <1>2, DistanceSteps DEF next
    <2>6. ins.n + 1 \in Slots /\ d + 1 < Capacity
      BY <1>2, <1>9, <2>4, ConnAssumption DEF Slots
    <2>7. /\ probe_distance(e.hash, next) = d + 1
          /\ probe_distance(ins.hash, next) = ins.n + 1
      BY <1>2, <1>4, <1>9, <2>2, <2>4, <2>6, DistanceSteps DEF next
    <2>8. ins' \in InsertType
      BY <1>2, <2>1, <2>2, <2>4, <2>5, <2>6 DEF InsertType
    <2>9. Typed'
      BY <1>5, <1>9, <2>8 DEF ConnInv, Typed
    <2>10. ~Idle'
      <3>1. "n" \in DOMAIN ins'
        BY <2>1
      <3>2. DOMAIN <<>> = {}
        OBVIOUS
      <3> QED
        BY <3>1, <3>2 DEF Idle
    <2>11. HandInv'
      <3>1. d + 1 <= ins.n + 1
        BY <1>2, <2>4
      <3> QED
        BY <1>4, <1>9, <2>3, <2>7, <3>1 DEF HandInv
    <2>12. ~reclaimed => Passed(t, e.hash, d + 1)
      <3> SUFFICES ASSUME ~reclaimed PROVE Passed(t, e.hash, d + 1)
        OBVIOUS
      <3>1. Ordered(entries) /\ Passed(entries, ins.cur.hash, ins.dist)
        BY <1>1 DEF ConnInv, OrderInv
      <3>2. CASE swap
        <4>1. Passed([entries EXCEPT ![ins.idx] = ins.cur], Occupant.hash,
                     probe_distance(Occupant.hash, ins.idx) + 1)
          BY <1>1, <1>2, <1>3, <1>4, <3>1, <3>2, DisplacedHasPassed
        <4> QED
          BY <1>3, <3>2, <4>1 DEF t, e, d
      <3>3. CASE ~swap
        <4>1. Incumbent >= ins.dist
          BY <1>2, <1>3, <3>3
        <4>2. Passed(entries, ins.cur.hash, probe_distance(ins.cur.hash, ins.idx) + 1)
          BY <1>1, <1>2, <1>3, <1>4, <3>1, <4>1, PassOne
        <4> QED
          BY <1>4, <3>3, <4>2 DEF t, e, d
      <3> QED
        BY <3>2, <3>3
    <2>13. OrderInv'
      BY <1>6, <1>9, <2>3, <2>12 DEF OrderInv
    <2>14. ClosingInv'
      <3> SUFFICES ASSUME ~reclaimed, before.closing
                   PROVE  e.hash = ins.hash /\ \E i \in Slots : ClosingAt(t, ins.hash, i)
        BY <1>9, <2>3, <2>10 DEF ClosingInv
      <3> QED
        BY <1>7 DEF e
    <2>15. \/ e.hash = ins.hash /\ Passed(t, ins.hash, ins.n + 1)
           \/ \E p \in Found(t, ins.hash) : probe_distance(ins.hash, p) < ins.n + 1
      <3>1. CASE swap
        <4>1. PICK p \in Found(t, ins.hash) : probe_distance(ins.hash, p) <= ins.n
          BY <1>1, <1>2, <3>1, StoreFinds DEF t
        <4>2. probe_distance(ins.hash, p) \in Nat
          BY <1>2, Distance DEF Found
        <4> QED
          BY <1>2, <4>1, <4>2
      <3>2. CASE ~swap /\ ins.cur.hash = ins.hash /\ Passed(entries, ins.hash, ins.n)
        <4>1. ins.dist = ins.n
          BY <1>4, <3>2
        <4>2. Incumbent >= probe_distance(ins.hash, ins.idx)
          BY <1>2, <1>3, <1>4, <3>2, <4>1
        <4>3. Passed(entries, ins.hash, probe_distance(ins.hash, ins.idx) + 1)
          BY <1>1, <1>2, <1>3, <1>4, <3>2, <4>2, PassOne
        <4> QED
          BY <1>4, <3>2, <4>3 DEF t, e
      <3>3. CASE ~swap /\ \E p \in Found(entries, ins.hash) : probe_distance(ins.hash, p) < ins.n
        <4>1. PICK p \in Found(entries, ins.hash) : probe_distance(ins.hash, p) < ins.n
          BY <3>3
        <4>2. probe_distance(ins.hash, p) \in Nat
          BY <1>2, Distance DEF Found
        <4> QED
          BY <1>2, <3>3, <4>1, <4>2 DEF t
      <3> QED
        BY <1>1, <3>1, <3>2, <3>3 DEF ConnInv, TrackInv
    <2>16. TrackInv'
      BY <1>9, <2>3, <2>10, <2>15 DEF TrackInv, PacketIsTracked
    <2> QED
      BY <2>9, <2>11, <2>13, <2>14, <2>16 DEF ConnInv
  <1> QED
    BY <1>8, <1>9 DEF InsertProbe, ProbeStep

THEOREM ConnInvHolds == Spec => []ConnInv
  <1>1. Init => ConnInv
    <2> SUFFICES ASSUME Init PROVE ConnInv
      OBVIOUS
    <2>1. entries \in Table /\ Occupied(entries) = {} /\ Idle /\ reclaimed = FALSE /\ result = "none"
      BY DEF Init, Table, Occupied, Idle
    <2>2. Typed /\ HandInv /\ TrackInv
      BY <2>1 DEF Typed, HandInv, TrackInv, PacketIsTracked, Init
    <2>3. OrderInv /\ ClosingInv
      BY <2>1 DEF OrderInv, ClosingInv, Ordered, EntriesClosing
    <2> QED
      BY <2>2, <2>3 DEF ConnInv
  <1>2. ConnInv /\ [Next]_vars => ConnInv'
    <2> SUFFICES ASSUME ConnInv, [Next]_vars PROVE ConnInv'
      OBVIOUS
    <2>1. ASSUME NEW h \in Hashes, NEW flags \in FlagsOf(h), PacketHit(h, flags)
          PROVE  ConnInv'
      BY <2>1, PacketHitInv
    <2>2. ASSUME NEW h \in Hashes, NEW flags \in FlagsOf(h), NEW b \in Backends,
                 PacketInsert(h, flags, b)
          PROVE  ConnInv'
      <3>1. flags \in FlagSets \cup {NoFlags}
        BY DEF FlagsOf
      <3> QED
        BY <2>2, <3>1, PacketInsertInv
    <2>3. CASE InsertEmpty
      BY <2>3, InsertEmptyInv
    <2>4. CASE InsertExpired
      BY <2>4, InsertExpiredInv
    <2>5. CASE InsertUpdate
      BY <2>5, InsertUpdateInv
    <2>6. CASE InsertProbe
      BY <2>6, InsertProbeInv
    <2>7. CASE Tick
      BY <2>7, TickInv
    <2>8. CASE UNCHANGED vars
      BY <2>8 DEF vars, ConnInv, Typed, HandInv, OrderInv, ClosingInv, TrackInv, PacketIsTracked,
                  Idle, Occupied, Found, Passed, Ordered, ClosingAt, EntriesClosing
    <2> QED
      BY <2>1, <2>2, <2>3, <2>4, <2>5, <2>6, <2>7, <2>8 DEF Next
  <1> QED
    BY <1>1, <1>2, PTL DEF Spec

\* As long as insert reclaims no expired slot, get finds every live entry, a
\* flow has one at most, and the distance that insert carries is the true one.
THEOREM RobinHoodOrderHolds == Spec => []ReachableBeforeReclaim
  <1>1. ConnInv => ReachableBeforeReclaim
    <2> SUFFICES ASSUME ConnInv PROVE ReachableBeforeReclaim
      OBVIOUS
    <2>1. DistIsProbeDistance
      BY DEF ConnInv, HandInv, DistIsProbeDistance
    <2>2. ASSUME Idle, ~reclaimed
          PROVE  Reachable /\ \A h \in Hashes : Cardinality(Live(entries, h)) <= 1
      <3>1. entries \in Table /\ Ordered(entries)
        BY <2>2 DEF ConnInv, Typed, OrderInv
      <3>2. Reachable
        <4> SUFFICES ASSUME NEW i \in Occupied(entries), ~is_expired(entries[i])
                     PROVE  get(entries, entries[i].hash) # {}
          BY DEF Reachable
        <4>1. i \in Found(entries, entries[i].hash)
          BY <3>1, OrderedFinds
        <4> QED
          BY <4>1 DEF get
      <3>3. ASSUME NEW h \in Hashes
            PROVE  Cardinality(Live(entries, h)) <= 1
        <4>1. CASE Live(entries, h) = {}
          BY <4>1, FS_EmptySet
        <4>2. CASE Live(entries, h) # {}
          <5>1. PICK i : i \in Live(entries, h)
            BY <4>2
          <5>2. i \in Occupied(entries) /\ entries[i].hash = h
            BY <5>1 DEF Live
          <5>3. \A k \in Live(entries, h) : k = i
            BY <3>1, <5>2, OrderedFinds DEF Live
          <5>4. Live(entries, h) = {i}
            BY <5>1, <5>3
          <5>5. Cardinality({i}) = 1
            BY FS_Singleton
          <5> QED
            BY <5>4, <5>5
        <4> QED
          BY <4>1, <4>2
      <3> QED
        BY <3>2, <3>3
    <2> QED
      BY <2>1, <2>2 DEF ReachableBeforeReclaim
  <1> QED
    BY <1>1, ConnInvHolds, PTL

\* Until then a flow whose packet found it Closing is Closing for the next.
THEOREM ClosingIsNotReopened == Spec => []ClosingIsTerminal
  <1>1. ConnInv => ClosingIsTerminal
    BY DEF ConnInv, ClosingInv, ClosingIsTerminal, EntriesClosing, get, Found, Occupied
  <1> QED
    BY <1>1, ConnInvHolds, PTL

\* A packet that is not refused leaves its flow where the next one finds it,
\* reclaimed slots or not.
THEOREM AcceptedIsTracked == Spec => []PacketIsTracked
  <1>1. ConnInv => PacketIsTracked
    BY DEF ConnInv, TrackInv
  <1> QED
    BY <1>1, ConnInvHolds, PTL

-----------------------------------------------------------------------------
(***************************************************************************)
(* What an insert loses.  Once a slot has been reclaimed a flow can be in  *)
(* the table twice, and an insert can merge the two: the merged entry is   *)
(* live because of two entries of a flow the nearer to home is never the   *)
(* older one.                                                              *)
(***************************************************************************)
AgesOrdered(t) ==
    \A i, k \in Occupied(t) :
        t[i].hash = t[k].hash /\ probe_distance(t[i].hash, i) < probe_distance(t[k].hash, k) =>
            t[i].age <= t[k].age

\* The same of the entry in hand, at distance d.
HandAge(t, c, d) ==
    \A i \in Occupied(t) : t[i].hash = c.hash =>
        IF probe_distance(c.hash, i) < d THEN t[i].age <= c.age ELSE c.age <= t[i].age

Known == before.live \cup {before.hash}

LostIn(t) == {h \in Known : Live(t, h) = {}}

NoneOf(t, h) == \A i \in Occupied(t) : t[i].hash # h

\* While an insert runs, all flows but that of the entry in hand are held.
LossInv ==
    /\ size \in Nat /\ SizeIsOccupancy
    /\ AgesOrdered(entries)
    /\ ~Idle => /\ HandAge(entries, ins.cur, ins.dist)
                /\ ~is_expired(ins.cur) /\ ins.cur.hash \in Known
                /\ LostIn(entries) \subseteq {ins.cur.hash}
                /\ \A i \in Occupied(entries) : ~is_expired(entries[i]) => entries[i].hash \in Known
                /\ ~reclaimed => \/ ins.cur.hash = ins.hash /\ ins.dist = ins.n
                                 \/ NoneOf(entries, ins.cur.hash)
    /\ OnlyDropLosesFlow

LEMMA TtlType ==
    ASSUME NEW h \in Hashes, NEW s
    PROVE  ttl_for(h, s) \in Nat
  <1>1. /\ ProtoOf[h] \in {"Tcp", "Udp", "Other"}
        /\ Ttl["tcp_handshake"] \in Nat /\ Ttl["tcp_closing"] \in Nat
        /\ Ttl["tcp_established"] \in Nat /\ Ttl["udp"] \in Nat /\ Ttl["other"] \in Nat
    BY ConnAssumption DEF Buckets
  <1>2. CASE ProtoOf[h] = "Tcp"
    BY <1>1, <1>2 DEF ttl_for
  <1>3. CASE ProtoOf[h] = "Udp"
    BY <1>1, <1>3 DEF ttl_for
  <1>4. CASE ProtoOf[h] = "Other"
    BY <1>1, <1>4 DEF ttl_for
  <1> QED
    BY <1>1, <1>2, <1>3, <1>4

LEMMA FreshIsLive ==
    ASSUME NEW e \in ConnEntry, e.age = 0
    PROVE  ~is_expired(e)
  <1>1. ttl_for(e.hash, e.state) \in Nat
    BY EntryFacts, TtlType
  <1> QED
    BY <1>1 DEF is_expired

\* touch and the transitions renew the entry the probe finds, and no other.
Renewed(t, u, h) ==
    \A i \in Slots :
        \/ u[i] = t[i]
        \/ /\ i \in Found(t, h) /\ t[i] # Empty
           /\ u[i] \in ConnEntry /\ u[i].hash = t[i].hash /\ u[i].age = 0

LEMMA TouchRenews ==
    ASSUME NEW t \in Table, NEW h \in Hashes
    PROVE  Renewed(t, touch(t, h), h)
  <1> SUFFICES ASSUME NEW i \in Found(t, h)
               PROVE  /\ t[i] # Empty
                      /\ touch(t, h)[i] \in ConnEntry
                      /\ touch(t, h)[i].hash = t[i].hash /\ touch(t, h)[i].age = 0
    BY DEF Renewed, touch
  <1>1. i \in Slots /\ t[i] # Empty /\ t[i] \in ConnEntry
    BY SlotFacts DEF Found
  <1>2. touch(t, h)[i] = [t[i] EXCEPT !.age = 0]
    BY <1>1 DEF touch
  <1>3. touch(t, h)[i] = [hash |-> t[i].hash, backend_ip |-> t[i].backend_ip,
                          state |-> t[i].state, age |-> 0]
    BY <1>1, <1>2 DEF ConnEntry
  <1>4. touch(t, h)[i] \in ConnEntry
    BY <1>1, <1>3, MaxAgeType DEF ConnEntry
  <1> QED
    BY <1>1, <1>3, <1>4

LEMMA TransitionsRenew ==
    ASSUME NEW t \in Table, NEW h \in Hashes, NEW flags
    PROVE  Renewed(t, apply_tcp_transitions(t, h, flags), h)
  <1>1. ASSUME NEW i \in Found(t, h)
        PROVE  i \in Slots /\ t[i] # Empty /\ t[i] \in ConnEntry
    BY SlotFacts DEF Found
  <1>2. Renewed(t, mark_established(t, h), h)
    <2> SUFFICES ASSUME NEW i \in Slots
                 PROVE  \/ mark_established(t, h)[i] = t[i]
                        \/ /\ i \in Found(t, h) /\ t[i] # Empty
                           /\ mark_established(t, h)[i] \in ConnEntry
                           /\ mark_established(t, h)[i].hash = t[i].hash
                           /\ mark_established(t, h)[i].age = 0
      BY DEF Renewed
    <2>1. CASE i \in Found(t, h) /\ ProtoOf[h] = "Tcp" /\ t[i].state # "Closing"
      <3>1. mark_established(t, h)[i] = [t[i] EXCEPT !.state = "Established", !.age = 0]
        BY <2>1 DEF mark_established
      <3>2. t[i] \in ConnEntry /\ t[i] # Empty /\ "Established" \in States
        BY <1>1, <2>1 DEF States
      <3>3. /\ [t[i] EXCEPT !.state = "Established", !.age = 0] \in ConnEntry
            /\ [t[i] EXCEPT !.state = "Established", !.age = 0].hash = t[i].hash
            /\ [t[i] EXCEPT !.state = "Established", !.age = 0].age = 0
        BY <3>2, RenewedEntry
      <3> QED
        BY <2>1, <3>1, <3>2, <3>3
    <2>2. CASE ~(i \in Found(t, h) /\ ProtoOf[h] = "Tcp" /\ t[i].state # "Closing")
      BY <2>2 DEF mark_established
    <2> QED
      BY <2>1, <2>2
  <1>3. Renewed(t, mark_closing(t, h), h)
    <2> SUFFICES ASSUME NEW i \in Slots
                 PROVE  \/ mark_closing(t, h)[i] = t[i]
                        \/ /\ i \in Found(t, h) /\ t[i] # Empty
                           /\ mark_closing(t, h)[i] \in ConnEntry
                           /\ mark_closing(t, h)[i].hash = t[i].hash
                           /\ mark_closing(t, h)[i].age = 0
      BY DEF Renewed
    <2>1. CASE i \in Found(t, h) /\ ProtoOf[h] = "Tcp"
      <3>1. mark_closing(t, h)[i] = [t[i] EXCEPT !.state = "Closing", !.age = 0]
        BY <2>1 DEF mark_closing
      <3>2. t[i] \in ConnEntry /\ t[i] # Empty /\ "Closing" \in States
        BY <1>1, <2>1 DEF States
      <3>3. /\ [t[i] EXCEPT !.state = "Closing", !.age = 0] \in ConnEntry
            /\ [t[i] EXCEPT !.state = "Closing", !.age = 0].hash = t[i].hash
            /\ [t[i] EXCEPT !.state = "Closing", !.age = 0].age = 0
        BY <3>2, RenewedEntry
      <3> QED
        BY <2>1, <3>1, <3>2, <3>3
    <2>2. CASE ~(i \in Found(t, h) /\ ProtoOf[h] = "Tcp")
      BY <2>2 DEF mark_closing
    <2> QED
      BY <2>1, <2>2
  <1>4. Renewed(t, t, h)
    BY DEF Renewed
  <1> QED
    BY <1>2, <1>3, <1>4 DEF apply_tcp_transitions

LEMMA RenewedFacts ==
    ASSUME NEW t \in Table, NEW u \in Table, NEW h \in Hashes, Renewed(t, u, h)
    PROVE  /\ Occupied(u) = Occupied(t)
           /\ \A g : NoneOf(t, g) => NoneOf(u, g)
           /\ \A g : Live(t, g) # {} => Live(u, g) # {}
           /\ AgesOrdered(t) => AgesOrdered(u)
  <1>1. ASSUME NEW i \in Slots
        PROVE  /\ u[i] = Empty <=> t[i] = Empty
               /\ t[i] # Empty => u[i].hash = t[i].hash
    BY EntryFacts DEF Renewed
  <1>2. Occupied(u) = Occupied(t)
    BY <1>1 DEF Occupied
  <1>3. ASSUME NEW g, NEW i \in Live(t, g)
        PROVE  i \in Live(u, g)
    <2>1. i \in Occupied(t) /\ i \in Slots /\ t[i] # Empty /\ t[i].hash = g /\ ~is_expired(t[i])
      BY DEF Live, Occupied
    <2>2. ~is_expired(u[i])
      BY <2>1, FreshIsLive DEF Renewed
    <2> QED
      BY <1>1, <1>2, <2>1, <2>2 DEF Live
  <1>4. ASSUME AgesOrdered(t)
        PROVE  AgesOrdered(u)
    <2> SUFFICES ASSUME NEW i \in Occupied(u), NEW k \in Occupied(u), u[i].hash = u[k].hash,
                        probe_distance(u[i].hash, i) < probe_distance(u[k].hash, k)
                 PROVE  u[i].age <= u[k].age
      BY DEF AgesOrdered
    <2>1. /\ i \in Slots /\ k \in Slots /\ i \in Occupied(t) /\ k \in Occupied(t)
          /\ u[i].hash = t[i].hash /\ u[k].hash = t[k].hash
      BY <1>1, <1>2 DEF Occupied
    <2>2. t[i].age <= t[k].age
      BY <1>4, <2>1 DEF AgesOrdered
    <2>3. u[i] \in ConnEntry /\ u[k] \in ConnEntry
      BY SlotFacts DEF Occupied
    <2>4. u[i].age \in Nat /\ u[k].age \in Nat
      BY <2>3, MaxAgeType DEF ConnEntry
    <2>5. CASE u[i] = t[i] /\ u[k] # t[k]
      <3>1. k \in Found(t, h)
        BY <2>1, <2>5 DEF Renewed
      <3>2. t[k].hash = h /\ t[i].hash = h /\ probe_distance(h, i) < probe_distance(h, k)
        BY <2>1, <3>1 DEF Found
      <3> QED
        BY <2>1, <3>1, <3>2 DEF Found
    <2>6. CASE u[i] # t[i]
      <3>1. u[i].age = 0
        BY <2>1, <2>6 DEF Renewed
      <3> QED
        BY <2>4, <3>1
    <2>7. CASE u[i] = t[i] /\ u[k] = t[k]
      BY <2>2, <2>7
    <2> QED
      BY <2>5, <2>6, <2>7
  <1>5. ASSUME NEW g, NoneOf(t, g)
        PROVE  NoneOf(u, g)
    BY <1>1, <1>2, <1>5 DEF NoneOf, Occupied
  <1> QED
    BY <1>2, <1>3, <1>4, <1>5

LEMMA AgesStored ==
    ASSUME NEW t \in Table, NEW k \in Slots, NEW c \in ConnEntry, AgesOrdered(t),
           HandAge(t, c, probe_distance(c.hash, k))
    PROVE  AgesOrdered([t EXCEPT ![k] = c])
  <1> DEFINE u == [t EXCEPT ![k] = c]
  <1>1. u \in Table /\ u[k] = c /\ \A j \in Slots : j # k => u[j] = t[j]
    BY DEF Table
  <1> HIDE DEF u
  <1> SUFFICES ASSUME NEW i \in Occupied(u), NEW j \in Occupied(u), u[i].hash = u[j].hash,
                      probe_distance(u[i].hash, i) < probe_distance(u[j].hash, j)
               PROVE  u[i].age <= u[j].age
    BY DEF AgesOrdered, u
  <1>2. i \in Slots /\ j \in Slots /\ c.hash \in Nat
    BY EntryFacts DEF Occupied
  <1>3. /\ i # k => u[i] = t[i] /\ i \in Occupied(t)
        /\ j # k => u[j] = t[j] /\ j \in Occupied(t)
    BY <1>1 DEF Occupied
  <1>4. /\ probe_distance(c.hash, i) \in Nat /\ probe_distance(c.hash, j) \in Nat
        /\ probe_distance(c.hash, k) \in Nat
    BY <1>2, Distance
  <1>5. CASE i # k /\ j # k
    BY <1>3, <1>5 DEF AgesOrdered
  <1>6. CASE i # k /\ j = k
    BY <1>1, <1>3, <1>4, <1>6 DEF HandAge
  <1>7. CASE i = k /\ j # k
    <2>1. t[j].hash = c.hash /\ probe_distance(c.hash, k) < probe_distance(c.hash, j)
      BY <1>1, <1>3, <1>7
    <2> QED
      BY <1>1, <1>3, <1>4, <1>7, <2>1 DEF HandAge
  <1>8. CASE i = k /\ j = k
    BY <1>1, <1>4, <1>8
  <1> QED
    BY <1>5, <1>6, <1>7, <1>8

\* Storing the entry in hand: what it takes the place of is all that can be lost.
LEMMA StoreLoses ==
    ASSUME NEW t \in Table, NEW k \in Slots, NEW c \in ConnEntry, ~is_expired(c),
           LostIn(t) \subseteq {c.hash}
    PROVE  /\ t[k] # Empty /\ ~is_expired(t[k]) => LostIn([t EXCEPT ![k] = c]) \subseteq {t[k].hash}
           /\ t[k] = Empty \/ is_expired(t[k]) \/ t[k].hash = c.hash => LostIn([t EXCEPT ![k] = c]) = {}
  <1> DEFINE u == [t EXCEPT ![k] = c]
  <1>1. u \in Table /\ u[k] = c /\ \A j \in Slots : j # k => u[j] = t[j]
    BY DEF Table
  <1> HIDE DEF u
  <1>2. k \in Live(u, c.hash)
    BY <1>1, EntryFacts DEF Live, Occupied
  <1>3. ASSUME NEW g, NEW i \in Live(t, g), i # k
        PROVE  i \in Live(u, g)
    BY <1>1, <1>3 DEF Live, Occupied
  <1>4. ASSUME NEW g \in LostIn(u)
        PROVE  g # c.hash /\ k \in Live(t, g)
    <2>1. g # c.hash /\ g \in Known
      BY <1>2 DEF LostIn
    <2>2. Live(t, g) # {}
      BY <2>1 DEF LostIn
    <2> QED
      BY <1>3, <2>1, <2>2 DEF LostIn
  <1>5. ASSUME NEW g \in LostIn(u)
        PROVE  t[k] # Empty /\ ~is_expired(t[k]) /\ t[k].hash = g /\ g # c.hash
    BY <1>4, <1>5 DEF Live, Occupied
  <1> QED
    BY <1>5 DEF u

LEMMA OccupiedFinite ==
    ASSUME NEW t
    PROVE  IsFiniteSet(Occupied(t)) /\ Cardinality(Occupied(t)) \in Nat
  <1>1. IsFiniteSet(Slots)
    BY FS_Interval, ConnAssumption DEF Slots
  <1>2. Occupied(t) \in SUBSET Slots
    BY DEF Occupied
  <1> QED
    BY <1>1, <1>2, FS_Subset, FS_CardinalityType

\* After insert has ended with the table t.
LEMMA FinishLoss ==
    ASSUME ConnInv, LossInv, ~Idle, NEW t \in Table, NEW r, Finish(t, r),
           AgesOrdered(t), size' \in Nat, size' = Cardinality(Occupied(t)),
           IF r = "DroppedFull"
           THEN \E h \in Known : /\ LostIn(t) \subseteq {h}
                                 /\ ~reclaimed => NoneOf(t, h)
           ELSE LostIn(t) = {}
    PROVE  LossInv'
  <1>1. /\ Typed' /\ Idle' /\ before' = before /\ result' = r
        /\ ~reclaimed' => ~reclaimed
    BY FinishFacts DEF ConnInv
  <1>2. Renewed(t, entries', ins.hash) /\ entries' \in Table /\ ins.hash \in Hashes
    BY <1>1, HandFacts, TransitionsRenew DEF ConnInv, Finish, Typed
  <1>3. /\ Occupied(entries') = Occupied(t)
        /\ \A g : NoneOf(t, g) => NoneOf(entries', g)
        /\ \A g : Live(t, g) # {} => Live(entries', g) # {}
        /\ AgesOrdered(entries')
    BY <1>2, RenewedFacts
  <1>4. Lost' \subseteq LostIn(t) /\ \A h \in Known : NoneOf(entries', h) => h \in Lost'
    BY <1>1, <1>3 DEF Lost, LostIn, Known, NoneOf, Live
  <1>5. SizeIsOccupancy'
    BY <1>3 DEF SizeIsOccupancy
  <1>6. IF r = "DroppedFull"
        THEN \E h \in Known : Lost' \subseteq {h} /\ (~reclaimed' => Lost' = {h})
        ELSE Lost' = {}
    <2>1. CASE r = "DroppedFull"
      <3>1. PICK h \in Known : LostIn(t) \subseteq {h} /\ (~reclaimed => NoneOf(t, h))
        BY <2>1
      <3>2. Lost' \subseteq {h}
        BY <1>4, <3>1
      <3>3. ~reclaimed' => h \in Lost'
        BY <1>1, <1>3, <1>4, <3>1
      <3>4. ~reclaimed' => Lost' = {h}
        BY <3>2, <3>3
      <3> QED
        BY <2>1, <3>2, <3>4
    <2>2. CASE r # "DroppedFull"
      BY <1>4, <2>2
    <2> QED
      BY <2>1, <2>2
  <1>7. OnlyDropLosesFlow'
    BY <1>1, <1>5, <1>6 DEF OnlyDropLosesFlow, Known
  <1> QED
    BY <1>1, <1>3, <1>5, <1>7 DEF LossInv

LEMMA PacketHitLoss ==
    ASSUME ConnInv, LossInv, NEW h \in Hashes, NEW flags, PacketHit(h, flags)
    PROVE  LossInv'
  <1> DEFINE t == touch(entries, h)
  <1>1. entries \in Table /\ t \in Table /\ Idle
    BY TouchKeeps DEF ConnInv, Typed, PacketHit
  <1>2. entries' = apply_tcp_transitions(t, h, flags)
    BY DEF PacketHit
  <1>3. Renewed(entries, t, h)
    BY <1>1, TouchRenews
  <1> HIDE DEF t
  <1>4. entries' \in Table /\ Renewed(t, entries', h)
    BY <1>1, <1>2, TransitionsKeep, TransitionsRenew
  <1>5. Occupied(t) = Occupied(entries) /\ AgesOrdered(t)
    BY <1>1, <1>3, RenewedFacts DEF LossInv
  <1>6. Occupied(entries') = Occupied(entries) /\ AgesOrdered(entries')
    BY <1>1, <1>4, <1>5, RenewedFacts
  <1>7. Idle' /\ result' = "none" /\ size' = size
    BY <1>1 DEF PacketHit, Idle
  <1> QED
    BY <1>6, <1>7 DEF LossInv, SizeIsOccupancy, OnlyDropLosesFlow

LEMMA PacketInsertLoss ==
    ASSUME ConnInv, ConnInv', LossInv, NEW h \in Hashes, NEW flags, NEW b, PacketInsert(h, flags, b)
    PROVE  LossInv'
  <1>1. /\ entries \in Table /\ entries' = entries /\ reclaimed' = reclaimed
        /\ size' = size /\ result' = "none" /\ Idle
    BY DEF ConnInv, Typed, PacketInsert
  <1>2. /\ ins'.cur.hash = h /\ ins'.cur.age = 0 /\ ins'.dist = 0 /\ ins'.n = 0 /\ ins'.hash = h
        /\ before'.hash = h /\ before'.live = {g \in Hashes : Live(entries, g) # {}}
    BY DEF PacketInsert, Observe
  <1>3. ~Idle'
    <2>1. "n" \in DOMAIN ins'
      BY DEF PacketInsert
    <2>2. DOMAIN <<>> = {}
      OBVIOUS
    <2> QED
      BY <2>1, <2>2 DEF Idle
  <1>4. ins'.cur \in ConnEntry
    BY <1>3 DEF ConnInv, Typed, Idle, InsertType
  <1>5. ~is_expired(ins'.cur)
    BY <1>2, <1>4, FreshIsLive
  <1>6. HandAge(entries, ins'.cur, 0)
    <2> SUFFICES ASSUME NEW i \in Occupied(entries), entries[i].hash = h
                 PROVE  ~(probe_distance(h, i) < 0) /\ 0 <= entries[i].age
      BY <1>2 DEF HandAge
    <2>1. h \in Nat /\ i \in Slots /\ entries[i] \in ConnEntry
      BY <1>1, SlotFacts, ConnAssumption DEF Occupied
    <2>2. probe_distance(h, i) \in Nat /\ entries[i].age \in Nat
      BY <2>1, Distance, MaxAgeType DEF ConnEntry
    <2> QED
      BY <2>2
  <1>7. {g \in before'.live \cup {before'.hash} : Live(entries, g) = {}} \subseteq {h}
    BY <1>2
  <1>8. ASSUME NEW i \in Occupied(entries), ~is_expired(entries[i])
        PROVE  entries[i].hash \in before'.live
    <2>1. entries[i].hash \in Hashes
      BY <1>1, SlotFacts, EntryFacts DEF Occupied
    <2>2. i \in Live(entries, entries[i].hash)
      BY <1>8 DEF Live
    <2> QED
      BY <1>2, <2>1, <2>2
  <1>9. OnlyDropLosesFlow'
    BY <1>1, <1>3 DEF LossInv, OnlyDropLosesFlow, SizeIsOccupancy
  <1> QED
    BY <1>1, <1>2, <1>3, <1>5, <1>6, <1>7, <1>8, <1>9
       DEF LossInv, Known, LostIn, SizeIsOccupancy

LEMMA TickLoss ==
    ASSUME ConnInv, LossInv, Tick
    PROVE  LossInv'
  <1>1. entries \in Table /\ entries' \in Table /\ Kept(entries, entries')
    BY TickKeeps DEF ConnInv, Typed
  <1>2. Idle' /\ result' = "none" /\ size' = size
    BY DEF Tick, Idle
  <1>3. Occupied(entries') = Occupied(entries)
    BY <1>1, KeptFacts
  <1>4. ASSUME NEW i \in Occupied(entries)
        PROVE  /\ entries[i].age \in Nat /\ entries[i].age <= MaxAge
               /\ entries'[i].hash = entries[i].hash
               /\ entries'[i].age = IF entries[i].age = MaxAge THEN MaxAge ELSE entries[i].age + 1
    <2>1. i \in Slots /\ entries[i] # Empty /\ entries[i] \in ConnEntry
      BY <1>1, SlotFacts DEF Occupied
    <2>2. entries[i].age \in 0 .. MaxAge /\ entries'[i].hash = entries[i].hash
      BY <1>1, <2>1 DEF ConnEntry, Kept
    <2>3. entries'[i] = IF entries[i].age = MaxAge THEN entries[i]
                        ELSE [entries[i] EXCEPT !.age = @ + 1]
      BY <2>1 DEF Tick
    <2>4. entries'[i].age = IF entries[i].age = MaxAge THEN MaxAge ELSE entries[i].age + 1
      BY <2>1, <2>3 DEF ConnEntry
    <2> QED
      BY <2>2, <2>4, MaxAgeType
  <1>5. AgesOrdered(entries')
    <2> SUFFICES ASSUME NEW i \in Occupied(entries), NEW k \in Occupied(entries),
                        entries[i].hash = entries[k].hash,
                        probe_distance(entries[i].hash, i) < probe_distance(entries[k].hash, k)
                 PROVE  entries'[i].age <= entries'[k].age
      BY <1>3, <1>4 DEF AgesOrdered
    <2>1. entries[i].age <= entries[k].age
      BY DEF LossInv, AgesOrdered
    <2> QED
      BY <1>4, <2>1, MaxAgeType
  <1> QED
    BY <1>2, <1>3, <1>5 DEF LossInv, SizeIsOccupancy, OnlyDropLosesFlow

\* What the steps of an insert know of the hand and its slot.
LEMMA LossFacts ==
    ASSUME ConnInv, LossInv, ~Idle
    PROVE  /\ entries \in Table /\ ins.idx \in Slots /\ ins.cur \in ConnEntry
           /\ ins.hash \in Nat /\ ins.cur.hash \in Nat /\ ins.dist \in Nat /\ ins.n \in Nat
           /\ ins.dist = probe_distance(ins.cur.hash, ins.idx)
           /\ ins.n = probe_distance(ins.hash, ins.idx)
           /\ AgesOrdered(entries) /\ HandAge(entries, ins.cur, ins.dist)
           /\ ~is_expired(ins.cur) /\ ins.cur.hash \in Known
           /\ LostIn(entries) \subseteq {ins.cur.hash}
           /\ size \in Nat /\ size = Cardinality(Occupied(entries))
  <1>1. /\ ins.cur \in ConnEntry /\ ins.idx \in Slots /\ ins.dist \in Nat /\ ins.n \in Nat
        /\ ins.hash \in Nat /\ ins.cur.hash \in Nat
    BY HandFacts DEF ConnInv
  <1> QED
    BY <1>1 DEF ConnInv, Typed, HandInv, LossInv, SizeIsOccupancy

LEMMA InsertEmptyLoss ==
    ASSUME ConnInv, LossInv, InsertEmpty
    PROVE  LossInv'
  <1> DEFINE t == [entries EXCEPT ![ins.idx] = ins.cur]
  <1>1. ~Idle /\ entries[ins.idx] = Empty /\ Finish(t, "Inserted") /\ size' = size + 1
    BY DEF InsertEmpty
  <1>2. /\ entries \in Table /\ ins.idx \in Slots /\ ins.cur \in ConnEntry
        /\ HandAge(entries, ins.cur, probe_distance(ins.cur.hash, ins.idx))
        /\ AgesOrdered(entries) /\ ~is_expired(ins.cur)
        /\ LostIn(entries) \subseteq {ins.cur.hash}
        /\ size \in Nat /\ size = Cardinality(Occupied(entries))
    BY <1>1, LossFacts
  <1>3. t \in Table
    BY <1>2 DEF Table
  <1>4. AgesOrdered(t)
    BY <1>2, AgesStored
  <1>5. LostIn(t) = {}
    BY <1>1, <1>2, StoreLoses
  <1>6. size' \in Nat /\ size' = Cardinality(Occupied(t))
    <2>1. Occupied(t) = Occupied(entries) \cup {ins.idx} /\ ins.idx \notin Occupied(entries)
      BY <1>1, <1>2, EntryFacts DEF Occupied, Table
    <2>2. Cardinality(Occupied(entries) \cup {ins.idx}) = Cardinality(Occupied(entries)) + 1
      <3>1. IsFiniteSet(Occupied(entries))
        BY OccupiedFinite
      <3> QED
        BY <2>1, <3>1, FS_AddElement
    <2> HIDE DEF t
    <2> QED
      BY <1>1, <1>2, <2>1, <2>2
  <1> HIDE DEF t
  <1> QED
    BY <1>1, <1>3, <1>4, <1>5, <1>6, FinishLoss

\* A store in an occupied slot leaves the set of occupied slots as it is.
LEMMA OccupiedStays ==
    ASSUME NEW t \in Table, NEW k \in Slots, NEW c \in ConnEntry, t[k] # Empty
    PROVE  Occupied([t EXCEPT ![k] = c]) = Occupied(t)
  BY EntryFacts DEF Occupied, Table

LEMMA InsertExpiredLoss ==
    ASSUME ConnInv, LossInv, InsertExpired
    PROVE  LossInv'
  <1> DEFINE t == [entries EXCEPT ![ins.idx] = ins.cur]
  <1>1. /\ ~Idle /\ entries[ins.idx] # Empty /\ is_expired(entries[ins.idx])
        /\ Finish(t, "EvictedExpired") /\ size' = size
    BY DEF InsertExpired
  <1>2. /\ entries \in Table /\ ins.idx \in Slots /\ ins.cur \in ConnEntry
        /\ HandAge(entries, ins.cur, probe_distance(ins.cur.hash, ins.idx))
        /\ AgesOrdered(entries) /\ ~is_expired(ins.cur)
        /\ LostIn(entries) \subseteq {ins.cur.hash}
        /\ size \in Nat /\ size = Cardinality(Occupied(entries))
    BY <1>1, LossFacts
  <1>3. t \in Table
    BY <1>2 DEF Table
  <1>4. AgesOrdered(t)
    BY <1>2, AgesStored
  <1>5. LostIn(t) = {}
    BY <1>1, <1>2, StoreLoses
  <1>6. size' \in Nat /\ size' = Cardinality(Occupied(t))
    BY <1>1, <1>2, OccupiedStays
  <1> HIDE DEF t
  <1> QED
    BY <1>1, <1>3, <1>4, <1>5, <1>6, FinishLoss

\* The state that an update merges is that of one of the two entries, and the
\* entry in hand is not the older, so the merged entry is live.
LEMMA InsertUpdateLoss ==
    ASSUME ConnInv, LossInv, InsertUpdate
    PROVE  LossInv'
  <1> DEFINE s == promote_state(Occupant.state, ins.cur.state)
             c == [ins.cur EXCEPT !.state = s]
             t == [entries EXCEPT ![ins.idx] = c]
  <1>1. /\ ~Idle /\ Occupant # Empty /\ Occupant.hash = ins.cur.hash /\ ~is_expired(Occupant)
        /\ Finish(t, "Updated") /\ size' = size
    BY DEF InsertUpdate, Blocked
  <1>2. /\ entries \in Table /\ ins.idx \in Slots /\ ins.cur \in ConnEntry
        /\ HandAge(entries, ins.cur, probe_distance(ins.cur.hash, ins.idx))
        /\ ins.cur.hash \in Nat
        /\ AgesOrdered(entries) /\ ~is_expired(ins.cur)
        /\ LostIn(entries) \subseteq {ins.cur.hash}
        /\ size \in Nat /\ size = Cardinality(Occupied(entries))
    BY <1>1, LossFacts
  <1>3. Occupant \in ConnEntry /\ Occupant = entries[ins.idx] /\ ins.idx \in Occupied(entries)
    BY <1>1, <1>2, SlotFacts DEF Occupant, Occupied
  <1>4. s \in States /\ s \in {Occupant.state, ins.cur.state}
    <2>1. Occupant.state \in States /\ ins.cur.state \in States
      BY <1>2, <1>3 DEF ConnEntry
    <2> QED
      BY <2>1, StateTypes
  <1>5. c \in ConnEntry /\ c.hash = ins.cur.hash /\ c.state = s /\ c.age = ins.cur.age
    <2> HIDE DEF s
    <2> QED
      BY <1>2, <1>4 DEF ConnEntry
  <1>6. ins.cur.age <= Occupant.age
    <2>1. probe_distance(ins.cur.hash, ins.idx) \in Nat
      BY <1>2, Distance
    <2> QED
      BY <1>1, <1>2, <1>3, <2>1 DEF HandAge
  <1> HIDE DEF c
  <1>7. ~is_expired(c)
    <2>1. /\ ttl_for(c.hash, Occupant.state) \in Nat /\ ttl_for(c.hash, ins.cur.state) \in Nat
          /\ Occupant.age \in Nat /\ ins.cur.age \in Nat
      BY <1>2, <1>3, <1>5, EntryFacts, TtlType, MaxAgeType DEF ConnEntry
    <2>2. /\ Occupant.age <= ttl_for(c.hash, Occupant.state)
          /\ ins.cur.age <= ttl_for(c.hash, ins.cur.state)
      BY <1>1, <1>2, <1>5, <2>1 DEF is_expired
    <2>3. c.age <= ttl_for(c.hash, c.state)
      BY <1>4, <1>5, <1>6, <2>1, <2>2
    <2> QED
      BY <1>5, <2>1, <2>3, <1>4 DEF is_expired
  <1>8. t \in Table
    BY <1>2, <1>5 DEF Table
  <1>9. AgesOrdered(t)
    <2>1. HandAge(entries, c, probe_distance(c.hash, ins.idx))
      BY <1>2, <1>5 DEF HandAge
    <2> QED
      BY <1>2, <1>5, <2>1, AgesStored
  <1>10. LostIn(t) = {}
    BY <1>1, <1>2, <1>3, <1>5, <1>7, StoreLoses
  <1>11. size' \in Nat /\ size' = Cardinality(Occupied(t))
    BY <1>1, <1>2, <1>3, <1>5, OccupiedStays
  <1> HIDE DEF t
  <1> QED
    BY <1>1, <1>8, <1>9, <1>10, <1>11, FinishLoss

LEMMA InsertProbeLoss ==
    ASSUME ConnInv, ConnInv', LossInv, InsertProbe
    PROVE  LossInv'
  <1> DEFINE swap == Incumbent < ins.dist
             t == IF swap THEN [entries EXCEPT ![ins.idx] = ins.cur] ELSE entries
             d == IF swap THEN Incumbent ELSE ins.dist
             e == IF swap THEN Occupant ELSE ins.cur
             next == (ins.idx + 1) % Capacity
  <1>1. /\ ~Idle /\ Occupant # Empty /\ ~is_expired(Occupant) /\ Occupant.hash # ins.cur.hash
        /\ size' = size
    BY DEF InsertProbe, Mismatch, Blocked, ProbeStep
  <1>2. /\ entries \in Table /\ ins.idx \in Slots /\ ins.cur \in ConnEntry
        /\ ins.hash \in Nat /\ ins.cur.hash \in Nat /\ ins.dist \in Nat /\ ins.n \in Nat
        /\ ins.dist = probe_distance(ins.cur.hash, ins.idx)
        /\ ins.n = probe_distance(ins.hash, ins.idx)
        /\ AgesOrdered(entries) /\ HandAge(entries, ins.cur, ins.dist)
        /\ ~is_expired(ins.cur) /\ ins.cur.hash \in Known
        /\ LostIn(entries) \subseteq {ins.cur.hash}
        /\ size \in Nat /\ size = Cardinality(Occupied(entries))
    BY <1>1, LossFacts
  <1>3. /\ Occupant \in ConnEntry /\ Occupant.hash \in Nat /\ Incumbent \in Nat
        /\ Occupant = entries[ins.idx] /\ ins.idx \in Occupied(entries)
        /\ Incumbent = probe_distance(Occupant.hash, ins.idx)
    BY <1>1, <1>2, SlotFacts, Distance DEF Occupant, Incumbent, Occupied
  <1>4. t \in Table /\ Occupied(t) = Occupied(entries)
    BY <1>1, <1>2, <1>3, OccupiedStays DEF Table
  <1>5. AgesOrdered(t)
    BY <1>2, AgesStored
  <1>6. e \in ConnEntry /\ e.hash \in Nat /\ d \in Nat /\ d = probe_distance(e.hash, ins.idx)
    BY <1>2, <1>3
  <1>7. ~is_expired(e) /\ e.hash \in Known
    BY <1>1, <1>2, <1>3 DEF LossInv
  <1>8. LostIn(t) \subseteq {e.hash}
    BY <1>1, <1>2, <1>3, StoreLoses
  \* A displaced flow was in the table once, and is no longer.
  <1>9. ~reclaimed /\ swap => NoneOf(t, e.hash)
    <2> SUFFICES ASSUME ~reclaimed, swap
                 PROVE  NoneOf([entries EXCEPT ![ins.idx] = ins.cur], Occupant.hash)
      OBVIOUS
    <2>1. Ordered(entries)
      BY DEF ConnInv, OrderInv
    <2>2. \A k \in Occupied(entries) : entries[k].hash = Occupant.hash => k = ins.idx
      BY <1>2, <1>3, <2>1, OrderedFinds
    <2> QED
      BY <1>1, <1>2, <2>2 DEF NoneOf, Occupied, Table
  <1>10. CASE ins.n + 1 = Capacity /\ Finish(t, "DroppedFull")
    <2>1. ~reclaimed /\ ~swap => NoneOf(entries, ins.cur.hash)
      <3> SUFFICES ASSUME ~reclaimed, ~swap, ins.cur.hash = ins.hash, ins.dist = ins.n
                   PROVE  NoneOf(entries, ins.cur.hash)
        BY <1>1 DEF LossInv
      <3>1. Passed(entries, ins.cur.hash, probe_distance(ins.cur.hash, ins.idx))
        BY <1>1, <1>2 DEF ConnInv, OrderInv
      <3>2. Incumbent >= probe_distance(ins.cur.hash, ins.idx)
        BY <1>2, <1>3
      <3>3. Passed(entries, ins.cur.hash, probe_distance(ins.cur.hash, ins.idx) + 1)
        BY <1>1, <1>2, <1>3, <3>1, <3>2, PassOne
      <3>4. Passed(entries, ins.cur.hash, Capacity)
        BY <1>2, <1>10, <3>3
      <3>5. \A j \in Slots : probe_distance(ins.cur.hash, j) < Capacity
        <4>1. \A j \in Slots : probe_distance(ins.cur.hash, j) \in Slots
          BY <1>2, Distance
        <4>2. \A j \in Slots : j < Capacity
          BY ConnAssumption DEF Slots
        <4> QED
          BY <4>1, <4>2
      <3> QED
        BY <3>4, <3>5 DEF NoneOf, Passed, Occupied
    <2>2. ~reclaimed => NoneOf(t, e.hash)
      BY <1>9, <2>1
    <2>3. size' \in Nat /\ size' = Cardinality(Occupied(t))
      BY <1>1, <1>2, <1>4
    <2> HIDE DEF t, e
    <2> QED
      BY <1>1, <1>4, <1>5, <1>7, <1>8, <1>10, <2>2, <2>3, FinishLoss
  <1>11. CASE /\ ins.n + 1 < Capacity /\ entries' = t
              /\ ins' = [ins EXCEPT !.cur = IF swap THEN Occupant ELSE @,
                                    !.dist = d + 1, !.idx = next, !.n = @ + 1]
              /\ UNCHANGED <<result, before, reclaimed>>
    <2>1. ins' = [cur |-> e, idx |-> next, dist |-> d + 1, n |-> ins.n + 1,
                  hash |-> ins.hash, flags |-> ins.flags]
      <3> HIDE DEF t, next, d
      <3>1. ins \in InsertType
        BY <1>1, HandFacts DEF ConnInv
      <3> QED
        BY <1>11, <3>1 DEF InsertType
    <2>2. ~Idle'
      <3>1. "n" \in DOMAIN ins'
        BY <2>1
      <3>2. DOMAIN <<>> = {}
        OBVIOUS
      <3> QED
        BY <3>1, <3>2 DEF Idle
    <2>3. ins'.cur = e /\ ins'.dist = d + 1 /\ ins'.n = ins.n + 1 /\ ins'.hash = ins.hash
      <3> HIDE DEF e, d, next
      <3> QED
        BY <2>1
    <2>4. HandAge(t, e, d + 1)
      <3> SUFFICES ASSUME NEW i \in Occupied(t), t[i].hash = e.hash
                   PROVE  IF probe_distance(e.hash, i) < d + 1
                          THEN t[i].age <= e.age ELSE e.age <= t[i].age
        BY DEF HandAge
      <3>1. i \in Occupied(entries) /\ i # ins.idx /\ t[i] = entries[i]
        BY <1>1, <1>2, <1>3, <1>4 DEF Occupied, Table
      <3>2. i \in Slots /\ probe_distance(e.hash, i) \in Nat
        BY <1>6, <3>1, Distance DEF Occupied
      <3>3. probe_distance(e.hash, i) # d
        BY <1>2, <1>6, <3>1, <3>2, DistanceInjective
      <3>4. CASE swap
        <4>1. /\ entries[i].hash = entries[ins.idx].hash /\ e = entries[ins.idx]
              /\ d = probe_distance(entries[ins.idx].hash, ins.idx)
          BY <1>3, <3>1, <3>4
        <4>2. /\ probe_distance(e.hash, i) < d => entries[i].age <= e.age
              /\ d < probe_distance(e.hash, i) => e.age <= entries[i].age
          BY <1>2, <1>3, <3>1, <4>1 DEF AgesOrdered
        <4> HIDE DEF e, d, t
        <4> QED
          BY <1>6, <3>1, <3>2, <3>3, <4>2
      <3>5. CASE ~swap
        <4>1. /\ probe_distance(e.hash, i) < d => entries[i].age <= e.age
              /\ ~(probe_distance(e.hash, i) < d) => e.age <= entries[i].age
          BY <1>2, <3>1, <3>5 DEF HandAge
        <4> HIDE DEF e, d, t
        <4> QED
          BY <1>6, <3>1, <3>2, <3>3, <4>1
      <3> QED
        BY <3>4, <3>5
    <2>5. \A i \in Occupied(t) : ~is_expired(t[i]) => t[i].hash \in Known
      BY <1>1, <1>2, <1>4 DEF LossInv, Table
    <2>6. ~reclaimed => (e.hash = ins.hash /\ d + 1 = ins.n + 1) \/ NoneOf(t, e.hash)
      BY <1>1, <1>9 DEF LossInv
    <2>7. OnlyDropLosesFlow' /\ SizeIsOccupancy'
      BY <1>1, <1>2, <1>4, <1>11, <2>2 DEF OnlyDropLosesFlow, SizeIsOccupancy
    <2> HIDE DEF t, e, d
    <2>8. /\ HandAge(entries', ins'.cur, ins'.dist)
          /\ ~is_expired(ins'.cur) /\ ins'.cur.hash \in Known
          /\ LostIn(entries') \subseteq {ins'.cur.hash}
          /\ \A i \in Occupied(entries') : ~is_expired(entries'[i]) => entries'[i].hash \in Known
          /\ ~reclaimed => (ins'.cur.hash = ins'.hash /\ ins'.dist = ins'.n)
                           \/ NoneOf(entries', ins'.cur.hash)
      BY <1>7, <1>8, <1>11, <2>3, <2>4, <2>5, <2>6
    <2> QED
      BY <1>1, <1>2, <1>5, <1>11, <2>2, <2>7, <2>8 DEF LossInv, Known, LostIn
  <1> QED
    BY <1>10, <1>11 DEF InsertProbe, ProbeStep

THEOREM LossInvHolds == Spec => []LossInv
  <1>1. Init => LossInv
    <2> SUFFICES ASSUME Init PROVE LossInv
      OBVIOUS
    <2>1. Occupied(entries) = {} /\ Idle /\ result = "none" /\ size = 0
      BY DEF Init, Occupied, Idle
    <2>2. SizeIsOccupancy
      BY <2>1, FS_EmptySet DEF SizeIsOccupancy
    <2> QED
      BY <2>1, <2>2 DEF LossInv, AgesOrdered, OnlyDropLosesFlow
  <1>2. ConnInv /\ ConnInv' /\ LossInv /\ [Next]_vars => LossInv'
    <2> SUFFICES ASSUME ConnInv, ConnInv', LossInv, [Next]_vars PROVE LossInv'
      OBVIOUS
    <2>1. ASSUME NEW h \in Hashes, NEW flags \in FlagsOf(h), PacketHit(h, flags)
          PROVE  LossInv'
      BY <2>1, PacketHitLoss
    <2>2. ASSUME NEW h \in Hashes, NEW flags \in FlagsOf(h), NEW b \in Backends,
                 PacketInsert(h, flags, b)
          PROVE  LossInv'
      BY <2>2, PacketInsertLoss
    <2>3. CASE InsertEmpty
      BY <2>3, InsertEmptyLoss
    <2>4. CASE InsertExpired
      BY <2>4, InsertExpiredLoss
    <2>5. CASE InsertUpdate
      BY <2>5, InsertUpdateLoss
    <2>6. CASE InsertProbe
      BY <2>6, InsertProbeLoss
    <2>7. CASE Tick
      BY <2>7, TickLoss
    <2>8. CASE UNCHANGED vars
      <3>1. /\ entries' = entries /\ size' = size /\ ins' = ins /\ result' = result
            /\ before' = before /\ reclaimed' = reclaimed
        BY <2>8 DEF vars
      <3>2. Idle' = Idle /\ Known' = Known /\ Lost' = Lost /\ SizeIsOccupancy' = SizeIsOccupancy
        BY <3>1 DEF Idle, Known, Lost, SizeIsOccupancy
      <3>3. LostIn(entries)' = LostIn(entries)
        BY <3>1, <3>2 DEF LostIn
      <3>4. OnlyDropLosesFlow'
        BY <3>1, <3>2 DEF LossInv, OnlyDropLosesFlow
      <3> QED
        BY <3>1, <3>2, <3>3, <3>4 DEF LossInv
    <2> QED
      BY <2>1, <2>2, <2>3, <2>4, <2>5, <2>6, <2>7, <2>8 DEF Next
  <1> QED
    BY <1>1, <1>2, ConnInvHolds, PTL DEF Spec

\* Displacing, reclaiming and merging entries lose no live flow; a refusal loses
\* at most one, and exactly one until a slot is reclaimed; size counts the slots.
THEOREM NothingElseLosesAFlow == Spec => []OnlyDropLosesFlow
  <1>1. LossInv => OnlyDropLosesFlow
    BY DEF LossInv
  <1> QED
    BY <1>1, LossInvHolds, PTL
=============================================================================
