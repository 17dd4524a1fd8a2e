--------------------------- MODULE RewriterProofs ---------------------------
(***************************************************************************)
(* Proofs about Rewriter and FragmentTable, for any capacity, hashes, TTL, *)
(* packets and limits: a worker's fragment table sends no fragment to      *)
(* another backend than the latest first fragment of its 3-tuple went to,  *)
(* loses no mapping before an insert meets an expired slot or a full       *)
(* table, a batch gives no flow to a backend that was out of service when  *)
(* it began, and no second sees more ICMP replies than two windows allow.  *)
(*                                                                         *)
(* insert is a function defined by recursion over the iterations of its    *)
(* loop.  The section on induction derives what that takes, a least        *)
(* element in every set of naturals, from the library's well-founded       *)
(* orders.                                                                 *)
(***************************************************************************)
EXTENDS Rewriter, WellFoundedInduction, TLAPS

Table == [FragSlots -> FragmentEntry \cup {Empty}]
Mapping == [backend_ip : Backends \cup {NoBackend}, age : 0 .. MaxAge]

Entries(t, h) == {i \in FragSlots : t[i] # Empty /\ t[i].hash = h}

-----------------------------------------------------------------------------
(***************************************************************************)
(* What the table of a worker promises, given the mapping last inserted    *)
(* for each hash.                                                          *)
(***************************************************************************)
Agrees(e, m) == e.backend_ip = m.backend_ip /\ e.age = m.age

\* Of the entries of a hash the one nearest to its home is the latest mapping,
\* unless it has expired, and no entry is younger than a nearer one.
Follows(t, h, m) ==
    \A i \in Entries(t, h) :
        /\ \/ FragExpired(t[i]) \/ Agrees(t[i], m)
           \/ \E j \in Entries(t, h) : probe_distance(h, j) < probe_distance(h, i)
        /\ \A j \in Entries(t, h) :
              probe_distance(h, j) < probe_distance(h, i) => t[j].age <= t[i].age

AllFollow(t, last) == \A h \in FragHashes : Follows(t, h, last[h])

\* What a probe for h finds on its first d slots: other hashes, none of which
\* is closer to its home than the probe is to that of h.
Passed(t, h, d) ==
    \A j \in FragSlots : probe_distance(h, j) < d =>
        /\ t[j] # Empty /\ t[j].hash # h
        /\ probe_distance(t[j].hash, j) >= probe_distance(h, j)

Occupied(t) == {i \in FragSlots : t[i] # Empty}
Ordered(t)  == \A i \in Occupied(t) : Passed(t, t[i].hash, probe_distance(t[i].hash, i))

AgesAreLatest(t, last) == \A i \in Occupied(t) : t[i].age = last[t[i].hash].age

\* Every mapping that get should find is there, where get looks for it.
AllFound(t, last) ==
    /\ Ordered(t) /\ AgesAreLatest(t, last)
    /\ \A h \in FragHashes : last[h].age <= FragTtl => Entries(t, h) # {}

FollowInv == \A w \in Workers : "overflow" \notin damage[w] => AllFollow(frag[w], latest[w])
FoundInv  == \A w \in Workers : damage[w] = {} => AllFound(frag[w], latest[w])

\* What is out of service for a batch was unhealthy throughout and is not in
\* the batch's pick.
DrainInv ==
    /\ \A w \in Workers : gone[w] \subseteq unhealthy
    /\ \A w \in Workers : snap[w] # NoBatch => gone[w] \cap Offered(snap[w]) = {}
    /\ UnhealthyIsDrained

Typed ==
    /\ scenario \in Scenarios /\ pick \in Pick /\ unhealthy \subseteq Backends
    /\ snap \in [Workers -> Pick \cup {NoBatch}]
    /\ pinned \in [Workers -> [Flows -> SUBSET Backends]]
    /\ frag \in [Workers -> Table]
    /\ latest \in [Workers -> [FragHashes -> Mapping]]
    /\ damage \in [Workers -> SUBSET {"reclaim", "overflow"}]
    /\ gone \in [Workers -> SUBSET Backends]

-----------------------------------------------------------------------------
(***************************************************************************)
(* Induction over an interval of naturals.                                 *)
(***************************************************************************)
Less == {ss \in Nat \X Nat : ss[1] < ss[2]}

LEMMA LeastElement ==
    ASSUME NEW T \in SUBSET Nat, T # {}
    PROVE  \E x \in T : \A y \in T : x <= y
  <1>1. IsWellFoundedOn(Less, Nat)
    BY NatLessThanWellFounded, Zenon DEF OpToRel, Less
  <1>2. PICK x \in T : \A y \in T : ~ (<<y, x>> \in Less)
    BY <1>1, WFMin
  <1>3. \A a, b \in Nat : <<a, b>> \in Less <=> a < b
    BY DEF Less
  <1>4. ASSUME NEW y \in T
        PROVE  x <= y
    <2>1. x \in Nat /\ y \in Nat /\ <<y, x>> \notin Less
      BY <1>2
    <2>2. ~(y < x)
      BY <1>3, <2>1, Zenon
    <2> QED
      BY <2>1, <2>2
  <1> QED
    BY <1>4

LEMMA IntervalInduction ==
    ASSUME NEW N \in Nat, NEW T \in SUBSET (0 .. N), 0 \in T,
           \A n \in 0 .. (N - 1) : n \in T => n + 1 \in T
    PROVE  T = 0 .. N
  <1> DEFINE U == (0 .. N) \ T
  <1>1. SUFFICES ASSUME U # {} PROVE FALSE
    OBVIOUS
  <1>2. U \in SUBSET Nat
    OBVIOUS
  <1> HIDE DEF U
  <1>3. PICK x \in U : \A y \in U : x <= y
    BY <1>1, <1>2, LeastElement
  <1>4. x \in 0 .. N /\ x # 0 /\ x - 1 \in 0 .. (N - 1) /\ x - 1 \notin U
    BY <1>3 DEF U
  <1>5. x - 1 \in T
    BY <1>4 DEF U
  <1>6. (x - 1) + 1 \in T
    BY <1>4, <1>5
  <1> QED
    BY <1>3, <1>4, <1>6 DEF U

-----------------------------------------------------------------------------
(***************************************************************************)
(* The loop of insert.                                                     *)
(***************************************************************************)
LoopStart(t, h, b) == [table |-> t, cur |-> [hash |-> h, backend_ip |-> b, age |-> 0],
                       dist |-> 0, done |-> FALSE]

LoopNext(h, s, n) == IF s.done THEN s ELSE ProbeStep(s, (h + n - 1) % FragCapacity)

\* InsertLoop is the function that its definition describes.
LEMMA LoopUnfolds ==
    ASSUME NEW t, NEW h, NEW b
    PROVE  /\ InsertLoop(t, h, b)[0] = LoopStart(t, h, b)
           /\ \A n \in 1 .. FragCapacity :
                 InsertLoop(t, h, b)[n] = LoopNext(h, InsertLoop(t, h, b)[n - 1], n)
  <1> DEFINE C == FragCapacity
             v == LoopStart(t, h, b)
             D(N, g) == g = [n \in 0 .. N |-> IF n = 0 THEN v ELSE LoopNext(h, g[n - 1], n)]
             T == {N \in 0 .. C : \E g : D(N, g)}
  <1>1. C \in Nat \ {0}
    BY FragAssumption
  <1>2. InsertLoop(t, h, b) = CHOOSE g : D(C, g)
    <2> HIDE DEF v
    <2>1. v = [table |-> t, cur |-> [hash |-> h, backend_ip |-> b, age |-> 0],
               dist |-> 0, done |-> FALSE]
      BY DEF v, LoopStart
    <2> QED
      BY <2>1 DEF InsertLoop, LoopNext
  <1> HIDE DEF C, v
  <1>3. 0 \in T
    <2>1. D(0, [n \in 0 .. 0 |-> v])
      OBVIOUS
    <2> HIDE DEF D
    <2> QED
      BY <1>1, <2>1
  <1>4. ASSUME NEW N \in 0 .. (C - 1), N \in T
        PROVE  N + 1 \in T
    <2>1. PICK g : D(N, g)
      BY <1>4
    <2> DEFINE f == [n \in 0 .. (N + 1) |-> IF n = N + 1 THEN LoopNext(h, g[N], N + 1) ELSE g[n]]
               k == [n \in 0 .. (N + 1) |-> IF n = 0 THEN v ELSE LoopNext(h, f[n - 1], n)]
    <2>2. ASSUME NEW n \in 0 .. (N + 1)
          PROVE  f[n] = k[n]
      <3>1. CASE n = N + 1
        BY <1>1, <3>1
      <3>2. CASE n # N + 1
        <4>1. n \in 0 .. N /\ g[n] = IF n = 0 THEN v ELSE LoopNext(h, g[n - 1], n)
          BY <2>1, <3>2
        <4> QED
          BY <3>2, <4>1
      <3> QED
        BY <3>1, <3>2
    <2>3. f = k
      BY <2>2
    <2>4. D(N + 1, f)
      BY <2>3
    <2> HIDE DEF D, f
    <2>5. N + 1 \in 0 .. C
      BY <1>1
    <2> QED
      BY <2>4, <2>5
  <1>5. \E g : D(C, g)
    <2> HIDE DEF T
    <2>1. T \in SUBSET (0 .. C)
      BY DEF T
    <2>2. T = 0 .. C
      BY <1>1, <1>3, <1>4, <2>1, IntervalInduction
    <2> QED
      BY <1>1, <2>2 DEF T
  <1> HIDE DEF D
  <1>6. D(C, InsertLoop(t, h, b))
    BY <1>2, <1>5
  <1> DEFINE F == InsertLoop(t, h, b)
  <1>7. F = [n \in 0 .. C |-> IF n = 0 THEN v ELSE LoopNext(h, F[n - 1], n)]
    BY <1>6 DEF D
  <1> HIDE DEF F
  <1>8. 0 \in 0 .. C /\ F[0] = v
    BY <1>1, <1>7
  <1>9. ASSUME NEW n \in 1 .. C
        PROVE  F[n] = LoopNext(h, F[n - 1], n)
    <2>1. n \in 0 .. C /\ n # 0
      BY <1>1
    <2> QED
      BY <1>7, <2>1
  <1> QED
    BY <1>8, <1>9 DEF C, v, F

-----------------------------------------------------------------------------
(***************************************************************************)
(* Slots and probe distances.                                              *)
(***************************************************************************)
\* A home slot is met at distance 0, then every slot once.
LEMMA Distance ==
    ASSUME NEW h \in Nat, NEW i \in FragSlots
    PROVE  /\ h % FragCapacity \in FragSlots
           /\ probe_distance(h, i) \in FragSlots /\ probe_distance(h, i) \in Nat
           /\ probe_distance(h, i) = IF i >= h % FragCapacity THEN i - (h % FragCapacity)
                                     ELSE i - (h % FragCapacity) + FragCapacity
  <1> DEFINE home == h % FragCapacity
  <1>1. home \in 0 .. (FragCapacity - 1)
    BY FragAssumption
  <1> HIDE DEF home
  <1>2. CASE i >= home
    <2>1. i - home \in 0 .. (FragCapacity - 1)
      BY <1>1, <1>2, FragAssumption DEF FragSlots
    <2>2. (i - home) % FragCapacity = i - home
      BY <2>1, FragAssumption
    <2> QED
      BY <1>1, <1>2, <2>1, <2>2, FragAssumption DEF probe_distance, home, FragSlots
  <1>3. CASE i < home
    <2>1. i - home \in Int /\ -FragCapacity <= i - home /\ i - home < 0
      BY <1>1, <1>3, FragAssumption DEF FragSlots
    <2>2. (i - home) % FragCapacity = i - home + FragCapacity
      BY <2>1, FragAssumption
    <2>3. i - home + FragCapacity \in 0 .. (FragCapacity - 1)
      BY <1>1, <2>1, FragAssumption DEF FragSlots
    <2> QED
      BY <1>1, <1>3, <2>2, <2>3, FragAssumption DEF probe_distance, home, FragSlots
  <1> QED
    BY <1>1, <1>2, <1>3, FragAssumption DEF FragSlots

\* No two slots are at the same distance.
LEMMA DistanceInjective ==
    ASSUME NEW h \in Nat, NEW i \in FragSlots, NEW j \in FragSlots,
           probe_distance(h, i) = probe_distance(h, j)
    PROVE  i = j
  <1> DEFINE home == h % FragCapacity
  <1>1. home \in 0 .. (FragCapacity - 1)
    BY FragAssumption
  <1>2. /\ probe_distance(h, i) = IF i >= home THEN i - home ELSE i - home + FragCapacity
        /\ probe_distance(h, j) = IF j >= home THEN j - home ELSE j - home + FragCapacity
    BY Distance
  <1>3. FragCapacity \in Nat /\ i \in 0 .. (FragCapacity - 1) /\ j \in 0 .. (FragCapacity - 1)
    BY FragAssumption DEF FragSlots
  <1> HIDE DEF home
  <1>4. \A a, b \in 0 .. (FragCapacity - 1) :
           (IF a >= home THEN a - home ELSE a - home + FragCapacity)
              = (IF b >= home THEN b - home ELSE b - home + FragCapacity) => a = b
    BY <1>1, <1>3
  <1> QED
    BY <1>2, <1>3, <1>4

\* A remainder is what is left of any multiple.
LEMMA RemainderIs ==
    ASSUME NEW C \in Nat \ {0}, NEW q \in Int, NEW r \in 0 .. (C - 1), NEW x \in Int, x = C * q + r
    PROVE  x % C = r
  <1> DEFINE d == x \div C
             s == x % C
             k == q - d
  <1>1. x = C * d + s /\ d \in Int /\ s \in 0 .. (C - 1)
    OBVIOUS
  <1> HIDE DEF d, s
  <1>2. C * k = s - r /\ k \in Int
    BY <1>1
  <1> HIDE DEF k
  <1>3. k = 0
    <2>1. CASE k >= 1
      <3>1. C * k >= C
        BY <1>2, <2>1
      <3> QED
        BY <1>1, <1>2, <3>1
    <2>2. CASE k <= -1
      <3>1. C * k <= -C
        BY <1>2, <2>2
      <3> QED
        BY <1>1, <1>2, <3>1
    <2> QED
      BY <1>2, <2>1, <2>2
  <1>4. s = r
    BY <1>1, <1>2, <1>3
  <1> QED
    BY <1>4 DEF s

\* The slot that iteration n of an insert for h looks at, from 0.
SlotOf(h, n) == (h + n) % FragCapacity

LEMMA SlotsInTurn ==
    ASSUME NEW h \in Nat, NEW n \in 0 .. (FragCapacity - 1)
    PROVE  /\ SlotOf(h, n) = IF (h % FragCapacity) + n < FragCapacity THEN (h % FragCapacity) + n
                             ELSE (h % FragCapacity) + n - FragCapacity
           /\ SlotOf(h, n) \in FragSlots
  <1> DEFINE C == FragCapacity
             q == h \div C
             r == h % C
  <1>1. C \in Nat \ {0}
    BY FragAssumption
  <1>2. q \in Int /\ r \in 0 .. (C - 1) /\ h = C * q + r
    BY <1>1
  <1> SUFFICES (h + n) % C = IF r + n < C THEN r + n ELSE r + n - C
    BY <1>1, <1>2 DEF SlotOf, FragSlots
  <1>3. n \in 0 .. (C - 1)
    OBVIOUS
  <1> HIDE DEF C, q, r
  <1>4. CASE r + n < C
    <2>1. h + n = C * q + (r + n) /\ r + n \in 0 .. (C - 1) /\ h + n \in Int
      BY <1>1, <1>2, <1>3, <1>4
    <2>2. (h + n) % C = r + n
      BY <1>1, <1>2, <2>1, RemainderIs
    <2> QED
      BY <1>4, <2>2
  <1>5. CASE r + n >= C
    <2> DEFINE p == q + 1
               y == r + n - C
               x == h + n
    <2>1. x = C * p + y /\ y \in 0 .. (C - 1) /\ p \in Int /\ x \in Int
      BY <1>1, <1>2, <1>3, <1>5
    <2> HIDE DEF p, x, y
    <2>2. x % C = y
      BY <1>1, <2>1, RemainderIs
    <2> USE DEF x, y
    <2>3. ~(r + n < C)
      BY <1>1, <1>2, <1>3, <1>5
    <2> QED
      BY <2>2, <2>3
  <1> QED
    BY <1>1, <1>2, <1>3, <1>4, <1>5

\* An entry that is d from its home at one slot is d + 1 from it at the next,
\* until it comes round.
LEMMA DistanceInTurn ==
    ASSUME NEW h \in Nat, NEW n \in 0 .. (FragCapacity - 2), NEW g \in Nat,
           probe_distance(g, SlotOf(h, n)) + 1 < FragCapacity
    PROVE  probe_distance(g, SlotOf(h, n + 1)) = probe_distance(g, SlotOf(h, n)) + 1
  <1> DEFINE C == FragCapacity
             r == h % C
             home == g % C
             i == SlotOf(h, n)
             j == SlotOf(h, n + 1)
  <1>1. C \in Nat \ {0} /\ n \in 0 .. (C - 1) /\ n + 1 \in 0 .. (C - 1)
    BY FragAssumption
  <1>2. /\ i = IF r + n < C THEN r + n ELSE r + n - C
        /\ j = IF r + (n + 1) < C THEN r + (n + 1) ELSE r + (n + 1) - C
        /\ i \in FragSlots /\ j \in FragSlots
    BY <1>1, SlotsInTurn
  <1>3. r \in 0 .. (C - 1) /\ home \in 0 .. (C - 1)
    BY <1>1
  <1> HIDE DEF i, j
  <1>4. /\ probe_distance(g, i) = IF i >= home THEN i - home ELSE i - home + C
        /\ probe_distance(g, j) = IF j >= home THEN j - home ELSE j - home + C
    BY <1>2, Distance
  <1>5. probe_distance(g, i) + 1 < C
    BY DEF i
  <1>6. i \in 0 .. (C - 1) /\ j \in 0 .. (C - 1)
    BY <1>2 DEF FragSlots
  <1> HIDE DEF C, r, home
  <1>7. j = IF i = C - 1 THEN 0 ELSE i + 1
    BY <1>1, <1>2, <1>3
  <1>8. probe_distance(g, j) = probe_distance(g, i) + 1
    BY <1>1, <1>3, <1>4, <1>5, <1>6, <1>7
  <1> QED
    BY <1>8 DEF i, j

LEMMA InsertBegins ==
    ASSUME NEW h \in Nat
    PROVE  probe_distance(h, SlotOf(h, 0)) = 0
  <1>1. FragCapacity \in Nat \ {0} /\ 0 \in 0 .. (FragCapacity - 1)
    BY FragAssumption
  <1>2. h % FragCapacity \in 0 .. (FragCapacity - 1)
    BY <1>1
  <1>3. SlotOf(h, 0) = h % FragCapacity /\ SlotOf(h, 0) \in FragSlots
    <2>1. (h % FragCapacity) + 0 < FragCapacity /\ (h % FragCapacity) + 0 = h % FragCapacity
      BY <1>1, <1>2
    <2> QED
      BY <1>1, <2>1, SlotsInTurn
  <1> QED
    BY <1>1, <1>2, <1>3, Distance

-----------------------------------------------------------------------------
(***************************************************************************)
(* The Robin Hood order.                                                   *)
(***************************************************************************)
LEMMA EntryFacts ==
    ASSUME NEW e \in FragmentEntry
    PROVE  e # Empty /\ e.hash \in FragHashes /\ e.hash \in Nat
  BY FragAssumption, FragEmptyAssumption DEF FragmentEntry

LEMMA SlotFacts ==
    ASSUME NEW t \in Table, NEW i \in FragSlots, t[i] # Empty
    PROVE  /\ t[i] \in FragmentEntry /\ t[i].hash \in Nat
           /\ \A j \in FragSlots : probe_distance(t[i].hash, j) \in FragSlots
  BY EntryFacts, Distance DEF Table

\* The probe goes past one more slot.
LEMMA PassOne ==
    ASSUME NEW t \in Table, NEW h \in Nat, NEW k \in FragSlots,
           Passed(t, h, probe_distance(h, k)),
           t[k] # Empty, t[k].hash # h,
           probe_distance(t[k].hash, k) >= probe_distance(h, k)
    PROVE  Passed(t, h, probe_distance(h, k) + 1)
  <1> SUFFICES ASSUME NEW j \in FragSlots, probe_distance(h, j) < probe_distance(h, k) + 1
               PROVE  /\ t[j] # Empty /\ t[j].hash # h
                      /\ probe_distance(t[j].hash, j) >= probe_distance(h, j)
    BY DEF Passed
  <1>1. probe_distance(h, j) \in Nat /\ probe_distance(h, k) \in Nat
    BY Distance
  <1>2. CASE probe_distance(h, j) < probe_distance(h, k)
    BY <1>2 DEF Passed
  <1>3. CASE probe_distance(h, j) = probe_distance(h, k)
    BY <1>3, DistanceInjective
  <1> QED
    BY <1>1, <1>2, <1>3

\* A slot that the probe has not come to does not matter to it.
LEMMA PassedElsewhere ==
    ASSUME NEW t \in Table, NEW h \in Nat, NEW d \in Nat, NEW k \in FragSlots, NEW c,
           Passed(t, h, d), probe_distance(h, k) >= d
    PROVE  Passed([t EXCEPT ![k] = c], h, d)
  <1> SUFFICES ASSUME NEW j \in FragSlots, probe_distance(h, j) < d
               PROVE  j # k
    BY DEF Passed, Table
  <1> QED
    BY Distance

\* A store keeps the order when it fills a free slot, replaces the same hash's
\* entry, or takes the slot of an entry closer to its home.
LEMMA StoreKeepsOrder ==
    ASSUME NEW t \in Table, NEW k \in FragSlots, NEW c \in FragmentEntry,
           Ordered(t), Passed(t, c.hash, probe_distance(c.hash, k)),
           \/ t[k] = Empty \/ t[k].hash = c.hash
           \/ probe_distance(t[k].hash, k) < probe_distance(c.hash, k)
    PROVE  Ordered([t EXCEPT ![k] = c])
  <1> DEFINE u == [t EXCEPT ![k] = c]
  <1>1. u \in Table /\ u[k] = c /\ \A j \in FragSlots : j # k => u[j] = t[j]
    BY DEF Table
  <1> HIDE DEF u
  <1> SUFFICES ASSUME NEW i \in Occupied(u), NEW j \in FragSlots,
                      probe_distance(u[i].hash, j) < probe_distance(u[i].hash, i)
               PROVE  /\ u[j] # Empty /\ u[j].hash # u[i].hash
                      /\ probe_distance(u[j].hash, j) >= probe_distance(u[i].hash, j)
    BY DEF Ordered, Passed, u
  <1>2. i \in FragSlots /\ u[i] # Empty
    BY DEF Occupied
  <1>3. /\ u[i].hash \in Nat
        /\ probe_distance(u[i].hash, j) \in FragSlots /\ probe_distance(u[i].hash, i) \in FragSlots
    BY <1>1, <1>2, SlotFacts
  <1>4. j # i
    BY <1>3 DEF FragSlots
  <1>5. CASE i = k
    <2>1. u[j] = t[j] /\ u[i] = c
      BY <1>1, <1>4, <1>5
    <2> QED
      BY <1>5, <2>1 DEF Passed
  <1>6. CASE i # k /\ j # k
    <2>1. u[j] = t[j] /\ u[i] = t[i] /\ i \in Occupied(t)
      BY <1>1, <1>2, <1>6 DEF Occupied
    <2> QED
      BY <2>1 DEF Ordered, Passed
  <1>7. CASE i # k /\ j = k
    <2>1. u[i] = t[i] /\ i \in Occupied(t) /\ u[j] = c
      BY <1>1, <1>2, <1>7 DEF Occupied
    <2>2. /\ t[k] # Empty /\ t[k].hash # t[i].hash
          /\ probe_distance(t[k].hash, k) >= probe_distance(t[i].hash, k)
      BY <1>7, <2>1 DEF Ordered, Passed
    <2>3. /\ probe_distance(t[k].hash, k) \in Nat /\ probe_distance(t[i].hash, k) \in Nat
          /\ probe_distance(c.hash, k) \in Nat /\ c # Empty
      <3>1. t[k].hash \in Nat /\ t[i].hash \in Nat /\ c.hash \in Nat /\ c # Empty
        BY <1>2, <2>1, <2>2, SlotFacts, EntryFacts
      <3> QED
        BY <3>1, Distance
    <2>4. CASE t[k].hash = c.hash
      BY <1>7, <2>1, <2>2, <2>3, <2>4
    <2>5. CASE probe_distance(t[k].hash, k) < probe_distance(c.hash, k)
      <3>1. c.hash # t[i].hash
        BY <2>2, <2>3, <2>5
      <3> QED
        BY <1>7, <2>1, <2>2, <2>3, <2>5, <3>1
    <2> QED
      BY <2>2, <2>4, <2>5
  <1> QED
    BY <1>5, <1>6, <1>7

\* An entry that gave way has passed the slot it had.
LEMMA DisplacedHasPassed ==
    ASSUME NEW t \in Table, NEW k \in FragSlots, NEW c \in FragmentEntry,
           Ordered(t), t[k] # Empty, t[k].hash # c.hash,
           probe_distance(t[k].hash, k) < probe_distance(c.hash, k)
    PROVE  Passed([t EXCEPT ![k] = c], t[k].hash, probe_distance(t[k].hash, k) + 1)
  <1> DEFINE u == [t EXCEPT ![k] = c]
             h == t[k].hash
             d == probe_distance(h, k)
  <1>1. u \in Table /\ u[k] = c
    BY DEF Table
  <1>2. h \in Nat /\ d \in Nat /\ probe_distance(c.hash, k) \in Nat /\ c # Empty
    <2>1. h \in Nat /\ c.hash \in Nat /\ c # Empty
      BY SlotFacts, EntryFacts
    <2> QED
      BY <2>1, Distance
  <1>3. Passed(t, h, d)
    BY DEF Ordered, Occupied
  <1> HIDE DEF h
  <1>4. Passed(u, h, d)
    BY <1>2, <1>3, PassedElsewhere
  <1> USE DEF h
  <1> QED
    BY <1>1, <1>2, <1>4, PassOne

\* In an ordered table an entry is found, and no flow has a second.
LEMMA OrderedFinds ==
    ASSUME NEW t \in Table, Ordered(t), NEW i \in Occupied(t)
    PROVE  /\ i \in FragFound(t, t[i].hash)
           /\ \A k \in Occupied(t) : t[k].hash = t[i].hash => k = i
  <1>1. i \in FragFound(t, t[i].hash)
    BY DEF FragFound, Ordered, Passed, Occupied
  <1>2. ASSUME NEW k \in Occupied(t), t[k].hash = t[i].hash
        PROVE  k = i
    <2> DEFINE h == t[i].hash
    <2>1. h \in Nat /\ i \in FragSlots /\ k \in FragSlots
      BY SlotFacts DEF Occupied
    <2>2. probe_distance(h, i) \in Nat /\ probe_distance(h, k) \in Nat
      BY <2>1, Distance
    <2>3. ~(probe_distance(h, i) < probe_distance(h, k)) /\ ~(probe_distance(h, k) < probe_distance(h, i))
      BY <1>2, <2>1 DEF Ordered, Passed
    <2> QED
      BY <2>1, <2>2, <2>3, DistanceInjective
  <1> QED
    BY <1>1, <1>2

-----------------------------------------------------------------------------
(***************************************************************************)
(* An insert and the nearest entry of each hash.                           *)
(***************************************************************************)
\* The entry c in hand, d from its home, among the entries of its hash: it
\* stands between those nearer than d and the others.
HandFollows(t, c, d, m) ==
    LET E == Entries(t, c.hash) IN
    /\ ~FragExpired(c)
    /\ Agrees(c, m) \/ \E j \in E : probe_distance(c.hash, j) < d
    /\ \A i \in E :
          /\ \/ FragExpired(t[i]) \/ Agrees(t[i], m) \/ probe_distance(c.hash, i) >= d
             \/ \E j \in E : probe_distance(c.hash, j) < probe_distance(c.hash, i)
          /\ \A j \in E :
                probe_distance(c.hash, j) < probe_distance(c.hash, i) => t[j].age <= t[i].age
          /\ probe_distance(c.hash, i) < d => t[i].age <= c.age
          /\ probe_distance(c.hash, i) >= d => c.age <= t[i].age

LoopFollows(t, c, d, last) ==
    /\ HandFollows(t, c, d, last[c.hash])
    /\ \A h \in FragHashes \ {c.hash} : Follows(t, h, last[h])

LEMMA EntriesFacts ==
    ASSUME NEW t \in Table, NEW h \in Nat, NEW i \in Entries(t, h)
    PROVE  /\ i \in FragSlots /\ t[i] \in FragmentEntry /\ t[i] # Empty /\ t[i].hash = h
           /\ t[i].age \in Nat /\ probe_distance(h, i) \in Nat
  <1>1. i \in FragSlots /\ t[i] # Empty /\ t[i].hash = h
    BY DEF Entries
  <1>2. t[i] \in FragmentEntry
    BY <1>1 DEF Table
  <1> QED
    BY <1>1, <1>2, Distance, FragAssumption DEF FragmentEntry

\* The table with c at i.
Stored(t, c, i) == [t EXCEPT ![i] = c]

LEMMA StoredTable ==
    ASSUME NEW t \in Table, NEW c \in FragmentEntry, NEW i \in FragSlots
    PROVE  /\ Stored(t, c, i) \in Table /\ Stored(t, c, i)[i] = c
           /\ \A j \in FragSlots \ {i} : Stored(t, c, i)[j] = t[j]
           /\ Entries(Stored(t, c, i), c.hash) = Entries(t, c.hash) \cup {i}
           /\ \A h : h # c.hash => Entries(Stored(t, c, i), h) = Entries(t, h) \ {i}
  <1> DEFINE u == Stored(t, c, i)
  <1>1. u \in Table /\ u[i] = c /\ \A j \in FragSlots \ {i} : u[j] = t[j]
    BY DEF Table, Stored
  <1> HIDE DEF u
  <1>2. c # Empty
    BY EntryFacts
  <1>3. Entries(u, c.hash) = Entries(t, c.hash) \cup {i}
    BY <1>1, <1>2 DEF Entries
  <1>4. ASSUME NEW h, h # c.hash
        PROVE  Entries(u, h) = Entries(t, h) \ {i}
    BY <1>1, <1>2, <1>4 DEF Entries
  <1> QED
    BY <1>1, <1>3, <1>4 DEF u

\* Once stored, the entry in hand is nearer than those it stood before.
LEMMA StoreFollows ==
    ASSUME NEW t \in Table, NEW c \in FragmentEntry, NEW i \in FragSlots, NEW m,
           HandFollows(t, c, probe_distance(c.hash, i), m)
    PROVE  Follows(Stored(t, c, i), c.hash, m)
  <1> DEFINE u == Stored(t, c, i)
             h == c.hash
             d == probe_distance(h, i)
             E == Entries(t, h)
  <1>1. /\ u \in Table /\ u[i] = c /\ \A j \in FragSlots \ {i} : u[j] = t[j]
        /\ Entries(u, h) = E \cup {i}
    BY StoredTable
  <1>2. h \in Nat /\ c.age \in Nat
    BY EntryFacts, FragAssumption DEF FragmentEntry
  <1>3. /\ ~FragExpired(c)
        /\ Agrees(c, m) \/ \E j \in E : probe_distance(h, j) < d
        /\ \A k \in E :
              /\ \/ FragExpired(t[k]) \/ Agrees(t[k], m) \/ probe_distance(h, k) >= d
                 \/ \E j \in E : probe_distance(h, j) < probe_distance(h, k)
              /\ \A j \in E : probe_distance(h, j) < probe_distance(h, k) => t[j].age <= t[k].age
              /\ probe_distance(h, k) < d => t[k].age <= c.age
              /\ probe_distance(h, k) >= d => c.age <= t[k].age
    BY DEF HandFollows
  <1>4. d \in Nat /\ \A k \in FragSlots : /\ probe_distance(h, k) \in Nat
                                          /\ probe_distance(h, k) = d => k = i
    BY <1>2, Distance, DistanceInjective
  <1>5. \A k \in E : k \in FragSlots /\ t[k].age \in Nat
    BY <1>2, EntriesFacts
  <1> HIDE DEF u, h, E
  <1>9. d = probe_distance(h, i) /\ \A k \in E \cup {i} : probe_distance(h, k) \in Nat
    <2>1. ASSUME NEW k \in E \cup {i}
          PROVE  probe_distance(h, k) \in Nat
      <3>1. k \in FragSlots
        BY <1>5
      <3> QED
        BY <1>4, <3>1
    <2> QED
      BY <2>1
  <1> HIDE DEF d
  <1>6. ASSUME NEW k \in E \cup {i}
        PROVE  \/ FragExpired(u[k]) \/ Agrees(u[k], m)
               \/ \E j \in E \cup {i} : probe_distance(h, j) < probe_distance(h, k)
    <2>1. CASE k = i
      BY <1>1, <1>3, <2>1 DEF d
    <2>2. CASE k # i
      <3>1. k \in E /\ u[k] = t[k] /\ probe_distance(h, k) # d
        BY <1>1, <1>4, <1>5, <1>6, <2>2
      <3>2. CASE probe_distance(h, k) >= d
        <4>1. probe_distance(h, i) < probe_distance(h, k)
          BY <1>4, <1>9, <3>1, <3>2
        <4> QED
          BY <4>1
      <3> QED
        BY <1>3, <3>1, <3>2
    <2> QED
      BY <2>1, <2>2
  <1>7. ASSUME NEW k \in E \cup {i}, NEW j \in E \cup {i},
               probe_distance(h, j) < probe_distance(h, k)
        PROVE  u[j].age <= u[k].age
    <2>1. j # k
      BY <1>7, <1>9
    <2>2. CASE j = i
      <3>1. k \in E /\ u[k] = t[k] /\ u[j] = c /\ probe_distance(h, k) >= d
        BY <1>1, <1>5, <1>7, <1>9, <2>1, <2>2
      <3> QED
        BY <1>3, <3>1
    <2>3. CASE k = i
      <3>1. j \in E /\ u[j] = t[j] /\ u[k] = c /\ probe_distance(h, j) < d
        BY <1>1, <1>5, <1>7, <1>9, <2>1, <2>3
      <3> QED
        BY <1>3, <3>1
    <2>4. CASE j # i /\ k # i
      <3>1. j \in E /\ k \in E /\ u[j] = t[j] /\ u[k] = t[k]
        BY <1>1, <1>5, <1>7, <2>4
      <3> QED
        BY <1>3, <1>7, <3>1
    <2> QED
      BY <2>2, <2>3, <2>4
  <1>8. Follows(u, h, m)
    BY <1>1, <1>6, <1>7 DEF Follows
  <1> QED
    BY <1>8 DEF u, h

\* The entries of another hash lose at most an expired one, which is nearer to
\* no entry that has not expired.
LEMMA StoreElsewhere ==
    ASSUME NEW t \in Table, NEW c \in FragmentEntry, NEW i \in FragSlots, NEW m,
           NEW h \in Nat, h # c.hash, Follows(t, h, m),
           t[i] = Empty \/ t[i].hash # h \/ FragExpired(t[i])
    PROVE  Follows(Stored(t, c, i), h, m)
  <1> DEFINE u == Stored(t, c, i)
             E == Entries(t, h)
  <1>1. /\ u \in Table /\ \A j \in FragSlots \ {i} : u[j] = t[j]
        /\ Entries(u, h) = E \ {i}
    BY StoredTable
  <1>2. \A k \in E : /\ k \in FragSlots /\ t[k].age \in Nat /\ t[k] # Empty /\ t[k].hash = h
    BY EntriesFacts
  <1> HIDE DEF u, E
  <1>3. \A k \in E :
          /\ \/ FragExpired(t[k]) \/ Agrees(t[k], m)
             \/ \E j \in E : probe_distance(h, j) < probe_distance(h, k)
          /\ \A j \in E : probe_distance(h, j) < probe_distance(h, k) => t[j].age <= t[k].age
    BY DEF Follows, E
  <1>4. ASSUME NEW k \in E \ {i}
        PROVE  \/ FragExpired(u[k]) \/ Agrees(u[k], m)
               \/ \E j \in E \ {i} : probe_distance(h, j) < probe_distance(h, k)
    <2>1. u[k] = t[k]
      BY <1>1, <1>2
    <2>2. ASSUME NEW j \in E, probe_distance(h, j) < probe_distance(h, k), j = i
          PROVE  FragExpired(t[k])
      <3>1. FragExpired(t[j]) /\ t[j].age <= t[k].age
        BY <1>2, <1>3, <2>2
      <3> QED
        BY <1>2, <3>1, FragAssumption DEF FragExpired
    <2> QED
      BY <1>3, <2>1, <2>2
  <1>5. ASSUME NEW k \in E \ {i}, NEW j \in E \ {i},
               probe_distance(h, j) < probe_distance(h, k)
        PROVE  u[j].age <= u[k].age
    BY <1>1, <1>2, <1>3, <1>5
  <1>6. Follows(u, h, m)
    BY <1>1, <1>4, <1>5 DEF Follows
  <1> QED
    BY <1>6 DEF u

\* An entry that gives way stands where it was.
LEMMA RobFollows ==
    ASSUME NEW t \in Table, NEW c \in FragmentEntry, NEW i \in FragSlots, NEW m,
           t[i] # Empty, t[i].hash # c.hash, ~FragExpired(t[i]), Follows(t, t[i].hash, m)
    PROVE  HandFollows(Stored(t, c, i), t[i], probe_distance(t[i].hash, i) + 1, m)
  <1> DEFINE u == Stored(t, c, i)
             e == t[i]
             h == e.hash
             d == probe_distance(h, i)
             E == Entries(t, h)
  <1>1. /\ u \in Table /\ \A j \in FragSlots \ {i} : u[j] = t[j]
        /\ Entries(u, h) = E \ {i}
    BY StoredTable
  <1>2. h \in Nat /\ i \in E
    BY SlotFacts DEF Entries
  <1>3. d \in Nat /\ \A k \in FragSlots : /\ probe_distance(h, k) \in Nat
                                          /\ probe_distance(h, k) = d => k = i
    BY <1>2, Distance, DistanceInjective
  <1>4. \A k \in E : k \in FragSlots /\ t[k].age \in Nat
    BY <1>2, EntriesFacts
  <1>5. \A k \in E :
          /\ \/ FragExpired(t[k]) \/ Agrees(t[k], m)
             \/ \E j \in E : probe_distance(h, j) < probe_distance(h, k)
          /\ \A j \in E : probe_distance(h, j) < probe_distance(h, k) => t[j].age <= t[k].age
    BY DEF Follows
  <1>6. ~FragExpired(e)
    OBVIOUS
  <1> HIDE DEF u, h, d, E
  <1>7. Agrees(e, m) \/ \E j \in E \ {i} : probe_distance(h, j) < d + 1
    <2>1. CASE \E j \in E : probe_distance(h, j) < probe_distance(h, i)
      <3>1. PICK j \in E : probe_distance(h, j) < d
        BY <2>1 DEF d
      <3>2. probe_distance(h, j) \in Nat /\ d \in Nat /\ probe_distance(h, i) = d
        BY <1>3, <1>4, <3>1 DEF d
      <3>3. j # i /\ probe_distance(h, j) < d + 1
        BY <3>1, <3>2
      <3> QED
        BY <3>3
    <2> QED
      BY <1>2, <1>5, <1>6, <2>1
  <1> HIDE DEF e
  <1>8. ASSUME NEW k \in E \ {i}
        PROVE  /\ \/ FragExpired(u[k]) \/ Agrees(u[k], m) \/ probe_distance(h, k) >= d + 1
                  \/ \E j \in E \ {i} : probe_distance(h, j) < probe_distance(h, k)
               /\ \A j \in E \ {i} :
                     probe_distance(h, j) < probe_distance(h, k) => u[j].age <= u[k].age
               /\ probe_distance(h, k) < d + 1 => u[k].age <= e.age
               /\ probe_distance(h, k) >= d + 1 => e.age <= u[k].age
    <2>0. /\ k \in FragSlots /\ k # i /\ \A j \in E \ {i} : j \in FragSlots \ {i}
          /\ probe_distance(h, k) \in Nat /\ probe_distance(h, k) # d
      BY <1>3, <1>4
    <2>1. /\ u[k] = t[k] /\ probe_distance(h, k) \in Nat
          /\ probe_distance(h, k) < d \/ probe_distance(h, k) >= d + 1
          /\ \A j \in E \ {i} : u[j] = t[j]
      BY <1>1, <1>3, <2>0
    <2>2. \/ FragExpired(u[k]) \/ Agrees(u[k], m) \/ probe_distance(h, k) >= d + 1
          \/ \E j \in E \ {i} : probe_distance(h, j) < probe_distance(h, k)
      <3>1. CASE \E j \in E : probe_distance(h, j) < probe_distance(h, k)
        <4>1. PICK j \in E : probe_distance(h, j) < probe_distance(h, k)
          BY <3>1
        <4>2. CASE j = i
          BY <1>3, <2>1, <4>1, <4>2 DEF d
        <4> QED
          BY <4>1, <4>2
      <3> QED
        BY <1>5, <2>1, <3>1
    <2>3. \A j \in E \ {i} :
             probe_distance(h, j) < probe_distance(h, k) => u[j].age <= u[k].age
      BY <1>5, <2>1
    <2>4. probe_distance(h, k) < d + 1 => u[k].age <= e.age
      <3>1. probe_distance(h, k) < d + 1 => probe_distance(h, k) < probe_distance(h, i)
        BY <1>3, <2>1 DEF d
      <3> QED
        BY <1>2, <1>5, <2>1, <3>1 DEF e
    <2>5. probe_distance(h, k) >= d + 1 => e.age <= u[k].age
      <3>1. probe_distance(h, k) >= d + 1 => probe_distance(h, i) < probe_distance(h, k)
        BY <1>3, <2>1 DEF d
      <3> QED
        BY <1>2, <1>5, <2>1, <3>1 DEF e
    <2> QED
      BY <2>2, <2>3, <2>4, <2>5
  <1>9. HandFollows(u, e, d + 1, m)
    <2>1. e.hash = h /\ Entries(u, e.hash) = E \ {i}
      BY <1>1 DEF h
    <2> QED
      BY <1>6, <1>7, <1>8, <2>1 DEF HandFollows
  <1> QED
    BY <1>9 DEF u, d, h, e

\* Going past the entry of another hash changes nothing.
LEMMA PassFollows ==
    ASSUME NEW t \in Table, NEW c \in FragmentEntry, NEW i \in FragSlots, NEW m,
           HandFollows(t, c, probe_distance(c.hash, i), m), t[i] # Empty, t[i].hash # c.hash
    PROVE  HandFollows(t, c, probe_distance(c.hash, i) + 1, m)
  <1> DEFINE h == c.hash
             d == probe_distance(h, i)
             E == Entries(t, h)
  <1>1. h \in Nat
    BY EntryFacts
  <1>2. i \notin E
    BY DEF Entries
  <1>3. \A k \in E : /\ probe_distance(h, k) \in Nat
                     /\ probe_distance(h, k) # d
    BY <1>1, <1>2, EntriesFacts, DistanceInjective
  <1>4. d \in Nat
    BY <1>1, Distance
  <1> HIDE DEF d
  <1>5. \A k \in E : /\ probe_distance(h, k) < d + 1 <=> probe_distance(h, k) < d
                     /\ probe_distance(h, k) >= d + 1 <=> probe_distance(h, k) >= d
    BY <1>3, <1>4
  <1>6. HandFollows(t, c, d, m)
    BY DEF d
  <1>7. HandFollows(t, c, d + 1, m)
    BY <1>5, <1>6 DEF HandFollows
  <1> QED
    BY <1>7 DEF d

-----------------------------------------------------------------------------
(***************************************************************************)
(* One iteration of insert.                                                *)
(***************************************************************************)
LoopState == [table : Table, cur : FragmentEntry, dist : Nat, done : BOOLEAN]

Stores(s, i) == \/ s.table[i] = Empty \/ FragExpired(s.table[i])
                \/ s.table[i].hash = s.cur.hash
Robs(s, i)   == ~Stores(s, i) /\ probe_distance(s.table[i].hash, i) < s.dist

\* Updates of the loop variables, as records.
LEMMA StoreUpdate ==
    ASSUME NEW s \in LoopState, NEW i, NEW v
    PROVE  [s EXCEPT !.table[i] = v, !.done = TRUE]
              = [table |-> Stored(s.table, v, i), cur |-> s.cur, dist |-> s.dist, done |-> TRUE]
  <1> DEFINE w == Stored(s.table, v, i)
             c == s.cur
             d == s.dist
             x == s.done
             u == [s EXCEPT !.table[i] = v]
  <1>1. u = [s EXCEPT !.table = w]
    BY DEF Stored
  <1>2. s = [table |-> s.table, cur |-> c, dist |-> d, done |-> x]
    BY DEF LoopState
  <1> HIDE DEF w, c, d, x
  <1>3. u = [table |-> w, cur |-> c, dist |-> d, done |-> x]
    <2>1. [s EXCEPT !.table = w] = [table |-> w, cur |-> c, dist |-> d, done |-> x]
      BY <1>2
    <2> QED
      BY <1>1, <2>1
  <1>4. [s EXCEPT !.table[i] = v, !.done = TRUE] = [u EXCEPT !.done = TRUE]
    OBVIOUS
  <1>5. ASSUME NEW y
        PROVE  [u EXCEPT !.done = y] = [table |-> w, cur |-> c, dist |-> d, done |-> y]
    <2> HIDE DEF u
    <2> QED
      BY <1>3
  <1>6. [u EXCEPT !.done = TRUE] = [table |-> w, cur |-> c, dist |-> d, done |-> TRUE]
    BY <1>5, Zenon
  <1> HIDE DEF u
  <1> QED
    BY <1>4, <1>6, Zenon DEF w, c, d

LEMMA RobStep ==
    ASSUME NEW s \in LoopState, NEW i, Robs(s, i)
    PROVE  ProbeStep(s, i) = [table |-> Stored(s.table, s.cur, i), cur |-> s.table[i],
                              dist |-> probe_distance(s.table[i].hash, i) + 1, done |-> s.done]
  <1> DEFINE w == Stored(s.table, s.cur, i)
             x == s.done
             v == s.cur
             e == s.table[i]
             n == probe_distance(s.table[i].hash, i) + 1
             u == [s EXCEPT !.table[i] = v]
             q == [u EXCEPT !.cur = e]
  <1>1. u = [s EXCEPT !.table = w]
    BY DEF Stored
  <1>2. s = [table |-> s.table, cur |-> s.cur, dist |-> s.dist, done |-> x]
    BY DEF LoopState
  <1>3. ProbeStep(s, i) = [s EXCEPT !.table[i] = v, !.cur = e, !.dist = n]
    BY DEF ProbeStep, Stores, Robs
  <1> HIDE DEF w, x, v, e, n
  <1>4. u = [table |-> w, cur |-> s.cur, dist |-> s.dist, done |-> x]
    <2>1. [s EXCEPT !.table = w] = [table |-> w, cur |-> s.cur, dist |-> s.dist, done |-> x]
      BY <1>2
    <2> QED
      BY <1>1, <2>1
  <1>5. [s EXCEPT !.table[i] = v, !.cur = e, !.dist = n] = [q EXCEPT !.dist = n]
    OBVIOUS
  <1>6. q = [table |-> w, cur |-> e, dist |-> s.dist, done |-> x]
    <2> HIDE DEF u
    <2> QED
      BY <1>4
  <1>7. [q EXCEPT !.dist = n] = [table |-> w, cur |-> e, dist |-> n, done |-> x]
    <2> HIDE DEF q
    <2> QED
      BY <1>6
  <1> HIDE DEF q
  <1> QED
    BY <1>3, <1>5, <1>7, Zenon DEF w, x, e, n

LEMMA StepCases ==
    ASSUME NEW s \in LoopState, NEW i \in FragSlots
    PROVE  /\ Stores(s, i) =>
                 ProbeStep(s, i) = [table |-> Stored(s.table, s.cur, i), cur |-> s.cur,
                                    dist |-> s.dist, done |-> TRUE]
           /\ Robs(s, i) =>
                 ProbeStep(s, i) = [table |-> Stored(s.table, s.cur, i), cur |-> s.table[i],
                                    dist |-> probe_distance(s.table[i].hash, i) + 1,
                                    done |-> s.done]
           /\ ~Stores(s, i) /\ ~Robs(s, i) =>
                 ProbeStep(s, i) = [table |-> s.table, cur |-> s.cur,
                                    dist |-> s.dist + 1, done |-> s.done]
  <1>1. s = [table |-> s.table, cur |-> s.cur, dist |-> s.dist, done |-> s.done]
    BY DEF LoopState
  <1>2. CASE Stores(s, i)
    <2>1. ProbeStep(s, i) = [s EXCEPT !.table[i] = s.cur, !.done = TRUE]
      BY <1>2 DEF ProbeStep, Stores
    <2>2. [s EXCEPT !.table[i] = s.cur, !.done = TRUE]
             = [table |-> Stored(s.table, s.cur, i), cur |-> s.cur,
                dist |-> s.dist, done |-> TRUE]
      BY StoreUpdate, Zenon
    <2> QED
      BY <1>2, <2>1, <2>2 DEF Robs
  <1>3. CASE Robs(s, i)
    BY <1>3, RobStep DEF Robs
  <1>4. CASE ~Stores(s, i) /\ ~Robs(s, i)
    <2>1. ProbeStep(s, i) = [s EXCEPT !.dist = @ + 1]
      BY <1>4 DEF ProbeStep, Stores, Robs
    <2>2. [s EXCEPT !.dist = @ + 1]
             = [table |-> s.table, cur |-> s.cur, dist |-> s.dist + 1, done |-> s.done]
      BY <1>1
    <2> QED
      BY <1>4, <2>1, <2>2
  <1> QED
    BY <1>2, <1>3, <1>4

\* After n iterations of an insert for h: the entry in hand is as far from its
\* home as the loop believes, and has not been once round the table.
Position(h, n, s) ==
    /\ s \in LoopState
    /\ ~s.done => /\ s.dist <= n
                  /\ n < FragCapacity => probe_distance(s.cur.hash, SlotOf(h, n)) = s.dist

LEMMA PositionStart ==
    ASSUME NEW t \in Table, NEW h \in FragHashes, NEW b \in Backends
    PROVE  Position(h, 0, LoopStart(t, h, b))
  <1>1. h \in Nat /\ FragCapacity \in Nat \ {0} /\ MaxAge \in Nat
    BY FragAssumption
  <1>2. LoopStart(t, h, b) \in LoopState
    BY <1>1 DEF LoopStart, LoopState, FragmentEntry
  <1> QED
    BY <1>1, <1>2, InsertBegins DEF Position, LoopStart

LEMMA PositionNext ==
    ASSUME NEW h \in Nat, NEW n \in 0 .. (FragCapacity - 1), NEW s, Position(h, n, s), ~s.done
    PROVE  /\ LoopNext(h, s, n + 1) = ProbeStep(s, SlotOf(h, n))
           /\ SlotOf(h, n) \in FragSlots /\ s.dist = probe_distance(s.cur.hash, SlotOf(h, n))
           /\ Position(h, n + 1, LoopNext(h, s, n + 1))
  <1> DEFINE i == SlotOf(h, n)
             u == ProbeStep(s, i)
             e == s.table[i]
  <1>1. FragCapacity \in Nat \ {0} /\ n \in Nat /\ h \in Nat
    BY FragAssumption
  <1>2. LoopNext(h, s, n + 1) = u
    <2>1. h + (n + 1) - 1 = h + n
      BY <1>1
    <2> QED
      BY <2>1 DEF LoopNext, SlotOf
  <1>3. i \in FragSlots
    BY SlotsInTurn
  <1>4. /\ s \in LoopState /\ s.table \in Table /\ s.cur \in FragmentEntry
        /\ s.dist \in Nat /\ s.dist <= n /\ s.dist = probe_distance(s.cur.hash, i)
    BY <1>1 DEF Position, LoopState
  <1>5. s.cur.hash \in Nat
    BY <1>4, EntryFacts
  <1> HIDE DEF i
  <1>6. Stored(s.table, s.cur, i) \in Table
    BY <1>3, <1>4, StoredTable
  <1>7. CASE Stores(s, i)
    <2>1. u = [table |-> Stored(s.table, s.cur, i), cur |-> s.cur, dist |-> s.dist, done |-> TRUE]
      BY <1>3, <1>4, <1>7, StepCases
    <2>2. u \in LoopState /\ u.done
      BY <1>4, <1>6, <2>1 DEF LoopState
    <2> QED
      BY <1>2, <1>3, <1>4, <2>2 DEF Position, i
  <1>8. CASE ~Stores(s, i)
    <2>1. e # Empty /\ e \in FragmentEntry /\ e.hash \in Nat
      BY <1>3, <1>4, <1>8, SlotFacts DEF Stores, Table
    <2>2. probe_distance(e.hash, i) \in Nat
      BY <1>3, <2>1, Distance
    <2>3. \E c \in FragmentEntry : \E d \in Nat :
             /\ u \in LoopState /\ u.cur = c /\ u.dist = d /\ c.hash \in Nat
             /\ d <= n + 1 /\ probe_distance(c.hash, i) + 1 = d
      <3>1. CASE Robs(s, i)
        <4>1. u = [table |-> Stored(s.table, s.cur, i), cur |-> e,
                   dist |-> probe_distance(e.hash, i) + 1, done |-> s.done]
          BY <1>3, <1>4, <3>1, StepCases
        <4>2. probe_distance(e.hash, i) < s.dist
          BY <3>1 DEF Robs
        <4> HIDE DEF u, e
        <4>3. u \in LoopState /\ u.cur = e /\ u.dist = probe_distance(e.hash, i) + 1
          BY <1>4, <1>6, <2>1, <2>2, <4>1 DEF LoopState
        <4>4. probe_distance(e.hash, i) + 1 <= n + 1
          BY <1>1, <1>4, <2>2, <4>2
        <4> QED
          BY <2>1, <2>2, <4>3, <4>4
      <3>2. CASE ~Robs(s, i)
        <4>1. u = [table |-> s.table, cur |-> s.cur, dist |-> s.dist + 1, done |-> s.done]
          BY <1>3, <1>4, <1>8, <3>2, StepCases
        <4> HIDE DEF u
        <4>2. u \in LoopState /\ u.cur = s.cur /\ u.dist = s.dist + 1
          BY <1>4, <4>1 DEF LoopState
        <4> QED
          BY <1>1, <1>4, <1>5, <4>2
      <3> QED
        BY <3>1, <3>2
    <2>4. PICK c \in FragmentEntry, d \in Nat :
             /\ u \in LoopState /\ u.cur = c /\ u.dist = d /\ c.hash \in Nat
             /\ d <= n + 1 /\ probe_distance(c.hash, i) + 1 = d
      BY <2>3
    <2>5. n + 1 < FragCapacity => probe_distance(c.hash, SlotOf(h, n + 1)) = d
      <3> SUFFICES ASSUME n + 1 < FragCapacity
                   PROVE  probe_distance(c.hash, SlotOf(h, n + 1)) = d
        OBVIOUS
      <3>1. n \in 0 .. (FragCapacity - 2) /\ probe_distance(c.hash, i) + 1 < FragCapacity
        BY <1>1, <2>4
      <3> QED
        BY <2>4, <3>1, DistanceInTurn DEF i
    <2>6. Position(h, n + 1, u)
      BY <2>4, <2>5 DEF Position
    <2> QED
      BY <1>2, <1>3, <1>4, <2>6 DEF i
  <1> QED
    BY <1>7, <1>8

LEMMA PositionDone ==
    ASSUME NEW h, NEW n, NEW s, Position(h, n, s), s.done
    PROVE  LoopNext(h, s, n + 1) = s /\ Position(h, n + 1, s)
  BY DEF Position, LoopNext

-----------------------------------------------------------------------------
(***************************************************************************)
(* insert keeps what the table promises.                                   *)
(***************************************************************************)
\* What holds at the start and is kept by every iteration holds at the end.
LEMMA LoopInduction ==
    ASSUME NEW t, NEW h, NEW b, NEW S,
           <<0, LoopStart(t, h, b)>> \in S,
           \A n \in 0 .. (FragCapacity - 1) : \A s :
              <<n, s>> \in S => <<n + 1, LoopNext(h, s, n + 1)>> \in S
    PROVE  <<FragCapacity, InsertLoop(t, h, b)[FragCapacity]>> \in S
  <1> DEFINE C == FragCapacity
             L == InsertLoop(t, h, b)
             T == {n \in 0 .. C : <<n, L[n]>> \in S}
  <1>1. C \in Nat \ {0}
    BY FragAssumption
  <1>2. /\ L[0] = LoopStart(t, h, b)
        /\ \A n \in 1 .. C : L[n] = LoopNext(h, L[n - 1], n)
    BY LoopUnfolds
  <1> HIDE DEF L
  <1>3. 0 \in T
    BY <1>1, <1>2
  <1>4. ASSUME NEW n \in 0 .. (C - 1), n \in T
        PROVE  n + 1 \in T
    <2>1. n + 1 \in 1 .. C /\ n + 1 \in 0 .. C /\ (n + 1) - 1 = n
      BY <1>1
    <2>2. L[n + 1] = LoopNext(h, L[n], n + 1)
      BY <1>2, <2>1
    <2> QED
      BY <1>4, <2>1, <2>2
  <1>5. T \in SUBSET (0 .. C)
    OBVIOUS
  <1> HIDE DEF T
  <1>6. T = 0 .. C
    BY <1>1, <1>3, <1>4, <1>5, IntervalInduction
  <1>7. C \in T
    BY <1>1, <1>6
  <1> QED
    BY <1>7 DEF T, L

\* The mappings after the insert of h and b.
Inserted(last, h, b) == [last EXCEPT ![h] = [backend_ip |-> b, age |-> 0]]

FollowLoop(n, s, h, last) ==
    /\ Position(h, n, s)
    /\ s.done => AllFollow(s.table, last)
    /\ ~s.done => LoopFollows(s.table, s.cur, s.dist, last)

LEMMA FollowStart ==
    ASSUME NEW t \in Table, NEW h \in FragHashes, NEW b \in Backends,
           NEW last \in [FragHashes -> Mapping], AllFollow(t, last)
    PROVE  FollowLoop(0, LoopStart(t, h, b), h, Inserted(last, h, b))
  <1> DEFINE c == [hash |-> h, backend_ip |-> b, age |-> 0]
             m == [backend_ip |-> b, age |-> 0]
             new == Inserted(last, h, b)
  <1>1. h \in Nat /\ FragTtl \in Nat
    BY FragAssumption
  <1>2. new[h] = m /\ \A g \in FragHashes \ {h} : new[g] = last[g]
    BY DEF Inserted
  <1>3. ~FragExpired(c) /\ Agrees(c, m) /\ c.hash = h /\ c.age = 0
    BY <1>1 DEF FragExpired, Agrees
  <1> HIDE DEF new, m, c
  <1>4. \A k \in Entries(t, h) : probe_distance(h, k) \in Nat /\ t[k].age \in Nat
    BY <1>1, EntriesFacts
  <1>5. Follows(t, h, last[h])
    BY DEF AllFollow
  <1>6. HandFollows(t, c, 0, m)
    BY <1>3, <1>4, <1>5 DEF HandFollows, Follows
  <1>7. LoopFollows(t, c, 0, new)
    BY <1>2, <1>3, <1>6 DEF LoopFollows, AllFollow
  <1>8. /\ LoopStart(t, h, b).table = t /\ LoopStart(t, h, b).cur = c
        /\ LoopStart(t, h, b).dist = 0 /\ LoopStart(t, h, b).done = FALSE
    BY DEF LoopStart, c
  <1>9. Position(h, 0, LoopStart(t, h, b))
    BY PositionStart
  <1> QED
    BY <1>7, <1>8, <1>9 DEF FollowLoop, new

LEMMA FollowNext ==
    ASSUME NEW h \in FragHashes, NEW last \in [FragHashes -> Mapping],
           NEW n \in 0 .. (FragCapacity - 1), NEW s, FollowLoop(n, s, h, last)
    PROVE  FollowLoop(n + 1, LoopNext(h, s, n + 1), h, last)
  <1>1. h \in Nat /\ Position(h, n, s)
    BY FragAssumption DEF FollowLoop
  <1>2. CASE s.done
    BY <1>1, <1>2, PositionDone DEF FollowLoop
  <1>3. CASE ~s.done
    <2> DEFINE i == SlotOf(h, n)
               u == ProbeStep(s, i)
               t == s.table
               c == s.cur
               e == t[i]
    <2>1. /\ LoopNext(h, s, n + 1) = u /\ i \in FragSlots
          /\ s.dist = probe_distance(c.hash, i) /\ Position(h, n + 1, u)
      BY <1>1, <1>3, PositionNext
    <2>2. s \in LoopState /\ t \in Table /\ c \in FragmentEntry
      BY <1>1 DEF Position, LoopState
    <2>3. LoopFollows(t, c, probe_distance(c.hash, i), last)
      BY <1>3, <2>1 DEF FollowLoop
    <2>4. /\ HandFollows(t, c, probe_distance(c.hash, i), last[c.hash])
          /\ \A g \in FragHashes \ {c.hash} : Follows(t, g, last[g])
      BY <2>3 DEF LoopFollows
    <2>5. c.hash \in FragHashes
      BY <2>2, EntryFacts
    <2> HIDE DEF i, u
    <2>6. Follows(Stored(t, c, i), c.hash, last[c.hash])
      BY <2>1, <2>2, <2>4, StoreFollows
    <2>7. CASE Stores(s, i)
      <3>1. u.table = Stored(t, c, i) /\ u.done
        BY <2>1, <2>2, <2>7, StepCases DEF u
      <3>2. ASSUME NEW g \in FragHashes \ {c.hash}
            PROVE  Follows(Stored(t, c, i), g, last[g])
        <4>1. g \in Nat /\ g # c.hash /\ Follows(t, g, last[g])
          BY <2>4, FragAssumption
        <4>2. t[i] = Empty \/ t[i].hash # g \/ FragExpired(t[i])
          BY <2>7 DEF Stores
        <4> QED
          BY <2>1, <2>2, <4>1, <4>2, StoreElsewhere
      <3>3. AllFollow(u.table, last)
        BY <2>6, <3>1, <3>2 DEF AllFollow
      <3> QED
        BY <2>1, <3>1, <3>3 DEF FollowLoop
    <2>8. CASE Robs(s, i)
      <3>1. /\ u.table = Stored(t, c, i) /\ u.cur = e
            /\ u.dist = probe_distance(e.hash, i) + 1 /\ u.done = s.done
        BY <2>1, <2>2, <2>8, StepCases DEF u
      <3>2. e # Empty /\ e.hash # c.hash /\ ~FragExpired(e)
        BY <2>8 DEF Robs, Stores
      <3>3. e \in FragmentEntry /\ e.hash \in FragHashes
        BY <2>1, <2>2, <3>2, EntryFacts DEF Table
      <3>4. HandFollows(Stored(t, c, i), e, probe_distance(e.hash, i) + 1, last[e.hash])
        BY <2>1, <2>2, <2>4, <3>2, <3>3, RobFollows
      <3>5. ASSUME NEW g \in FragHashes \ {e.hash}
            PROVE  Follows(Stored(t, c, i), g, last[g])
        <4>1. CASE g = c.hash
          BY <2>6, <4>1
        <4>2. CASE g # c.hash
          <5>1. g \in Nat /\ Follows(t, g, last[g]) /\ t[i].hash # g
            BY <2>4, <4>2, FragAssumption
          <5> QED
            BY <2>1, <2>2, <4>2, <5>1, StoreElsewhere
        <4> QED
          BY <4>1, <4>2
      <3>6. LoopFollows(Stored(t, c, i), e, probe_distance(e.hash, i) + 1, last)
        BY <3>4, <3>5 DEF LoopFollows
      <3> QED
        BY <1>3, <2>1, <3>1, <3>6 DEF FollowLoop
    <2>9. CASE ~Stores(s, i) /\ ~Robs(s, i)
      <3>1. u.table = t /\ u.cur = c /\ u.dist = s.dist + 1 /\ u.done = s.done
        BY <2>1, <2>2, <2>9, StepCases DEF u
      <3>2. t[i] # Empty /\ t[i].hash # c.hash
        BY <2>9 DEF Stores
      <3>3. HandFollows(t, c, probe_distance(c.hash, i) + 1, last[c.hash])
        BY <2>1, <2>2, <2>4, <3>2, PassFollows
      <3>4. LoopFollows(t, c, probe_distance(c.hash, i) + 1, last)
        BY <2>4, <3>3 DEF LoopFollows
      <3> QED
        BY <1>3, <2>1, <3>1, <3>4 DEF FollowLoop
    <2> QED
      BY <2>7, <2>8, <2>9
  <1> QED
    BY <1>2, <1>3

\* An insert that loses no entry for want of a slot leaves every hash with its
\* latest mapping nearest to its home.
LEMMA InsertFollows ==
    ASSUME NEW t \in Table, NEW h \in FragHashes, NEW b \in Backends,
           NEW last \in [FragHashes -> Mapping], AllFollow(t, last), ~Overflows(t, h, b)
    PROVE  AllFollow(frag_insert(t, h, b), Inserted(last, h, b))
  <1> DEFINE new == Inserted(last, h, b)
             S == {x \in (0 .. FragCapacity) \X LoopState : FollowLoop(x[1], x[2], h, new)}
             r == InsertLoop(t, h, b)[FragCapacity]
  <1>1. new \in [FragHashes -> Mapping] /\ FragCapacity \in Nat \ {0}
    BY FragAssumption DEF Inserted, Mapping
  <1> HIDE DEF new
  <1>2. \A n \in 0 .. FragCapacity : \A s : <<n, s>> \in S <=> FollowLoop(n, s, h, new)
    BY DEF FollowLoop, Position
  <1> HIDE DEF S
  <1>3. FollowLoop(0, LoopStart(t, h, b), h, new)
    BY FollowStart DEF new
  <1>4. <<0, LoopStart(t, h, b)>> \in S
    BY <1>1, <1>2, <1>3
  <1>5. ASSUME NEW n \in 0 .. (FragCapacity - 1), NEW s, <<n, s>> \in S
        PROVE  <<n + 1, LoopNext(h, s, n + 1)>> \in S
    <2>1. n \in 0 .. FragCapacity /\ n + 1 \in 0 .. FragCapacity
      BY <1>1
    <2>2. FollowLoop(n, s, h, new)
      BY <1>2, <1>5, <2>1
    <2>3. FollowLoop(n + 1, LoopNext(h, s, n + 1), h, new)
      BY <1>1, <2>2, FollowNext
    <2> QED
      BY <1>2, <2>1, <2>3
  <1>6. <<FragCapacity, r>> \in S
    BY <1>4, <1>5, LoopInduction
  <1>7. FollowLoop(FragCapacity, r, h, new)
    BY <1>1, <1>2, <1>6
  <1>8. r.done
    BY DEF Overflows
  <1> QED
    BY <1>7, <1>8 DEF FollowLoop, frag_insert, new

LEMMA InsertTyped ==
    ASSUME NEW t \in Table, NEW h \in FragHashes, NEW b \in Backends
    PROVE  frag_insert(t, h, b) \in Table
  <1> DEFINE S == {x \in (0 .. FragCapacity) \X LoopState : Position(h, x[1], x[2])}
             r == InsertLoop(t, h, b)[FragCapacity]
  <1>1. h \in Nat /\ FragCapacity \in Nat \ {0}
    BY FragAssumption
  <1>2. \A n \in 0 .. FragCapacity : \A s : <<n, s>> \in S <=> Position(h, n, s)
    BY DEF Position
  <1> HIDE DEF S
  <1>3. <<0, LoopStart(t, h, b)>> \in S
    BY <1>1, <1>2, PositionStart
  <1>4. ASSUME NEW n \in 0 .. (FragCapacity - 1), NEW s, <<n, s>> \in S
        PROVE  <<n + 1, LoopNext(h, s, n + 1)>> \in S
    <2>1. n \in 0 .. FragCapacity /\ n + 1 \in 0 .. FragCapacity
      BY <1>1
    <2>2. Position(h, n, s)
      BY <1>2, <1>4, <2>1
    <2>3. Position(h, n + 1, LoopNext(h, s, n + 1))
      BY <1>1, <2>2, PositionNext, PositionDone
    <2> QED
      BY <1>2, <2>1, <2>3
  <1>5. <<FragCapacity, r>> \in S
    BY <1>3, <1>4, LoopInduction
  <1>6. Position(h, FragCapacity, r)
    BY <1>1, <1>2, <1>5
  <1> QED
    BY <1>6 DEF Position, LoopState, frag_insert

-----------------------------------------------------------------------------
(***************************************************************************)
(* insert loses no mapping before it reclaims a slot or meets a full table.*)
(***************************************************************************)
\* The loop with c in hand, d from its home: the table is in order and holds
\* the latest mapping of every other hash.
LoopFound(t, c, d, last) ==
    /\ Ordered(t) /\ Passed(t, c.hash, d)
    /\ c.age = last[c.hash].age
    /\ \A i \in Occupied(t) : t[i].hash # c.hash => t[i].age = last[t[i].hash].age
    /\ \A h \in FragHashes : last[h].age <= FragTtl => h = c.hash \/ Entries(t, h) # {}

\* Where the probe stops or swaps there is no older entry of the hash in hand
\* anywhere else.
LEMMA NoOtherEntry ==
    ASSUME NEW t \in Table, NEW c \in FragmentEntry, NEW i \in FragSlots, Ordered(t),
           Passed(t, c.hash, probe_distance(c.hash, i)),
           \/ t[i] = Empty \/ t[i].hash = c.hash
           \/ probe_distance(t[i].hash, i) < probe_distance(c.hash, i)
    PROVE  Entries(t, c.hash) \subseteq {i}
  <1> DEFINE h == c.hash
             d == probe_distance(h, i)
  <1>1. h \in Nat
    BY EntryFacts
  <1> SUFFICES ASSUME NEW j \in Entries(t, h), j # i
               PROVE  FALSE
    OBVIOUS
  <1>2. j \in FragSlots /\ j \in Occupied(t) /\ t[j].hash = h
    BY DEF Entries, Occupied
  <1>3. probe_distance(h, j) \in Nat /\ d \in Nat /\ probe_distance(h, j) # d
    BY <1>1, <1>2, Distance, DistanceInjective
  <1>4. CASE probe_distance(h, j) < d
    BY <1>2, <1>4 DEF Passed
  <1>5. CASE d < probe_distance(h, j)
    <2>1. t[i] # Empty /\ t[i].hash # h /\ probe_distance(t[i].hash, i) >= d
      BY <1>2, <1>5 DEF Ordered, Passed
    <2>2. probe_distance(t[i].hash, i) \in Nat
      BY <2>1, SlotFacts, Distance
    <2> QED
      BY <1>3, <2>1, <2>2
  <1> QED
    BY <1>3, <1>4, <1>5

\* The hand's entry is stored, for good or to go on with the one it displaces.
LEMMA StoreFinds ==
    ASSUME NEW t \in Table, NEW c \in FragmentEntry, NEW i \in FragSlots,
           NEW last \in [FragHashes -> Mapping],
           LoopFound(t, c, probe_distance(c.hash, i), last),
           \/ t[i] = Empty \/ t[i].hash = c.hash
           \/ probe_distance(t[i].hash, i) < probe_distance(c.hash, i)
    PROVE  /\ Ordered(Stored(t, c, i)) /\ AgesAreLatest(Stored(t, c, i), last)
           /\ \A h \in FragHashes : last[h].age <= FragTtl =>
                 Entries(Stored(t, c, i), h) # {} \/ (t[i] # Empty /\ t[i].hash = h)
  <1> DEFINE u == Stored(t, c, i)
  <1>1. /\ u \in Table /\ u[i] = c /\ \A j \in FragSlots \ {i} : u[j] = t[j]
        /\ Entries(u, c.hash) = Entries(t, c.hash) \cup {i}
        /\ \A h : h # c.hash => Entries(u, h) = Entries(t, h) \ {i}
    BY StoredTable
  <1>2. /\ Ordered(t) /\ Passed(t, c.hash, probe_distance(c.hash, i))
        /\ c.age = last[c.hash].age
        /\ \A j \in Occupied(t) : t[j].hash # c.hash => t[j].age = last[t[j].hash].age
        /\ \A h \in FragHashes : last[h].age <= FragTtl => h = c.hash \/ Entries(t, h) # {}
    BY DEF LoopFound
  <1>3. Ordered(u)
    BY <1>2, StoreKeepsOrder DEF Stored
  <1>4. Entries(t, c.hash) \subseteq {i}
    BY <1>2, NoOtherEntry
  <1> HIDE DEF u
  <1>5. ASSUME NEW j \in Occupied(u)
        PROVE  u[j].age = last[u[j].hash].age
    <2>1. CASE j = i
      BY <1>1, <1>2, <2>1
    <2>2. CASE j # i
      <3>1. j \in FragSlots /\ u[j] = t[j] /\ j \in Occupied(t)
        BY <1>1, <2>2 DEF Occupied
      <3>2. t[j].hash # c.hash
        BY <1>4, <2>2, <3>1 DEF Occupied, Entries
      <3> QED
        BY <1>2, <3>1, <3>2
    <2> QED
      BY <2>1, <2>2
  <1>6. ASSUME NEW h \in FragHashes, last[h].age <= FragTtl
        PROVE  Entries(u, h) # {} \/ (t[i] # Empty /\ t[i].hash = h)
    <2>1. CASE h = c.hash
      <3>1. i \in Entries(u, h)
        BY <1>1, <2>1, Zenon
      <3> QED
        BY <3>1, Zenon
    <2>2. CASE h # c.hash
      <3>1. PICK j : j \in Entries(t, h)
        BY <1>2, <1>6, <2>2
      <3>2. Entries(u, h) = Entries(t, h) \ {i}
        BY <1>1, <2>2, Zenon
      <3>3. CASE j = i
        BY <3>1, <3>3 DEF Entries
      <3>4. CASE j # i
        <4>1. j \in Entries(u, h)
          BY <3>1, <3>2, <3>4
        <4> QED
          BY <4>1, Zenon
      <3> QED
        BY <3>3, <3>4
    <2> QED
      BY <2>1, <2>2
  <1>7. AgesAreLatest(u, last)
    BY <1>5 DEF AgesAreLatest
  <1> QED
    BY <1>3, <1>5, <1>6, <1>7 DEF u

FoundLoop(n, s, h, last) ==
    /\ Position(h, n, s)
    /\ s.done => AllFound(s.table, last)
    /\ ~s.done => LoopFound(s.table, s.cur, s.dist, last)

LEMMA FoundStart ==
    ASSUME NEW t \in Table, NEW h \in FragHashes, NEW b \in Backends,
           NEW last \in [FragHashes -> Mapping], AllFound(t, last)
    PROVE  FoundLoop(0, LoopStart(t, h, b), h, Inserted(last, h, b))
  <1> DEFINE c == [hash |-> h, backend_ip |-> b, age |-> 0]
             m == [backend_ip |-> b, age |-> 0]
             new == Inserted(last, h, b)
  <1>1. h \in Nat /\ FragTtl \in Nat
    BY FragAssumption
  <1>2. new[h] = m /\ \A g \in FragHashes \ {h} : new[g] = last[g]
    BY DEF Inserted
  <1>3. c.hash = h /\ c.age = 0 /\ m.age = 0
    OBVIOUS
  <1> HIDE DEF new, m, c
  <1>4. /\ Ordered(t) /\ AgesAreLatest(t, last)
        /\ \A g \in FragHashes : last[g].age <= FragTtl => Entries(t, g) # {}
    BY DEF AllFound
  <1>5. Passed(t, h, 0)
    BY <1>1, Distance DEF Passed
  <1>6. ASSUME NEW i \in Occupied(t)
        PROVE  t[i].hash # h => t[i].age = new[t[i].hash].age
    <2>1. i \in FragSlots /\ t[i] # Empty
      BY DEF Occupied
    <2>2. t[i] \in FragmentEntry /\ t[i].hash \in FragHashes
      BY <2>1, EntryFacts DEF Table
    <2> QED
      BY <1>2, <1>4, <2>1, <2>2 DEF AgesAreLatest
  <1>7. LoopFound(t, c, 0, new)
    BY <1>2, <1>3, <1>4, <1>5, <1>6 DEF LoopFound
  <1>8. /\ LoopStart(t, h, b).table = t /\ LoopStart(t, h, b).cur = c
        /\ LoopStart(t, h, b).dist = 0 /\ LoopStart(t, h, b).done = FALSE
    BY DEF LoopStart, c
  <1>9. Position(h, 0, LoopStart(t, h, b))
    BY PositionStart
  <1> QED
    BY <1>7, <1>8, <1>9 DEF FoundLoop, new

LEMMA FoundNext ==
    ASSUME NEW h \in FragHashes, NEW last \in [FragHashes -> Mapping],
           NEW n \in 0 .. (FragCapacity - 1), NEW s, FoundLoop(n, s, h, last),
           ~Reclaim(s, SlotOf(h, n))
    PROVE  FoundLoop(n + 1, LoopNext(h, s, n + 1), h, last)
  <1>1. h \in Nat /\ Position(h, n, s)
    BY FragAssumption DEF FoundLoop
  <1>2. CASE s.done
    BY <1>1, <1>2, PositionDone DEF FoundLoop
  <1>3. CASE ~s.done
    <2> DEFINE i == SlotOf(h, n)
               u == ProbeStep(s, i)
               t == s.table
               c == s.cur
               e == t[i]
               v == Stored(t, c, i)
    <2>1. /\ LoopNext(h, s, n + 1) = u /\ i \in FragSlots
          /\ s.dist = probe_distance(c.hash, i) /\ Position(h, n + 1, u)
      BY <1>1, <1>3, PositionNext
    <2>2. s \in LoopState /\ t \in Table /\ c \in FragmentEntry /\ c.hash \in Nat
      BY <1>1, EntryFacts DEF Position, LoopState
    <2>3. LoopFound(t, c, probe_distance(c.hash, i), last)
      BY <1>3, <2>1 DEF FoundLoop
    <2>4. /\ Ordered(t) /\ Passed(t, c.hash, probe_distance(c.hash, i))
          /\ c.age = last[c.hash].age
          /\ \A j \in Occupied(t) : t[j].hash # c.hash => t[j].age = last[t[j].hash].age
          /\ \A g \in FragHashes : last[g].age <= FragTtl => g = c.hash \/ Entries(t, g) # {}
      BY <2>3 DEF LoopFound
    <2>5. e = Empty \/ ~FragExpired(e) \/ e.hash = c.hash
      BY <1>3 DEF Reclaim
    <2> HIDE DEF i, u
    <2>6. CASE Stores(s, i)
      <3>1. u.table = v /\ u.done
        BY <2>1, <2>2, <2>6, StepCases DEF u
      <3>2. e = Empty \/ e.hash = c.hash
        BY <2>5, <2>6 DEF Stores
      <3>3. /\ Ordered(v) /\ AgesAreLatest(v, last)
            /\ \A g \in FragHashes : last[g].age <= FragTtl =>
                  Entries(v, g) # {} \/ (e # Empty /\ e.hash = g)
        BY <2>1, <2>2, <2>3, <3>2, StoreFinds
      <3>4. v[i] = c /\ c # Empty
        BY <2>1, <2>2, StoredTable, EntryFacts
      <3>5. i \in Entries(v, c.hash)
        BY <2>1, <3>4 DEF Entries
      <3> HIDE DEF v, e
      <3>6. AllFound(v, last)
        BY <3>2, <3>3, <3>5 DEF AllFound
      <3> QED
        BY <2>1, <3>1, <3>6 DEF FoundLoop
    <2>7. CASE Robs(s, i)
      <3>1. /\ u.table = v /\ u.cur = e
            /\ u.dist = probe_distance(e.hash, i) + 1 /\ u.done = s.done
        BY <2>1, <2>2, <2>7, StepCases DEF u
      <3>2. /\ e # Empty /\ e.hash # c.hash
            /\ probe_distance(e.hash, i) < probe_distance(c.hash, i)
        BY <2>1, <2>7 DEF Robs, Stores
      <3>3. e.age = last[e.hash].age
        BY <2>1, <2>4, <3>2 DEF Occupied
      <3>4. Passed(v, e.hash, probe_distance(e.hash, i) + 1)
        BY <2>1, <2>2, <2>4, <3>2, DisplacedHasPassed DEF Stored
      <3>5. /\ Ordered(v) /\ AgesAreLatest(v, last)
            /\ \A g \in FragHashes : last[g].age <= FragTtl =>
                  Entries(v, g) # {} \/ (e # Empty /\ e.hash = g)
        BY <2>1, <2>2, <2>3, <3>2, StoreFinds
      <3> HIDE DEF v, e
      <3>6. LoopFound(v, e, probe_distance(e.hash, i) + 1, last)
        BY <3>2, <3>3, <3>4, <3>5 DEF LoopFound, AgesAreLatest
      <3> QED
        BY <1>3, <2>1, <3>1, <3>6 DEF FoundLoop
    <2>8. CASE ~Stores(s, i) /\ ~Robs(s, i)
      <3>1. u.table = t /\ u.cur = c /\ u.dist = s.dist + 1 /\ u.done = s.done
        BY <2>1, <2>2, <2>8, StepCases DEF u
      <3>2. e # Empty /\ e.hash # c.hash /\ ~(probe_distance(e.hash, i) < probe_distance(c.hash, i))
        BY <2>1, <2>8 DEF Stores, Robs
      <3>3. probe_distance(e.hash, i) >= probe_distance(c.hash, i)
        <4>1. e.hash \in Nat
          BY <2>1, <2>2, <3>2, SlotFacts
        <4>2. probe_distance(e.hash, i) \in Nat /\ probe_distance(c.hash, i) \in Nat
          BY <2>1, <2>2, <4>1, Distance
        <4> QED
          BY <3>2, <4>2
      <3>4. Passed(t, c.hash, probe_distance(c.hash, i) + 1)
        BY <2>1, <2>2, <2>4, <3>2, <3>3, PassOne
      <3>5. LoopFound(t, c, probe_distance(c.hash, i) + 1, last)
        BY <2>4, <3>4 DEF LoopFound
      <3> QED
        BY <1>3, <2>1, <3>1, <3>5 DEF FoundLoop
    <2> QED
      BY <2>6, <2>7, <2>8
  <1> QED
    BY <1>2, <1>3

\* An insert that reclaims no slot and loses no entry leaves the latest
\* mapping of every hash where get finds it.
LEMMA InsertFinds ==
    ASSUME NEW t \in Table, NEW h \in FragHashes, NEW b \in Backends,
           NEW last \in [FragHashes -> Mapping], AllFound(t, last),
           ~Reclaims(t, h, b), ~Overflows(t, h, b)
    PROVE  AllFound(frag_insert(t, h, b), Inserted(last, h, b))
  <1> DEFINE new == Inserted(last, h, b)
             L == InsertLoop(t, h, b)
             S == {x \in (0 .. FragCapacity) \X LoopState :
                      x[2] = L[x[1]] /\ FoundLoop(x[1], x[2], h, new)}
             r == L[FragCapacity]
  <1>1. new \in [FragHashes -> Mapping] /\ FragCapacity \in Nat \ {0}
    BY FragAssumption DEF Inserted, Mapping
  <1> HIDE DEF new
  <1>9. /\ L[0] = LoopStart(t, h, b)
        /\ \A n \in 1 .. FragCapacity : L[n] = LoopNext(h, L[n - 1], n)
    BY LoopUnfolds
  <1>10. \A n \in 0 .. (FragCapacity - 1) : ~Reclaim(L[n], SlotOf(h, n))
    BY DEF Reclaims, SlotOf
  <1> HIDE DEF L
  <1>2. \A n \in 0 .. FragCapacity : \A s :
           <<n, s>> \in S <=> s = L[n] /\ FoundLoop(n, s, h, new)
    BY DEF FoundLoop, Position
  <1> HIDE DEF S
  <1>3. FoundLoop(0, LoopStart(t, h, b), h, new)
    BY FoundStart DEF new
  <1>4. <<0, LoopStart(t, h, b)>> \in S
    BY <1>1, <1>2, <1>3, <1>9
  <1>5. ASSUME NEW n \in 0 .. (FragCapacity - 1), NEW s, <<n, s>> \in S
        PROVE  <<n + 1, LoopNext(h, s, n + 1)>> \in S
    <2>1. n \in 0 .. FragCapacity /\ n + 1 \in 1 .. FragCapacity /\ (n + 1) - 1 = n
      BY <1>1
    <2>2. s = L[n] /\ FoundLoop(n, s, h, new)
      BY <1>2, <1>5, <2>1
    <2>3. FoundLoop(n + 1, LoopNext(h, s, n + 1), h, new)
      BY <1>1, <1>10, <2>2, FoundNext
    <2>4. LoopNext(h, s, n + 1) = L[n + 1]
      BY <1>9, <2>1, <2>2
    <2> QED
      BY <1>1, <1>2, <2>1, <2>3, <2>4
  <1>6. <<FragCapacity, r>> \in S
    BY <1>4, <1>5, LoopInduction DEF L
  <1>7. FoundLoop(FragCapacity, r, h, new)
    BY <1>1, <1>2, <1>6
  <1>8. r.done
    BY DEF Overflows, L
  <1> QED
    BY <1>7, <1>8 DEF FoundLoop, frag_insert, new, L

-----------------------------------------------------------------------------
(***************************************************************************)
(* The passing of time.                                                    *)
(***************************************************************************)
Older(m)    == [m EXCEPT !.age = Aged(@, 1)]
AllOlder(f) == [h \in FragHashes |-> Older(f[h])]

LEMMA AgedFacts ==
    /\ \A n \in 0 .. MaxAge : Aged(n, 1) \in 0 .. MaxAge /\ n <= Aged(n, 1)
    /\ \A m, n \in 0 .. MaxAge : m <= n => Aged(m, 1) <= Aged(n, 1)
  BY FragAssumption DEF Aged

LEMMA AgedTable ==
    ASSUME NEW t \in Table
    PROVE  /\ frag_age(t, 1) \in Table
           /\ \A i \in FragSlots : frag_age(t, 1)[i] = Empty <=> t[i] = Empty
           /\ \A i \in FragSlots : t[i] # Empty =>
                 /\ t[i] \in FragmentEntry
                 /\ frag_age(t, 1)[i].hash = t[i].hash
                 /\ frag_age(t, 1)[i].backend_ip = t[i].backend_ip
                 /\ frag_age(t, 1)[i].age = Aged(t[i].age, 1)
  <1> DEFINE u == frag_age(t, 1)
             K(e) == [e EXCEPT !.age = Aged(@, 1)]
  <1>1. u = [i \in FragSlots |-> IF t[i] = Empty THEN Empty ELSE K(t[i])]
    BY DEF frag_age, Aged
  <1>2. ASSUME NEW e \in FragmentEntry
        PROVE  /\ K(e) \in FragmentEntry /\ K(e) # Empty
               /\ K(e).hash = e.hash /\ K(e).backend_ip = e.backend_ip /\ K(e).age = Aged(e.age, 1)
    <2>1. e.age \in 0 .. MaxAge /\ Aged(e.age, 1) \in 0 .. MaxAge
      BY AgedFacts DEF FragmentEntry
    <2> DEFINE a == Aged(e.age, 1)
    <2> HIDE DEF a
    <2>2. a \in 0 .. MaxAge
      BY <2>1 DEF a
    <2>3. K(e) = [e EXCEPT !.age = a]
      BY DEF a
    <2>4. /\ [e EXCEPT !.age = a] \in FragmentEntry
          /\ [e EXCEPT !.age = a].hash = e.hash
          /\ [e EXCEPT !.age = a].backend_ip = e.backend_ip
          /\ [e EXCEPT !.age = a].age = a
      BY <2>2 DEF FragmentEntry
    <2> HIDE DEF K
    <2> QED
      BY <2>3, <2>4, FragEmptyAssumption DEF a
  <1> HIDE DEF u, K
  <1>3. ASSUME NEW i \in FragSlots, t[i] = Empty
        PROVE  u[i] = Empty
    BY <1>1, <1>3
  <1>4. ASSUME NEW i \in FragSlots, t[i] # Empty
        PROVE  /\ t[i] \in FragmentEntry /\ u[i] = K(t[i])
    BY <1>1, <1>4 DEF Table
  <1>5. u \in Table
    <2>1. \A i \in FragSlots : u[i] \in FragmentEntry \cup {Empty}
      BY <1>2, <1>3, <1>4
    <2> QED
      BY <1>1, <2>1 DEF Table
  <1> QED
    BY <1>2, <1>3, <1>4, <1>5 DEF u

\* Ageing moves no entry and changes no order of ages.
LEMMA AgedEntries ==
    ASSUME NEW t \in Table
    PROVE  /\ \A h : Entries(frag_age(t, 1), h) = Entries(t, h)
           /\ Occupied(frag_age(t, 1)) = Occupied(t)
           /\ \A i \in Occupied(t) : FragExpired(t[i]) => FragExpired(frag_age(t, 1)[i])
  <1> DEFINE u == frag_age(t, 1)
  <1>1. /\ \A i \in FragSlots : u[i] = Empty <=> t[i] = Empty
        /\ \A i \in FragSlots : t[i] # Empty =>
              /\ t[i] \in FragmentEntry /\ u[i].hash = t[i].hash /\ u[i].age = Aged(t[i].age, 1)
    BY AgedTable
  <1> HIDE DEF u
  <1>2. ASSUME NEW i \in Occupied(t), FragExpired(t[i])
        PROVE  FragExpired(u[i])
    <2>1. t[i].age \in 0 .. MaxAge /\ u[i].age = Aged(t[i].age, 1)
      BY <1>1 DEF Occupied, FragmentEntry
    <2>2. t[i].age <= u[i].age /\ u[i].age \in 0 .. MaxAge
      BY <2>1, AgedFacts
    <2>3. t[i].age > FragTtl
      BY <1>2 DEF FragExpired
    <2>4. u[i].age > FragTtl
      BY <2>1, <2>2, <2>3, FragAssumption
    <2> QED
      BY <2>4 DEF FragExpired
  <1>3. Occupied(u) = Occupied(t)
    BY <1>1 DEF Occupied
  <1>4. ASSUME NEW h
        PROVE  Entries(u, h) = Entries(t, h)
    BY <1>1 DEF Entries
  <1> QED
    BY <1>2, <1>3, <1>4 DEF u

LEMMA OlderFacts ==
    ASSUME NEW last \in [FragHashes -> Mapping]
    PROVE  /\ AllOlder(last) \in [FragHashes -> Mapping]
           /\ \A h \in FragHashes : /\ AllOlder(last)[h].backend_ip = last[h].backend_ip
                                    /\ AllOlder(last)[h].age = Aged(last[h].age, 1)
                                    /\ last[h].age \in 0 .. MaxAge
                                    /\ last[h].age <= Aged(last[h].age, 1)
                                    /\ Aged(last[h].age, 1) \in 0 .. MaxAge
  <1>1. ASSUME NEW h \in FragHashes
        PROVE  /\ AllOlder(last)[h] \in Mapping
               /\ AllOlder(last)[h].backend_ip = last[h].backend_ip
               /\ AllOlder(last)[h].age = Aged(last[h].age, 1)
               /\ last[h].age \in 0 .. MaxAge
               /\ last[h].age <= Aged(last[h].age, 1)
               /\ Aged(last[h].age, 1) \in 0 .. MaxAge
    <2> DEFINE m == last[h]
    <2>1. m \in Mapping /\ AllOlder(last)[h] = [m EXCEPT !.age = Aged(m.age, 1)]
      BY DEF AllOlder, Older
    <2>2. m.age \in 0 .. MaxAge /\ Aged(m.age, 1) \in 0 .. MaxAge /\ m.age <= Aged(m.age, 1)
      BY <2>1, AgedFacts DEF Mapping
    <2> HIDE DEF m
    <2>3. /\ [m EXCEPT !.age = Aged(m.age, 1)] \in Mapping
          /\ [m EXCEPT !.age = Aged(m.age, 1)].backend_ip = m.backend_ip
          /\ [m EXCEPT !.age = Aged(m.age, 1)].age = Aged(m.age, 1)
      BY <2>1, <2>2 DEF Mapping
    <2> QED
      BY <2>1, <2>2, <2>3 DEF m
  <1>2. AllOlder(last) = [h \in FragHashes |-> AllOlder(last)[h]]
    BY DEF AllOlder
  <1> QED
    BY <1>1, <1>2

LEMMA TickFollows ==
    ASSUME NEW t \in Table, NEW last \in [FragHashes -> Mapping], AllFollow(t, last)
    PROVE  AllFollow(frag_age(t, 1), AllOlder(last))
  <1> DEFINE u == frag_age(t, 1)
             new == AllOlder(last)
  <1> SUFFICES ASSUME NEW h \in FragHashes
               PROVE  Follows(u, h, new[h])
    BY DEF AllFollow
  <1>1. /\ new[h].backend_ip = last[h].backend_ip /\ new[h].age = Aged(last[h].age, 1)
    BY OlderFacts
  <1>2. Entries(u, h) = Entries(t, h) /\ h \in Nat
    BY AgedEntries, FragAssumption
  <1>3. \A i \in Entries(t, h) :
           /\ t[i].age \in 0 .. MaxAge /\ u[i].age = Aged(t[i].age, 1)
           /\ u[i].backend_ip = t[i].backend_ip
           /\ FragExpired(t[i]) => FragExpired(u[i])
    BY AgedTable, AgedEntries DEF Entries, Occupied, FragmentEntry
  <1>4. Follows(t, h, last[h])
    BY DEF AllFollow
  <1> HIDE DEF u, new
  <1>5. \A i \in Entries(t, h) : Agrees(t[i], last[h]) => Agrees(u[i], new[h])
    BY <1>1, <1>3 DEF Agrees
  <1>6. \A i, j \in Entries(t, h) : t[j].age <= t[i].age => u[j].age <= u[i].age
    BY <1>3, AgedFacts
  <1> QED
    BY <1>2, <1>3, <1>4, <1>5, <1>6 DEF Follows

LEMMA TickFinds ==
    ASSUME NEW t \in Table, NEW last \in [FragHashes -> Mapping], AllFound(t, last)
    PROVE  AllFound(frag_age(t, 1), AllOlder(last))
  <1> DEFINE u == frag_age(t, 1)
             new == AllOlder(last)
  <1>1. /\ \A i \in FragSlots : u[i] = Empty <=> t[i] = Empty
        /\ \A i \in FragSlots : t[i] # Empty =>
              /\ t[i] \in FragmentEntry /\ u[i].hash = t[i].hash /\ u[i].age = Aged(t[i].age, 1)
    BY AgedTable
  <1>2. Occupied(u) = Occupied(t) /\ \A h : Entries(u, h) = Entries(t, h)
    BY AgedEntries
  <1>3. \A h \in FragHashes : /\ new[h].age = Aged(last[h].age, 1)
                              /\ last[h].age \in 0 .. MaxAge /\ new[h].age \in 0 .. MaxAge
                              /\ last[h].age <= new[h].age
    BY OlderFacts
  <1>4. /\ Ordered(t) /\ AgesAreLatest(t, last)
        /\ \A h \in FragHashes : last[h].age <= FragTtl => Entries(t, h) # {}
    BY DEF AllFound
  <1> HIDE DEF u, new
  <1>5. Ordered(u)
    <2>1. \A h, d : Passed(t, h, d) => Passed(u, h, d)
      BY <1>1 DEF Passed
    <2>2. \A i \in Occupied(t) : u[i].hash = t[i].hash
      BY <1>1 DEF Occupied
    <2> QED
      BY <1>2, <1>4, <2>1, <2>2 DEF Ordered
  <1>6. AgesAreLatest(u, new)
    <2>1. ASSUME NEW i \in Occupied(t)
          PROVE  u[i].age = new[u[i].hash].age
      <3>1. i \in FragSlots /\ t[i] # Empty
        BY DEF Occupied
      <3>2. t[i].hash \in FragHashes
        BY <1>1, <3>1, EntryFacts
      <3> QED
        BY <1>1, <1>3, <1>4, <3>1, <3>2 DEF AgesAreLatest
    <2> QED
      BY <1>2, <2>1 DEF AgesAreLatest
  <1>7. ASSUME NEW h \in FragHashes, new[h].age <= FragTtl
        PROVE  Entries(u, h) # {}
    <2>1. last[h].age <= FragTtl
      BY <1>3, <1>7, FragAssumption
    <2>2. Entries(t, h) # {}
      BY <1>4, <2>1
    <2> QED
      BY <1>2, <2>2
  <1>8. AllFound(u, new)
    BY <1>5, <1>6, <1>7 DEF AllFound
  <1> QED
    BY <1>8 DEF u, new

-----------------------------------------------------------------------------
(***************************************************************************)
(* The steps, as the fragment tables see them.                             *)
(***************************************************************************)
TablesStay == UNCHANGED <<frag, latest, damage>>

TablesAge ==
    /\ frag' = [w \in Workers |-> frag_age(frag[w], 1)]
    /\ latest' = [w \in Workers |-> AllOlder(latest[w])]
    /\ UNCHANGED damage

Inserts(w, h, b) ==
    /\ frag' = [frag EXCEPT ![w] = frag_insert(frag[w], h, b)]
    /\ latest' = [latest EXCEPT ![w] = Inserted(latest[w], h, b)]
    /\ damage' = [damage EXCEPT ![w] = @ \cup Damage(frag[w], h, b)]

\* A worker's packet is one that the constants describe.
LEMMA PacketFacts ==
    ASSUME Typed, NEW p \in scenario.packets
    PROVE  p \in Packets /\ p.flow \in Flows /\ FragHashOf[p.datagram] \in FragHashes
  <1>1. scenario.packets \subseteq Packets
    BY RewriterAssumption DEF Typed
  <1>2. p \in PacketType
    BY <1>1, RewriterAssumption
  <1> QED
    BY <1>1, <1>2, RewriterAssumption DEF PacketType

LEMMA BackendFacts ==
    ASSUME Typed, NEW w \in Workers, NEW p \in scenario.packets,
           snap[w] # NoBatch, snap[w][p.flow] # NoBackend
    PROVE  /\ snap[w] \in Pick /\ Backend(w, p) \subseteq Backends
           /\ snap[w][p.flow] \in Offered(snap[w])
  <1>1. p.flow \in Flows
    BY PacketFacts
  <1>2. snap[w] \in Pick
    BY DEF Typed
  <1>3. snap[w][p.flow] \in Backends
    BY <1>1, <1>2 DEF Pick
  <1>4. pinned[w][p.flow] \subseteq Backends
    BY <1>1 DEF Typed
  <1> QED
    BY <1>1, <1>2, <1>3, <1>4 DEF Backend, Offered

LEMMA RememberInserts ==
    ASSUME Typed, NEW w \in Workers, NEW p \in scenario.packets, NEW b \in Backends,
           Remember(w, p, b)
    PROVE  TablesStay \/ \E h \in FragHashes : Inserts(w, h, b)
  <1> DEFINE h == FragHashOf[p.datagram]
  <1>1. h \in FragHashes
    BY PacketFacts
  <1>2. CASE p.part # "first"
    BY <1>2 DEF Remember, TablesStay
  <1>3. CASE p.part = "first"
    <2>1. /\ frag' = [frag EXCEPT ![w] = frag_insert(@, h, b)]
          /\ latest' = [latest EXCEPT ![w][h] = [backend_ip |-> b, age |-> 0]]
          /\ damage' = [damage EXCEPT ![w] = @ \cup Damage(frag[w], h, b)]
      BY <1>3 DEF Remember
    <2>2. [latest EXCEPT ![w][h] = [backend_ip |-> b, age |-> 0]]
             = [latest EXCEPT ![w] = Inserted(latest[w], h, b)]
      BY DEF Inserted
    <2> QED
      BY <1>1, <2>1, <2>2 DEF Inserts
  <1> QED
    BY <1>2, <1>3

LEMMA TableSteps ==
    ASSUME Typed, [Next]_vars
    PROVE  \/ TablesStay \/ TablesAge
           \/ \E w \in Workers, h \in FragHashes, b \in Backends : Inserts(w, h, b)
  <1>1. ASSUME NEW f \in scenario.picks, Publish(f)
        PROVE  TablesStay
    BY <1>1 DEF Publish, TablesStay, history
  <1>2. ASSUME NEW b \in scenario.failing, SetHealth(b)
        PROVE  TablesStay
    BY <1>2 DEF SetHealth, TablesStay
  <1>3. CASE Tick
    BY <1>3 DEF Tick, TablesAge, AllOlder, Older
  <1>4. ASSUME NEW w \in Workers, BatchStart(w) \/ BatchEnd(w)
        PROVE  TablesStay
    BY <1>4 DEF BatchStart, BatchEnd, TablesStay
  <1>5. ASSUME NEW w \in Workers, NEW p \in scenario.packets, LaterFragment(w, p) \/ NoService(w, p)
        PROVE  TablesStay
    BY <1>5 DEF LaterFragment, NoService, TablesStay, history
  <1>6. ASSUME NEW w \in Workers, NEW p \in scenario.packets, Serve(w, p)
        PROVE  TablesStay \/ \E h \in FragHashes, b \in Backends : Inserts(w, h, b)
    <2>1. PICK b \in Backend(w, p) : Remember(w, p, b)
      BY <1>6 DEF Serve
    <2>2. b \in Backends
      BY <1>6, <2>1, BackendFacts DEF Serve, Has
    <2> QED
      BY <2>1, <2>2, RememberInserts
  <1>7. CASE UNCHANGED vars
    BY <1>7 DEF vars, history, TablesStay
  <1> QED
    BY <1>1, <1>2, <1>3, <1>4, <1>5, <1>6, <1>7 DEF Next, process_one

-----------------------------------------------------------------------------
(***************************************************************************)
(* The types that the other invariants need.                               *)
(***************************************************************************)
LEMMA TypedInit == Init => Typed
  <1> SUFFICES ASSUME Init PROVE Typed
    OBVIOUS
  <1>1. pick \in Pick
    BY RewriterAssumption DEF Init
  <1>2. frag \in [Workers -> Table]
    BY DEF Init, Table
  <1>3. latest \in [Workers -> [FragHashes -> Mapping]]
    <2>1. [backend_ip |-> NoBackend, age |-> MaxAge] \in Mapping
      BY FragAssumption DEF Mapping
    <2> QED
      BY <2>1 DEF Init
  <1> QED
    BY <1>1, <1>2, <1>3 DEF Init, Typed

LEMMA TablesTyped ==
    ASSUME Typed, [Next]_vars
    PROVE  /\ frag' \in [Workers -> Table]
           /\ latest' \in [Workers -> [FragHashes -> Mapping]]
           /\ damage' \in [Workers -> SUBSET {"reclaim", "overflow"}]
  <1> USE DEF Typed
  <1>1. CASE TablesStay
    BY <1>1 DEF TablesStay
  <1>2. CASE TablesAge
    <2>1. ASSUME NEW w \in Workers
          PROVE  frag_age(frag[w], 1) \in Table /\ AllOlder(latest[w]) \in [FragHashes -> Mapping]
      <3>1. frag[w] \in Table /\ latest[w] \in [FragHashes -> Mapping]
        OBVIOUS
      <3> QED
        BY <3>1, AgedTable, OlderFacts
    <2> QED
      BY <1>2, <2>1 DEF TablesAge
  <1>3. ASSUME NEW w \in Workers, NEW h \in FragHashes, NEW b \in Backends, Inserts(w, h, b)
        PROVE  /\ frag' \in [Workers -> Table]
               /\ latest' \in [Workers -> [FragHashes -> Mapping]]
               /\ damage' \in [Workers -> SUBSET {"reclaim", "overflow"}]
    <2>1. frag_insert(frag[w], h, b) \in Table
      BY InsertTyped
    <2>2. Inserted(latest[w], h, b) \in [FragHashes -> Mapping]
      <3>1. [backend_ip |-> b, age |-> 0] \in Mapping
        BY FragAssumption DEF Mapping
      <3> QED
        BY <3>1 DEF Inserted
    <2>3. damage[w] \cup Damage(frag[w], h, b) \in SUBSET {"reclaim", "overflow"}
      BY DEF Damage
    <2> QED
      BY <1>3, <2>1, <2>2, <2>3 DEF Inserts
  <1> QED
    BY <1>1, <1>2, <1>3, TableSteps

LEMMA TypedNext == Typed /\ [Next]_vars => Typed'
  <1> SUFFICES ASSUME Typed, [Next]_vars
               PROVE  Typed'
    OBVIOUS
  <1> DEFINE Rest == /\ scenario' \in Scenarios /\ pick' \in Pick /\ unhealthy' \subseteq Backends
                     /\ snap' \in [Workers -> Pick \cup {NoBatch}]
                     /\ pinned' \in [Workers -> [Flows -> SUBSET Backends]]
                     /\ gone' \in [Workers -> SUBSET Backends]
  <1>1. ASSUME NEW f \in scenario.picks, Publish(f)
        PROVE  Rest
    BY <1>1, RewriterAssumption DEF Publish, history, Typed
  <1>2. ASSUME NEW b \in scenario.failing, SetHealth(b)
        PROVE  Rest
    <2>1. b \in Backends
      BY RewriterAssumption DEF Typed
    <2>2. unhealthy' \subseteq Backends
      BY <1>2, <2>1 DEF SetHealth, Typed
    <2>3. gone' \in [Workers -> SUBSET Backends]
      BY <1>2 DEF SetHealth, Typed
    <2>4. UNCHANGED <<scenario, pick, snap, pinned>>
      BY <1>2 DEF SetHealth
    <2> QED
      BY <2>2, <2>3, <2>4 DEF Typed
  <1>3. ASSUME Tick
        PROVE  Rest
    <2>1. UNCHANGED <<scenario, pick, unhealthy, snap, pinned, gone>>
      BY <1>3 DEF Tick
    <2> QED
      BY <2>1 DEF Typed
  <1>4. ASSUME NEW w \in Workers, BatchStart(w) \/ BatchEnd(w)
        PROVE  Rest
    BY <1>4 DEF BatchStart, BatchEnd, Typed
  <1>5. ASSUME NEW w \in Workers, NEW p \in scenario.packets, LaterFragment(w, p) \/ NoService(w, p)
        PROVE  Rest
    BY <1>5 DEF LaterFragment, NoService, history, Typed
  <1>6. ASSUME NEW w \in Workers, NEW p \in scenario.packets, Serve(w, p)
        PROVE  Rest
    <2>1. PICK b \in Backend(w, p) : pinned' = [pinned EXCEPT ![w][p.flow] = @ \cup {b}]
      BY <1>6 DEF Serve
    <2>2. b \in Backends
      BY <1>6, <2>1, BackendFacts DEF Serve, Has
    <2>3. p.flow \in Flows
      BY PacketFacts
    <2>4. pinned' \in [Workers -> [Flows -> SUBSET Backends]]
      BY <2>1, <2>2, <2>3 DEF Typed
    <2> QED
      BY <1>6, <2>4 DEF Serve, Typed
  <1>7. ASSUME UNCHANGED vars
        PROVE  Rest
    BY <1>7 DEF vars, history, Typed
  <1> HIDE DEF Rest
  <1>8. Rest
    BY <1>1, <1>2, <1>3, <1>4, <1>5, <1>6, <1>7 DEF Next, process_one
  <1> QED
    BY <1>8, TablesTyped DEF Typed, Rest

LEMMA TypedHolds == Spec => []Typed
  <1>1. Init => Typed
    BY TypedInit
  <1>2. Typed /\ [Next]_vars => Typed'
    BY TypedNext
  <1> QED
    BY <1>1, <1>2, PTL DEF Spec

-----------------------------------------------------------------------------
(***************************************************************************)
(* A worker's later fragments follow its first fragments.                  *)
(***************************************************************************)
LEMMA EmptyTable ==
    ASSUME NEW h, NEW t, t = [i \in FragSlots |-> Empty]
    PROVE  Entries(t, h) = {} /\ Occupied(t) = {}
  BY DEF Entries, Occupied

LEMMA FollowInit == Init => FollowInv
  <1> SUFFICES ASSUME Init, NEW w \in Workers, NEW h \in FragHashes
               PROVE  Follows(frag[w], h, latest[w][h])
    BY DEF FollowInv, AllFollow
  <1>1. frag[w] = [i \in FragSlots |-> Empty]
    BY DEF Init
  <1>2. Entries(frag[w], h) = {}
    BY <1>1, EmptyTable
  <1> QED
    BY <1>2 DEF Follows

LEMMA FollowNextState == Typed /\ FollowInv /\ [Next]_vars => FollowInv'
  <1> SUFFICES ASSUME Typed, FollowInv, [Next]_vars, NEW v \in Workers, "overflow" \notin damage'[v]
               PROVE  AllFollow(frag'[v], latest'[v])
    BY DEF FollowInv
  <1>1. /\ frag \in [Workers -> Table] /\ latest \in [Workers -> [FragHashes -> Mapping]]
        /\ damage \in [Workers -> SUBSET {"reclaim", "overflow"}]
    BY DEF Typed
  <1>2. "overflow" \notin damage[v] => AllFollow(frag[v], latest[v])
    BY DEF FollowInv
  <1>3. CASE TablesStay
    BY <1>2, <1>3 DEF TablesStay
  <1>4. CASE TablesAge
    <2>1. AllFollow(frag[v], latest[v])
      BY <1>2, <1>4 DEF TablesAge
    <2>2. frag[v] \in Table /\ latest[v] \in [FragHashes -> Mapping]
      BY <1>1
    <2>3. AllFollow(frag_age(frag[v], 1), AllOlder(latest[v]))
      BY <2>1, <2>2, TickFollows
    <2> QED
      BY <1>4, <2>3 DEF TablesAge
  <1>5. ASSUME NEW w \in Workers, NEW h \in FragHashes, NEW b \in Backends, Inserts(w, h, b)
        PROVE  AllFollow(frag'[v], latest'[v])
    <2>1. CASE v # w
      <3>1. frag'[v] = frag[v] /\ latest'[v] = latest[v] /\ damage'[v] = damage[v]
        BY <1>1, <1>5, <2>1 DEF Inserts
      <3> QED
        BY <1>2, <3>1
    <2>2. CASE v = w
      <3>1. /\ frag'[v] = frag_insert(frag[v], h, b) /\ latest'[v] = Inserted(latest[v], h, b)
            /\ damage'[v] = damage[v] \cup Damage(frag[v], h, b)
        BY <1>1, <1>5, <2>2 DEF Inserts
      <3>2. AllFollow(frag[v], latest[v])
        BY <1>2, <3>1
      <3>3. ~Overflows(frag[v], h, b)
        BY <3>1 DEF Damage
      <3>4. frag[v] \in Table /\ latest[v] \in [FragHashes -> Mapping]
        BY <1>1
      <3>5. AllFollow(frag_insert(frag[v], h, b), Inserted(latest[v], h, b))
        BY <3>2, <3>3, <3>4, InsertFollows
      <3> QED
        BY <3>1, <3>5
    <2> QED
      BY <2>1, <2>2
  <1> QED
    BY <1>3, <1>4, <1>5, TableSteps

\* get returns the entry nearest to its home, which is the latest mapping.
LEMMA FollowGives == Typed /\ FollowInv => FragmentsFollowFirst
  <1> SUFFICES ASSUME Typed, FollowInv, NEW w \in Workers, NEW h \in FragHashes,
                      "overflow" \notin damage[w], NEW b \in frag_get(frag[w], h)
               PROVE  b \in (IF Remembered(w, h) THEN {latest[w][h].backend_ip} ELSE {})
    BY DEF FragmentsFollowFirst
  <1> DEFINE t == frag[w]
             m == latest[w][h]
  <1>1. t \in Table /\ h \in Nat
    BY FragAssumption DEF Typed
  <1>2. Follows(t, h, m)
    BY DEF FollowInv, AllFollow
  <1> HIDE DEF m
  <1>3. PICK i \in FragFound(t, h) : ~FragExpired(t[i]) /\ b = t[i].backend_ip
    BY DEF frag_get
  <1>4. i \in Entries(t, h) /\ i \in FragSlots
    BY <1>3 DEF FragFound, Entries
  <1>5. ASSUME NEW j \in Entries(t, h), probe_distance(h, j) < probe_distance(h, i)
        PROVE  FALSE
    BY <1>3, <1>5 DEF FragFound, Entries
  <1>6. Agrees(t[i], m)
    BY <1>2, <1>3, <1>4, <1>5 DEF Follows
  <1>7. t[i].age \in Nat
    BY <1>1, <1>4, EntriesFacts
  <1>8. m.age <= FragTtl /\ b = m.backend_ip
    BY <1>3, <1>6, <1>7, FragAssumption DEF FragExpired, Agrees
  <1> QED
    BY <1>8 DEF Remembered, m

\* FragmentsFollowFirst: frag_table.get gives a later fragment the backend of
\* the latest first fragment with its 3-tuple, or none, for any capacity,
\* hashes and TTL, until an insert loses an entry for want of a slot.
THEOREM FragmentsFollow == Spec => []FragmentsFollowFirst
  <1>1. Init => FollowInv
    BY FollowInit
  <1>2. Typed /\ FollowInv /\ [Next]_vars => FollowInv'
    BY FollowNextState
  <1>3. Typed /\ FollowInv => FragmentsFollowFirst
    BY FollowGives
  <1> QED
    BY <1>1, <1>2, <1>3, TypedHolds, PTL DEF Spec

-----------------------------------------------------------------------------
(***************************************************************************)
(* A worker finds the mappings of its first fragments.                     *)
(***************************************************************************)
LEMMA FoundInit == Init => FoundInv
  <1> SUFFICES ASSUME Init, NEW w \in Workers
               PROVE  AllFound(frag[w], latest[w])
    BY DEF FoundInv
  <1>1. frag[w] = [i \in FragSlots |-> Empty]
    BY DEF Init
  <1>2. Occupied(frag[w]) = {}
    BY <1>1, EmptyTable
  <1>3. \A h \in FragHashes : latest[w][h].age = MaxAge
    BY DEF Init
  <1>4. \A h \in FragHashes : ~(latest[w][h].age <= FragTtl)
    BY <1>3, FragAssumption
  <1> QED
    BY <1>2, <1>4 DEF AllFound, Ordered, AgesAreLatest

LEMMA FoundNextState == Typed /\ FoundInv /\ [Next]_vars => FoundInv'
  <1> SUFFICES ASSUME Typed, FoundInv, [Next]_vars, NEW v \in Workers, damage'[v] = {}
               PROVE  AllFound(frag'[v], latest'[v])
    BY DEF FoundInv
  <1>1. /\ frag \in [Workers -> Table] /\ latest \in [Workers -> [FragHashes -> Mapping]]
        /\ damage \in [Workers -> SUBSET {"reclaim", "overflow"}]
    BY DEF Typed
  <1>2. damage[v] = {} => AllFound(frag[v], latest[v])
    BY DEF FoundInv
  <1>3. CASE TablesStay
    BY <1>2, <1>3 DEF TablesStay
  <1>4. CASE TablesAge
    <2>1. AllFound(frag[v], latest[v])
      BY <1>2, <1>4 DEF TablesAge
    <2>2. frag[v] \in Table /\ latest[v] \in [FragHashes -> Mapping]
      BY <1>1
    <2>3. AllFound(frag_age(frag[v], 1), AllOlder(latest[v]))
      BY <2>1, <2>2, TickFinds
    <2> QED
      BY <1>4, <2>3 DEF TablesAge
  <1>5. ASSUME NEW w \in Workers, NEW h \in FragHashes, NEW b \in Backends, Inserts(w, h, b)
        PROVE  AllFound(frag'[v], latest'[v])
    <2>1. CASE v # w
      <3>1. frag'[v] = frag[v] /\ latest'[v] = latest[v] /\ damage'[v] = damage[v]
        BY <1>1, <1>5, <2>1 DEF Inserts
      <3> QED
        BY <1>2, <3>1
    <2>2. CASE v = w
      <3>1. /\ frag'[v] = frag_insert(frag[v], h, b) /\ latest'[v] = Inserted(latest[v], h, b)
            /\ damage'[v] = damage[v] \cup Damage(frag[v], h, b)
        BY <1>1, <1>5, <2>2 DEF Inserts
      <3>2. AllFound(frag[v], latest[v])
        BY <1>2, <3>1
      <3>3. ~Overflows(frag[v], h, b) /\ ~Reclaims(frag[v], h, b)
        BY <3>1 DEF Damage
      <3>4. frag[v] \in Table /\ latest[v] \in [FragHashes -> Mapping]
        BY <1>1
      <3>5. AllFound(frag_insert(frag[v], h, b), Inserted(latest[v], h, b))
        BY <3>2, <3>3, <3>4, InsertFinds
      <3> QED
        BY <3>1, <3>5
    <2> QED
      BY <2>1, <2>2
  <1> QED
    BY <1>3, <1>4, <1>5, TableSteps

LEMMA FoundGives == Typed /\ FoundInv => FragmentsAreFound
  <1> SUFFICES ASSUME Typed, FoundInv, NEW w \in Workers, NEW h \in FragHashes,
                      damage[w] = {}, Remembered(w, h)
               PROVE  frag_get(frag[w], h) # {}
    BY DEF FragmentsAreFound
  <1> DEFINE t == frag[w]
             last == latest[w]
  <1>1. t \in Table /\ last \in [FragHashes -> Mapping]
    BY DEF Typed
  <1>2. AllFound(t, last)
    BY DEF FoundInv
  <1>3. last[h].age <= FragTtl /\ last[h].age \in Nat
    BY <1>1, FragAssumption DEF Remembered, Mapping
  <1> HIDE DEF t, last
  <1>4. Entries(t, h) # {}
    BY <1>2, <1>3 DEF AllFound
  <1>5. PICK i : i \in Entries(t, h)
    BY <1>4
  <1>6. i \in Occupied(t) /\ t[i].hash = h
    BY <1>5 DEF Entries, Occupied
  <1>7. t[i].age = last[h].age
    BY <1>2, <1>6 DEF AllFound, AgesAreLatest
  <1>8. i \in FragFound(t, h)
    BY <1>1, <1>2, <1>6, OrderedFinds DEF AllFound
  <1>9. ~FragExpired(t[i])
    BY <1>3, <1>7, FragAssumption DEF FragExpired
  <1> QED
    BY <1>8, <1>9 DEF frag_get, t

\* FragmentsAreFound: until an insert reclaims the expired slot of another
\* 3-tuple or meets a full table, get finds every mapping that insert left
\* within the TTL, wherever the Robin Hood swaps have moved it.
THEOREM FragmentsFound == Spec => []FragmentsAreFound
  <1>1. Init => FoundInv
    BY FoundInit
  <1>2. Typed /\ FoundInv /\ [Next]_vars => FoundInv'
    BY FoundNextState
  <1>3. Typed /\ FoundInv => FragmentsAreFound
    BY FoundGives
  <1> QED
    BY <1>1, <1>2, <1>3, TypedHolds, PTL DEF Spec

-----------------------------------------------------------------------------
(***************************************************************************)
(* What is out of service when a batch begins gets no flow of that batch.  *)
(***************************************************************************)
LEMMA DrainInit == Init => DrainInv
  BY DEF Init, DrainInv, UnhealthyIsDrained, NoOut

LEMMA DrainNext == Typed /\ DrainInv /\ [Next]_vars => DrainInv'
  <1> SUFFICES ASSUME Typed, DrainInv, [Next]_vars
               PROVE  DrainInv'
    OBVIOUS
  <1>0. /\ snap \in [Workers -> Pick \cup {NoBatch}] /\ gone \in [Workers -> SUBSET Backends]
        /\ unhealthy \subseteq Backends
        /\ \A w \in Workers : gone[w] \subseteq unhealthy
        /\ \A w \in Workers : snap[w] # NoBatch => gone[w] \cap Offered(snap[w]) = {}
    BY DEF Typed, DrainInv
  <1> DEFINE Kept == /\ \A w \in Workers : gone'[w] \subseteq unhealthy'
                     /\ \A w \in Workers : snap'[w] # NoBatch => gone'[w] \cap Offered(snap'[w]) = {}
             Told == out'.verdict = "forwarded" => out'.about \notin gone'[out'.worker]
  <1>1. ASSUME NEW f \in scenario.picks, Publish(f)
        PROVE  Kept /\ Told
    BY <1>0, <1>1 DEF Publish, NoOut, history
  <1>2. ASSUME NEW b \in scenario.failing, SetHealth(b)
        PROVE  Kept /\ Told
    <2>1. \A w \in Workers : gone'[w] = gone[w] \ {b} /\ snap'[w] = snap[w]
      BY <1>2 DEF SetHealth
    <2>2. \A x \in unhealthy : x # b => x \in unhealthy'
      BY <1>2 DEF SetHealth
    <2>3. Kept
      BY <1>0, <2>1, <2>2
    <2> QED
      BY <1>2, <2>3 DEF SetHealth, NoOut
  <1>3. ASSUME Tick
        PROVE  Kept /\ Told
    <2>1. UNCHANGED <<unhealthy, snap, gone>> /\ out' = NoOut
      BY <1>3 DEF Tick
    <2> QED
      BY <1>0, <2>1 DEF NoOut
  <1>4. ASSUME NEW w \in Workers, BatchStart(w) \/ BatchEnd(w)
        PROVE  Kept /\ Told
    <2>1. /\ UNCHANGED unhealthy /\ out' = NoOut
          /\ \A v \in Workers \ {w} : gone'[v] = gone[v] /\ snap'[v] = snap[v]
      BY <1>0, <1>4 DEF BatchStart, BatchEnd
    <2>2. \/ gone'[w] = {}
          \/ gone'[w] = unhealthy \ Offered(pick) /\ snap'[w] = pick
      BY <1>0, <1>4 DEF BatchStart, BatchEnd
    <2> QED
      BY <1>0, <2>1, <2>2 DEF NoOut
  <1>5. ASSUME NEW w \in Workers, NEW p \in scenario.packets, LaterFragment(w, p) \/ NoService(w, p)
        PROVE  Kept /\ Told
    <2>1. UNCHANGED <<unhealthy, snap, gone>>
      BY <1>5 DEF LaterFragment, NoService, history
    <2>2. out'.verdict # "forwarded" \/ (out'.worker = w /\ out'.about = NoBackend)
      BY <1>5 DEF LaterFragment, NoService, Outcome
    <2>3. NoBackend \notin gone[w]
      BY <1>0, RewriterAssumption
    <2> QED
      BY <1>0, <2>1, <2>2, <2>3
  <1>6. ASSUME NEW w \in Workers, NEW p \in scenario.packets, Serve(w, p)
        PROVE  Kept /\ Told
    <2>1. UNCHANGED <<unhealthy, snap, gone>> /\ snap[w] # NoBatch /\ snap[w][p.flow] # NoBackend
      BY <1>6 DEF Serve, Has
    <2>2. PICK b \in Backend(w, p) :
             out'.verdict # "forwarded" \/ (out'.worker = w /\ out'.about = b)
      BY <1>6 DEF Serve, Outcome
    <2>3. snap[w][p.flow] \in Offered(snap[w])
      BY <2>1, BackendFacts
    <2>4. b \notin gone[w]
      BY <1>0, <2>1, <2>2, <2>3 DEF Backend
    <2> QED
      BY <1>0, <2>1, <2>2, <2>4
  <1>7. ASSUME UNCHANGED vars
        PROVE  Kept /\ Told
    BY <1>0, <1>7 DEF vars, history, DrainInv, UnhealthyIsDrained
  <1> HIDE DEF Kept, Told
  <1>8. Kept /\ Told
    BY <1>1, <1>2, <1>3, <1>4, <1>5, <1>6, <1>7 DEF Next, process_one
  <1> QED
    BY <1>8 DEF DrainInv, UnhealthyIsDrained, Kept, Told

\* UnhealthyIsDrained: the batch's snapshot of the tables and the health map
\* read for each packet give no flow to a backend that was unhealthy and out
\* of the tables when the batch began, whatever is published meanwhile.
THEOREM DrainHolds == Spec => []UnhealthyIsDrained
  <1>1. Init => DrainInv
    BY DrainInit
  <1>2. Typed /\ DrainInv /\ [Next]_vars => DrainInv'
    BY DrainNext
  <1>3. DrainInv => UnhealthyIsDrained
    BY DEF DrainInv
  <1> QED
    BY <1>1, <1>2, <1>3, TypedHolds, PTL DEF Spec

-----------------------------------------------------------------------------
(***************************************************************************)
(* The ICMP limiter.  What was sent in the last second was sent in the     *)
(* present window, or in one window before it.                             *)
(***************************************************************************)
Limited(l, s) ==
    /\ l \in [count : 0 .. IcmpLimit, age : 0 .. MaxAge]
    /\ s \in [0 .. Second - 1 -> Nat]
    /\ \A a, b \in 0 .. Second - 1 : a <= b => s[a] <= s[b]
    /\ l.age < Second => s[l.age] <= l.count /\ s[Second - 1] <= s[l.age] + IcmpLimit
    /\ l.age >= Second => s[0] = 0 /\ s[Second - 1] <= IcmpLimit

LimitInv == /\ limiter = [w \in Workers |-> limiter[w]] /\ sent = [w \in Workers |-> sent[w]]
            /\ \A w \in Workers : Limited(limiter[w], sent[w])

\* A tick makes everything older; a window that has lasted a second ends.
LEMMA TickLimits ==
    ASSUME NEW l, NEW s, Limited(l, s)
    PROVE  Limited([l EXCEPT !.age = Aged(@, 1)],
                   [a \in 0 .. Second - 1 |-> IF a = 0 THEN 0 ELSE s[a - 1]])
  <1> DEFINE k == [l EXCEPT !.age = Aged(@, 1)]
             t == [a \in 0 .. Second - 1 |-> IF a = 0 THEN 0 ELSE s[a - 1]]
             N == Second - 1
  <1>1. /\ N \in Nat /\ Second = N + 1 /\ MaxAge \in Nat /\ Second <= MaxAge /\ IcmpLimit \in Nat
    BY RewriterAssumption, FragAssumption
  <1>2. /\ l.count \in Nat /\ l.count <= IcmpLimit /\ l.age \in Nat /\ l.age <= MaxAge
        /\ l \in [count : 0 .. IcmpLimit, age : 0 .. MaxAge]
        /\ s \in [0 .. N -> Nat]
        /\ \A a, b \in 0 .. N : a <= b => s[a] <= s[b]
        /\ l.age < Second => s[l.age] <= l.count /\ s[N] <= s[l.age] + IcmpLimit
        /\ l.age >= Second => s[0] = 0 /\ s[N] <= IcmpLimit
    BY DEF Limited
  <1>3. /\ k \in [count : 0 .. IcmpLimit, age : 0 .. MaxAge] /\ k.count = l.count
        /\ k.age = IF l.age + 1 > MaxAge THEN MaxAge ELSE l.age + 1
    <2>1. Aged(l.age, 1) \in 0 .. MaxAge
      BY <1>1, <1>2 DEF Aged
    <2> QED
      BY <1>2, <2>1 DEF Aged
  <1>4. t \in [0 .. N -> Nat] /\ t[0] = 0 /\ \A a \in 1 .. N : a - 1 \in 0 .. N /\ t[a] = s[a - 1]
    BY <1>1, <1>2, SMTT(30)
  <1> HIDE DEF k, t, N
  <1>5. ASSUME NEW a \in 0 .. N, NEW b \in 0 .. N, a <= b
        PROVE  t[a] <= t[b]
    <2>1. CASE a = 0
      BY <1>1, <1>4, <2>1
    <2>2. CASE a # 0
      <3>1. a \in 1 .. N /\ b \in 1 .. N /\ a - 1 <= b - 1
        BY <1>1, <1>5, <2>2
      <3> QED
        BY <1>2, <1>4, <3>1
    <2> QED
      BY <2>1, <2>2
  <1>6. \A a \in 0 .. N : t[a] \in Nat /\ t[a] <= s[a]
    <2>1. ASSUME NEW a \in 1 .. N PROVE t[a] <= s[a]
      <3>1. a - 1 \in 0 .. N /\ a \in 0 .. N /\ a - 1 <= a
        BY <1>1
      <3> QED
        BY <1>2, <1>4, <3>1
    <2>2. s[0] \in Nat
      BY <1>1, <1>2
    <2> QED
      BY <1>1, <1>4, <2>1, <2>2
  <1>7. 0 \in 0 .. N /\ N \in 0 .. N /\ s[N] \in Nat /\ t[N] \in Nat /\ t[N] <= s[N]
    BY <1>1, <1>2, <1>6
  <1>8. CASE l.age >= Second
    <2>1. k.age >= Second
      BY <1>1, <1>2, <1>3, <1>8
    <2> QED
      BY <1>1, <1>2, <1>3, <1>4, <1>5, <1>7, <1>8, <2>1, SMTT(30) DEF Limited, k, t, N
  <1>9. CASE l.age < Second /\ l.age = N
    <2>1. k.age = Second
      BY <1>1, <1>2, <1>3, <1>9
    <2>2. t[N] <= IcmpLimit
      BY <1>1, <1>2, <1>7, <1>9
    <2> QED
      BY <1>1, <1>3, <1>4, <1>5, <2>1, <2>2, SMTT(30) DEF Limited, k, t, N
  <1>10. CASE l.age < N
    <2>1. /\ k.age = l.age + 1 /\ k.age < Second /\ k.age \in 1 .. N /\ k.age - 1 = l.age
          /\ l.age < Second /\ l.age \in 0 .. N
      BY <1>1, <1>2, <1>3, <1>10, SMTT(30)
    <2>2. t[k.age] = s[l.age] /\ s[l.age] \in Nat
      BY <1>2, <1>4, <2>1
    <2>3. t[k.age] <= k.count /\ t[N] <= t[k.age] + IcmpLimit
      BY <1>1, <1>2, <1>3, <1>7, <2>1, <2>2, SMTT(30)
    <2> QED
      BY <1>1, <1>3, <1>4, <1>5, <2>1, <2>3, SMTT(30) DEF Limited, k, t, N
  <1> QED
    BY <1>1, <1>2, <1>8, <1>9, <1>10

\* A reply that the limiter allows is counted in the present window, or begins
\* a new one when that is over.
LEMMA ReplyLimits ==
    ASSUME NEW l, NEW s, Limited(l, s), allow(l)
    PROVE  Limited(Charge(l), [a \in 0 .. Second - 1 |-> s[a] + 1])
  <1> DEFINE k == Charge(l)
             t == [a \in 0 .. Second - 1 |-> s[a] + 1]
             N == Second - 1
  <1>1. /\ N \in Nat /\ Second = N + 1 /\ MaxAge \in Nat /\ Second <= MaxAge /\ IcmpLimit \in Nat
    BY RewriterAssumption, FragAssumption
  <1>2. /\ l.count \in Nat /\ l.count <= IcmpLimit /\ l.age \in Nat /\ l.age <= MaxAge
        /\ l \in [count : 0 .. IcmpLimit, age : 0 .. MaxAge]
        /\ s \in [0 .. N -> Nat]
        /\ \A a, b \in 0 .. N : a <= b => s[a] <= s[b]
        /\ l.age < Second => s[l.age] <= l.count /\ s[N] <= s[l.age] + IcmpLimit
        /\ l.age >= Second => s[0] = 0 /\ s[N] <= IcmpLimit
    BY DEF Limited
  <1>3. t \in [0 .. N -> Nat] /\ \A a \in 0 .. N : s[a] \in Nat /\ t[a] = s[a] + 1
    BY <1>2
  <1>4. 0 \in 0 .. N /\ N \in 0 .. N
    BY <1>1
  <1> HIDE DEF t, N
  <1>5. \A a, b \in 0 .. N : a <= b => t[a] <= t[b]
    <2> SUFFICES ASSUME NEW a \in 0 .. N, NEW b \in 0 .. N, a <= b PROVE t[a] <= t[b]
      OBVIOUS
    <2>1. s[a] <= s[b]
      BY <1>2
    <2> QED
      BY <1>3, <2>1
  <1>6. CASE l.age >= Second
    <2>1. k = [count |-> 1, age |-> 0] /\ 1 <= IcmpLimit
      <3>1. Window(l) = [count |-> 0, age |-> 0] /\ 0 < IcmpLimit
        BY <1>6 DEF allow, Window
      <3> QED
        BY <1>1, <3>1 DEF Charge
    <2> HIDE DEF k
    <2>2. t[0] <= 1 /\ t[N] <= t[0] + IcmpLimit
      BY <1>1, <1>2, <1>3, <1>4, <1>6
    <2>3. k \in [count : 0 .. IcmpLimit, age : 0 .. MaxAge] /\ k.count = 1 /\ k.age = 0 /\ k.age < Second
      BY <1>1, <2>1
    <2>4. Limited(k, t)
      BY <1>1, <1>3, <1>5, <2>2, <2>3, SMTT(30) DEF Limited, N
    <2> QED
      BY <2>4 DEF k, t
  <1>7. CASE l.age < Second
    <2>1. Window(l) = l /\ l.count < IcmpLimit
      BY <1>1, <1>2, <1>7 DEF allow, Window
    <2>2. k \in [count : 0 .. IcmpLimit, age : 0 .. MaxAge] /\ k.count = l.count + 1 /\ k.age = l.age
      <3>1. l.count + 1 \in 0 .. IcmpLimit
        BY <1>1, <1>2, <2>1
      <3> QED
        BY <1>2, <2>1, <3>1 DEF Charge
    <2> HIDE DEF k
    <2>3. l.age \in 0 .. N
      BY <1>1, <1>2, <1>7
    <2>4. t[k.age] <= k.count /\ t[N] <= t[k.age] + IcmpLimit
      BY <1>1, <1>2, <1>3, <1>4, <1>7, <2>2, <2>3, SMTT(30)
    <2>5. Limited(k, t)
      BY <1>1, <1>3, <1>5, <1>7, <2>2, <2>4, SMTT(30) DEF Limited, N
    <2> QED
      BY <2>5 DEF k, t
  <1> QED
    BY <1>1, <1>2, <1>6, <1>7

LEMMA LimitInit == Init => LimitInv
  <1> SUFFICES ASSUME Init PROVE LimitInv
    OBVIOUS
  <1>1. Second \in Nat \ {0} /\ MaxAge \in Nat /\ IcmpLimit \in Nat
    BY RewriterAssumption, FragAssumption
  <1>2. Limited([count |-> 0, age |-> 0], [a \in 0 .. Second - 1 |-> 0])
    BY <1>1 DEF Limited
  <1>3. /\ limiter = [w \in Workers |-> [count |-> 0, age |-> 0]]
        /\ sent = [w \in Workers |-> [a \in 0 .. Second - 1 |-> 0]]
    BY DEF Init
  <1> QED
    BY <1>2, <1>3 DEF LimitInv

LEMMA LimitNext == LimitInv /\ [Next]_vars => LimitInv'
  <1> SUFFICES ASSUME LimitInv, [Next]_vars PROVE LimitInv'
    OBVIOUS
  <1>0. /\ limiter = [w \in Workers |-> limiter[w]] /\ sent = [w \in Workers |-> sent[w]]
        /\ \A w \in Workers : Limited(limiter[w], sent[w])
    BY DEF LimitInv
  <1>1. CASE UNCHANGED <<limiter, sent>>
    BY <1>0, <1>1 DEF LimitInv
  <1>2. CASE Tick
    <2>1. /\ limiter' = [w \in Workers |-> [limiter[w] EXCEPT !.age = Aged(@, 1)]]
          /\ sent' = [w \in Workers |-> [a \in 0 .. Second - 1 |-> IF a = 0 THEN 0 ELSE sent[w][a - 1]]]
      BY <1>2 DEF Tick
    <2>2. ASSUME NEW w \in Workers PROVE Limited(limiter'[w], sent'[w])
      <3>1. Limited([limiter[w] EXCEPT !.age = Aged(@, 1)],
                    [a \in 0 .. Second - 1 |-> IF a = 0 THEN 0 ELSE sent[w][a - 1]])
        BY <1>0, TickLimits
      <3> QED
        BY <2>1, <3>1
    <2>3. limiter' = [w \in Workers |-> limiter'[w]] /\ sent' = [w \in Workers |-> sent'[w]]
      BY <2>1
    <2> QED
      BY <2>2, <2>3 DEF LimitInv
  <1>3. ASSUME NEW w \in Workers, Oversized(w)
        PROVE  LimitInv'
    <2>1. CASE allow(limiter[w])
      <3> DEFINE k == Charge(limiter[w])
                 t == [a \in 0 .. Second - 1 |-> sent[w][a] + 1]
      <3>1. limiter' = [limiter EXCEPT ![w] = k] /\ sent' = [sent EXCEPT ![w] = t]
        BY <1>3, <2>1, Zenon DEF Oversized
      <3>2. Limited(k, t)
        BY <1>0, <2>1, ReplyLimits
      <3> HIDE DEF k, t
      <3>3. \A v \in Workers : Limited(limiter'[v], sent'[v])
        BY <1>0, <3>1, <3>2
      <3>4. limiter' = [v \in Workers |-> limiter'[v]] /\ sent' = [v \in Workers |-> sent'[v]]
        BY <1>0, <3>1
      <3> QED
        BY <3>3, <3>4 DEF LimitInv
    <2>2. CASE ~allow(limiter[w])
      <3>1. /\ limiter' = [limiter EXCEPT ![w] = IF IcmpLimit = 0 THEN @ ELSE Window(@)]
            /\ UNCHANGED sent
        BY <1>3, <2>2 DEF Oversized
      <3>2. IcmpLimit = 0 \/ Window(limiter[w]) = limiter[w]
        <4>1. IcmpLimit \in Nat
          BY RewriterAssumption
        <4> QED
          BY <2>2, <4>1 DEF allow, Window
      <3>3. limiter' = limiter
        BY <1>0, <3>1, <3>2
      <3> QED
        BY <1>1, <3>1, <3>3
    <2> QED
      BY <2>1, <2>2
  <1>4. ASSUME NEW w \in Workers, NEW p \in scenario.packets, process_one(w, p)
        PROVE  LimitInv'
    <2>1. Oversized(w) \/ UNCHANGED <<limiter, sent>>
      BY <1>4 DEF process_one, LaterFragment, NoService, Serve, history
    <2> QED
      BY <1>1, <1>3, <2>1
  <1>5. ASSUME NEW w \in Workers, BatchStart(w) \/ BatchEnd(w)
        PROVE  UNCHANGED <<limiter, sent>>
    BY <1>5 DEF BatchStart, BatchEnd
  <1>6. ASSUME NEW f, Publish(f)
        PROVE  UNCHANGED <<limiter, sent>>
    BY <1>6 DEF Publish, history
  <1>7. ASSUME NEW b, SetHealth(b)
        PROVE  UNCHANGED <<limiter, sent>>
    BY <1>7 DEF SetHealth
  <1> QED
    BY <1>1, <1>2, <1>4, <1>5, <1>6, <1>7 DEF Next, vars, history

\* IcmpBounded: for any rate limit and any traffic, a worker's limiter, whose
\* windows begin when a reply is asked for, lets no more than twice the limit
\* through in any second.
THEOREM RepliesAreBounded == Spec => []IcmpBounded
  <1>1. LimitInv => IcmpBounded
    <2> SUFFICES ASSUME LimitInv, NEW w \in Workers
                 PROVE  sent[w][Second - 1] <= 2 * IcmpLimit
      BY DEF IcmpBounded
    <2>1. Limited(limiter[w], sent[w])
      BY DEF LimitInv
    <2>2. /\ Second - 1 \in 0 .. Second - 1 /\ IcmpLimit \in Nat /\ MaxAge \in Nat
          /\ Second \in Nat
      BY RewriterAssumption, FragAssumption
    <2>3. sent[w][Second - 1] \in Nat /\ limiter[w].age \in Nat /\ limiter[w].count \in 0 .. IcmpLimit
      BY <2>1, <2>2 DEF Limited
    <2>4. CASE limiter[w].age < Second
      <3>1. limiter[w].age \in 0 .. Second - 1
        BY <2>2, <2>3, <2>4
      <3>2. sent[w][limiter[w].age] \in Nat
        BY <2>1, <3>1 DEF Limited
      <3>3. /\ sent[w][limiter[w].age] <= limiter[w].count
            /\ sent[w][Second - 1] <= sent[w][limiter[w].age] + IcmpLimit
        BY <2>1, <2>4 DEF Limited
      <3> QED
        BY <2>2, <2>3, <3>2, <3>3
    <2>5. CASE limiter[w].age >= Second
      BY <2>1, <2>2, <2>3, <2>5 DEF Limited
    <2> QED
      BY <2>2, <2>3, <2>4, <2>5
  <1> QED
    BY <1>1, LimitInit, LimitNext, PTL DEF Spec

-----------------------------------------------------------------------------
(***************************************************************************)
(* The types: those the tables' proofs rest on, the limiter's and the      *)
(* outcome's.                                                              *)
(***************************************************************************)
Verdicts == {"none", "no_mapping", "forwarded", "dropped", "icmp", "limited"}
VerdictInv == out.verdict \in Verdicts

LEMMA VerdictNext == VerdictInv /\ [Next]_vars => VerdictInv'
  <1> SUFFICES ASSUME out.verdict \in Verdicts, [Next]_vars
               PROVE  out'.verdict \in Verdicts
    BY DEF VerdictInv
  <1>1. NoOut.verdict \in Verdicts
    BY DEF NoOut, Verdicts
  <1>2. \A w, v, b : Outcome(w, v, b).verdict = v
    BY DEF Outcome
  <1>3. \A p, b : gre_encap_to(p, b) \in Verdicts
    BY DEF gre_encap_to, Verdicts
  <1>4. CASE out' = NoOut
    BY <1>1, <1>4
  <1>5. ASSUME NEW w \in Workers, NEW p, LaterFragment(w, p)
        PROVE  out'.verdict \in Verdicts
    <2>1. PICK v : v \in Verdicts /\ \E b : out' = Outcome(w, v, b)
      BY <1>3, <1>5 DEF LaterFragment, Verdicts
    <2> QED
      BY <1>2, <2>1
  <1>6. ASSUME NEW w \in Workers, NEW p, NoService(w, p)
        PROVE  out'.verdict \in Verdicts
    BY <1>2, <1>6 DEF NoService, Verdicts
  <1>7. ASSUME NEW w \in Workers, NEW p, Serve(w, p)
        PROVE  out'.verdict \in Verdicts
    <2>1. PICK b : \/ out' = Outcome(w, IF allow(limiter[w]) THEN "icmp" ELSE "limited", NoBackend)
                   \/ out' = Outcome(w, gre_encap_to(p, b), b)
      BY <1>7, Zenon DEF Serve
    <2>2. (IF allow(limiter[w]) THEN "icmp" ELSE "limited") \in Verdicts
      BY DEF Verdicts
    <2> QED
      BY <1>2, <1>3, <2>1, <2>2
  <1>8. CASE UNCHANGED vars
    BY <1>8 DEF vars
  <1>9. CASE Next
    BY <1>4, <1>5, <1>6, <1>7, <1>9
       DEF Next, Publish, SetHealth, Tick, BatchStart, BatchEnd, process_one
  <1> QED
    BY <1>8, <1>9

\* TypeOK: whatever packets come and whatever the controller publishes, each
\* worker's tables contain entries and its limiter counts within its limits.
THEOREM TypesHold == Spec => []TypeOK
  <1>1. Init => VerdictInv
    BY DEF Init, NoOut, Verdicts, VerdictInv
  <1>2. Typed /\ LimitInv /\ VerdictInv => TypeOK
    <2> SUFFICES ASSUME Typed, LimitInv, VerdictInv
                 PROVE  TypeOK
      OBVIOUS
    <2>1. limiter \in [Workers -> [count : 0 .. IcmpLimit, age : 0 .. MaxAge]]
      BY DEF LimitInv, Limited
    <2> QED
      BY <2>1 DEF Typed, TypeOK, Table, Verdicts, VerdictInv
  <1> QED
    BY <1>1, <1>2, LimitInit, LimitNext, TypedHolds, VerdictNext, PTL DEF Spec
=============================================================================
