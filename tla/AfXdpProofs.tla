---------------------------- MODULE AfXdpProofs ----------------------------
(***************************************************************************)
(* Proofs about AfXdp, for any configurations, batch size, packets and     *)
(* headroom: the socket and its thread implement UmemOwnership, no packet  *)
(* is overwritten while it is needed, frames are lost only where there are *)
(* more of them than ring slots, and only a failed wake stalls TX.         *)
(***************************************************************************)
EXTENDS AfXdp, FiniteSetTheorems, SequenceTheorems, TLAPS

-----------------------------------------------------------------------------
(***************************************************************************)
(* Sequences.                                                              *)
(***************************************************************************)
Elems(s)    == {s[i] : i \in DOMAIN s}
Distinct(s) == \A i, j \in DOMAIN s : s[i] = s[j] => i = j

\* The frames of a sequence of addresses, for frames of size z.
Index(z, s) == [i \in DOMAIN s |-> s[i] \div z]

LEMMA MappedSeq ==
    ASSUME NEW S, NEW T, NEW s \in Seq(S), NEW t, t = [i \in DOMAIN s |-> t[i]],
           \A i \in DOMAIN s : t[i] \in T
    PROVE  t \in Seq(T) /\ Len(t) = Len(s) /\ DOMAIN t = DOMAIN s
  <1>1. DOMAIN s = 1 .. Len(s) /\ Len(s) \in Nat
    BY LenProperties
  <1>2. t \in [1 .. Len(s) -> T]
    BY <1>1
  <1>3. t \in Seq(T)
    BY <1>1, <1>2, SeqDef
  <1> QED
    BY <1>1, <1>2, <1>3, LenProperties

LEMMA TakeDrop ==
    ASSUME NEW S, NEW s \in Seq(S), NEW n \in Nat
    PROVE  /\ Take(s, n) \in Seq(S) /\ Drop(s, n) \in Seq(S)
           /\ Len(Take(s, n)) = Min2(n, Len(s)) /\ Len(Drop(s, n)) = Len(s) - Min2(n, Len(s))
           /\ \A i \in DOMAIN Take(s, n) : i \in DOMAIN s /\ Take(s, n)[i] = s[i]
           /\ \A i \in DOMAIN Drop(s, n) : /\ Min2(n, Len(s)) + i \in DOMAIN s
                                           /\ Drop(s, n)[i] = s[Min2(n, Len(s)) + i]
  <1> DEFINE m == Min2(n, Len(s))
             t == SubSeq(s, 1, m)
             d == SubSeq(s, m + 1, Len(s))
  <1>1. /\ Len(s) \in Nat /\ m \in Nat /\ m <= Len(s)
        /\ DOMAIN s = 1 .. Len(s) /\ \A i \in 1 .. Len(s) : s[i] \in S
    BY LenProperties DEF Min2
  <1>2. Take(s, n) = t /\ Drop(s, n) = d
    BY DEF Take, Drop
  <1> HIDE DEF m
  <1>3. /\ t \in Seq(S) /\ Len(t) = IF 1 <= m THEN m - 1 + 1 ELSE 0
        /\ \A i \in 1 .. (m - 1 + 1) : t[i] = s[1 + i - 1]
    BY <1>1, SubSeqProperties
  <1>4. /\ d \in Seq(S) /\ Len(d) = IF m + 1 <= Len(s) THEN Len(s) - (m + 1) + 1 ELSE 0
        /\ \A i \in 1 .. (Len(s) - (m + 1) + 1) : d[i] = s[m + 1 + i - 1]
    BY <1>1, SubSeqProperties
  <1> HIDE DEF t, d
  <1>5. Len(t) = m /\ Len(d) = Len(s) - m
    <2>1. Len(t) = IF 1 <= m THEN m - 1 + 1 ELSE 0
      BY <1>3
    <2>2. Len(d) = IF m + 1 <= Len(s) THEN Len(s) - (m + 1) + 1 ELSE 0
      BY <1>4
    <2>3. Len(s) \in Nat /\ m \in Nat /\ m <= Len(s)
      BY <1>1
    <2> QED
      BY <2>1, <2>2, <2>3
  <1>6. DOMAIN t = 1 .. m /\ DOMAIN d = 1 .. (Len(s) - m)
    BY <1>3, <1>4, <1>5, LenProperties
  <1>7. ASSUME NEW i \in DOMAIN t
        PROVE  i \in DOMAIN s /\ t[i] = s[i]
    <2>1. i \in 1 .. (m - 1 + 1) /\ i \in 1 .. Len(s) /\ 1 + i - 1 = i
      BY <1>1, <1>6
    <2>2. t[i] = s[1 + i - 1]
      BY <1>3, <2>1
    <2> QED
      BY <1>1, <2>1, <2>2
  <1>8. ASSUME NEW i \in DOMAIN d
        PROVE  m + i \in DOMAIN s /\ d[i] = s[m + i]
    <2>1. i \in 1 .. (Len(s) - (m + 1) + 1) /\ m + i \in 1 .. Len(s) /\ m + 1 + i - 1 = m + i
      BY <1>1, <1>6
    <2>2. d[i] = s[m + 1 + i - 1]
      BY <1>4, <2>1
    <2> QED
      BY <1>1, <2>1, <2>2
  <1> QED
    BY <1>2, <1>3, <1>4, <1>5, <1>7, <1>8 DEF m

LEMMA TakeDropConcat ==
    ASSUME NEW S, NEW s \in Seq(S), NEW n \in Nat
    PROVE  Take(s, n) \o Drop(s, n) = s
  <1> DEFINE t == Take(s, n)
             d == Drop(s, n)
             m == Min2(n, Len(s))
  <1>1. /\ t \in Seq(S) /\ d \in Seq(S) /\ Len(t) = m /\ Len(d) = Len(s) - m
        /\ \A i \in DOMAIN t : t[i] = s[i]
        /\ \A i \in DOMAIN d : d[i] = s[m + i]
    BY TakeDrop
  <1>2. Len(s) \in Nat /\ m \in Nat /\ m <= Len(s)
    BY LenProperties DEF Min2
  <1> HIDE DEF t, d, m
  <1>3. DOMAIN t = 1 .. m /\ DOMAIN d = 1 .. (Len(s) - m)
    BY <1>1, LenProperties
  <1>4. /\ t \o d \in Seq(S) /\ Len(t \o d) = Len(t) + Len(d)
        /\ \A i \in 1 .. (Len(t) + Len(d)) : (t \o d)[i] = IF i <= Len(t) THEN t[i] ELSE d[i - Len(t)]
    BY <1>1, ConcatProperties
  <1>5. ASSUME NEW i \in 1 .. Len(s)
        PROVE  (t \o d)[i] = s[i]
    <2>1. (t \o d)[i] = IF i <= m THEN t[i] ELSE d[i - m]
      BY <1>1, <1>2, <1>4
    <2>2. CASE i <= m
      BY <1>1, <1>3, <2>1, <2>2
    <2>3. CASE i > m
      <3>1. i - m \in DOMAIN d /\ m + (i - m) = i
        BY <1>2, <1>3, <2>3
      <3> QED
        BY <1>1, <1>2, <2>1, <2>3, <3>1
    <2>4. i <= m \/ i > m
      BY <1>2
    <2> QED
      BY <2>2, <2>3, <2>4
  <1>6. Len(t \o d) = Len(s)
    BY <1>1, <1>2, <1>4
  <1>7. t \o d = s
    BY <1>4, <1>5, <1>6, SeqEqual
  <1> QED
    BY <1>7 DEF t, d

LEMMA ConcatElems ==
    ASSUME NEW S, NEW s \in Seq(S), NEW t \in Seq(S)
    PROVE  /\ Elems(s \o t) = Elems(s) \cup Elems(t)
           /\ Distinct(s \o t) <=> /\ Distinct(s) /\ Distinct(t)
                                   /\ Elems(s) \cap Elems(t) = {}
           /\ s \o t \in Seq(S) /\ Len(s \o t) = Len(s) + Len(t)
  <1> DEFINE u == s \o t
  <1>1. /\ DOMAIN s = 1 .. Len(s) /\ DOMAIN t = 1 .. Len(t)
        /\ Len(s) \in Nat /\ Len(t) \in Nat
    BY LenProperties
  <1>2. /\ u \in Seq(S) /\ Len(u) = Len(s) + Len(t)
        /\ \A i \in 1 .. (Len(s) + Len(t)) : u[i] = IF i <= Len(s) THEN s[i] ELSE t[i - Len(s)]
    BY ConcatProperties
  <1> HIDE DEF u
  <1>3. DOMAIN u = 1 .. (Len(s) + Len(t))
    BY <1>2, LenProperties
  <1>4. /\ \A i \in DOMAIN s : i \in DOMAIN u /\ u[i] = s[i]
        /\ \A i \in DOMAIN t : i + Len(s) \in DOMAIN u /\ u[i + Len(s)] = t[i]
    BY <1>1, <1>2, <1>3
  <1>5. \A k \in DOMAIN u : \/ k \in DOMAIN s /\ u[k] = s[k]
                            \/ k - Len(s) \in DOMAIN t /\ u[k] = t[k - Len(s)]
    BY <1>1, <1>2, <1>3
  <1>6. Elems(u) = Elems(s) \cup Elems(t)
    BY <1>4, <1>5 DEF Elems
  <1>7. ASSUME Distinct(u)
        PROVE  Distinct(s) /\ Distinct(t) /\ Elems(s) \cap Elems(t) = {}
    <2>1. Distinct(s)
      BY <1>4, <1>7 DEF Distinct
    <2>2. Distinct(t)
      <3> SUFFICES ASSUME NEW i \in DOMAIN t, NEW j \in DOMAIN t, t[i] = t[j]
                   PROVE  i = j
        BY DEF Distinct
      <3>1. i + Len(s) = j + Len(s)
        BY <1>4, <1>7 DEF Distinct
      <3> QED
        BY <1>1, <3>1
    <2>3. ASSUME NEW i \in DOMAIN s, NEW j \in DOMAIN t, s[i] = t[j]
          PROVE  FALSE
      <3>1. i = j + Len(s)
        BY <1>4, <1>7, <2>3 DEF Distinct
      <3> QED
        BY <1>1, <3>1
    <2> QED
      BY <2>1, <2>2, <2>3 DEF Elems
  <1>8. ASSUME Distinct(s), Distinct(t), Elems(s) \cap Elems(t) = {}
        PROVE  Distinct(u)
    <2> SUFFICES ASSUME NEW i \in DOMAIN u, NEW j \in DOMAIN u, u[i] = u[j]
                 PROVE  i = j
      BY DEF Distinct
    <2>1. CASE i \in DOMAIN s /\ u[i] = s[i] /\ j \in DOMAIN s /\ u[j] = s[j]
      BY <1>8, <2>1 DEF Distinct
    <2>2. CASE /\ i - Len(s) \in DOMAIN t /\ u[i] = t[i - Len(s)]
               /\ j - Len(s) \in DOMAIN t /\ u[j] = t[j - Len(s)]
      <3>1. i - Len(s) = j - Len(s)
        BY <1>8, <2>2 DEF Distinct
      <3> QED
        BY <1>1, <1>3, <3>1
    <2>3. ASSUME NEW a \in DOMAIN s, NEW b \in DOMAIN t
          PROVE  s[a] # t[b]
      BY <1>8 DEF Elems
    <2> QED
      BY <1>5, <2>1, <2>2, <2>3
  <1> QED
    BY <1>2, <1>6, <1>7, <1>8 DEF u

LEMMA IndexType ==
    ASSUME NEW z \in Nat \ {0}, NEW s \in Seq(Nat)
    PROVE  /\ Index(z, s) \in Seq(Nat) /\ Len(Index(z, s)) = Len(s)
           /\ DOMAIN Index(z, s) = DOMAIN s
           /\ \A i \in DOMAIN s : Index(z, s)[i] = s[i] \div z
  <1>1. \A i \in DOMAIN s : s[i] \in Nat
    BY LenProperties
  <1>2. \A n \in Nat : n \div z \in Nat
    OBVIOUS
  <1>3. \A i \in DOMAIN s : Index(z, s)[i] \in Nat
    BY <1>1, <1>2 DEF Index
  <1>4. Index(z, s) = [i \in DOMAIN s |-> Index(z, s)[i]]
    BY DEF Index
  <1> QED
    BY <1>3, <1>4, MappedSeq, SMTT(30) DEF Index

\* c holds what a and b hold, and each element once if they do.
Splits(c, a, b) ==
    /\ a \in Seq(Nat) /\ b \in Seq(Nat) /\ c \in Seq(Nat)
    /\ Elems(c) = Elems(a) \cup Elems(b)
    /\ Distinct(c) <=> Distinct(a) /\ Distinct(b) /\ Elems(a) \cap Elems(b) = {}
    /\ Len(c) = Len(a) + Len(b)

LEMMA ConcatSplits ==
    ASSUME NEW s \in Seq(Nat), NEW t \in Seq(Nat), NEW u, u = s \o t
    PROVE  Splits(u, s, t)
  BY ConcatElems DEF Splits

\* What the operations on a ring do to its frames.
LEMMA IndexSplits ==
    ASSUME NEW z \in Nat \ {0}, NEW s \in Seq(Nat), NEW t \in Seq(Nat), NEW u, u = s \o t
    PROVE  /\ u \in Seq(Nat)
           /\ Splits(Index(z, u), Index(z, s), Index(z, t))
  <1> DEFINE a == Index(z, s)
             b == Index(z, t)
             v == a \o b
  <1>1. /\ u \in Seq(Nat) /\ Len(u) = Len(s) + Len(t)
        /\ \A i \in 1 .. (Len(s) + Len(t)) : u[i] = IF i <= Len(s) THEN s[i] ELSE t[i - Len(s)]
    BY ConcatProperties
  <1>2. /\ a \in Seq(Nat) /\ Len(a) = Len(s) /\ b \in Seq(Nat) /\ Len(b) = Len(t)
        /\ \A i \in DOMAIN s : a[i] = s[i] \div z
        /\ \A i \in DOMAIN t : b[i] = t[i] \div z
    BY IndexType
  <1>3. /\ DOMAIN s = 1 .. Len(s) /\ DOMAIN t = 1 .. Len(t) /\ Len(s) \in Nat /\ Len(t) \in Nat
    BY LenProperties
  <1> HIDE DEF a, b
  <1>4. /\ v \in Seq(Nat) /\ Len(v) = Len(a) + Len(b)
        /\ \A i \in 1 .. (Len(a) + Len(b)) : v[i] = IF i <= Len(a) THEN a[i] ELSE b[i - Len(a)]
    BY <1>2, ConcatProperties, ZenonT(30)
  <1>5. /\ Index(z, u) \in Seq(Nat) /\ Len(Index(z, u)) = Len(u)
        /\ \A i \in DOMAIN u : Index(z, u)[i] = u[i] \div z
        /\ DOMAIN u = 1 .. Len(u)
    BY <1>1, IndexType, LenProperties
  <1> HIDE DEF v
  <1>6. ASSUME NEW i \in 1 .. (Len(s) + Len(t))
        PROVE  Index(z, u)[i] = v[i]
    <2>1. CASE i <= Len(s)
      <3>1. i \in DOMAIN s /\ v[i] = a[i] /\ u[i] = s[i]
        BY <1>1, <1>2, <1>3, <1>4, <2>1
      <3> QED
        BY <1>1, <1>2, <1>5, <3>1
    <2>2. CASE ~(i <= Len(s))
      <3>1. i - Len(s) \in DOMAIN t
        BY <1>3, <2>2
      <3>2. v[i] = b[i - Len(s)] /\ u[i] = t[i - Len(s)]
        BY <1>1, <1>2, <1>4, <2>2
      <3> QED
        BY <1>1, <1>2, <1>5, <3>1, <3>2
    <2> QED
      BY <2>1, <2>2
  <1>7. Index(z, u) = v
    <2>1. Len(Index(z, u)) = Len(v) /\ \A i \in 1 .. Len(Index(z, u)) : Index(z, u)[i] = v[i]
      BY <1>1, <1>2, <1>4, <1>5, <1>6
    <2> QED
      BY <1>4, <1>5, <2>1, SeqEqual
  <1>8. Splits(v, a, b)
    BY <1>2, ConcatSplits DEF v
  <1> QED
    BY <1>1, <1>7, <1>8 DEF a, b

LEMMA TakeSplits ==
    ASSUME NEW s \in Seq(Nat), NEW n \in Nat
    PROVE  /\ Take(s, n) \in Seq(Nat) /\ Drop(s, n) \in Seq(Nat)
           /\ Splits(s, Take(s, n), Drop(s, n))
           /\ \A z \in Nat \ {0} : Splits(Index(z, s), Index(z, Take(s, n)), Index(z, Drop(s, n)))
  <1>1. Take(s, n) \in Seq(Nat) /\ Drop(s, n) \in Seq(Nat)
    BY TakeDrop
  <1>2. s = Take(s, n) \o Drop(s, n)
    BY TakeDropConcat
  <1>3. Splits(s, Take(s, n), Drop(s, n))
    BY <1>1, <1>2, ConcatSplits
  <1>4. ASSUME NEW z \in Nat \ {0}
        PROVE  Splits(Index(z, s), Index(z, Take(s, n)), Index(z, Drop(s, n)))
    BY <1>1, <1>2, IndexSplits
  <1> QED
    BY <1>1, <1>3, <1>4

One(x) == <<x>>

LEMMA IndexOne ==
    ASSUME NEW z \in Nat \ {0}, NEW e \in Nat, NEW s, s = <<e>>
    PROVE  s \in Seq(Nat) /\ Index(z, s) = One(e \div z)
  <1>1. s \in Seq(Nat) /\ Len(s) = 1 /\ s[1] = e
    OBVIOUS
  <1>2. DOMAIN s = {1}
    <2>1. 1 .. 1 = {1}
      OBVIOUS
    <2> QED
      BY <1>1, <2>1, LenProperties
  <1>3. Index(z, s) = [i \in {1} |-> e \div z]
    BY <1>1, <1>2 DEF Index
  <1>4. DOMAIN One(e \div z) = {1} /\ One(e \div z)[1] = e \div z
    <2>1. 1 .. 1 = {1}
      OBVIOUS
    <2> QED
      BY <2>1 DEF One
  <1>5. One(e \div z) = [i \in {1} |-> e \div z]
    BY <1>4 DEF One
  <1> QED
    BY <1>1, <1>3, <1>5

LEMMA IndexAppend ==
    ASSUME NEW z \in Nat \ {0}, NEW s \in Seq(Nat), NEW e \in Nat
    PROVE  /\ Append(s, e) \in Seq(Nat)
           /\ Splits(Index(z, Append(s, e)), Index(z, s), One(e \div z))
  <1> DEFINE o == <<e>>
  <1>1. Append(s, e) = s \o o
    BY AppendIsConcat
  <1>2. o \in Seq(Nat) /\ Index(z, o) = One(e \div z)
    BY IndexOne
  <1> HIDE DEF o
  <1>3. Append(s, e) \in Seq(Nat) /\ Splits(Index(z, Append(s, e)), Index(z, s), Index(z, o))
    BY <1>1, <1>2, IndexSplits
  <1> QED
    BY <1>2, <1>3

LEMMA IndexTail ==
    ASSUME NEW z \in Nat \ {0}, NEW s \in Seq(Nat), s # <<>>
    PROVE  /\ Head(s) \in Nat /\ Tail(s) \in Seq(Nat)
           /\ Splits(Index(z, s), One(Head(s) \div z), Index(z, Tail(s)))
  <1> DEFINE o == <<Head(s)>>
  <1>1. Head(s) \in Nat /\ Tail(s) \in Seq(Nat) /\ s = o \o Tail(s)
    OBVIOUS
  <1>2. o \in Seq(Nat) /\ Index(z, o) = One(Head(s) \div z)
    BY <1>1, IndexOne
  <1> HIDE DEF o
  <1>3. Splits(Index(z, s), Index(z, o), Index(z, Tail(s)))
    BY <1>1, <1>2, IndexSplits
  <1> QED
    BY <1>1, <1>2, <1>3

LEMMA EmptyLen ==
    ASSUME NEW S, NEW s \in Seq(S)
    PROVE  Len(s) \in Nat /\ (s = <<>> <=> Len(s) = 0)
  OBVIOUS

LEMMA EmptySplits ==
    ASSUME NEW z \in Nat \ {0}, NEW s \in Seq(Nat), NEW e, e = <<>>
    PROVE  /\ e \in Seq(Nat) /\ Len(e) = 0 /\ Index(z, e) = e
           /\ Splits(s, s, e) /\ Splits(s, e, s)
  <1>1. e \in Seq(Nat) /\ Len(e) = 0 /\ DOMAIN e = {}
    BY LenProperties
  <1>2. Index(z, e) = e
    <2>1. Index(z, e) \in Seq(Nat) /\ Len(Index(z, e)) = 0
      BY <1>1, IndexType
    <2> QED
      BY <2>1, EmptyLen
  <1>3. Elems(e) = {} /\ Distinct(e) /\ Len(s) \in Nat
    BY <1>1, LenProperties DEF Elems, Distinct
  <1> QED
    BY <1>1, <1>2, <1>3 DEF Splits

\* One list, from p to p2, hands some of its frames to another, from q to q2.
Moves(p, p2, q, q2) == \E x : Splits(p, x, p2) /\ Splits(q2, q, x)

\* The same, and what the other does not take is gone.
Sheds(p, p2, q, q2) == \E x, y : Splits(p, x, y) /\ Splits(q2, q, x) /\ p2 = <<>>

LEMMA TakeAll ==
    ASSUME NEW S, NEW s \in Seq(S), NEW n \in Nat, Len(s) <= n
    PROVE  Take(s, n) = s
  <1> DEFINE m == Min2(n, Len(s))
  <1>1. Len(s) \in Nat
    BY LenProperties
  <1>2. m = Len(s)
    BY <1>1 DEF Min2
  <1>3. Take(s, n) = SubSeq(s, 1, Len(s))
    BY <1>2 DEF Take
  <1>4. SubSeq(s, 1, Len(s)) = s
    OBVIOUS
  <1> QED
    BY <1>3, <1>4

-----------------------------------------------------------------------------
(***************************************************************************)
(* The inductive invariant about where the thread is and how many frames   *)
(* each list has: the RX lists share the slots of FILL, and the TX lists   *)
(* the frames that are left, all of them unless there are more than slots. *)
(***************************************************************************)
Addrs(s) == s \in Seq(Nat)

ListsTyped ==
    /\ cfg \in Configs
    /\ Addrs(fill) /\ Addrs(rx) /\ Addrs(consumed)
    /\ Addrs(free_frames) /\ Addrs(descs) /\ Addrs(tx) /\ Addrs(nic) /\ Addrs(completion)
    /\ buf \in Seq(Elems(buf))

\* What run_per_queue has in hand at each point of its loop.
InHand ==
    /\ pc \in {"recv", "copy", "refill", "process", "send", "write", "insert", "wake"}
    /\ pc # "recv" => status = "up"
    /\ consumed # <<>> => pc \in {"copy", "refill"}
    /\ pc \in {"send", "write"} => buf # <<>>
    /\ pc = "write" => free_frames # <<>>
    /\ (pc = "insert") <=> (descs # <<>>)
    /\ Len(descs) <= Len(buf)

\* AfXdpIo::new has not seeded the rings.
Unmapped ==
    /\ status \in {"boot", "failed"}
    /\ fill = <<>> /\ rx = <<>> /\ consumed = <<>>
    /\ free_frames = <<>> /\ descs = <<>> /\ tx = <<>> /\ nic = <<>> /\ completion = <<>>

Mapped ==
    /\ status \in {"bound", "up", "failed", "stopped"}
    /\ ValidConfig
    /\ Len(fill) + Len(rx) + Len(consumed) = cfg.ring_size
    /\ Len(tx) <= cfg.ring_size
    /\ LET inTx == Len(free_frames) + Len(descs) + Len(tx) + Len(nic) + Len(completion)
       IN  /\ inTx <= cfg.num_frames - cfg.ring_size
           /\ cfg.num_frames = 2 * cfg.ring_size => inTx = cfg.ring_size


\* The addresses on FILL are those of frames, as the kernel wants them.
FillAligned == \A i \in DOMAIN fill : fill[i] = frame_idx_to_addr(addr_to_frame_idx(fill[i]))

LenInv == ListsTyped /\ InHand /\ FillAligned /\ (Unmapped \/ Mapped)

LEMMA ConfigTyped ==
    ASSUME NEW c \in Configs
    PROVE  c.num_frames \in Nat \ {0} /\ c.frame_size \in Nat \ {0} /\ c.ring_size \in Nat \ {0}
  BY ConfigsAssumption

LEMMA MulNat ==
    ASSUME NEW i \in Nat, NEW z \in Nat
    PROVE  i * z \in Nat
  OBVIOUS

LEMMA DivNat ==
    ASSUME NEW i \in Nat, NEW z \in Nat \ {0}
    PROVE  i \div z \in Nat
  OBVIOUS

LEMMA DivOf ==
    ASSUME NEW k \in Nat, NEW z \in Nat \ {0}, NEW h \in 0 .. (z - 1)
    PROVE  (k * z + h) \div z = k
  <1> DEFINE q == (k * z + h) \div z
             r == (k * z + h) % z
  <1>1. k * z \in Nat
    OBVIOUS
  <1>2. /\ q \in Nat /\ r \in Nat /\ r < z
        /\ k * z + h = z * q + r
    BY <1>1
  <1> HIDE DEF q, r
  <1>3. CASE q < k
    <2>1. z * (q + 1) <= z * k
      BY <1>2, <1>3
    <2>2. z * (q + 1) = z * q + z /\ z * k = k * z
      BY <1>2
    <2> QED
      BY <1>1, <1>2, <2>1, <2>2
  <1>4. CASE q > k
    <2>1. z * (k + 1) <= z * q
      BY <1>2, <1>4
    <2>2. z * (k + 1) = z * k + z /\ z * k = k * z
      OBVIOUS
    <2> QED
      BY <1>1, <1>2, <2>1, <2>2
  <1>5. q = k
    BY <1>2, <1>3, <1>4
  <1> QED
    BY <1>5 DEF q

LEMMA InitLen == Init => LenInv
  <1> SUFFICES ASSUME Init
               PROVE  LenInv
    OBVIOUS
  <1>1. <<>> \in Seq(Nat) /\ <<>> \in Seq(Elems(<<>>)) /\ Len(<<>>) = 0
    OBVIOUS
  <1>2. DOMAIN <<>> = {}
    BY <1>1, EmptySeq, LenProperties
  <1>3. ListsTyped
    BY <1>1 DEF Init, ListsTyped, Addrs
  <1>4. InHand
    BY <1>1 DEF Init, InHand
  <1>5. FillAligned
    BY <1>2 DEF Init, FillAligned
  <1>6. Unmapped
    BY DEF Init, Unmapped
  <1> QED
    BY <1>3, <1>4, <1>5, <1>6 DEF LenInv

\* The steps that move no frame.
lists == <<fill, rx, consumed, free_frames, descs, tx, nic, completion>>

Quiet ==
    /\ UNCHANGED <<cfg, lists>>
    /\ \/ UNCHANGED status
       \/ status = "bound" /\ status' \in {"up", "failed"}
       \/ status = "boot" /\ status' = "failed"
       \/ status = "up" /\ pc = "recv" /\ pc' = "recv" /\ status' = "stopped"

LEMMA QuietLen ==
    ASSUME LenInv, Quiet, InHand', buf' \in Seq(Elems(buf'))
    PROVE  LenInv'
  <1>1. ListsTyped'
    BY DEF LenInv, Quiet, ListsTyped, Addrs, lists
  <1>2. FillAligned'
    BY DEF LenInv, Quiet, FillAligned, frame_idx_to_addr, addr_to_frame_idx, lists
  <1>3. (Unmapped \/ Mapped)'
    <2>1. CASE Unmapped
      BY <2>1 DEF Quiet, lists, Unmapped
    <2>2. CASE Mapped
      <3>1. ValidConfig'
        BY <2>2 DEF Mapped, ValidConfig, Quiet, is_power_of_two
      <3> QED
        BY <2>2, <3>1 DEF Quiet, lists, Mapped
    <2> QED
      BY <2>1, <2>2 DEF LenInv
  <1> QED
    BY <1>1, <1>2, <1>3 DEF LenInv

LEMMA QuietSteps ==
    ASSUME LenInv
    PROVE  /\ NewFails \/ register_xsk \/ RecvCopy \/ SendWake \/ KernelParks \/ Shutdown
                \/ UNCHANGED vars
              => LenInv' /\ Quiet
           /\ Process => LenInv' /\ Quiet
  <1> USE DEF rings, user, ghost, vars, lists
  <1>1. buf \in Seq(Elems(buf)) /\ consumed \in Seq(Nat)
    BY DEF LenInv, ListsTyped, Addrs
  <1>2. NewFails => LenInv' /\ Quiet
    <2> SUFFICES ASSUME NewFails
                 PROVE  LenInv' /\ Quiet
      OBVIOUS
    <2>1. Quiet
      BY DEF NewFails, Quiet
    <2>2. InHand'
      BY DEF NewFails, InHand, LenInv
    <2>3. buf' \in Seq(Elems(buf'))
      BY <1>1 DEF NewFails
    <2> QED
      BY <2>1, <2>2, <2>3, QuietLen
  <1>3. register_xsk => LenInv' /\ Quiet
    <2> SUFFICES ASSUME register_xsk
                 PROVE  LenInv' /\ Quiet
      OBVIOUS
    <2>1. Quiet
      BY DEF register_xsk, Quiet
    <2>2. InHand'
      BY DEF register_xsk, InHand, LenInv
    <2>3. buf' \in Seq(Elems(buf'))
      BY <1>1 DEF register_xsk
    <2> QED
      BY <2>1, <2>2, <2>3, QuietLen
  <1>4. RecvCopy => LenInv' /\ Quiet
    <2> SUFFICES ASSUME RecvCopy
                 PROVE  LenInv' /\ Quiet
      OBVIOUS
    <2>1. Quiet
      BY DEF RecvCopy, Quiet
    <2>2. /\ buf' = [i \in DOMAIN consumed |-> content[addr_to_frame_idx(consumed[i])]]
          /\ buf' = [i \in DOMAIN consumed |-> buf'[i]]
      BY DEF RecvCopy, Map
    <2>3. \A i \in DOMAIN consumed : buf'[i] \in Elems(buf')
      BY <2>2 DEF Elems
    <2>4. buf' \in Seq(Elems(buf'))
      <3>1. DOMAIN consumed = 1 .. Len(consumed) /\ Len(consumed) \in Nat
        BY <1>1, LenProperties
      <3>2. buf' \in [1 .. Len(consumed) -> Elems(buf')]
        BY <2>2, <2>3, <3>1
      <3> QED
        BY <3>1, <3>2, SeqDef
    <2>5. InHand'
      <3>1. descs = <<>>
        BY DEF RecvCopy, InHand, LenInv
      <3>2. Len(descs') <= Len(buf')
        BY <2>4, <3>1, EmptyLen DEF RecvCopy
      <3> QED
        BY <3>1, <3>2 DEF RecvCopy, InHand, LenInv
    <2> QED
      BY <2>1, <2>4, <2>5, QuietLen
  <1>5. SendWake => LenInv' /\ Quiet
    <2> SUFFICES ASSUME SendWake
                 PROVE  LenInv' /\ Quiet
      OBVIOUS
    <2>1. Quiet
      BY DEF SendWake, Quiet
    <2>2. InHand'
      BY DEF SendWake, InHand, LenInv
    <2>3. buf' \in Seq(Elems(buf'))
      BY <1>1 DEF SendWake
    <2> QED
      BY <2>1, <2>2, <2>3, QuietLen
  <1>6. KernelParks \/ UNCHANGED vars => LenInv' /\ Quiet
    <2> SUFFICES ASSUME KernelParks \/ UNCHANGED vars
                 PROVE  LenInv' /\ Quiet
      OBVIOUS
    <2>1. Quiet
      BY DEF KernelParks, Quiet
    <2>2. InHand'
      BY DEF KernelParks, InHand, LenInv
    <2>3. buf' \in Seq(Elems(buf'))
      BY <1>1 DEF KernelParks
    <2> QED
      BY <2>1, <2>2, <2>3, QuietLen
  <1>7. Shutdown => LenInv' /\ Quiet
    <2> SUFFICES ASSUME Shutdown
                 PROVE  LenInv' /\ Quiet
      OBVIOUS
    <2>1. Quiet
      BY DEF Shutdown, Quiet
    <2>2. InHand'
      BY DEF Shutdown, InHand, LenInv
    <2>3. buf' \in Seq(Elems(buf'))
      BY <1>1 DEF Shutdown
    <2> QED
      BY <2>1, <2>2, <2>3, QuietLen
  <1>8. Process => LenInv' /\ Quiet
    <2> SUFFICES ASSUME Process
                 PROVE  LenInv' /\ Quiet
      OBVIOUS
    <2>1. Quiet
      BY DEF Process, Quiet
    <2>2. buf' \in Seq(Elems(buf'))
      <3>1. PICK Kept \in SUBSET DOMAIN buf :
               buf' = [k \in 1 .. Cardinality(Kept) |->
                          buf[CHOOSE i \in Kept : Cardinality({j \in Kept : j <= i}) = k]]
        BY DEF Process
      <3>2. DOMAIN buf = 1 .. Len(buf) /\ Len(buf) \in Nat
        BY <1>1, LenProperties
      <3>3. IsFiniteSet(DOMAIN buf)
        BY <3>2, FS_Interval
      <3>4. Cardinality(Kept) \in Nat
        BY <3>1, <3>3, FS_Subset, FS_CardinalityType
      <3>5. /\ DOMAIN buf' = 1 .. Cardinality(Kept)
            /\ buf' = [k \in 1 .. Cardinality(Kept) |-> buf'[k]]
        BY <3>1
      <3>6. buf' \in [1 .. Cardinality(Kept) -> Elems(buf')]
        BY <3>5 DEF Elems
      <3> QED
        BY <3>4, <3>6, SeqDef
    <2>3. InHand'
      <3>1. descs = <<>>
        BY DEF Process, InHand, LenInv
      <3>2. Len(descs') <= Len(buf')
        <4>1. Len(buf') \in Nat
          BY <2>2, LenProperties
        <4>2. descs' = <<>> /\ Len(<<>>) = 0
          BY <3>1 DEF Process
        <4> QED
          BY <4>1, <4>2
      <3>3. pc' = IF buf' = <<>> THEN "recv" ELSE "send"
        BY DEF Process
      <3>4. UNCHANGED <<status, consumed, descs>> /\ pc = "process"
        BY DEF Process
      <3> QED
        BY <3>1, <3>2, <3>3, <3>4 DEF InHand, LenInv
    <2> QED
      BY <2>1, <2>2, <2>3, QuietLen
  <1> QED
    BY <1>2, <1>3, <1>4, <1>5, <1>6, <1>7, <1>8

\* The frames of a list of addresses.
FramesOf(s) == Index(cfg.frame_size, s)

LEMMA ListTypes ==
    ASSUME LenInv
    PROVE  /\ cfg.num_frames \in Nat \ {0} /\ cfg.frame_size \in Nat \ {0}
           /\ cfg.ring_size \in Nat \ {0}
           /\ fill \in Seq(Nat) /\ rx \in Seq(Nat) /\ consumed \in Seq(Nat)
           /\ free_frames \in Seq(Nat) /\ descs \in Seq(Nat) /\ tx \in Seq(Nat)
           /\ nic \in Seq(Nat) /\ completion \in Seq(Nat)
           /\ Len(fill) \in Nat /\ Len(rx) \in Nat /\ Len(consumed) \in Nat
           /\ Len(free_frames) \in Nat /\ Len(descs) \in Nat /\ Len(tx) \in Nat
           /\ Len(nic) \in Nat /\ Len(completion) \in Nat
  BY ConfigTyped, LenProperties DEF LenInv, ListsTyped, Addrs

LEMMA UpIsMapped ==
    ASSUME LenInv, status = "up" \/ pc # "recv"
    PROVE  Mapped /\ status = "up"
  BY DEF LenInv, InHand, Unmapped

\* The lengths after a step, from the lengths before it.
LEMMA MappedKept ==
    ASSUME Mapped, UNCHANGED cfg, UNCHANGED status,
           Len(fill') + Len(rx') + Len(consumed') = cfg.ring_size,
           Len(tx') <= cfg.ring_size,
           LET inTx == Len(free_frames') + Len(descs') + Len(tx') + Len(nic') + Len(completion')
           IN  /\ inTx <= cfg.num_frames - cfg.ring_size
               /\ cfg.num_frames = 2 * cfg.ring_size => inTx = cfg.ring_size
    PROVE  Mapped'
  BY DEF Mapped, ValidConfig, is_power_of_two

LEMMA RecvTakeMoves ==
    ASSUME LenInv, RecvTake
    PROVE  LenInv' /\ Moves(FramesOf(rx), FramesOf(rx)', FramesOf(consumed), FramesOf(consumed)')
  <1> DEFINE z == cfg.frame_size
  <1>1. /\ z \in Nat \ {0} /\ rx \in Seq(Nat) /\ BatchSize \in Nat /\ BatchSize > 0
        /\ consumed' = Take(rx, BatchSize) /\ rx' = Drop(rx, BatchSize)
        /\ UNCHANGED <<cfg, status, fill, tx, completion, free_frames, nic, descs, buf>>
    BY ListTypes, BatchAssumption DEF RecvTake
  <1>2. consumed = <<>> /\ Mapped /\ descs = <<>>
    BY UpIsMapped DEF RecvTake, LenInv, InHand
  <1> HIDE DEF z
  <1>3. /\ consumed' \in Seq(Nat) /\ rx' \in Seq(Nat)
        /\ Splits(rx, consumed', rx')
        /\ Splits(Index(z, rx), Index(z, consumed'), Index(z, rx'))
    BY <1>1, TakeSplits
  <1>4. Splits(Index(z, consumed'), Index(z, consumed), Index(z, consumed'))
    <2>1. Index(z, consumed') \in Seq(Nat)
      BY <1>1, <1>3, IndexType
    <2> QED
      BY <1>1, <1>2, <2>1, EmptySplits
  <1>5. Moves(Index(z, rx), Index(z, rx'), Index(z, consumed), Index(z, consumed'))
    BY <1>3, <1>4 DEF Moves
  <1>6. ListsTyped' /\ FillAligned'
    BY <1>1, <1>3 DEF LenInv, ListsTyped, Addrs, FillAligned, frame_idx_to_addr, addr_to_frame_idx
  <1>7. InHand'
    BY <1>1, <1>2 DEF RecvTake, LenInv, InHand
  <1>8. Mapped'
    <2>1. Len(rx) = Len(consumed') + Len(rx') /\ Len(consumed') \in Nat /\ Len(rx') \in Nat
      BY <1>3, LenProperties DEF Splits
    <2>2. Len(consumed) = 0 /\ Len(fill) \in Nat
      BY <1>2, ListTypes
    <2>3. Len(fill') + Len(rx') + Len(consumed') = cfg.ring_size
      BY <1>1, <1>2, <2>1, <2>2 DEF Mapped
    <2> QED
      BY <1>1, <1>2, <2>3, MappedKept DEF Mapped
  <1> QED
    BY <1>1, <1>5, <1>6, <1>7, <1>8 DEF LenInv, FramesOf, z

\* The addresses of a list of frames are aligned, and lead back to the frames.
LEMMA AddrsOfFrames ==
    ASSUME NEW z \in Nat \ {0}, NEW s \in Seq(Nat), NEW m, m = [i \in DOMAIN s |-> s[i] * z]
    PROVE  /\ m \in Seq(Nat) /\ Len(m) = Len(s) /\ Index(z, m) = s
           /\ \A a \in Elems(m) : a = (a \div z) * z
  <1>1. /\ DOMAIN s = 1 .. Len(s) /\ Len(s) \in Nat
        /\ \A i \in DOMAIN s : s[i] \in Nat
    BY LenProperties
  <1>2. \A i \in DOMAIN s : m[i] = s[i] * z
    OBVIOUS
  <1>3. m = [i \in DOMAIN s |-> m[i]]
    OBVIOUS
  <1>4. \A i \in DOMAIN s : m[i] \in Nat
    BY <1>1, <1>2, MulNat
  <1>5. m \in Seq(Nat) /\ Len(m) = Len(s) /\ DOMAIN m = DOMAIN s
    BY <1>3, <1>4, MappedSeq, SMTT(30)
  <1>6. ASSUME NEW i \in DOMAIN s
        PROVE  m[i] \div z = s[i]
    <2>1. s[i] \in Nat /\ 0 \in 0 .. (z - 1) /\ s[i] * z \in Nat
      BY <1>1, MulNat
    <2>2. (s[i] * z + 0) \div z = s[i]
      BY <2>1, DivOf
    <2>3. s[i] * z + 0 = s[i] * z
      BY <2>1
    <2> QED
      BY <1>2, <2>2, <2>3
  <1>7. Index(z, m) = s
    <2>1. /\ Index(z, m) \in Seq(Nat) /\ Len(Index(z, m)) = Len(s)
          /\ \A i \in DOMAIN s : Index(z, m)[i] = m[i] \div z
      BY <1>5, IndexType
    <2>2. \A i \in 1 .. Len(s) : Index(z, m)[i] = s[i]
      BY <1>1, <1>6, <2>1
    <2> QED
      BY <2>1, <2>2, SeqEqual
  <1>8. \A a \in Elems(m) : a = (a \div z) * z
    BY <1>2, <1>5, <1>6 DEF Elems
  <1> QED
    BY <1>5, <1>7, <1>8

LEMMA RecvRefillMoves ==
    ASSUME LenInv, RecvRefill
    PROVE  LenInv' /\ Moves(FramesOf(consumed), FramesOf(consumed)', FramesOf(fill), FramesOf(fill)')
  <1> DEFINE z == cfg.frame_size
             f == Index(z, consumed)
             m == Map(consumed, LAMBDA a : frame_idx_to_addr(addr_to_frame_idx(a)))
             room == cfg.ring_size - Len(fill)
  <1>1. /\ z \in Nat \ {0} /\ consumed \in Seq(Nat) /\ fill \in Seq(Nat)
        /\ cfg.ring_size \in Nat /\ Len(fill) \in Nat /\ Len(consumed) \in Nat /\ Len(rx) \in Nat
        /\ consumed' = <<>> /\ fill' = fill \o Take(m, room)
        /\ UNCHANGED <<cfg, status, rx, tx, completion, free_frames, nic, descs, buf>>
    BY ListTypes DEF RecvRefill, Refill, Insert
  <1>2. Mapped /\ descs = <<>>
    BY UpIsMapped DEF RecvRefill, LenInv, InHand
  <1>3. f \in Seq(Nat) /\ Len(f) = Len(consumed) /\ DOMAIN f = DOMAIN consumed
    BY <1>1, IndexType
  <1>4. m = [i \in DOMAIN f |-> f[i] * z]
    BY <1>3 DEF Map, Index, frame_idx_to_addr, addr_to_frame_idx
  <1> HIDE DEF z, m, f
  <1>5. /\ m \in Seq(Nat) /\ Len(m) = Len(f) /\ Index(z, m) = f
        /\ \A a \in Elems(m) : a = (a \div z) * z
    <2>1. z \in Nat \ {0} /\ f \in Seq(Nat)
      BY <1>1, <1>3
    <2> QED
      BY <1>4, <2>1, AddrsOfFrames
  <1>6. room \in Nat /\ Len(m) <= room
    BY <1>1, <1>2, <1>3, <1>5, SMTT(30) DEF Mapped
  <1>7. fill' = fill \o m
    <2> HIDE DEF room
    <2>1. Take(m, room) = m
      BY <1>5, <1>6, TakeAll
    <2> QED
      BY <1>1, <2>1
  <1>8. /\ fill' \in Seq(Nat) /\ Splits(fill', fill, m)
        /\ Splits(Index(z, fill'), Index(z, fill), f)
    BY <1>1, <1>5, <1>7, IndexSplits, ConcatSplits
  <1>9. consumed' \in Seq(Nat) /\ Len(consumed') = 0 /\ Splits(f, f, Index(z, consumed'))
    BY <1>1, <1>3, EmptySplits
  <1>10. Moves(f, Index(z, consumed'), Index(z, fill), Index(z, fill'))
    BY <1>8, <1>9 DEF Moves
  <1>11. ListsTyped'
    BY <1>1, <1>8, <1>9 DEF LenInv, ListsTyped, Addrs
  <1>12. FillAligned'
    <2>1. \A a \in Elems(fill) : a = (a \div z) * z
      BY DEF LenInv, FillAligned, frame_idx_to_addr, addr_to_frame_idx, Elems, z
    <2>2. \A a \in Elems(fill') : a = (a \div z) * z
      BY <1>5, <1>8, <2>1 DEF Splits
    <2>3. \A i \in DOMAIN fill' : fill'[i] \in Elems(fill')
      BY DEF Elems
    <2> QED
      BY <1>1, <2>2, <2>3 DEF FillAligned, frame_idx_to_addr, addr_to_frame_idx, z
  <1>13. InHand'
    BY <1>1, <1>2 DEF RecvRefill, LenInv, InHand
  <1>14. Mapped'
    <2>1. Len(fill') = Len(fill) + Len(consumed)
      BY <1>3, <1>5, <1>8 DEF Splits
    <2>2. Len(fill') + Len(rx') + Len(consumed') = cfg.ring_size
      BY <1>1, <1>2, <1>9, <2>1, SMTT(30) DEF Mapped
    <2> QED
      BY <1>1, <1>2, <2>2, MappedKept DEF Mapped
  <1> QED
    BY <1>1, <1>10, <1>11, <1>12, <1>13, <1>14 DEF LenInv, FramesOf, z, f

LEMMA SendDrainMoves ==
    ASSUME LenInv, SendDrain
    PROVE  LenInv' /\ Moves(FramesOf(completion), FramesOf(completion)', free_frames, free_frames')
  <1> DEFINE z == cfg.frame_size
             f == Index(z, completion)
  <1>1. /\ z \in Nat \ {0} /\ completion \in Seq(Nat) /\ free_frames \in Seq(Nat)
        /\ Len(completion) \in Nat /\ Len(free_frames) \in Nat
        /\ completion' = <<>> /\ free_frames' = free_frames \o Map(completion, addr_to_frame_idx)
        /\ UNCHANGED <<cfg, status, fill, rx, tx, consumed, nic, descs>>
        /\ pc' = IF free_frames' = <<>> THEN "recv" ELSE "write"
        /\ buf' = IF free_frames' = <<>> THEN <<>> ELSE buf
    BY ListTypes DEF SendDrain
  <1>2. Mapped /\ consumed = <<>> /\ descs = <<>> /\ buf # <<>> /\ status = "up"
    BY UpIsMapped DEF SendDrain, LenInv, InHand
  <1>3. f = Map(completion, addr_to_frame_idx)
    BY DEF Map, Index, addr_to_frame_idx
  <1>4. f \in Seq(Nat) /\ Len(f) = Len(completion)
    BY <1>1, IndexType
  <1> HIDE DEF z, f
  <1>5. Splits(free_frames', free_frames, f)
    BY <1>1, <1>3, <1>4, ConcatSplits
  <1>6. completion' \in Seq(Nat) /\ Len(completion') = 0 /\ Splits(f, f, Index(z, completion'))
    BY <1>1, <1>4, EmptySplits
  <1>7. Moves(f, Index(z, completion'), free_frames, free_frames')
    BY <1>5, <1>6 DEF Moves
  <1>8. free_frames' \in Seq(Nat) /\ Len(free_frames') = Len(free_frames) + Len(completion)
    BY <1>4, <1>5 DEF Splits
  <1>9. ListsTyped'
    <2>1. buf' \in Seq(Elems(buf'))
      <3>1. <<>> \in Seq(Elems(<<>>)) /\ buf \in Seq(Elems(buf))
        BY DEF LenInv, ListsTyped
      <3> QED
        BY <1>1, <3>1
    <2> QED
      BY <1>1, <1>6, <1>8, <2>1 DEF LenInv, ListsTyped, Addrs
  <1>10. FillAligned'
    BY <1>1 DEF LenInv, FillAligned, frame_idx_to_addr, addr_to_frame_idx
  <1>11. InHand'
    <2>1. Len(descs') <= Len(buf')
      <3>1. Len(<<>>) = 0 /\ Len(buf) \in Nat
        BY LenProperties DEF LenInv, ListsTyped
      <3> QED
        BY <1>1, <1>2, <3>1
    <2> QED
      BY <1>1, <1>2, <2>1 DEF InHand
  <1>12. Mapped'
    <2>1. Len(free_frames') + Len(descs') + Len(tx') + Len(nic') + Len(completion')
             = Len(free_frames) + Len(descs) + Len(tx) + Len(nic) + Len(completion)
      BY <1>1, <1>6, <1>8, ListTypes
    <2> QED
      BY <1>1, <1>2, <2>1, MappedKept DEF Mapped
  <1> QED
    BY <1>1, <1>7, <1>9, <1>10, <1>11, <1>12 DEF LenInv, FramesOf, z, f

LEMMA SendWriteMoves ==
    ASSUME LenInv, SendWrite
    PROVE  LenInv' /\ Moves(free_frames, free_frames', FramesOf(descs), FramesOf(descs)')
  <1> DEFINE z   == cfg.frame_size
             n   == Min2(Len(buf), Len(free_frames))
             idx == Take(free_frames, n)
             d   == Map(idx, frame_idx_to_addr)
  <1>1. /\ z \in Nat \ {0} /\ free_frames \in Seq(Nat)
        /\ free_frames' = Drop(free_frames, n) /\ descs' = d /\ pc' = "insert"
        /\ UNCHANGED <<cfg, status, fill, rx, tx, consumed, nic, completion, buf>>
    BY ListTypes DEF SendWrite
  <1>2. /\ Mapped /\ consumed = <<>> /\ descs = <<>> /\ buf # <<>> /\ free_frames # <<>>
        /\ status = "up"
    BY UpIsMapped DEF SendWrite, LenInv, InHand
  <1>3. n \in Nat \ {0} /\ n <= Len(buf) /\ n <= Len(free_frames)
    <2>1. Len(buf) \in Nat \ {0}
      BY <1>2, EmptyLen DEF LenInv, ListsTyped
    <2>2. Len(free_frames) \in Nat \ {0}
      BY <1>1, <1>2, EmptyLen
    <2> QED
      BY <2>1, <2>2 DEF Min2
  <1>4. Len(idx) = n
    <2> HIDE DEF n
    <2>1. Len(idx) = Min2(n, Len(free_frames))
      BY <1>1, <1>3, TakeDrop
    <2>2. Len(free_frames) \in Nat
      BY <1>1, LenProperties
    <2> QED
      BY <1>3, <2>1, <2>2 DEF Min2
  <1>5. d = [i \in DOMAIN idx |-> idx[i] * z]
    BY DEF Map, frame_idx_to_addr
  <1> HIDE DEF z, d, n
  <1>6. /\ idx \in Seq(Nat) /\ free_frames' \in Seq(Nat)
        /\ Splits(free_frames, idx, free_frames')
    BY <1>1, <1>3, TakeSplits
  <1> HIDE DEF idx
  <1>7. d \in Seq(Nat) /\ Len(d) = Len(idx) /\ Index(z, d) = idx
    <2>1. z \in Nat \ {0} /\ idx \in Seq(Nat)
      BY <1>1, <1>6
    <2> QED
      BY <1>5, <2>1, AddrsOfFrames
  <1>8. Splits(idx, Index(z, descs), idx)
    BY <1>1, <1>2, <1>6, EmptySplits
  <1>9. Moves(free_frames, free_frames', Index(z, descs), Index(z, descs'))
    BY <1>1, <1>6, <1>7, <1>8 DEF Moves
  <1>10. ListsTyped'
    BY <1>1, <1>6, <1>7 DEF LenInv, ListsTyped, Addrs
  <1>11. FillAligned'
    BY <1>1 DEF LenInv, FillAligned, frame_idx_to_addr, addr_to_frame_idx
  <1>12. InHand'
    <2>1. descs' # <<>> /\ Len(descs') <= Len(buf')
      BY <1>1, <1>3, <1>4, <1>7, EmptyLen
    <2> QED
      BY <1>1, <1>2, <2>1 DEF InHand
  <1>13. Mapped'
    <2>1. Len(free_frames) = Len(descs') + Len(free_frames')
      BY <1>1, <1>6, <1>7 DEF Splits
    <2>2. Len(descs) = 0 /\ Len(descs') \in Nat /\ Len(free_frames') \in Nat
      BY <1>1, <1>2, <1>6, <1>7, LenProperties
    <2>3. Len(free_frames') + Len(descs') + Len(tx') + Len(nic') + Len(completion')
             = Len(free_frames) + Len(descs) + Len(tx) + Len(nic) + Len(completion)
      BY <1>1, <2>1, <2>2, ListTypes
    <2> QED
      BY <1>1, <1>2, <2>3, MappedKept DEF Mapped
  <1> QED
    BY <1>1, <1>9, <1>10, <1>11, <1>12, <1>13 DEF LenInv, FramesOf, z

\* With num_frames = 2 * ring_size the TX ring has a slot for every descriptor.
LEMMA SendInsertSheds ==
    ASSUME LenInv, SendInsert
    PROVE  /\ LenInv'
           /\ Sheds(FramesOf(descs), FramesOf(descs)', FramesOf(tx), FramesOf(tx)')
           /\ cfg.num_frames = 2 * cfg.ring_size
                => Moves(FramesOf(descs), FramesOf(descs)', FramesOf(tx), FramesOf(tx)')
  <1> DEFINE z    == cfg.frame_size
             room == cfg.ring_size - Len(tx)
             t    == Take(descs, room)
             d    == Drop(descs, room)
  <1>1. /\ z \in Nat \ {0} /\ descs \in Seq(Nat) /\ tx \in Seq(Nat)
        /\ tx' = tx \o t /\ descs' = <<>> /\ buf' = <<>> /\ pc' = "wake"
        /\ UNCHANGED <<cfg, status, fill, rx, completion, free_frames, nic, consumed>>
    BY ListTypes DEF SendInsert, Insert
  <1>2. Mapped /\ consumed = <<>> /\ status = "up"
    BY UpIsMapped DEF SendInsert, LenInv, InHand
  <1>3. room \in Nat /\ Len(tx) \in Nat /\ Len(descs) \in Nat
    BY <1>2, ListTypes, SMTT(30) DEF Mapped
  <1>4. Len(t) <= room /\ Len(t) <= Len(descs) /\ Len(t) \in Nat
    <2> HIDE DEF room
    <2>1. Len(t) = Min2(room, Len(descs))
      BY <1>1, <1>3, TakeDrop
    <2> QED
      BY <1>3, <2>1 DEF Min2
  <1>5. cfg.num_frames = 2 * cfg.ring_size => Len(descs) <= room
    BY <1>2, ListTypes, SMTT(30) DEF Mapped
  <1> HIDE DEF room
  <1>6. /\ t \in Seq(Nat) /\ d \in Seq(Nat) /\ Splits(descs, t, d)
        /\ Splits(Index(z, descs), Index(z, t), Index(z, d))
    BY <1>1, <1>3, TakeSplits
  <1>7. Len(descs) <= room => t = descs
    BY <1>1, <1>3, TakeAll
  <1> HIDE DEF z, t, d
  <1>8. /\ tx' \in Seq(Nat) /\ Splits(tx', tx, t)
        /\ Splits(Index(z, tx'), Index(z, tx), Index(z, t))
    BY <1>1, <1>6, IndexSplits, ConcatSplits
  <1>9. /\ descs' \in Seq(Nat) /\ Len(descs') = 0 /\ Index(z, descs') = descs' /\ descs' = <<>>
        /\ Splits(Index(z, descs), Index(z, descs), Index(z, descs'))
    <2>1. Index(z, descs) \in Seq(Nat)
      BY <1>1, IndexType
    <2> QED
      BY <1>1, <2>1, EmptySplits
  <1>10. Sheds(Index(z, descs), Index(z, descs'), Index(z, tx), Index(z, tx'))
    <2>1. Index(z, descs') = <<>>
      BY <1>9
    <2> QED
      BY <1>6, <1>8, <2>1 DEF Sheds
  <1>11. cfg.num_frames = 2 * cfg.ring_size
           => Moves(Index(z, descs), Index(z, descs'), Index(z, tx), Index(z, tx'))
    BY <1>5, <1>7, <1>8, <1>9 DEF Moves
  <1>12. ListsTyped'
    <2>1. <<>> \in Seq(Elems(<<>>))
      OBVIOUS
    <2> QED
      BY <1>1, <1>8, <1>9, <2>1 DEF LenInv, ListsTyped, Addrs
  <1>13. FillAligned'
    BY <1>1 DEF LenInv, FillAligned, frame_idx_to_addr, addr_to_frame_idx
  <1>14. InHand'
    <2>1. Len(<<>>) <= Len(<<>>)
      OBVIOUS
    <2> QED
      BY <1>1, <1>2, <2>1 DEF InHand
  <1>15. Mapped'
    <2>1. Len(tx') = Len(tx) + Len(t)
      BY <1>8 DEF Splits
    <2>2. Len(tx') <= cfg.ring_size
      BY <1>3, <1>4, <2>1, ListTypes DEF room
    <2>3. Len(free_frames') + Len(descs') + Len(tx') + Len(nic') + Len(completion')
             <= Len(free_frames) + Len(descs) + Len(tx) + Len(nic) + Len(completion)
      BY <1>1, <1>4, <1>9, <2>1, ListTypes
    <2>4. cfg.num_frames = 2 * cfg.ring_size =>
             Len(free_frames') + Len(descs') + Len(tx') + Len(nic') + Len(completion')
               = Len(free_frames) + Len(descs) + Len(tx) + Len(nic) + Len(completion)
      BY <1>1, <1>5, <1>7, <1>9, <2>1, ListTypes
    <2>5. Len(tx') \in Nat /\ Len(descs') \in Nat
      BY <1>8, <1>9, LenProperties
    <2> HIDE DEF Mapped
    <2>6. /\ Len(free_frames) + Len(descs) + Len(tx) + Len(nic) + Len(completion)
               <= cfg.num_frames - cfg.ring_size
          /\ cfg.num_frames = 2 * cfg.ring_size =>
               Len(free_frames) + Len(descs) + Len(tx) + Len(nic) + Len(completion)
                 = cfg.ring_size
          /\ Len(fill') + Len(rx') + Len(consumed') = cfg.ring_size
      BY <1>1, <1>2 DEF Mapped
    <2>7. Len(free_frames') + Len(descs') + Len(tx') + Len(nic') + Len(completion')
             <= cfg.num_frames - cfg.ring_size
      <3> DEFINE before == Len(free_frames) + Len(descs) + Len(tx) + Len(nic) + Len(completion)
                 after  == Len(free_frames') + Len(descs') + Len(tx') + Len(nic')
                             + Len(completion')
                 spare  == cfg.num_frames - cfg.ring_size
      <3>1. before \in Int /\ after \in Int /\ spare \in Int
        BY <1>1, <2>5, ListTypes
      <3>2. after <= before /\ before <= spare
        BY <2>3, <2>6
      <3> HIDE DEF before, after, spare
      <3>3. after <= spare
        BY <3>1, <3>2
      <3> QED
        BY <3>3 DEF after, spare
    <2>8. cfg.num_frames = 2 * cfg.ring_size =>
             Len(free_frames') + Len(descs') + Len(tx') + Len(nic') + Len(completion')
               = cfg.ring_size
      BY <2>4, <2>6
    <2> QED
      BY <1>1, <1>2, <2>2, <2>6, <2>7, <2>8, MappedKept
  <1> QED
    BY <1>1, <1>10, <1>11, <1>12, <1>13, <1>14, <1>15 DEF LenInv, FramesOf, z

LEMMA KernelTakesMoves ==
    ASSUME LenInv, KernelTakes
    PROVE  LenInv' /\ Moves(FramesOf(tx), FramesOf(tx)', FramesOf(nic), FramesOf(nic)')
  <1> DEFINE z == cfg.frame_size
             x == One(Head(tx) \div z)
  <1>1. /\ z \in Nat \ {0} /\ tx \in Seq(Nat) /\ nic \in Seq(Nat) /\ tx # <<>>
        /\ nic' = Append(nic, Head(tx)) /\ tx' = Tail(tx)
        /\ UNCHANGED <<cfg, status, fill, rx, completion, free_frames, pc, consumed, descs, buf>>
    BY ListTypes DEF KernelTakes, user
  <1>2. Mapped
    BY UpIsMapped DEF KernelTakes
  <1> HIDE DEF z
  <1>3. Head(tx) \in Nat /\ tx' \in Seq(Nat) /\ Splits(Index(z, tx), x, Index(z, tx'))
    BY <1>1, IndexTail
  <1>4. nic' \in Seq(Nat) /\ Splits(Index(z, nic'), Index(z, nic), x)
    BY <1>1, <1>3, IndexAppend
  <1> HIDE DEF x
  <1>5. Moves(Index(z, tx), Index(z, tx'), Index(z, nic), Index(z, nic'))
    BY <1>3, <1>4 DEF Moves
  <1>6. ListsTyped' /\ FillAligned'
    BY <1>1, <1>3, <1>4 DEF LenInv, ListsTyped, Addrs, FillAligned, frame_idx_to_addr, addr_to_frame_idx
  <1>7. InHand'
    BY <1>1 DEF LenInv, InHand
  <1>8. Len(tx) \in Nat \ {0} /\ Len(tx') = Len(tx) - 1 /\ Len(nic') = Len(nic) + 1
    BY <1>1, EmptyLen, HeadTailProperties, AppendProperties
  <1>9. Mapped'
    <2>1. Len(tx') <= cfg.ring_size
      BY <1>2, <1>8, ListTypes, SMTT(30) DEF Mapped
    <2>2. Len(free_frames') + Len(descs') + Len(tx') + Len(nic') + Len(completion')
             = Len(free_frames) + Len(descs) + Len(tx) + Len(nic) + Len(completion)
      BY <1>1, <1>8, ListTypes
    <2> QED
      BY <1>1, <1>2, <2>1, <2>2, MappedKept DEF Mapped
  <1> QED
    BY <1>1, <1>5, <1>6, <1>7, <1>9 DEF LenInv, FramesOf, z

LEMMA KernelCompletesMoves ==
    ASSUME LenInv, KernelCompletes
    PROVE  /\ LenInv'
           /\ Moves(FramesOf(nic), FramesOf(nic)', FramesOf(completion), FramesOf(completion)')
  <1> DEFINE z == cfg.frame_size
             x == One(Head(nic) \div z)
  <1>1. /\ z \in Nat \ {0} /\ completion \in Seq(Nat) /\ nic \in Seq(Nat) /\ nic # <<>>
        /\ completion' = Append(completion, Head(nic)) /\ nic' = Tail(nic)
        /\ UNCHANGED <<cfg, status, fill, rx, tx, free_frames, pc, consumed, descs, buf>>
    BY ListTypes DEF KernelCompletes, user
  <1>2. Mapped
    BY UpIsMapped DEF KernelCompletes
  <1> HIDE DEF z
  <1>3. Head(nic) \in Nat /\ nic' \in Seq(Nat) /\ Splits(Index(z, nic), x, Index(z, nic'))
    BY <1>1, IndexTail
  <1>4. /\ completion' \in Seq(Nat)
        /\ Splits(Index(z, completion'), Index(z, completion), x)
    BY <1>1, <1>3, IndexAppend
  <1> HIDE DEF x
  <1>5. Moves(Index(z, nic), Index(z, nic'), Index(z, completion), Index(z, completion'))
    BY <1>3, <1>4 DEF Moves
  <1>6. ListsTyped' /\ FillAligned'
    BY <1>1, <1>3, <1>4 DEF LenInv, ListsTyped, Addrs, FillAligned, frame_idx_to_addr, addr_to_frame_idx
  <1>7. InHand'
    BY <1>1 DEF LenInv, InHand
  <1>8. /\ Len(nic) \in Nat \ {0} /\ Len(nic') = Len(nic) - 1
        /\ Len(completion') = Len(completion) + 1
    BY <1>1, EmptyLen, HeadTailProperties, AppendProperties
  <1>9. Mapped'
    <2>1. Len(free_frames') + Len(descs') + Len(tx') + Len(nic') + Len(completion')
             = Len(free_frames) + Len(descs) + Len(tx) + Len(nic) + Len(completion)
      BY <1>1, <1>8, ListTypes
    <2> QED
      BY <1>1, <1>2, <2>1, MappedKept DEF Mapped
  <1> QED
    BY <1>1, <1>5, <1>6, <1>7, <1>9 DEF LenInv, FramesOf, z

LEMMA KernelReceivesMoves ==
    ASSUME LenInv, KernelReceives
    PROVE  LenInv' /\ Moves(FramesOf(fill), FramesOf(fill)', FramesOf(rx), FramesOf(rx)')
  <1> DEFINE z == cfg.frame_size
             e == Head(fill)
             k == e \div z
             x == One(k)
  <1>1. /\ z \in Nat \ {0} /\ fill \in Seq(Nat) /\ rx \in Seq(Nat) /\ fill # <<>>
        /\ rx' = Append(rx, e + Headroom) /\ fill' = Tail(fill)
        /\ UNCHANGED <<cfg, status, tx, nic, completion, free_frames, pc, consumed, descs, buf>>
    BY ListTypes DEF KernelReceives, user
  <1>2. Mapped
    BY UpIsMapped DEF KernelReceives
  <1>3. Headroom \in 0 .. (z - 1)
    <2>1. cfg \in Configs
      BY DEF LenInv, ListsTyped
    <2>2. Headroom \in Nat /\ (Headroom < z \/ z < PACKET_BUF_SIZE)
      BY <2>1, HeadroomAssumption
    <2>3. z >= PACKET_BUF_SIZE
      BY <1>2 DEF Mapped, ValidConfig
    <2> QED
      BY <1>1, <2>2, <2>3, BufferAssumption
  <1>4. e = k * z
    <2>1. 1 \in DOMAIN fill /\ e = fill[1]
      <3>1. Len(fill) \in Nat \ {0} /\ DOMAIN fill = 1 .. Len(fill)
        BY <1>1, EmptyLen, LenProperties
      <3>2. e = fill[1]
        BY <1>1, HeadTailProperties
      <3> QED
        BY <3>1, <3>2
    <2> QED
      BY <2>1 DEF LenInv, FillAligned, frame_idx_to_addr, addr_to_frame_idx
  <1> HIDE DEF z
  <1>5. e \in Nat /\ fill' \in Seq(Nat) /\ Splits(Index(z, fill), x, Index(z, fill'))
    BY <1>1, IndexTail
  <1>6. k \in Nat
    BY <1>1, <1>5, DivNat
  <1>7. (e + Headroom) \div z = k /\ e + Headroom \in Nat
    <2> HIDE DEF e, k
    <2>1. (k * z + Headroom) \div z = k
      BY <1>1, <1>3, <1>6, DivOf
    <2> QED
      BY <1>3, <1>4, <1>5, <2>1
  <1>8. rx' \in Seq(Nat) /\ Splits(Index(z, rx'), Index(z, rx), x)
    <2>1. Splits(Index(z, rx'), Index(z, rx), One((e + Headroom) \div z)) /\ rx' \in Seq(Nat)
      BY <1>1, <1>7, IndexAppend
    <2> QED
      BY <1>7, <2>1
  <1> HIDE DEF x
  <1>9. Moves(Index(z, fill), Index(z, fill'), Index(z, rx), Index(z, rx'))
    BY <1>5, <1>8 DEF Moves
  <1>10. ListsTyped'
    BY <1>1, <1>5, <1>8 DEF LenInv, ListsTyped, Addrs
  <1>11. Len(fill) \in Nat \ {0} /\ Len(fill') = Len(fill) - 1 /\ Len(rx') = Len(rx) + 1
    <2>1. Len(fill) \in Nat \ {0} /\ Len(fill') = Len(fill) - 1
      BY <1>1, EmptyLen, HeadTailProperties
    <2>2. Len(rx') = Len(rx) + 1
      <3>1. e + Headroom \in Nat
        BY <1>7
      <3> QED
        BY <1>1, <3>1, AppendProperties
    <2> QED
      BY <2>1, <2>2
  <1>12. FillAligned'
    <2>1. ASSUME NEW i \in DOMAIN fill'
          PROVE  i + 1 \in DOMAIN fill /\ fill'[i] = fill[i + 1]
      <3>1. DOMAIN fill' = 1 .. (Len(fill) - 1) /\ DOMAIN fill = 1 .. Len(fill)
        BY <1>1, <1>5, <1>11, LenProperties
      <3>2. \A j \in 1 .. Len(Tail(fill)) : Tail(fill)[j] = fill[j + 1]
        BY <1>1, HeadTailProperties
      <3> QED
        BY <1>1, <1>11, <3>1, <3>2
    <2>2. \A i \in DOMAIN fill : fill[i] = (fill[i] \div z) * z
      BY DEF LenInv, FillAligned, frame_idx_to_addr, addr_to_frame_idx, z
    <2>3. \A i \in DOMAIN fill' : fill'[i] = (fill'[i] \div z) * z
      BY <2>1, <2>2
    <2> QED
      BY <1>1, <2>3 DEF FillAligned, frame_idx_to_addr, addr_to_frame_idx, z
  <1>13. InHand'
    BY <1>1 DEF LenInv, InHand
  <1>14. Mapped'
    <2>1. Len(fill') + Len(rx') + Len(consumed') = Len(fill) + Len(rx) + Len(consumed)
      BY <1>1, <1>11, ListTypes
    <2> QED
      BY <1>1, <1>2, <2>1, MappedKept DEF Mapped
  <1> QED
    BY <1>1, <1>9, <1>10, <1>12, <1>13, <1>14 DEF LenInv, FramesOf, z

\* The frames of the two pools as AfXdpIo::new makes them.
LEMMA NewBindsSeeds ==
    ASSUME LenInv, NewBinds
    PROVE  /\ LenInv' /\ Unmapped /\ fill' # <<>>
           /\ UNCHANGED <<cfg, rx, consumed, descs, tx, nic, completion>>
           /\ Distinct(FramesOf(fill)') /\ Elems(FramesOf(fill)') = 0 .. (cfg.ring_size - 1)
           /\ Distinct(free_frames')
           /\ Elems(free_frames') = cfg.ring_size .. (cfg.num_frames - 1)
  <1> DEFINE z == cfg.frame_size
             r == cfg.ring_size
             n == cfg.num_frames
             s == [i \in 1 .. r |-> i - 1]
  <1>1. /\ z \in Nat \ {0} /\ r \in Nat \ {0} /\ n \in Nat /\ n >= 2 * r /\ ValidConfig
        /\ fill' = [i \in 1 .. r |-> (i - 1) * z]
        /\ free_frames' = [i \in 1 .. (n - r) |-> r + i - 1]
        /\ UNCHANGED <<cfg, rx, tx, completion, nic, pc, consumed, descs, buf>>
        /\ status' = "bound" /\ status = "boot"
    BY ListTypes DEF NewBinds, user, ValidConfig, frame_idx_to_addr
  <1>2. Unmapped
    BY <1>1 DEF LenInv, Mapped
  <1>3. ValidConfig'
    BY <1>1 DEF ValidConfig, is_power_of_two
  <1>4. /\ s \in Seq(Nat) /\ DOMAIN s = 1 .. r /\ Len(s) = r
    <2>1. s \in [1 .. r -> Nat]
      BY <1>1
    <2>2. s \in Seq(Nat)
      BY <1>1, <2>1, SeqDef
    <2> QED
      BY <1>1, <2>2, LenProperties
  <1>5. fill' = [i \in DOMAIN s |-> s[i] * z]
    BY <1>1, <1>4
  <1>6. Elems(s) = 0 .. (r - 1) /\ Distinct(s)
    <2>1. \A i \in 1 .. r : s[i] = i - 1
      OBVIOUS
    <2>2. \A j \in 0 .. (r - 1) : j + 1 \in 1 .. r /\ s[j + 1] = j
      BY <1>1, <2>1
    <2>3. \A i \in 1 .. r : s[i] \in 0 .. (r - 1)
      BY <1>1, <2>1
    <2> HIDE DEF s, r
    <2>4. Elems(s) = 0 .. (r - 1)
      BY <1>4, <2>2, <2>3 DEF Elems
    <2>5. Distinct(s)
      BY <1>1, <1>4, <2>1 DEF Distinct
    <2> QED
      BY <2>4, <2>5
  <1> HIDE DEF s, z
  <1>7. /\ fill' \in Seq(Nat) /\ Len(fill') = r /\ Index(z, fill') = s
        /\ \A a \in Elems(fill') : a = (a \div z) * z
    <2>1. z \in Nat \ {0} /\ s \in Seq(Nat)
      BY <1>1, <1>4
    <2>2. /\ fill' \in Seq(Nat) /\ Len(fill') = Len(s) /\ Index(z, fill') = s
          /\ \A a \in Elems(fill') : a = (a \div z) * z
      BY <1>5, <2>1, AddrsOfFrames
    <2> QED
      BY <1>4, <2>2
  <1>8. /\ free_frames' \in Seq(Nat) /\ Len(free_frames') = n - r
        /\ DOMAIN free_frames' = 1 .. (n - r)
    <2>1. free_frames' \in [1 .. (n - r) -> Nat] /\ n - r \in Nat
      BY <1>1
    <2>2. free_frames' \in Seq(Nat)
      BY <2>1, SeqDef
    <2> QED
      BY <2>1, <2>2, LenProperties
  <1>9. Elems(free_frames') = r .. (n - 1) /\ Distinct(free_frames')
    <2>1. \A i \in 1 .. (n - r) : free_frames'[i] = r + i - 1
      BY <1>1
    <2> HIDE DEF r, n
    <2>2. \A j \in r .. (n - 1) : j - r + 1 \in 1 .. (n - r) /\ free_frames'[j - r + 1] = j
      BY <1>1, <2>1
    <2>3. \A i \in 1 .. (n - r) : free_frames'[i] \in r .. (n - 1)
      BY <1>1, <2>1
    <2>4. Elems(free_frames') = r .. (n - 1)
      BY <1>8, <2>2, <2>3 DEF Elems
    <2>5. Distinct(free_frames')
      BY <1>1, <1>8, <2>1 DEF Distinct
    <2> QED
      BY <2>4, <2>5
  <1>10. ListsTyped'
    BY <1>1, <1>7, <1>8 DEF LenInv, ListsTyped, Addrs
  <1>11. FillAligned'
    <2>1. \A i \in DOMAIN fill' : fill'[i] \in Elems(fill')
      BY DEF Elems
    <2> QED
      BY <1>1, <1>7, <2>1 DEF FillAligned, frame_idx_to_addr, addr_to_frame_idx, z
  <1>12. InHand'
    BY <1>1 DEF LenInv, InHand
  <1>13. Mapped'
    <2>1. Len(<<>>) = 0
      OBVIOUS
    <2>2. /\ Len(rx') = 0 /\ Len(consumed') = 0 /\ Len(descs') = 0 /\ Len(tx') = 0
          /\ Len(nic') = 0 /\ Len(completion') = 0
      BY <1>1, <1>2, <2>1 DEF Unmapped
    <2>3. Len(fill') + Len(rx') + Len(consumed') = r
      BY <1>1, <1>7, <2>2
    <2>4. Len(free_frames') + Len(descs') + Len(tx') + Len(nic') + Len(completion') = n - r
      BY <1>1, <1>8, <2>2
    <2>5. n = 2 * r => n - r = r
      BY <1>1
    <2>6. n - r <= n - r /\ 0 <= r
      BY <1>1
    <2> QED
      BY <1>1, <1>3, <2>2, <2>3, <2>4, <2>5, <2>6 DEF Mapped
  <1>14. fill' # <<>>
    BY <1>1, <1>7, EmptyLen
  <1> QED
    BY <1>1, <1>2, <1>6, <1>7, <1>9, <1>10, <1>11, <1>12, <1>13, <1>14 DEF LenInv, FramesOf, z

LEMMA LenNext ==
    ASSUME LenInv, [Next]_vars
    PROVE  LenInv'
  <1>1. CASE Next
    <2>1. CASE Terminated
      BY <2>1, QuietSteps DEF Terminated
    <2> QED
      BY <1>1, <2>1, QuietSteps, NewBindsSeeds, RecvTakeMoves, RecvRefillMoves, SendDrainMoves,
         SendWriteMoves, SendInsertSheds, KernelReceivesMoves, KernelTakesMoves,
         KernelCompletesMoves
         DEF Next, run_per_queue
  <1>2. CASE UNCHANGED vars
    BY <1>2, QuietSteps
  <1> QED
    BY <1>1, <1>2

LEMMA LenInvHolds == Spec => []LenInv
  <1>1. Init => LenInv
    BY InitLen
  <1>2. LenInv /\ [Next]_vars => LenInv'
    BY LenNext
  <1> QED
    BY <1>1, <1>2, PTL DEF Spec

-----------------------------------------------------------------------------
(***************************************************************************)
(* The transmit path stalls only behind a wake that failed: as long as TX  *)
(* has descriptors and the kernel sleeps, either it still owes frames it   *)
(* has taken, which the next drain_completions will find, or the thread    *)
(* has got past the early return and is on its way to the wake.            *)
(***************************************************************************)
WakeIsDue ==
    parked /\ tx # <<>> /\ ~refused =>
        nic # <<>> \/ completion # <<>> \/ pc \in {"write", "insert", "wake"}

LEMMA WakeIsDueNext ==
    ASSUME LenInv, LenInv', WakeIsDue, [Next]_vars
    PROVE  WakeIsDue'
  <1> USE DEF WakeIsDue, user, rings, ghost
  <1>1. CASE NewFails \/ register_xsk \/ Shutdown \/ UNCHANGED vars
    BY <1>1 DEF NewFails, register_xsk, Shutdown, vars
  <1>2. CASE NewBinds
    BY <1>2 DEF NewBinds
  <1>3. CASE RecvTake \/ RecvCopy \/ RecvRefill \/ Process
    BY <1>3 DEF RecvTake, RecvCopy, RecvRefill, Process
  <1>4. CASE SendDrain
    <2>1. CASE completion = <<>>
      BY <1>4, <2>1 DEF SendDrain
    <2>2. CASE completion # <<>>
      <3>1. /\ free_frames \in Seq(Nat) /\ free_frames' \in Seq(Nat) /\ completion \in Seq(Nat)
            /\ cfg.frame_size \in Nat \ {0}
        BY ListTypes DEF LenInv, ListsTyped, Addrs
      <3>2. Len(completion) \in Nat \ {0} /\ Len(free_frames) \in Nat
        BY <2>2, <3>1, EmptyLen
      <3>3. /\ Map(completion, addr_to_frame_idx) = FramesOf(completion)
        BY DEF Map, FramesOf, Index, addr_to_frame_idx
      <3>4. FramesOf(completion) \in Seq(Nat) /\ Len(FramesOf(completion)) = Len(completion)
        BY <3>1, IndexType DEF FramesOf
      <3>5. Splits(free_frames', free_frames, FramesOf(completion))
        BY <1>4, <3>1, <3>3, <3>4, ConcatSplits DEF SendDrain
      <3>6. free_frames' # <<>>
        BY <3>1, <3>2, <3>4, <3>5, EmptyLen DEF Splits
      <3> QED
        BY <1>4, <3>6 DEF SendDrain
    <2> QED
      BY <2>1, <2>2
  <1>5. CASE SendWrite \/ SendInsert
    BY <1>5 DEF SendWrite, SendInsert
  <1>6. CASE SendWake
    BY <1>6 DEF SendWake
  <1>7. CASE KernelReceives
    BY <1>7 DEF KernelReceives
  <1>8. CASE KernelTakes
    BY <1>8 DEF KernelTakes
  <1>9. CASE KernelCompletes
    <2>1. completion' # <<>>
      <3>1. completion \in Seq(Nat) /\ Head(nic) \in Nat
        <4>1. nic \in Seq(Nat) /\ nic # <<>>
          BY <1>9, ListTypes DEF KernelCompletes
        <4> QED
          BY <4>1, ListTypes, HeadTailProperties
      <3> QED
        BY <1>9, <3>1, AppendProperties DEF KernelCompletes
    <2> QED
      BY <2>1
  <1>10. CASE KernelParks
    BY <1>10 DEF KernelParks
  <1>11. CASE Terminated
    BY <1>11 DEF Terminated, vars
  <1> QED
    BY <1>1, <1>2, <1>3, <1>4, <1>5, <1>6, <1>7, <1>8, <1>9, <1>10, <1>11 DEF Next, run_per_queue

\* A transmit path that has come to a stop behind a sleeping kernel lost a
\* wake to a failed system call: the early return of send_batch never skips
\* the wake that is needed (send_batch, drain_completions and needs_wakeup of
\* af_xdp.rs).
THEOREM OnlyARefusedWakeStalls == Spec => []StallNeedsRefusal
  <1>1. Init => WakeIsDue
    BY DEF Init, WakeIsDue
  <1>2. LenInv /\ LenInv' /\ WakeIsDue /\ [Next]_vars => WakeIsDue'
    BY WakeIsDueNext
  <1>3. LenInv /\ WakeIsDue => StallNeedsRefusal
    BY DEF LenInv, InHand, WakeIsDue, StallNeedsRefusal, Stalled
  <1> QED
    BY <1>1, <1>2, <1>3, LenInvHolds, PTL DEF Spec

-----------------------------------------------------------------------------
(***************************************************************************)
(* Frames in their places: P[h] is the list of the frames h holds.         *)
(***************************************************************************)
Apart(P) ==
    /\ \A h \in Holders : Distinct(P[h])
    /\ \A h, k \in Holders : h # k => Elems(P[h]) \cap Elems(P[k]) = {}

\* Frames 0 .. r - 1 are with the holders of the RX pool, and those of the
\* TX pool are among the others up to n, and all of them if they are as many.
InPools(P, r, n) ==
    /\ \A f \in 0 .. (r - 1) : \E h \in RxHolders : f \in Elems(P[h])
    /\ \A h \in RxHolders : Elems(P[h]) \subseteq 0 .. (r - 1)
    /\ \A h \in TxHolders : Elems(P[h]) \subseteq r .. (n - 1)
    /\ n = 2 * r => \A f \in r .. (n - 1) : \E h \in TxHolders : f \in Elems(P[h])

Elsewhere(P, Q, a, b) == \A h \in Holders \ {a, b} : Q[h] = P[h]

Transfer(P, Q, a, b) == Elsewhere(P, Q, a, b) /\ Moves(P[a], Q[a], P[b], Q[b])

TransferOrLoss(P, Q, a, b) == Elsewhere(P, Q, a, b) /\ Sheds(P[a], Q[a], P[b], Q[b])

LEMMA EmptyElems == Elems(<<>>) = {} /\ Distinct(<<>>)
  <1>1. DOMAIN <<>> = {}
    OBVIOUS
  <1> QED
    BY <1>1 DEF Elems, Distinct

LEMMA TransferElems ==
    ASSUME NEW P, NEW Q, NEW a \in Holders, NEW b \in Holders, a # b,
           Apart(P), Transfer(P, Q, a, b)
    PROVE  /\ Apart(Q)
           /\ Elems(Q[a]) \subseteq Elems(P[a]) /\ Elems(P[b]) \subseteq Elems(Q[b])
           /\ Elems(Q[a]) \cup Elems(Q[b]) = Elems(P[a]) \cup Elems(P[b])
  <1>1. PICK x : Splits(P[a], x, Q[a]) /\ Splits(Q[b], P[b], x)
    BY DEF Transfer, Moves
  <1>2. /\ Distinct(P[a]) /\ Distinct(P[b]) /\ Elems(P[a]) \cap Elems(P[b]) = {}
        /\ \A h \in Holders \ {a, b} : /\ Q[h] = P[h]
                                       /\ Elems(P[h]) \cap Elems(P[a]) = {}
                                       /\ Elems(P[h]) \cap Elems(P[b]) = {}
    BY DEF Apart, Transfer, Elsewhere
  <1>3. /\ Elems(P[a]) = Elems(x) \cup Elems(Q[a])
        /\ Elems(Q[b]) = Elems(P[b]) \cup Elems(x)
        /\ Elems(x) \cap Elems(Q[a]) = {} /\ Distinct(x) /\ Distinct(Q[a])
    BY <1>1, <1>2 DEF Splits
  <1>4. Distinct(Q[b])
    BY <1>1, <1>2, <1>3 DEF Splits
  <1>5. \A h \in Holders : Distinct(Q[h])
    BY <1>2, <1>3, <1>4 DEF Apart
  <1>6. ASSUME NEW h \in Holders, NEW k \in Holders, h # k
        PROVE  Elems(Q[h]) \cap Elems(Q[k]) = {}
    <2>1. CASE h \notin {a, b} /\ k \notin {a, b}
      BY <1>2, <1>6, <2>1 DEF Apart
    <2>2. CASE h \in {a, b} /\ k \notin {a, b}
      BY <1>2, <1>3, <2>2
    <2>3. CASE h \notin {a, b} /\ k \in {a, b}
      BY <1>2, <1>3, <2>3
    <2>4. CASE h \in {a, b} /\ k \in {a, b}
      BY <1>2, <1>3, <1>6, <2>4
    <2> QED
      BY <2>1, <2>2, <2>3, <2>4
  <1> QED
    BY <1>3, <1>5, <1>6 DEF Apart

LEMMA LossElems ==
    ASSUME NEW P, NEW Q, NEW a \in Holders, NEW b \in Holders, a # b,
           Apart(P), TransferOrLoss(P, Q, a, b)
    PROVE  /\ Apart(Q) /\ Elems(Q[a]) = {}
           /\ Elems(P[b]) \subseteq Elems(Q[b])
           /\ Elems(Q[b]) \subseteq Elems(P[a]) \cup Elems(P[b])
  <1>1. PICK x, y : Splits(P[a], x, y) /\ Splits(Q[b], P[b], x) /\ Q[a] = <<>>
    BY DEF TransferOrLoss, Sheds
  <1>2. /\ Distinct(P[a]) /\ Distinct(P[b]) /\ Elems(P[a]) \cap Elems(P[b]) = {}
        /\ \A h \in Holders \ {a, b} : /\ Q[h] = P[h]
                                       /\ Elems(P[h]) \cap Elems(P[a]) = {}
                                       /\ Elems(P[h]) \cap Elems(P[b]) = {}
    BY DEF Apart, TransferOrLoss, Elsewhere
  <1>3. /\ Elems(x) \subseteq Elems(P[a]) /\ Distinct(x)
        /\ Elems(Q[b]) = Elems(P[b]) \cup Elems(x)
        /\ Elems(Q[a]) = {} /\ Distinct(Q[a])
    BY <1>1, <1>2, EmptyElems DEF Splits
  <1>4. Distinct(Q[b])
    BY <1>1, <1>2, <1>3 DEF Splits
  <1>5. \A h \in Holders : Distinct(Q[h])
    BY <1>2, <1>3, <1>4 DEF Apart
  <1>6. ASSUME NEW h \in Holders, NEW k \in Holders, h # k
        PROVE  Elems(Q[h]) \cap Elems(Q[k]) = {}
    <2>1. CASE h \notin {a, b} /\ k \notin {a, b}
      BY <1>2, <1>6, <2>1 DEF Apart
    <2>2. CASE h \in {a, b} /\ k \notin {a, b}
      BY <1>2, <1>3, <2>2
    <2>3. CASE h \notin {a, b} /\ k \in {a, b}
      BY <1>2, <1>3, <2>3
    <2>4. CASE h \in {a, b} /\ k \in {a, b}
      BY <1>2, <1>3, <1>6, <2>4
    <2> QED
      BY <2>1, <2>2, <2>3, <2>4
  <1> QED
    BY <1>3, <1>5, <1>6 DEF Apart

\* A step within a pool keeps the frames of both.
LEMMA TransferPools ==
    ASSUME NEW P, NEW Q, NEW a \in Holders, NEW b \in Holders, a # b,
           a \in RxHolders <=> b \in RxHolders,
           Apart(P), Transfer(P, Q, a, b), NEW r, NEW n, InPools(P, r, n)
    PROVE  InPools(Q, r, n)
  <1>1. /\ Elems(Q[a]) \subseteq Elems(P[a])
        /\ Elems(Q[a]) \cup Elems(Q[b]) = Elems(P[a]) \cup Elems(P[b])
        /\ \A h \in Holders \ {a, b} : Q[h] = P[h]
    <2>1. \A h \in Holders \ {a, b} : Q[h] = P[h]
      BY DEF Transfer, Elsewhere
    <2> QED
      BY <2>1, TransferElems
  <1>2. /\ Holders = RxHolders \cup TxHolders /\ RxHolders \cap TxHolders = {}
        /\ a \in TxHolders <=> b \in TxHolders
    BY DEF Holders, RxHolders, TxHolders
  <1>3. \A H \in {RxHolders, TxHolders} : \A f :
           (\E h \in H : f \in Elems(P[h])) <=> (\E h \in H : f \in Elems(Q[h]))
    <2> SUFFICES ASSUME NEW H \in {RxHolders, TxHolders}, NEW f
                 PROVE  (\E h \in H : f \in Elems(P[h])) <=> (\E h \in H : f \in Elems(Q[h]))
      OBVIOUS
    <2>1. CASE a \in H /\ b \in H
      <3>1. \A h \in H \ {a, b} : Q[h] = P[h]
        BY <1>1, <1>2
      <3> QED
        BY <1>1, <2>1, <3>1
    <2>2. CASE a \notin H /\ b \notin H
      <3>1. \A h \in H : Q[h] = P[h]
        BY <1>1, <1>2, <2>2
      <3> QED
        BY <3>1
    <2> QED
      BY <1>2, <2>1, <2>2
  <1>4. /\ \A f : (\E h \in RxHolders : f \in Elems(P[h])) <=> (\E h \in RxHolders : f \in Elems(Q[h]))
        /\ \A f : (\E h \in TxHolders : f \in Elems(P[h])) <=> (\E h \in TxHolders : f \in Elems(Q[h]))
    BY <1>3
  <1> HIDE DEF RxHolders, TxHolders
  <1>5. \A h \in RxHolders : Elems(Q[h]) \subseteq 0 .. (r - 1)
    BY <1>4 DEF InPools
  <1>6. \A h \in TxHolders : Elems(Q[h]) \subseteq r .. (n - 1)
    BY <1>4 DEF InPools
  <1> QED
    BY <1>4, <1>5, <1>6 DEF InPools

\* What a list of the TX pool sheds is missed only where there are frames to
\* spare.
LEMMA LossPools ==
    ASSUME NEW P, NEW Q, NEW a \in TxHolders, NEW b \in TxHolders, a # b,
           Apart(P), TransferOrLoss(P, Q, a, b), NEW r, NEW n, n # 2 * r, InPools(P, r, n)
    PROVE  InPools(Q, r, n)
  <1>1. a \in Holders /\ b \in Holders /\ RxHolders \cap {a, b} = {}
    BY DEF Holders, RxHolders, TxHolders
  <1>2. /\ Elems(Q[a]) = {} /\ Elems(Q[b]) \subseteq Elems(P[a]) \cup Elems(P[b])
        /\ \A h \in Holders \ {a, b} : Q[h] = P[h]
    BY <1>1, LossElems DEF TransferOrLoss, Elsewhere
  <1>3. \A h \in RxHolders : Q[h] = P[h]
    BY <1>1, <1>2 DEF Holders
  <1>4. \A h \in TxHolders \ {a, b} : Q[h] = P[h]
    BY <1>2 DEF Holders
  <1> HIDE DEF RxHolders, TxHolders
  <1>5. \A h \in TxHolders : Elems(Q[h]) \subseteq r .. (n - 1)
    BY <1>2, <1>4 DEF InPools
  <1> QED
    BY <1>3, <1>5 DEF InPools

\* Who has frame f of the n there are: Holder, for frames that are apart.
HolderIn(P, n, f) ==
    IF \E h \in Holders : f \in Elems(P[h]) THEN CHOOSE h \in Holders : f \in Elems(P[h])
    ELSE IF f < n THEN "lost" ELSE "unmapped"

LEMMA OneHolder ==
    ASSUME NEW P, Apart(P), NEW n, NEW f, NEW h \in Holders, f \in Elems(P[h])
    PROVE  HolderIn(P, n, f) = h
  <1>1. \A k \in Holders : f \in Elems(P[k]) => k = h
    BY DEF Apart
  <1>2. (CHOOSE k \in Holders : f \in Elems(P[k])) = h
    BY <1>1
  <1> QED
    BY <1>2 DEF HolderIn

LEMMA NoHolder ==
    ASSUME NEW P, NEW n, NEW f, \A h \in Holders : f \notin Elems(P[h])
    PROVE  HolderIn(P, n, f) = IF f < n THEN "lost" ELSE "unmapped"
  BY DEF HolderIn

LEMMA TransferHolder ==
    ASSUME NEW P, NEW Q, NEW a \in Holders, NEW b \in Holders, a # b,
           Apart(P), Transfer(P, Q, a, b), NEW n, NEW f
    PROVE  \/ HolderIn(Q, n, f) = HolderIn(P, n, f)
           \/ HolderIn(P, n, f) = a /\ HolderIn(Q, n, f) = b
  <1>1. \A h \in Holders \ {a, b} : Q[h] = P[h]
    BY DEF Transfer, Elsewhere
  <1>2. /\ Apart(Q) /\ Elems(Q[a]) \subseteq Elems(P[a])
        /\ Elems(Q[a]) \cup Elems(Q[b]) = Elems(P[a]) \cup Elems(P[b])
    BY TransferElems
  <1>3. CASE \E h \in Holders : f \in Elems(Q[h])
    <2>1. PICK h \in Holders : f \in Elems(Q[h])
      BY <1>3
    <2>2. HolderIn(Q, n, f) = h
      BY <1>2, <2>1, OneHolder
    <2>3. CASE f \in Elems(P[h])
      BY <2>2, <2>3, OneHolder
    <2>4. CASE f \notin Elems(P[h])
      <3>1. h = b /\ f \in Elems(P[a])
        BY <1>1, <1>2, <2>1, <2>4
      <3> QED
        BY <2>2, <3>1, OneHolder
    <2> QED
      BY <2>3, <2>4
  <1>4. CASE ~ \E h \in Holders : f \in Elems(Q[h])
    <2>1. \A h \in Holders : f \notin Elems(P[h])
      BY <1>1, <1>2, <1>4
    <2> QED
      BY <1>4, <2>1, NoHolder
  <1> QED
    BY <1>3, <1>4

LEMMA LossHolder ==
    ASSUME NEW P, NEW Q, NEW a \in TxHolders, NEW b \in TxHolders, a # b,
           Apart(P), TransferOrLoss(P, Q, a, b),
           NEW r \in Nat, NEW n \in Nat, InPools(P, r, n), NEW f
    PROVE  \/ HolderIn(Q, n, f) = HolderIn(P, n, f)
           \/ HolderIn(P, n, f) = a /\ HolderIn(Q, n, f) \in {b, "lost"}
  <1>1. /\ a \in Holders /\ b \in Holders
        /\ \A h \in Holders \ {a, b} : Q[h] = P[h]
    BY DEF TransferOrLoss, Elsewhere, Holders
  <1>2. /\ Apart(Q) /\ Elems(Q[a]) = {} /\ Elems(P[b]) \subseteq Elems(Q[b])
        /\ Elems(Q[b]) \subseteq Elems(P[a]) \cup Elems(P[b])
    BY <1>1, LossElems
  <1>3. CASE \E h \in Holders : f \in Elems(Q[h])
    <2>1. PICK h \in Holders : f \in Elems(Q[h])
      BY <1>3
    <2>2. HolderIn(Q, n, f) = h
      BY <1>2, <2>1, OneHolder
    <2>3. CASE f \in Elems(P[h])
      BY <2>2, <2>3, OneHolder
    <2>4. CASE f \notin Elems(P[h])
      <3>1. h = b /\ f \in Elems(P[a])
        BY <1>1, <1>2, <2>1, <2>4
      <3> QED
        BY <1>1, <2>2, <3>1, OneHolder
    <2> QED
      BY <2>3, <2>4
  <1>4. CASE ~ \E h \in Holders : f \in Elems(Q[h])
    <2>1. \A h \in Holders \ {a} : f \notin Elems(P[h])
      BY <1>1, <1>2, <1>4
    <2>2. CASE f \in Elems(P[a])
      <3>1. f < n
        <4>1. f \in r .. (n - 1)
          BY <2>2 DEF InPools
        <4> QED
          BY <4>1
      <3>2. HolderIn(Q, n, f) = "lost"
        BY <1>4, <3>1, NoHolder
      <3> QED
        BY <1>1, <2>2, <3>2, OneHolder
    <2>3. CASE f \notin Elems(P[a])
      BY <1>4, <2>1, <2>3, NoHolder
    <2> QED
      BY <2>2, <2>3
  <1> QED
    BY <1>3, <1>4

-----------------------------------------------------------------------------
(***************************************************************************)
(* The frames of the socket, in their places, and the invariant that they  *)
(* are apart and in the pools AfXdpIo::new gave them to.                   *)
(***************************************************************************)
Placed == [h \in Holders |-> FramesOf(HeldIn(h))]

\* How many frames there are: none until the socket is bound.
Size == IF <<fill, rx, consumed>> # <<<<>>, <<>>, <<>>>> THEN cfg.num_frames ELSE 0

PlaceInv ==
    /\ Apart(Placed)
    /\ Size # 0 => InPools(Placed, cfg.ring_size, cfg.num_frames)

LEMMA FreeFrames ==
    ASSUME NEW z \in Nat \ {0}, NEW s \in Seq(Nat)
    PROVE  Index(z, Map(s, LAMBDA i : i * z)) = s
  BY AddrsOfFrames DEF Map

InPlaces ==
    /\ Placed["fill"] = FramesOf(fill) /\ Placed["rx"] = FramesOf(rx)
    /\ Placed["reading"] = FramesOf(consumed)
    /\ Placed["free"] = free_frames /\ Placed["writing"] = FramesOf(descs)
    /\ Placed["tx"] = FramesOf(tx) /\ Placed["sending"] = FramesOf(nic)
    /\ Placed["completed"] = FramesOf(completion)

LEMMA PlacedAre == LenInv => InPlaces
  <1> SUFFICES ASSUME LenInv
               PROVE  InPlaces
    OBVIOUS
  <1>1. FramesOf(HeldIn("free")) = free_frames
    <2>1. cfg.frame_size \in Nat \ {0} /\ free_frames \in Seq(Nat)
      BY ListTypes
    <2>2. HeldIn("free") = Map(free_frames, LAMBDA i : i * cfg.frame_size)
      BY DEF HeldIn, Map, frame_idx_to_addr
    <2> QED
      BY <2>1, <2>2, FreeFrames DEF FramesOf
  <1>2. /\ HeldIn("fill") = fill /\ HeldIn("rx") = rx /\ HeldIn("reading") = consumed
        /\ HeldIn("writing") = descs /\ HeldIn("tx") = tx /\ HeldIn("sending") = nic
        /\ HeldIn("completed") = completion
    BY DEF HeldIn
  <1>3. \A h \in Holders : Placed[h] = FramesOf(HeldIn(h))
    BY DEF Placed
  <1> QED
    BY <1>1, <1>2, <1>3 DEF InPlaces, Holders, RxHolders, TxHolders

\* A list that has frames shows that there are some.
SizeIs == (Mapped => Size = cfg.num_frames) /\ (Unmapped => Size = 0)

LEMMA SizeAre == LenInv => SizeIs
  <1> SUFFICES ASSUME LenInv
               PROVE  SizeIs
    OBVIOUS
  <1>1. ASSUME Mapped
        PROVE  Size = cfg.num_frames
    <2>1. Len(fill) + Len(rx) + Len(consumed) # 0
      BY <1>1, ListTypes DEF Mapped
    <2>2. Len(<<>>) = 0
      OBVIOUS
    <2>3. ~ (fill = <<>> /\ rx = <<>> /\ consumed = <<>>)
      BY <2>1, <2>2
    <2> QED
      BY <2>3 DEF Size
  <1>2. Unmapped => Size = 0
    BY DEF Unmapped, Size
  <1> QED
    BY <1>1, <1>2 DEF SizeIs

\* The steps of the program and the kernel as transfers between holders.
Passes(a, b) ==
    /\ Size = cfg.num_frames /\ Size' = Size /\ UNCHANGED cfg
    /\ Transfer(Placed, Placed', a, b)

MayLose(a, b) ==
    /\ Size = cfg.num_frames /\ Size' = Size /\ UNCHANGED cfg
    /\ cfg.num_frames # 2 * cfg.ring_size
    /\ TransferOrLoss(Placed, Placed', a, b)

LEMMA StepPasses ==
    ASSUME LenInv, LenInv', InPlaces, InPlaces', SizeIs, SizeIs', [Next]_vars
    PROVE  \/ NewBinds
           \/ UNCHANGED <<cfg, Size, Placed>>
           \/ Passes("fill", "rx") \/ Passes("rx", "reading") \/ Passes("reading", "fill")
           \/ Passes("free", "writing") \/ Passes("writing", "tx") \/ Passes("tx", "sending")
           \/ Passes("sending", "completed") \/ Passes("completed", "free")
           \/ MayLose("writing", "tx")
  <1> DEFINE P == Placed
             Q == Placed'
  <1>1. CASE Quiet
    BY <1>1 DEF Quiet, lists, Size, Placed, FramesOf, HeldIn, Map, frame_idx_to_addr
  <1> HIDE DEF P, Q
  <1>2. /\ P["fill"] = FramesOf(fill) /\ P["rx"] = FramesOf(rx) /\ P["reading"] = FramesOf(consumed)
        /\ P["free"] = free_frames /\ P["writing"] = FramesOf(descs) /\ P["tx"] = FramesOf(tx)
        /\ P["sending"] = FramesOf(nic) /\ P["completed"] = FramesOf(completion)
    BY DEF InPlaces, P
  <1>3. /\ Q["fill"] = FramesOf(fill)' /\ Q["rx"] = FramesOf(rx)'
        /\ Q["reading"] = FramesOf(consumed)' /\ Q["free"] = free_frames'
        /\ Q["writing"] = FramesOf(descs)' /\ Q["tx"] = FramesOf(tx)'
        /\ Q["sending"] = FramesOf(nic)' /\ Q["completed"] = FramesOf(completion)'
    BY DEF InPlaces, Q
  <1>4. ASSUME UNCHANGED cfg
        PROVE  /\ UNCHANGED fill => Q["fill"] = P["fill"]
               /\ UNCHANGED rx => Q["rx"] = P["rx"]
               /\ UNCHANGED consumed => Q["reading"] = P["reading"]
               /\ UNCHANGED free_frames => Q["free"] = P["free"]
               /\ UNCHANGED descs => Q["writing"] = P["writing"]
               /\ UNCHANGED tx => Q["tx"] = P["tx"]
               /\ UNCHANGED nic => Q["sending"] = P["sending"]
               /\ UNCHANGED completion => Q["completed"] = P["completed"]
    BY <1>2, <1>3, <1>4 DEF FramesOf
  <1>5. ASSUME UNCHANGED cfg, status = "up", status' = "up"
        PROVE  Size = cfg.num_frames /\ Size' = Size
    BY <1>5 DEF LenInv, Unmapped, SizeIs
  <1>6. CASE RecvTake
    <2>1. /\ UNCHANGED <<cfg, status, fill, free_frames, descs, tx, nic, completion>>
          /\ status = "up"
      BY <1>6 DEF RecvTake
    <2>2. Elsewhere(P, Q, "rx", "reading")
      BY <1>4, <2>1 DEF Elsewhere, Holders, RxHolders, TxHolders
    <2>3. Moves(P["rx"], Q["rx"], P["reading"], Q["reading"])
      BY <1>2, <1>3, <1>6, RecvTakeMoves
    <2> QED
      BY <1>5, <2>1, <2>2, <2>3 DEF Passes, Transfer, P, Q
  <1>7. CASE RecvRefill
    <2>1. /\ UNCHANGED <<cfg, status, rx, free_frames, descs, tx, nic, completion>>
          /\ status = "up"
      BY <1>7 DEF RecvRefill, LenInv, InHand
    <2>2. Elsewhere(P, Q, "reading", "fill")
      BY <1>4, <2>1 DEF Elsewhere, Holders, RxHolders, TxHolders
    <2>3. Moves(P["reading"], Q["reading"], P["fill"], Q["fill"])
      BY <1>2, <1>3, <1>7, RecvRefillMoves
    <2> QED
      BY <1>5, <2>1, <2>2, <2>3 DEF Passes, Transfer, P, Q
  <1>8. CASE SendDrain
    <2>1. /\ UNCHANGED <<cfg, status, fill, rx, consumed, descs, tx, nic>>
          /\ status = "up"
      BY <1>8 DEF SendDrain, LenInv, InHand
    <2>2. Elsewhere(P, Q, "completed", "free")
      BY <1>4, <2>1 DEF Elsewhere, Holders, RxHolders, TxHolders
    <2>3. Moves(P["completed"], Q["completed"], P["free"], Q["free"])
      BY <1>2, <1>3, <1>8, SendDrainMoves
    <2> QED
      BY <1>5, <2>1, <2>2, <2>3 DEF Passes, Transfer, P, Q
  <1>9. CASE SendWrite
    <2>1. /\ UNCHANGED <<cfg, status, fill, rx, consumed, tx, nic, completion>>
          /\ status = "up"
      BY <1>9 DEF SendWrite, LenInv, InHand
    <2>2. Elsewhere(P, Q, "free", "writing")
      BY <1>4, <2>1 DEF Elsewhere, Holders, RxHolders, TxHolders
    <2>3. Moves(P["free"], Q["free"], P["writing"], Q["writing"])
      BY <1>2, <1>3, <1>9, SendWriteMoves
    <2> QED
      BY <1>5, <2>1, <2>2, <2>3 DEF Passes, Transfer, P, Q
  <1>10. CASE SendInsert
    <2>1. /\ UNCHANGED <<cfg, status, fill, rx, consumed, free_frames, nic, completion>>
          /\ status = "up"
      BY <1>10 DEF SendInsert, LenInv, InHand
    <2>2. Elsewhere(P, Q, "writing", "tx")
      BY <1>4, <2>1 DEF Elsewhere, Holders, RxHolders, TxHolders
    <2>3. /\ Sheds(P["writing"], Q["writing"], P["tx"], Q["tx"])
          /\ cfg.num_frames = 2 * cfg.ring_size
               => Moves(P["writing"], Q["writing"], P["tx"], Q["tx"])
      BY <1>2, <1>3, <1>10, SendInsertSheds
    <2> QED
      BY <1>5, <2>1, <2>2, <2>3 DEF Passes, Transfer, MayLose, TransferOrLoss, P, Q
  <1>11. CASE KernelReceives
    <2>1. /\ UNCHANGED <<cfg, status, consumed, free_frames, descs, tx, nic, completion>>
          /\ status = "up"
      BY <1>11 DEF KernelReceives, user
    <2>2. Elsewhere(P, Q, "fill", "rx")
      BY <1>4, <2>1 DEF Elsewhere, Holders, RxHolders, TxHolders
    <2>3. Moves(P["fill"], Q["fill"], P["rx"], Q["rx"])
      BY <1>2, <1>3, <1>11, KernelReceivesMoves
    <2> QED
      BY <1>5, <2>1, <2>2, <2>3 DEF Passes, Transfer, P, Q
  <1>12. CASE KernelTakes
    <2>1. /\ UNCHANGED <<cfg, status, fill, rx, consumed, free_frames, descs, completion>>
          /\ status = "up"
      BY <1>12 DEF KernelTakes, user
    <2>2. Elsewhere(P, Q, "tx", "sending")
      BY <1>4, <2>1 DEF Elsewhere, Holders, RxHolders, TxHolders
    <2>3. Moves(P["tx"], Q["tx"], P["sending"], Q["sending"])
      BY <1>2, <1>3, <1>12, KernelTakesMoves
    <2> QED
      BY <1>5, <2>1, <2>2, <2>3 DEF Passes, Transfer, P, Q
  <1>13. CASE KernelCompletes
    <2>1. /\ UNCHANGED <<cfg, status, fill, rx, consumed, free_frames, descs, tx>>
          /\ status = "up"
      BY <1>13 DEF KernelCompletes, user
    <2>2. Elsewhere(P, Q, "sending", "completed")
      BY <1>4, <2>1 DEF Elsewhere, Holders, RxHolders, TxHolders
    <2>3. Moves(P["sending"], Q["sending"], P["completed"], Q["completed"])
      BY <1>2, <1>3, <1>13, KernelCompletesMoves
    <2> QED
      BY <1>5, <2>1, <2>2, <2>3 DEF Passes, Transfer, P, Q
  <1> QED
    BY <1>1, <1>6, <1>7, <1>8, <1>9, <1>10, <1>11, <1>12, <1>13, QuietSteps
       DEF Next, run_per_queue, Terminated

LEMMA UnmappedPlaces ==
    ASSUME LenInv, InPlaces, Unmapped
    PROVE  \A h \in Holders : Elems(Placed[h]) = {} /\ Distinct(Placed[h])
  <1>1. \A s : s = <<>> => Index(cfg.frame_size, s) = <<>>
    <2> SUFFICES ASSUME NEW s, s = <<>>
                 PROVE  Index(cfg.frame_size, s) = <<>>
      OBVIOUS
    <2>1. cfg.frame_size \in Nat \ {0} /\ s \in Seq(Nat)
      BY ListTypes
    <2> QED
      BY <2>1, EmptySplits
  <1>2. \A h \in Holders : Placed[h] = <<>>
    <2>1. /\ FramesOf(fill) = <<>> /\ FramesOf(rx) = <<>> /\ FramesOf(consumed) = <<>>
          /\ free_frames = <<>> /\ FramesOf(descs) = <<>> /\ FramesOf(tx) = <<>>
          /\ FramesOf(nic) = <<>> /\ FramesOf(completion) = <<>>
      BY <1>1 DEF Unmapped, FramesOf
    <2> QED
      BY <2>1 DEF InPlaces, Holders, RxHolders, TxHolders
  <1> QED
    BY <1>2, EmptyElems

\* The frames once the pools are seeded.
LEMMA SeededPlaces ==
    ASSUME LenInv, LenInv', InPlaces, InPlaces', SizeIs', NewBinds
    PROVE  /\ Elems(Placed'["fill"]) = 0 .. (cfg.ring_size - 1)
           /\ Elems(Placed'["free"]) = cfg.ring_size .. (cfg.num_frames - 1)
           /\ \A h \in Holders \ {"fill", "free"} : Elems(Placed'[h]) = {}
           /\ \A h \in Holders : Distinct(Placed'[h])
           /\ Size' = cfg.num_frames /\ cfg' = cfg
  <1>1. /\ Unmapped /\ fill' # <<>>
        /\ UNCHANGED <<cfg, rx, consumed, descs, tx, nic, completion>>
        /\ Distinct(FramesOf(fill)') /\ Elems(FramesOf(fill)') = 0 .. (cfg.ring_size - 1)
        /\ Distinct(free_frames')
        /\ Elems(free_frames') = cfg.ring_size .. (cfg.num_frames - 1)
    BY NewBindsSeeds
  <1> DEFINE P == Placed
             Q == Placed'
  <1>2. \A h \in Holders : Elems(P[h]) = {} /\ Distinct(P[h])
    BY <1>1, UnmappedPlaces
  <1>3. /\ P["rx"] = FramesOf(rx) /\ P["reading"] = FramesOf(consumed)
        /\ P["writing"] = FramesOf(descs) /\ P["tx"] = FramesOf(tx)
        /\ P["sending"] = FramesOf(nic) /\ P["completed"] = FramesOf(completion)
    BY DEF InPlaces
  <1>4. /\ Q["rx"] = FramesOf(rx)' /\ Q["reading"] = FramesOf(consumed)'
        /\ Q["writing"] = FramesOf(descs)' /\ Q["tx"] = FramesOf(tx)'
        /\ Q["sending"] = FramesOf(nic)' /\ Q["completed"] = FramesOf(completion)'
        /\ Q["fill"] = FramesOf(fill)' /\ Q["free"] = free_frames'
    BY DEF InPlaces
  <1> HIDE DEF P, Q
  <1>5. \A h \in Holders \ {"fill", "free"} : Q[h] = P[h]
    BY <1>1, <1>3, <1>4 DEF FramesOf, Holders, RxHolders, TxHolders
  <1>6. \A h \in Holders : Distinct(Q[h])
    <2>1. Distinct(Q["fill"]) /\ Distinct(Q["free"])
      BY <1>1, <1>4
    <2> QED
      BY <1>2, <1>5, <2>1
  <1>7. Size' = cfg.num_frames
    BY <1>1 DEF Size
  <1> QED
    BY <1>1, <1>2, <1>4, <1>5, <1>6, <1>7 DEF Q

LEMMA PlaceInit ==
    ASSUME LenInv, InPlaces, Init
    PROVE  PlaceInv
  <1>1. Unmapped
    BY DEF Init, Unmapped
  <1>2. Size = 0
    BY <1>1 DEF Unmapped, Size
  <1>3. Apart(Placed)
    BY <1>1, UnmappedPlaces DEF Apart
  <1> QED
    BY <1>2, <1>3 DEF PlaceInv

LEMMA PassKeeps ==
    ASSUME LenInv, NEW a \in Holders, NEW b \in Holders, a # b,
           a \in RxHolders <=> b \in RxHolders, PlaceInv, Passes(a, b)
    PROVE  PlaceInv'
  <1> DEFINE P == Placed
             Q == Placed'
  <1>1. /\ Apart(P) /\ Transfer(P, Q, a, b) /\ cfg' = cfg
        /\ InPools(P, cfg.ring_size, cfg.num_frames)
    BY ListTypes DEF PlaceInv, Passes
  <1> HIDE DEF P, Q
  <1>2. Apart(Q)
    BY <1>1, TransferElems
  <1>3. InPools(Q, cfg.ring_size, cfg.num_frames)
    BY <1>1, TransferPools
  <1>4. Apart(Placed)' /\ InPools(Placed, cfg.ring_size, cfg.num_frames)'
    BY <1>1, <1>2, <1>3 DEF Apart, InPools, Q
  <1> QED
    BY <1>4 DEF PlaceInv

LEMMA PoolsDisjoint ==
    ASSUME NEW r \in Nat, NEW n \in Nat
    PROVE  (0 .. (r - 1)) \cap (r .. (n - 1)) = {}
  OBVIOUS

LEMMA PlaceNext ==
    ASSUME LenInv, LenInv', InPlaces, InPlaces', SizeIs, SizeIs', PlaceInv, [Next]_vars
    PROVE  PlaceInv'
  <1>1. CASE NewBinds
    <2> DEFINE Q == Placed'
               r == cfg.ring_size
               n == cfg.num_frames
    <2>1. /\ Elems(Q["fill"]) = 0 .. (r - 1) /\ Elems(Q["free"]) = r .. (n - 1)
          /\ \A h \in Holders \ {"fill", "free"} : Elems(Q[h]) = {}
          /\ \A h \in Holders : Distinct(Q[h])
          /\ cfg' = cfg
      BY <1>1, SeededPlaces
    <2> HIDE DEF Q
    <2>2. r \in Nat /\ n \in Nat
      BY ListTypes
    <2> HIDE DEF r, n
    <2>3. Elems(Q["fill"]) \cap Elems(Q["free"]) = {}
      <3>1. (0 .. (r - 1)) \cap (r .. (n - 1)) = {}
        BY <2>2, PoolsDisjoint
      <3> QED
        BY <2>1, <3>1
    <2>4. Apart(Q)
      <3>1. ASSUME NEW h \in Holders, NEW k \in Holders, h # k
            PROVE  Elems(Q[h]) \cap Elems(Q[k]) = {}
        <4>1. CASE h \in {"fill", "free"} /\ k \in {"fill", "free"}
          <5>1. CASE h = "fill" /\ k = "free"
            BY <2>3, <5>1
          <5>2. CASE h = "free" /\ k = "fill"
            BY <2>3, <5>2
          <5> QED
            BY <3>1, <4>1, <5>1, <5>2
        <4>2. CASE h \notin {"fill", "free"}
          <5>1. Elems(Q[h]) = {}
            BY <2>1, <4>2
          <5> QED
            BY <5>1
        <4>3. CASE k \notin {"fill", "free"}
          <5>1. Elems(Q[k]) = {}
            BY <2>1, <4>3
          <5> QED
            BY <5>1
        <4> QED
          BY <4>1, <4>2, <4>3
      <3>2. \A h \in Holders : Distinct(Q[h])
        BY <2>1
      <3> QED
        BY <3>1, <3>2 DEF Apart
    <2>5. InPools(Q, r, n)
      <3>1. /\ "fill" \in RxHolders /\ "free" \in TxHolders
            /\ "fill" \notin TxHolders /\ "free" \notin RxHolders
            /\ RxHolders \subseteq Holders /\ TxHolders \subseteq Holders
        BY DEF Holders, RxHolders, TxHolders
      <3> HIDE DEF RxHolders, TxHolders
      <3> QED
        BY <2>1, <3>1 DEF InPools
    <2>6. Apart(Placed)' /\ InPools(Placed, cfg.ring_size, cfg.num_frames)'
      BY <2>1, <2>4, <2>5 DEF Apart, InPools, Q, r, n
    <2> QED
      BY <2>6 DEF PlaceInv
  <1>2. CASE UNCHANGED <<cfg, Size, Placed>>
    BY <1>2 DEF PlaceInv, Apart, InPools
  <1>3. CASE Passes("fill", "rx") \/ Passes("rx", "reading") \/ Passes("reading", "fill")
    BY <1>3, PassKeeps DEF Holders, RxHolders, TxHolders
  <1>4. CASE \/ Passes("free", "writing") \/ Passes("writing", "tx") \/ Passes("tx", "sending")
             \/ Passes("sending", "completed") \/ Passes("completed", "free")
    BY <1>4, PassKeeps DEF Holders, RxHolders, TxHolders
  <1>5. CASE MayLose("writing", "tx")
    <2> DEFINE P == Placed
               Q == Placed'
    <2>1. /\ Apart(P) /\ TransferOrLoss(P, Q, "writing", "tx") /\ cfg' = cfg
          /\ InPools(P, cfg.ring_size, cfg.num_frames)
          /\ cfg.num_frames # 2 * cfg.ring_size
      BY <1>5, ListTypes DEF PlaceInv, MayLose
    <2>2. /\ "writing" \in TxHolders /\ "tx" \in TxHolders /\ "writing" # "tx"
          /\ "writing" \in Holders /\ "tx" \in Holders
      BY DEF TxHolders, Holders
    <2> HIDE DEF P, Q
    <2>3. Apart(Q)
      BY <2>1, <2>2, LossElems
    <2>4. InPools(Q, cfg.ring_size, cfg.num_frames)
      BY <2>1, <2>2, LossPools
    <2>5. Apart(Placed)' /\ InPools(Placed, cfg.ring_size, cfg.num_frames)'
      BY <2>1, <2>3, <2>4 DEF Apart, InPools, Q
    <2> QED
      BY <2>5 DEF PlaceInv
  <1> QED
    BY <1>1, <1>2, <1>3, <1>4, <1>5, StepPasses

LEMMA PlaceInvHolds == Spec => [](LenInv /\ InPlaces /\ SizeIs /\ PlaceInv)
  <1>1. LenInv /\ InPlaces /\ Init => PlaceInv
    BY PlaceInit
  <1>2. LenInv /\ LenInv' /\ InPlaces /\ InPlaces' /\ SizeIs /\ SizeIs' /\ PlaceInv
          /\ [Next]_vars => PlaceInv'
    BY PlaceNext
  <1> QED
    BY <1>1, <1>2, PlacedAre, SizeAre, LenInvHolds, PTL DEF Spec

-----------------------------------------------------------------------------
(***************************************************************************)
(* The refinement: Holder is HolderIn of the frames in their places, whose *)
(* steps the lemmas above follow.                                          *)
(***************************************************************************)
HolderFollows == \A f \in Frames : Holder(f) = HolderIn(Placed, Size, f)

LEMMA FramesNat == \A f \in Frames : f \in Nat
  <1>1. \A c \in Configs : c.num_frames \in Nat
    BY ConfigTyped
  <1> QED
    BY <1>1 DEF Frames

LEMMA HolderAre == LenInv /\ PlaceInv => HolderFollows
  <1> SUFFICES ASSUME LenInv, PlaceInv, NEW f \in Frames
               PROVE  Holder(f) = HolderIn(Placed, Size, f)
    BY DEF HolderFollows
  <1> DEFINE held == {h \in Holders : Has(HeldIn(h), f)}
  <1>1. \A h \in Holders : /\ DOMAIN Placed[h] = DOMAIN HeldIn(h)
                           /\ \A i \in DOMAIN HeldIn(h) :
                                 Placed[h][i] = addr_to_frame_idx(HeldIn(h)[i])
    BY DEF Placed, FramesOf, Index, addr_to_frame_idx
  <1>2. \A h \in Holders : Has(HeldIn(h), f) <=> f \in Elems(Placed[h])
    BY <1>1 DEF Has, Elems
  <1>3. CASE \E h \in Holders : f \in Elems(Placed[h])
    <2>1. PICK h \in Holders : f \in Elems(Placed[h])
      BY <1>3
    <2>2. HolderIn(Placed, Size, f) = h
      BY <2>1, OneHolder DEF PlaceInv
    <2>3. held = {h}
      <3>1. \A k \in Holders : f \in Elems(Placed[k]) => k = h
        BY <2>1 DEF PlaceInv, Apart
      <3> QED
        BY <1>2, <2>1, <3>1
    <2>4. (CHOOSE x \in held : TRUE) = h
      BY <2>3
    <2>5. ASSUME NEW i \in DOMAIN HeldIn(h), NEW j \in DOMAIN HeldIn(h), i < j,
                 {addr_to_frame_idx(HeldIn(h)[k]) : k \in {i, j}} = {f}
          PROVE  FALSE
      <3>1. addr_to_frame_idx(HeldIn(h)[i]) = f /\ addr_to_frame_idx(HeldIn(h)[j]) = f
        BY <2>5
      <3>2. Placed[h][i] = Placed[h][j] /\ i \in DOMAIN Placed[h] /\ j \in DOMAIN Placed[h]
        BY <1>1, <2>1, <3>1
      <3>3. i = j
        BY <3>2 DEF PlaceInv, Apart, Distinct
      <3>4. i \in Nat
        <4>1. DOMAIN HeldIn(h) \subseteq Nat
          <5>1. \A s \in Seq(Nat) : DOMAIN s \subseteq Nat
            BY LenProperties
          <5>2. DOMAIN Map(free_frames, frame_idx_to_addr) = DOMAIN free_frames
            BY DEF Map
          <5> QED
            BY <5>1, <5>2, ListTypes DEF HeldIn, Holders, RxHolders, TxHolders
        <4> QED
          BY <4>1
      <3> QED
        BY <2>5, <3>3, <3>4
    <2> DEFINE c == CHOOSE x \in held : TRUE
               twice == \E i, j \in DOMAIN HeldIn(c) :
                            i < j /\ {addr_to_frame_idx(HeldIn(c)[k]) : k \in {i, j}} = {f}
    <2>6. Holder(f) = IF held = {}
                      THEN IF f < cfg.num_frames /\ <<fill, rx, consumed>> # <<<<>>, <<>>, <<>>>>
                           THEN "lost" ELSE "unmapped"
                      ELSE IF held # {c} \/ twice THEN "shared" ELSE c
      BY DEF Holder
    <2> HIDE DEF held, c
    <2>7. c = h
      BY <2>4 DEF c
    <2>8. ~twice
      BY <2>5, <2>7
    <2> HIDE DEF twice
    <2> QED
      BY <2>2, <2>3, <2>6, <2>7, <2>8
  <1>4. CASE ~ \E h \in Holders : f \in Elems(Placed[h])
    <2>1. held = {}
      BY <1>2, <1>4
    <2>2. HolderIn(Placed, Size, f) = IF f < Size THEN "lost" ELSE "unmapped"
      BY <1>4, NoHolder
    <2>3. ~ (f < 0)
      BY FramesNat
    <2>4. Holder(f) = IF f < cfg.num_frames /\ <<fill, rx, consumed>> # <<<<>>, <<>>, <<>>>>
                      THEN "lost" ELSE "unmapped"
      BY <2>1 DEF Holder
    <2> QED
      BY <2>2, <2>3, <2>4 DEF Size
  <1> QED
    BY <1>3, <1>4

LEMMA BindHolder ==
    ASSUME LenInv, LenInv', InPlaces, InPlaces', SizeIs, SizeIs', PlaceInv, PlaceInv',
           NewBinds, NEW f \in Frames
    PROVE  /\ HolderIn(Placed, Size, f) = "unmapped"
           /\ HolderIn(Placed', Size', f) \in {"unmapped", "fill", "free"}
  <1> DEFINE Q == Placed'
             r == cfg.ring_size
             n == cfg.num_frames
  <1>1. Unmapped
    BY NewBindsSeeds
  <1>2. HolderIn(Placed, Size, f) = "unmapped"
    <2>1. \A h \in Holders : f \notin Elems(Placed[h])
      BY <1>1, UnmappedPlaces
    <2>2. Size = 0 /\ ~ (f < 0)
      BY <1>1, FramesNat DEF SizeIs
    <2> QED
      BY <2>1, <2>2, NoHolder
  <1>3. Apart(Q)
    BY DEF PlaceInv, Apart
  <1>4. /\ Elems(Q["fill"]) = 0 .. (r - 1) /\ Elems(Q["free"]) = r .. (n - 1)
        /\ \A h \in Holders \ {"fill", "free"} : Elems(Q[h]) = {}
        /\ Size' = n
    BY SeededPlaces
  <1>5. f \in Nat /\ r \in Nat /\ n \in Nat
    BY FramesNat, ListTypes
  <1>6. "fill" \in Holders /\ "free" \in Holders
    BY DEF Holders, RxHolders, TxHolders
  <1> HIDE DEF Q, r, n
  <1>7. CASE f \in 0 .. (r - 1)
    <2>1. f \in Elems(Q["fill"])
      BY <1>4, <1>7
    <2>2. HolderIn(Q, n, f) = "fill"
      BY <1>3, <1>6, <2>1, OneHolder
    <2> QED
      BY <1>2, <1>4, <2>2 DEF Q
  <1>8. CASE f \in r .. (n - 1)
    <2>1. f \in Elems(Q["free"])
      BY <1>4, <1>8
    <2>2. HolderIn(Q, n, f) = "free"
      BY <1>3, <1>6, <2>1, OneHolder
    <2> QED
      BY <1>2, <1>4, <2>2 DEF Q
  <1>9. CASE f \notin 0 .. (r - 1) /\ f \notin r .. (n - 1)
    <2>1. \A h \in Holders : f \notin Elems(Q[h])
      <3>1. f \notin Elems(Q["fill"]) /\ f \notin Elems(Q["free"])
        BY <1>4, <1>9
      <3>2. \A h \in Holders \ {"fill", "free"} : f \notin Elems(Q[h])
        BY <1>4
      <3> QED
        BY <3>1, <3>2
    <2>2. ~ (f < n)
      BY <1>5, <1>9
    <2>3. HolderIn(Q, n, f) = "unmapped"
      BY <2>1, <2>2, NoHolder
    <2> QED
      BY <1>2, <1>4, <2>3 DEF Q
  <1> QED
    BY <1>7, <1>8, <1>9

LEMMA StepHolders ==
    ASSUME LenInv, LenInv', InPlaces, InPlaces', SizeIs, SizeIs', PlaceInv, PlaceInv',
           [Next]_vars, NEW f \in Frames
    PROVE  \/ HolderIn(Placed', Size', f) = HolderIn(Placed, Size, f)
           \/ HolderIn(Placed', Size', f) \in Ownership!Successors(HolderIn(Placed, Size, f))
  <1> DEFINE P == Placed
             Q == Placed'
             before == HolderIn(P, Size, f)
             after  == HolderIn(Q, Size', f)
  <1>1. CASE NewBinds
    <2>1. before = "unmapped" /\ after \in {"unmapped", "fill", "free"}
      BY <1>1, BindHolder
    <2> QED
      BY <2>1 DEF Ownership!Successors
  <1>2. CASE UNCHANGED <<cfg, Size, Placed>>
    BY <1>2
  <1>3. ASSUME NEW a \in Holders, NEW b \in Holders, a # b, Passes(a, b)
        PROVE  after = before \/ (before = a /\ after = b)
    <2>1. Apart(P) /\ Transfer(P, Q, a, b) /\ Size' = Size
      BY <1>3 DEF PlaceInv, Passes
    <2> HIDE DEF P, Q
    <2> QED
      BY <1>3, <2>1, TransferHolder
  <1>4. CASE MayLose("writing", "tx")
    <2>1. /\ Apart(P) /\ TransferOrLoss(P, Q, "writing", "tx") /\ Size' = Size
          /\ InPools(P, cfg.ring_size, Size) /\ cfg.ring_size \in Nat /\ Size \in Nat
      BY <1>4, ListTypes DEF PlaceInv, MayLose
    <2>2. "writing" \in TxHolders /\ "tx" \in TxHolders /\ "writing" # "tx"
      BY DEF TxHolders
    <2> HIDE DEF P, Q
    <2>3. after = before \/ (before = "writing" /\ after \in {"tx", "lost"})
      BY <2>1, <2>2, LossHolder
    <2> HIDE DEF before, after
    <2>4. after = before \/ after \in Ownership!Successors(before)
      BY <2>3 DEF Ownership!Successors
    <2> QED
      BY <2>4 DEF before, after, P, Q
  <1> HIDE DEF before, after
  <1>5. CASE Passes("fill", "rx") \/ Passes("rx", "reading") \/ Passes("reading", "fill")
    <2>1. \/ after = before \/ (before = "fill" /\ after = "rx")
          \/ (before = "rx" /\ after = "reading") \/ (before = "reading" /\ after = "fill")
      BY <1>3, <1>5 DEF Holders, RxHolders
    <2>2. after = before \/ after \in Ownership!Successors(before)
      BY <2>1 DEF Ownership!Successors
    <2> QED
      BY <2>2 DEF before, after, P, Q
  <1>6. CASE \/ Passes("free", "writing") \/ Passes("writing", "tx") \/ Passes("tx", "sending")
             \/ Passes("sending", "completed") \/ Passes("completed", "free")
    <2>1. \/ after = before \/ (before = "free" /\ after = "writing")
          \/ (before = "writing" /\ after = "tx") \/ (before = "tx" /\ after = "sending")
          \/ (before = "sending" /\ after = "completed") \/ (before = "completed" /\ after = "free")
      BY <1>3, <1>6 DEF Holders, TxHolders
    <2>2. after = before \/ after \in Ownership!Successors(before)
      BY <2>1 DEF Ownership!Successors
    <2> QED
      BY <2>2 DEF before, after, P, Q
  <1> QED
    BY <1>1, <1>2, <1>4, <1>5, <1>6, StepPasses

\* The socket, its thread and the kernel implement UmemOwnership: every frame
\* has one holder at a time and goes round the cycle of its own pool
\* (AfXdpIo::new, recv_batch and send_batch of af_xdp.rs).
THEOREM FramesAreOwned == Spec => OwnershipSpec
  <1>1. Init /\ LenInv /\ InPlaces /\ SizeIs /\ HolderFollows => Ownership!Init
    <2> SUFFICES ASSUME Init, LenInv, InPlaces, SizeIs, HolderFollows, NEW f \in Frames
                 PROVE  Holder(f) = "unmapped"
      BY DEF Ownership!Init
    <2>1. Unmapped
      BY DEF Init, Unmapped
    <2>2. \A h \in Holders : f \notin Elems(Placed[h])
      BY <2>1, UnmappedPlaces
    <2>3. Size = 0 /\ ~ (f < 0)
      BY <2>1, FramesNat DEF SizeIs
    <2> QED
      BY <2>2, <2>3, NoHolder DEF HolderFollows
  <1>2. LenInv /\ LenInv' /\ InPlaces /\ InPlaces' /\ SizeIs /\ SizeIs' /\ PlaceInv /\ PlaceInv'
          /\ HolderFollows /\ HolderFollows' /\ [Next]_vars
          => [Ownership!Next]_([f \in Frames |-> Holder(f)])
    <2> SUFFICES ASSUME LenInv, LenInv', InPlaces, InPlaces', SizeIs, SizeIs', PlaceInv,
                        PlaceInv', HolderFollows, HolderFollows', [Next]_vars
                 PROVE  Ownership!Next
      OBVIOUS
    <2>1. \A f \in Frames : \/ Holder(f)' = Holder(f)
                            \/ Holder(f)' \in Ownership!Successors(Holder(f))
      <3> SUFFICES ASSUME NEW f \in Frames
                   PROVE  \/ Holder(f)' = Holder(f)
                          \/ Holder(f)' \in Ownership!Successors(Holder(f))
        OBVIOUS
      <3>1. Holder(f) = HolderIn(Placed, Size, f)
        BY DEF HolderFollows
      <3>2. Holder(f)' = HolderIn(Placed', Size', f)
        BY DEF HolderFollows, HolderIn
      <3> QED
        BY <3>1, <3>2, StepHolders
    <2> QED
      BY <2>1 DEF Ownership!Next
  <1> QED
    BY <1>1, <1>2, PlaceInvHolds, HolderAre, PTL DEF Spec, OwnershipSpec, Ownership!Spec

\* A frame is lost only where there are more frames for TX than TX has slots;
\* with num_frames = 2 * ring_size, the default, none is (send_batch and the
\* defaults of AfXdpConfig).
THEOREM LeaksNeedSpareFrames == Spec => []LeakNeedsSpareFrames
  <1>1. LenInv /\ SizeIs /\ PlaceInv /\ HolderFollows => LeakNeedsSpareFrames
    <2> SUFFICES ASSUME LenInv, SizeIs, PlaceInv, HolderFollows,
                        NEW f \in Frames, Holder(f) = "lost"
                 PROVE  cfg.num_frames > 2 * cfg.ring_size
      BY DEF LeakNeedsSpareFrames
    <2>1. HolderIn(Placed, Size, f) = "lost"
      BY DEF HolderFollows
    <2>2. \A h \in Holders : f \notin Elems(Placed[h])
      <3>1. "lost" \notin Holders
        BY DEF Holders, RxHolders, TxHolders
      <3>2. Apart(Placed)
        BY DEF PlaceInv
      <3> QED
        BY <2>1, <3>1, <3>2, OneHolder
    <2>3. f < Size /\ f \in Nat
      BY <2>1, <2>2, NoHolder, FramesNat
    <2>4. Mapped /\ Size = cfg.num_frames
      BY <2>3 DEF LenInv, SizeIs
    <2>5. InPools(Placed, cfg.ring_size, cfg.num_frames)
      BY <2>4, ListTypes DEF PlaceInv
    <2> DEFINE n == cfg.num_frames
               r == cfg.ring_size
    <2>6. n >= 2 * r /\ n \in Nat /\ r \in Nat /\ f < n
      BY <2>3, <2>4, ListTypes DEF Mapped, ValidConfig
    <2>7. f \notin 0 .. (r - 1) /\ (n = 2 * r => f \notin r .. (n - 1))
      BY <2>2, <2>5 DEF InPools, Holders
    <2> HIDE DEF n, r
    <2>8. n > 2 * r
      BY <2>3, <2>6, <2>7
    <2> QED
      BY <2>8 DEF n, r
  <1> QED
    BY <1>1, PlaceInvHolds, HolderAre, PTL

-----------------------------------------------------------------------------
(***************************************************************************)
(* The packets in the frames of a list of addresses, for the content c.    *)
(***************************************************************************)
Bytes(c, z, s) == [i \in DOMAIN s |-> c[s[i] \div z]]

\* S has the packets that c can hold.
Values(S, c) == \A n \in Nat : c[n] \in S

LEMMA BytesType ==
    ASSUME NEW S, NEW c, Values(S, c), NEW z \in Nat \ {0}, NEW s \in Seq(Nat)
    PROVE  /\ Bytes(c, z, s) \in Seq(S) /\ Len(Bytes(c, z, s)) = Len(s)
           /\ \A i \in 1 .. Len(s) : s[i] \in Nat /\ Bytes(c, z, s)[i] = c[s[i] \div z]
  <1> DEFINE b == Bytes(c, z, s)
  <1>1. /\ DOMAIN s = 1 .. Len(s) /\ Len(s) \in Nat
        /\ \A i \in 1 .. Len(s) : s[i] \in Nat
    BY LenProperties
  <1>2. \A i \in 1 .. Len(s) : b[i] = c[s[i] \div z]
    BY <1>1 DEF Bytes
  <1>3. ASSUME NEW i \in 1 .. Len(s)
        PROVE  b[i] \in S
    <2>1. s[i] \div z \in Nat
      BY <1>1, DivNat
    <2> QED
      BY <1>2, <2>1 DEF Values
  <1>4. b \in [1 .. Len(s) -> S]
    BY <1>1, <1>3 DEF Bytes
  <1> HIDE DEF b
  <1>5. b \in Seq(S)
    BY <1>1, <1>4, SeqDef
  <1>6. Len(b) = Len(s)
    BY <1>1, <1>4, <1>5, LenProperties
  <1> QED
    BY <1>1, <1>2, <1>5, <1>6 DEF b

LEMMA BytesConcat ==
    ASSUME NEW S, NEW c, Values(S, c), NEW z \in Nat \ {0},
           NEW s \in Seq(Nat), NEW t \in Seq(Nat)
    PROVE  Bytes(c, z, s \o t) = Bytes(c, z, s) \o Bytes(c, z, t)
  <1> DEFINE u == s \o t
             a == Bytes(c, z, s)
             b == Bytes(c, z, t)
             v == a \o b
             w == Bytes(c, z, u)
  <1>1. /\ u \in Seq(Nat) /\ Len(u) = Len(s) + Len(t)
        /\ \A i \in 1 .. (Len(s) + Len(t)) : u[i] = IF i <= Len(s) THEN s[i] ELSE t[i - Len(s)]
    BY ConcatProperties
  <1>2. Len(s) \in Nat /\ Len(t) \in Nat
    BY LenProperties
  <1>3. /\ a \in Seq(S) /\ Len(a) = Len(s)
        /\ \A i \in 1 .. Len(s) : a[i] = c[s[i] \div z]
    BY BytesType
  <1>4. /\ b \in Seq(S) /\ Len(b) = Len(t)
        /\ \A i \in 1 .. Len(t) : b[i] = c[t[i] \div z]
    BY BytesType
  <1> HIDE DEF u
  <1>5. /\ w \in Seq(S) /\ Len(w) = Len(u)
        /\ \A i \in 1 .. Len(u) : w[i] = c[u[i] \div z]
    <2>1. u \in Seq(Nat)
      BY <1>1
    <2> QED
      BY <2>1, BytesType
  <1> HIDE DEF a, b, w
  <1>6. /\ v \in Seq(S) /\ Len(v) = Len(a) + Len(b)
        /\ \A i \in 1 .. (Len(a) + Len(b)) : v[i] = IF i <= Len(a) THEN a[i] ELSE b[i - Len(a)]
    BY <1>3, <1>4, ConcatProperties
  <1> HIDE DEF v
  <1>7. ASSUME NEW i \in 1 .. (Len(s) + Len(t))
        PROVE  w[i] = v[i]
    <2>1. CASE i <= Len(s)
      <3>1. i \in 1 .. Len(s) /\ i \in 1 .. Len(u) /\ i \in 1 .. (Len(a) + Len(b)) /\ i <= Len(a)
        BY <1>1, <1>2, <1>3, <1>4, <2>1
      <3>2. v[i] = a[i] /\ u[i] = s[i]
        BY <1>1, <1>6, <2>1, <3>1
      <3> QED
        BY <1>3, <1>5, <3>1, <3>2
    <2>2. CASE ~(i <= Len(s))
      <3>1. i - Len(s) \in 1 .. Len(t) /\ i \in 1 .. Len(u) /\ i \in 1 .. (Len(a) + Len(b))
        BY <1>1, <1>2, <1>3, <1>4, <2>2
      <3>2. v[i] = b[i - Len(s)] /\ u[i] = t[i - Len(s)]
        BY <1>1, <1>3, <1>6, <2>2, <3>1
      <3> QED
        BY <1>4, <1>5, <3>1, <3>2
    <2> QED
      BY <2>1, <2>2
  <1>8. Len(w) = Len(v) /\ Len(w) = Len(s) + Len(t)
    BY <1>1, <1>3, <1>4, <1>5, <1>6
  <1>9. w = v
    BY <1>5, <1>6, <1>7, <1>8, SeqEqual
  <1> QED
    BY <1>9 DEF v, w, a, b, u

\* A list whose frames keep their packets.
LEMMA BytesSame ==
    ASSUME NEW c, NEW d, NEW z \in Nat \ {0}, NEW s \in Seq(Nat),
           \A f \in Elems(Index(z, s)) : d[f] = c[f]
    PROVE  Bytes(d, z, s) = Bytes(c, z, s)
  <1>1. \A i \in DOMAIN s : s[i] \div z \in Elems(Index(z, s))
    BY DEF Elems, Index
  <1>2. \A i \in DOMAIN s : d[s[i] \div z] = c[s[i] \div z]
    BY <1>1
  <1> QED
    BY <1>2 DEF Bytes

LEMMA BytesOne ==
    ASSUME NEW c, NEW z \in Nat \ {0}, NEW e \in Nat
    PROVE  Bytes(c, z, <<e>>) = <<c[e \div z]>>
  <1>1. DOMAIN <<e>> = {1} /\ <<e>>[1] = e /\ 1 .. 1 = {1}
    OBVIOUS
  <1>2. Bytes(c, z, <<e>>) = [i \in {1} |-> c[e \div z]]
    BY <1>1 DEF Bytes
  <1>3. <<c[e \div z]>> = [i \in {1} |-> c[e \div z]]
    BY <1>1
  <1> QED
    BY <1>2, <1>3

LEMMA BytesEmpty ==
    ASSUME NEW c, NEW z
    PROVE  Bytes(c, z, <<>>) = <<>>
  <1>1. DOMAIN <<>> = {}
    OBVIOUS
  <1>2. Bytes(c, z, <<>>) = [i \in {} |-> c[<<>>[i] \div z]]
    BY <1>1 DEF Bytes
  <1> QED
    BY <1>1, <1>2

LEMMA DropConcat ==
    ASSUME NEW S, NEW s \in Seq(S), NEW t \in Seq(S)
    PROVE  Drop(s \o t, Len(s)) = t
  <1> DEFINE u == s \o t
             n == Len(s)
             d == Drop(u, n)
  <1>1. /\ u \in Seq(S) /\ Len(u) = Len(s) + Len(t)
        /\ \A i \in 1 .. (Len(s) + Len(t)) : u[i] = IF i <= Len(s) THEN s[i] ELSE t[i - Len(s)]
    BY ConcatProperties
  <1>2. n \in Nat /\ Len(t) \in Nat
    BY LenProperties
  <1> HIDE DEF u
  <1>3. Min2(n, Len(u)) = n
    BY <1>1, <1>2 DEF Min2
  <1>4. /\ d \in Seq(S) /\ Len(d) = Len(u) - n
        /\ \A i \in DOMAIN d : d[i] = u[n + i]
    <2>1. u \in Seq(S)
      BY <1>1
    <2> HIDE DEF n
    <2>2. /\ d \in Seq(S) /\ Len(d) = Len(u) - Min2(n, Len(u))
          /\ \A i \in DOMAIN d : d[i] = u[Min2(n, Len(u)) + i]
      BY <1>2, <2>1, TakeDrop
    <2> QED
      BY <1>3, <2>2
  <1> HIDE DEF d
  <1>5. Len(d) = Len(t)
    BY <1>1, <1>2, <1>4
  <1>6. ASSUME NEW i \in 1 .. Len(d)
        PROVE  d[i] = t[i]
    <2>1. i \in DOMAIN d
      BY <1>4, LenProperties
    <2>2. /\ n + i \in 1 .. (Len(s) + Len(t)) /\ ~(n + i <= Len(s)) /\ n + i - Len(s) = i
      BY <1>2, <1>5
    <2> QED
      BY <1>1, <1>4, <2>1, <2>2
  <1>7. d = t
    BY <1>4, <1>5, <1>6, SeqEqual
  <1> QED
    BY <1>7 DEF d, u

-----------------------------------------------------------------------------
(***************************************************************************)
(* No packet is overwritten while it is needed: what changes a frame has   *)
(* it, and the frames of the others are apart from it.                     *)
(***************************************************************************)
Data(s) == Bytes(content, cfg.frame_size, s)

\* The descriptors recv_batch has still to copy.
Reading == IF pc = "copy" THEN consumed ELSE <<>>

PacketInv ==
    /\ DOMAIN content = Frames
    /\ arrived = Data(Reading) \o Data(rx)
    /\ queued = Data(nic) \o Data(tx)
    /\ pc = "insert" => Data(descs) = Take(buf, Len(descs))

\* Places == LenInv and what follows from it, and PlaceInv.
Places == LenInv /\ InPlaces /\ SizeIs /\ PlaceInv

LEMMA PlacedInFrames ==
    ASSUME Places, NEW h \in Holders
    PROVE  Elems(Placed[h]) \subseteq Frames
  <1>1. CASE Unmapped
    BY <1>1, UnmappedPlaces DEF Places
  <1>2. CASE Mapped
    <2> DEFINE n == cfg.num_frames
               r == cfg.ring_size
    <2>1. InPools(Placed, r, n) /\ n \in Nat /\ r \in Nat /\ n >= 2 * r
      BY <1>2, ListTypes DEF Places, SizeIs, PlaceInv, Mapped, ValidConfig
    <2>2. cfg \in Configs
      BY DEF Places, LenInv, ListsTyped
    <2>3. 0 .. (n - 1) \subseteq Frames
      BY <2>2 DEF Frames
    <2> HIDE DEF n, r
    <2>4. 0 .. (r - 1) \subseteq 0 .. (n - 1) /\ r .. (n - 1) \subseteq 0 .. (n - 1)
      BY <2>1
    <2>5. Elems(Placed[h]) \subseteq 0 .. (r - 1) \/ Elems(Placed[h]) \subseteq r .. (n - 1)
      BY <2>1 DEF InPools, Holders
    <2> QED
      BY <2>3, <2>4, <2>5
  <1> QED
    BY <1>1, <1>2 DEF Places, LenInv

LEMMA DataKept ==
    ASSUME Places, NEW a \in Holders, NEW c,
           \A f \in Frames \ Elems(Placed[a]) : c[f] = content[f]
    PROVE  /\ a # "rx" => Bytes(c, cfg.frame_size, rx) = Data(rx)
           /\ a # "reading" => Bytes(c, cfg.frame_size, consumed) = Data(consumed)
           /\ a # "writing" => Bytes(c, cfg.frame_size, descs) = Data(descs)
           /\ a # "tx" => Bytes(c, cfg.frame_size, tx) = Data(tx)
           /\ a # "sending" => Bytes(c, cfg.frame_size, nic) = Data(nic)
  <1> DEFINE z == cfg.frame_size
  <1>1. ASSUME NEW h \in Holders, h # a
        PROVE  \A f \in Elems(Placed[h]) : c[f] = content[f]
    <2>1. Elems(Placed[h]) \subseteq Frames
      BY PlacedInFrames
    <2>2. Elems(Placed[h]) \cap Elems(Placed[a]) = {}
      BY <1>1 DEF Places, PlaceInv, Apart
    <2> QED
      BY <2>1, <2>2
  <1>2. ASSUME NEW h \in Holders, h # a, NEW s \in Seq(Nat), Placed[h] = Index(z, s)
        PROVE  Bytes(c, z, s) = Bytes(content, z, s)
    <2>1. z \in Nat \ {0}
      BY ListTypes DEF Places
    <2>2. \A f \in Elems(Index(z, s)) : c[f] = content[f]
      BY <1>1, <1>2
    <2> HIDE DEF z
    <2> QED
      BY <2>1, <2>2, BytesSame, ZenonT(30)
  <1>3. /\ Placed["rx"] = Index(z, rx) /\ Placed["reading"] = Index(z, consumed)
        /\ Placed["writing"] = Index(z, descs) /\ Placed["tx"] = Index(z, tx)
        /\ Placed["sending"] = Index(z, nic)
    BY DEF Places, InPlaces, FramesOf
  <1>4. /\ rx \in Seq(Nat) /\ consumed \in Seq(Nat) /\ descs \in Seq(Nat) /\ tx \in Seq(Nat)
        /\ nic \in Seq(Nat)
    BY ListTypes DEF Places
  <1>5. {"rx", "reading", "writing", "tx", "sending"} \subseteq Holders
    BY DEF Holders, RxHolders, TxHolders
  <1> HIDE DEF z
  <1>6. a # "rx" => Bytes(c, z, rx) = Bytes(content, z, rx)
    BY <1>2, <1>3, <1>4, <1>5
  <1>7. a # "reading" => Bytes(c, z, consumed) = Bytes(content, z, consumed)
    BY <1>2, <1>3, <1>4, <1>5
  <1>8. a # "writing" => Bytes(c, z, descs) = Bytes(content, z, descs)
    BY <1>2, <1>3, <1>4, <1>5
  <1>9. a # "tx" => Bytes(c, z, tx) = Bytes(content, z, tx)
    BY <1>2, <1>3, <1>4, <1>5
  <1>10. a # "sending" => Bytes(c, z, nic) = Bytes(content, z, nic)
    BY <1>2, <1>3, <1>4, <1>5
  <1> QED
    BY <1>6, <1>7, <1>8, <1>9, <1>10 DEF Data, z

\* Erase touches the frames of its addresses only.
LEMMA EraseKeeps ==
    ASSUME NEW addrs, NEW f \in Frames, f \notin Elems(FramesOf(addrs))
    PROVE  Erase(addrs)[f] = content[f]
  <1>1. \A i \in DOMAIN addrs : addr_to_frame_idx(addrs[i]) \in Elems(FramesOf(addrs))
    BY DEF Elems, FramesOf, Index, addr_to_frame_idx
  <1>2. ~ \E i \in DOMAIN addrs : addr_to_frame_idx(addrs[i]) = f
    BY <1>1
  <1> QED
    BY <1>2 DEF Erase

\* The values of the packets before and after a step, and of the buffer.
AnyPacket == {content[n] : n \in Nat} \cup {content'[n] : n \in Nat} \cup Elems(buf)

LEMMA AnyPackets ==
    ASSUME LenInv
    PROVE  /\ Values(AnyPacket, content) /\ Values(AnyPacket, content')
           /\ buf \in Seq(AnyPacket)
  <1>1. buf \in Seq(Elems(buf)) /\ Elems(buf) \subseteq AnyPacket
    BY DEF LenInv, ListsTyped, AnyPacket
  <1>2. \A A, B : A \subseteq B => Seq(A) \subseteq Seq(B)
    OBVIOUS
  <1>3. buf \in Seq(AnyPacket)
    BY <1>1, <1>2
  <1> QED
    BY <1>3 DEF Values, AnyPacket

LEMMA DataType ==
    ASSUME Places
    PROVE  /\ Data(rx) \in Seq(AnyPacket) /\ Data(consumed) \in Seq(AnyPacket)
           /\ Data(Reading) \in Seq(AnyPacket)
           /\ Data(tx) \in Seq(AnyPacket) /\ Data(nic) \in Seq(AnyPacket)
           /\ Data(descs) \in Seq(AnyPacket)
           /\ Len(Data(consumed)) = Len(consumed) /\ Len(Data(descs)) = Len(descs)
           /\ Data(<<>>) = <<>>
  <1>1. /\ Values(AnyPacket, content) /\ cfg.frame_size \in Nat \ {0}
        /\ rx \in Seq(Nat) /\ consumed \in Seq(Nat) /\ tx \in Seq(Nat) /\ nic \in Seq(Nat)
        /\ descs \in Seq(Nat) /\ Reading \in Seq(Nat)
    BY AnyPackets, ListTypes DEF Places, Reading
  <1>2. \A s \in Seq(Nat) : Data(s) \in Seq(AnyPacket) /\ Len(Data(s)) = Len(s)
    BY <1>1, BytesType, ZenonT(30) DEF Data
  <1>3. Data(<<>>) = <<>>
    BY BytesEmpty DEF Data
  <1> QED
    BY <1>1, <1>2, <1>3

LEMMA PacketQuiet ==
    ASSUME PacketInv,
           UNCHANGED <<cfg, content, rx, tx, nic, consumed, descs, arrived, queued>>,
           pc' = "copy" <=> pc = "copy",
           pc' = "insert" => pc = "insert" /\ UNCHANGED buf
    PROVE  PacketInv'
  <1>1. UNCHANGED Reading
    BY DEF Reading
  <1> QED
    BY <1>1 DEF PacketInv, Data

LEMMA PacketQuietSteps ==
    ASSUME PacketInv,
           \/ NewFails \/ NewBinds \/ register_xsk \/ Process \/ SendDrain \/ SendWake
           \/ KernelParks \/ Shutdown \/ Terminated \/ UNCHANGED vars
    PROVE  PacketInv'
  <1> USE DEF rings, user, ghost, vars
  <1>1. CASE NewFails \/ NewBinds \/ register_xsk
    BY <1>1, PacketQuiet DEF NewFails, NewBinds, register_xsk
  <1>2. CASE Process
    BY <1>2, PacketQuiet DEF Process
  <1>3. CASE SendDrain
    BY <1>3, PacketQuiet DEF SendDrain
  <1>4. CASE SendWake
    BY <1>4, PacketQuiet DEF SendWake
  <1>5. CASE KernelParks \/ Shutdown \/ Terminated \/ UNCHANGED vars
    BY <1>5, PacketQuiet DEF KernelParks, Shutdown, Terminated
  <1> QED
    BY <1>1, <1>2, <1>3, <1>4, <1>5

LEMMA PacketRecvTake ==
    ASSUME Places, PacketInv, RecvTake
    PROVE  PacketInv'
  <1>1. /\ UNCHANGED <<cfg, content, tx, nic, descs, arrived, queued>>
        /\ consumed' = Take(rx, BatchSize) /\ rx' = Drop(rx, BatchSize)
        /\ pc = "recv" /\ pc' = "copy"
    BY DEF RecvTake, ghost
  <1>2. rx \in Seq(Nat) /\ BatchSize \in Nat /\ cfg.frame_size \in Nat \ {0}
    BY ListTypes, BatchAssumption DEF Places
  <1>3. consumed' \in Seq(Nat) /\ rx' \in Seq(Nat) /\ consumed' \o rx' = rx
    BY <1>1, <1>2, TakeSplits, TakeDropConcat
  <1>4. Data(rx) = Data(consumed') \o Data(rx')
    <2>1. Values(AnyPacket, content)
      BY AnyPackets DEF Places
    <2>2. Data(consumed' \o rx') = Data(consumed') \o Data(rx')
      BY <1>2, <1>3, <2>1, BytesConcat DEF Data
    <2> QED
      BY <1>3, <2>2
  <1>5. arrived = Data(rx)
    <2>1. Data(Reading) = <<>> /\ Data(rx) \in Seq(AnyPacket)
      BY <1>1, DataType DEF Reading
    <2> QED
      BY <2>1, ConcatEmptySeq DEF PacketInv
  <1>6. Reading' = consumed'
    BY <1>1 DEF Reading
  <1>7. arrived' = (Data(Reading) \o Data(rx))'
    BY <1>1, <1>4, <1>5, <1>6 DEF Data
  <1> QED
    BY <1>1, <1>7 DEF PacketInv, Data

LEMMA PacketRecvCopy ==
    ASSUME Places, PacketInv, RecvCopy
    PROVE  PacketInv'
  <1>1. /\ UNCHANGED <<cfg, content, rx, tx, nic, descs, queued>>
        /\ arrived' = Drop(arrived, Len(consumed))
        /\ pc = "copy" /\ pc' = "refill"
    BY DEF RecvCopy, rings
  <1>2. /\ Data(consumed) \in Seq(AnyPacket) /\ Data(rx) \in Seq(AnyPacket)
        /\ Len(Data(consumed)) = Len(consumed) /\ Data(<<>>) = <<>>
    BY DataType
  <1>3. arrived = Data(consumed) \o Data(rx)
    BY <1>1 DEF PacketInv, Reading
  <1>4. arrived' = Data(rx)
    BY <1>1, <1>2, <1>3, DropConcat
  <1>5. arrived' = Data(<<>>) \o Data(rx)
    BY <1>2, <1>4, ConcatEmptySeq
  <1>6. arrived' = (Data(Reading) \o Data(rx))'
    <2>1. Reading' = <<>>
      BY <1>1 DEF Reading
    <2> QED
      BY <1>1, <1>5, <2>1 DEF Data
  <1> QED
    BY <1>1, <1>6 DEF PacketInv, Data

LEMMA PacketRecvRefill ==
    ASSUME Places, PacketInv, RecvRefill
    PROVE  PacketInv'
  <1>1. /\ UNCHANGED <<cfg, rx, tx, nic, descs, arrived, queued>>
        /\ content' = Erase(consumed)
        /\ pc = "refill" /\ pc' = "process"
    BY DEF RecvRefill, Refill, ghost
  <1>2. "reading" \in Holders /\ Placed["reading"] = FramesOf(consumed)
    BY DEF Holders, RxHolders, Places, InPlaces
  <1>3. \A f \in Frames \ Elems(Placed["reading"]) : content'[f] = content[f]
    BY <1>1, <1>2, EraseKeeps
  <1>4. /\ Bytes(content', cfg.frame_size, rx) = Data(rx)
        /\ Bytes(content', cfg.frame_size, tx) = Data(tx)
        /\ Bytes(content', cfg.frame_size, nic) = Data(nic)
    BY <1>2, <1>3, DataKept
  <1>5. Data(rx)' = Data(rx) /\ Data(tx)' = Data(tx) /\ Data(nic)' = Data(nic)
    BY <1>1, <1>4 DEF Data
  <1>6. Data(Reading)' = Data(Reading)
    <2>1. Reading = <<>> /\ Reading' = <<>>
      BY <1>1 DEF Reading
    <2> QED
      BY <2>1, BytesEmpty DEF Data
  <1>7. DOMAIN content' = Frames
    BY <1>1 DEF Erase
  <1> QED
    BY <1>1, <1>5, <1>6, <1>7 DEF PacketInv

LEMMA PacketSendWrite ==
    ASSUME Places, PacketInv, SendWrite
    PROVE  PacketInv'
  <1> DEFINE z   == cfg.frame_size
             n   == Min2(Len(buf), Len(free_frames))
             idx == Take(free_frames, n)
  <1>1. /\ UNCHANGED <<cfg, rx, tx, nic, consumed, arrived, queued, buf>>
        /\ descs' = Map(idx, frame_idx_to_addr)
        /\ content' = [f \in Frames |-> IF \E i \in 1 .. n : idx[i] = f
                                        THEN buf[CHOOSE i \in 1 .. n : idx[i] = f]
                                        ELSE content[f]]
        /\ pc = "write" /\ pc' = "insert"
    BY DEF SendWrite, ghost
  <1>2. /\ "free" \in Holders /\ Placed["free"] = free_frames
        /\ Elems(free_frames) \subseteq Frames /\ Distinct(free_frames)
    <2>1. "free" \in Holders /\ Placed["free"] = free_frames
      BY DEF Holders, TxHolders, Places, InPlaces
    <2> QED
      BY <2>1, PlacedInFrames DEF Places, PlaceInv, Apart
  <1>3. /\ free_frames \in Seq(Nat) /\ z \in Nat \ {0} /\ Len(free_frames) \in Nat
        /\ buf \in Seq(AnyPacket) /\ Len(buf) \in Nat
    BY ListTypes, AnyPackets, LenProperties DEF Places
  <1>4. n \in Nat /\ n <= Len(buf) /\ n <= Len(free_frames)
    BY <1>3 DEF Min2
  <1>5. /\ idx \in Seq(Nat) /\ Len(idx) = n /\ Splits(free_frames, idx, Drop(free_frames, n))
    <2> HIDE DEF n
    <2>1. Len(idx) = Min2(n, Len(free_frames))
      BY <1>3, <1>4, TakeDrop
    <2>2. Len(idx) = n
      BY <1>3, <1>4, <2>1 DEF Min2
    <2> QED
      BY <1>3, <1>4, <2>2, TakeSplits
  <1>6. Distinct(idx) /\ Elems(idx) \subseteq Elems(free_frames)
    BY <1>2, <1>5 DEF Splits
  <1>7. DOMAIN idx = 1 .. n
    BY <1>5, LenProperties
  <1> HIDE DEF n, idx
  <1>8. \A f \in Frames \ Elems(Placed["free"]) : content'[f] = content[f]
    <2> SUFFICES ASSUME NEW f \in Frames \ Elems(Placed["free"])
                 PROVE  content'[f] = content[f]
      OBVIOUS
    <2>1. f \notin Elems(idx)
      BY <1>2, <1>6
    <2>2. ~ \E i \in 1 .. n : idx[i] = f
      BY <1>7, <2>1 DEF Elems
    <2> QED
      BY <1>1, <2>2
  <1>9. /\ Bytes(content', cfg.frame_size, rx) = Data(rx)
        /\ Bytes(content', cfg.frame_size, tx) = Data(tx)
        /\ Bytes(content', cfg.frame_size, nic) = Data(nic)
    BY <1>2, <1>8, DataKept
  <1>10. Data(rx)' = Data(rx) /\ Data(tx)' = Data(tx) /\ Data(nic)' = Data(nic)
    BY <1>1, <1>9 DEF Data
  <1>11. Data(Reading)' = Data(Reading)
    <2>1. Reading = <<>> /\ Reading' = <<>>
      BY <1>1 DEF Reading
    <2> QED
      BY <2>1, BytesEmpty DEF Data
  <1>12. \A i \in 1 .. n : content'[idx[i]] = buf[i]
    <2> SUFFICES ASSUME NEW i \in 1 .. n
                 PROVE  content'[idx[i]] = buf[i]
      OBVIOUS
    <2>1. idx[i] \in Frames
      BY <1>2, <1>6, <1>7 DEF Elems
    <2>2. \A j \in 1 .. n : idx[j] = idx[i] => j = i
      BY <1>6, <1>7 DEF Distinct
    <2>3. (CHOOSE j \in 1 .. n : idx[j] = idx[i]) = i
      BY <2>2
    <2> QED
      BY <1>1, <2>1, <2>3
  <1>13. descs' \in Seq(Nat) /\ Len(descs') = n /\ Index(z, descs') = idx
    <2>1. descs' = [i \in DOMAIN idx |-> idx[i] * z]
      BY <1>1 DEF Map, frame_idx_to_addr
    <2>2. z \in Nat \ {0} /\ idx \in Seq(Nat)
      BY <1>3, <1>5
    <2> HIDE DEF z
    <2> QED
      BY <1>5, <2>1, <2>2, AddrsOfFrames
  <1>14. Bytes(content', z, descs') = Take(buf, n)
    <2>1. Values(AnyPacket, content')
      BY AnyPackets DEF Places
    <2> HIDE DEF z
    <2>2. /\ Bytes(content', z, descs') \in Seq(AnyPacket) /\ Len(Bytes(content', z, descs')) = n
          /\ \A i \in 1 .. n : Bytes(content', z, descs')[i] = content'[descs'[i] \div z]
      BY <1>3, <1>13, <2>1, BytesType
    <2>3. /\ Take(buf, n) \in Seq(AnyPacket) /\ Len(Take(buf, n)) = Min2(n, Len(buf))
          /\ \A i \in DOMAIN Take(buf, n) : Take(buf, n)[i] = buf[i]
      BY <1>3, <1>4, TakeDrop
    <2>4. Len(Take(buf, n)) = n
      BY <1>3, <1>4, <2>3 DEF Min2
    <2>5. DOMAIN Take(buf, n) = 1 .. n
      BY <2>3, <2>4, LenProperties
    <2>6. \A i \in 1 .. n : descs'[i] \div z = idx[i]
      <3>1. DOMAIN descs' = 1 .. n
        BY <1>13, LenProperties
      <3>2. \A i \in DOMAIN descs' : Index(z, descs')[i] = descs'[i] \div z
        BY DEF Index
      <3> QED
        BY <1>13, <3>1, <3>2
    <2>7. \A i \in 1 .. n : Bytes(content', z, descs')[i] = Take(buf, n)[i]
      BY <1>12, <2>2, <2>3, <2>5, <2>6
    <2> QED
      BY <2>2, <2>3, <2>4, <2>7, SeqEqual
  <1>15. Data(descs)' = Take(buf, Len(descs))'
    BY <1>1, <1>13, <1>14 DEF Data
  <1>16. DOMAIN content' = Frames
    BY <1>1
  <1> QED
    BY <1>1, <1>10, <1>11, <1>15, <1>16 DEF PacketInv

LEMMA PacketSendInsert ==
    ASSUME Places, PacketInv, SendInsert
    PROVE  PacketInv'
  <1> DEFINE z    == cfg.frame_size
             room == cfg.ring_size - Len(tx)
             m    == Min2(Len(descs), room)
             td   == Take(descs, room)
             B(s) == Bytes(content, z, s)
  <1>1. /\ UNCHANGED <<cfg, content, rx, nic, consumed, arrived>>
        /\ tx' = tx \o td /\ queued' = queued \o Take(buf, m)
        /\ pc = "insert" /\ pc' = "wake"
    BY DEF SendInsert, Insert
  <1>2. Mapped
    BY <1>1, UpIsMapped DEF Places
  <1>3. /\ z \in Nat \ {0} /\ descs \in Seq(Nat) /\ tx \in Seq(Nat)
        /\ Len(descs) \in Nat /\ buf \in Seq(AnyPacket) /\ Len(buf) \in Nat
        /\ Len(descs) <= Len(buf) /\ Values(AnyPacket, content)
    BY ListTypes, AnyPackets, LenProperties DEF Places, LenInv, InHand
  <1>4. room \in Nat
    BY <1>2, ListTypes, SMTT(30) DEF Mapped, Places
  <1> HIDE DEF room, z
  <1>5. m \in Nat /\ m = Min2(room, Len(descs)) /\ m <= Len(descs)
    BY <1>3, <1>4 DEF Min2
  <1> HIDE DEF m
  <1>6. /\ td \in Seq(Nat) /\ Len(td) = m
        /\ \A i \in DOMAIN td : i \in DOMAIN descs /\ td[i] = descs[i]
    <2>1. /\ td \in Seq(Nat) /\ Len(td) = Min2(room, Len(descs))
          /\ \A i \in DOMAIN td : i \in DOMAIN descs /\ td[i] = descs[i]
      <3>1. descs \in Seq(Nat) /\ room \in Nat
        BY <1>3, <1>4
      <3> QED
        BY <3>1, TakeDrop
    <2> QED
      BY <1>5, <2>1
  <1> HIDE DEF td
  <1>7. B(td) = Take(buf, m)
    <2>1. /\ B(td) \in Seq(AnyPacket) /\ Len(B(td)) = m
          /\ \A i \in 1 .. m : B(td)[i] = content[td[i] \div z]
      <3>1. td \in Seq(Nat) /\ z \in Nat \ {0} /\ Values(AnyPacket, content) /\ Len(td) = m
        BY <1>3, <1>6
      <3>2. /\ B(td) \in Seq(AnyPacket) /\ Len(B(td)) = Len(td)
            /\ \A i \in 1 .. Len(td) : B(td)[i] = content[td[i] \div z]
        BY <3>1, BytesType
      <3> QED
        BY <3>1, <3>2
    <2>2. /\ Take(buf, m) \in Seq(AnyPacket) /\ Len(Take(buf, m)) = m
          /\ \A i \in 1 .. m : Take(buf, m)[i] = buf[i]
      <3>1. /\ Take(buf, m) \in Seq(AnyPacket) /\ Len(Take(buf, m)) = Min2(m, Len(buf))
            /\ \A i \in DOMAIN Take(buf, m) : Take(buf, m)[i] = buf[i]
        <4>1. buf \in Seq(AnyPacket) /\ m \in Nat
          BY <1>3, <1>5
        <4> QED
          BY <4>1, TakeDrop
      <3>2. Len(Take(buf, m)) = m
        BY <1>3, <1>5, <3>1 DEF Min2
      <3> QED
        BY <3>1, <3>2, LenProperties
    <2>3. \A i \in 1 .. Len(descs) : Take(buf, Len(descs))[i] = buf[i]
      <3> DEFINE k == Len(descs)
      <3>1. k \in Nat /\ k <= Len(buf)
        BY <1>3
      <3> HIDE DEF k
      <3>2. /\ Take(buf, k) \in Seq(AnyPacket) /\ Len(Take(buf, k)) = Min2(k, Len(buf))
            /\ \A i \in DOMAIN Take(buf, k) : Take(buf, k)[i] = buf[i]
        <4>1. k \in Nat /\ buf \in Seq(AnyPacket)
          BY <1>3, <3>1
        <4> QED
          BY <4>1, TakeDrop
      <3>3. Len(Take(buf, k)) = k
        BY <1>3, <3>1, <3>2 DEF Min2
      <3>4. \A i \in 1 .. k : Take(buf, k)[i] = buf[i]
        BY <3>2, <3>3, LenProperties
      <3> QED
        BY <3>4 DEF k
    <2>4. \A i \in 1 .. Len(descs) : content[descs[i] \div z] = buf[i]
      <3>1. \A i \in 1 .. Len(descs) : B(descs)[i] = content[descs[i] \div z]
        BY <1>3, BytesType
      <3>2. B(descs) = Take(buf, Len(descs))
        BY <1>1 DEF PacketInv, Data, z
      <3> QED
        BY <2>3, <3>1, <3>2
    <2>5. \A i \in 1 .. m : B(td)[i] = Take(buf, m)[i]
      <3> SUFFICES ASSUME NEW i \in 1 .. m
                   PROVE  B(td)[i] = Take(buf, m)[i]
        OBVIOUS
      <3>1. i \in DOMAIN td /\ i \in 1 .. Len(descs)
        BY <1>3, <1>5, <1>6, LenProperties
      <3>2. td[i] = descs[i]
        BY <1>6, <3>1
      <3> QED
        BY <2>1, <2>2, <2>4, <3>1, <3>2
    <2> QED
      BY <2>1, <2>2, <2>5, SeqEqual
  <1>8. B(tx') = B(tx) \o B(td)
    BY <1>1, <1>3, <1>6, BytesConcat
  <1>9. queued' = Data(nic) \o B(tx')
    <2>1. /\ Data(nic) \in Seq(AnyPacket) /\ Data(tx) \in Seq(AnyPacket)
          /\ Data(tx) = B(tx)
      BY DataType DEF Data, z
    <2>2. B(td) \in Seq(AnyPacket)
      BY <1>3, <1>6, BytesType
    <2>3. queued' = (Data(nic) \o Data(tx)) \o B(td)
      BY <1>1, <1>7 DEF PacketInv
    <2> HIDE DEF B
    <2>4. (Data(nic) \o Data(tx)) \o B(td) = Data(nic) \o (Data(tx) \o B(td))
      BY <2>1, <2>2, ConcatAssociative
    <2> QED
      BY <1>8, <2>1, <2>3, <2>4
  <1>10. queued' = (Data(nic) \o Data(tx))'
    BY <1>1, <1>9 DEF Data, z
  <1>11. Reading' = <<>> /\ Reading = <<>>
    BY <1>1 DEF Reading
  <1> QED
    BY <1>1, <1>10, <1>11 DEF PacketInv, Data

LEMMA PacketKernelReceives ==
    ASSUME Places, PacketInv, KernelReceives
    PROVE  PacketInv'
  <1> DEFINE z == cfg.frame_size
             e == Head(fill)
             k == e \div z
             a == e + Headroom
  <1>1. PICK p \in Labels : content' = [content EXCEPT ![k] = p] /\ arrived' = Append(arrived, p)
    BY DEF KernelReceives, addr_to_frame_idx
  <1>2. /\ UNCHANGED <<cfg, tx, nic, descs, consumed, pc, buf, queued>>
        /\ rx' = Append(rx, a) /\ fill' = Tail(fill) /\ fill # <<>> /\ status = "up"
    BY DEF KernelReceives, user
  <1>3. /\ z \in Nat \ {0} /\ fill \in Seq(Nat) /\ rx \in Seq(Nat)
        /\ Values(AnyPacket, content) /\ Values(AnyPacket, content')
    BY ListTypes, AnyPackets DEF Places
  <1>4. Mapped
    BY <1>2, UpIsMapped DEF Places
  <1>5. Headroom \in 0 .. (z - 1)
    <2>1. cfg \in Configs
      BY DEF Places, LenInv, ListsTyped
    <2>2. Headroom \in Nat /\ (Headroom < z \/ z < PACKET_BUF_SIZE)
      BY <2>1, HeadroomAssumption
    <2>3. z >= PACKET_BUF_SIZE
      BY <1>4 DEF Mapped, ValidConfig
    <2> QED
      BY <1>3, <2>2, <2>3, BufferAssumption
  <1>6. e \in Nat /\ Splits(Index(z, fill), One(k), Index(z, fill'))
    <2> HIDE DEF z
    <2> QED
      BY <1>2, <1>3, IndexTail
  <1>7. 1 \in DOMAIN fill /\ e = fill[1]
    <2>1. Len(fill) \in Nat \ {0} /\ DOMAIN fill = 1 .. Len(fill)
      BY <1>2, <1>3, EmptyLen, LenProperties
    <2>2. e = fill[1]
      BY <1>2, <1>3, HeadTailProperties
    <2> QED
      BY <2>1, <2>2
  <1>8. e = k * z
    BY <1>7 DEF Places, LenInv, FillAligned, frame_idx_to_addr, addr_to_frame_idx
  <1>9. k \in Elems(Placed["fill"]) /\ "fill" \in Holders
    <2>1. Placed["fill"] = Index(z, fill) /\ "fill" \in Holders
      BY DEF Places, InPlaces, FramesOf, Holders, RxHolders
    <2>2. Index(z, fill)[1] = k /\ 1 \in DOMAIN Index(z, fill)
      BY <1>7 DEF Index
    <2> QED
      BY <2>1, <2>2 DEF Elems
  <1> HIDE DEF z, k, e
  <1>10. k \in Nat /\ k \in Frames
    BY <1>9, PlacedInFrames, FramesNat
  <1>11. a \in Nat /\ a \div z = k
    <2>1. (k * z + Headroom) \div z = k
      BY <1>3, <1>5, <1>10, DivOf
    <2> QED
      BY <1>5, <1>6, <1>8, <2>1
  <1> HIDE DEF a
  <1>12. content'[k] = p /\ DOMAIN content' = Frames
    BY <1>1, <1>10 DEF PacketInv
  <1>13. \A f \in Frames \ Elems(Placed["fill"]) : content'[f] = content[f]
    BY <1>1, <1>9 DEF PacketInv
  <1>14. /\ Bytes(content', cfg.frame_size, rx) = Data(rx)
         /\ Bytes(content', cfg.frame_size, consumed) = Data(consumed)
         /\ Bytes(content', cfg.frame_size, descs) = Data(descs)
         /\ Bytes(content', cfg.frame_size, tx) = Data(tx)
         /\ Bytes(content', cfg.frame_size, nic) = Data(nic)
    BY <1>9, <1>13, DataKept
  <1>15. /\ Data(descs)' = Data(descs) /\ Data(tx)' = Data(tx) /\ Data(nic)' = Data(nic)
         /\ Data(consumed)' = Data(consumed)
    BY <1>2, <1>14 DEF Data
  <1>16. Data(Reading)' = Data(Reading)
    <2>1. CASE pc = "copy"
      BY <1>2, <1>15, <2>1 DEF Reading, Data
    <2>2. CASE pc # "copy"
      BY <1>2, <2>2, BytesEmpty DEF Reading, Data
    <2> QED
      BY <2>1, <2>2
  <1>17. Bytes(content', z, rx') = Data(rx) \o <<p>>
    <2> DEFINE o == <<a>>
    <2>1. rx' = rx \o o
      BY <1>2, <1>3, <1>11, AppendIsConcat
    <2>2. o \in Seq(Nat) /\ Bytes(content', z, o) = <<p>>
      BY <1>3, <1>11, <1>12, BytesOne
    <2> HIDE DEF o
    <2>3. Bytes(content', z, rx \o o) = Bytes(content', z, rx) \o Bytes(content', z, o)
      BY <1>3, <2>2, BytesConcat
    <2> QED
      BY <1>14, <2>1, <2>2, <2>3 DEF z
  <1>18. arrived' = Data(Reading) \o (Data(rx) \o <<p>>)
    <2>1. Data(Reading) \in Seq(AnyPacket) /\ Data(rx) \in Seq(AnyPacket)
      BY DataType
    <2>2. p \in AnyPacket
      BY <1>3, <1>10, <1>12 DEF Values
    <2>3. arrived \in Seq(AnyPacket) /\ arrived = Data(Reading) \o Data(rx)
      BY <2>1, ConcatProperties DEF PacketInv
    <2> DEFINE o == <<p>>
    <2>4. arrived' = arrived \o o
      BY <1>1, <2>2, <2>3, AppendIsConcat
    <2>5. o \in Seq(AnyPacket)
      BY <2>2
    <2> HIDE DEF o
    <2>6. (Data(Reading) \o Data(rx)) \o o = Data(Reading) \o (Data(rx) \o o)
      BY <2>1, <2>5, ConcatAssociative
    <2> QED
      BY <2>3, <2>4, <2>6 DEF o
  <1>19. Data(rx)' = Data(rx) \o <<p>>
    BY <1>2, <1>17 DEF Data, z
  <1>20. arrived' = (Data(Reading) \o Data(rx))'
    <2>1. arrived' = Data(Reading)' \o Data(rx)'
      BY <1>16, <1>18, <1>19
    <2> QED
      BY <2>1
  <1> QED
    BY <1>2, <1>12, <1>15, <1>20 DEF PacketInv

LEMMA PacketKernelTakes ==
    ASSUME Places, PacketInv, KernelTakes
    PROVE  PacketInv'
  <1> DEFINE z == cfg.frame_size
             e == Head(tx)
             o == <<e>>
             B(s) == Bytes(content, z, s)
  <1>1. /\ UNCHANGED <<cfg, content, rx, descs, consumed, pc, buf, arrived, queued>>
        /\ tx # <<>> /\ nic' = Append(nic, e) /\ tx' = Tail(tx)
    BY DEF KernelTakes, user, ghost
  <1>2. /\ z \in Nat \ {0} /\ tx \in Seq(Nat) /\ nic \in Seq(Nat) /\ Values(AnyPacket, content)
    BY ListTypes, AnyPackets DEF Places
  <1>3. e \in Nat /\ o \in Seq(Nat) /\ tx' \in Seq(Nat) /\ tx = o \o tx'
    BY <1>1, <1>2
  <1>4. nic' = nic \o o
    BY <1>1, <1>2, <1>3, AppendIsConcat
  <1> HIDE DEF z, o
  <1>5. /\ B(nic) \in Seq(AnyPacket) /\ B(o) \in Seq(AnyPacket) /\ B(tx') \in Seq(AnyPacket)
    BY <1>2, <1>3, BytesType
  <1>6. B(nic') = B(nic) \o B(o) /\ B(tx) = B(o) \o B(tx')
    <2>1. B(nic \o o) = B(nic) \o B(o)
      BY <1>2, <1>3, BytesConcat
    <2>2. B(o \o tx') = B(o) \o B(tx')
      BY <1>2, <1>3, BytesConcat
    <2> QED
      BY <1>3, <1>4, <2>1, <2>2
  <1>7. queued = B(nic) \o B(tx)
    BY DEF PacketInv, Data, z
  <1> HIDE DEF B
  <1>8. queued = B(nic') \o B(tx')
    <2>1. B(nic) \o (B(o) \o B(tx')) = (B(nic) \o B(o)) \o B(tx')
      BY <1>5, ConcatAssociative
    <2> QED
      BY <1>6, <1>7, <2>1, ZenonT(30)
  <1>9. queued' = (Data(nic) \o Data(tx))'
    BY <1>1, <1>8 DEF Data, B, z
  <1>10. UNCHANGED Reading
    BY <1>1 DEF Reading
  <1> QED
    BY <1>1, <1>9, <1>10 DEF PacketInv, Data

LEMMA PacketKernelCompletes ==
    ASSUME Places, PacketInv, KernelCompletes
    PROVE  PacketInv'
  <1> DEFINE z == cfg.frame_size
             e == Head(nic)
             o == <<e>>
  <1>1. /\ UNCHANGED <<cfg, rx, tx, descs, consumed, pc, buf, arrived>>
        /\ nic # <<>> /\ nic' = Tail(nic)
        /\ content' = Erase(o) /\ queued' = Tail(queued)
    BY DEF KernelCompletes, user
  <1>2. /\ z \in Nat \ {0} /\ nic \in Seq(Nat) /\ tx \in Seq(Nat)
        /\ Values(AnyPacket, content)
    BY ListTypes, AnyPackets DEF Places
  <1>3. e \in Nat /\ o \in Seq(Nat) /\ nic' \in Seq(Nat) /\ nic = o \o nic'
    BY <1>1, <1>2
  <1> HIDE DEF z
  <1>4. Index(z, o) = One(e \div z)
    BY <1>2, <1>3, IndexOne
  <1>5. Splits(Index(z, nic), Index(z, o), Index(z, nic'))
    <2> HIDE DEF o
    <2> QED
      BY <1>2, <1>3, IndexSplits
  <1>6. "sending" \in Holders /\ Placed["sending"] = Index(z, nic)
    BY DEF Holders, TxHolders, Places, InPlaces, FramesOf, z
  <1>7. \A f \in Frames \ Elems(Placed["sending"]) : content'[f] = content[f]
    <2>1. Elems(Index(z, o)) \subseteq Elems(Placed["sending"])
      BY <1>5, <1>6 DEF Splits
    <2>2. FramesOf(o) = Index(z, o)
      BY DEF FramesOf, z
    <2> HIDE DEF o
    <2> QED
      BY <1>1, <2>1, <2>2, EraseKeeps
  <1>8. /\ Bytes(content', cfg.frame_size, rx) = Data(rx)
        /\ Bytes(content', cfg.frame_size, consumed) = Data(consumed)
        /\ Bytes(content', cfg.frame_size, descs) = Data(descs)
        /\ Bytes(content', cfg.frame_size, tx) = Data(tx)
    BY <1>6, <1>7, DataKept
  <1>9. Bytes(content', z, nic') = Bytes(content, z, nic')
    <2>1. Elems(Index(z, nic')) \cap Elems(Index(z, o)) = {}
      <3>1. Distinct(Index(z, nic))
        BY <1>6 DEF Places, PlaceInv, Apart
      <3> QED
        BY <1>5, <3>1 DEF Splits
    <2>2. Elems(Index(z, nic')) \subseteq Frames
      BY <1>5, <1>6, PlacedInFrames DEF Splits
    <2>3. FramesOf(o) = Index(z, o)
      BY DEF FramesOf, z
    <2> HIDE DEF o
    <2>4. \A f \in Elems(Index(z, nic')) : content'[f] = content[f]
      BY <1>1, <2>1, <2>2, <2>3, EraseKeeps
    <2>5. z \in Nat \ {0} /\ nic' \in Seq(Nat)
      BY <1>2, <1>3
    <2> QED
      BY <2>4, <2>5, BytesSame
  <1>10. /\ Data(descs)' = Data(descs) /\ Data(tx)' = Data(tx) /\ Data(rx)' = Data(rx)
         /\ Data(consumed)' = Data(consumed)
    BY <1>1, <1>8 DEF Data
  <1>11. Data(Reading)' = Data(Reading)
    <2>1. CASE pc = "copy"
      BY <1>1, <1>10, <2>1 DEF Reading, Data
    <2>2. CASE pc # "copy"
      BY <1>1, <2>2, BytesEmpty DEF Reading, Data
    <2> QED
      BY <2>1, <2>2
  <1>12. queued' = Bytes(content, z, nic') \o Data(tx)
    <2> DEFINE v == content[e \div z]
               w == <<v>>
               x == Bytes(content, z, nic')
               y == Data(tx)
    <2>1. Bytes(content, z, o) = w /\ w \in Seq(AnyPacket)
      <3>1. v \in AnyPacket
        BY <1>2, <1>3, DivNat DEF Values
      <3>2. e \in Nat /\ z \in Nat \ {0}
        BY <1>2, <1>3
      <3>3. Bytes(content, z, o) = w
        BY <3>2, BytesOne
      <3> HIDE DEF v
      <3>4. w \in Seq(AnyPacket)
        BY <3>1
      <3> QED
        BY <3>3, <3>4
    <2>2. x \in Seq(AnyPacket) /\ y \in Seq(AnyPacket)
      BY <1>2, <1>3, BytesType, DataType
    <2>3. Bytes(content, z, nic) = Bytes(content, z, o) \o x
      <3> HIDE DEF o
      <3>1. Bytes(content, z, o \o nic') = Bytes(content, z, o) \o Bytes(content, z, nic')
        BY <1>2, <1>3, BytesConcat
      <3> QED
        BY <1>3, <3>1
    <2>4. queued = Bytes(content, z, nic) \o y
      BY DEF PacketInv, Data, z
    <2> HIDE DEF o, x, y, v
    <2>5. queued = (w \o x) \o y
      BY <2>1, <2>3, <2>4
    <2>6. (w \o x) \o y = w \o (x \o y)
      <3> HIDE DEF w
      <3> QED
        BY <2>1, <2>2, ConcatAssociative
    <2> DEFINE xy == x \o y
    <2>7. xy \in Seq(AnyPacket)
      BY <2>2, ConcatProperties
    <2> HIDE DEF xy
    <2>8. Tail(w \o xy) = xy
      <3>1. v \in AnyPacket
        BY <1>2, <1>3, DivNat DEF Values, v
      <3>2. Tail(<<v>> \o xy) = xy
        BY <2>7, <3>1
      <3> QED
        BY <3>2 DEF w
    <2>9. queued' = xy
      BY <1>1, <2>5, <2>6, <2>8 DEF xy
    <2> QED
      BY <2>9 DEF xy, x, y
  <1>13. queued' = (Data(nic) \o Data(tx))'
    <2>1. Data(nic)' = Bytes(content, z, nic')
      BY <1>1, <1>9 DEF Data, z
    <2>2. queued' = Data(nic)' \o Data(tx)'
      BY <1>10, <1>12, <2>1
    <2> QED
      BY <2>2
  <1>14. arrived' = (Data(Reading) \o Data(rx))'
    <2>1. arrived' = Data(Reading)' \o Data(rx)'
      BY <1>1, <1>10, <1>11 DEF PacketInv
    <2> QED
      BY <2>1
  <1>15. DOMAIN content' = Frames
    BY <1>1 DEF Erase
  <1> QED
    BY <1>1, <1>10, <1>13, <1>14, <1>15 DEF PacketInv

LEMMA PacketNext ==
    ASSUME Places, PacketInv, [Next]_vars
    PROVE  PacketInv'
  BY PacketQuietSteps, PacketRecvTake, PacketRecvCopy, PacketRecvRefill, PacketSendWrite,
     PacketSendInsert, PacketKernelReceives, PacketKernelTakes, PacketKernelCompletes
     DEF Next, run_per_queue

\* recv_batch reads the packets the kernel delivered, in their order, and the
\* kernel sends those send_batch was given, in theirs: a frame keeps its
\* packet as long as somebody needs it (umem_read, umem_write_for_tx and the
\* refill of af_xdp.rs).
THEOREM PacketsAreIntact == Spec => []PacketsIntact
  <1>1. Init /\ LenInv => PacketInv
    <2> SUFFICES ASSUME Init, LenInv
                 PROVE  PacketInv
      OBVIOUS
    <2>1. <<>> \o <<>> = <<>>
      OBVIOUS
    <2>2. Data(<<>>) = <<>>
      BY BytesEmpty DEF Data
    <2> QED
      BY <2>1, <2>2 DEF Init, PacketInv, Reading
  <1>2. Places /\ PacketInv /\ [Next]_vars => PacketInv'
    BY PacketNext
  <1>3. Places /\ PacketInv => PacketsIntact
    <2> SUFFICES ASSUME Places, PacketInv
                 PROVE  PacketsIntact
      OBVIOUS
    <2> DEFINE bytes(s) == [i \in DOMAIN s |-> content[addr_to_frame_idx(s[i])]]
    <2>1. /\ bytes(Reading \o rx) = Data(Reading \o rx)
          /\ bytes(nic \o tx) = Data(nic \o tx)
      BY DEF Data, Bytes, addr_to_frame_idx
    <2>2. /\ Values(AnyPacket, content) /\ cfg.frame_size \in Nat \ {0}
          /\ rx \in Seq(Nat) /\ Reading \in Seq(Nat) /\ tx \in Seq(Nat) /\ nic \in Seq(Nat)
      BY AnyPackets, ListTypes DEF Places, Reading
    <2>3. Data(Reading \o rx) = arrived
      BY <2>2, BytesConcat DEF Data, PacketInv
    <2>4. Data(nic \o tx) = queued
      BY <2>2, BytesConcat DEF Data, PacketInv
    <2>5. bytes(Reading \o rx) = arrived /\ bytes(nic \o tx) = queued
      BY <2>1, <2>3, <2>4
    <2> QED
      BY <2>5 DEF PacketsIntact, Map, Reading
  <1>4. LenInv /\ InPlaces /\ SizeIs /\ PlaceInv => Places
    BY DEF Places
  <1> QED
    BY <1>1, <1>2, <1>3, <1>4, PlaceInvHolds, LenInvHolds, PTL DEF Spec
=============================================================================
