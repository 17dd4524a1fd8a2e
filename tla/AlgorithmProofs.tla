--------------------------- MODULE AlgorithmProofs ---------------------------
(***************************************************************************)
(* Proofs about the three pure algorithms of the node.                     *)
(*                                                                         *)
(* MaglevTable, for every prime size, all weights, offsets and skips: no   *)
(* search for a free slot goes once round the table, and the finished      *)
(* table gives each backend exactly its fair share of the slots.           *)
(*                                                                         *)
(* MssClamp, for any option list a TCP header has room for and every       *)
(* network MTU: a SYN leaves with an MSS that fits the tunnel and nothing  *)
(* else changed.                                                           *)
(*                                                                         *)
(* BgpWire, for any bytes of the peer and any cut of its stream: the       *)
(* messages popped are the messages sent, and the speaker's own messages   *)
(* say what they were meant to say.                                        *)
(*                                                                         *)
(* Sums, concatenations and the like are functions defined by recursion    *)
(* over an interval; the first section derives the induction they need     *)
(* from the library's well-founded orders.                                 *)
(***************************************************************************)
EXTENDS BgpWire, MssClamp, MaglevTable, FiniteSetTheorems, WellFoundedInduction, TLAPS

-----------------------------------------------------------------------------
(***************************************************************************)
(* Induction and recursion over an interval of naturals.                   *)
(***************************************************************************)
Less == {ss \in Nat \X Nat : ss[1] < ss[2]}

LEMMA LeastElement ==
    ASSUME NEW T \in SUBSET Nat, T # {}
    PROVE  \E x \in T : \A y \in T : x <= y
  <1>1. IsWellFoundedOn(Less, Nat)
    BY NatLessThanWellFounded, Zenon DEF OpToRel, Less
  <1>2. PICK x \in T : \A y \in T : ~ (<<y, x>> \in Less)
    BY <1>1, WFMin
  <1>3. \A a, b \in Nat : <<a, b>> \in Less <=> a < b
    BY DEF Less
  <1>4. ASSUME NEW y \in T
        PROVE  x <= y
    <2>1. x \in Nat /\ y \in Nat /\ <<y, x>> \notin Less
      BY <1>2
    <2>2. ~(y < x)
      BY <1>3, <2>1, Zenon
    <2> QED
      BY <2>1, <2>2
  <1> QED
    BY <1>4

LEMMA IntervalInduction ==
    ASSUME NEW N \in Nat, NEW T \in SUBSET (0 .. N), 0 \in T,
           \A n \in 0 .. (N - 1) : n \in T => n + 1 \in T
    PROVE  T = 0 .. N
  <1> DEFINE U == (0 .. N) \ T
  <1>1. SUFFICES ASSUME U # {} PROVE FALSE
    OBVIOUS
  <1>2. U \in SUBSET Nat
    OBVIOUS
  <1> HIDE DEF U
  <1>3. PICK x \in U : \A y \in U : x <= y
    BY <1>1, <1>2, LeastElement
  <1>4. x \in 0 .. N /\ x # 0 /\ x - 1 \in 0 .. (N - 1) /\ x - 1 \notin U
    BY <1>3 DEF U
  <1>5. x - 1 \in T
    BY <1>4 DEF U
  <1>6. (x - 1) + 1 \in T
    BY <1>4, <1>5
  <1> QED
    BY <1>3, <1>4, <1>6 DEF U

\* g is the sequence of the values that the step F, on S, makes of v.
Iterated(g, N, S, v, F) ==
    /\ g \in [0 .. N -> S] /\ g[0] = v
    /\ \A n \in 1 .. N : g[n] = F[n][g[n - 1]]

LEMMA Iterates ==
    ASSUME NEW N \in Nat, NEW S, NEW v \in S, NEW F \in [1 .. N -> [S -> S]]
    PROVE  \E g : Iterated(g, N, S, v, F)
  <1> DEFINE Runs(K, g) == g \in [0 .. K -> S] /\ g[0] = v
                           /\ \A n \in 1 .. K : g[n] = F[n][g[n - 1]]
             T == {K \in 0 .. N : \E g : Runs(K, g)}
  <1>1. 0 \in T
    <2>1. Runs(0, [n \in 0 .. 0 |-> v])
      OBVIOUS
    <2> HIDE DEF Runs
    <2> QED
      BY <2>1
  <1>2. ASSUME NEW K \in 0 .. (N - 1), K \in T
        PROVE  K + 1 \in T
    <2> HIDE DEF Runs
    <2>1. PICK g : Runs(K, g)
      BY <1>2
    <2>a. /\ g \in [0 .. K -> S] /\ g[0] = v
          /\ \A n \in 1 .. K : g[n] = F[n][g[n - 1]]
      BY <2>1 DEF Runs
    <2>2. K + 1 \in 1 .. N /\ K \in 0 .. K /\ 0 \in 0 .. K /\ K \in Nat
      OBVIOUS
    <2>b. g[K] \in S
      BY <2>a, <2>2
    <2> DEFINE y == F[K + 1][g[K]]
               f == [n \in 0 .. (K + 1) |-> IF n = K + 1 THEN y ELSE g[n]]
    <2>3. y \in S
      BY <2>2, <2>b
    <2>4. f \in [0 .. (K + 1) -> S] /\ f[0] = v
      <3> HIDE DEF y
      <3>1. \A n \in 0 .. (K + 1) : n = K + 1 \/ n \in 0 .. K
        BY <2>2
      <3>2. \A n \in 0 .. (K + 1) : f[n] \in S
        BY <2>a, <2>3, <3>1
      <3>3. 0 \in 0 .. (K + 1) /\ 0 # K + 1
        BY <2>2
      <3>4. f[0] = v
        BY <2>a, <3>3
      <3>5. f \in [0 .. (K + 1) -> S]
        BY <3>2
      <3> QED
        BY <3>4, <3>5
    <2>5. ASSUME NEW n \in 1 .. (K + 1)
          PROVE  f[n] = F[n][f[n - 1]]
      <3>1. CASE n = K + 1
        <4>1. f[n] = y /\ n - 1 = K /\ f[n - 1] = g[K]
          <5> HIDE DEF y
          <5> QED
            BY <2>2, <3>1
        <4> QED
          BY <3>1, <4>1
      <3>2. CASE n # K + 1
        <4>1. n \in 1 .. K /\ f[n] = g[n] /\ f[n - 1] = g[n - 1]
          <5> HIDE DEF y
          <5> QED
            BY <2>2, <3>2
        <4> QED
          BY <2>a, <4>1
      <3> QED
        BY <3>1, <3>2
    <2>6. Runs(K + 1, f)
      BY <2>4, <2>5 DEF Runs
    <2>7. K + 1 \in 0 .. N
      BY <2>2
    <2> HIDE DEF f
    <2> QED
      BY <2>6, <2>7
  <1>3. T = 0 .. N
    <2> HIDE DEF T
    <2>1. T \in SUBSET (0 .. N)
      BY DEF T
    <2> QED
      BY <1>1, <1>2, <2>1, IntervalInduction
  <1>4. PICK g : Runs(N, g)
    <2> HIDE DEF Runs
    <2>1. N \in 0 .. N
      OBVIOUS
    <2>2. N \in T
      BY <1>3, <2>1
    <2> QED
      BY <2>2
  <1> QED
    BY <1>4 DEF Iterated

\* What holds of the first value and passes to the next holds of all.
LEMMA Carried ==
    ASSUME NEW N \in Nat, NEW g, NEW S, g[0] \in S,
           \A n \in 1 .. N : g[n - 1] \in S => g[n] \in S
    PROVE  \A n \in 0 .. N : g[n] \in S
  <1> DEFINE T == {n \in 0 .. N : g[n] \in S}
  <1>1. 0 \in T
    OBVIOUS
  <1>2. ASSUME NEW n \in 0 .. (N - 1), n \in T
        PROVE  n + 1 \in T
    <2>1. n + 1 \in 1 .. N /\ (n + 1) - 1 = n
      OBVIOUS
    <2>2. g[n + 1] \in S
      BY <1>2, <2>1
    <2> QED
      BY <2>1, <2>2
  <1>3. T \in SUBSET (0 .. N)
    OBVIOUS
  <1>4. T = 0 .. N
    <2> HIDE DEF T
    <2> QED
      BY <1>1, <1>2, <1>3, IntervalInduction
  <1> QED
    BY <1>4
-----------------------------------------------------------------------------
(***************************************************************************)
(* MaglevTable: sums of weights.                                           *)
(***************************************************************************)
\* WeightOf is the sum that its definition describes.
LEMMA WeightUnfolds ==
    ASSUME weights \in Seq(Nat)
    PROVE  /\ WeightOf(0) = 0
           /\ \A k \in 1 .. Len(weights) : WeightOf(k) = WeightOf(k - 1) + weights[k]
           /\ \A k \in 0 .. Len(weights) : WeightOf(k) \in Nat
  <1> DEFINE N == Len(weights)
             D(g) == g = [k \in 0 .. N |-> IF k = 0 THEN 0 ELSE g[k - 1] + weights[k]]
             F == [n \in 1 .. N |-> [x \in Nat |-> x + weights[n]]]
             sum == CHOOSE g : D(g)
  <1>1. N \in Nat /\ \A k \in 1 .. N : weights[k] \in Nat
    OBVIOUS
  <1>2. \A k : WeightOf(k) = sum[k]
    BY DEF WeightOf
  <1> HIDE DEF N
  <1>3. \A n \in 1 .. N : \A x \in Nat : F[n][x] = x + weights[n]
    OBVIOUS
  <1>4. PICK g \in [0 .. N -> Nat] : g[0] = 0 /\ \A n \in 1 .. N : g[n] = F[n][g[n - 1]]
    <2> DEFINE S == Nat
               v == 0
    <2>1. F \in [1 .. N -> [S -> S]]
      BY <1>1
    <2>2. v \in S
      OBVIOUS
    <2> HIDE DEF F, S, v
    <2>3. \E g : Iterated(g, N, S, v, F)
      BY <1>1, <2>1, <2>2, Iterates
    <2> QED
      BY <2>3 DEF Iterated, S, v
  <1>5. ASSUME NEW k \in 1 .. N
        PROVE  g[k] = g[k - 1] + weights[k]
    <2>1. k - 1 \in 0 .. N /\ g[k - 1] \in Nat
      BY <1>1
    <2>2. F[k][g[k - 1]] = g[k - 1] + weights[k]
      BY <2>1
    <2> QED
      BY <1>4, <2>2
  <1>6. D(g)
    <2>1. \A k \in 0 .. N : k = 0 \/ k \in 1 .. N
      BY <1>1
    <2>2. \A k \in 0 .. N : g[k] = IF k = 0 THEN 0 ELSE g[k - 1] + weights[k]
      <3> HIDE DEF F
      <3> QED
        BY <1>1, <1>4, <1>5, <2>1
    <2> QED
      BY <1>4, <2>2
  <1>7. D(sum)
    <2> HIDE DEF D
    <2> QED
      BY <1>6
  <1> HIDE DEF sum
  <1>8. /\ sum[0] = 0
        /\ \A k \in 1 .. N : sum[k] = sum[k - 1] + weights[k]
    <2>1. 0 \in 0 .. N /\ \A k \in 1 .. N : k \in 0 .. N /\ k # 0
      BY <1>1
    <2> QED
      BY <1>7, <2>1
  <1>9. \A k \in 0 .. N : sum[k] \in Nat
    <2> DEFINE S == Nat
    <2>1. sum[0] \in S
      BY <1>8
    <2>2. ASSUME NEW k \in 1 .. N, sum[k - 1] \in S
          PROVE  sum[k] \in S
      <3>1. weights[k] \in Nat /\ sum[k - 1] \in Nat /\ sum[k] = sum[k - 1] + weights[k]
        BY <1>1, <1>8, <2>2
      <3> QED
        BY <3>1
    <2> HIDE DEF S
    <2>3. \A k \in 0 .. N : sum[k] \in S
      BY <1>1, <2>1, <2>2, Carried
    <2> QED
      BY <2>3 DEF S
  <1> QED
    BY <1>2, <1>8, <1>9 DEF N

\* More backends weigh more.
LEMMA WeightsGrow ==
    ASSUME weights \in Seq(Nat), NEW i \in 0 .. Len(weights), NEW j \in 0 .. Len(weights), i <= j
    PROVE  WeightOf(i) <= WeightOf(j)
  <1> DEFINE N == Len(weights)
             g == [k \in 0 .. N |-> WeightOf(k)]
             T == {k \in 0 .. N : k < i \/ WeightOf(i) <= WeightOf(k)}
  <1>1. N \in Nat /\ \A k \in 1 .. N : weights[k] \in Nat
    OBVIOUS
  <1>2. /\ \A k \in 1 .. N : WeightOf(k) = WeightOf(k - 1) + weights[k]
        /\ \A k \in 0 .. N : WeightOf(k) \in Nat
    BY WeightUnfolds
  <1> HIDE DEF N
  <1>3. 0 \in T
    <2>1. 0 \in 0 .. N /\ i \in Nat
      BY <1>1 DEF N
    <2>2. 0 < i \/ i = 0
      BY <2>1
    <2> QED
      BY <1>2, <2>1, <2>2
  <1>4. ASSUME NEW k \in 0 .. (N - 1), k \in T
        PROVE  k + 1 \in T
    <2>1. k + 1 \in 1 .. N /\ k + 1 \in 0 .. N /\ (k + 1) - 1 = k /\ i \in 0 .. N
      BY <1>1 DEF N
    <2>2. /\ WeightOf(k + 1) = WeightOf(k) + weights[k + 1]
          /\ WeightOf(k) \in Nat /\ weights[k + 1] \in Nat /\ WeightOf(i) \in Nat
      BY <1>1, <1>2, <2>1
    <2>3. k + 1 < i \/ WeightOf(i) <= WeightOf(k + 1)
      BY <1>4, <2>1, <2>2
    <2> QED
      BY <2>1, <2>3
  <1>5. T \in SUBSET (0 .. N)
    OBVIOUS
  <1>6. T = 0 .. N
    <2> HIDE DEF T
    <2> QED
      BY <1>1, <1>3, <1>4, <1>5, IntervalInduction
  <1> QED
    BY <1>6 DEF N

-----------------------------------------------------------------------------
(***************************************************************************)
(* MaglevTable: preference lists.  The size is a prime and no skip is a    *)
(* multiple of it, so that a list does not repeat a slot before its        *)
(* TableSize-th.                                                           *)
(***************************************************************************)
Multiple(x) == \E q \in Int : x = TableSize * q

LEMMA MultipleFacts ==
    /\ TableSize \in Nat /\ TableSize >= 2
    /\ \A x, y \in Int : Multiple(x) /\ Multiple(y) => Multiple(x - y)
    /\ \A x, y \in Int : Multiple(x) => Multiple(y * x)
    /\ \A x \in 1 .. (TableSize - 1) : ~Multiple(x)
  <1>1. TableSize \in Nat /\ TableSize >= 2
    BY PrimeAssumption
  <1> DEFINE m == TableSize
  <1>2. ASSUME NEW x \in Int, NEW y \in Int, Multiple(x), Multiple(y)
        PROVE  Multiple(x - y)
    <2>1. PICK q \in Int : x = m * q
      BY <1>2 DEF Multiple
    <2>2. PICK r \in Int : y = m * r
      BY <1>2 DEF Multiple
    <2>3. x - y = m * (q - r) /\ q - r \in Int
      BY <1>1, <2>1, <2>2
    <2> QED
      BY <2>3 DEF Multiple
  <1>3. ASSUME NEW x \in Int, NEW y \in Int, Multiple(x)
        PROVE  Multiple(y * x)
    <2>1. PICK q \in Int : x = m * q
      BY <1>3 DEF Multiple
    <2>2. y * x = m * (y * q) /\ y * q \in Int
      BY <1>1, <2>1
    <2> QED
      BY <2>2 DEF Multiple
  <1>4. ASSUME NEW x \in 1 .. (TableSize - 1), Multiple(x)
        PROVE  FALSE
    <2>1. PICK q \in Int : x = m * q
      BY <1>4 DEF Multiple
    <2>2. q <= 0 \/ q >= 1
      BY <2>1
    <2> HIDE DEF m
    <2>3. q <= 0 => m * q <= 0
      BY <1>1, <2>1 DEF m
    <2>4. q >= 1 => m * q >= m
      BY <1>1, <2>1 DEF m
    <2> QED
      BY <1>1, <2>1, <2>2, <2>3, <2>4 DEF m
  <1> QED
    BY <1>1, <1>2, <1>3, <1>4

\* A prime divides no product of two smaller numbers.
LEMMA PrimeProduct ==
    ASSUME NEW d \in 1 .. (TableSize - 1), NEW s \in 1 .. (TableSize - 1)
    PROVE  ~Multiple(d * s)
  <1> DEFINE m == TableSize
             T == {k \in 1 .. (m - 1) : Multiple(k * s)}
  <1>1. m \in Nat /\ m >= 2
    BY MultipleFacts
  <1>2. SUFFICES ASSUME Multiple(d * s) PROVE FALSE
    OBVIOUS
  <1>3. T \in SUBSET Nat /\ T # {}
    <2>1. d \in T
      BY <1>2
    <2>2. T \in SUBSET Nat
      BY <1>1
    <2> HIDE DEF T
    <2> QED
      BY <2>1, <2>2
  <1>4. PICK k \in T : \A j \in T : k <= j
    <2> HIDE DEF T
    <2> QED
      BY <1>3, LeastElement
  <1>5. k \in 1 .. (m - 1) /\ Multiple(k * s)
    BY <1>4
  <1>6. k # 1
    <2>1. 1 * s = s
      OBVIOUS
    <2> QED
      BY <1>5, <2>1, MultipleFacts
  <1>7. m % k # 0
    <2>1. k \in 2 .. (m - 1)
      BY <1>1, <1>5, <1>6
    <2> QED
      BY <2>1, PrimeAssumption
  <1> DEFINE r == m % k
             q == m \div k
  <1>8. r \in 1 .. (k - 1) /\ q \in Int /\ r = m - k * q
    BY <1>1, <1>5, <1>7
  <1> HIDE DEF r, q, m, T
  <1>9. r * s = m * s - q * (k * s) /\ r * s \in Int /\ k * s \in Int /\ s \in Int
    <2>1. s \in Int /\ k \in Int /\ m \in Int
      BY <1>1, <1>5
    <2> QED
      BY <1>8, <2>1
  <1>10. Multiple(m * s) /\ m * s \in Int
    BY <1>1, <1>9 DEF Multiple, m
  <1>11. Multiple(q * (k * s)) /\ q * (k * s) \in Int
    <2> DEFINE x == k * s
    <2>1. x \in Int /\ q \in Int /\ Multiple(x)
      BY <1>5, <1>8, <1>9
    <2> HIDE DEF x
    <2>2. Multiple(q * x) /\ q * x \in Int
      BY <2>1, MultipleFacts
    <2> QED
      BY <2>2 DEF x
  <1>12. Multiple(r * s)
    BY <1>9, <1>10, <1>11, MultipleFacts
  <1>13. r \in T
    BY <1>1, <1>5, <1>8, <1>12 DEF T
  <1> QED
    BY <1>4, <1>5, <1>8, <1>13

\* The slot at place k of the list with this offset and skip.
Listed(o, s, k) == (o + k * s) % TableSize

LEMMA ListsDoNotRepeat ==
    ASSUME NEW o \in MaglevSlots, NEW s \in 1 .. (TableSize - 1),
           NEW k \in 0 .. (TableSize - 1), NEW j \in 0 .. (TableSize - 1), k < j
    PROVE  Listed(o, s, k) # Listed(o, s, j)
  <1> DEFINE m == TableSize
             a == o + k * s
             b == o + j * s
  <1>1. m \in Nat /\ m >= 2
    BY MultipleFacts
  <1>2. SUFFICES ASSUME a % m = b % m PROVE FALSE
    BY DEF Listed
  <1>3. j - k \in 1 .. (m - 1) /\ k \in Int /\ j \in Int /\ s \in Int /\ o \in Int
    BY <1>1 DEF MaglevSlots
  <1>4. b - a = (j - k) * s
    BY <1>3
  <1>5. a \in Int /\ b \in Int
    BY <1>3
  <1> HIDE DEF a, b
  <1> DEFINE p == a \div m
             q == b \div m
  <1>6. /\ a = m * p + (a % m) /\ b = m * q + (b % m)
        /\ p \in Int /\ q \in Int /\ a % m \in Int /\ b % m \in Int
    BY <1>1, <1>5
  <1> HIDE DEF p, q
  <1>7. b - a = m * (q - p) /\ q - p \in Int
    BY <1>1, <1>2, <1>5, <1>6
  <1>8. Multiple((j - k) * s)
    BY <1>4, <1>7 DEF Multiple
  <1> QED
    BY <1>3, <1>8, PrimeProduct

LEMMA UsableTyped ==
    ASSUME NEW ws \in Seq(Nat)
    PROVE  Usable(ws) \in Seq(Nat \ {0})
  <1> DEFINE N == Len(ws)
             S == Seq(Nat \ {0})
             v == <<>>
             D(g) == g = [i \in 0 .. N |-> IF i = 0 THEN v
                                           ELSE IF ws[i] > 0 THEN Append(g[i - 1], ws[i])
                                           ELSE g[i - 1]]
             F == [i \in 1 .. N |-> [x \in S |-> IF ws[i] > 0 THEN Append(x, ws[i]) ELSE x]]
             active == CHOOSE g : D(g)
  <1>1. N \in Nat /\ \A i \in 1 .. N : ws[i] \in Nat
    OBVIOUS
  <1>2. Usable(ws) = active[N]
    BY DEF Usable
  <1>3. v \in S /\ \A x \in S : \A w \in Nat : w > 0 => Append(x, w) \in S
    OBVIOUS
  <1> HIDE DEF N, S, v
  <1>4. F \in [1 .. N -> [S -> S]]
    BY <1>1, <1>3
  <1>5. PICK g : Iterated(g, N, S, v, F)
    <2> HIDE DEF F
    <2> QED
      BY <1>1, <1>3, <1>4, Iterates
  <1>6. g \in [0 .. N -> S] /\ g[0] = v /\ \A i \in 1 .. N : g[i] = F[i][g[i - 1]]
    BY <1>5 DEF Iterated
  <1>7. ASSUME NEW i \in 1 .. N
        PROVE  g[i] = IF ws[i] > 0 THEN Append(g[i - 1], ws[i]) ELSE g[i - 1]
    <2>1. i - 1 \in 0 .. N /\ g[i - 1] \in S
      BY <1>1, <1>6
    <2>2. g[i] = F[i][g[i - 1]]
      BY <1>6
    <2> QED
      BY <2>1, <2>2
  <1>8. D(g)
    <2>1. \A i \in 0 .. N : i = 0 \/ i \in 1 .. N
      BY <1>1
    <2> HIDE DEF F
    <2>2. \A i \in 0 .. N : g[i] = IF i = 0 THEN v
                                   ELSE IF ws[i] > 0 THEN Append(g[i - 1], ws[i])
                                   ELSE g[i - 1]
      BY <1>1, <1>6, <1>7, <2>1
    <2> QED
      BY <1>6, <2>2
  <1>9. D(active)
    <2> HIDE DEF D
    <2> QED
      BY <1>8
  <1> HIDE DEF active
  <1>10. active[0] \in S
    <2>1. 0 \in 0 .. N
      BY <1>1
    <2> QED
      BY <1>3, <1>9, <2>1
  <1>11. ASSUME NEW i \in 1 .. N, active[i - 1] \in S
         PROVE  active[i] \in S
    <2>1. i \in 0 .. N /\ i # 0
      BY <1>1
    <2>2. active[i] = IF ws[i] > 0 THEN Append(active[i - 1], ws[i]) ELSE active[i - 1]
      BY <1>9, <2>1
    <2> QED
      BY <1>1, <1>3, <1>11, <2>2
  <1>12. \A i \in 0 .. N : active[i] \in S
    BY <1>1, <1>10, <1>11, Carried
  <1>13. active[N] \in S
    BY <1>1, <1>12
  <1> QED
    BY <1>2, <1>13 DEF S

-----------------------------------------------------------------------------
(***************************************************************************)
(* MaglevTable: the filling.  The searches have left no free slot behind,  *)
(* and the slots dealt are those of some number of full passes over the    *)
(* backends and of the present pass up to the present chance.              *)
(***************************************************************************)
MaglevTyped ==
    /\ weights \in Seq(Nat \ {0}) /\ weights # <<>>
    /\ params \in [DOMAIN weights -> [offset : offset, skip : skip]]
    /\ entries \in [MaglevSlots -> 0 .. Len(weights)]
    /\ next \in [DOMAIN weights -> Nat]
    /\ turn \in DOMAIN weights /\ chance \in 1 .. weights[turn]
    /\ building \in BOOLEAN

SearchInv ==
    \A i \in DOMAIN weights : \A k \in 0 .. (next[i] - 1) :
        entries[Listed(params[i].offset, params[i].skip, k)] # Free

\* In the pass after the first p, backend turn has had u slots.
Dealt(p, u) ==
    /\ \A i \in DOMAIN weights :
          Slots(i) = p * weights[i] + (IF i < turn THEN weights[i] ELSE IF i = turn THEN u ELSE 0)
    /\ Filled = p * Total + WeightOf(turn - 1) + u

DealInv ==
    IF building
    THEN Filled < TableSize /\ \E p \in Nat : Dealt(p, weights[turn] - chance)
    ELSE Filled = TableSize /\ \E p \in Nat : Dealt(p, weights[turn] - chance + 1)

MaglevInv == MaglevTyped /\ SearchInv /\ DealInv

\* The hash of a lookup is reduced to itself when it is a slot.
LEMMA SlotFacts ==
    ASSUME NEW c \in MaglevSlots
    PROVE  c % TableSize = c /\ lookup(c) = entries[c]
  BY MultipleFacts DEF MaglevSlots, lookup

LEMMA CountFacts ==
    /\ IsFiniteSet(MaglevSlots) /\ Cardinality(MaglevSlots) = TableSize
    /\ \A T \in SUBSET MaglevSlots : /\ IsFiniteSet(T) /\ Cardinality(T) \in Nat
                                     /\ Cardinality(T) <= TableSize
                                     /\ Cardinality(T) = TableSize => T = MaglevSlots
  <1>1. IsFiniteSet(MaglevSlots) /\ Cardinality(MaglevSlots) = TableSize
    BY FS_Interval, MultipleFacts DEF MaglevSlots
  <1>2. ASSUME NEW T \in SUBSET MaglevSlots
        PROVE  /\ IsFiniteSet(T) /\ Cardinality(T) \in Nat
               /\ Cardinality(T) <= TableSize
               /\ Cardinality(T) = TableSize => T = MaglevSlots
    <2>1. IsFiniteSet(T) /\ Cardinality(T) <= TableSize
          /\ (Cardinality(T) = TableSize => T = MaglevSlots)
      BY <1>1, FS_Subset
    <2>2. Cardinality(T) \in Nat
      BY <2>1, FS_CardinalityType
    <2> QED
      BY <2>1, <2>2
  <1> QED
    BY <1>1, <1>2

LEMMA PreferenceIsSlot ==
    ASSUME MaglevTyped, NEW i \in DOMAIN weights
    PROVE  /\ Preference(i) = Listed(params[i].offset, params[i].skip, next[i])
           /\ Preference(i) \in MaglevSlots
           /\ params[i].offset \in MaglevSlots /\ params[i].skip \in 1 .. (TableSize - 1)
           /\ next[i] \in Nat
  <1>1. /\ params[i].offset \in MaglevSlots /\ params[i].skip \in 1 .. (TableSize - 1)
        /\ next[i] \in Nat
    BY DEF MaglevTyped, offset, skip
  <1>2. Preference(i) = Listed(params[i].offset, params[i].skip, next[i])
    BY DEF Preference, Listed
  <1> DEFINE x == params[i].offset + next[i] * params[i].skip
  <1>3. x \in Int
    BY <1>1, MultipleFacts DEF MaglevSlots
  <1> HIDE DEF x
  <1>4. x % TableSize \in MaglevSlots
    BY <1>3, MultipleFacts DEF MaglevSlots
  <1> QED
    BY <1>1, <1>2, <1>4 DEF Preference, x

\* Pigeons: a list that has been once round has met every slot.
LEMMA SearchIsBounded ==
    ASSUME MaglevTyped, SearchInv, Filled < TableSize, NEW i \in DOMAIN weights
    PROVE  next[i] < TableSize
  <1> SUFFICES ASSUME next[i] >= TableSize PROVE FALSE
    BY PreferenceIsSlot, MultipleFacts
  <1> DEFINE o == params[i].offset
             s == params[i].skip
             U == {c \in MaglevSlots : entries[c] # Free}
             f == [k \in MaglevSlots |-> Listed(o, s, k)]
  <1>1. o \in MaglevSlots /\ s \in 1 .. (TableSize - 1) /\ next[i] \in Nat
    BY PreferenceIsSlot
  <1>2. ASSUME NEW k \in MaglevSlots
        PROVE  f[k] \in U
    <2>1. k \in 0 .. (next[i] - 1)
      BY <1>1, MultipleFacts DEF MaglevSlots
    <2>2. entries[Listed(o, s, k)] # Free
      BY <2>1 DEF SearchInv
    <2> DEFINE x == o + k * s
    <2>3. x \in Int
      BY <1>1, MultipleFacts DEF MaglevSlots
    <2> HIDE DEF x, o, s
    <2>4. Listed(o, s, k) \in MaglevSlots
      BY <2>3, MultipleFacts DEF Listed, MaglevSlots, x
    <2> QED
      BY <2>2, <2>4
  <1>3. f \in [MaglevSlots -> U] /\ U \in SUBSET MaglevSlots /\ Cardinality(U) < TableSize
    <2> HIDE DEF o, s
    <2> QED
      BY <1>2 DEF Filled
  <1> HIDE DEF U
  <1>4. PICK k \in MaglevSlots, j \in MaglevSlots : k # j /\ f[k] = f[j]
    <2>1. IsFiniteSet(U) /\ IsFiniteSet(MaglevSlots) /\ Cardinality(U) < Cardinality(MaglevSlots)
      BY <1>3, CountFacts
    <2> HIDE DEF f
    <2> QED
      BY <1>3, <2>1, FS_PigeonHole
  <1>5. Listed(o, s, k) = Listed(o, s, j)
    BY <1>4
  <1>6. k \in 0 .. (TableSize - 1) /\ j \in 0 .. (TableSize - 1) /\ (k < j \/ j < k)
    BY <1>4, MultipleFacts DEF MaglevSlots
  <1> HIDE DEF o, s
  <1> QED
    BY <1>1, <1>5, <1>6, ListsDoNotRepeat

LEMMA WeightFacts ==
    ASSUME MaglevTyped
    PROVE  /\ weights \in Seq(Nat) /\ Len(weights) \in Nat /\ Len(weights) >= 1
           /\ DOMAIN weights = 1 .. Len(weights)
           /\ \A i \in DOMAIN weights : weights[i] \in Nat /\ weights[i] >= 1
           /\ WeightOf(0) = 0
           /\ \A i \in DOMAIN weights : /\ WeightOf(i) = WeightOf(i - 1) + weights[i]
                                        /\ WeightOf(i) \in Nat /\ WeightOf(i - 1) \in Nat
           /\ Total \in Nat /\ Total >= 1
  <1>1. weights \in Seq(Nat) /\ Len(weights) \in Nat /\ Len(weights) >= 1
        /\ DOMAIN weights = 1 .. Len(weights)
        /\ \A i \in DOMAIN weights : weights[i] \in Nat /\ weights[i] >= 1
    BY DEF MaglevTyped
  <1>2. /\ WeightOf(0) = 0
        /\ \A i \in 1 .. Len(weights) : WeightOf(i) = WeightOf(i - 1) + weights[i]
        /\ \A i \in 0 .. Len(weights) : WeightOf(i) \in Nat
    BY <1>1, WeightUnfolds
  <1>3. \A i \in 1 .. Len(weights) : i \in 0 .. Len(weights) /\ i - 1 \in 0 .. Len(weights)
    BY <1>1
  <1>4. Total \in Nat /\ Total >= 1
    <2>1. 1 \in 1 .. Len(weights) /\ Len(weights) \in 0 .. Len(weights)
      BY <1>1
    <2>2. WeightOf(1) >= 1
      BY <1>1, <1>2, <2>1
    <2>3. WeightOf(1) <= WeightOf(Len(weights))
      BY <1>1, <1>3, <2>1, WeightsGrow
    <2>4. WeightOf(Len(weights)) \in Nat /\ WeightOf(1) \in Nat
      BY <1>2, <1>3, <2>1
    <2> QED
      BY <2>2, <2>3, <2>4 DEF Total
  <1> QED
    BY <1>1, <1>2, <1>3, <1>4

LEMMA MaglevInitInv == MaglevInit => MaglevInv
  <1> SUFFICES ASSUME MaglevInit PROVE MaglevInv
    OBVIOUS
  <1>1. weights \in Seq(Nat \ {0}) /\ weights # <<>>
    <2>1. PICK ws \in WeightLists : weights = Usable(ws) /\ weights # <<>>
      BY DEF MaglevInit
    <2> QED
      BY <2>1, UsableTyped, WeightsAssumption
  <1>2. 1 \in DOMAIN weights /\ weights[1] \in Nat /\ weights[1] >= 1 /\ Len(weights) \in Nat
    BY <1>1
  <1>3. MaglevTyped
    BY <1>1, <1>2 DEF MaglevInit, MaglevTyped, Free
  <1>4. SearchInv
    BY <1>2 DEF MaglevInit, SearchInv
  <1>5. \A c \in MaglevSlots : entries[c] = Free /\ lookup(c) = Free
    BY SlotFacts DEF MaglevInit
  <1>6. Filled = 0
    <2>1. {c \in MaglevSlots : entries[c] # Free} = {}
      BY <1>5
    <2> QED
      BY <2>1, FS_EmptySet DEF Filled
  <1>7. ASSUME NEW i \in DOMAIN weights
        PROVE  Slots(i) = 0
    <2>1. i # Free
      BY <1>1 DEF Free
    <2>2. {h \in MaglevSlots : lookup(h) = i} = {}
      BY <1>5, <2>1
    <2> QED
      BY <2>2, FS_EmptySet DEF Slots
  <1>8. turn = 1 /\ chance = weights[1] /\ building = TRUE
    BY DEF MaglevInit
  <1>9. Dealt(0, weights[turn] - chance)
    <2>1. \A i \in DOMAIN weights : i >= 1 /\ weights[i] \in Nat
      BY <1>1
    <2>2. Total \in Nat /\ WeightOf(0) = 0
      BY <1>3, WeightFacts
    <2> QED
      BY <1>2, <1>6, <1>7, <1>8, <2>1, <2>2 DEF Dealt
  <1>10. DealInv
    BY <1>6, <1>8, <1>9, MultipleFacts DEF DealInv
  <1> QED
    BY <1>3, <1>4, <1>10 DEF MaglevInv

LEMMA SkipInv == MaglevInv /\ Skip => MaglevInv'
  <1> SUFFICES ASSUME MaglevInv, Skip PROVE MaglevInv'
    OBVIOUS
  <1>1. /\ UNCHANGED <<weights, params, entries, turn, chance, building>>
        /\ next' = [next EXCEPT ![turn] = @ + 1] /\ entries[Preference(turn)] # Free
    BY DEF Skip
  <1>2. MaglevTyped /\ SearchInv /\ DealInv /\ turn \in DOMAIN weights
    BY DEF MaglevInv, MaglevTyped
  <1>3. MaglevTyped'
    BY <1>1, <1>2 DEF MaglevTyped
  <1>4. SearchInv'
    <2> SUFFICES ASSUME NEW i \in DOMAIN weights, NEW k \in 0 .. (next'[i] - 1)
                 PROVE  entries[Listed(params[i].offset, params[i].skip, k)] # Free
      BY <1>1 DEF SearchInv, Listed
    <2>1. next[i] \in Nat /\ next'[i] = IF i = turn THEN next[i] + 1 ELSE next[i]
      BY <1>1, <1>2 DEF MaglevTyped
    <2>2. k \in 0 .. (next[i] - 1) \/ (i = turn /\ k = next[i])
      <3>1. CASE i = turn
        <4>1. k \in 0 .. next[i]
          BY <2>1, <3>1
        <4> QED
          BY <2>1, <3>1, <4>1
      <3>2. CASE i # turn
        BY <2>1, <3>2
      <3> QED
        BY <3>1, <3>2
    <2> QED
      BY <1>1, <1>2, <2>2, PreferenceIsSlot DEF SearchInv
  <1>5. DealInv'
    <2>1. \A i : Slots(i)' = Slots(i)
      BY <1>1 DEF Slots, lookup
    <2>2. Filled' = Filled
      BY <1>1 DEF Filled
    <2>3. \A i : WeightOf(i)' = WeightOf(i)
      BY <1>1 DEF WeightOf
    <2>4. Total' = Total
      BY <1>1, <2>3 DEF Total
    <2>5. \A p, u : Dealt(p, u)' <=> Dealt(p, u)
      BY <1>1, <2>1, <2>2, <2>3, <2>4 DEF Dealt
    <2> QED
      BY <1>1, <1>2, <2>2, <2>5 DEF DealInv
  <1> QED
    BY <1>3, <1>4, <1>5 DEF MaglevInv

\* A claim fills one more slot, and it is one of turn's.
LEMMA ClaimCounts ==
    ASSUME MaglevInv, Claim
    PROVE  /\ Filled' = Filled + 1
           /\ \A i \in DOMAIN weights : Slots(i)' = Slots(i) + (IF i = turn THEN 1 ELSE 0)
  <1> DEFINE c == Preference(turn)
             U == {h \in MaglevSlots : entries[h] # Free}
             T(i) == {h \in MaglevSlots : lookup(h) = i}
  <1>1. MaglevTyped /\ turn \in DOMAIN weights /\ turn \in 0 .. Len(weights) /\ turn # Free
    BY DEF MaglevInv, MaglevTyped, Free
  <1>2. c \in MaglevSlots /\ entries[c] = Free /\ entries' = [entries EXCEPT ![c] = turn]
    BY <1>1, PreferenceIsSlot DEF Claim
  <1> HIDE DEF c
  <1>3. \A h \in MaglevSlots : entries'[h] = IF h = c THEN turn ELSE entries[h]
    BY <1>1, <1>2 DEF MaglevTyped
  <1>4. \A h \in MaglevSlots : lookup(h) = entries[h] /\ lookup(h)' = entries'[h]
    <2>1. \A h \in MaglevSlots : h % TableSize = h
      BY SlotFacts
    <2> QED
      BY <2>1 DEF lookup
  <1>5. Filled' = Filled + 1
    <2>1. {h \in MaglevSlots : entries'[h] # Free} = U \cup {c}
      BY <1>1, <1>2, <1>3
    <2>2. c \notin U /\ IsFiniteSet(U)
      BY <1>2, CountFacts
    <2> HIDE DEF U
    <2>3. Cardinality(U \cup {c}) = Cardinality(U) + 1
      BY <2>2, FS_AddElement
    <2> QED
      BY <2>1, <2>3 DEF Filled, U
  <1>6. ASSUME NEW i \in DOMAIN weights
        PROVE  Slots(i)' = Slots(i) + (IF i = turn THEN 1 ELSE 0)
    <2>1. i # Free
      BY <1>1 DEF MaglevTyped, Free
    <2>2. Slots(i)' = Cardinality({h \in MaglevSlots : lookup(h)' = i})
      BY DEF Slots
    <2>3. IsFiniteSet(T(i)) /\ Cardinality(T(i)) \in Nat
      BY CountFacts
    <2>4. CASE i = turn
      <3>1. {h \in MaglevSlots : lookup(h)' = i} = T(i) \cup {c}
        BY <1>2, <1>3, <1>4, <2>4
      <3>2. c \notin T(i)
        BY <1>2, <1>4, <2>1
      <3> DEFINE X == T(i)
      <3>3. IsFiniteSet(X) /\ c \notin X
        BY <2>3, <3>2
      <3> HIDE DEF X
      <3>4. Cardinality(X \cup {c}) = Cardinality(X) + 1
        BY <3>3, FS_AddElement
      <3> QED
        BY <2>2, <2>4, <3>1, <3>4 DEF Slots, X
    <2>5. CASE i # turn
      <3>1. {h \in MaglevSlots : lookup(h)' = i} = T(i)
        BY <1>2, <1>3, <1>4, <2>1, <2>5
      <3> QED
        BY <2>2, <2>3, <2>5, <3>1 DEF Slots
    <2> QED
      BY <2>4, <2>5
  <1> QED
    BY <1>5, <1>6

LEMMA ClaimInv == MaglevInv /\ Claim => MaglevInv'
  <1> SUFFICES ASSUME MaglevInv, Claim PROVE MaglevInv'
    OBVIOUS
  <1> DEFINE c == Preference(turn)
             w == weights[turn]
             n == Len(weights)
  <1>1. /\ building = TRUE /\ entries[c] = Free /\ entries' = [entries EXCEPT ![c] = turn]
        /\ next' = [next EXCEPT ![turn] = @ + 1]
        /\ building' = (Filled + 1 < TableSize)
        /\ IF building' THEN Advance ELSE UNCHANGED <<turn, chance>>
        /\ weights' = weights /\ params' = params
    BY DEF Claim, MaglevInv, MaglevTyped
  <1>2. MaglevTyped /\ SearchInv /\ DealInv /\ turn \in DOMAIN weights /\ chance \in 1 .. w
    BY DEF MaglevInv, MaglevTyped
  <1>3. /\ n \in Nat /\ n >= 1 /\ DOMAIN weights = 1 .. n /\ turn \in 1 .. n
        /\ \A i \in DOMAIN weights : weights[i] \in Nat /\ weights[i] >= 1
    BY <1>2, WeightFacts
  <1>4. c \in MaglevSlots /\ c = Listed(params[turn].offset, params[turn].skip, next[turn])
    BY <1>2, PreferenceIsSlot
  <1>5. \/ building' /\ turn' = turn /\ chance > 1 /\ chance' = chance - 1
        \/ building' /\ turn < n /\ turn' = turn + 1 /\ chance = 1 /\ chance' = weights[turn']
        \/ building' /\ turn = n /\ turn' = 1 /\ chance = 1 /\ chance' = weights[turn']
        \/ ~building' /\ turn' = turn /\ chance' = chance
    <2>1. CASE ~building'
      BY <1>1, <2>1
    <2>2. CASE building' /\ chance > 1
      BY <1>1, <2>2 DEF Advance
    <2>3. CASE building' /\ ~(chance > 1)
      <3>1. turn' = (turn % n) + 1 /\ chance' = weights[turn'] /\ chance = 1
        BY <1>1, <1>2, <1>3, <2>3 DEF Advance
      <3> HIDE DEF n
      <3>2. turn < n => turn % n = turn
        BY <1>3
      <3>3. turn = n => turn % n = 0
        BY <1>3
      <3> QED
        BY <1>3, <2>3, <3>1, <3>2, <3>3
    <2> QED
      BY <2>1, <2>2, <2>3
  <1>6. turn' \in DOMAIN weights /\ chance' \in 1 .. weights[turn']
    <2> HIDE DEF n
    <2>1. turn' \in 1 .. n
      BY <1>3, <1>5
    <2>2. weights[turn'] \in Nat /\ weights[turn'] >= 1
      BY <1>3, <2>1
    <2>3. chance' \in 1 .. weights[turn']
      <3>1. CASE chance' = weights[turn']
        BY <2>2, <3>1
      <3>2. CASE turn' = turn /\ chance' \in {chance, chance - 1} /\ chance' >= 1
        BY <1>2, <1>3, <3>2
      <3> QED
        BY <1>2, <1>3, <1>5, <3>1, <3>2
    <2> QED
      BY <1>3, <2>1, <2>3
  <1>7. MaglevTyped'
    <2>1. entries' \in [MaglevSlots -> 0 .. Len(weights)]
      BY <1>1, <1>2, <1>3, <1>4 DEF MaglevTyped
    <2>2. next' \in [DOMAIN weights -> Nat]
      BY <1>1, <1>2 DEF MaglevTyped
    <2>3. building' \in BOOLEAN
      BY <1>1
    <2> QED
      BY <1>1, <1>2, <1>6, <2>1, <2>2, <2>3 DEF MaglevTyped
  <1>8. SearchInv'
    <2> SUFFICES ASSUME NEW i \in DOMAIN weights, NEW k \in 0 .. (next'[i] - 1)
                 PROVE  entries'[Listed(params[i].offset, params[i].skip, k)] # Free
      BY <1>1 DEF SearchInv, Listed
    <2> DEFINE h == Listed(params[i].offset, params[i].skip, k)
    <2>1. next[i] \in Nat /\ next'[i] = IF i = turn THEN next[i] + 1 ELSE next[i]
      BY <1>1, <1>2 DEF MaglevTyped
    <2>2. k \in 0 .. (next[i] - 1) \/ (i = turn /\ k = next[i])
      <3>1. CASE i = turn
        <4>1. k \in 0 .. next[i]
          BY <2>1, <3>1
        <4> QED
          BY <2>1, <3>1, <4>1
      <3>2. CASE i # turn
        BY <2>1, <3>2
      <3> QED
        BY <3>1, <3>2
    <2>3. turn # Free
      BY <1>3 DEF Free
    <2> HIDE DEF c
    <2>4. entries'[c] # Free
      BY <1>1, <1>2, <1>4, <2>3 DEF MaglevTyped
    <2>5. CASE k \in 0 .. (next[i] - 1)
      <3>1. entries[h] # Free
        BY <1>2, <2>5 DEF SearchInv
      <3> HIDE DEF h
      <3>2. h # c
        BY <1>1, <3>1
      <3>3. entries'[h] = entries[h]
        BY <1>1, <3>2
      <3> QED
        BY <3>1, <3>3 DEF h
    <2>6. CASE i = turn /\ k = next[i]
      BY <1>4, <2>4, <2>6
    <2> QED
      BY <2>2, <2>5, <2>6
  <1>9. DealInv'
    <2>1. /\ Filled' = Filled + 1
          /\ \A i \in DOMAIN weights : Slots(i)' = Slots(i) + (IF i = turn THEN 1 ELSE 0)
      BY ClaimCounts
    <2>2. (\A i : WeightOf(i)' = WeightOf(i)) /\ Total' = Total
      BY <1>1 DEF WeightOf, Total
    <2>3. Filled < TableSize /\ Filled \in Nat
      BY <1>1, <1>2, CountFacts DEF DealInv, Filled
    <2>4. PICK p \in Nat : Dealt(p, w - chance)
      BY <1>1, <1>2 DEF DealInv
    <2>5. PICK u \in Nat : u = w - chance + 1
      BY <1>2, <1>3
    <2>a. u >= 1 /\ u <= w /\ w \in Nat /\ (chance = 1 => u = w)
      BY <1>2, <1>3, <2>5
    <2>6. /\ \A i \in DOMAIN weights :
                Slots(i)' = p * weights[i] + (IF i < turn THEN weights[i]
                                              ELSE IF i = turn THEN u ELSE 0)
          /\ Filled' = p * Total + WeightOf(turn - 1) + u
      <3>1. Total \in Nat /\ WeightOf(turn - 1) \in Nat /\ p * Total \in Nat
        BY <1>2, WeightFacts
      <3>2. w - chance \in Nat /\ u = (w - chance) + 1
        BY <1>2, <1>3, <2>5
      <3>3. Filled' = p * Total + WeightOf(turn - 1) + u
        <4> HIDE DEF w
        <4> DEFINE t == p * Total
        <4>1. Filled = t + WeightOf(turn - 1) + (w - chance)
          BY <2>4 DEF Dealt
        <4> HIDE DEF t
        <4>2. t \in Nat
          BY <3>1 DEF t
        <4> QED
          BY <2>1, <3>1, <3>2, <4>1, <4>2 DEF t
      <3>4. ASSUME NEW i \in DOMAIN weights
            PROVE  Slots(i)' = p * weights[i] + (IF i < turn THEN weights[i]
                                                 ELSE IF i = turn THEN u ELSE 0)
        <4> DEFINE t == p * weights[i]
        <4>1. t \in Nat /\ weights[i] \in Nat /\ i \in Nat
          BY <1>3, <2>4
        <4>2. Slots(i) = t + (IF i < turn THEN weights[i] ELSE IF i = turn THEN w - chance ELSE 0)
          BY <2>4 DEF Dealt
        <4>3. Slots(i)' = Slots(i) + (IF i = turn THEN 1 ELSE 0)
          BY <2>1
        <4> HIDE DEF t, w, n
        <4> QED
          BY <1>3, <3>2, <4>1, <4>2, <4>3 DEF t
      <3> QED
        BY <3>3, <3>4
    <2>7. CASE ~building'
      <3>1. turn' = turn /\ chance' = chance /\ Filled' = TableSize
        <4>1. ~(Filled + 1 < TableSize)
          BY <1>1, <2>7, Zenon
        <4>2. Filled + 1 = TableSize
          BY <2>3, <4>1, MultipleFacts
        <4> QED
          BY <1>5, <2>1, <2>7, <4>2
      <3>2. Dealt(p, u)'
        BY <1>1, <2>2, <2>6, <3>1 DEF Dealt
      <3>3. weights'[turn'] - chance' + 1 = u
        BY <1>1, <2>5, <3>1
      <3> QED
        BY <2>7, <3>1, <3>2, <3>3 DEF DealInv
    <2>8. CASE building' /\ turn' = turn /\ chance > 1 /\ chance' = chance - 1
      <3>1. Dealt(p, u)'
        BY <1>1, <2>2, <2>6, <2>8 DEF Dealt
      <3>2. weights'[turn'] - chance' = u
        BY <1>1, <1>2, <1>3, <2>5, <2>8
      <3> QED
        BY <1>1, <2>1, <2>8, <3>1, <3>2 DEF DealInv
    <2>9. CASE building' /\ turn < n /\ turn' = turn + 1 /\ chance = 1 /\ chance' = weights[turn']
      <3>1. u = w /\ WeightOf(turn) = WeightOf(turn - 1) + w /\ WeightOf(turn) \in Nat
        BY <1>2, <2>a, <2>9, WeightFacts
      <3>2. turn \in Nat /\ turn' - 1 = turn
        BY <1>3, <2>9
      <3>3. Filled' = p * Total + WeightOf(turn) + 0
        <4>1. p * Total \in Nat /\ WeightOf(turn - 1) \in Nat
          BY <1>2, WeightFacts
        <4> HIDE DEF w, n
        <4> DEFINE t == p * Total
        <4> HIDE DEF t
        <4> QED
          BY <2>5, <2>6, <3>1, <4>1 DEF t
      <3>4. \A i \in DOMAIN weights :
               Slots(i)' = p * weights[i] + (IF i < turn' THEN weights[i]
                                             ELSE IF i = turn' THEN 0 ELSE 0)
        <4>1. \A i \in DOMAIN weights : i \in Nat /\ (i < turn' <=> i < turn \/ i = turn)
          <5> HIDE DEF n
          <5> QED
            BY <1>3, <2>9, <3>2
        <4> QED
          BY <1>3, <2>6, <3>1, <4>1
      <3>5. Dealt(p, 0)'
        BY <1>1, <2>2, <3>2, <3>3, <3>4 DEF Dealt
      <3>6. weights'[turn'] - chance' = 0
        BY <1>1, <1>6, <1>3, <2>9
      <3> QED
        BY <1>1, <2>1, <2>9, <3>5, <3>6 DEF DealInv
    <2>10. CASE building' /\ turn = n /\ turn' = 1 /\ chance = 1 /\ chance' = weights[turn']
      <3>1. /\ u = w /\ Total = WeightOf(turn - 1) + w /\ Total \in Nat /\ WeightOf(0) = 0
            /\ WeightOf(turn - 1) \in Nat
        BY <1>2, <2>a, <2>10, WeightFacts DEF Total
      <3>2. Filled' = (p + 1) * Total + WeightOf(turn' - 1) + 0
        <4>1. p * Total \in Nat /\ (p + 1) * Total = p * Total + Total
          BY <3>1
        <4>2. turn' - 1 = 0
          BY <2>10
        <4> HIDE DEF w, n
        <4> DEFINE t == p * Total
        <4> HIDE DEF t
        <4>3. Filled' = t + WeightOf(turn - 1) + u /\ (p + 1) * Total = t + Total /\ t \in Nat
          BY <2>6, <4>1 DEF t
        <4> QED
          BY <2>5, <3>1, <4>2, <4>3
      <3>3. \A i \in DOMAIN weights :
               Slots(i)' = (p + 1) * weights[i] + (IF i < turn' THEN weights[i]
                                                   ELSE IF i = turn' THEN 0 ELSE 0)
        <4> TAKE i \in DOMAIN weights
        <4>1. i \in Nat /\ (i < turn \/ i = turn) /\ ~(i < turn') /\ weights[i] \in Nat
          BY <1>3, <2>10
        <4>2. Slots(i)' = p * weights[i] + weights[i]
          BY <2>6, <3>1, <4>1
        <4>3. (p + 1) * weights[i] = p * weights[i] + weights[i] /\ p * weights[i] \in Nat
          BY <4>1
        <4> DEFINE t == p * weights[i]
        <4> HIDE DEF t
        <4> QED
          BY <4>1, <4>2, <4>3 DEF t
      <3>4. Dealt(p + 1, 0)'
        BY <1>1, <2>2, <3>2, <3>3 DEF Dealt
      <3>5. weights'[turn'] - chance' = 0 /\ p + 1 \in Nat
        BY <1>1, <1>6, <1>3, <2>10
      <3> QED
        BY <1>1, <2>1, <2>10, <3>4, <3>5 DEF DealInv
    <2> QED
      BY <1>5, <2>7, <2>8, <2>9, <2>10
  <1> QED
    BY <1>7, <1>8, <1>9 DEF MaglevInv

LEMMA MaglevNextInv == MaglevInv /\ [MaglevNext]_maglevVars => MaglevInv'
  <1> SUFFICES ASSUME MaglevInv, UNCHANGED maglevVars
               PROVE  MaglevInv'
    BY SkipInv, ClaimInv DEF MaglevNext
  <1>1. /\ weights' = weights /\ params' = params /\ entries' = entries /\ next' = next
        /\ turn' = turn /\ chance' = chance /\ building' = building
    BY DEF maglevVars
  <1>2. MaglevTyped' /\ SearchInv'
    BY <1>1 DEF MaglevInv, MaglevTyped, SearchInv, Listed
  <1>3. DealInv'
    <2>1. (\A i : Slots(i)' = Slots(i)) /\ Filled' = Filled
      BY <1>1 DEF Slots, lookup, Filled
    <2>2. (\A i : WeightOf(i)' = WeightOf(i)) /\ Total' = Total
      BY <1>1 DEF WeightOf, Total
    <2>3. \A p, u : Dealt(p, u)' <=> Dealt(p, u)
      BY <1>1, <2>1, <2>2 DEF Dealt
    <2> QED
      BY <1>1, <2>1, <2>3 DEF MaglevInv, DealInv
  <1> QED
    BY <1>2, <1>3 DEF MaglevInv

\* A quotient and a remainder are the only ones.
LEMMA RemainderIs ==
    ASSUME NEW C \in Nat \ {0}, NEW q \in Int, NEW r \in 0 .. (C - 1), NEW x \in Int, x = C * q + r
    PROVE  x % C = r /\ x \div C = q
  <1> DEFINE d == x \div C
             s == x % C
             k == q - d
  <1>1. x = C * d + s /\ d \in Int /\ s \in 0 .. (C - 1)
    OBVIOUS
  <1> HIDE DEF d, s
  <1>2. C * k = s - r /\ k \in Int
    BY <1>1
  <1>3. k = 0
    <2> HIDE DEF k
    <2>1. CASE k >= 1
      <3>1. C * k >= C
        BY <1>2, <2>1
      <3> QED
        BY <1>1, <1>2, <3>1
    <2>2. CASE k <= -1
      <3>1. C * k <= -C
        BY <1>2, <2>2
      <3> QED
        BY <1>1, <1>2, <3>1
    <2> QED
      BY <1>2, <2>1, <2>2
  <1>4. s = r
    BY <1>1, <1>2, <1>3
  <1>5. d = q
    BY <1>1, <1>3
  <1> QED
    BY <1>4, <1>5 DEF s, d

\* The slots dealt when the table is full are the fair shares.
LEMMA DealtIsFair ==
    ASSUME MaglevTyped, NEW p \in Nat, NEW u \in 1 .. weights[turn],
           Dealt(p, u), Filled = TableSize, NEW i \in DOMAIN weights
    PROVE  Slots(i) = FairShare(i)
  <1> DEFINE n == Len(weights)
             w == weights[i]
             B(k) == WeightOf(k)
             r == B(turn - 1) + u
  <1>1. /\ turn \in 1 .. n /\ i \in 1 .. n /\ n \in Nat /\ Total = B(n)
        /\ Total \in Nat /\ Total >= 1 /\ TableSize \in Nat
        /\ \A k \in 1 .. n : /\ B(k) = B(k - 1) + weights[k] /\ B(k) \in Nat /\ B(k - 1) \in Nat
                             /\ weights[k] \in Nat /\ weights[k] >= 1
    BY WeightFacts, MultipleFacts DEF MaglevTyped, Total
  <1>2. \A j, k \in 0 .. n : j <= k => B(j) <= B(k)
    BY WeightFacts, WeightsGrow
  <1>3. /\ B(turn) = B(turn - 1) + weights[turn] /\ B(i) = B(i - 1) + w
        /\ B(turn - 1) \in Nat /\ B(turn) \in Nat /\ B(i - 1) \in Nat /\ B(i) \in Nat
        /\ w \in Nat /\ w >= 1 /\ weights[turn] \in Nat
    BY <1>1
  <1>4. r \in Nat /\ r >= 1 /\ r <= B(turn) /\ u \in Nat /\ u >= 1 /\ u <= weights[turn]
    BY <1>3
  <1>5. B(turn) <= Total
    BY <1>1, <1>2
  <1>6. /\ i < turn => B(i) <= B(turn - 1)
        /\ i > turn => B(turn) <= B(i - 1)
    <2> HIDE DEF B, n, w, r
    <2>1. /\ i \in 0 .. n /\ turn \in 0 .. n /\ i - 1 \in 0 .. n /\ turn - 1 \in 0 .. n
          /\ (i < turn => i <= turn - 1) /\ (i > turn => turn <= i - 1)
      BY <1>1
    <2> QED
      BY <1>2, <2>1
  <1>7. TableSize = Total * p + r /\ p * Total = Total * p
    <2>1. TableSize = p * Total + B(turn - 1) + u
      BY DEF Dealt
    <2> DEFINE t == p * Total
               y == Total
    <2>2. t \in Nat /\ t = Total * p
      <3>1. y \in Nat
        BY <1>1
      <3> HIDE DEF y
      <3>2. p * y \in Nat /\ p * y = y * p
        BY <3>1
      <3> QED
        BY <3>2 DEF y
    <2> HIDE DEF t, B, n, w
    <2>3. TableSize = t + r
      BY <1>3, <1>4, <2>1, <2>2 DEF t
    <2> QED
      BY <2>2, <2>3 DEF t
  <1>8. Slots(i) = p * w + (IF i < turn THEN w ELSE IF i = turn THEN u ELSE 0)
    BY DEF Dealt
  <1> DEFINE left(y) == y - B(i - 1)
             share(y) == IF left(y) < 0 THEN 0 ELSE IF left(y) > w THEN w ELSE left(y)
  <1>9. FairShare(i) = (TableSize \div Total) * w + share(TableSize % Total)
    BY DEF FairShare
  <1> HIDE DEF B, w, n
  <1>10. CASE r < Total
    <2>1. TableSize % Total = r /\ TableSize \div Total = p
      <3> HIDE DEF r
      <3>1. r \in 0 .. (Total - 1) /\ Total \in Nat \ {0} /\ TableSize \in Int /\ p \in Int
        BY <1>1, <1>4, <1>10
      <3> QED
        BY <1>7, <3>1, RemainderIs
    <2>2. share(r) = IF i < turn THEN w ELSE IF i = turn THEN u ELSE 0
      <3>1. CASE i < turn
        <4>1. left(r) >= w
          BY <1>3, <1>4, <1>6, <3>1
        <4> QED
          BY <1>1, <1>3, <1>4, <3>1, <4>1
      <3>2. CASE i = turn
        <4>1. left(r) = u /\ u <= w
          BY <1>3, <1>4, <3>2 DEF w
        <4> QED
          BY <1>1, <1>3, <1>4, <3>2, <4>1
      <3>3. CASE i > turn
        <4>1. left(r) <= 0
          BY <1>3, <1>4, <1>6, <3>3
        <4> QED
          BY <1>1, <1>3, <1>4, <3>3, <4>1
      <3>4. i < turn \/ i = turn \/ i > turn
        BY <1>1
      <3> HIDE DEF share, r
      <3> QED
        BY <1>1, <3>1, <3>2, <3>3, <3>4
    <2> QED
      BY <1>8, <1>9, <2>1, <2>2
  <1>11. CASE r = Total
    <2>1. TableSize % Total = 0 /\ TableSize \div Total = p + 1
      <3> HIDE DEF r
      <3>1. 0 \in 0 .. (Total - 1) /\ Total \in Nat \ {0} /\ TableSize \in Int /\ p + 1 \in Int
        BY <1>1
      <3>2. TableSize = Total * (p + 1) + 0
        BY <1>1, <1>7, <1>11
      <3> QED
        BY <3>1, <3>2, RemainderIs
    <2>2. share(0) = 0
      BY <1>3
    <2>3. (p + 1) * w = p * w + w /\ p * w \in Nat
      BY <1>3
    <2>4. u = weights[turn] /\ ~(i > turn)
      <3>1. B(turn) = Total
        BY <1>1, <1>3, <1>4, <1>5, <1>11
      <3>2. ASSUME i > turn PROVE FALSE
        <4>1. B(i) <= Total
          BY <1>1, <1>2
        <4> QED
          BY <1>1, <1>3, <1>6, <3>1, <3>2, <4>1
      <3> QED
        BY <1>3, <1>4, <1>11, <3>1, <3>2
    <2>5. Slots(i) = p * w + w
      BY <1>1, <1>8, <2>4 DEF w
    <2>6. FairShare(i) = (p + 1) * w + 0
      <3> HIDE DEF share, r
      <3> QED
        BY <1>9, <2>1, <2>2
    <2> DEFINE t == p * w
               x == (p + 1) * w
    <2> HIDE DEF t, x
    <2>7. Slots(i) = t + w /\ FairShare(i) = x + 0 /\ x = t + w /\ t \in Nat
      BY <2>3, <2>5, <2>6 DEF t, x
    <2> QED
      BY <1>3, <2>7
  <1> QED
    BY <1>1, <1>3, <1>4, <1>5, <1>10, <1>11

\* A full table has every slot taken and gives each backend its fair share.
LEMMA SharesHold == MaglevInv /\ ~building => SharesAreFair
  <1> SUFFICES ASSUME MaglevInv, ~building PROVE SharesAreFair
    OBVIOUS
  <1>1. MaglevTyped /\ Filled = TableSize
    BY DEF MaglevInv, DealInv
  <1>2. PICK p \in Nat : Dealt(p, weights[turn] - chance + 1)
    BY DEF MaglevInv, DealInv
  <1>3. PICK u \in 1 .. weights[turn] : u = weights[turn] - chance + 1
    <2>1. chance \in 1 .. weights[turn] /\ weights[turn] \in Nat
      BY <1>1 DEF MaglevTyped
    <2> QED
      BY <2>1
  <1>4. \A i \in DOMAIN weights : Slots(i) = FairShare(i)
    BY <1>1, <1>2, <1>3, DealtIsFair
  <1>5. \A c \in MaglevSlots : entries[c] \in DOMAIN weights
    <2>1. {c \in MaglevSlots : entries[c] # Free} = MaglevSlots
      BY <1>1, CountFacts DEF Filled
    <2>2. \A c \in MaglevSlots : entries[c] # Free
      BY <2>1
    <2> QED
      BY <1>1, <2>2, WeightFacts DEF MaglevTyped, Free
  <1> QED
    BY <1>4, <1>5 DEF SharesAreFair

\* The while loop of build ends: the search for a free slot stops before the
\* list of the backend begins again.
LEMMA SearchesEnd == MaglevInv /\ building => SearchEnds
  BY SearchIsBounded DEF MaglevInv, DealInv, SearchEnds

\* LookupTable::build of lookup_table.rs, whatever the hashes of the names are: no
\* search goes round twice, and in the table it returns every slot is taken and
\* each backend has as many as its weight is worth.
THEOREM TablesAreFair == MaglevSpec => []TableIsFair
  <1>1. MaglevInv => TableIsFair
    BY SharesHold, SearchesEnd DEF TableIsFair
  <1> QED
    BY <1>1, MaglevInitInv, MaglevNextInv, PTL DEF MaglevSpec

-----------------------------------------------------------------------------
(***************************************************************************)
(* Concatenations: the options of a TCP header, the messages of a stream.  *)
(***************************************************************************)
\* The first k pieces of ss, in one.
Joined(ss, k) == FlattenSeq(SubSeq(ss, 1, k))

\* The function by which FlattenSeq is defined.
Flattens(f, ss) == f = [i \in 1 .. Len(ss) |-> IF i = 1 THEN ss[i] ELSE f[i - 1] \o ss[i]]

LEMMA FlattenChosen ==
    ASSUME NEW ss, NEW f, Flattens(f, ss), Len(ss) # 0
    PROVE  \E h : Flattens(h, ss) /\ FlattenSeq(ss) = h[Len(ss)]
  <1> DEFINE D(g) == g = [i \in 1 .. Len(ss) |-> IF i = 1 THEN ss[i] ELSE g[i - 1] \o ss[i]]
             h == CHOOSE g : D(g)
  <1>1. FlattenSeq(ss) = h[Len(ss)]
    BY DEF FlattenSeq
  <1>2. D(f)
    BY DEF Flattens
  <1>3. D(h)
    <2> HIDE DEF D
    <2> QED
      BY <1>2
  <1>4. Flattens(h, ss)
    <2> HIDE DEF h
    <2> QED
      BY <1>3 DEF Flattens
  <1> HIDE DEF h
  <1> QED
    BY <1>1, <1>4

LEMMA JoinedUnfolds ==
    ASSUME NEW B, NEW ss \in Seq(Seq(B))
    PROVE  /\ Joined(ss, 0) = <<>> /\ FlattenSeq(ss) = Joined(ss, Len(ss))
           /\ \A k \in 1 .. Len(ss) : Joined(ss, k) = Joined(ss, k - 1) \o ss[k]
           /\ \A k \in 0 .. Len(ss) : Joined(ss, k) \in Seq(B)
  <1> DEFINE N == Len(ss)
             S == Seq(B)
             v == <<>>
             F == [i \in 1 .. N |-> [x \in S |-> x \o ss[i]]]
  <1>1. N \in Nat /\ \A i \in 1 .. N : ss[i] \in S
    OBVIOUS
  <1>2. v \in S /\ (\A x, y \in S : x \o y \in S) /\ \A x \in S : v \o x = x
    OBVIOUS
  <1> HIDE DEF N, S, v
  <1>3. PICK g : Iterated(g, N, S, v, F)
    <2>1. F \in [1 .. N -> [S -> S]]
      BY <1>1, <1>2
    <2> HIDE DEF F
    <2> QED
      BY <1>1, <1>2, <2>1, Iterates
  <1>4. /\ g \in [0 .. N -> S] /\ g[0] = v
        /\ \A i \in 1 .. N : i - 1 \in 0 .. N /\ g[i] = g[i - 1] \o ss[i]
    <2>1. g \in [0 .. N -> S] /\ g[0] = v /\ \A i \in 1 .. N : g[i] = F[i][g[i - 1]]
      BY <1>3 DEF Iterated
    <2>2. \A i \in 1 .. N : i - 1 \in 0 .. N
      BY <1>1
    <2> QED
      BY <2>1, <2>2
  <1> HIDE DEF F
  <1>5. ASSUME NEW k \in 1 .. N
        PROVE  Joined(ss, k) = g[k]
    <2> DEFINE p == SubSeq(ss, 1, k)
               f == [i \in 1 .. k |-> g[i]]
    <2>1. k \in Nat /\ k >= 1 /\ \A i \in 1 .. k : i \in 1 .. N
      BY <1>1
    <2>2. Len(p) = k /\ \A i \in 1 .. k : p[i] = ss[i]
      BY <2>1 DEF N
    <2> HIDE DEF p
    <2>3. Flattens(f, p)
      <3>1. ASSUME NEW i \in 1 .. k
            PROVE  f[i] = IF i = 1 THEN p[i] ELSE f[i - 1] \o p[i]
        <4>1. g[i] = g[i - 1] \o ss[i] /\ ss[i] \in S /\ p[i] = ss[i]
          BY <1>1, <1>4, <2>1, <2>2
        <4>2. CASE i = 1
          <5>1. i - 1 = 0
            BY <4>2
          <5> QED
            BY <1>2, <1>4, <4>1, <4>2, <5>1
        <4>3. CASE i # 1
          <5>1. i - 1 \in 1 .. k
            BY <2>1, <4>3
          <5> QED
            BY <4>1, <4>3, <5>1
        <4> QED
          BY <4>2, <4>3
      <3> QED
        BY <2>2, <3>1 DEF Flattens
    <2>4. PICK h : Flattens(h, p) /\ FlattenSeq(p) = h[k]
      <3> HIDE DEF f
      <3>1. Len(p) # 0
        BY <2>1, <2>2
      <3> QED
        BY <2>2, <2>3, <3>1, FlattenChosen
    <2>5. h = [i \in 1 .. k |-> IF i = 1 THEN p[i] ELSE h[i - 1] \o p[i]]
      BY <2>2, <2>4 DEF Flattens
    <2> DEFINE T == {n \in 0 .. k : n = 0 \/ h[n] = g[n]}
    <2>6. 0 \in T
      BY <2>1
    <2>7. ASSUME NEW n \in 0 .. (k - 1), n \in T
          PROVE  n + 1 \in T
      <3>1. n + 1 \in 1 .. k /\ n + 1 \in 0 .. k /\ (n + 1) - 1 = n /\ n + 1 \in 1 .. N
        BY <2>1
      <3>2. h[n + 1] = IF n + 1 = 1 THEN p[n + 1] ELSE h[n] \o p[n + 1]
        BY <2>5, <3>1
      <3>3. g[n + 1] = g[n] \o ss[n + 1] /\ p[n + 1] = ss[n + 1] /\ ss[n + 1] \in S
        BY <1>1, <1>4, <2>2, <3>1
      <3>4. CASE n = 0
        <4>1. h[n + 1] = ss[n + 1] /\ g[n + 1] = ss[n + 1]
          <5>1. g[n] = v /\ v \o ss[n + 1] = ss[n + 1]
            BY <1>2, <1>4, <3>3, <3>4
          <5>2. n + 1 = 1
            BY <3>4
          <5> QED
            BY <3>2, <3>3, <5>1, <5>2
        <4> QED
          BY <3>1, <4>1
      <3>5. CASE n # 0
        <4>1. h[n] = g[n] /\ n + 1 # 1
          BY <2>7, <3>5
        <4> QED
          BY <3>1, <3>2, <3>3, <4>1
      <3> QED
        BY <3>4, <3>5
    <2>8. T \in SUBSET (0 .. k)
      OBVIOUS
    <2>9. T = 0 .. k
      <3> HIDE DEF T
      <3> QED
        BY <2>1, <2>6, <2>7, <2>8, IntervalInduction
    <2>10. h[k] = g[k]
      <3>1. k \in T /\ k # 0
        BY <2>1, <2>9
      <3> QED
        BY <3>1
    <2> QED
      BY <2>4, <2>10 DEF Joined, p
  <1>6. Joined(ss, 0) = v
    <2>1. SubSeq(ss, 1, 0) = <<>>
      OBVIOUS
    <2>2. Len(<<>>) = 0
      OBVIOUS
    <2> QED
      BY <2>1, <2>2 DEF Joined, FlattenSeq, v
  <1>7. \A k \in 0 .. N : Joined(ss, k) = g[k]
    <2>1. \A k \in 0 .. N : k = 0 \/ k \in 1 .. N
      BY <1>1
    <2> QED
      BY <1>4, <1>5, <1>6, <2>1
  <1>8. FlattenSeq(ss) = Joined(ss, N)
    <2>1. SubSeq(ss, 1, N) = ss
      BY DEF N
    <2> QED
      BY <2>1 DEF Joined
  <1>9. \A k \in 1 .. N : k \in 0 .. N /\ k - 1 \in 0 .. N
    BY <1>1
  <1> QED
    BY <1>4, <1>6, <1>7, <1>8, <1>9 DEF N, S, v

\* Where the k-th piece begins, and that it is found there.
LEMMA PiecesAreThere ==
    ASSUME NEW B, NEW ss \in Seq(Seq(B)), NEW i \in 1 .. Len(ss), NEW j \in 1 .. Len(ss[i])
    PROVE  /\ Len(Joined(ss, i)) = Len(Joined(ss, i - 1)) + Len(ss[i])
           /\ Len(Joined(ss, i - 1)) + j \in 1 .. Len(FlattenSeq(ss))
           /\ FlattenSeq(ss)[Len(Joined(ss, i - 1)) + j] = ss[i][j]
  <1> DEFINE N == Len(ss)
             S == Seq(B)
             J(k) == Joined(ss, k)
             a == Len(J(i - 1)) + j
             T == {k \in 0 .. N : k < i \/ (a <= Len(J(k)) /\ J(k)[a] = ss[i][j])}
  <1>1. N \in Nat /\ i \in 1 .. N /\ \A k \in 1 .. N : ss[k] \in S
    OBVIOUS
  <1>2. /\ FlattenSeq(ss) = J(N)
        /\ \A k \in 1 .. N : J(k) = J(k - 1) \o ss[k]
        /\ \A k \in 0 .. N : J(k) \in S
    BY JoinedUnfolds
  <1>3. /\ \A x \in S : Len(x) \in Nat
        /\ \A x, y \in S : /\ Len(x \o y) = Len(x) + Len(y)
                           /\ \A n \in 1 .. Len(x) : (x \o y)[n] = x[n]
                           /\ \A n \in 1 .. Len(y) : (x \o y)[Len(x) + n] = y[n]
    OBVIOUS
  <1> HIDE DEF N, S, J
  <1>4. \A k \in 1 .. N : /\ k \in 0 .. N /\ k - 1 \in 0 .. N
                          /\ J(k) \in S /\ J(k - 1) \in S /\ ss[k] \in S
                          /\ Len(J(k)) = Len(J(k - 1)) + Len(ss[k])
    <2> TAKE k \in 1 .. N
    <2>1. k \in 0 .. N /\ k - 1 \in 0 .. N
      BY <1>1
    <2>2. J(k) \in S /\ J(k - 1) \in S /\ ss[k] \in S
      BY <1>1, <1>2, <2>1
    <2>3. J(k) = J(k - 1) \o ss[k]
      BY <1>2
    <2>4. Len(J(k - 1) \o ss[k]) = Len(J(k - 1)) + Len(ss[k])
      BY <1>3, <2>2
    <2> QED
      BY <2>1, <2>2, <2>3, <2>4
  <1>5. /\ Len(J(i - 1)) \in Nat /\ Len(ss[i]) \in Nat /\ j \in 1 .. Len(ss[i]) /\ a \in Nat
        /\ a >= 1
    <2>1. Len(J(i - 1)) \in Nat /\ Len(ss[i]) \in Nat
      BY <1>1, <1>3, <1>4
    <2> QED
      BY <2>1
  <1>6. 0 \in T
    BY <1>1
  <1>7. ASSUME NEW k \in 0 .. (N - 1), k \in T
        PROVE  k + 1 \in T
    <2>1. k + 1 \in 1 .. N /\ (k + 1) - 1 = k /\ k + 1 \in 0 .. N
      BY <1>1
    <2>2. /\ J(k + 1) = J(k) \o ss[k + 1] /\ Len(J(k + 1)) = Len(J(k)) + Len(ss[k + 1])
          /\ J(k) \in S /\ ss[k + 1] \in S /\ Len(J(k)) \in Nat /\ Len(ss[k + 1]) \in Nat
      BY <1>2, <1>3, <1>4, <2>1
    <2>3. CASE k + 1 < i
      BY <2>1, <2>3
    <2>4. CASE k + 1 = i
      <3>1. k = i - 1
        BY <2>1, <2>4
      <3>2. a = Len(J(k)) + j /\ j \in 1 .. Len(ss[k + 1])
        BY <1>5, <2>4, <3>1
      <3> HIDE DEF a
      <3>3. J(k + 1)[a] = ss[k + 1][j]
        <4>1. \A n \in 1 .. Len(ss[k + 1]) :
                 (J(k) \o ss[k + 1])[Len(J(k)) + n] = ss[k + 1][n]
          BY <1>3, <2>2, Zenon
        <4> QED
          BY <2>2, <3>2, <4>1, Zenon
      <3>4. a <= Len(J(k + 1))
        BY <2>2, <3>2
      <3> QED
        BY <2>1, <2>4, <3>3, <3>4
    <2>5. CASE k + 1 > i
      <3>1. a <= Len(J(k)) /\ J(k)[a] = ss[i][j]
        BY <1>1, <1>7, <2>1, <2>5
      <3>2. a \in 1 .. Len(J(k))
        BY <1>5, <2>2, <3>1
      <3> HIDE DEF a
      <3>3. J(k + 1)[a] = J(k)[a]
        <4>1. \A n \in 1 .. Len(J(k)) : (J(k) \o ss[k + 1])[n] = J(k)[n]
          BY <1>3, <2>2, Zenon
        <4>2. (J(k) \o ss[k + 1])[a] = J(k)[a]
          BY <3>2, <4>1, Zenon
        <4>3. J(k + 1) = J(k) \o ss[k + 1]
          BY <2>2
        <4> QED
          BY <4>2, <4>3
      <3>4. a <= Len(J(k + 1))
        <4> DEFINE old == Len(J(k))
                   new == Len(J(k + 1))
                   more == Len(ss[k + 1])
        <4>1. a \in Nat /\ a <= old
          BY <1>5, <3>1
        <4>2. new = old + more /\ old \in Nat /\ more \in Nat
          BY <2>2
        <4> HIDE DEF old, new, more
        <4>3. a <= new
          BY <4>1, <4>2
        <4> QED
          BY <4>3 DEF new
      <3> QED
        BY <2>1, <3>1, <3>3, <3>4
    <2> QED
      BY <1>1, <2>1, <2>3, <2>4, <2>5
  <1>8. T \in SUBSET (0 .. N)
    OBVIOUS
  <1>9. T = 0 .. N
    <2> HIDE DEF T
    <2> QED
      BY <1>1, <1>6, <1>7, <1>8, IntervalInduction
  <1>10. a <= Len(J(N)) /\ J(N)[a] = ss[i][j]
    <2>1. N \in T /\ ~(N < i)
      <3> HIDE DEF T
      <3>1. N \in 0 .. N /\ ~(N < i)
        BY <1>1
      <3> QED
        BY <1>9, <3>1
    <2> HIDE DEF a
    <2> QED
      BY <2>1
  <1>11. Len(J(N)) \in Nat
    <2>1. N \in 0 .. N
      BY <1>1
    <2> QED
      BY <1>2, <1>3, <2>1
  <1>12. a \in 1 .. Len(J(N))
    <2> HIDE DEF a
    <2> QED
      BY <1>5, <1>10, <1>11
  <1>13. Len(J(i)) = Len(J(i - 1)) + Len(ss[i])
    BY <1>1, <1>4
  <1> QED
    BY <1>2, <1>10, <1>12, <1>13 DEF J

-----------------------------------------------------------------------------
(***************************************************************************)
(* MssClamp: ones-complement sums, which are sums modulo 65535 in which    *)
(* only nothing sums up to zero.                                           *)
(***************************************************************************)
Bytes   == 0 .. 255
Words   == {w \in Int : 0 <= w /\ w <= 65535}
Modulus == 65535
ThreeWords == {w \in Int : 0 <= w /\ w <= 196605}

Vanishes(x) == \E q \in Int : x = Modulus * q

LEMMA VanishFacts ==
    /\ Vanishes(0) /\ Vanishes(Modulus) /\ Modulus \in Words
    /\ \A x, y \in Int : Vanishes(x) /\ Vanishes(y) => Vanishes(x + y) /\ Vanishes(x - y)
    /\ \A x \in Words : x > 0 /\ Vanishes(x) => x = Modulus
  <1>1. Modulus \in Int /\ Modulus \in Words
    BY SMT DEF Modulus, Words
  <1>2. Vanishes(0) /\ Vanishes(Modulus)
    <2>1. 0 = Modulus * 0 /\ Modulus = Modulus * 1
      BY <1>1
    <2> QED
      BY <2>1 DEF Vanishes
  <1>3. ASSUME NEW x \in Int, NEW y \in Int, Vanishes(x), Vanishes(y)
        PROVE  Vanishes(x + y) /\ Vanishes(x - y)
    <2>1. PICK q \in Int : x = Modulus * q
      BY <1>3 DEF Vanishes
    <2>2. PICK r \in Int : y = Modulus * r
      BY <1>3 DEF Vanishes
    <2>3. x + y = Modulus * (q + r) /\ x - y = Modulus * (q - r) /\ q + r \in Int /\ q - r \in Int
      BY <2>1, <2>2, SMT DEF Modulus
    <2> QED
      BY <2>3 DEF Vanishes
  <1>4. ASSUME NEW x \in Words, x > 0, Vanishes(x)
        PROVE  x = Modulus
    <2>1. PICK q \in Int : x = Modulus * q
      BY <1>4 DEF Vanishes
    <2>2. q = 1
      BY <1>4, <2>1, SMT DEF Modulus, Words
    <2> QED
      BY <1>1, <2>1, <2>2
  <1> QED
    BY <1>1, <1>2, <1>3, <1>4

LEMMA FoldFacts ==
    ASSUME NEW x \in ThreeWords
    PROVE  Fold16(x) \in Words /\ Vanishes(Fold16(x) - x) /\ (x > 0 => Fold16(x) > 0)
  <1> DEFINE a == x \div 65536
             b == x % 65536
             once == b + a
             c == once \div 65536
             d == once % 65536
  <1>1. x = 65536 * a + b /\ a \in 0 .. 2 /\ b \in Words
    BY SMT DEF Words, ThreeWords
  <1>2. Fold16(x) = d + c
    BY SMT DEF Fold16
  <1> HIDE DEF a, b
  <1>3. once = 65536 * c + d /\ c \in 0 .. 1 /\ d \in Words
        /\ once \in Int /\ 0 <= once /\ once <= 65537
    BY <1>1, SMT DEF Words
  <1>4. x > 0 => once > 0
    BY <1>1, SMT DEF Words
  <1> HIDE DEF c, d
  <1>5. (d + c) - x = Modulus * (0 - a - c) /\ 0 - a - c \in Int
    BY <1>1, <1>3, SMT DEF Words, Modulus
  <1> HIDE DEF once
  <1>6. d + c \in Words /\ (once > 0 => d + c > 0)
    BY <1>3, SMT DEF Words
  <1>7. Vanishes((d + c) - x)
    BY <1>5 DEF Vanishes
  <1> QED
    BY <1>2, <1>4, <1>6, <1>7

\* The partial sums of Sum16.
Sums(g, s) ==
    /\ g \in [0 .. (Len(s) \div 2) -> Words] /\ g[0] = 0
    /\ \A n \in 1 .. (Len(s) \div 2) : g[n] = Fold16(g[n - 1] + Word(s, 2 * (n - 1)))

LEMMA WordFacts ==
    ASSUME NEW s \in Seq(Bytes), NEW o \in Nat, o + 2 <= Len(s)
    PROVE  /\ Word(s, o) \in Words
           /\ s[o + 1] \in Bytes /\ s[o + 2] \in Bytes
           /\ s[o + 1] = Word(s, o) \div 256 /\ s[o + 2] = Word(s, o) % 256
  <1>1. o + 1 \in 1 .. Len(s) /\ o + 2 \in 1 .. Len(s)
    OBVIOUS
  <1>2. s[o + 1] \in Bytes /\ s[o + 2] \in Bytes
    BY <1>1
  <1>3. ASSUME NEW x \in Bytes, NEW y \in Bytes
        PROVE  /\ x * 256 + y \in Words
               /\ (x * 256 + y) \div 256 = x /\ (x * 256 + y) % 256 = y
    <2>1. x \in 0 .. 255 /\ y \in 0 .. 255
      BY DEF Bytes
    <2>2. x * 256 + y \in Words
      BY <2>1, SMT DEF Words
    <2> DEFINE z == x * 256 + y
    <2>3. z = 256 * x + y /\ z \in Int /\ x \in Int /\ y \in 0 .. (256 - 1) /\ 256 \in Nat \ {0}
      BY <2>1, SMT
    <2> HIDE DEF z
    <2>4. z \div 256 = x /\ z % 256 = y
      BY <2>3, SMT
    <2> QED
      BY <2>2, <2>4 DEF z
  <1> QED
    BY <1>2, <1>3 DEF Word

LEMMA SumUnfolds ==
    ASSUME NEW s \in Seq(Bytes)
    PROVE  \E g : Sums(g, s) /\ Sum16(s) = g[Len(s) \div 2]
  <1> DEFINE N == Len(s) \div 2
             W == Words
             v == 0
             step(x, n) == Fold16(x + Word(s, 2 * (n - 1)))
             D(g) == g = [n \in 0 .. N |-> IF n = 0 THEN v ELSE step(g[n - 1], n)]
             F == [n \in 1 .. N |-> [x \in W |-> step(x, n)]]
             sum == CHOOSE g : D(g)
  <1>1. N \in Nat /\ v \in W
    BY SMT DEF Words
  <1>2. \A n \in 1 .. N : \A x \in W : step(x, n) \in W
    <2> TAKE n \in 1 .. N
    <2> TAKE x \in W
    <2>1. 2 * (n - 1) \in Nat /\ 2 * (n - 1) + 2 <= Len(s)
      OBVIOUS
    <2>2. Word(s, 2 * (n - 1)) \in Words
      BY <2>1, WordFacts
    <2>3. x + Word(s, 2 * (n - 1)) \in ThreeWords
      BY <2>2, SMT DEF Words, ThreeWords
    <2> QED
      BY <2>3, FoldFacts
  <1>3. Sum16(s) = sum[N]
    BY DEF Sum16
  <1> HIDE DEF N, W, v, step
  <1>4. PICK g : Iterated(g, N, W, v, F)
    <2>1. F \in [1 .. N -> [W -> W]]
      BY <1>2
    <2> HIDE DEF F
    <2> QED
      BY <1>1, <2>1, Iterates
  <1>5. g \in [0 .. N -> W] /\ g[0] = v /\ \A n \in 1 .. N : g[n] = F[n][g[n - 1]]
    BY <1>4 DEF Iterated
  <1>6. D(g)
    <2>1. ASSUME NEW n \in 0 .. N
          PROVE  g[n] = IF n = 0 THEN v ELSE step(g[n - 1], n)
      <3>1. CASE n = 0
        BY <1>5, <3>1
      <3>2. CASE n # 0
        <4>1. n \in 1 .. N /\ n - 1 \in 0 .. N
          BY <1>1, <3>2
        <4>2. g[n - 1] \in W
          BY <1>5, <4>1
        <4>3. F[n][g[n - 1]] = step(g[n - 1], n)
          BY <4>1, <4>2
        <4> QED
          BY <1>5, <3>2, <4>1, <4>3
      <3> QED
        BY <3>1, <3>2
    <2> QED
      BY <1>5, <2>1
  <1>7. D(sum)
    <2> HIDE DEF D
    <2> QED
      BY <1>6
  <1> HIDE DEF sum, F
  <1>8. /\ sum = [n \in 0 .. N |-> IF n = 0 THEN v ELSE step(sum[n - 1], n)]
        /\ 0 \in 0 .. N /\ \A n \in 1 .. N : n \in 0 .. N /\ n # 0
    BY <1>1, <1>7
  <1>9. sum[0] = v /\ \A n \in 1 .. N : sum[n] = step(sum[n - 1], n)
    BY <1>8
  <1>10. \A n \in 0 .. N : sum[n] \in W
    <2>1. sum[0] \in W
      BY <1>1, <1>9
    <2>2. \A n \in 1 .. N : sum[n - 1] \in W => sum[n] \in W
      BY <1>2, <1>9
    <2> QED
      BY <1>1, <2>1, <2>2, Carried
  <1>11. sum \in [0 .. N -> W]
    BY <1>8, <1>10
  <1>12. Sums(sum, s)
    BY <1>9, <1>11 DEF Sums, N, W, v, step
  <1> QED
    BY <1>3, <1>12 DEF N

\* One more word to a partial sum.
LEMMA AddWord ==
    ASSUME NEW x \in Words, NEW w \in Words
    PROVE  /\ Fold16(x + w) \in Words /\ Vanishes(Fold16(x + w) - (x + w))
           /\ (x > 0 \/ w > 0 => Fold16(x + w) > 0)
  <1>1. x + w \in ThreeWords /\ (x > 0 \/ w > 0 => x + w > 0)
    BY SMT DEF Words, ThreeWords
  <1> QED
    BY <1>1, FoldFacts

LEMMA PutFacts ==
    ASSUME NEW s \in Seq(Bytes), NEW o \in Nat, o + 2 <= Len(s), NEW w \in Words
    PROVE  /\ Put(s, o, w) \in Seq(Bytes) /\ Len(Put(s, o, w)) = Len(s)
           /\ Word(Put(s, o, w), o) = w
           /\ \A i \in 1 .. Len(s) :
                 Put(s, o, w)[i] = IF i = o + 2 THEN w % 256
                                   ELSE IF i = o + 1 THEN w \div 256 ELSE s[i]
  <1> DEFINE e == Put(s, o, w)
  <1>1. o + 1 \in 1 .. Len(s) /\ o + 2 \in 1 .. Len(s) /\ o + 1 # o + 2
    OBVIOUS
  <1>2. w \div 256 \in Bytes /\ w % 256 \in Bytes /\ (w \div 256) * 256 + (w % 256) = w
    <2>1. w \in Int /\ 0 <= w /\ w <= 65535
      BY SMT DEF Words
    <2> QED
      BY <2>1, SMT DEF Bytes
  <1>3. /\ e \in Seq(Bytes) /\ Len(e) = Len(s)
        /\ \A i \in 1 .. Len(s) : e[i] = IF i = o + 2 THEN w % 256
                                         ELSE IF i = o + 1 THEN w \div 256 ELSE s[i]
    BY <1>1, <1>2 DEF Put
  <1> HIDE DEF e
  <1>4. Word(e, o) = w
    <2>1. e[o + 2] = w % 256 /\ e[o + 1] = w \div 256
      BY <1>1, <1>3
    <2> QED
      BY <1>2, <2>1 DEF Word
  <1> QED
    BY <1>3, <1>4 DEF e

\* What the change of one 16-bit word does to the sum.
LEMMA SumOfPut ==
    ASSUME NEW s \in Seq(Bytes), NEW m \in Nat, 2 * m + 2 <= Len(s), NEW w \in Words
    PROVE  /\ Put(s, 2 * m, w) \in Seq(Bytes) /\ Len(Put(s, 2 * m, w)) = Len(s)
           /\ Word(Put(s, 2 * m, w), 2 * m) = w
           /\ Vanishes(Sum16(Put(s, 2 * m, w)) - Sum16(s) - (w - Word(s, 2 * m)))
           /\ Sum16(s) \in Words /\ Sum16(Put(s, 2 * m, w)) \in Words
  <1> DEFINE o == 2 * m
             e == Put(s, o, w)
             N == Len(s) \div 2
             old == Word(s, o)
  <1>1. o \in Nat /\ o + 1 \in 1 .. Len(s) /\ o + 2 \in 1 .. Len(s) /\ N \in Nat
        /\ m \in 0 .. (N - 1) /\ Len(s) \in Nat
    OBVIOUS
  <1>2. (w \div 256) * 256 + (w % 256) = w
    <2>1. w \in Int /\ 0 <= w /\ w <= 65535
      BY SMT DEF Words
    <2> QED
      BY <2>1, SMT
  <1>3. /\ e \in Seq(Bytes) /\ Len(e) = Len(s)
        /\ \A i \in 1 .. Len(s) : e[i] = IF i = o + 2 THEN w % 256
                                         ELSE IF i = o + 1 THEN w \div 256 ELSE s[i]
    <2> HIDE DEF o
    <2> QED
      BY <1>1, PutFacts
  <1> HIDE DEF e
  <1>4. \A n \in 1 .. N : Word(e, 2 * (n - 1)) = IF n = m + 1 THEN w ELSE Word(s, 2 * (n - 1))
    <2> TAKE n \in 1 .. N
    <2> DEFINE c == 2 * (n - 1)
    <2>1. c + 1 \in 1 .. Len(s) /\ c + 2 \in 1 .. Len(s)
      BY <1>1
    <2>2. (n = m + 1 => c = o) /\ (n # m + 1 => c + 1 # o + 1 /\ c + 2 # o + 2
                                                /\ c + 1 # o + 2 /\ c + 2 # o + 1)
      BY <1>1
    <2>3. o + 1 # o + 2
      BY <1>1
    <2> HIDE DEF c, o
    <2> QED
      BY <1>2, <1>3, <2>1, <2>2, <2>3 DEF Word, c
  <1>5. \A n \in 1 .. N : Word(s, 2 * (n - 1)) \in Words
    <2> TAKE n \in 1 .. N
    <2>1. 2 * (n - 1) \in Nat /\ 2 * (n - 1) + 2 <= Len(s)
      BY <1>1
    <2> QED
      BY <2>1, WordFacts
  <1>6. PICK g : Sums(g, s) /\ Sum16(s) = g[N]
    BY SumUnfolds
  <1>7. PICK h : Sums(h, e) /\ Sum16(e) = h[N]
    BY <1>3, SumUnfolds
  <1>8. /\ g \in [0 .. N -> Words] /\ g[0] = 0
        /\ \A n \in 1 .. N : g[n] = Fold16(g[n - 1] + Word(s, 2 * (n - 1)))
    BY <1>6 DEF Sums
  <1>9. /\ h \in [0 .. N -> Words] /\ h[0] = 0
        /\ \A n \in 1 .. N : h[n] = Fold16(h[n - 1] + Word(e, 2 * (n - 1)))
    BY <1>3, <1>7 DEF Sums
  <1>10. old \in Words /\ \A x \in Words : x \in Int
    <2>1. old \in Words
      BY <1>1, WordFacts
    <2> QED
      BY <2>1, SMT DEF Words
  <1> HIDE DEF N, o, old
  <1> DEFINE diff(n) == IF n > m THEN w - old ELSE 0
             T == {n \in 0 .. N : Vanishes(h[n] - g[n] - diff(n))}
  <1>11. 0 \in T
    <2>1. h[0] - g[0] - diff(0) = 0
      BY <1>8, <1>9
    <2>2. 0 \in 0 .. N
      BY <1>1
    <2> QED
      BY <2>1, <2>2, VanishFacts
  <1>12. ASSUME NEW n \in 0 .. (N - 1), n \in T
         PROVE  n + 1 \in T
    <2>1. n + 1 \in 1 .. N /\ (n + 1) - 1 = n /\ n \in 0 .. N /\ n + 1 \in 0 .. N /\ n \in Nat
      BY <1>1
    <2> DEFINE a == Word(s, 2 * n)
               b == Word(e, 2 * n)
    <2>2. /\ g[n + 1] = Fold16(g[n] + a) /\ h[n + 1] = Fold16(h[n] + b)
          /\ a \in Words /\ b = (IF n = m THEN w ELSE a)
      <3>1. n + 1 = m + 1 <=> n = m
        BY <1>1, <2>1
      <3> DEFINE k == n + 1
      <3>2. k \in 1 .. N /\ k - 1 = n /\ (k = m + 1 <=> n = m)
        BY <2>1, <3>1
      <3> HIDE DEF k
      <3>3. g[k] = Fold16(g[k - 1] + Word(s, 2 * (k - 1)))
        BY <1>8, <3>2
      <3>4. h[k] = Fold16(h[k - 1] + Word(e, 2 * (k - 1)))
        BY <1>9, <3>2
      <3>5. Word(e, 2 * (k - 1)) = IF k = m + 1 THEN w ELSE Word(s, 2 * (k - 1))
        BY <1>4, <3>2
      <3>6. Word(s, 2 * (k - 1)) \in Words
        BY <1>5, <3>2
      <3> QED
        BY <3>2, <3>3, <3>4, <3>5, <3>6, Zenon DEF k
    <2>3. n = m => a = old
      BY DEF old, o
    <2> HIDE DEF a, b
    <2>4. g[n] \in Words /\ h[n] \in Words /\ b \in Words
      BY <1>8, <1>9, <2>1, <2>2
    <2>5. /\ Vanishes(g[n + 1] - (g[n] + a)) /\ Vanishes(h[n + 1] - (h[n] + b))
          /\ g[n + 1] \in Words /\ h[n + 1] \in Words
      BY <2>2, <2>4, AddWord
    <2>6. Vanishes(h[n] - g[n] - diff(n))
      BY <1>12
    <2> DEFINE x == h[n + 1] - (h[n] + b)
               y == g[n + 1] - (g[n] + a)
               z == h[n] - g[n] - diff(n)
    <2>7. x \in Int /\ y \in Int /\ z \in Int /\ x + z - y = h[n + 1] - g[n + 1] - diff(n + 1)
      <3>1. /\ h[n + 1] \in Int /\ h[n] \in Int /\ b \in Int /\ g[n + 1] \in Int /\ g[n] \in Int
            /\ a \in Int /\ w \in Int /\ old \in Int
        BY <1>10, <2>2, <2>4, <2>5
      <3>2. diff(n + 1) = diff(n) + (b - a) /\ diff(n) \in Int /\ diff(n + 1) \in Int
        <4>1. CASE n = m
          BY <1>1, <2>1, <2>2, <2>3, <3>1, <4>1
        <4>2. CASE n # m
          <5>1. (n + 1 > m <=> n > m) /\ b = a
            BY <1>1, <2>1, <2>2, <4>2
          <5> QED
            BY <3>1, <5>1
        <4> QED
          BY <4>1, <4>2
      <3> HIDE DEF diff
      <3> DEFINE h1 == h[n + 1]
                 h0 == h[n]
                 g1 == g[n + 1]
                 g0 == g[n]
                 d1 == diff(n + 1)
                 d0 == diff(n)
      <3>3. /\ h1 \in Int /\ h0 \in Int /\ g1 \in Int /\ g0 \in Int /\ d1 \in Int /\ d0 \in Int
            /\ a \in Int /\ b \in Int /\ d1 = d0 + (b - a)
        BY <3>1, <3>2
      <3> HIDE DEF h1, h0, g1, g0, d1, d0
      <3>4. /\ h1 - (h0 + b) \in Int /\ g1 - (g0 + a) \in Int /\ h0 - g0 - d0 \in Int
            /\ (h1 - (h0 + b)) + (h0 - g0 - d0) - (g1 - (g0 + a)) = h1 - g1 - d1
        BY <3>3
      <3> QED
        BY <3>4 DEF h1, h0, g1, g0, d1, d0
    <2> HIDE DEF diff
    <2>8. Vanishes(x) /\ Vanishes(y) /\ Vanishes(z)
      BY <2>5, <2>6
    <2> HIDE DEF x, y, z
    <2>9. Vanishes(x + z - y)
      <3>1. Vanishes(x + z) /\ x + z \in Int
        BY <2>7, <2>8, VanishFacts
      <3> QED
        BY <2>7, <2>8, <3>1, VanishFacts
    <2> QED
      BY <2>1, <2>7, <2>9
  <1>13. T \in SUBSET (0 .. N)
    OBVIOUS
  <1>14. T = 0 .. N
    <2> HIDE DEF T
    <2> QED
      BY <1>1, <1>11, <1>12, <1>13, IntervalInduction
  <1>15. Vanishes(h[N] - g[N] - (w - old)) /\ h[N] \in Words /\ g[N] \in Words
    <2>1. N \in T /\ N > m /\ N \in 0 .. N
      <3> HIDE DEF T
      <3> QED
        BY <1>1, <1>14
    <2> QED
      BY <1>8, <1>9, <2>1
  <1>16. Word(e, o) = w
    BY <1>1, PutFacts DEF e
  <1> QED
    BY <1>3, <1>6, <1>7, <1>15, <1>16 DEF N, o, e, old

LEMMA SumOfPutAt ==
    ASSUME NEW s \in Seq(Bytes), NEW o \in Nat, o % 2 = 0, o + 2 <= Len(s), NEW w \in Words
    PROVE  /\ Vanishes(Sum16(Put(s, o, w)) - Sum16(s) - (w - Word(s, o)))
           /\ Sum16(s) \in Words /\ Sum16(Put(s, o, w)) \in Words
  <1> DEFINE m == o \div 2
  <1>1. m \in Nat /\ o = 2 * m
    BY SMT
  <1> HIDE DEF m
  <1> QED
    BY <1>1, SumOfPut

\* Only a sum of nothing is zero.
LEMMA SumIsPositive ==
    ASSUME NEW s \in Seq(Bytes), Len(s) >= 2, Word(s, 0) > 0
    PROVE  Sum16(s) \in Words /\ Sum16(s) > 0
  <1> DEFINE N == Len(s) \div 2
  <1>1. N \in Nat /\ N >= 1
    OBVIOUS
  <1>2. PICK g : Sums(g, s) /\ Sum16(s) = g[N]
    BY SumUnfolds
  <1>3. /\ g \in [0 .. N -> Words] /\ g[0] = 0
        /\ \A n \in 1 .. N : g[n] = Fold16(g[n - 1] + Word(s, 2 * (n - 1)))
    BY <1>2 DEF Sums
  <1>4. \A n \in 1 .. N : Word(s, 2 * (n - 1)) \in Words
    <2> TAKE n \in 1 .. N
    <2>1. 2 * (n - 1) \in Nat /\ 2 * (n - 1) + 2 <= Len(s)
      OBVIOUS
    <2> QED
      BY <2>1, WordFacts
  <1> HIDE DEF N
  <1> DEFINE T == {n \in 0 .. N : n = 0 \/ g[n] > 0}
  <1>5. 0 \in T
    BY <1>1
  <1>6. ASSUME NEW n \in 0 .. (N - 1), n \in T
        PROVE  n + 1 \in T
    <2>1. n + 1 \in 1 .. N /\ (n + 1) - 1 = n /\ n \in 0 .. N /\ n + 1 \in 0 .. N
      BY <1>1
    <2> DEFINE a == Word(s, 2 * n)
    <2>2. g[n] \in Words /\ a \in Words /\ g[n + 1] = Fold16(g[n] + a)
      BY <1>3, <1>4, <2>1
    <2>3. g[n] > 0 \/ a > 0
      <3>1. CASE n = 0
        <4>1. 2 * n = 0
          BY <3>1
        <4> QED
          BY <4>1
      <3>2. CASE n # 0
        BY <1>6, <3>2
      <3> QED
        BY <3>1, <3>2
    <2> HIDE DEF a
    <2>4. g[n + 1] > 0
      BY <2>2, <2>3, AddWord
    <2> QED
      BY <2>1, <2>4
  <1>7. T \in SUBSET (0 .. N)
    OBVIOUS
  <1>8. T = 0 .. N
    <2> HIDE DEF T
    <2> QED
      BY <1>1, <1>5, <1>6, <1>7, IntervalInduction
  <1>9. N \in T /\ N # 0 /\ N \in 0 .. N
    <2> HIDE DEF T
    <2> QED
      BY <1>1, <1>8
  <1> QED
    BY <1>2, <1>3, <1>9

-----------------------------------------------------------------------------
(***************************************************************************)
(* MssClamp: the header the sender built.                                  *)
(***************************************************************************)
LEMMA PaddedFacts ==
    ASSUME NEW fl \in Seq(Bytes), Len(fl) <= 40
    PROVE  /\ Padded(fl) \in Seq(Bytes) /\ Len(Padded(fl)) \in Nat
           /\ Len(fl) <= Len(Padded(fl)) /\ Len(Padded(fl)) <= 40
           /\ Len(Padded(fl)) % 4 = 0 /\ (Len(fl) % 4 = 0 => Len(Padded(fl)) = Len(fl))
           /\ \A n \in 1 .. Len(fl) : Padded(fl)[n] = fl[n]
           /\ \A n \in (Len(fl) + 1) .. Len(Padded(fl)) : Padded(fl)[n] = 0
  <1> DEFINE L == Len(fl)
             k == (4 - (L % 4)) % 4
             pad == [i \in 1 .. k |-> 0]
  <1>1. L \in Nat /\ L <= 40
    OBVIOUS
  <1>2. /\ k \in Nat /\ (L + k) % 4 = 0 /\ (L % 4 = 0 => k = 0) /\ L + k <= 40
    BY <1>1, SMT
  <1> HIDE DEF k
  <1>3. pad \in Seq(Bytes) /\ Len(pad) = k /\ \A n \in 1 .. k : pad[n] = 0
    <2>1. 0 \in Bytes
      BY SMT DEF Bytes
    <2> QED
      BY <1>2, <2>1
  <1>4. Padded(fl) = fl \o pad
    BY DEF Padded, k
  <1> HIDE DEF pad
  <1>5. /\ fl \o pad \in Seq(Bytes) /\ Len(fl \o pad) = L + k
        /\ \A n \in 1 .. L : (fl \o pad)[n] = fl[n]
        /\ \A n \in 1 .. k : (fl \o pad)[L + n] = 0
    BY <1>1, <1>2, <1>3
  <1>6. ASSUME NEW n \in (L + 1) .. (L + k)
        PROVE  (fl \o pad)[n] = 0
    <2>1. n - L \in 1 .. k /\ L + (n - L) = n
      BY <1>1, <1>2
    <2> QED
      BY <1>5, <2>1
  <1> HIDE DEF L
  <1> QED
    BY <1>1, <1>2, <1>4, <1>5, <1>6 DEF L

\* t is a, of m bytes, and b, of k bytes, one after the other.
Concat(t, a, m, b, k) ==
    /\ t \in Seq(Bytes) /\ Len(t) = m + k
    /\ \A n \in 1 .. m : t[n] = a[n]
    /\ \A n \in 1 .. k : t[m + n] = b[n]

LEMMA ConcatFacts ==
    ASSUME NEW a \in Seq(Bytes), NEW b \in Seq(Bytes), NEW m, m = Len(a), NEW k, k = Len(b)
    PROVE  Concat(a \o b, a, m, b, k)
  <1>1. /\ a \o b \in Seq(Bytes) /\ Len(a \o b) = Len(a) + Len(b)
        /\ \A n \in 1 .. Len(a) : (a \o b)[n] = a[n]
        /\ \A n \in 1 .. Len(b) : (a \o b)[Len(a) + n] = b[n]
    OBVIOUS
  <1> QED
    BY <1>1 DEF Concat

\* The first 20 bytes.
Ports(q, flags) ==
    <<4, 210, 1, 187, 0, 0, 0, 1, 0, 0, 0, 0>> \o <<q, flags, 255, 255, 0, 0, 0, 0>>

LEMMA PortsFacts ==
    ASSUME NEW q \in Bytes, NEW flags \in Bytes
    PROVE  /\ Ports(q, flags) \in Seq(Bytes) /\ Len(Ports(q, flags)) = 20
           /\ Ports(q, flags)[1] = 4 /\ Ports(q, flags)[2] = 210
           /\ Ports(q, flags)[13] = q /\ Ports(q, flags)[14] = flags
           /\ Ports(q, flags)[17] = 0 /\ Ports(q, flags)[18] = 0
  <1> DEFINE a == <<4, 210, 1, 187, 0, 0, 0, 1, 0, 0, 0, 0>>
             b == <<q, flags, 255, 255, 0, 0, 0, 0>>
  <1>1. /\ 4 \in Bytes /\ 210 \in Bytes /\ 1 \in Bytes /\ 187 \in Bytes /\ 0 \in Bytes
        /\ 255 \in Bytes
    BY SMT DEF Bytes
  <1>2. a \in Seq(Bytes) /\ Len(a) = 12 /\ a[1] = 4 /\ a[2] = 210
    BY <1>1, SMT
  <1>3. /\ b \in Seq(Bytes) /\ Len(b) = 8 /\ b[1] = q /\ b[2] = flags
        /\ b[5] = 0 /\ b[6] = 0
    BY <1>1, SMT
  <1> HIDE DEF a, b
  <1> DEFINE t == a \o b
  <1>4. /\ t \in Seq(Bytes) /\ Len(t) = 20
        /\ \A n \in 1 .. 12 : t[n] = a[n]
        /\ \A n \in 1 .. 8 : t[12 + n] = b[n]
    <2>1. Concat(a \o b, a, 12, b, 8)
      <3>1. a \in Seq(Bytes) /\ 12 = Len(a)
        BY <1>2
      <3>2. b \in Seq(Bytes) /\ 8 = Len(b)
        BY <1>3
      <3> QED
        BY <3>1, <3>2, ConcatFacts
    <2> HIDE DEF t
    <2>2. Concat(t, a, 12, b, 8)
      BY <2>1 DEF t
    <2>3. 12 + 8 = 20
      OBVIOUS
    <2> QED
      BY <2>2, <2>3 DEF Concat
  <1> HIDE DEF t
  <1>5. /\ t[1] = a[1] /\ t[2] = a[2]
        /\ t[13] = b[1] /\ t[14] = b[2]
        /\ t[17] = b[5] /\ t[18] = b[6]
    <2>1. /\ 1 \in 1 .. 12 /\ 2 \in 1 .. 12 /\ 1 \in 1 .. 8 /\ 2 \in 1 .. 8
          /\ 5 \in 1 .. 8 /\ 6 \in 1 .. 8 /\ 12 + 1 = 13 /\ 12 + 2 = 14
          /\ 12 + 5 = 17 /\ 12 + 6 = 18
      OBVIOUS
    <2>2. t[12 + 1] = b[1] /\ t[12 + 2] = b[2]
          /\ t[12 + 5] = b[5] /\ t[12 + 6] = b[6]
      BY <1>4, <2>1
    <2> QED
      BY <1>4, <2>1, <2>2
  <1>6. Ports(q, flags) = t
    BY DEF Ports, a, b, t
  <1> QED
    BY <1>2, <1>3, <1>4, <1>5, <1>6

\* What the rest of the proof uses of a header: P bytes of options follow the
\* first 20, fl and the padding.
Built(H, flags, fl, P) ==
    /\ H \in Seq(Bytes) /\ Len(H) = 20 + P /\ P \in Nat /\ Len(fl) \in Nat
    /\ Len(fl) <= P /\ (Len(fl) % 4 = 0 => P = Len(fl))
    /\ (H[13] \div 16) * 4 = 20 + P /\ H[14] = flags
    /\ \A n \in 1 .. Len(fl) : H[20 + n] = fl[n]
    /\ \A n \in (Len(fl) + 1) .. P : H[20 + n] = 0
    /\ Word(H, 0) > 0 /\ Sum16(H) = 65535

LEMMA HeaderIsBuilt ==
    ASSUME NEW flags \in Bytes, NEW ss \in Seq(Seq(Bytes)), Len(FlattenSeq(ss)) <= 40
    PROVE  \E P \in Nat : Built(Header(flags, ss), flags, FlattenSeq(ss), P)
  <1> DEFINE fl == FlattenSeq(ss)
             body == Padded(fl)
             P == Len(body)
             q == 16 * (5 + (P \div 4))
             tcp0 == Ports(q, flags) \o body
             w == 65535 - Sum16(tcp0)
             H == Put(tcp0, 16, w)
  <1>1. Header(flags, ss) = H
    BY DEF Header, Ports, Not16
  <1>2. fl \in Seq(Bytes) /\ Len(fl) <= 40 /\ Len(fl) \in Nat
    <2>1. Len(ss) \in 0 .. Len(ss)
      OBVIOUS
    <2>2. fl \in Seq(Bytes)
      BY <2>1, JoinedUnfolds
    <2> QED
      BY <2>2
  <1> HIDE DEF fl
  <1>3. /\ body \in Seq(Bytes) /\ P \in Nat /\ Len(fl) <= P /\ P <= 40 /\ P % 4 = 0
        /\ (Len(fl) % 4 = 0 => P = Len(fl))
        /\ \A n \in 1 .. Len(fl) : body[n] = fl[n]
        /\ \A n \in (Len(fl) + 1) .. P : body[n] = 0
    BY <1>2, PaddedFacts
  <1> HIDE DEF body
  <1>4. q \in Bytes /\ (q \div 16) * 4 = 20 + P
    <2> HIDE DEF P
    <2>1. P = 4 * (P \div 4) /\ P \div 4 \in 0 .. 10
      BY <1>3, SMT
    <2> DEFINE r == P \div 4
    <2> HIDE DEF r
    <2>2. r \in 0 .. 10 => (16 * (5 + r)) \div 16 = 5 + r /\ 16 * (5 + r) \in 0 .. 255
      BY SMT
    <2>3. r \in 0 .. 10 /\ P = 4 * r /\ q = 16 * (5 + r)
      BY <2>1 DEF r
    <2> HIDE DEF q
    <2>4. q \in 0 .. 255 /\ q \div 16 = 5 + r
      BY <2>2, <2>3
    <2>5. (5 + r) * 4 = 20 + P
      BY <2>3, SMT
    <2> QED
      BY <2>4, <2>5 DEF Bytes
  <1> HIDE DEF P, q
  <1> DEFINE front == Ports(q, flags)
  <1>5. /\ front \in Seq(Bytes) /\ Len(front) = 20 /\ front[1] = 4 /\ front[2] = 210
        /\ front[13] = q /\ front[14] = flags /\ front[17] = 0 /\ front[18] = 0
    BY <1>4, PortsFacts
  <1> HIDE DEF front
  <1>6. /\ tcp0 \in Seq(Bytes) /\ Len(tcp0) = 20 + P
        /\ \A n \in 1 .. 20 : tcp0[n] = front[n]
        /\ \A n \in 1 .. P : tcp0[20 + n] = body[n]
    <2>1. Concat(front \o body, front, 20, body, P)
      <3>1. body \in Seq(Bytes) /\ front \in Seq(Bytes) /\ 20 = Len(front)
        BY <1>3, <1>5
      <3>2. P = Len(body)
        BY DEF P
      <3> QED
        BY <3>1, <3>2, ConcatFacts
    <2>2. tcp0 = front \o body
      BY DEF front
    <2> HIDE DEF tcp0
    <2>3. Concat(tcp0, front, 20, body, P)
      BY <2>1, <2>2
    <2> QED
      BY <2>3 DEF Concat
  <1> HIDE DEF tcp0
  <1>7. /\ tcp0[1] = 4 /\ tcp0[2] = 210 /\ tcp0[13] = q /\ tcp0[14] = flags
        /\ tcp0[17] = 0 /\ tcp0[18] = 0
    BY <1>5, <1>6
  <1>8. Word(tcp0, 0) = 1234 /\ Word(tcp0, 16) = 0
    <2>1. 0 + 1 = 1 /\ 0 + 2 = 2 /\ 16 + 1 = 17 /\ 16 + 2 = 18
      OBVIOUS
    <2> QED
      BY <1>7, <2>1 DEF Word
  <1>9. Sum16(tcp0) \in Words /\ w \in Words
    <2>1. 2 * 0 + 2 <= Len(tcp0) /\ 0 \in Nat /\ 0 \in Words
      BY <1>3, <1>6, SMT DEF Words
    <2>2. Sum16(tcp0) \in Words
      BY <1>6, <2>1, SumOfPut
    <2> DEFINE x == Sum16(tcp0)
    <2> HIDE DEF x
    <2>3. x \in Words => 65535 - x \in Words
      BY SMT DEF Words
    <2> QED
      BY <2>2, <2>3 DEF x
  <1>10. /\ H \in Seq(Bytes) /\ Len(H) = 20 + P
         /\ \A i \in 1 .. (20 + P) : i # 17 /\ i # 18 => H[i] = tcp0[i]
    <2>1. 16 \in Nat /\ 16 + 2 <= Len(tcp0) /\ 16 + 1 = 17 /\ 16 + 2 = 18
      <3> DEFINE k == Len(tcp0)
      <3>1. P \in Nat /\ k = 20 + P
        BY <1>3, <1>6
      <3> HIDE DEF k, P
      <3>2. 16 + 2 <= k
        BY <3>1
      <3> QED
        BY <3>2 DEF k
    <2> HIDE DEF w
    <2>2. /\ H \in Seq(Bytes) /\ Len(H) = Len(tcp0)
          /\ \A i \in 1 .. Len(tcp0) : H[i] = IF i = 16 + 2 THEN w % 256
                                             ELSE IF i = 16 + 1 THEN w \div 256 ELSE tcp0[i]
      <3> DEFINE o == 16
                 s == tcp0
      <3>1. s \in Seq(Bytes) /\ o \in Nat /\ o + 2 <= Len(s) /\ w \in Words /\ H = Put(s, o, w)
        BY <1>6, <1>9, <2>1
      <3> HIDE DEF H, s, o
      <3>2. /\ H \in Seq(Bytes) /\ Len(H) = Len(s)
            /\ \A i \in 1 .. Len(s) : H[i] = IF i = o + 2 THEN w % 256
                                             ELSE IF i = o + 1 THEN w \div 256 ELSE s[i]
        BY <3>1, PutFacts
      <3> QED
        BY <3>2 DEF s, o
    <2> HIDE DEF H
    <2> QED
      BY <1>6, <2>1, <2>2
  <1>11. Vanishes(Sum16(H)) /\ Sum16(H) \in Words
    <2>1. 16 \in Nat /\ 16 % 2 = 0 /\ 16 + 2 <= Len(tcp0)
      BY <1>3, <1>6, SMT
    <2>2. /\ Vanishes(Sum16(Put(tcp0, 16, w)) - Sum16(tcp0) - (w - Word(tcp0, 16)))
          /\ Sum16(Put(tcp0, 16, w)) \in Words
      <3> HIDE DEF w
      <3> QED
        BY <1>6, <1>9, <2>1, SumOfPutAt
    <2>3. Vanishes(Sum16(H) - Sum16(tcp0) - (w - 0)) /\ Sum16(H) \in Words
      BY <1>8, <2>2
    <2> DEFINE x == Sum16(H)
               y == Sum16(tcp0)
    <2> HIDE DEF H, x, y
    <2>4. x \in Words /\ y \in Words => x - y - ((65535 - y) - 0) = x - Modulus /\ x \in Int
      BY SMT DEF Words, Modulus
    <2>5. Vanishes(x - Modulus) /\ x \in Int /\ x \in Words
      BY <1>9, <2>3, <2>4 DEF x, y, w
    <2>6. Modulus \in Int /\ x - Modulus \in Int
      BY <2>5, SMT DEF Modulus
    <2>7. (x - Modulus) + Modulus = x
      BY <2>5, <2>6
    <2>8. Vanishes(x)
      BY <2>5, <2>6, <2>7, VanishFacts
    <2> QED
      BY <2>5, <2>8 DEF x
  <1> HIDE DEF H
  <1>12. /\ Word(H, 0) > 0 /\ H[13] = q /\ H[14] = flags
    <2>1. /\ 1 \in 1 .. (20 + P) /\ 2 \in 1 .. (20 + P) /\ 13 \in 1 .. (20 + P)
          /\ 14 \in 1 .. (20 + P)
      BY <1>3
    <2>2. H[1] = 4 /\ H[2] = 210 /\ H[13] = q /\ H[14] = flags
      BY <1>7, <1>10, <2>1
    <2>3. 0 + 1 = 1 /\ 0 + 2 = 2
      OBVIOUS
    <2> QED
      BY <2>2, <2>3 DEF Word
  <1>13. Sum16(H) = Modulus
    <2>1. Len(H) >= 2
      BY <1>3, <1>10
    <2>2. Sum16(H) > 0
      BY <1>10, <1>12, <2>1, SumIsPositive
    <2> QED
      BY <1>11, <2>2, VanishFacts
  <1>14. \A n \in 1 .. P : H[20 + n] = body[n]
    <2> TAKE n \in 1 .. P
    <2>1. 20 + n \in 1 .. (20 + P) /\ 20 + n # 17 /\ 20 + n # 18
      BY <1>3
    <2> QED
      BY <1>6, <1>10, <2>1
  <1>15. /\ \A n \in 1 .. Len(fl) : H[20 + n] = fl[n]
         /\ \A n \in (Len(fl) + 1) .. P : H[20 + n] = 0
    <2>1. Len(fl) \in Nat /\ P \in Nat /\ Len(fl) <= P
      BY <1>2, <1>3
    <2>2. /\ \A n \in 1 .. Len(fl) : n \in 1 .. P
          /\ \A n \in (Len(fl) + 1) .. P : n \in 1 .. P
      BY <2>1
    <2> QED
      BY <1>3, <1>14, <2>2
  <1>16. Built(H, flags, fl, P)
    <2>1. Sum16(H) = 65535
      BY <1>13 DEF Modulus
    <2>2. Len(fl) \in Nat /\ P \in Nat /\ Len(fl) <= P /\ (Len(fl) % 4 = 0 => P = Len(fl))
      BY <1>2, <1>3
    <2>3. (H[13] \div 16) * 4 = 20 + P /\ H[14] = flags /\ Word(H, 0) > 0
      BY <1>4, <1>12
    <2>4. H \in Seq(Bytes) /\ Len(H) = 20 + P
      BY <1>10
    <2> QED
      BY <1>15, <2>1, <2>2, <2>3, <2>4 DEF Built
  <1> QED
    BY <1>1, <1>3, <1>16 DEF fl

-----------------------------------------------------------------------------
(***************************************************************************)
(* MssClamp: while the loop runs, at is the beginning of the option after  *)
(* k well-formed ones that are not the MSS, the end of the options         *)
(* included, or beyond the header because an option was cut off.           *)
(***************************************************************************)
Passed(k) == \A j \in 1 .. k : WellFormed(options[j]) /\ ~IsMss(options[j])

StandsAt(k) == at = 20 + Len(Joined(options, k)) /\ Passed(k)

OnTheWay ==
    \/ \E k \in 0 .. Len(options) : StandsAt(k)
    \/ at \in Nat /\ at >= Len(original) /\ MssOptions = {}

PacketTyped ==
    /\ network_mtu \in Int /\ 1280 <= network_mtu /\ network_mtu <= 65535
    /\ ip \in IpHeaders /\ options \in OptionLists
    /\ \E flags \in TcpFlagBytes : original = Header(flags, options)

ClampInv ==
    /\ PacketTyped
    /\ clamp_result = "start" => tcp = original /\ at = 20
    /\ clamp_result = "loop" => tcp = original /\ Clampable /\ OnTheWay
    /\ SynFitsTunnel

\* The header of a packet, and what the assumptions say of its options.
LEMMA OptionFacts ==
    ASSUME PacketTyped
    PROVE  /\ options \in Seq(Seq(Bytes)) /\ Len(options) \in Nat
           /\ \E P \in Nat, flags \in Bytes : Built(original, flags, FlattenSeq(options), P)
           /\ \A i \in 1 .. Len(options) :
                 \/ WellFormed(options[i]) \/ EndsList(options[i])
                 \/ CutOff(options[i]) /\ i = Len(options) /\ Len(FlattenSeq(options)) % 4 = 0
           /\ \A i \in 1 .. Len(options) : options[i] \in Seq(Bytes)
  <1>1. options \in OptionLists /\ OptionLists \subseteq Seq(Seq(Bytes))
        /\ TcpFlagBytes \subseteq Bytes
    <2>1. options \in OptionLists
      BY DEF PacketTyped
    <2>2. OptionLists \subseteq Seq(Seq(0 .. 255)) /\ TcpFlagBytes \subseteq 0 .. 255
      BY ClampAssumption
    <2> QED
      BY <2>1, <2>2 DEF Bytes
  <1>2. /\ Len(FlattenSeq(options)) <= 40
        /\ \A i \in DOMAIN options :
              \/ WellFormed(options[i]) \/ EndsList(options[i])
              \/ CutOff(options[i]) /\ i = Len(options) /\ Len(FlattenSeq(options)) % 4 = 0
    BY <1>1, OptionsAssumption
  <1>3. options \in Seq(Seq(Bytes))
    BY <1>1
  <1>4. /\ Len(options) \in Nat /\ DOMAIN options = 1 .. Len(options)
        /\ \A i \in 1 .. Len(options) : options[i] \in Seq(Bytes)
    BY <1>3
  <1>5. PICK flags \in TcpFlagBytes : original = Header(flags, options)
    BY DEF PacketTyped
  <1>6. flags \in Bytes
    BY <1>1, <1>5
  <1>7. \E P \in Nat : Built(original, flags, FlattenSeq(options), P)
    BY <1>2, <1>3, <1>5, <1>6, HeaderIsBuilt
  <1> QED
    BY <1>2, <1>3, <1>4, <1>6, <1>7

\* Without an MSS in the sense of MssOptions there is none to be found.
LEMMA NoMssAfter ==
    ASSUME options \in Seq(Seq(Bytes)), NEW k \in 0 .. Len(options), Passed(k),
           k = Len(options) \/ ~WellFormed(options[k + 1])
    PROVE  MssOptions = {}
  <1> DEFINE N == Len(options)
  <1>1. DOMAIN options = 1 .. N /\ N \in Nat
    OBVIOUS
  <1>2. k \in 0 .. N /\ (k # N => ~WellFormed(options[k + 1]))
    OBVIOUS
  <1> HIDE DEF N
  <1>3. ASSUME NEW i \in 1 .. N, IsMss(options[i]),
               \A j \in 1 .. (i - 1) : WellFormed(options[j]) /\ ~IsMss(options[j])
        PROVE  FALSE
    <2>1. ~(i <= k)
      <3>1. i <= k => i \in 1 .. k
        BY <1>1, <1>2
      <3> QED
        BY <1>3, <3>1 DEF Passed
    <2>2. k # N /\ k + 1 <= i
      BY <1>1, <1>2, <2>1
    <2>3. WellFormed(options[k + 1])
      <3>1. CASE k + 1 = i
        BY <1>3, <3>1 DEF IsMss
      <3>2. CASE k + 1 # i
        <4>1. k + 1 \in 1 .. (i - 1)
          BY <1>1, <1>2, <2>2, <3>2
        <4> QED
          BY <1>3, <4>1
      <3> QED
        BY <3>1, <3>2
    <2> QED
      BY <1>2, <2>2, <2>3
  <1> QED
    BY <1>1, <1>3 DEF MssOptions

\* What is found where the loop stands.
LEMMA AtOption ==
    ASSUME ClampInv, clamp_result = "loop", NEW k \in 0 .. Len(options), StandsAt(k)
    PROVE  /\ at \in Nat /\ at >= 20 /\ options_end = Len(tcp) /\ tcp = original
           /\ k = Len(options) =>
                 MssOptions = {} /\ at <= options_end /\ (at < options_end => kind = 0)
           /\ k < Len(options) =>
                 LET o == options[k + 1]
                 IN  /\ o \in Seq(Bytes) /\ Len(o) \in Nat
                     /\ at + Len(o) <= options_end
                     /\ Len(o) > 0 => kind = o[1]
                     /\ Len(o) > 1 => length = o[2]
                     /\ at + Len(o) = 20 + Len(Joined(options, k + 1))
                     /\ \/ WellFormed(o)
                        \/ EndsList(o) /\ MssOptions = {}
                        \/ CutOff(o) /\ MssOptions = {} /\ at + Len(o) = options_end
  <1> DEFINE fl == FlattenSeq(options)
             L == Len(Joined(options, k))
             N == Len(options)
  <1>1. PacketTyped /\ tcp = original
    BY DEF ClampInv
  <1>2. /\ options \in Seq(Seq(Bytes)) /\ N \in Nat
        /\ \A i \in 1 .. N :
              \/ WellFormed(options[i]) \/ EndsList(options[i])
              \/ CutOff(options[i]) /\ i = N /\ Len(fl) % 4 = 0
        /\ \A i \in 1 .. N : options[i] \in Seq(Bytes)
    BY <1>1, OptionFacts
  <1>3. PICK P \in Nat, flags \in Bytes : Built(original, flags, fl, P)
    BY <1>1, OptionFacts
  <1>4. /\ Len(original) = 20 + P /\ Len(fl) \in Nat /\ Len(fl) <= P
        /\ (Len(fl) % 4 = 0 => P = Len(fl)) /\ (original[13] \div 16) * 4 = 20 + P
        /\ \A n \in 1 .. Len(fl) : original[20 + n] = fl[n]
        /\ \A n \in (Len(fl) + 1) .. P : original[20 + n] = 0
    BY <1>3 DEF Built
  <1>5. options_end = 20 + P
    <2>1. 12 + 1 = 13
      OBVIOUS
    <2> QED
      BY <1>1, <1>4, <2>1 DEF options_end, Byte
  <1>6. Joined(options, k) \in Seq(Bytes) /\ L \in Nat /\ fl = Joined(options, N)
    <2>1. Joined(options, k) \in Seq(Bytes) /\ fl = Joined(options, N)
      BY <1>2, JoinedUnfolds
    <2> QED
      BY <2>1
  <1>7. at = 20 + L /\ at \in Nat /\ at >= 20 /\ Passed(k)
    BY <1>6 DEF StandsAt
  <1> HIDE DEF fl, L, N
  <1>8. CASE k = N
    <2>1. L = Len(fl)
      BY <1>6, <1>8 DEF L
    <2>2. at < options_end => kind = 0
      <3> SUFFICES ASSUME at < options_end
                   PROVE  kind = 0
        OBVIOUS
      <3>1. Len(fl) + 1 \in (Len(fl) + 1) .. P /\ 20 + (Len(fl) + 1) = at + 1
        BY <1>4, <1>5, <1>7, <2>1
      <3> QED
        BY <1>1, <1>4, <3>1 DEF kind, Byte
    <2>3. MssOptions = {}
      BY <1>2, <1>7, <1>8, NoMssAfter DEF N
    <2>4. at <= options_end
      BY <1>4, <1>5, <1>7, <2>1
    <2> QED
      BY <1>1, <1>4, <1>5, <1>7, <1>8, <2>2, <2>3, <2>4 DEF N
  <1>9. CASE k < N
    <2> DEFINE o == options[k + 1]
    <2>1. k + 1 \in 1 .. N /\ (k + 1) - 1 = k
      BY <1>2, <1>9 DEF N
    <2>2. o \in Seq(Bytes) /\ Len(o) \in Nat
      BY <1>2, <2>1
    <2>3. \A j \in 1 .. Len(o) :
             /\ Len(Joined(options, k + 1)) = L + Len(o)
             /\ L + j \in 1 .. Len(fl) /\ fl[L + j] = o[j]
      <3> DEFINE i == k + 1
      <3>1. i \in 1 .. Len(options) /\ i - 1 = k
        BY <2>1 DEF N
      <3> HIDE DEF i
      <3>2. \A j \in 1 .. Len(options[i]) :
               /\ Len(Joined(options, i)) = Len(Joined(options, i - 1)) + Len(options[i])
               /\ Len(Joined(options, i - 1)) + j \in 1 .. Len(FlattenSeq(options))
               /\ FlattenSeq(options)[Len(Joined(options, i - 1)) + j] = options[i][j]
        BY <1>2, <3>1, PiecesAreThere, Zenon
      <3> QED
        BY <3>1, <3>2, Zenon DEF fl, L, i
    <2>4. \A j \in 1 .. Len(o) : tcp[at + j] = o[j]
      <3> TAKE j \in 1 .. Len(o)
      <3>1. L + j \in 1 .. Len(fl) /\ fl[L + j] = o[j]
        BY <2>3
      <3>2. original[20 + (L + j)] = fl[L + j]
        BY <1>4, <3>1
      <3>3. 20 + (L + j) = at + j
        BY <1>6, <1>7, <2>2
      <3> HIDE DEF o
      <3> QED
        BY <1>1, <3>1, <3>2, <3>3
    <2>5. WellFormed(o) \/ EndsList(o) \/ (CutOff(o) /\ k + 1 = N /\ Len(fl) % 4 = 0)
      BY <1>2, <2>1
    <2>6. Len(o) > 0
      <3>1. Len(<<1>>) = 1
        OBVIOUS
      <3> HIDE DEF o
      <3> QED
        BY <2>2, <2>5, <3>1 DEF WellFormed, EndsList, CutOff
    <2>7. /\ at + Len(o) = 20 + Len(Joined(options, k + 1))
          /\ at + Len(o) <= options_end
      <3>1. Len(o) \in 1 .. Len(o)
        BY <2>2, <2>6
      <3>2. Len(Joined(options, k + 1)) = L + Len(o) /\ L + Len(o) \in 1 .. Len(fl)
        BY <2>3, <3>1
      <3> HIDE DEF o
      <3> QED
        BY <1>4, <1>5, <1>6, <1>7, <2>2, <3>2
    <2>8. kind = o[1] /\ (Len(o) > 1 => length = o[2])
      <3>1. 1 \in 1 .. Len(o) /\ (Len(o) > 1 => 2 \in 1 .. Len(o)) /\ (at + 1) + 1 = at + 2
        BY <1>7, <2>2, <2>6
      <3> HIDE DEF o
      <3> QED
        BY <2>4, <3>1 DEF kind, length, Byte
    <2>9. EndsList(o) \/ CutOff(o) => ~WellFormed(o)
      <3> HIDE DEF o
      <3>1. o = <<1>> => o[1] = 1 /\ Len(o) = 1
        OBVIOUS
      <3> QED
        BY <2>2, <3>1 DEF WellFormed, EndsList, CutOff
    <2>10. EndsList(o) \/ CutOff(o) => MssOptions = {}
      BY <1>2, <1>7, <2>9, NoMssAfter
    <2>11. CutOff(o) /\ k + 1 = N /\ Len(fl) % 4 = 0 => at + Len(o) = options_end
      <3>1. k + 1 = N => Joined(options, k + 1) = fl
        BY <1>6
      <3> HIDE DEF o
      <3> QED
        BY <1>4, <1>5, <2>7, <3>1
    <2> HIDE DEF o
    <2>12. \/ WellFormed(o)
           \/ EndsList(o) /\ MssOptions = {}
           \/ CutOff(o) /\ MssOptions = {} /\ at + Len(o) = options_end
      BY <2>5, <2>10, <2>11
    <2> QED
      BY <1>1, <1>4, <1>5, <1>7, <1>9, <2>2, <2>7, <2>8, <2>12 DEF o, N
  <1> QED
    BY <1>2, <1>8, <1>9 DEF N

\* Writing back what is there changes nothing.
LEMMA PutSame ==
    ASSUME NEW s \in Seq(Bytes), NEW o \in Nat, o + 2 <= Len(s)
    PROVE  Put(s, o, Word(s, o)) = s
  <1>1. s[o + 1] = Word(s, o) \div 256 /\ s[o + 2] = Word(s, o) % 256
    BY WordFacts
  <1>2. o + 1 \in DOMAIN s /\ o + 2 \in DOMAIN s
    OBVIOUS
  <1> QED
    BY <1>1, <1>2 DEF Put

\* The update of RFC 1624 after the change of one of the header's words.
LEMMA ClampedSum ==
    ASSUME NEW s \in Seq(Bytes), NEW v \in Nat, v >= 18, v + 2 <= Len(s), NEW new \in Words,
           Word(s, 0) > 0, Sum16(s) = 65535,
           NEW d, d = incremental_checksum_update(Put(s, v, new), Word(s, v), new)
    PROVE  d = Put(Put(s, v, new), 16, Word(d, 16)) /\ (v % 2 = 0 => Sum16(d) = 65535)
  <1> DEFINE old == Word(s, v)
             s1 == Put(s, v, new)
             C == Word(s1, 16)
             x == (65535 - C) + (65535 - old) + new
             y == Fold16(x)
             c == 65535 - y
  <1>1. /\ s1 \in Seq(Bytes) /\ Len(s1) = Len(s) /\ Len(s) \in Nat
        /\ \A i \in 1 .. Len(s) : s1[i] = IF i = v + 2 THEN new % 256
                                          ELSE IF i = v + 1 THEN new \div 256 ELSE s[i]
    BY PutFacts
  <1>2. d = Put(s1, 16, c)
    BY DEF incremental_checksum_update, Not16
  <1> HIDE DEF s1
  <1>3. 16 \in Nat /\ 16 + 2 <= Len(s1) /\ 16 + 1 = 17 /\ 16 + 2 = 18
    BY <1>1
  <1>4. C \in Words /\ old \in Words
    BY <1>1, <1>3, WordFacts
  <1> HIDE DEF C, old
  <1>5. x \in ThreeWords
    BY <1>4, SMT DEF Words, ThreeWords
  <1> HIDE DEF x
  <1>6. y \in Words /\ Vanishes(y - x)
    BY <1>5, FoldFacts
  <1> HIDE DEF y
  <1>7. c \in Words
    BY <1>6, SMT DEF Words
  <1> HIDE DEF c
  <1>8. /\ d \in Seq(Bytes) /\ Len(d) = Len(s) /\ Word(d, 16) = c
        /\ \A i \in 1 .. Len(s1) : d[i] = IF i = 16 + 2 THEN c % 256
                                          ELSE IF i = 16 + 1 THEN c \div 256 ELSE s1[i]
    BY <1>1, <1>2, <1>3, <1>7, PutFacts
  <1>9. Word(d, 0) > 0
    <2>1. 1 \in 1 .. Len(s) /\ 2 \in 1 .. Len(s) /\ 1 # v + 1 /\ 1 # v + 2 /\ 2 # v + 1 /\ 2 # v + 2
      BY <1>1
    <2>2. s1[1] = s[1] /\ s1[2] = s[2]
      BY <1>1, <2>1
    <2>3. d[1] = s1[1] /\ d[2] = s1[2]
      BY <1>1, <1>3, <1>8, <2>1
    <2>4. 0 + 1 = 1 /\ 0 + 2 = 2
      OBVIOUS
    <2> QED
      BY <2>2, <2>3, <2>4 DEF Word
  <1>10. ASSUME v % 2 = 0
         PROVE  Sum16(d) = 65535
    <2>1. 16 % 2 = 0
      BY SMT
    <2>2. /\ Vanishes(Sum16(s1) - Sum16(s) - (new - old)) /\ Sum16(s1) \in Words
      BY <1>10, SumOfPutAt DEF s1, old
    <2>3. /\ Vanishes(Sum16(d) - Sum16(s1) - (c - C)) /\ Sum16(d) \in Words
      BY <1>1, <1>2, <1>3, <1>7, <2>1, SumOfPutAt DEF C
    <2> DEFINE S1 == Sum16(s1)
               S2 == Sum16(d)
               M == Modulus
               a1 == S1 - M - (new - old)
               a2 == S2 - S1 - (c - C)
               a3 == y - x
    <2>4. Vanishes(a1) /\ Vanishes(a2) /\ Vanishes(a3) /\ S1 \in Words /\ S2 \in Words
      BY <1>6, <2>2, <2>3 DEF Modulus
    <2> HIDE DEF S1, S2
    <2>5. /\ a1 \in Int /\ a2 \in Int /\ a3 \in Int /\ a1 + a2 \in Int
          /\ S2 = (a1 + a2) - a3
      <3>1. /\ S1 \in Int /\ S2 \in Int /\ new \in Int /\ old \in Int /\ c \in Int /\ C \in Int
            /\ y \in Int /\ x \in Int
        BY <1>4, <1>5, <1>6, <1>7, <2>4, SMT DEF Words, ThreeWords
      <3>2. c = 65535 - y /\ x = (65535 - C) + (65535 - old) + new
        BY DEF c, x
      <3>3. M = 65535 /\ M \in Int
        BY SMT DEF Modulus
      <3> HIDE DEF M
      <3>4. c = M - y /\ x = (M - C) + (M - old) + new
        BY <3>2, <3>3
      <3> QED
        BY <3>1, <3>3, <3>4, SMT
    <2> HIDE DEF a1, a2, a3
    <2>6. Vanishes(S2)
      <3>1. Vanishes(a1 + a2)
        BY <2>4, <2>5, VanishFacts
      <3> QED
        BY <2>4, <2>5, <3>1, VanishFacts
    <2>7. S2 > 0
      <3>1. Len(d) >= 2
        BY <1>1, <1>3, <1>8
      <3> QED
        BY <1>8, <1>9, <3>1, SumIsPositive DEF S2
    <2>8. S2 = Modulus
      BY <2>4, <2>6, <2>7, VanishFacts
    <2> QED
      BY <2>8 DEF S2, Modulus
  <1> QED
    BY <1>2, <1>8, <1>10 DEF s1

-----------------------------------------------------------------------------
(***************************************************************************)
(* MssClamp: one lemma per action.                                         *)
(***************************************************************************)
\* Only OptionMss changes more than at and clamp_result.
PacketStays == UNCHANGED <<network_mtu, ip, options, original>>

LEMMA PacketFacts ==
    ASSUME PacketTyped, PacketStays
    PROVE  /\ PacketTyped' /\ MssOptions' = MssOptions /\ Clampable' = Clampable
           /\ original' = original /\ options' = options
  <1>1. /\ network_mtu' = network_mtu /\ ip' = ip /\ options' = options /\ original' = original
    BY DEF PacketStays
  <1> QED
    <2>1. PacketTyped'
      BY <1>1 DEF PacketTyped
    <2>2. MssOptions' = MssOptions
      BY <1>1 DEF MssOptions
    <2>3. Clampable' = Clampable
      BY <1>1 DEF Clampable
    <2> QED
      BY <1>1, <2>1, <2>2, <2>3

\* The end of the options is the end of the header.
LEMMA HeaderEnds ==
    ASSUME PacketTyped, tcp = original
    PROVE  /\ options_end = Len(original) /\ Len(original) \in Nat /\ Len(original) >= 20
           /\ original \in Seq(Bytes) /\ Word(original, 0) > 0 /\ Sum16(original) = 65535
  <1>1. PICK P \in Nat, flags \in Bytes : Built(original, flags, FlattenSeq(options), P)
    BY OptionFacts
  <1>2. /\ Len(original) = 20 + P /\ (original[13] \div 16) * 4 = 20 + P
        /\ original \in Seq(Bytes) /\ Word(original, 0) > 0 /\ Sum16(original) = 65535
    BY <1>1 DEF Built
  <1>3. 12 + 1 = 13
    OBVIOUS
  <1>4. options_end = 20 + P
    BY <1>2, <1>3 DEF options_end, Byte
  <1> QED
    BY <1>2, <1>4

\* The interval from 0 to top, so that a proof can speak of it with top unexpanded.
UpTo(top) == 0 .. top

LEMMA UpToFacts == \A top \in Int : \A n \in UpTo(top) : n \in Int /\ 0 <= n /\ n <= top
  BY DEF UpTo

LEMMA MtuFacts == \A n \in MtuValues : n \in Int /\ n <= 65535 /\ (n >= 1280 => 1280 <= n)
  <1>1. \A n \in UpTo(65535) : n \in Int /\ n <= 65535
    BY UpToFacts
  <1>2. UpTo(65535) = MtuValues
    BY DEF UpTo, MtuValues
  <1>3. \A n \in MtuValues : n \in Int /\ n <= 65535
    BY <1>1, <1>2
  <1> QED
    BY <1>3

LEMMA ClampInitInv == ClampInit => ClampInv
  <1> SUFFICES ASSUME ClampInit
               PROVE  ClampInv
    OBVIOUS
  <1>1. /\ network_mtu \in NetworkMtus /\ network_mtu >= 1280 /\ ip \in IpHeaders
        /\ options \in OptionLists /\ original = tcp /\ at = 20 /\ clamp_result = "start"
        /\ \E flags \in TcpFlagBytes : tcp = Header(flags, options)
    BY DEF ClampInit, ValidMtu
  <1>2. network_mtu \in Int /\ 1280 <= network_mtu /\ network_mtu <= 65535
    <2>1. network_mtu \in MtuValues
      BY <1>1, ClampAssumption
    <2>2. 1280 <= network_mtu
      BY <1>1, <2>1, MtuFacts
    <2> QED
      BY <2>1, <2>2, MtuFacts
  <1>3. PacketTyped
    BY <1>1, <1>2 DEF PacketTyped
  <1>4. clamp_result # "loop" /\ SynFitsTunnel
    BY <1>1 DEF SynFitsTunnel
  <1> QED
    BY <1>1, <1>3, <1>4 DEF ClampInv

LEMMA BeginsInv == ClampInv /\ ClampBegins => ClampInv'
  <1> SUFFICES ASSUME ClampInv, ClampBegins
               PROVE  ClampInv'
    OBVIOUS
  <1>1. /\ PacketTyped /\ tcp = original /\ at = 20
        /\ PacketStays /\ tcp' = tcp /\ at' = at
    BY DEF ClampInv, ClampBegins, PacketStays
  <1>2. /\ PacketTyped' /\ MssOptions' = MssOptions /\ Clampable' = Clampable
        /\ original' = original /\ options' = options
    BY <1>1, PacketFacts
  <1>3. options_end = Len(tcp) /\ Len(tcp) \in Nat /\ Len(tcp) >= 20
    BY <1>1, HeaderEnds
  <1>4. ip.ihl \in 20 .. 60
    BY <1>1, ClampAssumption DEF PacketTyped
  <1>5. IsSyn <=> (original[14] \div 2) % 2 = 1
    <2>1. 13 + 1 = 14
      OBVIOUS
    <2> QED
      BY <1>1, <2>1 DEF IsSyn, Byte
  <1>6. clamp_result' = IF ip.version # 4 \/ ip.protocol # 6 THEN "NotTcp"
                        ELSE IF ~IsSyn THEN "NotSyn" ELSE "loop"
    <2>1. ~(ip.ihl + Len(tcp) < 40) /\ ~(Len(tcp) < 20)
      <3> DEFINE i == ip.ihl
                 n == Len(tcp)
      <3>1. i \in 20 .. 60 /\ n \in Nat /\ n >= 20
        BY <1>3, <1>4
      <3> HIDE DEF i, n
      <3>2. ~(i + n < 40) /\ ~(n < 20)
        BY <3>1
      <3> QED
        BY <3>2 DEF i, n
    <2>2. ~(options_end < 20 \/ Len(tcp) < options_end)
      BY <1>3
    <2>3. clamp_result' =
          IF ip.ihl + Len(tcp) < 40 \/ ip.version # 4 \/ ip.protocol # 6
             \/ Len(tcp) < 20
          THEN "NotTcp"
          ELSE IF ~IsSyn THEN "NotSyn"
          ELSE IF options_end < 20 \/ Len(tcp) < options_end THEN "MssMissing"
          ELSE "loop"
      BY DEF ClampBegins
    <2> QED
      BY <2>1, <2>2, <2>3, Zenon
  <1>7. CASE Clampable
    <2>1. clamp_result' = "loop"
      BY <1>5, <1>6, <1>7 DEF Clampable
    <2>2. StandsAt(0)'
      <3>1. Joined(options, 0) = <<>>
        BY <1>1, OptionFacts, JoinedUnfolds
      <3>2. 20 + Len(<<>>) = 20
        OBVIOUS
      <3>3. Passed(0)'
        BY DEF Passed
      <3>4. at' = 20 + Len(Joined(options', 0))
        BY <1>1, <1>2, <3>1, <3>2
      <3> QED
        BY <3>3, <3>4 DEF StandsAt
    <2>3. 0 \in 0 .. Len(options')
      BY <1>1, <1>2, OptionFacts
    <2>4. OnTheWay'
      BY <2>2, <2>3 DEF OnTheWay
    <2>5. tcp' = original' /\ Clampable'
      BY <1>1, <1>2, <1>7
    <2>6. SynFitsTunnel'
      BY <2>1 DEF SynFitsTunnel
    <2> QED
      BY <1>2, <2>1, <2>4, <2>5, <2>6 DEF ClampInv
  <1>8. CASE ~Clampable
    <2>1. clamp_result' \in {"NotTcp", "NotSyn"}
      BY <1>5, <1>6, <1>8 DEF Clampable
    <2>2. SynFitsTunnel'
      BY <1>1, <1>2, <1>8 DEF SynFitsTunnel
    <2> QED
      BY <1>2, <2>1, <2>2 DEF ClampInv
  <1> QED
    BY <1>7, <1>8

\* A step of the loop to another place in the list.
LEMMA StepInv ==
    ASSUME ClampInv, clamp_result = "loop", PacketStays, tcp' = tcp,
           clamp_result' = clamp_result,
           \/ \E k \in 0 .. Len(options) : at' = 20 + Len(Joined(options, k)) /\ Passed(k)
           \/ at' \in Nat /\ at' >= Len(original) /\ MssOptions = {}
    PROVE  ClampInv'
  <1>1. PacketTyped /\ tcp = original /\ Clampable
    BY DEF ClampInv
  <1>2. /\ PacketTyped' /\ MssOptions' = MssOptions /\ Clampable' = Clampable
        /\ original' = original /\ options' = options
    BY <1>1, PacketFacts
  <1>3. \A k : Passed(k)' <=> Passed(k)
    BY <1>2 DEF Passed
  <1>4. OnTheWay'
    BY <1>2, <1>3 DEF OnTheWay, StandsAt
  <1>5. SynFitsTunnel'
    BY DEF SynFitsTunnel
  <1> QED
    BY <1>1, <1>2, <1>4, <1>5 DEF ClampInv

\* The end of the loop without an MSS.
LEMMA MissingInv ==
    ASSUME ClampInv, clamp_result = "loop", MssOptions = {}, Finish("MssMissing")
    PROVE  ClampInv'
  <1>1. PacketTyped /\ tcp = original
    BY DEF ClampInv
  <1>2. PacketStays /\ tcp' = tcp /\ clamp_result' = "MssMissing"
    BY DEF Finish, PacketStays
  <1>3. /\ PacketTyped' /\ MssOptions' = MssOptions /\ original' = original
    BY <1>1, <1>2, PacketFacts
  <1>4. SynFitsTunnel'
    BY <1>1, <1>2, <1>3 DEF SynFitsTunnel
  <1> QED
    BY <1>2, <1>3, <1>4 DEF ClampInv

\* In the options the loop stands at the beginning of one, or at the padding.
LEMMA InOptionsStands ==
    ASSUME ClampInv, clamp_result = "loop", at < options_end
    PROVE  \E k \in 0 .. Len(options) : StandsAt(k)
  <1>1. PacketTyped /\ tcp = original /\ OnTheWay
    BY DEF ClampInv
  <1>2. options_end = Len(original) /\ Len(original) \in Nat
    BY <1>1, HeaderEnds
  <1>3. ~(at \in Nat /\ at >= Len(original))
    BY <1>2
  <1> QED
    BY <1>1, <1>3 DEF OnTheWay

\* What StandsAt(k + 1) asks for.
LEMMA OneMore ==
    ASSUME NEW k \in Nat, Passed(k), WellFormed(options[k + 1]), ~IsMss(options[k + 1])
    PROVE  Passed(k + 1)
  <1>1. \A j \in 1 .. (k + 1) : j \in 1 .. k \/ j = k + 1
    OBVIOUS
  <1> QED
    BY <1>1 DEF Passed

\* Before the end of the options there is an option, or the padding's zeros.
LEMMA OptionThere ==
    ASSUME ClampInv, clamp_result = "loop", at < options_end, kind # 0
    PROVE  \E k \in 0 .. Len(options) : StandsAt(k) /\ k < Len(options)
  <1>1. PICK k \in 0 .. Len(options) : StandsAt(k)
    BY InOptionsStands
  <1>2. k # Len(options)
    BY <1>1, AtOption
  <1>3. Len(options) \in Nat
    BY OptionFacts DEF ClampInv
  <1> QED
    BY <1>1, <1>2, <1>3

\* What is known of the option o at which the loop stands.
Reads(k, o) ==
    /\ o = options[k + 1] /\ o \in Seq(Bytes) /\ Len(o) \in Nat
    /\ at \in Nat /\ at >= 20 /\ options_end = Len(tcp) /\ tcp = original
    /\ at + Len(o) <= options_end
    /\ (Len(o) > 0 => kind = o[1]) /\ (Len(o) > 1 => length = o[2])
    /\ at + Len(o) = 20 + Len(Joined(options, k + 1))
    /\ \/ WellFormed(o)
       \/ EndsList(o) /\ MssOptions = {}
       \/ CutOff(o) /\ MssOptions = {} /\ at + Len(o) = options_end

LEMMA OptionRead ==
    ASSUME ClampInv, clamp_result = "loop", at < options_end, kind # 0
    PROVE  \E k \in 0 .. Len(options), o \in Seq(Bytes) :
              k < Len(options) /\ StandsAt(k) /\ Reads(k, o)
  <1>1. PICK k \in 0 .. Len(options) : StandsAt(k) /\ k < Len(options)
    BY OptionThere
  <1> DEFINE o == options[k + 1]
  <1>2. /\ at \in Nat /\ at >= 20 /\ options_end = Len(tcp) /\ tcp = original
        /\ o \in Seq(Bytes) /\ Len(o) \in Nat
        /\ at + Len(o) <= options_end
        /\ (Len(o) > 0 => kind = o[1]) /\ (Len(o) > 1 => length = o[2])
        /\ at + Len(o) = 20 + Len(Joined(options, k + 1))
        /\ \/ WellFormed(o)
           \/ EndsList(o) /\ MssOptions = {}
           \/ CutOff(o) /\ MssOptions = {} /\ at + Len(o) = options_end
    BY <1>1, AtOption
  <1>3. Reads(k, o) /\ o \in Seq(Bytes)
    BY <1>2 DEF Reads
  <1> HIDE DEF o
  <1> QED
    BY <1>1, <1>3

LEMMA NopInv == ClampInv /\ OptionNop => ClampInv'
  <1> SUFFICES ASSUME ClampInv, OptionNop
               PROVE  ClampInv'
    OBVIOUS
  <1>1. /\ clamp_result = "loop" /\ at < options_end /\ kind = 1 /\ at' = at + 1
        /\ PacketStays /\ tcp' = tcp /\ clamp_result' = clamp_result
    BY DEF OptionNop, InOptions, GoOn, PacketStays
  <1>2. kind # 0
    BY <1>1
  <1>3. PICK k \in 0 .. Len(options), o \in Seq(Bytes) :
            k < Len(options) /\ StandsAt(k) /\ Reads(k, o)
    BY <1>1, <1>2, OptionRead
  <1>4. o = <<1>>
    <2>1. Len(o) > 0 => o[1] = 1
      BY <1>1, <1>3 DEF Reads
    <2>2. Len(o) \in Nat
      BY <1>3 DEF Reads
    <2>3. WellFormed(o) \/ EndsList(o) \/ CutOff(o)
      BY <1>3 DEF Reads
    <2>4. Len(o) >= 2 => Len(o) > 0
      BY <2>2
    <2> QED
      BY <2>1, <2>3, <2>4 DEF WellFormed, EndsList, CutOff
  <1>5. WellFormed(o) /\ ~IsMss(o) /\ Len(o) = 1
    <2>1. Len(<<1>>) = 1
      OBVIOUS
    <2> QED
      BY <1>4, <2>1 DEF WellFormed, IsMss
  <1>6. Passed(k + 1) /\ at' = 20 + Len(Joined(options, k + 1))
    <2>1. k \in Nat /\ Passed(k) /\ o = options[k + 1]
      BY <1>3 DEF StandsAt, Reads
    <2>2. Passed(k + 1)
      BY <1>5, <2>1, OneMore
    <2> QED
      BY <1>1, <1>3, <1>5, <2>2 DEF Reads
  <1>7. k + 1 \in 0 .. Len(options)
    BY <1>3, OptionFacts DEF ClampInv
  <1> QED
    BY <1>1, <1>6, <1>7, StepInv

LEMMA EndInv == ClampInv /\ OptionsEnd => ClampInv'
  <1> SUFFICES ASSUME ClampInv, OptionsEnd
               PROVE  ClampInv'
    OBVIOUS
  <1>1. clamp_result = "loop" /\ Finish("MssMissing")
    BY DEF OptionsEnd
  <1>2. PacketTyped /\ tcp = original /\ OnTheWay
    BY <1>1 DEF ClampInv
  <1>3. CASE at >= options_end \/ kind = 0
    <2>3. MssOptions = {}
      <3>1. CASE \E k \in 0 .. Len(options) : StandsAt(k)
        <4>1. PICK k \in 0 .. Len(options) : StandsAt(k)
          BY <3>1
        <4>2. CASE k = Len(options)
          BY <1>1, <4>1, <4>2, AtOption
        <4>3. CASE k # Len(options)
          <5> DEFINE o == options[k + 1]
          <5>1. k < Len(options)
            BY <1>2, <4>1, <4>3, OptionFacts
          <5>2. /\ at \in Nat /\ o \in Seq(Bytes) /\ Len(o) \in Nat
                /\ at + Len(o) <= options_end /\ (Len(o) > 0 => kind = o[1])
                /\ \/ WellFormed(o)
                   \/ EndsList(o) /\ MssOptions = {}
                   \/ CutOff(o) /\ MssOptions = {} /\ at + Len(o) = options_end
            BY <1>1, <4>1, <5>1, AtOption
          <5>3. options_end \in Nat
            BY <1>2, HeaderEnds
          <5> HIDE DEF o
          <5>4. ~WellFormed(o)
            <6>1. WellFormed(o) => Len(o) > 0 /\ o[1] # 0
              <7>1. Len(<<1>>) = 1 /\ <<1>>[1] = 1
                OBVIOUS
              <7>2. o[1] > 1 => o[1] # 0
                OBVIOUS
              <7>3. Len(o) >= 2 => Len(o) > 0
                BY <5>2
              <7> QED
                BY <7>1, <7>2, <7>3 DEF WellFormed
            <6>2. Len(o) > 0 => ~(at >= options_end)
              BY <5>2, <5>3
            <6> QED
              BY <1>3, <5>2, <6>1, <6>2
          <5> QED
            BY <5>2, <5>4
        <4> QED
          BY <4>2, <4>3
      <3>2. CASE ~(\E k \in 0 .. Len(options) : StandsAt(k))
        BY <1>2, <3>2 DEF OnTheWay
      <3> QED
        BY <3>1, <3>2
    <2> QED
      BY <1>1, <2>3, MissingInv
  <1>4. CASE /\ at < options_end /\ kind \notin {0, 1}
             /\ at + 1 >= options_end \/ length < 2
                \/ (kind = 2 /\ length = 4 /\ at + 4 > options_end)
    <2>1. PICK k \in 0 .. Len(options), o \in Seq(Bytes) :
            k < Len(options) /\ StandsAt(k) /\ Reads(k, o)
      BY <1>1, <1>4, OptionRead
    <2>2. options_end \in Nat /\ at \in Nat /\ Len(o) \in Nat /\ at + Len(o) <= options_end
      BY <1>2, <2>1, HeaderEnds DEF Reads
    <2>3. ~WellFormed(o)
      <3> SUFFICES ASSUME WellFormed(o)
                   PROVE  FALSE
        OBVIOUS
      <3>1. o # <<1>>
        <4>1. Len(<<1>>) = 1 /\ <<1>>[1] = 1
          OBVIOUS
        <4>2. o = <<1>> => kind = 1
          BY <2>1, <4>1 DEF Reads
        <4> QED
          BY <1>4, <4>2
      <3>2. Len(o) >= 2 /\ o[2] = Len(o)
        BY <3>1 DEF WellFormed
      <3>3. length = Len(o)
        BY <2>1, <2>2, <3>2 DEF Reads
      <3> DEFINE n == Len(o)
      <3>4. /\ n \in Nat /\ n >= 2 /\ at + n <= options_end
            /\ at + 1 >= options_end \/ n < 2 \/ (n = 4 /\ at + 4 > options_end)
        BY <1>4, <2>2, <3>2, <3>3
      <3> HIDE DEF n
      <3> QED
        BY <2>2, <3>4
    <2>4. MssOptions = {}
      BY <2>1, <2>3 DEF Reads
    <2> QED
      BY <1>1, <2>4, MissingInv
  <1> QED
    BY <1>3, <1>4 DEF OptionsEnd

LEMMA OtherInv == ClampInv /\ OptionOther => ClampInv'
  <1> SUFFICES ASSUME ClampInv, OptionOther
               PROVE  ClampInv'
    OBVIOUS
  <1>1. /\ clamp_result = "loop" /\ at < options_end /\ kind \notin {0, 1} /\ at' = at + length
        /\ at + 1 < options_end /\ length >= 2 /\ ~(kind = 2 /\ length = 4)
        /\ PacketStays /\ tcp' = tcp /\ clamp_result' = clamp_result
    BY DEF OptionOther, Whole, InOptions, GoOn, PacketStays
  <1>2. PICK k \in 0 .. Len(options), o \in Seq(Bytes) :
            k < Len(options) /\ StandsAt(k) /\ Reads(k, o)
    BY <1>1, OptionRead
  <1>3. PacketTyped /\ tcp = original
    BY <1>1 DEF ClampInv
  <1>4. /\ options_end \in Nat /\ options_end = Len(original)
        /\ at \in Nat /\ Len(o) \in Nat /\ at + Len(o) <= options_end
    BY <1>2, <1>3, HeaderEnds DEF Reads
  <1>5. CASE WellFormed(o)
    <2>1. o # <<1>>
      <3>1. Len(<<1>>) = 1 /\ <<1>>[1] = 1
        OBVIOUS
      <3>2. o = <<1>> => kind = 1
        BY <1>2, <3>1 DEF Reads
      <3> QED
        BY <1>1, <3>2
    <2>2. Len(o) >= 2 /\ o[2] = Len(o)
      BY <1>5, <2>1 DEF WellFormed
    <2>3. length = Len(o) /\ kind = o[1]
      <3>1. Len(o) > 0 /\ Len(o) > 1
        BY <1>4, <2>2
      <3> QED
        BY <1>2, <2>2, <3>1 DEF Reads
    <2>4. ~IsMss(o)
      BY <1>1, <2>3 DEF IsMss
    <2>5. k \in Nat /\ Passed(k) /\ o = options[k + 1]
      BY <1>2 DEF StandsAt, Reads
    <2>6. Passed(k + 1)
      BY <1>5, <2>4, <2>5, OneMore
    <2>7. at' = 20 + Len(Joined(options, k + 1))
      BY <1>1, <1>2, <2>3 DEF Reads
    <2>8. k + 1 \in 0 .. Len(options)
      BY <1>2, <1>3, OptionFacts
    <2> QED
      BY <1>1, <2>6, <2>7, <2>8, StepInv
  <1>6. CASE ~WellFormed(o)
    <2>1. EndsList(o) \/ (CutOff(o) /\ at + Len(o) = options_end)
      BY <1>2, <1>6 DEF Reads
    <2>2. MssOptions = {}
      BY <1>2, <1>6 DEF Reads
    <2>3. ~EndsList(o)
      <3> SUFFICES ASSUME EndsList(o)
                   PROVE  FALSE
        OBVIOUS
      <3>1. Len(o) > 0 /\ kind = o[1]
        BY <1>2 DEF EndsList, Reads
      <3>2. Len(o) >= 2 /\ o[2] < 2
        BY <1>1, <3>1 DEF EndsList
      <3>3. length = o[2]
        BY <1>2, <1>4, <3>2 DEF Reads
      <3>4. o[2] \in Bytes
        <4>1. o \in Seq(Bytes) /\ 2 \in 1 .. Len(o)
          BY <1>2, <1>4, <3>2 DEF Reads
        <4> QED
          BY <4>1
      <3> DEFINE b == o[2]
      <3>5. b < 2 /\ b >= 2 /\ b \in Bytes
        BY <1>1, <3>2, <3>3, <3>4
      <3> HIDE DEF b
      <3> QED
        BY <3>5 DEF Bytes
    <2>4. CutOff(o) /\ at + Len(o) = options_end
      BY <2>1, <2>3
    <2>5. Len(o) >= 2 /\ o[2] > Len(o)
      <3> DEFINE n == Len(o)
      <3>1. n \in Nat /\ at + n = options_end /\ at + 1 < options_end
        BY <1>1, <1>4, <2>4
      <3>2. n > 0 /\ (n = 1 \/ o[2] > n)
        BY <2>4 DEF CutOff
      <3> HIDE DEF n
      <3>3. n # 1
        BY <1>4, <3>1
      <3>4. n >= 2
        BY <3>1, <3>2, <3>3
      <3> QED
        BY <3>2, <3>3, <3>4 DEF n
    <2>6. length = o[2] /\ o[2] \in Bytes
      <3>1. o \in Seq(Bytes) /\ 2 \in 1 .. Len(o) /\ Len(o) > 1
        BY <1>2, <1>4, <2>5 DEF Reads
      <3>2. length = o[2]
        BY <1>2, <3>1 DEF Reads
      <3> QED
        BY <3>1, <3>2
    <2>7. at' \in Nat /\ at' >= Len(original)
      <3> DEFINE n == Len(o)
                 b == o[2]
                 e == Len(original)
      <3>1. b \in Bytes /\ n \in Nat /\ b > n /\ at + n = e /\ e \in Nat /\ at \in Nat /\ at' = at + b
        BY <1>1, <1>4, <2>4, <2>5, <2>6
      <3> HIDE DEF n, b, e
      <3>2. at + b \in Nat /\ at + b >= e
        BY <3>1 DEF Bytes
      <3> QED
        BY <3>1, <3>2 DEF e
    <2> QED
      BY <1>1, <2>2, <2>7, StepInv
  <1> QED
    BY <1>5, <1>6

\* The option at which OptionMss ends the loop is the only one in MssOptions.
LEMMA MssFound ==
    ASSUME ClampInv, Whole, kind = 2, length = 4, at + 4 <= options_end
    PROVE  /\ MssOptions # {} /\ ValueAt(CHOOSE i \in MssOptions : TRUE) = at + 2
           /\ at \in Nat /\ at >= 20
  <1>1. clamp_result = "loop" /\ at < options_end /\ at + 1 < options_end /\ kind # 0
    BY DEF Whole, InOptions
  <1>2. PICK k \in 0 .. Len(options), o \in Seq(Bytes) :
            k < Len(options) /\ StandsAt(k) /\ Reads(k, o)
    BY <1>1, OptionRead
  <1>3. PacketTyped /\ tcp = original
    BY <1>1 DEF ClampInv
  <1> DEFINE n == Len(o)
             N == Len(options)
             m == k + 1
  <1>4. options_end \in Nat /\ at \in Nat /\ at >= 20 /\ n \in Nat /\ at + n <= options_end
    BY <1>2, <1>3, HeaderEnds DEF Reads
  <1>5. options \in Seq(Seq(Bytes)) /\ N \in Nat /\ DOMAIN options = 1 .. N
    <2>1. options \in Seq(Seq(Bytes))
      BY <1>3, OptionFacts
    <2> QED
      BY <2>1
  <1>6. (n > 0 => o[1] = 2) /\ (n > 1 => o[2] = 4)
    BY <1>2 DEF Reads
  <1>7. WellFormed(o)
    <2>1. ~EndsList(o)
      <3>1. EndsList(o) => n > 0 /\ (o[1] = 0 \/ (n >= 2 /\ o[2] < 2))
        BY DEF EndsList
      <3> HIDE DEF n
      <3>2. n >= 2 => n > 1
        BY <1>4
      <3> QED
        BY <1>6, <3>1, <3>2
    <2>2. ~(CutOff(o) /\ at + Len(o) = options_end)
      <3>1. CutOff(o) => n > 0 /\ (n = 1 \/ o[2] > n)
        BY DEF CutOff
      <3>2. at + Len(o) = options_end => at + n = options_end
        OBVIOUS
      <3> HIDE DEF n
      <3>3. at + n = options_end => n # 1 /\ ~(4 > n)
        BY <1>1, <1>4
      <3>4. n > 0 /\ n # 1 => n > 1
        BY <1>4
      <3> QED
        BY <1>6, <3>1, <3>2, <3>3, <3>4
    <2> QED
      BY <1>2, <2>1, <2>2 DEF Reads
  <1>8. IsMss(o)
    <2>1. o # <<1>>
      <3>1. Len(<<1>>) = 1 /\ <<1>>[1] = 1 /\ 1 > 0
        OBVIOUS
      <3>2. o = <<1>> => n > 0 /\ o[1] = 1
        BY <3>1
      <3> QED
        BY <1>6, <3>2
    <2>2. n >= 2 /\ o[2] = n
      BY <1>7, <2>1 DEF WellFormed
    <2>3. n > 1 /\ n > 0
      <3> HIDE DEF n
      <3> QED
        BY <1>4, <2>2
    <2> QED
      BY <1>6, <1>7, <2>2, <2>3 DEF IsMss
  <1>9. m \in 1 .. N /\ k = m - 1 /\ options[m] = o
    <2>1. k < N /\ k \in 0 .. N
      BY <1>2
    <2>2. options[m] = o
      BY <1>2 DEF Reads
    <2> HIDE DEF N
    <2> QED
      BY <1>5, <2>1, <2>2
  <1>10. Passed(k) /\ at = 20 + Len(Joined(options, k))
    BY <1>2 DEF StandsAt
  <1> HIDE DEF N, m, n
  <1>11. m \in MssOptions
    BY <1>5, <1>8, <1>9, <1>10 DEF MssOptions, Passed
  <1>12. ASSUME NEW i \in MssOptions
         PROVE  i = m
    <2>1. /\ i \in 1 .. N /\ IsMss(options[i])
          /\ \A j \in 1 .. (i - 1) : WellFormed(options[j]) /\ ~IsMss(options[j])
      BY <1>5 DEF MssOptions
    <2>2. ~(i < m)
      <3>1. i < m => i \in 1 .. k
        BY <1>5, <1>9, <2>1
      <3> QED
        BY <1>10, <2>1, <3>1 DEF Passed
    <2>3. ~(m < i)
      <3>1. m < i => m \in 1 .. (i - 1)
        BY <1>5, <1>9, <2>1
      <3> QED
        BY <1>8, <1>9, <2>1, <3>1
    <2> QED
      BY <1>5, <1>9, <2>1, <2>2, <2>3
  <1>13. (CHOOSE i \in MssOptions : TRUE) = m
    BY <1>11, <1>12
  <1>14. ValueAt(m) = at + 2
    <2>1. ValueAt(m) = 20 + Len(Joined(options, k)) + 2
      BY <1>9 DEF ValueAt, Joined
    <2> QED
      BY <1>10, <2>1
  <1> QED
    BY <1>4, <1>11, <1>13, <1>14

LEMMA MssInv == ClampInv /\ OptionMss => ClampInv'
  <1> SUFFICES ASSUME ClampInv, OptionMss
               PROVE  ClampInv'
    OBVIOUS
  <1> DEFINE v == at + 2
             max == tcp_mss_clamp
             mss == Word(original, v)
             new == IF mss > max THEN max ELSE mss
  <1>1. Whole /\ kind = 2 /\ length = 4 /\ at + 4 <= options_end /\ clamp_result = "loop"
    BY DEF OptionMss, Whole, InOptions
  <1>2. PacketTyped /\ tcp = original /\ Clampable
    BY <1>1 DEF ClampInv
  <1>3. /\ MssOptions # {} /\ ValueAt(CHOOSE i \in MssOptions : TRUE) = v
        /\ at \in Nat /\ at >= 20
    BY <1>1, MssFound
  <1>4. /\ options_end = Len(original) /\ Len(original) \in Nat
        /\ original \in Seq(Bytes) /\ Word(original, 0) > 0 /\ Sum16(original) = 65535
    BY <1>2, HeaderEnds
  <1>5. v \in Nat /\ v >= 18 /\ v + 2 <= Len(original) /\ 16 + 2 <= Len(original)
    BY <1>1, <1>3, <1>4
  <1>6. mss \in Words
    BY <1>4, <1>5, WordFacts
  <1>7. max \in Words
    <2>1. network_mtu \in Int /\ 1280 <= network_mtu /\ network_mtu <= 65535
      BY <1>2 DEF PacketTyped
    <2> QED
      BY <2>1, SMT DEF Words, tcp_mss_clamp, GRE_OVERHEAD
  <1>8. /\ PacketStays /\ clamp_result' \in {"Noop", "Clamped"}
        /\ ~(mss <= max) => tcp' = incremental_checksum_update(Put(original, v, max), mss, max)
        /\ mss <= max => tcp' = original
    BY <1>2 DEF OptionMss, Finish, PacketStays
  <1>9. /\ PacketTyped' /\ MssOptions' = MssOptions /\ Clampable' = Clampable
        /\ original' = original /\ options' = options
    BY <1>2, <1>8, PacketFacts
  <1>10. tcp_mss_clamp' = max
    BY <1>8 DEF PacketStays, tcp_mss_clamp, GRE_OVERHEAD
  <1> HIDE DEF max
  <1>11. mss \in Int /\ max \in Int
    BY <1>6, <1>7, SMT DEF Words
  <1> HIDE DEF v, mss
  <1>12. /\ tcp' = Put(Put(original, v, new), 16, Word(tcp', 16))
         /\ (v % 2 = 0 => Sum16(tcp') = 65535)
    <2>1. CASE mss <= max
      <3>1. tcp' = original /\ new = mss
        BY <1>8, <1>11, <2>1
      <3> HIDE DEF new
      <3>2. Put(original, v, mss) = original /\ Put(original, 16, Word(original, 16)) = original
        BY <1>4, <1>5, PutSame DEF mss
      <3> QED
        BY <1>4, <3>1, <3>2
    <2>2. CASE ~(mss <= max)
      <3>1. new = max /\ tcp' = incremental_checksum_update(Put(original, v, max), mss, max)
        BY <1>8, <1>11, <2>2
      <3> HIDE DEF new
      <3>2. /\ tcp' = Put(Put(original, v, max), 16, Word(tcp', 16))
            /\ (v % 2 = 0 => Sum16(tcp') = 65535)
        BY <1>4, <1>5, <1>7, <3>1, ClampedSum DEF mss
      <3> QED
        BY <3>1, <3>2
    <2> QED
      BY <2>1, <2>2
  <1>13. PICK i : i = CHOOSE j \in MssOptions : TRUE
    OBVIOUS
  <1>14. (CHOOSE j \in MssOptions' : TRUE) = i /\ ValueAt(i) = v
    BY <1>3, <1>9, <1>13
  <1>15. PICK w : w = v
    OBVIOUS
  <1>16. PICK d : d = tcp'
    OBVIOUS
  <1>17. PICK new1 : new1 = new
    OBVIOUS
  <1>18. PICK s : s = original
    OBVIOUS
  <1>19. 20 + Len(FlattenSeq(SubSeq(options', 1, i - 1))) + 2 = w
    BY <1>9, <1>14, <1>15 DEF ValueAt
  <1>20. new1 = IF Word(s, w) > max THEN max ELSE Word(s, w)
    BY <1>15, <1>17, <1>18 DEF new, mss
  <1>21. /\ d = Put(Put(s, w, new1), 16, Word(d, 16))
         /\ (w % 2 = 0 => ChecksumValid(d))
    BY <1>12, <1>15, <1>16, <1>17, <1>18 DEF ChecksumValid
  <1>22. SynFitsTunnel'
    <2>1. /\ Clampable' /\ MssOptions' # {} /\ original' = s /\ tcp' = d
      BY <1>2, <1>3, <1>9, <1>16, <1>18
    <2> QED
      BY <1>10, <1>14, <1>19, <1>20, <1>21, <2>1 DEF SynFitsTunnel, ValueAt
  <1> QED
    BY <1>8, <1>9, <1>22 DEF ClampInv

LEMMA ClampNextInv == ClampInv /\ [ClampNext]_clampVars => ClampInv'
  <1> SUFFICES ASSUME ClampInv, [ClampNext]_clampVars
               PROVE  ClampInv'
    OBVIOUS
  <1>1. CASE ClampBegins
    BY <1>1, BeginsInv
  <1>2. CASE OptionNop
    BY <1>2, NopInv
  <1>3. CASE OptionsEnd
    BY <1>3, EndInv
  <1>4. CASE OptionOther
    BY <1>4, OtherInv
  <1>5. CASE OptionMss
    BY <1>5, MssInv
  <1>6. CASE UNCHANGED clampVars
    BY <1>6 DEF clampVars, ClampInv, PacketTyped, OnTheWay, StandsAt, Passed, SynFitsTunnel,
                MssOptions, Clampable, ValueAt, tcp_mss_clamp, GRE_OVERHEAD
  <1> QED
    BY <1>1, <1>2, <1>3, <1>4, <1>5, <1>6 DEF ClampNext

(***************************************************************************)
(* SynFitsTunnel of MssClamp (clamp_mss, mss_clamp.rs): when it returns, a *)
(* SYN's MSS is the sender's or the largest that fits the tunnel, whichever*)
(* is smaller, nothing else but the checksum has changed, and the checksum *)
(* is right when the value is one of the header's 16-bit words; every      *)
(* other packet is as it was.  For every list of options that fits the     *)
(* header and every MTU.                                                   *)
(***************************************************************************)
THEOREM ClampFitsTunnel == ClampSpec => []SynFitsTunnel
  <1>1. ClampInit => ClampInv
    BY ClampInitInv
  <1>2. ClampInv /\ [ClampNext]_clampVars => ClampInv'
    BY ClampNextInv
  <1>3. ClampInv => SynFitsTunnel
    BY DEF ClampInv
  <1> QED
    BY <1>1, <1>2, <1>3, PTL DEF ClampSpec

-----------------------------------------------------------------------------
(***************************************************************************)
(* BgpWire: what the encoders write.                                       *)
(***************************************************************************)
LEMMA u16Facts ==
    ASSUME NEW n \in Words
    PROVE  /\ u16(n) \in Seq(Bytes) /\ Len(u16(n)) = 2
           /\ u16(n)[1] * 256 + u16(n)[2] = n
  <1> DEFINE a == n \div 256
             b == n % 256
  <1>1. a \in Bytes /\ b \in Bytes /\ a * 256 + b = n
    <2>1. n \in Int /\ 0 <= n /\ n <= 65535
      BY SMT DEF Words
    <2> QED
      BY <2>1, SMT DEF Bytes
  <1> HIDE DEF a, b
  <1>2. u16(n) = <<a, b>>
    BY DEF u16, a, b
  <1>3. <<a, b>> \in Seq(Bytes) /\ Len(<<a, b>>) = 2 /\ <<a, b>>[1] = a /\ <<a, b>>[2] = b
    BY <1>1
  <1> QED
    BY <1>1, <1>2, <1>3

LEMMA MarkerFacts ==
    MARKER \in Seq(Bytes) /\ Len(MARKER) = 16 /\ \A i \in 1 .. 16 : MARKER[i] = 255
  <1>1. 255 \in Bytes
    BY SMT DEF Bytes
  <1> QED
    BY <1>1 DEF MARKER

LEMMA SameSeq ==
    ASSUME NEW B, NEW a \in Seq(B), NEW b \in Seq(B), Len(a) = Len(b),
           \A n \in 1 .. Len(a) : a[n] = b[n]
    PROVE  a = b
  OBVIOUS

LEMMA OneByte ==
    ASSUME NEW b \in Bytes
    PROVE  <<b>> \in Seq(Bytes) /\ Len(<<b>>) = 1 /\ <<b>>[1] = b
  OBVIOUS

\* A message m of type type whose body has k bytes.
IsFramed(m, type, body, k) ==
    /\ m \in Seq(Bytes) /\ Len(m) = 19 + k /\ m[19] = type
    /\ SubSeq(m, 1, 16) = MARKER /\ be16(m, 17) = 19 + k
    /\ \A n \in 1 .. k : m[19 + n] = body[n]

\* The first n bytes of a.
HoldsFirst(x, a, n) == x \in Seq(Bytes) /\ Len(x) = n /\ \A j \in 1 .. n : x[j] = a[j]

LEMMA PrefixFacts ==
    ASSUME NEW a \in Seq(Bytes), NEW n \in Nat, n <= Len(a)
    PROVE  HoldsFirst(SubSeq(a, 1, n), a, n)
  BY DEF HoldsFirst

\* A body that leaves the message within 4096 bytes.
BodyLength(k) == k \in Nat /\ k <= 4077

LEMMA FramedFacts ==
    ASSUME NEW type \in Bytes, NEW body \in Seq(Bytes), NEW k, k = Len(body), BodyLength(k)
    PROVE  IsFramed(Framed(type, body), type, body, k)
  <1> DEFINE u == u16(19 + Len(body))
             c1 == MARKER \o u
             c2 == c1 \o <<type>>
             m == c2 \o body
  <1>1. k \in Nat /\ 19 + k \in Words
    <2>1. k \in Nat
      OBVIOUS
    <2> QED
      BY <2>1, SMT DEF Words, BodyLength
  <1>2. u \in Seq(Bytes) /\ Len(u) = 2 /\ u[1] * 256 + u[2] = 19 + k
    BY <1>1, u16Facts
  <1>3. Framed(type, body) = m
    BY DEF Framed
  <1>4. Concat(c1, MARKER, 16, u, 2)
    <2> HIDE DEF u
    <2>1. MARKER \in Seq(Bytes) /\ 16 = Len(MARKER)
      BY MarkerFacts
    <2>2. u \in Seq(Bytes) /\ 2 = Len(u)
      BY <1>2
    <2> QED
      BY <2>1, <2>2, ConcatFacts
  <1> HIDE DEF u, c1
  <1>5. /\ c1 \in Seq(Bytes) /\ Len(c1) = 18
        /\ \A n \in 1 .. 16 : c1[n] = MARKER[n]
        /\ c1[17] = u[1] /\ c1[18] = u[2]
    <2>1. 16 + 2 = 18 /\ 16 + 1 = 17 /\ 1 \in 1 .. 2 /\ 2 \in 1 .. 2
      OBVIOUS
    <2>2. /\ c1 \in Seq(Bytes) /\ Len(c1) = 16 + 2
          /\ \A n \in 1 .. 16 : c1[n] = MARKER[n]
          /\ \A n \in 1 .. 2 : c1[16 + n] = u[n]
      BY <1>4 DEF Concat
    <2>3. c1[16 + 1] = u[1] /\ c1[16 + 2] = u[2]
      BY <2>1, <2>2
    <2> QED
      BY <2>1, <2>2, <2>3
  <1>6. Concat(c2, c1, 18, <<type>>, 1)
    <2> DEFINE t == <<type>>
    <2>1. t \in Seq(Bytes) /\ 1 = Len(t)
      BY OneByte
    <2>2. c1 \in Seq(Bytes) /\ 18 = Len(c1)
      BY <1>5
    <2> HIDE DEF t
    <2>3. Concat(c1 \o t, c1, 18, t, 1)
      BY <2>1, <2>2, ConcatFacts
    <2> QED
      BY <2>3 DEF t
  <1> HIDE DEF c2
  <1>7. /\ c2 \in Seq(Bytes) /\ Len(c2) = 19
        /\ \A n \in 1 .. 18 : c2[n] = c1[n]
        /\ c2[19] = type
    <2>1. 18 + 1 = 19 /\ 1 \in 1 .. 1
      OBVIOUS
    <2>2. /\ c2 \in Seq(Bytes) /\ Len(c2) = 18 + 1
          /\ \A n \in 1 .. 18 : c2[n] = c1[n]
          /\ \A n \in 1 .. 1 : c2[18 + n] = <<type>>[n]
      BY <1>6 DEF Concat
    <2>3. c2[18 + 1] = <<type>>[1] /\ <<type>>[1] = type
      BY <2>1, <2>2, OneByte
    <2> QED
      BY <2>1, <2>2, <2>3
  <1>8. Concat(m, c2, 19, body, k)
    <2>1. c2 \in Seq(Bytes) /\ 19 = Len(c2)
      BY <1>7
    <2> QED
      BY <2>1, ConcatFacts
  <1> HIDE DEF m
  <1>9. /\ m \in Seq(Bytes) /\ Len(m) = 19 + k
        /\ \A n \in 1 .. 19 : m[n] = c2[n]
        /\ \A n \in 1 .. k : m[19 + n] = body[n]
    BY <1>8 DEF Concat
  <1>10. /\ \A n \in 1 .. 16 : m[n] = MARKER[n]
         /\ m[17] = u[1] /\ m[18] = u[2] /\ m[19] = type
    <2>1. \A n \in 1 .. 16 : m[n] = MARKER[n]
      <3> TAKE n \in 1 .. 16
      <3>1. n \in 1 .. 18 /\ n \in 1 .. 19
        OBVIOUS
      <3>2. m[n] = c2[n] /\ c2[n] = c1[n] /\ c1[n] = MARKER[n]
        BY <1>5, <1>7, <1>9, <3>1
      <3> QED
        BY <3>2
    <2>2. /\ 17 \in 1 .. 18 /\ 18 \in 1 .. 18
          /\ 17 \in 1 .. 19 /\ 18 \in 1 .. 19 /\ 19 \in 1 .. 19
      OBVIOUS
    <2>3. m[17] = c2[17] /\ m[18] = c2[18] /\ m[19] = c2[19]
      BY <1>9, <2>2
    <2>4. c2[17] = c1[17] /\ c2[18] = c1[18] /\ c2[19] = type
      BY <1>7, <2>2
    <2>5. c1[17] = u[1] /\ c1[18] = u[2]
      BY <1>5
    <2> QED
      BY <2>1, <2>3, <2>4, <2>5
  <1>11. SubSeq(m, 1, 16) = MARKER
    <2>1. /\ SubSeq(m, 1, 16) \in Seq(Bytes) /\ Len(SubSeq(m, 1, 16)) = 16
          /\ \A n \in 1 .. 16 : SubSeq(m, 1, 16)[n] = m[n]
      <3> DEFINE L == 16
      <3>1. L \in Nat /\ L <= Len(m) /\ m \in Seq(Bytes)
        BY <1>1, <1>9
      <3> HIDE DEF L
      <3>2. HoldsFirst(SubSeq(m, 1, L), m, L)
        BY <3>1, PrefixFacts
      <3> QED
        BY <3>2 DEF HoldsFirst, L
    <2> DEFINE s == SubSeq(m, 1, 16)
    <2>2. s \in Seq(Bytes) /\ Len(s) = 16 /\ \A n \in 1 .. 16 : s[n] = MARKER[n]
      BY <1>10, <2>1
    <2> HIDE DEF s
    <2>3. MARKER \in Seq(Bytes) /\ Len(s) = Len(MARKER) /\ \A n \in 1 .. Len(s) : s[n] = MARKER[n]
      BY <2>2, MarkerFacts
    <2>4. s = MARKER
      BY <2>2, <2>3, SameSeq
    <2> QED
      BY <2>4 DEF s
  <1>12. be16(m, 17) = 19 + k
    <2>1. 17 + 1 = 18
      OBVIOUS
    <2> QED
      BY <1>2, <1>10, <2>1 DEF be16
  <1> QED
    BY <1>3, <1>9, <1>10, <1>11, <1>12 DEF IsFramed

\* Such a message is taken whole.
LEMMA FramedIsTaken ==
    ASSUME NEW m, NEW type, NEW body, NEW k, BodyLength(k), IsFramed(m, type, body, k)
    PROVE  take_message(m) = [msg |-> m, rest |-> <<>>]
  <1>1. /\ m \in Seq(Bytes) /\ Len(m) = 19 + k
        /\ SubSeq(m, 1, 16) = MARKER /\ be16(m, 17) = 19 + k
    BY DEF IsFramed
  <1> DEFINE L == 19 + k
  <1>2. L \in MessageLengths /\ ~(L < 19) /\ ~(L < L) /\ L \in Nat
    BY SMT DEF BodyLength, MessageLengths
  <1>3. SubSeq(m, 1, L) = m /\ SubSeq(m, L + 1, L) = <<>>
    BY <1>1
  <1> HIDE DEF L
  <1>4. Len(m) = L /\ be16(m, 17) = L
    BY <1>1 DEF L
  <1>5. IsHeader(m) /\ ~(Len(m) < 19) /\ ~(Len(m) < be16(m, 17))
    BY <1>1, <1>2, <1>4 DEF IsHeader
  <1>6. SubSeq(m, 1, be16(m, 17)) = m /\ SubSeq(m, be16(m, 17) + 1, Len(m)) = <<>>
    BY <1>3, <1>4
  <1>7. take_message(m) = [msg  |-> SubSeq(m, 1, be16(m, 17)),
                           rest |-> SubSeq(m, be16(m, 17) + 1, Len(m))]
    BY <1>5, Zenon DEF take_message
  <1> DEFINE x == SubSeq(m, 1, be16(m, 17))
             y == SubSeq(m, be16(m, 17) + 1, Len(m))
  <1>8. x = m /\ y = <<>> /\ take_message(m) = [msg |-> x, rest |-> y]
    BY <1>6, <1>7, Zenon
  <1> HIDE DEF x, y
  <1>9. [msg |-> x, rest |-> y] = [msg |-> m, rest |-> <<>>]
    BY <1>8, Zenon
  <1> QED
    BY <1>8, <1>9, Zenon

LEMMA U16AreWords == \A w \in U16 : w \in Words
  <1>1. \A w \in UpTo(65535) : w \in Int /\ 0 <= w /\ w <= 65535
    BY UpToFacts
  <1>2. UpTo(65535) = U16
    BY DEF UpTo, U16
  <1>3. \A w \in U16 : w \in Int /\ 0 <= w /\ w <= 65535
    BY <1>1, <1>2
  <1> QED
    BY <1>3 DEF Words

\* s is a string of n bytes.
HasLength(s, n) == s \in Seq(Bytes) /\ Len(s) = n
Adds(l, n, k)   == l = n + k

LEMMA JoinLength ==
    ASSUME NEW a, NEW u, NEW n, HasLength(a, n), NEW k, HasLength(u, k), NEW l, Adds(l, n, k)
    PROVE  HasLength(a \o u, l)
  <1>1. a \in Seq(Bytes) /\ u \in Seq(Bytes) /\ l = Len(a) + Len(u)
    BY DEF HasLength, Adds
  <1>2. a \o u \in Seq(Bytes) /\ Len(a \o u) = Len(a) + Len(u)
    BY <1>1
  <1> QED
    BY <1>1, <1>2 DEF HasLength

LEMMA BytesOfConstants ==
    /\ Asn \in Words /\ HoldTime \in Words
    /\ \A a \in WireVips \cup {RouterId} : a \in Seq(Bytes) /\ Len(a) = 4
    /\ \A b \in 0 .. 64 : b \in Bytes
  <1>1. Asn \in Words
    <2>1. Asn \in U16
      BY WireAssumption
    <2> QED
      BY <2>1, U16AreWords
  <1>2. HoldTime \in Words
    <2>1. HoldTime \in U16
      BY WireAssumption
    <2> QED
      BY <2>1, U16AreWords
  <1>3. ASSUME NEW a \in WireVips \cup {RouterId}
        PROVE  a \in Seq(Bytes) /\ Len(a) = 4
    <2>1. a \in [1 .. 4 -> Bytes]
      BY WireAssumption DEF Bytes
    <2> DEFINE s == [i \in 1 .. 4 |-> a[i]]
    <2>2. s \in Seq(Bytes) /\ Len(s) = 4
      <3>1. \A i \in 1 .. 4 : a[i] \in Bytes
        BY <2>1
      <3> QED
        BY <3>1
    <2>3. a = s
      BY <2>1
    <2> HIDE DEF s
    <2> QED
      BY <2>2, <2>3
  <1>4. \A b \in 0 .. 64 : b \in Bytes
    BY SMT DEF Bytes
  <1> QED
    BY <1>1, <1>2, <1>3, <1>4

\* A slice of the message is a slice of its body.
LiesAt(body, y, i, n) == HasLength(y, n) /\ \A j \in 1 .. n : body[i + j] = y[j]
SliceIs(m, from, to, y)  == SubSeq(m, from, to) = y
Slice(i, n, k, from, to) ==
    i \in Nat /\ n \in Nat /\ k \in Nat /\ i + n <= k /\ from = 20 + i /\ to = 19 + i + n

LEMMA BodySlice ==
    ASSUME NEW m, NEW type, NEW body, NEW k, IsFramed(m, type, body, k),
           NEW y, NEW n, NEW i, LiesAt(body, y, i, n),
           NEW from, NEW to, Slice(i, n, k, from, to)
    PROVE  SliceIs(m, from, to, y)
  <1>0. /\ y \in Seq(Bytes) /\ Len(y) = n /\ \A j \in 1 .. n : body[i + j] = y[j]
        /\ i \in Nat /\ n \in Nat /\ k \in Nat /\ i + n <= k /\ from = 20 + i /\ to = 19 + i + n
    BY DEF LiesAt, HasLength, Slice
  <1>1. /\ m \in Seq(Bytes) /\ Len(m) = 19 + k
        /\ \A j \in 1 .. k : m[19 + j] = body[j]
    BY DEF IsFramed
  <1> DEFINE s == SubSeq(m, from, to)
  <1>2. from \in 1 .. (Len(m) + 1) /\ to \in 0 .. Len(m) /\ (to - from) + 1 = n
    <2> DEFINE L == Len(m)
    <2>1. /\ L = 19 + k /\ i \in Nat /\ n \in Nat /\ k \in Nat /\ i + n <= k
          /\ from = 20 + i /\ to = 19 + i + n
      BY <1>0, <1>1
    <2> HIDE DEF L
    <2>2. from \in 1 .. (L + 1) /\ to \in 0 .. L /\ (to - from) + 1 = n
      BY <2>1
    <2> QED
      BY <2>2 DEF L
  <1>3. /\ s \in Seq(Bytes) /\ Len(s) = n
        /\ \A j \in 1 .. n : s[j] = m[from + j - 1]
    BY <1>0, <1>1, <1>2
  <1> HIDE DEF s
  <1>4. \A j \in 1 .. n : s[j] = y[j]
    <2> TAKE j \in 1 .. n
    <2>1. i + j \in 1 .. k /\ from + j - 1 = 19 + (i + j)
      BY <1>0
    <2>2. m[19 + (i + j)] = body[i + j]
      BY <1>1, <2>1
    <2> QED
      BY <1>0, <1>3, <2>1, <2>2
  <1>5. s = y
    BY <1>0, <1>3, <1>4, SameSeq
  <1> QED
    BY <1>5 DEF s, SliceIs

LEMMA OpenIsTaken ==
    take_message(encode_open(Asn, HoldTime, RouterId)) =
        [msg |-> encode_open(Asn, HoldTime, RouterId), rest |-> <<>>]
  <1> DEFINE a == <<4>>
             b == a \o u16(Asn)
             c == b \o u16(HoldTime)
             d == c \o RouterId
             e == d \o <<0>>
  <1>1. /\ Asn \in Words /\ HoldTime \in Words /\ HasLength(RouterId, 4)
        /\ 4 \in Bytes /\ 0 \in Bytes /\ 1 \in Bytes
    <2>1. 4 \in 0 .. 64 /\ 0 \in 0 .. 64 /\ 1 \in 0 .. 64
      OBVIOUS
    <2> QED
      BY <2>1, BytesOfConstants DEF HasLength
  <1>2. HasLength(a, 1)
    BY <1>1, OneByte DEF HasLength
  <1> HIDE DEF a
  <1>3. HasLength(b, 3)
    <2>1. HasLength(u16(Asn), 2)
      BY <1>1, u16Facts DEF HasLength
    <2>2. Adds(3, 1, 2)
      BY DEF Adds
    <2> QED
      BY <1>2, <2>1, <2>2, JoinLength
  <1> HIDE DEF b
  <1>4. HasLength(c, 5)
    <2>1. HasLength(u16(HoldTime), 2)
      BY <1>1, u16Facts DEF HasLength
    <2>2. Adds(5, 3, 2)
      BY DEF Adds
    <2> QED
      BY <1>3, <2>1, <2>2, JoinLength
  <1> HIDE DEF c
  <1>5. HasLength(d, 9)
    <2>1. Adds(9, 5, 4)
      BY DEF Adds
    <2> QED
      BY <1>1, <1>4, <2>1, JoinLength
  <1> HIDE DEF d
  <1>6. e \in Seq(Bytes) /\ Len(e) = 10
    <2>1. HasLength(<<0>>, 1)
      BY <1>1, OneByte DEF HasLength
    <2>2. Adds(10, 9, 1)
      BY DEF Adds
    <2>3. HasLength(e, 10)
      BY <1>5, <2>1, <2>2, JoinLength
    <2> QED
      BY <2>3 DEF HasLength
  <1>7. encode_open(Asn, HoldTime, RouterId) = Framed(1, e)
    BY DEF encode_open, a, b, c, d
  <1> HIDE DEF e
  <1>8. BodyLength(10)
    BY SMT DEF BodyLength
  <1>9. IsFramed(Framed(1, e), 1, e, 10)
    BY <1>1, <1>6, <1>8, FramedFacts
  <1>10. take_message(Framed(1, e)) = [msg |-> Framed(1, e), rest |-> <<>>]
    BY <1>8, <1>9, FramedIsTaken
  <1> QED
    BY <1>7, <1>10

LEMMA KeepaliveIsTaken ==
    take_message(encode_keepalive) = [msg |-> encode_keepalive, rest |-> <<>>]
  <1>1. <<>> \in Seq(Bytes) /\ Len(<<>>) = 0
    OBVIOUS
  <1>2. 4 \in Bytes /\ BodyLength(0)
    BY SMT DEF BodyLength, Bytes
  <1>3. IsFramed(Framed(4, <<>>), 4, <<>>, 0)
    BY <1>1, <1>2, FramedFacts
  <1>4. take_message(Framed(4, <<>>)) = [msg |-> Framed(4, <<>>), rest |-> <<>>]
    BY <1>2, <1>3, FramedIsTaken
  <1> QED
    BY <1>4 DEF encode_keepalive

LEMMA NotificationIsTaken ==
    take_message(encode_notification(4, 0)) = [msg |-> encode_notification(4, 0), rest |-> <<>>]
  <1> DEFINE body == <<4, 0>>
  <1>1. 3 \in Bytes /\ 4 \in Bytes /\ 0 \in Bytes /\ BodyLength(2)
    BY SMT DEF BodyLength, Bytes
  <1>2. body \in Seq(Bytes) /\ Len(body) = 2
    BY <1>1
  <1>3. encode_notification(4, 0) = Framed(3, body)
    BY DEF encode_notification
  <1> HIDE DEF body
  <1>4. IsFramed(Framed(3, body), 3, body, 2)
    BY <1>1, <1>2, FramedFacts
  <1>5. take_message(Framed(3, body)) = [msg |-> Framed(3, body), rest |-> <<>>]
    BY <1>1, <1>4, FramedIsTaken
  <1> QED
    BY <1>3, <1>5

\* A field of a message is a field of its body.
LEMMA FieldAt ==
    ASSUME NEW m, NEW type, NEW body, NEW k \in Nat, IsFramed(m, type, body, k),
           NEW i \in Nat, 1 <= i, i < k, NEW u, body[i] = u[1], body[i + 1] = u[2],
           NEW place, place = 19 + i
    PROVE  be16(m, place) = u[1] * 256 + u[2]
  <1>1. \A j \in 1 .. k : m[19 + j] = body[j]
    BY DEF IsFramed
  <1>2. i \in 1 .. k /\ i + 1 \in 1 .. k /\ place + 1 = 19 + (i + 1)
    OBVIOUS
  <1>3. m[place] = body[i]
    BY <1>1, <1>2
  <1>4. m[place + 1] = body[i + 1]
    BY <1>1, <1>2
  <1>5. m[place] = u[1] /\ m[place + 1] = u[2]
    BY <1>3, <1>4
  <1> QED
    BY <1>5 DEF be16

\* What an NLRI entry, a field and the attributes of an announcement weigh.
LEMMA NlriLength ==
    ASSUME NEW p \in WireVips
    PROVE  HasLength(Nlri(p), 5)
  <1>1. 32 \in 0 .. 64
    OBVIOUS
  <1>2. 32 \in Bytes /\ HasLength(p, 4)
    BY <1>1, BytesOfConstants DEF HasLength
  <1>3. HasLength(<<32>>, 1)
    BY <1>2, OneByte DEF HasLength
  <1>4. Adds(5, 1, 4)
    BY DEF Adds
  <1>5. HasLength(<<32>> \o p, 5)
    BY <1>2, <1>3, <1>4, JoinLength
  <1> QED
    BY <1>5 DEF Nlri

LEMMA FieldLength ==
    ASSUME NEW n \in 0 .. 255
    PROVE  HasLength(u16(n), 2) /\ u16(n)[1] * 256 + u16(n)[2] = n
  <1>1. n \in Words
    BY SMT DEF Words
  <1> QED
    BY <1>1, u16Facts DEF HasLength

LEMMA AttributesLength ==
    HasLength((ORIGIN \o AS_PATH) \o NEXT_HOP(RouterId), 18)
  <1>1. \A b \in {0, 1, 2, 3, 4, 64} : b \in Bytes
    <2> TAKE b \in {0, 1, 2, 3, 4, 64}
    <2>1. b \in 0 .. 64
      OBVIOUS
    <2> QED
      BY <2>1, BytesOfConstants
  <1>2. 0 \in Bytes /\ 1 \in Bytes /\ 2 \in Bytes /\ 3 \in Bytes /\ 4 \in Bytes /\ 64 \in Bytes
    BY <1>1
  <1>3. HasLength(ORIGIN, 4)
    <2> DEFINE s == <<64, 1, 1, 0>>
    <2>1. s \in Seq(Bytes) /\ Len(s) = 4
      BY <1>2
    <2> QED
      BY <2>1 DEF HasLength, ORIGIN
  <1>4. HasLength(AS_PATH, 7)
    <2> DEFINE s == <<64, 2, 4, 2, 1>>
    <2>1. s \in Seq(Bytes) /\ Len(s) = 5
      BY <1>2
    <2>2. HasLength(s, 5)
      BY <2>1 DEF HasLength
    <2>3. AS_PATH = s \o u16(Asn)
      BY DEF AS_PATH
    <2> HIDE DEF s
    <2>4. Adds(7, 5, 2)
      BY DEF Adds
    <2>5. Asn \in Words
      BY BytesOfConstants
    <2>6. HasLength(u16(Asn), 2)
      BY <2>5, u16Facts DEF HasLength
    <2>7. HasLength(s \o u16(Asn), 7)
      BY <2>2, <2>4, <2>6, JoinLength
    <2> QED
      BY <2>3, <2>7
  <1>5. HasLength(NEXT_HOP(RouterId), 7)
    <2> DEFINE s == <<64, 3, 4>>
    <2>1. s \in Seq(Bytes) /\ Len(s) = 3
      BY <1>2
    <2>2. HasLength(s, 3)
      BY <2>1 DEF HasLength
    <2>3. NEXT_HOP(RouterId) = s \o RouterId
      BY DEF NEXT_HOP
    <2> HIDE DEF s
    <2>4. Adds(7, 3, 4)
      BY DEF Adds
    <2>5. HasLength(RouterId, 4)
      BY BytesOfConstants DEF HasLength
    <2>6. HasLength(s \o RouterId, 7)
      BY <2>2, <2>4, <2>5, JoinLength
    <2> QED
      BY <2>3, <2>6
  <1>6. Adds(11, 4, 7) /\ Adds(18, 11, 7)
    BY DEF Adds
  <1>7. HasLength(ORIGIN \o AS_PATH, 11)
    BY <1>3, <1>4, <1>6, JoinLength
  <1> QED
    BY <1>5, <1>6, <1>7, JoinLength

LEMMA Halves ==
    ASSUME NEW a, NEW u, NEW n, HasLength(a, n), NEW k, HasLength(u, k)
    PROVE  Concat(a \o u, a, n, u, k)
  <1>1. a \in Seq(Bytes) /\ n = Len(a)
    BY DEF HasLength
  <1>2. u \in Seq(Bytes) /\ k = Len(u)
    BY DEF HasLength
  <1> QED
    BY <1>1, <1>2, ConcatFacts

\* An announcement is one message, which announces its VIP and withdraws none.
LEMMA AnnounceDecodes ==
    ASSUME NEW p \in WireVips, NEW m, m = encode_update_announce(p)
    PROVE  /\ take_message(m) = [msg |-> m, rest |-> <<>>]
           /\ Withdrawn(m) = <<>> /\ Announced(m) = <<32>> \o p
  <1> DEFINE x == u16(0)
             y == u16(18)
             t == (ORIGIN \o AS_PATH) \o NEXT_HOP(RouterId)
             z == Nlri(p)
             c1 == x \o y
             c2 == c1 \o t
             body == c2 \o z
  <1>1. HasLength(x, 2) /\ x[1] * 256 + x[2] = 0
    <2>1. 0 \in 0 .. 255
      OBVIOUS
    <2> QED
      BY <2>1, FieldLength
  <1>2. HasLength(y, 2) /\ y[1] * 256 + y[2] = 18
    <2>1. 18 \in 0 .. 255
      OBVIOUS
    <2> QED
      BY <2>1, FieldLength
  <1>3. HasLength(t, 18)
    BY AttributesLength
  <1>4. HasLength(z, 5)
    BY NlriLength
  <1>5. m = Framed(2, body)
    <2>1. Len(t) = 18
      BY <1>3 DEF HasLength
    <2> QED
      BY <2>1 DEF encode_update_announce
  <1>6. Nlri(p) = z /\ z = <<32>> \o p
    BY DEF Nlri
  <1> HIDE DEF x, y, t, z
  <1>7. Adds(4, 2, 2) /\ Adds(22, 4, 18) /\ Adds(27, 22, 5)
    BY DEF Adds
  <1>8. HasLength(c1, 4) /\ Concat(c1, x, 2, y, 2)
    BY <1>1, <1>2, <1>7, JoinLength, Halves
  <1> HIDE DEF c1
  <1>9. HasLength(c2, 22) /\ Concat(c2, c1, 4, t, 18)
    BY <1>3, <1>7, <1>8, JoinLength, Halves
  <1> HIDE DEF c2
  <1>10. HasLength(body, 27) /\ Concat(body, c2, 22, z, 5)
    BY <1>4, <1>7, <1>9, JoinLength, Halves
  <1> HIDE DEF body
  <1>11. IsFramed(m, 2, body, 27) /\ BodyLength(27)
    <2>1. 2 \in Bytes /\ BodyLength(27)
      BY SMT DEF Bytes, BodyLength
    <2>2. body \in Seq(Bytes) /\ 27 = Len(body)
      BY <1>10 DEF HasLength
    <2> QED
      BY <1>5, <2>1, <2>2, FramedFacts
  <1>12. take_message(m) = [msg |-> m, rest |-> <<>>]
    BY <1>11, FramedIsTaken
  <1>13. /\ body[1] = x[1] /\ body[2] = x[2] /\ body[3] = y[1] /\ body[4] = y[2]
         /\ \A j \in 1 .. 5 : body[22 + j] = z[j]
    <2>1. /\ \A j \in 1 .. 22 : body[j] = c2[j]
          /\ \A j \in 1 .. 5 : body[22 + j] = z[j]
      BY <1>10 DEF Concat
    <2>2. \A j \in 1 .. 4 : c2[j] = c1[j]
      BY <1>9 DEF Concat
    <2>3. (\A j \in 1 .. 2 : c1[j] = x[j]) /\ (\A j \in 1 .. 2 : c1[2 + j] = y[j])
      BY <1>8 DEF Concat
    <2>4. \A j \in 1 .. 4 : body[j] = c1[j]
      BY <2>1, <2>2
    <2>5. c1[1] = x[1] /\ c1[2] = x[2] /\ c1[2 + 1] = y[1] /\ c1[2 + 2] = y[2]
      <3>1. 1 \in 1 .. 2 /\ 2 \in 1 .. 2
        OBVIOUS
      <3> QED
        BY <2>3, <3>1
    <2>6. 2 + 1 = 3 /\ 2 + 2 = 4 /\ 1 \in 1 .. 4 /\ 2 \in 1 .. 4 /\ 3 \in 1 .. 4 /\ 4 \in 1 .. 4
      OBVIOUS
    <2>7. body[1] = c1[1] /\ body[2] = c1[2] /\ body[3] = c1[3] /\ body[4] = c1[4]
      BY <2>4, <2>6
    <2> QED
      BY <2>1, <2>5, <2>6, <2>7
  <1>14. be16(m, 20) = 0
    <2>1. 1 \in Nat /\ 1 <= 1 /\ 1 < 27 /\ 27 \in Nat /\ 1 + 1 = 2 /\ 20 = 19 + 1
      OBVIOUS
    <2>2. body[1] = x[1] /\ body[1 + 1] = x[2]
      BY <1>13, <2>1
    <2>3. be16(m, 20) = x[1] * 256 + x[2]
      BY <1>11, <2>1, <2>2, FieldAt
    <2> QED
      BY <1>1, <2>3
  <1>15. be16(m, 22) = 18
    <2>1. 3 \in Nat /\ 1 <= 3 /\ 3 < 27 /\ 27 \in Nat /\ 3 + 1 = 4 /\ 22 = 19 + 3
      OBVIOUS
    <2>2. body[3] = y[1] /\ body[3 + 1] = y[2]
      BY <1>13, <2>1
    <2>3. be16(m, 22) = y[1] * 256 + y[2]
      BY <1>11, <2>1, <2>2, FieldAt
    <2> QED
      BY <1>2, <2>3
  <1>16. m \in Seq(Bytes) /\ Len(m) = 46
    <2>1. 19 + 27 = 46
      OBVIOUS
    <2> QED
      BY <1>11, <2>1 DEF IsFramed
  <1>17. Withdrawn(m) = <<>>
    <2>1. SubSeq(m, 22, 21) = <<>>
      BY <1>16
    <2>2. 21 + 0 = 21
      OBVIOUS
    <2> QED
      BY <1>14, <2>1, <2>2 DEF Withdrawn
  <1>18. SubSeq(m, 42, 46) = z
    <2>1. Slice(22, 5, 27, 42, 46)
      BY DEF Slice
    <2>2. LiesAt(body, z, 22, 5)
      BY <1>4, <1>13 DEF LiesAt
    <2>3. SliceIs(m, 42, 46, z)
      BY <1>11, <2>1, <2>2, BodySlice
    <2> QED
      BY <2>3 DEF SliceIs
  <1>19. Announced(m) = z
    <2>1. 22 + 0 = 22 /\ 24 + 0 + 18 = 42
      OBVIOUS
    <2>2. Announced(m) = SubSeq(m, 24 + 0 + be16(m, 22 + 0), 46)
      BY <1>14, <1>16, Zenon DEF Announced
    <2>3. be16(m, 22 + 0) = 18
      BY <1>15, <2>1
    <2>4. Announced(m) = SubSeq(m, 42, 46)
      BY <2>1, <2>2, <2>3
    <2> QED
      BY <1>18, <2>4, Zenon
  <1> QED
    BY <1>6, <1>12, <1>17, <1>19

\* A withdrawal is one message, which withdraws its VIP and announces none.
LEMMA WithdrawDecodes ==
    ASSUME NEW p \in WireVips, NEW m, m = encode_update_withdraw(p)
    PROVE  /\ take_message(m) = [msg |-> m, rest |-> <<>>]
           /\ Withdrawn(m) = <<32>> \o p /\ Announced(m) = <<>>
  <1> DEFINE x == u16(5)
             y == u16(0)
             z == Nlri(p)
             c1 == x \o z
             body == c1 \o y
  <1>1. HasLength(x, 2) /\ x[1] * 256 + x[2] = 5
    <2>1. 5 \in 0 .. 255
      OBVIOUS
    <2> QED
      BY <2>1, FieldLength
  <1>2. HasLength(y, 2) /\ y[1] * 256 + y[2] = 0
    <2>1. 0 \in 0 .. 255
      OBVIOUS
    <2> QED
      BY <2>1, FieldLength
  <1>3. HasLength(z, 5)
    BY NlriLength
  <1>4. m = Framed(2, body)
    <2>1. Len(z) = 5
      BY <1>3 DEF HasLength
    <2> QED
      BY <2>1 DEF encode_update_withdraw
  <1>5. z = <<32>> \o p
    BY DEF Nlri
  <1> HIDE DEF x, y, z
  <1>6. Adds(7, 2, 5) /\ Adds(9, 7, 2)
    BY DEF Adds
  <1>7. HasLength(c1, 7) /\ Concat(c1, x, 2, z, 5)
    BY <1>1, <1>3, <1>6, JoinLength, Halves
  <1> HIDE DEF c1
  <1>8. HasLength(body, 9) /\ Concat(body, c1, 7, y, 2)
    BY <1>2, <1>6, <1>7, JoinLength, Halves
  <1> HIDE DEF body
  <1>9. IsFramed(m, 2, body, 9) /\ BodyLength(9)
    <2>1. 2 \in Bytes /\ BodyLength(9)
      BY SMT DEF Bytes, BodyLength
    <2>2. body \in Seq(Bytes) /\ 9 = Len(body)
      BY <1>8 DEF HasLength
    <2> QED
      BY <1>4, <2>1, <2>2, FramedFacts
  <1>10. take_message(m) = [msg |-> m, rest |-> <<>>]
    BY <1>9, FramedIsTaken
  <1>11. /\ body[1] = x[1] /\ body[2] = x[2] /\ body[8] = y[1] /\ body[9] = y[2]
         /\ \A j \in 1 .. 5 : body[2 + j] = z[j]
    <2>1. (\A j \in 1 .. 7 : body[j] = c1[j]) /\ (\A j \in 1 .. 2 : body[7 + j] = y[j])
      BY <1>8 DEF Concat
    <2>2. (\A j \in 1 .. 2 : c1[j] = x[j]) /\ (\A j \in 1 .. 5 : c1[2 + j] = z[j])
      BY <1>7 DEF Concat
    <2>3. /\ 7 + 1 = 8 /\ 7 + 2 = 9 /\ 1 \in 1 .. 2 /\ 2 \in 1 .. 2
          /\ 1 \in 1 .. 7 /\ 2 \in 1 .. 7
      OBVIOUS
    <2>4. body[1] = c1[1] /\ body[2] = c1[2] /\ body[7 + 1] = y[1] /\ body[7 + 2] = y[2]
      BY <2>1, <2>3
    <2>5. c1[1] = x[1] /\ c1[2] = x[2]
      BY <2>2, <2>3
    <2>6. \A j \in 1 .. 5 : body[2 + j] = z[j]
      <3> TAKE j \in 1 .. 5
      <3>1. 2 + j \in 1 .. 7
        OBVIOUS
      <3> QED
        BY <2>1, <2>2, <3>1
    <2> QED
      BY <2>3, <2>4, <2>5, <2>6
  <1>12. be16(m, 20) = 5
    <2>1. 1 \in Nat /\ 1 <= 1 /\ 1 < 9 /\ 9 \in Nat /\ 1 + 1 = 2 /\ 20 = 19 + 1
      OBVIOUS
    <2>2. body[1] = x[1] /\ body[1 + 1] = x[2]
      BY <1>11, <2>1
    <2>3. be16(m, 20) = x[1] * 256 + x[2]
      BY <1>9, <2>1, <2>2, FieldAt
    <2> QED
      BY <1>1, <2>3
  <1>13. be16(m, 27) = 0
    <2>1. 8 \in Nat /\ 1 <= 8 /\ 8 < 9 /\ 9 \in Nat /\ 8 + 1 = 9 /\ 27 = 19 + 8
      OBVIOUS
    <2>2. body[8] = y[1] /\ body[8 + 1] = y[2]
      BY <1>11, <2>1
    <2>3. be16(m, 27) = y[1] * 256 + y[2]
      BY <1>9, <2>1, <2>2, FieldAt
    <2> QED
      BY <1>2, <2>3
  <1>14. m \in Seq(Bytes) /\ Len(m) = 28
    <2>1. 19 + 9 = 28
      OBVIOUS
    <2> QED
      BY <1>9, <2>1 DEF IsFramed
  <1>15. SubSeq(m, 22, 26) = z
    <2>1. Slice(2, 5, 9, 22, 26)
      BY DEF Slice
    <2>2. LiesAt(body, z, 2, 5)
      BY <1>3, <1>11 DEF LiesAt
    <2>3. SliceIs(m, 22, 26, z)
      BY <1>9, <2>1, <2>2, BodySlice
    <2> QED
      BY <2>3 DEF SliceIs
  <1>16. Withdrawn(m) = z
    <2>1. 21 + 5 = 26
      OBVIOUS
    <2> QED
      BY <1>12, <1>15, <2>1 DEF Withdrawn
  <1>17. Announced(m) = <<>>
    <2>1. SubSeq(m, 29, 28) = <<>>
      BY <1>14
    <2>2. 22 + 5 = 27 /\ 24 + 5 + 0 = 29
      OBVIOUS
    <2> QED
      BY <1>12, <1>13, <1>14, <2>1, <2>2 DEF Announced
  <1> QED
    BY <1>5, <1>10, <1>16, <1>17

\* A reason of one word is that of no UPDATE.
LEMMA NoVip == \A why, p : <<why>> # <<"announce", p>> /\ <<why>> # <<"withdraw", p>>
  OBVIOUS

\* Every message the speaker writes is one message to its own framing, and an
\* UPDATE withdraws or announces the VIP that was asked for and no other.
THEOREM OwnMessagesAreWellFormed == WireSpec => []OwnMessagesDecode
  <1>1. WireInit => OwnMessagesDecode
    <2> SUFFICES ASSUME WireInit
                 PROVE  OwnMessagesDecode
      OBVIOUS
    <2>1. wrote.why = <<"open">> /\ wrote.bytes = encode_open(Asn, HoldTime, RouterId)
      BY DEF WireInit
    <2>2. take_message(wrote.bytes) = [msg |-> wrote.bytes, rest |-> <<>>]
      BY <2>1, OpenIsTaken
    <2>3. \A p : wrote.why # <<"announce", p>> /\ wrote.why # <<"withdraw", p>>
      BY <2>1
    <2> QED
      BY <2>2, <2>3 DEF OwnMessagesDecode
  <1>2. OwnMessagesDecode /\ [WireNext]_wireVars => OwnMessagesDecode'
    <2> SUFFICES ASSUME OwnMessagesDecode, [WireNext]_wireVars
                 PROVE  OwnMessagesDecode'
      OBVIOUS
    <2>1. CASE wrote' = wrote
      BY <2>1 DEF OwnMessagesDecode
    <2>2. CASE wrote' = [why |-> <<"keepalive">>, bytes |-> encode_keepalive]
      <3>1. wrote'.why = <<"keepalive">> /\ wrote'.bytes = encode_keepalive
        BY <2>2
      <3>2. take_message(wrote'.bytes) = [msg |-> wrote'.bytes, rest |-> <<>>]
        BY <3>1, KeepaliveIsTaken
      <3>3. \A p : wrote'.why # <<"announce", p>> /\ wrote'.why # <<"withdraw", p>>
        BY <3>1
      <3> QED
        BY <3>2, <3>3 DEF OwnMessagesDecode
    <2>3. CASE HoldExpires
      <3>1. wrote'.why = <<"hold expired">> /\ wrote'.bytes = encode_notification(4, 0)
        BY <2>3, Zenon DEF HoldExpires, Write
      <3>2. take_message(wrote'.bytes) = [msg |-> wrote'.bytes, rest |-> <<>>]
        BY <3>1, NotificationIsTaken
      <3>3. \A p : wrote'.why # <<"announce", p>> /\ wrote'.why # <<"withdraw", p>>
        BY <3>1, NoVip, Zenon
      <3> QED
        BY <3>2, <3>3 DEF OwnMessagesDecode
    <2>4. CASE SendUpdate
      <3>1. PICK q \in WireVips :
                \/ wrote' = [why |-> <<"announce", q>>, bytes |-> encode_update_announce(q)]
                \/ wrote' = [why |-> <<"withdraw", q>>, bytes |-> encode_update_withdraw(q)]
        BY <2>4 DEF SendUpdate, Write
      <3>2. CASE wrote' = [why |-> <<"announce", q>>, bytes |-> encode_update_announce(q)]
        <4> DEFINE m == encode_update_announce(q)
        <4>1. wrote'.why = <<"announce", q>> /\ wrote'.bytes = m
          BY <3>2
        <4>2. /\ take_message(m) = [msg |-> m, rest |-> <<>>]
              /\ Withdrawn(m) = <<>> /\ Announced(m) = <<32>> \o q
          BY AnnounceDecodes
        <4> HIDE DEF m
        <4>3. \A p : /\ wrote'.why = <<"announce", p>> => p = q
                     /\ wrote'.why # <<"withdraw", p>>
          BY <4>1
        <4> QED
          BY <4>1, <4>2, <4>3 DEF OwnMessagesDecode
      <3>3. CASE wrote' = [why |-> <<"withdraw", q>>, bytes |-> encode_update_withdraw(q)]
        <4> DEFINE m == encode_update_withdraw(q)
        <4>1. wrote'.why = <<"withdraw", q>> /\ wrote'.bytes = m
          BY <3>3
        <4>2. /\ take_message(m) = [msg |-> m, rest |-> <<>>]
              /\ Withdrawn(m) = <<32>> \o q /\ Announced(m) = <<>>
          BY WithdrawDecodes
        <4> HIDE DEF m
        <4>3. \A p : /\ wrote'.why = <<"withdraw", p>> => p = q
                     /\ wrote'.why # <<"announce", p>>
          BY <4>1
        <4> QED
          BY <4>1, <4>2, <4>3 DEF OwnMessagesDecode
      <3> QED
        BY <3>1, <3>2, <3>3
    <2>5. CASE connect
      <3>1. \/ wrote' = [why |-> <<"keepalive">>, bytes |-> encode_keepalive]
            \/ wrote' = wrote
        BY <2>5 DEF connect
      <3> QED
        BY <2>1, <2>2, <3>1
    <2>6. CASE ReadBytes \/ PopMessage \/ PeerCloses
      <3>1. wrote' = wrote
        BY <2>6 DEF ReadBytes, PopMessage, PeerCloses
      <3> QED
        BY <2>1, <3>1
    <2>7. CASE SendKeepalive
      <3>1. wrote' = [why |-> <<"keepalive">>, bytes |-> encode_keepalive]
        BY <2>7 DEF SendKeepalive, Write
      <3> QED
        BY <2>2, <3>1
    <2>8. CASE UNCHANGED wireVars
      <3>1. wrote' = wrote
        BY <2>8 DEF wireVars
      <3> QED
        BY <2>1, <3>1
    <2> QED
      BY <2>3, <2>4, <2>5, <2>6, <2>7, <2>8 DEF WireNext
  <1> QED
    BY <1>1, <1>2, PTL DEF WireSpec

-----------------------------------------------------------------------------
(***************************************************************************)
(* BgpWire: where the messages of the peer's stream lie.                   *)
(***************************************************************************)
LEMMA BoundaryFacts ==
    ASSUME NEW ss \in Seq(Seq(Bytes))
    PROVE  /\ Boundary(ss, 0) = 0 /\ Boundary(ss, Len(ss)) = Len(FlattenSeq(ss))
           /\ \A i \in 0 .. Len(ss) : Boundary(ss, i) \in Nat
           /\ \A i \in 1 .. Len(ss) :
                /\ Len(ss[i]) \in Nat
                /\ Boundary(ss, i) = Boundary(ss, i - 1) + Len(ss[i])
           /\ FlattenSeq(ss) \in Seq(Bytes)
  <1>1. \A i : Boundary(ss, i) = Len(Joined(ss, i))
    BY DEF Boundary, Joined
  <1>2. /\ Joined(ss, 0) = <<>> /\ FlattenSeq(ss) = Joined(ss, Len(ss))
        /\ \A k \in 1 .. Len(ss) : Joined(ss, k) = Joined(ss, k - 1) \o ss[k]
        /\ \A k \in 0 .. Len(ss) : Joined(ss, k) \in Seq(Bytes)
    BY JoinedUnfolds, Zenon
  <1>3. \A k \in 0 .. Len(ss) : Len(Joined(ss, k)) \in Nat
    BY <1>2
  <1>4. ASSUME NEW i \in 1 .. Len(ss)
        PROVE  Len(ss[i]) \in Nat /\ Boundary(ss, i) = Boundary(ss, i - 1) + Len(ss[i])
    <2> DEFINE a == Joined(ss, i - 1)
               b == Joined(ss, i)
    <2>1. i - 1 \in 0 .. Len(ss)
      OBVIOUS
    <2>a. ss[i] \in Seq(Bytes)
      OBVIOUS
    <2>2. a \in Seq(Bytes) /\ b = a \o ss[i] /\ ss[i] \in Seq(Bytes)
      BY <1>2, <2>1, <2>a, Zenon
    <2>3. Boundary(ss, i) = Len(b) /\ Boundary(ss, i - 1) = Len(a)
      BY <1>1
    <2> HIDE DEF a, b
    <2> QED
      BY <2>2, <2>3
  <1>5. Len(<<>>) = 0 /\ Len(ss) \in 0 .. Len(ss)
    OBVIOUS
  <1> QED
    BY <1>1, <1>2, <1>3, <1>4, <1>5

LEMMA BoundariesGrow ==
    ASSUME NEW ss \in Seq(Seq(Bytes)), NEW i \in 0 .. Len(ss), NEW j \in 0 .. Len(ss), i <= j
    PROVE  Boundary(ss, i) <= Boundary(ss, j)
  <1> DEFINE N == Len(ss)
             b(n) == Boundary(ss, n)
             T == {n \in 0 .. N : n < i \/ b(i) <= b(n)}
  <1>1. N \in Nat /\ i \in 0 .. N /\ j \in 0 .. N
    OBVIOUS
  <1>2. /\ \A n \in 0 .. N : b(n) \in Nat
        /\ \A n \in 1 .. N : \E k \in Nat : b(n) = b(n - 1) + k
    BY BoundaryFacts
  <1> HIDE DEF N, b
  <1>3. 0 \in T
    <2>1. 0 \in 0 .. N /\ (0 < i \/ i = 0)
      BY <1>1
    <2>2. b(i) \in Nat
      BY <1>1, <1>2
    <2> QED
      BY <2>1, <2>2
  <1>4. ASSUME NEW n \in 0 .. (N - 1), n \in T
        PROVE  n + 1 \in T
    <2>1. n + 1 \in 1 .. N /\ n + 1 \in 0 .. N /\ (n + 1) - 1 = n /\ n \in 0 .. N
      BY <1>1
    <2>2. PICK k \in Nat : b(n + 1) = b(n) + k
      BY <1>2, <2>1
    <2>3. b(n) \in Nat /\ b(i) \in Nat /\ b(n + 1) \in Nat
      BY <1>1, <1>2, <2>1
    <2>4. n < i \/ b(i) <= b(n)
      BY <1>4
    <2>5. n + 1 < i \/ n + 1 = i \/ b(i) <= b(n + 1)
      BY <1>1, <2>1, <2>2, <2>3, <2>4
    <2>6. n + 1 = i => b(i) <= b(n + 1)
      BY <2>3
    <2> QED
      BY <2>1, <2>5, <2>6
  <1>5. T \in SUBSET (0 .. N)
    OBVIOUS
  <1>6. T = 0 .. N
    <2> HIDE DEF T
    <2> QED
      BY <1>1, <1>3, <1>4, <1>5, IntervalInduction
  <1>7. j < i \/ b(i) <= b(j)
    BY <1>1, <1>6
  <1>8. ~(j < i)
    BY <1>1
  <1> QED
    BY <1>7, <1>8 DEF b

\* Picked is the function that its definition describes.
Picks(g, ss, P) ==
    /\ g[0] = <<>> /\ \A n \in 0 .. Len(ss) : g[n] \in Seq(Seq(Bytes))
    /\ \A n \in 1 .. Len(ss) : g[n] = IF n \in P THEN Append(g[n - 1], ss[n]) ELSE g[n - 1]

LEMMA PickedUnfolds ==
    ASSUME NEW ss \in Seq(Seq(Bytes)), NEW P
    PROVE  \E g : Picks(g, ss, P) /\ Picked(ss, P) = g[Len(ss)]
  <1> DEFINE N == Len(ss)
             S == Seq(Seq(Bytes))
             v == <<>>
             step(x, n) == IF n \in P THEN Append(x, ss[n]) ELSE x
             D(g) == g = [n \in 0 .. N |-> IF n = 0 THEN v ELSE step(g[n - 1], n)]
             F == [n \in 1 .. N |-> [x \in S |-> step(x, n)]]
             found == CHOOSE g : D(g)
  <1>1. N \in Nat /\ v \in S
    OBVIOUS
  <1>2. \A n \in 1 .. N : \A x \in S : step(x, n) \in S
    OBVIOUS
  <1>3. Picked(ss, P) = found[N]
    BY DEF Picked
  <1> HIDE DEF N, S, v, step
  <1>4. PICK g : Iterated(g, N, S, v, F)
    <2>1. F \in [1 .. N -> [S -> S]]
      BY <1>2
    <2> HIDE DEF F
    <2> QED
      BY <1>1, <2>1, Iterates
  <1>5. g \in [0 .. N -> S] /\ g[0] = v /\ \A n \in 1 .. N : g[n] = F[n][g[n - 1]]
    BY <1>4 DEF Iterated
  <1>6. D(g)
    <2>1. ASSUME NEW n \in 0 .. N
          PROVE  g[n] = IF n = 0 THEN v ELSE step(g[n - 1], n)
      <3>1. CASE n = 0
        BY <1>5, <3>1
      <3>2. CASE n # 0
        <4>1. n \in 1 .. N /\ n - 1 \in 0 .. N
          BY <1>1, <3>2
        <4>2. g[n - 1] \in S
          BY <1>5, <4>1
        <4>3. F[n][g[n - 1]] = step(g[n - 1], n)
          BY <4>1, <4>2
        <4> QED
          BY <1>5, <3>2, <4>1, <4>3
      <3> QED
        BY <3>1, <3>2
    <2> QED
      BY <1>5, <2>1
  <1>7. D(found)
    <2> HIDE DEF D
    <2> QED
      BY <1>6
  <1> HIDE DEF found, F
  <1>8. /\ found = [n \in 0 .. N |-> IF n = 0 THEN v ELSE step(found[n - 1], n)]
        /\ 0 \in 0 .. N /\ \A n \in 1 .. N : n \in 0 .. N /\ n # 0
    BY <1>1, <1>7
  <1> HIDE DEF D
  <1>9. found[0] = v /\ \A n \in 1 .. N : found[n] = step(found[n - 1], n)
    BY <1>8
  <1>10. \A n \in 0 .. N : found[n] \in S
    <2>1. found[0] \in S
      BY <1>1, <1>9
    <2>2. \A n \in 1 .. N : found[n - 1] \in S => found[n] \in S
      BY <1>2, <1>9
    <2> QED
      BY <1>1, <2>1, <2>2, Carried
  <1>11. Picks(found, ss, P)
    BY <1>9, <1>10 DEF Picks, N, S, v, step
  <1> QED
    BY <1>3, <1>11 DEF N

LEMMA NonePicked ==
    ASSUME NEW ss \in Seq(Seq(Bytes))
    PROVE  Picked(ss, {}) = <<>>
  <1>1. PICK g : Picks(g, ss, {}) /\ Picked(ss, {}) = g[Len(ss)]
    BY PickedUnfolds, Zenon
  <1> DEFINE N == Len(ss)
             S == {<<>>}
  <1>2. N \in Nat /\ N \in 0 .. N
    OBVIOUS
  <1>3. g[0] \in S /\ \A n \in 1 .. N : g[n - 1] \in S => g[n] \in S
    BY <1>1 DEF Picks
  <1> HIDE DEF N, S
  <1>4. \A n \in 0 .. N : g[n] \in S
    BY <1>2, <1>3, Carried
  <1> QED
    BY <1>1, <1>2, <1>4 DEF N, S

\* One more piece, after all the others, comes last.
LEMMA PickedLast ==
    ASSUME NEW ss \in Seq(Seq(Bytes)), NEW P, NEW m \in 1 .. Len(ss),
           P \subseteq 1 .. (m - 1), NEW Q, Q = P \cup {m}
    PROVE  Picked(ss, Q) = Append(Picked(ss, P), ss[m])
  <1>1. PICK g : Picks(g, ss, P) /\ Picked(ss, P) = g[Len(ss)]
    BY PickedUnfolds, Zenon
  <1>2. PICK h : Picks(h, ss, Q) /\ Picked(ss, Q) = h[Len(ss)]
    BY PickedUnfolds, Zenon
  <1> DEFINE N == Len(ss)
             x == ss[m]
             T == {n \in 0 .. N : (n < m => h[n] = g[n]) /\ (n >= m => h[n] = Append(g[n], x))}
  <1>3. N \in Nat /\ m \in 1 .. N
    OBVIOUS
  <1>4. /\ g[0] = <<>> /\ h[0] = <<>>
        /\ \A n \in 1 .. N : /\ g[n] = IF n \in P THEN Append(g[n - 1], ss[n]) ELSE g[n - 1]
                             /\ h[n] = IF n \in Q THEN Append(h[n - 1], ss[n]) ELSE h[n - 1]
    BY <1>1, <1>2 DEF Picks
  <1> HIDE DEF N, x
  <1>5. 0 \in T
    BY <1>3, <1>4
  <1>6. ASSUME NEW n \in 0 .. (N - 1), n \in T
        PROVE  n + 1 \in T
    <2> DEFINE k == n + 1
    <2>1. k \in 1 .. N /\ k \in 0 .. N /\ k - 1 = n
      BY <1>3
    <2>2. /\ g[k] = IF k \in P THEN Append(g[n], ss[k]) ELSE g[n]
          /\ h[k] = IF k \in Q THEN Append(h[n], ss[k]) ELSE h[n]
      BY <1>4, <2>1
    <2>3. (n < m => h[n] = g[n]) /\ (n >= m => h[n] = Append(g[n], x))
      BY <1>6
    <2>4. CASE k < m
      <3>1. n < m /\ k # m
        BY <1>3, <2>1, <2>4
      <3>2. k \in Q <=> k \in P
        BY <3>1
      <3>3. h[k] = g[k]
        BY <2>2, <2>3, <3>1, <3>2
      <3>4. ~(k >= m)
        BY <1>3, <2>1, <2>4
      <3> QED
        BY <2>1, <3>3, <3>4
    <2>5. CASE k = m
      <3>1. n < m /\ k \in Q /\ k \notin P /\ ss[k] = x
        BY <1>3, <2>1, <2>5 DEF x
      <3>2. h[k] = Append(g[k], x)
        BY <2>2, <2>3, <3>1
      <3>3. ~(k < m)
        BY <1>3, <2>5
      <3> QED
        BY <2>1, <3>2, <3>3
    <2>6. CASE k > m
      <3>1. n >= m /\ k \notin Q /\ k \notin P
        BY <1>3, <2>1, <2>6
      <3>2. h[k] = Append(g[k], x)
        BY <2>2, <2>3, <3>1
      <3>3. ~(k < m)
        BY <1>3, <2>1, <2>6
      <3> QED
        BY <2>1, <3>2, <3>3
    <2>7. k < m \/ k = m \/ k > m
      BY <1>3, <2>1
    <2> QED
      BY <2>4, <2>5, <2>6, <2>7
  <1>7. T \in SUBSET (0 .. N)
    OBVIOUS
  <1>8. T = 0 .. N
    <2> HIDE DEF T
    <2> QED
      BY <1>3, <1>5, <1>6, <1>7, IntervalInduction
  <1>9. N \in 0 .. N /\ N >= m
    BY <1>3
  <1>10. h[N] = Append(g[N], x)
    BY <1>8, <1>9
  <1> QED
    BY <1>1, <1>2, <1>10 DEF N, x

\* The bytes of the stream s from first up to read.
Buffered(buf, s, first, read) ==
    /\ s \in Seq(Bytes) /\ first \in Nat /\ read \in Nat /\ first <= read /\ read <= Len(s)
    /\ buf = SubSeq(s, first + 1, read)

LEMMA BufferFacts ==
    ASSUME NEW buf, NEW s, NEW first, NEW read, Buffered(buf, s, first, read)
    PROVE  /\ buf \in Seq(Bytes) /\ Len(buf) = read - first
           /\ \A j \in 1 .. Len(buf) : buf[j] = s[first + j]
  <1>1. /\ s \in Seq(Bytes) /\ first \in Nat /\ read \in Nat /\ first <= read /\ read <= Len(s)
        /\ buf = SubSeq(s, first + 1, read)
    BY DEF Buffered
  <1>2. /\ buf \in Seq(Bytes) /\ Len(buf) = read - first
        /\ \A j \in 1 .. (read - first) : buf[j] = s[(first + 1) + j - 1]
    BY <1>1
  <1>3. \A j \in 1 .. (read - first) : (first + 1) + j - 1 = first + j
    BY <1>1
  <1> QED
    BY <1>2, <1>3

LEMMA MessageFacts ==
    ASSUME NEW m \in Seq(Bytes), IsMessage(m)
    PROVE  Len(m) \in Nat /\ Len(m) >= 19 /\ be16(m, 17) = Len(m) /\ IsHeader(m)
  <1>1. Len(m) \in MessageLengths /\ SubSeq(m, 1, 16) = MARKER /\ be16(m, 17) = Len(m)
    BY DEF IsMessage
  <1>2. Len(m) \in Nat
    OBVIOUS
  <1> DEFINE L == Len(m)
  <1>3. L >= 19
    <2>1. L \in MessageLengths
      BY <1>1
    <2> HIDE DEF L
    <2> QED
      BY <2>1, SMT DEF MessageLengths
  <1> QED
    BY <1>1, <1>2, <1>3 DEF IsHeader

Agree(a, b, n)    == \A j \in 1 .. n : a[j] = b[j]
\* Two strings with the same first 19 bytes.
LEMMA SameHeader ==
    ASSUME NEW a \in Seq(Bytes), NEW b \in Seq(Bytes), Len(a) >= 19, Len(b) >= 19,
           Agree(a, b, 19)
    PROVE  (IsHeader(a) <=> IsHeader(b)) /\ be16(a, 17) = be16(b, 17)
  <1> DEFINE x == SubSeq(a, 1, 16)
             y == SubSeq(b, 1, 16)
  <1>1. /\ x \in Seq(Bytes) /\ Len(x) = 16 /\ \A j \in 1 .. 16 : x[j] = a[j]
        /\ y \in Seq(Bytes) /\ Len(y) = 16 /\ \A j \in 1 .. 16 : y[j] = b[j]
    <2> DEFINE n == 16
    <2>1. n \in Nat /\ n <= Len(a) /\ n <= Len(b)
      OBVIOUS
    <2>2. x = SubSeq(a, 1, n) /\ y = SubSeq(b, 1, n)
      OBVIOUS
    <2> HIDE DEF n, x, y
    <2>3. HoldsFirst(x, a, n) /\ HoldsFirst(y, b, n)
      BY <2>1, <2>2, PrefixFacts
    <2> QED
      BY <2>3 DEF HoldsFirst, n
  <1>2. \A j \in 1 .. 16 : j \in 1 .. 19
    OBVIOUS
  <1>3. x = y
    <2> HIDE DEF x, y
    <2>1. \A j \in 1 .. 16 : x[j] = y[j]
      BY <1>1, <1>2 DEF Agree
    <2>2. Len(x) = Len(y) /\ \A j \in 1 .. Len(x) : x[j] = y[j]
      BY <1>1, <2>1
    <2> QED
      BY <1>1, <2>2, SameSeq
  <1>4. 17 \in 1 .. 19 /\ 18 \in 1 .. 19 /\ 17 + 1 = 18
    OBVIOUS
  <1>5. a[17] = b[17] /\ a[17 + 1] = b[17 + 1]
    BY <1>4 DEF Agree
  <1>6. be16(a, 17) = be16(b, 17)
    BY <1>5 DEF be16
  <1> QED
    BY <1>3, <1>6 DEF IsHeader

\* A message at the head of the buffer is seen there.
LEMMA MessageAt ==
    ASSUME NEW ss \in Seq(Seq(Bytes)), NEW i \in 1 .. Len(ss), IsMessage(ss[i]),
           NEW buf, NEW first, NEW read, Buffered(buf, FlattenSeq(ss), first, read),
           first = Boundary(ss, i - 1), Len(buf) >= 19
    PROVE  /\ IsHeader(buf) /\ be16(buf, 17) = Len(ss[i])
           /\ Len(buf) >= Len(ss[i]) => SubSeq(buf, 1, Len(ss[i])) = ss[i]
  <1> DEFINE s == FlattenSeq(ss)
             m == ss[i]
             L == Len(m)
  <1>1. m \in Seq(Bytes)
    OBVIOUS
  <1>2. L \in Nat /\ L >= 19 /\ be16(m, 17) = L /\ IsHeader(m)
    BY <1>1, MessageFacts
  <1>3. buf \in Seq(Bytes) /\ \A j \in 1 .. Len(buf) : buf[j] = s[first + j]
    BY BufferFacts
  <1>4. \A j \in 1 .. L : s[first + j] = m[j]
    <2> TAKE j \in 1 .. L
    <2>1. FlattenSeq(ss)[Len(Joined(ss, i - 1)) + j] = ss[i][j]
      BY PiecesAreThere, Zenon
    <2>2. first = Len(Joined(ss, i - 1))
      BY DEF Boundary, Joined
    <2> QED
      BY <2>1, <2>2
  <1> HIDE DEF s, m, L
  <1>5. \A j \in 1 .. 19 : j \in 1 .. L /\ j \in 1 .. Len(buf)
    BY <1>2, <1>3
  <1>6. \A j \in 1 .. 19 : buf[j] = m[j]
    BY <1>3, <1>4, <1>5
  <1>7. Len(m) >= 19
    BY <1>2 DEF L
  <1>8. (IsHeader(buf) <=> IsHeader(m)) /\ be16(buf, 17) = be16(m, 17)
    BY <1>1, <1>3, <1>6, <1>7, SameHeader DEF Agree
  <1>9. ASSUME Len(buf) >= L
        PROVE  SubSeq(buf, 1, L) = m
    <2> DEFINE t == SubSeq(buf, 1, L)
    <2>1. t \in Seq(Bytes) /\ Len(t) = L /\ \A j \in 1 .. L : t[j] = buf[j]
      BY <1>2, <1>3, <1>9
    <2>2. \A j \in 1 .. L : j \in 1 .. Len(buf)
      BY <1>2, <1>3, <1>9
    <2> HIDE DEF t
    <2>3. \A j \in 1 .. L : t[j] = m[j]
      BY <1>3, <1>4, <2>1, <2>2
    <2>4. Len(t) = Len(m) /\ \A j \in 1 .. Len(t) : t[j] = m[j]
      BY <2>1, <2>3 DEF L
    <2>5. t = m
      BY <1>1, <2>1, <2>4, SameSeq
    <2> QED
      BY <2>5 DEF t
  <1> QED
    BY <1>2, <1>8, <1>9 DEF m, L

\* A header at the head of the buffer, and any byte there of a reader who is
\* in step with the peer, is that of a message.
InStep(ss, begun, first) == InSync(ss, begun) /\ first \in Boundaries(ss)

LEMMA HeadIsMessage ==
    ASSUME NEW ss \in Seq(Seq(Bytes)), NEW begun,
           NEW buf, NEW first, NEW read, Buffered(buf, FlattenSeq(ss), first, read),
           Len(buf) >= 19,
           InStep(ss, begun, first) \/ (Unambiguous(ss) /\ IsHeader(buf))
    PROVE  \E i \in 1 .. Len(ss) : Boundary(ss, i - 1) = first /\ IsMessage(ss[i])
  <1> DEFINE s == FlattenSeq(ss)
             N == Len(ss)
  <1>1. /\ s \in Seq(Bytes) /\ first \in Nat /\ read \in Nat /\ first <= read /\ read <= Len(s)
    BY DEF Buffered
  <1>2. /\ buf \in Seq(Bytes) /\ Len(buf) = read - first
        /\ \A j \in 1 .. Len(buf) : buf[j] = s[first + j]
    BY BufferFacts
  <1>3. DOMAIN ss = 1 .. N /\ N \in Nat
    OBVIOUS
  <1>4. CASE InStep(ss, begun, first)
    <2>1. /\ first \in Boundaries(ss)
          /\ \A i \in DOMAIN ss : IsMessage(ss[i])
      BY <1>4 DEF InStep, InSync
    <2>2. PICK k \in 0 .. N : first = Boundary(ss, k)
      BY <2>1 DEF Boundaries
    <2>3. Boundary(ss, N) = Len(s)
      BY BoundaryFacts
    <2> HIDE DEF s, N
    <2>4. k # N
      <3>1. Len(buf) \in Nat /\ first < Len(s)
        BY <1>1, <1>2
      <3> QED
        BY <1>1, <2>2, <2>3, <3>1
    <2>5. k + 1 \in 1 .. N /\ (k + 1) - 1 = k
      BY <1>3, <2>2, <2>4
    <2>6. IsMessage(ss[k + 1])
      BY <1>3, <2>1, <2>5
    <2>7. Boundary(ss, (k + 1) - 1) = first /\ IsMessage(ss[k + 1])
      BY <2>2, <2>5, <2>6
    <2> QED
      BY <2>5, <2>7 DEF N
  <1>5. CASE Unambiguous(ss) /\ IsHeader(buf)
    <2> DEFINE x == SubSeq(s, first + 1, first + 19)
    <2>1. \A k \in 0 .. (Len(s) - 19) :
             IsHeader(SubSeq(s, k + 1, k + 19)) =>
                \E i \in DOMAIN ss : Boundary(ss, i - 1) = k /\ IsMessage(ss[i])
      BY <1>5 DEF Unambiguous
    <2> HIDE DEF s, N
    <2>2. first \in 0 .. (Len(s) - 19) /\ first + 19 <= Len(s)
      BY <1>1, <1>2
    <2>3. /\ x \in Seq(Bytes) /\ Len(x) = 19
          /\ \A j \in 1 .. 19 : x[j] = s[(first + 1) + j - 1]
      BY <1>1, <2>2
    <2>4. \A j \in 1 .. 19 : (first + 1) + j - 1 = first + j /\ j \in 1 .. Len(buf)
      BY <1>1, <1>2
    <2>5. IsHeader(x) => \E i \in DOMAIN ss : Boundary(ss, i - 1) = first /\ IsMessage(ss[i])
      BY <2>1, <2>2
    <2> HIDE DEF x
    <2>6. \A j \in 1 .. 19 : buf[j] = x[j]
      BY <1>2, <2>3, <2>4
    <2>7. Len(x) >= 19
      BY <2>3
    <2>8. IsHeader(buf) <=> IsHeader(x)
      BY <1>2, <2>3, <2>6, <2>7, SameHeader DEF Agree
    <2> QED
      BY <1>3, <1>5, <2>5, <2>8 DEF N
  <1> QED
    BY <1>4, <1>5

\* What a read adds to the buffer, and what is left of it.
LEMMA BufferMore ==
    ASSUME NEW buf, NEW s, NEW first, NEW read, Buffered(buf, s, first, read),
           NEW n \in Nat, read + n <= Len(s)
    PROVE  /\ Buffered(buf \o SubSeq(s, read + 1, read + n), s, first, read + n)
           /\ Len(buf \o SubSeq(s, read + 1, read + n)) = Len(buf) + n
  <1>1. s \in Seq(Bytes) /\ first \in Nat /\ read \in Nat /\ first <= read /\ read <= Len(s)
    BY DEF Buffered
  <1>2. /\ buf \in Seq(Bytes) /\ Len(buf) = read - first
        /\ \A j \in 1 .. Len(buf) : buf[j] = s[first + j]
    BY BufferFacts
  <1> DEFINE more == SubSeq(s, read + 1, read + n)
             x == buf \o more
             y == SubSeq(s, first + 1, read + n)
  <1>3. /\ more \in Seq(Bytes) /\ Len(more) = n
        /\ \A j \in 1 .. n : more[j] = s[read + j]
    <2>1. read + n \in Nat /\ read <= read + n /\ (read + n) - read = n
      BY <1>1
    <2>2. Buffered(more, s, read, read + n)
      BY <1>1, <2>1 DEF Buffered
    <2> HIDE DEF more
    <2> QED
      BY <2>1, <2>2, BufferFacts
  <1>4. /\ y \in Seq(Bytes) /\ Len(y) = (read + n) - first
        /\ \A j \in 1 .. ((read + n) - first) : y[j] = s[(first + 1) + j - 1]
    BY <1>1
  <1> HIDE DEF more, y
  <1>5. /\ x \in Seq(Bytes) /\ Len(x) = Len(buf) + n
        /\ \A j \in 1 .. Len(buf) : x[j] = buf[j]
        /\ \A j \in 1 .. n : x[Len(buf) + j] = more[j]
    <2> DEFINE k == Len(buf)
    <2>1. HasLength(buf, k) /\ HasLength(more, n)
      BY <1>2, <1>3 DEF HasLength
    <2> HIDE DEF k
    <2>2. Concat(x, buf, k, more, n)
      BY <2>1, Halves
    <2> HIDE DEF x
    <2> QED
      BY <2>2 DEF Concat, k
  <1> HIDE DEF x
  <1>6. ASSUME NEW j \in 1 .. Len(x)
        PROVE  x[j] = y[j]
    <2>1. j \in 1 .. ((read + n) - first) /\ (first + 1) + j - 1 = first + j
      BY <1>1, <1>2, <1>5
    <2>2. y[j] = s[first + j]
      BY <1>4, <2>1
    <2>3. CASE j \in 1 .. Len(buf)
      BY <1>2, <1>5, <2>2, <2>3
    <2>4. CASE j \notin 1 .. Len(buf)
      <3> DEFINE i == j - Len(buf)
      <3>1. i \in 1 .. n /\ Len(buf) + i = j /\ read + i = first + j
        BY <1>1, <1>2, <1>5, <2>4
      <3> HIDE DEF i
      <3>2. x[Len(buf) + i] = more[i] /\ more[i] = s[read + i]
        BY <1>3, <1>5, <3>1
      <3> QED
        BY <2>2, <3>1, <3>2
    <2> QED
      BY <2>3, <2>4
  <1>7. Len(x) = Len(y) /\ read + n \in Nat /\ first <= read + n
    BY <1>1, <1>2, <1>4, <1>5
  <1>8. x = y
    BY <1>4, <1>5, <1>6, <1>7, SameSeq
  <1>9. Buffered(x, s, first, read + n)
    BY <1>1, <1>7, <1>8 DEF Buffered, y
  <1> QED
    BY <1>5, <1>9 DEF x, more

LEMMA BufferRest ==
    ASSUME NEW buf, NEW s, NEW first, NEW read, Buffered(buf, s, first, read),
           NEW k \in Nat, k <= Len(buf)
    PROVE  /\ Buffered(SubSeq(buf, k + 1, Len(buf)), s, first + k, read)
           /\ Len(SubSeq(buf, k + 1, Len(buf))) = Len(buf) - k
  <1>1. s \in Seq(Bytes) /\ first \in Nat /\ read \in Nat /\ first <= read /\ read <= Len(s)
    BY DEF Buffered
  <1>2. /\ buf \in Seq(Bytes) /\ Len(buf) = read - first
        /\ \A j \in 1 .. Len(buf) : buf[j] = s[first + j]
    BY BufferFacts
  <1> DEFINE x == SubSeq(buf, k + 1, Len(buf))
             y == SubSeq(s, (first + k) + 1, read)
  <1>3. /\ x \in Seq(Bytes) /\ Len(x) = Len(buf) - k
        /\ \A j \in 1 .. (Len(buf) - k) : x[j] = buf[(k + 1) + j - 1]
    BY <1>2
  <1>4. /\ y \in Seq(Bytes) /\ Len(y) = read - (first + k)
        /\ \A j \in 1 .. (read - (first + k)) : y[j] = s[((first + k) + 1) + j - 1]
    BY <1>1, <1>2
  <1> HIDE DEF x, y
  <1>5. ASSUME NEW j \in 1 .. Len(x)
        PROVE  x[j] = y[j]
    <2>1. /\ j \in 1 .. (Len(buf) - k) /\ j \in 1 .. (read - (first + k))
          /\ (k + 1) + j - 1 = k + j /\ k + j \in 1 .. Len(buf)
          /\ ((first + k) + 1) + j - 1 = first + (k + j)
      BY <1>1, <1>2, <1>3
    <2>2. x[j] = buf[k + j] /\ y[j] = s[first + (k + j)]
      BY <1>3, <1>4, <2>1
    <2>3. buf[k + j] = s[first + (k + j)]
      BY <1>2, <2>1
    <2> QED
      BY <2>2, <2>3
  <1>6. Len(x) = Len(y) /\ first + k \in Nat /\ first + k <= read
    BY <1>1, <1>2, <1>3, <1>4
  <1>7. x = y
    BY <1>3, <1>4, <1>5, <1>6, SameSeq
  <1>8. Buffered(x, s, first + k, read)
    BY <1>1, <1>6, <1>7 DEF Buffered, y
  <1> QED
    BY <1>3, <1>8 DEF x

\* No message lies in fewer than 19 bytes.
LEMMA NoneInside ==
    ASSUME NEW ss \in Seq(Seq(Bytes)), NEW a \in Nat, NEW b \in Nat, b < a + 19
    PROVE  Between(ss, a, b) = <<>>
  <1>1. ASSUME NEW i \in Inside(ss, a, b)
        PROVE  FALSE
    <2>1. /\ i \in 1 .. Len(ss) /\ IsMessage(ss[i])
          /\ Boundary(ss, i - 1) >= a /\ Boundary(ss, i) <= b
      BY DEF Inside
    <2>2. ss[i] \in Seq(Bytes) /\ i - 1 \in 0 .. Len(ss)
      BY <2>1
    <2>3. Len(ss[i]) \in Nat /\ Len(ss[i]) >= 19
      BY <2>1, <2>2, MessageFacts
    <2> DEFINE c == Boundary(ss, i - 1)
               d == Boundary(ss, i)
    <2>4. c \in Nat /\ d = c + Len(ss[i])
      BY <2>1, <2>2, BoundaryFacts
    <2>5. c >= a /\ d <= b
      BY <2>1
    <2> HIDE DEF c, d
    <2> QED
      BY <2>3, <2>4, <2>5
  <1>2. Inside(ss, a, b) = {}
    BY <1>1
  <1> QED
    BY <1>2, NonePicked DEF Between

\* No message from byte a on reaches over byte b.
NoneCut(ss, a, b) ==
    \A i \in 1 .. Len(ss) :
        IsMessage(ss[i]) /\ Boundary(ss, i - 1) >= a =>
            Boundary(ss, i) <= b \/ Boundary(ss, i - 1) >= b

\* What a reader has popped who began at byte begun and is now at byte first.
Aligned(ss, begun, first, popped) ==
    /\ popped = Between(ss, begun, first)
    /\ NoneCut(ss, begun, first)
    /\ InSync(ss, begun) => first \in Boundaries(ss)

LEMMA BeginsAligned ==
    ASSUME NEW ss \in Seq(Seq(Bytes)), NEW n \in Nat
    PROVE  Aligned(ss, n, n, <<>>) /\ Between(ss, n, n) = <<>>
  <1>1. Between(ss, n, n) = <<>>
    <2>1. n < n + 19
      OBVIOUS
    <2> QED
      BY <2>1, NoneInside
  <1>2. NoneCut(ss, n, n)
    BY DEF NoneCut
  <1> QED
    BY <1>1, <1>2 DEF Aligned, InSync

\* What piece i weighs, and where the others lie.
LEMMA MessageBounds ==
    ASSUME NEW ss \in Seq(Seq(Bytes)), NEW i \in 1 .. Len(ss)
    PROVE  /\ Boundary(ss, i - 1) \in Nat /\ Boundary(ss, i) \in Nat /\ Len(ss[i]) \in Nat
           /\ Boundary(ss, i) = Boundary(ss, i - 1) + Len(ss[i])
           /\ IsMessage(ss[i]) => Len(ss[i]) >= 19
  <1>1. i - 1 \in 0 .. Len(ss) /\ i \in 0 .. Len(ss) /\ ss[i] \in Seq(Bytes)
    OBVIOUS
  <1>2. Boundary(ss, i - 1) \in Nat /\ Boundary(ss, i) \in Nat
    BY <1>1, BoundaryFacts
  <1>3. Len(ss[i]) \in Nat /\ Boundary(ss, i) = Boundary(ss, i - 1) + Len(ss[i])
    BY BoundaryFacts
  <1>4. IsMessage(ss[i]) => Len(ss[i]) >= 19
    BY <1>1, MessageFacts
  <1> QED
    BY <1>2, <1>3, <1>4

LEMMA InOrder ==
    ASSUME NEW ss \in Seq(Seq(Bytes)), NEW i \in 1 .. Len(ss), NEW j \in 1 .. Len(ss), i < j
    PROVE  Boundary(ss, i) <= Boundary(ss, j - 1)
  <1>1. i \in 0 .. Len(ss) /\ j - 1 \in 0 .. Len(ss) /\ i <= j - 1
    OBVIOUS
  <1> QED
    BY <1>1, BoundariesGrow

\* The reader's place in the stream, and that it may be judged there.
Judged(ss, begun, first, popped) ==
    /\ begun \in Nat /\ begun <= first
    /\ Aligned(ss, begun, first, popped)
    /\ InSync(ss, begun) \/ Unambiguous(ss)

\* A byte is dropped only by a reader who has lost the framing, and no message
\* begins with it.
LEMMA ByteDropped ==
    ASSUME NEW ss \in Seq(Seq(Bytes)), NEW begun, NEW popped,
           NEW buf, NEW first, NEW read, Buffered(buf, FlattenSeq(ss), first, read),
           Judged(ss, begun, first, popped), Len(buf) >= 19, ~IsHeader(buf)
    PROVE  ~InSync(ss, begun) /\ Aligned(ss, begun, first + 1, popped)
  <1>1. first \in Nat
    BY DEF Buffered
  <1>2. /\ begun \in Nat /\ begun <= first
        /\ popped = Between(ss, begun, first) /\ NoneCut(ss, begun, first)
        /\ InSync(ss, begun) => first \in Boundaries(ss)
    BY DEF Judged, Aligned
  <1>3. \A i \in 1 .. Len(ss) : ~(Boundary(ss, i - 1) = first /\ IsMessage(ss[i]))
    BY MessageAt
  <1>4. ~InSync(ss, begun)
    <2>1. InSync(ss, begun) => InStep(ss, begun, first)
      BY <1>2 DEF InStep
    <2> QED
      BY <1>3, <2>1, HeadIsMessage
  <1>5. ASSUME NEW i \in 1 .. Len(ss), IsMessage(ss[i]), Boundary(ss, i - 1) >= begun
        PROVE  /\ Boundary(ss, i) <= first \/ Boundary(ss, i - 1) >= first + 1
               /\ Boundary(ss, i) <= first + 1 => Boundary(ss, i) <= first
    <2> DEFINE c == Boundary(ss, i - 1)
               d == Boundary(ss, i)
               L == Len(ss[i])
    <2>1. c \in Nat /\ d \in Nat /\ L \in Nat /\ d = c + L /\ L >= 19
      BY <1>5, MessageBounds
    <2>2. d <= first \/ c >= first
      BY <1>2, <1>5 DEF NoneCut
    <2>3. c # first
      BY <1>3, <1>5
    <2> HIDE DEF c, d, L
    <2>4. (d <= first \/ c >= first + 1) /\ (d <= first + 1 => d <= first)
      BY <1>1, <2>1, <2>2, <2>3
    <2> QED
      BY <2>4 DEF c, d
  <1>6. NoneCut(ss, begun, first + 1)
    <2> SUFFICES ASSUME NEW i \in 1 .. Len(ss), IsMessage(ss[i]), Boundary(ss, i - 1) >= begun
                 PROVE  Boundary(ss, i) <= first + 1 \/ Boundary(ss, i - 1) >= first + 1
      BY DEF NoneCut
    <2> DEFINE c == Boundary(ss, i - 1)
               d == Boundary(ss, i)
    <2>1. (d <= first \/ c >= first + 1) /\ d \in Nat
      BY <1>5, MessageBounds
    <2> HIDE DEF c, d
    <2>2. d <= first + 1 \/ c >= first + 1
      BY <1>1, <2>1
    <2> QED
      BY <2>2 DEF c, d
  <1>7. Inside(ss, begun, first + 1) = Inside(ss, begun, first)
    <2>1. ASSUME NEW i \in Inside(ss, begun, first + 1)
          PROVE  i \in Inside(ss, begun, first)
      <3>1. /\ i \in DOMAIN ss /\ IsMessage(ss[i])
            /\ Boundary(ss, i - 1) >= begun /\ Boundary(ss, i) <= first + 1
        BY DEF Inside
      <3>2. i \in 1 .. Len(ss)
        BY <3>1
      <3>3. Boundary(ss, i) <= first
        BY <1>5, <3>1, <3>2
      <3> QED
        BY <3>1, <3>3 DEF Inside
    <2>2. ASSUME NEW i \in Inside(ss, begun, first)
          PROVE  i \in Inside(ss, begun, first + 1)
      <3>1. /\ i \in DOMAIN ss /\ IsMessage(ss[i])
            /\ Boundary(ss, i - 1) >= begun /\ Boundary(ss, i) <= first
        BY DEF Inside
      <3>2. i \in 1 .. Len(ss)
        BY <3>1
      <3> DEFINE d == Boundary(ss, i)
      <3>3. d \in Nat /\ d <= first
        BY <3>1, <3>2, MessageBounds
      <3> HIDE DEF d
      <3>4. d <= first + 1
        BY <1>1, <3>3
      <3> QED
        BY <3>1, <3>4 DEF Inside, d
    <2> QED
      BY <2>1, <2>2
  <1>8. popped = Between(ss, begun, first + 1)
    BY <1>2, <1>7 DEF Between
  <1> QED
    BY <1>4, <1>6, <1>8 DEF Aligned

\* A reader in step who must wait for the rest of a message has no whole one.
LEMMA NoneWaits ==
    ASSUME NEW ss \in Seq(Seq(Bytes)), NEW begun,
           NEW buf, NEW first, NEW read, Buffered(buf, FlattenSeq(ss), first, read),
           InStep(ss, begun, first), Len(buf) >= 19, Len(buf) < be16(buf, 17)
    PROVE  Between(ss, first, read) = <<>>
  <1>1. first \in Nat /\ read \in Nat /\ Len(buf) = read - first
    BY BufferFacts DEF Buffered
  <1>2. PICK k \in 1 .. Len(ss) : Boundary(ss, k - 1) = first /\ IsMessage(ss[k])
    BY HeadIsMessage
  <1>3. be16(buf, 17) = Len(ss[k])
    BY <1>2, MessageAt
  <1> DEFINE e == Boundary(ss, k)
  <1>4. e \in Nat /\ read < e
    <2>1. e \in Nat /\ Len(ss[k]) \in Nat /\ e = first + Len(ss[k])
      BY <1>2, MessageBounds
    <2>2. read - first < Len(ss[k])
      BY <1>1, <1>3
    <2> HIDE DEF e
    <2> QED
      BY <1>1, <2>1, <2>2
  <1>5. ASSUME NEW i \in Inside(ss, first, read)
        PROVE  FALSE
    <2>1. /\ i \in 1 .. Len(ss) /\ IsMessage(ss[i])
          /\ Boundary(ss, i - 1) >= first /\ Boundary(ss, i) <= read
      BY DEF Inside
    <2> DEFINE c == Boundary(ss, i - 1)
               d == Boundary(ss, i)
               L == Len(ss[i])
    <2>2. c \in Nat /\ d \in Nat /\ L \in Nat /\ d = c + L /\ L >= 19 /\ c >= first /\ d <= read
      BY <2>1, MessageBounds
    <2>3. i < k => d <= first
      BY <1>2, <2>1, InOrder
    <2>4. i = k => d = e
      OBVIOUS
    <2>5. k < i => e <= c
      BY <2>1, InOrder
    <2>6. i < k \/ i = k \/ k < i
      BY <2>1
    <2> HIDE DEF c, d, e, L
    <2>7. ~(d <= first)
      BY <1>1, <2>2
    <2>8. d # e
      BY <1>1, <1>4, <2>2
    <2>9. ~(e <= c)
      BY <1>1, <1>4, <2>2
    <2> QED
      BY <2>3, <2>4, <2>5, <2>6, <2>7, <2>8, <2>9
  <1>6. Inside(ss, first, read) = {}
    BY <1>5
  <1> QED
    BY <1>6, NonePicked DEF Between

\* What is taken is the next message.
LEMMA MessageTaken ==
    ASSUME NEW ss \in Seq(Seq(Bytes)), NEW begun, NEW popped,
           NEW buf, NEW first, NEW read, Buffered(buf, FlattenSeq(ss), first, read),
           Judged(ss, begun, first, popped), Len(buf) >= 19, IsHeader(buf),
           NEW L, L = be16(buf, 17), Len(buf) >= L
    PROVE  /\ L \in Nat /\ L >= 19
           /\ Aligned(ss, begun, first + L, Append(popped, SubSeq(buf, 1, L)))
  <1>1. first \in Nat
    BY DEF Buffered
  <1>2. /\ begun \in Nat /\ begun <= first
        /\ popped = Between(ss, begun, first) /\ NoneCut(ss, begun, first)
        /\ InSync(ss, begun) => first \in Boundaries(ss)
        /\ InSync(ss, begun) \/ Unambiguous(ss)
    BY DEF Judged, Aligned
  <1>3. PICK k \in 1 .. Len(ss) : Boundary(ss, k - 1) = first /\ IsMessage(ss[k])
    <2>1. InStep(ss, begun, first) \/ (Unambiguous(ss) /\ IsHeader(buf))
      BY <1>2 DEF InStep
    <2> QED
      BY <2>1, HeadIsMessage
  <1>4. L = Len(ss[k]) /\ SubSeq(buf, 1, L) = ss[k]
    BY <1>3, MessageAt
  <1> DEFINE e == Boundary(ss, k)
  <1>5. L \in Nat /\ L >= 19 /\ e = first + L /\ e \in Nat
    BY <1>3, <1>4, MessageBounds
  <1>6. ASSUME NEW i \in 1 .. Len(ss)
        PROVE  /\ Boundary(ss, i - 1) \in Nat /\ Boundary(ss, i) \in Nat
               /\ i < k => Boundary(ss, i) <= first
               /\ k < i => Boundary(ss, i - 1) >= e
               /\ IsMessage(ss[i]) => Boundary(ss, i) >= Boundary(ss, i - 1) + 19
               /\ i < k \/ i = k \/ k < i
    <2> DEFINE c == Boundary(ss, i - 1)
               d == Boundary(ss, i)
               M == Len(ss[i])
    <2>1. c \in Nat /\ d \in Nat /\ M \in Nat /\ d = c + M /\ (IsMessage(ss[i]) => M >= 19)
      BY MessageBounds
    <2>2. i < k => d <= first
      BY <1>3, InOrder
    <2>3. k < i => e <= c
      BY InOrder
    <2>4. i < k \/ i = k \/ k < i
      OBVIOUS
    <2> HIDE DEF c, d, e, M
    <2>5. (e <= c => c >= e) /\ (M >= 19 => d >= c + 19)
      BY <1>5, <2>1
    <2> QED
      BY <2>1, <2>2, <2>3, <2>4, <2>5 DEF c, d
  <1>7. NoneCut(ss, begun, e)
    <2> SUFFICES ASSUME NEW i \in 1 .. Len(ss)
                 PROVE  Boundary(ss, i) <= e \/ Boundary(ss, i - 1) >= e
      BY DEF NoneCut
    <2> DEFINE d == Boundary(ss, i)
    <2>1. d \in Nat /\ (i < k => d <= first) /\ (i = k => d = e)
      BY <1>6
    <2>2. i < k \/ i = k \/ Boundary(ss, i - 1) >= e
      BY <1>6
    <2> HIDE DEF d, e
    <2>a. d \in Nat /\ e \in Nat /\ first \in Nat /\ e = first + L /\ L \in Nat
      BY <1>1, <1>5, <2>1
    <2>3. (d <= first => d <= e) /\ (d = e => d <= e)
      BY <2>a
    <2> QED
      BY <2>1, <2>2, <2>3 DEF d
  <1>8. Inside(ss, begun, first) \subseteq 1 .. (k - 1)
    <2> SUFFICES ASSUME NEW i \in Inside(ss, begun, first)
                 PROVE  i \in 1 .. (k - 1)
      OBVIOUS
    <2>1. i \in 1 .. Len(ss) /\ IsMessage(ss[i]) /\ Boundary(ss, i) <= first
      BY DEF Inside
    <2> DEFINE c == Boundary(ss, i - 1)
               d == Boundary(ss, i)
    <2>2. /\ c \in Nat /\ d \in Nat /\ d <= first /\ d >= c + 19
          /\ (i = k => d = e) /\ (k < i => c >= e) /\ (i < k \/ i = k \/ k < i)
      BY <1>6, <2>1
    <2> HIDE DEF c, d, e
    <2>3. d # e /\ ~(c >= e)
      BY <1>1, <1>5, <2>2
    <2>4. i < k
      BY <2>2, <2>3
    <2> QED
      BY <2>1, <2>4
  <1>9. Inside(ss, begun, e) = Inside(ss, begun, first) \cup {k}
    <2>1. ASSUME NEW i \in Inside(ss, begun, e)
          PROVE  i \in Inside(ss, begun, first) \cup {k}
      <3>1. /\ i \in DOMAIN ss /\ i \in 1 .. Len(ss) /\ IsMessage(ss[i])
            /\ Boundary(ss, i - 1) >= begun /\ Boundary(ss, i) <= e
        BY DEF Inside
      <3> DEFINE c == Boundary(ss, i - 1)
                 d == Boundary(ss, i)
      <3>2. /\ c \in Nat /\ d \in Nat /\ d <= e /\ d >= c + 19
            /\ (i < k => d <= first) /\ (k < i => c >= e) /\ (i < k \/ i = k \/ k < i)
        BY <1>6, <3>1
      <3>3. ~(c >= e)
        <4> HIDE DEF c, d, e
        <4> QED
          BY <1>5, <3>2
      <3>4. i = k \/ d <= first
        BY <3>2, <3>3
      <3> QED
        BY <3>1, <3>4 DEF Inside
    <2>2. ASSUME NEW i \in Inside(ss, begun, first)
          PROVE  i \in Inside(ss, begun, e)
      <3>1. /\ i \in DOMAIN ss /\ i \in 1 .. Len(ss) /\ IsMessage(ss[i])
            /\ Boundary(ss, i - 1) >= begun /\ Boundary(ss, i) <= first
        BY DEF Inside
      <3> DEFINE d == Boundary(ss, i)
      <3>2. d \in Nat /\ d <= first
        BY <1>6, <3>1
      <3>3. d <= e
        <4> HIDE DEF d, e
        <4> QED
          BY <1>1, <1>5, <3>2
      <3> QED
        BY <3>1, <3>3 DEF Inside
    <2>3. k \in Inside(ss, begun, e)
      <3>1. Boundary(ss, k - 1) >= begun
        BY <1>1, <1>2, <1>3
      <3>2. e <= e
        <4> HIDE DEF e
        <4> QED
          BY <1>5
      <3> QED
        BY <1>3, <3>1, <3>2 DEF Inside
    <2> QED
      BY <2>1, <2>2, <2>3
  <1>10. Between(ss, begun, e) = Append(Between(ss, begun, first), ss[k])
    <2> DEFINE P == Inside(ss, begun, first)
               Q == Inside(ss, begun, e)
    <2>1. P \subseteq 1 .. (k - 1) /\ Q = P \cup {k}
      BY <1>8, <1>9
    <2> HIDE DEF P, Q
    <2>2. Picked(ss, Q) = Append(Picked(ss, P), ss[k])
      BY <2>1, PickedLast
    <2> QED
      BY <2>2 DEF Between, P, Q
  <1>11. e \in Boundaries(ss)
    <2>1. k \in 0 .. Len(ss)
      OBVIOUS
    <2> QED
      BY <2>1 DEF Boundaries
  <1> HIDE DEF e
  <1> QED
    BY <1>2, <1>4, <1>5, <1>7, <1>10, <1>11 DEF Aligned

-----------------------------------------------------------------------------
(***************************************************************************)
(* BgpWire: the framing of the peer's stream.                              *)
(***************************************************************************)
\* A whole message was not left behind when the reader waits, and no
\* NOTIFICATION popped while the session goes on.
Waits(ss, ph, begun, first, read, popped) ==
    /\ ph # "closed" => \A i \in DOMAIN popped : ~parse_notification(popped[i])
    /\ ph = "driving" /\ InSync(ss, begun) => Between(ss, first, read) = <<>>

\* The buffer holds what was read of the stream and not yet popped or dropped;
\* before it lie the messages popped, and none reaches into it.
Framing(ss, ph, read, buf, popped, begun) ==
    LET first == read - Len(buf) IN
    /\ ss \in Seq(Seq(Bytes))
    /\ Buffered(buf, FlattenSeq(ss), first, read) /\ begun \in Nat /\ begun <= first
    /\ ph = "opening" => read = 0 /\ buf = <<>> /\ popped = <<>>
    /\ ph \in {"driving", "parsing", "closed"} /\ (InSync(ss, begun) \/ Unambiguous(ss)) =>
          Aligned(ss, begun, first, popped) /\ Waits(ss, ph, begun, first, read, popped)

FramingInv == Framing(transcript, phase, received, incoming, taken, start)

\* The invariant in the terms of any place first.
LEMMA FramingAt ==
    ASSUME NEW ss \in Seq(Seq(Bytes)), NEW ph, NEW read, NEW buf, NEW popped, NEW begun \in Nat,
           NEW first, Buffered(buf, FlattenSeq(ss), first, read), begun <= first,
           ph # "opening",
           ph \in {"driving", "parsing", "closed"} /\ (InSync(ss, begun) \/ Unambiguous(ss)) =>
               Aligned(ss, begun, first, popped) /\ Waits(ss, ph, begun, first, read, popped)
    PROVE  Framing(ss, ph, read, buf, popped, begun)
  <1>1. first \in Nat /\ read \in Nat /\ Len(buf) = read - first
    BY BufferFacts DEF Buffered
  <1>2. read - Len(buf) = first
    BY <1>1
  <1> QED
    BY <1>2, Zenon DEF Framing

LEMMA FramingParts ==
    ASSUME NEW ss, NEW ph, NEW read, NEW buf, NEW popped, NEW begun,
           Framing(ss, ph, read, buf, popped, begun), NEW first, first = read - Len(buf)
    PROVE  /\ ss \in Seq(Seq(Bytes))
           /\ Buffered(buf, FlattenSeq(ss), first, read) /\ begun \in Nat /\ begun <= first
           /\ ph = "opening" => read = 0 /\ buf = <<>> /\ popped = <<>>
           /\ ph \in {"driving", "parsing", "closed"} /\ (InSync(ss, begun) \/ Unambiguous(ss)) =>
                 Aligned(ss, begun, first, popped) /\ Waits(ss, ph, begun, first, read, popped)
  BY Zenon DEF Framing

LEMMA EmptyBuffer ==
    ASSUME NEW s \in Seq(Bytes), NEW n \in Nat, n <= Len(s)
    PROVE  Buffered(<<>>, s, n, n)
  <1>1. SubSeq(s, n + 1, n) = <<>> /\ n <= n
    OBVIOUS
  <1> QED
    BY <1>1 DEF Buffered

LEMMA WireInitInv == WireInit => FramingInv
  <1> SUFFICES ASSUME WireInit
               PROVE  FramingInv
    OBVIOUS
  <1>1. /\ transcript \in Transcripts /\ phase = "opening"
        /\ received = 0 /\ incoming = <<>> /\ taken = <<>> /\ start = 0
    BY DEF WireInit
  <1>2. transcript \in Seq(Seq(Bytes))
    BY <1>1, WireAssumption DEF Bytes
  <1>3. FlattenSeq(transcript) \in Seq(Bytes)
    BY <1>2, BoundaryFacts
  <1> DEFINE s == FlattenSeq(transcript)
  <1>4. Buffered(<<>>, s, 0, 0)
    <2> HIDE DEF s
    <2>1. 0 \in Nat /\ 0 <= Len(s)
      BY <1>3 DEF s
    <2> QED
      BY <1>3, <2>1, EmptyBuffer DEF s
  <1>5. 0 - Len(<<>>) = 0 /\ 0 \in Nat /\ 0 <= 0
    <2>1. Len(<<>>) = 0
      OBVIOUS
    <2>2. 0 - 0 = 0 /\ 0 \in Nat /\ 0 <= 0
      OBVIOUS
    <2> QED
      BY <2>1, <2>2, Zenon
  <1>6. phase \notin {"driving", "parsing", "closed"}
    BY <1>1
  <1> QED
    BY <1>1, <1>2, <1>4, <1>5, <1>6 DEF FramingInv, Framing

LEMMA ConnectInv == FramingInv /\ connect => FramingInv'
  <1> SUFFICES ASSUME FramingInv, connect
               PROVE  FramingInv'
    OBVIOUS
  <1> DEFINE ss == transcript
             s  == FlattenSeq(ss)
  <1>1. /\ ss \in Seq(Seq(Bytes)) /\ received = 0 /\ incoming = <<>> /\ taken = <<>>
    BY Zenon DEF FramingInv, Framing, connect
  <1>2. PICK n \in 1 .. Unread : received' = n /\ start' = n
    BY Zenon DEF connect
  <1>3. /\ transcript' = ss /\ incoming' = <<>> /\ taken' = <<>>
        /\ phase' \in {"failed", "panicked", "driving"}
    BY <1>1 DEF connect
  <1>4. s \in Seq(Bytes)
    BY <1>1, BoundaryFacts
  <1>5. n \in Nat /\ n <= Len(s)
    <2>1. Unread = Len(s) - received
      BY DEF Unread, Stream
    <2> HIDE DEF s
    <2> QED
      BY <1>1, <1>2, <1>4, <2>1
  <1>6. Buffered(<<>>, s, n, n)
    BY <1>4, <1>5, EmptyBuffer
  <1>7. Aligned(ss, n, n, <<>>) /\ Between(ss, n, n) = <<>>
    BY <1>1, <1>5, BeginsAligned
  <1>8. Waits(ss, phase', n, n, n, <<>>)
    <2>1. DOMAIN <<>> = {}
      OBVIOUS
    <2> QED
      BY <1>7, <2>1 DEF Waits
  <1>9. n <= n
    BY <1>5
  <1> HIDE DEF ss, s
  <1>10. phase' # "opening"
    BY <1>3
  <1>11. Framing(ss, phase', n, <<>>, <<>>, n)
    BY <1>1, <1>5, <1>6, <1>7, <1>8, <1>9, <1>10, FramingAt DEF s
  <1> QED
    BY <1>2, <1>3, <1>11 DEF FramingInv, ss

LEMMA ReadInv == FramingInv /\ ReadBytes => FramingInv'
  <1> SUFFICES ASSUME FramingInv, ReadBytes
               PROVE  FramingInv'
    OBVIOUS
  <1> DEFINE ss == transcript
             s  == FlattenSeq(ss)
             begun == start
             read == received
             buf == incoming
             popped == taken
             first == read - Len(buf)
  <1>0. Framing(ss, phase, read, buf, popped, begun) /\ first = read - Len(buf) /\ phase = "driving"
    BY DEF FramingInv, ReadBytes
  <1>1. /\ ss \in Seq(Seq(Bytes))
        /\ Buffered(buf, s, first, read) /\ begun \in Nat /\ begun <= first
        /\ InSync(ss, begun) \/ Unambiguous(ss) =>
              Aligned(ss, begun, first, popped) /\ Waits(ss, phase, begun, first, read, popped)
    <2> HIDE DEF ss, begun, read, buf, popped, first
    <2> QED
      BY <1>0, FramingParts
  <1>2. PICK n \in 1 .. Unread :
           received' = read + n /\ incoming' = buf \o SubSeq(s, read + 1, read + n)
    BY Zenon DEF ReadBytes, Chunk, Stream
  <1>3. transcript' = ss /\ taken' = popped /\ start' = begun /\ phase' = "parsing"
    BY DEF ReadBytes
  <1>4. Unread = Len(s) - read
    BY DEF Unread, Stream
  <1> DEFINE buf2 == buf \o SubSeq(s, read + 1, read + n)
  <1>5. incoming' = buf2
    BY <1>2
  <1> HIDE DEF ss, s, begun, read, buf, popped, first
  <1>6. s \in Seq(Bytes) /\ read \in Nat
    BY <1>1 DEF Buffered
  <1>7. n \in Nat /\ read + n <= Len(s)
    BY <1>2, <1>4, <1>6
  <1>8. Buffered(buf2, s, first, read + n)
    BY <1>1, <1>7, BufferMore
  <1> HIDE DEF buf2
  <1> DEFINE ph == phase'
             read2 == read + n
  <1>9. ph = "parsing"
    BY <1>3
  <1> HIDE DEF ph, read2
  <1>10. InSync(ss, begun) \/ Unambiguous(ss) =>
              Aligned(ss, begun, first, popped) /\ Waits(ss, ph, begun, first, read2, popped)
    BY <1>0, <1>1, <1>9 DEF Waits
  <1>11. Framing(ss, ph, read2, buf2, popped, begun)
    BY <1>1, <1>8, <1>9, <1>10, FramingAt DEF read2, s
  <1> QED
    BY <1>2, <1>3, <1>5, <1>11 DEF FramingInv, ph, read2, ss

\* The four ways in which take_message ends.
LEMMA TakeMessage ==
    ASSUME NEW buf
    PROVE  \/ Len(buf) < 19 /\ take_message(buf) = Nothing(buf)
           \/ ~(Len(buf) < 19) /\ ~IsHeader(buf) /\ take_message(buf) = Nothing(Tail(buf))
           \/ /\ ~(Len(buf) < 19) /\ Len(buf) < be16(buf, 17)
              /\ take_message(buf) = Nothing(buf)
           \/ /\ ~(Len(buf) < 19) /\ IsHeader(buf) /\ ~(Len(buf) < be16(buf, 17))
              /\ take_message(buf) = [msg  |-> SubSeq(buf, 1, be16(buf, 17)),
                                      rest |-> SubSeq(buf, be16(buf, 17) + 1, Len(buf))]
  BY Zenon DEF take_message

\* What a pop does, with what take_message has made of the buffer.
Popped(t, buf, popped, buf2, popped2, ph2) ==
    /\ buf2 = t.rest
    /\ popped2 = IF t.msg = <<>> THEN popped ELSE Append(popped, t.msg)
    /\ ph2 = IF t.msg = <<>> THEN "driving"
             ELSE IF parse_notification(t.msg) THEN "closed" ELSE "parsing"

LEMMA NothingPopped ==
    ASSUME NEW buf, NEW rest, NEW popped, NEW buf2, NEW popped2, NEW ph2,
           Popped(Nothing(rest), buf, popped, buf2, popped2, ph2)
    PROVE  buf2 = rest /\ popped2 = popped /\ ph2 = "driving"
  <1>1. Nothing(rest).msg = <<>> /\ Nothing(rest).rest = rest
    BY DEF Nothing
  <1> QED
    BY <1>1 DEF Popped

\* Nothing to take of fewer than 19 bytes, or before the rest has come.
LEMMA PopNothing ==
    ASSUME NEW ss \in Seq(Seq(Bytes)), NEW begun \in Nat, NEW popped, NEW buf, NEW first, NEW read,
           Buffered(buf, FlattenSeq(ss), first, read), begun <= first,
           InSync(ss, begun) \/ Unambiguous(ss) =>
               Aligned(ss, begun, first, popped) /\ Waits(ss, "parsing", begun, first, read, popped),
           \/ Len(buf) < 19
           \/ ~(Len(buf) < 19) /\ Len(buf) < be16(buf, 17)
    PROVE  Framing(ss, "driving", read, buf, popped, begun)
  <1>1. first \in Nat /\ read \in Nat /\ Len(buf) = read - first /\ Len(buf) \in Nat
    BY BufferFacts DEF Buffered
  <1>2. ASSUME InSync(ss, begun) \/ Unambiguous(ss), InSync(ss, begun)
        PROVE  Between(ss, first, read) = <<>>
    <2>1. CASE Len(buf) < 19
      <3>1. read < first + 19
        BY <1>1, <2>1
      <3> QED
        BY <1>1, <3>1, NoneInside
    <2>2. CASE ~(Len(buf) < 19) /\ Len(buf) < be16(buf, 17)
      <3>1. first \in Boundaries(ss)
        BY <1>2 DEF Aligned
      <3>2. InStep(ss, begun, first)
        BY <1>2, <3>1 DEF InStep
      <3>3. Len(buf) >= 19
        BY <1>1, <2>2
      <3> QED
        BY <2>2, <3>2, <3>3, NoneWaits
    <2> QED
      BY <2>1, <2>2
  <1>3. InSync(ss, begun) \/ Unambiguous(ss) =>
           Aligned(ss, begun, first, popped) /\ Waits(ss, "driving", begun, first, read, popped)
    BY <1>2 DEF Waits
  <1> DEFINE ph == "driving"
  <1>4. ph = "driving"
    OBVIOUS
  <1> HIDE DEF ph
  <1>5. Framing(ss, ph, read, buf, popped, begun)
    BY <1>3, <1>4, FramingAt
  <1> QED
    BY <1>5 DEF ph

\* A byte that begins no header is dropped.
LEMMA PopDrops ==
    ASSUME NEW ss \in Seq(Seq(Bytes)), NEW begun \in Nat, NEW popped, NEW buf, NEW first, NEW read,
           Buffered(buf, FlattenSeq(ss), first, read), begun <= first,
           InSync(ss, begun) \/ Unambiguous(ss) =>
               Aligned(ss, begun, first, popped) /\ Waits(ss, "parsing", begun, first, read, popped),
           ~(Len(buf) < 19), ~IsHeader(buf)
    PROVE  Framing(ss, "driving", read, Tail(buf), popped, begun)
  <1>1. first \in Nat /\ read \in Nat /\ Len(buf) \in Nat /\ Len(buf) >= 19 /\ buf \in Seq(Bytes)
    BY BufferFacts DEF Buffered
  <1> DEFINE rest == SubSeq(buf, 1 + 1, Len(buf))
             after == first + 1
             ph == "driving"
  <1>2. rest = Tail(buf)
    BY <1>1
  <1>3. Buffered(rest, FlattenSeq(ss), after, read)
    <2>1. 1 \in Nat /\ 1 <= Len(buf)
      BY <1>1
    <2> QED
      BY <2>1, BufferRest
  <1>4. ASSUME InSync(ss, begun) \/ Unambiguous(ss)
        PROVE  Aligned(ss, begun, after, popped) /\ Waits(ss, ph, begun, after, read, popped)
    <2>1. Aligned(ss, begun, first, popped) /\ Waits(ss, "parsing", begun, first, read, popped)
      BY <1>4
    <2>2. Judged(ss, begun, first, popped)
      BY <1>4, <2>1 DEF Judged
    <2>3. ~InSync(ss, begun) /\ Aligned(ss, begun, after, popped)
      BY <1>1, <2>2, ByteDropped
    <2> QED
      BY <2>1, <2>3 DEF Waits
  <1>5. begun <= after
    BY <1>1
  <1>6. ph # "opening"
    OBVIOUS
  <1> HIDE DEF rest, after, ph
  <1>7. Framing(ss, ph, read, rest, popped, begun)
    BY <1>3, <1>4, <1>5, <1>6, FramingAt
  <1> QED
    BY <1>2, <1>7 DEF ph

LEMMA LengthFacts == \A n \in MessageLengths : n \in Nat /\ n >= 19
  BY SMT DEF MessageLengths

LEMMA AppendFacts ==
    ASSUME NEW B, NEW s \in Seq(B), NEW x \in B, NEW t, t = Append(s, x)
    PROVE  \A i \in DOMAIN t : (i \in DOMAIN s /\ t[i] = s[i]) \/ t[i] = x
  OBVIOUS

\* The next message is taken, and a NOTIFICATION ends the session.
LEMMA PopTakes ==
    ASSUME NEW ss \in Seq(Seq(Bytes)), NEW begun \in Nat, NEW popped, NEW buf, NEW first, NEW read,
           Buffered(buf, FlattenSeq(ss), first, read), begun <= first,
           InSync(ss, begun) \/ Unambiguous(ss) =>
               Aligned(ss, begun, first, popped) /\ Waits(ss, "parsing", begun, first, read, popped),
           ~(Len(buf) < 19), IsHeader(buf), NEW L, L = be16(buf, 17), ~(Len(buf) < L),
           NEW m, m = SubSeq(buf, 1, L), NEW ph,
           ph = IF parse_notification(m) THEN "closed" ELSE "parsing"
    PROVE  m # <<>> /\ Framing(ss, ph, read, SubSeq(buf, L + 1, Len(buf)), Append(popped, m), begun)
  <1>1. first \in Nat /\ read \in Nat /\ Len(buf) \in Nat /\ Len(buf) >= 19 /\ buf \in Seq(Bytes)
    BY BufferFacts DEF Buffered
  <1>2. L \in Nat /\ L >= 19 /\ Len(buf) >= L
    <2>1. L \in MessageLengths
      BY DEF IsHeader
    <2>2. L \in Nat /\ L >= 19
      BY <2>1, LengthFacts
    <2> QED
      BY <1>1, <2>2
  <1>3. m \in Seq(Bytes) /\ Len(m) = L
    BY <1>1, <1>2, PrefixFacts DEF HoldsFirst
  <1>4. m # <<>>
    <2>1. Len(<<>>) = 0
      OBVIOUS
    <2> QED
      BY <1>2, <1>3, <2>1
  <1> DEFINE rest == SubSeq(buf, L + 1, Len(buf))
             after == first + L
             popped2 == Append(popped, m)
  <1>5. Buffered(rest, FlattenSeq(ss), after, read)
    BY <1>2, BufferRest
  <1>6. ASSUME InSync(ss, begun) \/ Unambiguous(ss)
        PROVE  Aligned(ss, begun, after, popped2) /\ Waits(ss, ph, begun, after, read, popped2)
    <2>1. Aligned(ss, begun, first, popped) /\ Waits(ss, "parsing", begun, first, read, popped)
      BY <1>6
    <2>2. Judged(ss, begun, first, popped)
      BY <1>6, <2>1 DEF Judged
    <2>3. Aligned(ss, begun, after, popped2)
      BY <1>1, <1>2, <2>2, MessageTaken
    <2>4. ASSUME ph # "closed"
          PROVE  \A i \in DOMAIN popped2 : ~parse_notification(popped2[i])
      <3>1. ~parse_notification(m)
        BY <2>4
      <3>2. \A i \in DOMAIN popped : ~parse_notification(popped[i])
        BY <2>1 DEF Waits
      <3>3. popped \in Seq(Seq(Bytes))
        <4> DEFINE P == Inside(ss, begun, first)
        <4>1. popped = Picked(ss, P)
          BY <2>1 DEF Aligned, Between
        <4> HIDE DEF P
        <4>2. PICK g : Picks(g, ss, P) /\ Picked(ss, P) = g[Len(ss)]
          BY PickedUnfolds, Zenon
        <4>3. Len(ss) \in 0 .. Len(ss)
          OBVIOUS
        <4> QED
          BY <4>1, <4>2, <4>3 DEF Picks
      <3>4. \A i \in DOMAIN popped2 :
                \/ i \in DOMAIN popped /\ popped2[i] = popped[i]
                \/ popped2[i] = m
        <4>1. popped2 = Append(popped, m)
          OBVIOUS
        <4> HIDE DEF popped2
        <4> QED
          BY <1>3, <3>3, <4>1, AppendFacts
      <3> QED
        BY <3>1, <3>2, <3>4, Zenon
    <2>5. ph # "driving"
      OBVIOUS
    <2> QED
      BY <2>3, <2>4, <2>5 DEF Waits
  <1>7. begun <= after
    BY <1>1, <1>2
  <1>8. ph # "opening"
    OBVIOUS
  <1> HIDE DEF rest, after, popped2
  <1>9. Framing(ss, ph, read, rest, popped2, begun)
    BY <1>5, <1>6, <1>7, <1>8, FramingAt
  <1> QED
    BY <1>4, <1>9 DEF rest, popped2

LEMMA PopInv == FramingInv /\ PopMessage => FramingInv'
  <1> SUFFICES ASSUME FramingInv, PopMessage
               PROVE  FramingInv'
    OBVIOUS
  <1> DEFINE ss == transcript
             begun == start
             read == received
             buf == incoming
             popped == taken
             first == read - Len(buf)
             buf2 == incoming'
             popped2 == taken'
             ph == phase'
             t == take_message(buf)
  <1>1. /\ Framing(ss, "parsing", read, buf, popped, begun) /\ first = read - Len(buf)
        /\ Popped(t, buf, popped, buf2, popped2, ph)
        /\ transcript' = ss /\ received' = read /\ start' = begun
    BY Zenon DEF FramingInv, PopMessage, Popped
  <1>2. FramingInv' <=> Framing(ss, ph, read, buf2, popped2, begun)
    BY <1>1 DEF FramingInv
  <1> HIDE DEF ss, begun, read, buf, popped, first, buf2, popped2, ph, t
  <1>3. /\ ss \in Seq(Seq(Bytes)) /\ begun \in Nat
        /\ Buffered(buf, FlattenSeq(ss), first, read) /\ begun <= first
        /\ InSync(ss, begun) \/ Unambiguous(ss) =>
             Aligned(ss, begun, first, popped) /\ Waits(ss, "parsing", begun, first, read, popped)
    BY <1>1, FramingParts
  <1>4. ASSUME t = Nothing(buf),
               Len(buf) < 19 \/ (~(Len(buf) < 19) /\ Len(buf) < be16(buf, 17))
        PROVE  Framing(ss, ph, read, buf2, popped2, begun)
    <2>1. buf2 = buf /\ popped2 = popped /\ ph = "driving"
      BY <1>1, <1>4, NothingPopped
    <2>2. Framing(ss, "driving", read, buf, popped, begun)
      BY <1>3, <1>4, PopNothing
    <2> QED
      BY <2>1, <2>2
  <1>5. ASSUME t = Nothing(Tail(buf)), ~(Len(buf) < 19), ~IsHeader(buf)
        PROVE  Framing(ss, ph, read, buf2, popped2, begun)
    <2> DEFINE tail == Tail(buf)
    <2>1. buf2 = tail /\ popped2 = popped /\ ph = "driving"
      <3>1. Popped(Nothing(tail), buf, popped, buf2, popped2, ph)
        BY <1>1, <1>5
      <3> HIDE DEF tail
      <3> QED
        BY <3>1, NothingPopped
    <2>2. Framing(ss, "driving", read, tail, popped, begun)
      BY <1>3, <1>5, PopDrops
    <2> HIDE DEF tail
    <2> QED
      BY <2>1, <2>2
  <1>6. ASSUME ~(Len(buf) < 19), IsHeader(buf), ~(Len(buf) < be16(buf, 17)),
               t = [msg  |-> SubSeq(buf, 1, be16(buf, 17)),
                    rest |-> SubSeq(buf, be16(buf, 17) + 1, Len(buf))]
        PROVE  Framing(ss, ph, read, buf2, popped2, begun)
    <2> DEFINE L == be16(buf, 17)
               m == SubSeq(buf, 1, L)
               rest == SubSeq(buf, L + 1, Len(buf))
               ph3 == IF parse_notification(m) THEN "closed" ELSE "parsing"
    <2>1. t.msg = m /\ t.rest = rest
      BY <1>6
    <2>2. m # <<>> /\ Framing(ss, ph3, read, rest, Append(popped, m), begun)
      BY <1>3, <1>6, PopTakes
    <2> HIDE DEF L, m, rest
    <2>3. buf2 = rest /\ popped2 = Append(popped, m) /\ ph = ph3
      BY <1>1, <2>1, <2>2, Zenon DEF Popped
    <2> HIDE DEF ph3
    <2> QED
      BY <2>2, <2>3
  <1>7. Framing(ss, ph, read, buf2, popped2, begun)
    <2> DEFINE A == Len(buf) < 19
               H == IsHeader(buf)
               C == Len(buf) < be16(buf, 17)
    <2>1. \/ A /\ t = Nothing(buf)
          \/ ~A /\ ~H /\ t = Nothing(Tail(buf))
          \/ ~A /\ C /\ t = Nothing(buf)
          \/ ~A /\ H /\ ~C /\ t = [msg  |-> SubSeq(buf, 1, be16(buf, 17)),
                                   rest |-> SubSeq(buf, be16(buf, 17) + 1, Len(buf))]
      BY TakeMessage, Zenon DEF t
    <2> QED
      BY <1>4, <1>5, <1>6, <2>1, Zenon
  <1> QED
    BY <1>2, <1>7

\* The other arms of drive touch neither the buffer nor the history.
LEMMA OthersInv ==
    ASSUME FramingInv, UNCHANGED <<transcript, received, incoming, taken, start>>,
           \/ phase' = phase
           \/ phase' = "failed"
           \/ phase' = "closed" /\ phase = "driving"
    PROVE  FramingInv'
  <1> DEFINE ss == transcript
             begun == start
             read == received
             buf == incoming
             popped == taken
             first == read - Len(buf)
             p1 == phase
             ph == phase'
  <1>1. /\ Framing(ss, p1, read, buf, popped, begun) /\ first = read - Len(buf)
        /\ ph = p1 \/ ph = "failed" \/ (ph = "closed" /\ p1 = "driving")
    BY DEF FramingInv
  <1>2. FramingInv' <=> Framing(ss, ph, read, buf, popped, begun)
    BY DEF FramingInv
  <1> HIDE DEF ss, begun, read, buf, popped, first, p1, ph
  <1>3. CASE ph = p1
    BY <1>1, <1>2, <1>3
  <1>4. CASE ph = "failed" \/ (ph = "closed" /\ p1 = "driving")
    <2>1. /\ ss \in Seq(Seq(Bytes)) /\ begun \in Nat
          /\ Buffered(buf, FlattenSeq(ss), first, read) /\ begun <= first
          /\ p1 = "driving" /\ (InSync(ss, begun) \/ Unambiguous(ss)) =>
               Aligned(ss, begun, first, popped) /\ Waits(ss, p1, begun, first, read, popped)
      BY <1>1, FramingParts
    <2>2. ph # "opening"
      BY <1>4
    <2>3. ph \in {"driving", "parsing", "closed"} /\ (InSync(ss, begun) \/ Unambiguous(ss)) =>
              Aligned(ss, begun, first, popped) /\ Waits(ss, ph, begun, first, read, popped)
      BY <1>4, <2>1 DEF Waits
    <2>4. Framing(ss, ph, read, buf, popped, begun)
      BY <2>1, <2>2, <2>3, FramingAt
    <2> QED
      BY <1>2, <2>4
  <1> QED
    BY <1>1, <1>3, <1>4

LEMMA WireNextInv == FramingInv /\ [WireNext]_wireVars => FramingInv'
  <1> SUFFICES ASSUME FramingInv, [WireNext]_wireVars
               PROVE  FramingInv'
    OBVIOUS
  <1>1. CASE connect
    BY <1>1, ConnectInv
  <1>2. CASE ReadBytes
    BY <1>2, ReadInv
  <1>3. CASE PopMessage
    BY <1>3, PopInv
  <1>4. CASE SendUpdate \/ SendKeepalive \/ UNCHANGED wireVars
    <2>1. UNCHANGED <<transcript, received, incoming, taken, start>> /\ phase' = phase
      BY <1>4 DEF SendUpdate, SendKeepalive, wireVars
    <2> QED
      BY <2>1, OthersInv
  <1>5. CASE HoldExpires
    <2>1. /\ UNCHANGED <<transcript, received, incoming, taken, start>>
          /\ phase' = "closed" /\ phase = "driving"
      BY <1>5, Zenon DEF HoldExpires
    <2> QED
      BY <2>1, OthersInv
  <1>6. CASE PeerCloses
    <2>1. /\ UNCHANGED <<transcript, received, incoming, taken, start>>
          /\ phase' = "failed" \/ (phase' = "closed" /\ phase = "driving")
      BY <1>6 DEF PeerCloses
    <2> QED
      BY <2>1, OthersInv
  <1> QED
    BY <1>1, <1>2, <1>3, <1>4, <1>5, <1>6 DEF WireNext

\* However TCP cuts the peer's stream, take_message pops the messages sent, each
\* once and in order, and nothing else, unless the framing is lost in a stream
\* with a header inside a message; a NOTIFICATION ends the session, and a reader
\* in sync leaves no whole message behind when drive waits.
THEOREM FramingHolds == WireSpec => []FramingIsExact
  <1>1. FramingInv => FramingIsExact
    <2> SUFFICES ASSUME FramingInv, phase \in {"driving", "parsing", "closed"},
                        InSync(transcript, start) \/ Unambiguous(transcript)
                 PROVE  LET first == received - Len(incoming) IN
                        /\ taken = Between(transcript, start, first)
                        /\ phase = "driving" =>
                              /\ \A i \in DOMAIN taken : ~parse_notification(taken[i])
                              /\ InSync(transcript, start) =>
                                    Between(transcript, first, received) = <<>>
      BY Zenon DEF FramingIsExact
    <2> DEFINE first == received - Len(incoming)
    <2>1. /\ Aligned(transcript, start, first, taken)
          /\ Waits(transcript, phase, start, first, received, taken)
      BY Zenon DEF FramingInv, Framing
    <2>2. phase = "driving" => phase # "closed"
      OBVIOUS
    <2> HIDE DEF first
    <2>3. /\ taken = Between(transcript, start, first)
          /\ phase = "driving" =>
                /\ \A i \in DOMAIN taken : ~parse_notification(taken[i])
                /\ InSync(transcript, start) => Between(transcript, first, received) = <<>>
      BY <2>1, <2>2, Zenon DEF Aligned, Waits
    <2> QED
      BY <2>3 DEF first
  <1> QED
    BY <1>1, WireInitInv, WireNextInv, PTL DEF WireSpec
=============================================================================
