---------------------------- MODULE MaglevTable ----------------------------
(***************************************************************************)
(* LookupTable::build and lookup of lb-hashing: the filling of a Maglev    *)
(* table, one look at one slot per step.  The two hashes of a backend's    *)
(* name are taken as given; all that is known of them is their range.      *)
(***************************************************************************)
EXTENDS Integers, Sequences, FiniteSets

CONSTANTS
    TableSize,       \* m, a prime: DEFAULT_TABLE_SIZE is 65537
    WeightLists      \* the weights of the backends given to build

ASSUME PrimeAssumption ==
    /\ TableSize \in Nat \ {0, 1}
    /\ \A d \in 2 .. (TableSize - 1) : TableSize % d # 0
ASSUME WeightsAssumption == WeightLists \subseteq Seq(Nat)

Free == 0                        \* usize::MAX in the code

VARIABLES
    weights,     \* the weights of the active backends
    params,      \* params[i]: offset and skip of backend i
    entries,     \* entries[c]: the backend that has slot c, or Free
    next,        \* next[i]: how far i is in its preference list
    turn, chance,   \* the loop variables i and, counting down, chances
    building     \* build is in its loop; FALSE once it has returned

maglevVars == <<weights, params, entries, next, turn, chance, building>>

-----------------------------------------------------------------------------
MaglevSlots == 0 .. (TableSize - 1)

\* xxh3 with seed 0 and 1, reduced to these ranges.
offset == MaglevSlots

skip == 1 .. (TableSize - 1)

\* The next slot on backend i's preference list.
Preference(i) == (params[i].offset + next[i] * params[i].skip) % TableSize

Filled == Cardinality({c \in MaglevSlots : entries[c] # Free})

\* lookup reduces the flow hash to a slot.
lookup(hash) == entries[hash % TableSize]

\* Zero weights are filtered out; build fails when nothing is left.
Usable(ws) ==
    LET active[i \in 0 .. Len(ws)] ==
            IF i = 0 THEN <<>>
            ELSE IF ws[i] > 0 THEN Append(active[i - 1], ws[i]) ELSE active[i - 1]
    IN  active[Len(ws)]

MaglevInit ==
    /\ weights \in {Usable(ws) : ws \in WeightLists} \ {<<>>}
    /\ params \in [DOMAIN weights -> [offset : offset, skip : skip]]
    /\ entries = [c \in MaglevSlots |-> Free]
    /\ next = [i \in DOMAIN weights |-> 0]
    /\ turn = 1 /\ chance = weights[1]
    /\ building = TRUE

\* The slot is taken: look one further on the list.
Skip ==
    /\ building /\ entries[Preference(turn)] # Free
    /\ next' = [next EXCEPT ![turn] = @ + 1]
    /\ UNCHANGED <<weights, params, entries, turn, chance, building>>

\* Mutant of Advance: a backend's last chance is not taken back.
AdvanceOneMore ==
    IF chance > 0
    THEN chance' = chance - 1 /\ UNCHANGED turn
    ELSE /\ turn' = (turn % Len(weights)) + 1
         /\ chance' = weights[turn']

\* The next chance of this backend or the first of the next one.
Advance ==
    IF chance > 1
    THEN chance' = chance - 1 /\ UNCHANGED turn
    ELSE /\ turn' = (turn % Len(weights)) + 1
         /\ chance' = weights[turn']

Claim ==
    /\ building /\ entries[Preference(turn)] = Free
    /\ entries' = [entries EXCEPT ![Preference(turn)] = turn]
    /\ next' = [next EXCEPT ![turn] = @ + 1]
    /\ building' = (Filled + 1 < TableSize)
    /\ IF building' THEN Advance ELSE UNCHANGED <<turn, chance>>
    /\ UNCHANGED <<weights, params>>

MaglevNext == Skip \/ Claim
MaglevSpec == MaglevInit /\ [][MaglevNext]_maglevVars

-----------------------------------------------------------------------------
\* The slots of backend i, the weight of the first n backends and of all.
Slots(i) == Cardinality({h \in MaglevSlots : lookup(h) = i})
WeightOf(n) ==
    LET sum[k \in 0 .. Len(weights)] == IF k = 0 THEN 0 ELSE sum[k - 1] + weights[k]
    IN  sum[n]
Total == WeightOf(Len(weights))

\* What weight i is worth: its weight in every full pass over the backends, and
\* in the last one what those before it have left.
FairShare(i) ==
    LET left == (TableSize % Total) - WeightOf(i - 1)
    IN  (TableSize \div Total) * weights[i] +
        (IF left < 0 THEN 0 ELSE IF left > weights[i] THEN weights[i] ELSE left)

\* Every slot has a backend for lookup to return, and each backend has exactly its
\* fair share of them.
SharesAreFair ==
    /\ \A c \in MaglevSlots : entries[c] \in DOMAIN weights
    /\ \A i \in DOMAIN weights : Slots(i) = FairShare(i)

\* No backend looks for a free slot longer than once round the table: the size
\* is a prime, so a preference list meets every slot before it repeats one.
SearchEnds == \A i \in DOMAIN weights : next[i] < TableSize

\* Whatever the offsets and skips, while build runs its searches are bounded, and
\* when it returns the table is complete and its shares are fair.
TableIsFair == IF building THEN SearchEnds ELSE SharesAreFair
=============================================================================
