----------------------------- MODULE ConnTable -----------------------------
(***************************************************************************)
(* The connection table of one rewriter thread (conn_table.rs) under the   *)
(* sequence of calls the rewriter makes for each packet (threading.rs):    *)
(* get, then touch on a usable hit or insert otherwise, then the TCP       *)
(* transition of the packet's flags.                                       *)
(*                                                                         *)
(* insert is the Robin Hood probe loop, one action per iteration, so that  *)
(* its loop invariants can be stated.  Time is kept as the age of each     *)
(* entry (now - last_seen), which saturates once every TTL is exceeded.    *)
(***************************************************************************)
EXTENDS Integers, FiniteSets

CONSTANTS
    Capacity,     \* number of slots, a power of two
    Hashes,       \* the flow hashes that occur
    Backends,     \* the backends a Maglev lookup can give
    ProtoOf,      \* the protocol of each flow: "Tcp", "Udp" or "Other"
    FlagSets,     \* the combinations of TCP flags that arrive
    HealthReads,  \* what the health map may say of a cached backend
    Ttl,          \* ConnTtls: a duration per bucket
    Empty, NoFlags

Slots   == 0 .. (Capacity - 1)
Buckets == {"tcp_handshake", "tcp_closing", "tcp_established", "udp", "other"}
States  == {"NotTcp", "Handshake", "Established", "Closing"}

ASSUME ConnAssumption ==
    /\ Capacity \in Nat \ {0}
    /\ Hashes \subseteq Nat
    /\ ProtoOf \in [Hashes -> {"Tcp", "Udp", "Other"}]
    /\ FlagSets \subseteq SUBSET {"syn", "ack", "fin", "rst"}
    /\ HealthReads \subseteq BOOLEAN
    /\ Ttl \in [Buckets -> Nat]

MaxAge == CHOOSE m \in {Ttl[b] + 1 : b \in Buckets} : \A b \in Buckets : Ttl[b] + 1 <= m

ConnEntry == [hash : Hashes, backend_ip : Backends, state : States, age : 0 .. MaxAge]

ASSUME EmptyAssumption == Empty \notin ConnEntry

VARIABLES
    entries,   \* the slots: a ConnEntry or Empty (occupied = false)
    size,      \* the size counter
    ins,       \* the insert in progress, <<>> or its loop variables
    result,    \* the latest InsertResult
    before,    \* history: what the table held when the packet arrived
    reclaimed  \* history: an expired slot has been reclaimed

vars == <<entries, size, ins, result, before, reclaimed>>

(***************************************************************************)
(* Helpers.                                                                *)
(***************************************************************************)
ttl_for(h, state) ==
    CASE ProtoOf[h] = "Tcp" /\ state = "Handshake" -> Ttl["tcp_handshake"]
      [] ProtoOf[h] = "Tcp" /\ state = "Closing"   -> Ttl["tcp_closing"]
      [] ProtoOf[h] = "Tcp" /\ state \notin {"Handshake", "Closing"} -> Ttl["tcp_established"]
      [] ProtoOf[h] = "Udp"   -> Ttl["udp"]
      [] ProtoOf[h] = "Other" -> Ttl["other"]

is_expired(e) == e.age > ttl_for(e.hash, e.state)

probe_distance(h, i) == (i - (h % Capacity)) % Capacity

\* The slot where the probe of get, touch and with_matching_entry stops on a
\* match: every slot before it on the probe path is occupied, holds another
\* hash, and is at least as far from its own home as the probe has come.
Found(t, h) ==
    {i \in Slots :
        /\ t[i] # Empty /\ t[i].hash = h
        /\ \A j \in Slots : probe_distance(h, j) < probe_distance(h, i) =>
              /\ t[j] # Empty /\ t[j].hash # h
              /\ probe_distance(t[j].hash, j) >= probe_distance(h, j)}

\* The entry get returns the backend of, as a set of at most one slot.
get(t, h) == {i \in Found(t, h) : ~is_expired(t[i])}

touch(t, h) == [i \in Slots |-> IF i \in Found(t, h) THEN [t[i] EXCEPT !.age = 0] ELSE t[i]]

mark_established(t, h) ==
    [i \in Slots |->
        IF i \in Found(t, h) /\ ProtoOf[h] = "Tcp" /\ t[i].state # "Closing"
        THEN [t[i] EXCEPT !.state = "Established", !.age = 0] ELSE t[i]]

mark_closing(t, h) ==
    [i \in Slots |->
        IF i \in Found(t, h) /\ ProtoOf[h] = "Tcp"
        THEN [t[i] EXCEPT !.state = "Closing", !.age = 0] ELSE t[i]]

\* Mutant of promote_state: the newest state wins.
newest_state(existing, incoming) == incoming

promote_state(existing, incoming) ==
    CASE "Closing" \in {existing, incoming} -> "Closing"
      [] "Closing" \notin {existing, incoming} /\ "Established" \in {existing, incoming} -> "Established"
      [] {existing, incoming} \cap {"Closing", "Established"} = {} /\ "NotTcp" \in {existing, incoming} -> "NotTcp"
      [] {existing, incoming} = {"Handshake"} -> "Handshake"

initial_tcp_state(flags) ==
    CASE flags = NoFlags -> "NotTcp"
      [] flags # NoFlags /\ flags \cap {"rst", "fin"} # {} -> "Closing"
      [] flags # NoFlags /\ flags \cap {"rst", "fin", "syn"} = {} /\ "ack" \in flags -> "Established"
      [] flags # NoFlags /\ flags \cap {"rst", "fin"} = {} /\ {"syn", "ack"} \subseteq flags -> "Established"
      [] flags # NoFlags /\ flags \cap {"rst", "fin", "ack"} = {} -> "Handshake"

apply_tcp_transitions(t, h, flags) ==
    IF flags = NoFlags THEN t
    ELSE IF flags \cap {"rst", "fin"} # {} THEN mark_closing(t, h)
    ELSE IF "ack" \in flags /\ "syn" \notin flags THEN mark_established(t, h)
    ELSE t

Occupied(t) == {i \in Slots : t[i] # Empty}
Live(t, h)  == {i \in Occupied(t) : t[i].hash = h /\ ~is_expired(t[i])}

\* What the properties compare the table with after a packet.
Observe(h) == [hash |-> h,
               live |-> {g \in Hashes : Live(entries, g) # {}},
               closing |-> \E i \in Live(entries, h) : entries[i].state = "Closing"]

Idle == ins = <<>>

(***************************************************************************)
(* A packet.                                                               *)
(***************************************************************************)
\* get hits a backend the health map does not call Unhealthy: touch it and
\* apply the flags' transition.
PacketHit(h, flags) ==
    /\ Idle /\ get(entries, h) # {} /\ TRUE \in HealthReads
    /\ entries' = apply_tcp_transitions(touch(entries, h), h, flags)
    /\ before' = Observe(h)
    /\ result' = "none"
    /\ UNCHANGED <<size, ins, reclaimed>>

\* get misses, or hits a backend read as Unhealthy: insert the backend b that
\* the lookup table gives.
PacketInsert(h, flags, b) ==
    /\ Idle /\ (get(entries, h) = {} \/ FALSE \in HealthReads)
    /\ ins' = [cur |-> [hash |-> h, backend_ip |-> b, state |-> initial_tcp_state(flags), age |-> 0],
               idx |-> h % Capacity, dist |-> 0, n |-> 0, hash |-> h, flags |-> flags]
    /\ before' = Observe(h)
    /\ result' = "none"
    /\ UNCHANGED <<entries, size, reclaimed>>

\* The end of insert, then the transition that follows it in the rewriter.
Finish(t, r) ==
    /\ entries' = apply_tcp_transitions(t, ins.hash, ins.flags)
    /\ result' = r
    /\ ins' = <<>>
    /\ reclaimed' = (reclaimed \/ r = "EvictedExpired")
    /\ UNCHANGED before

InsertEmpty ==
    /\ ~Idle /\ entries[ins.idx] = Empty
    /\ Finish([entries EXCEPT ![ins.idx] = ins.cur], "Inserted")
    /\ size' = size + 1

InsertExpired ==
    /\ ~Idle /\ entries[ins.idx] # Empty /\ is_expired(entries[ins.idx])
    /\ Finish([entries EXCEPT ![ins.idx] = ins.cur], "EvictedExpired")
    /\ UNCHANGED size

\* The slots the loop goes past: occupied and live.
Occupant == entries[ins.idx]
Blocked  == ~Idle /\ Occupant # Empty /\ ~is_expired(Occupant)

InsertUpdate ==
    /\ Blocked /\ Occupant.hash = ins.cur.hash
    /\ Finish([entries EXCEPT ![ins.idx] =
                  [ins.cur EXCEPT !.state = promote_state(Occupant.state, ins.cur.state)]], "Updated")
    /\ UNCHANGED size

\* One more iteration: swap or not with the incumbent, go on to the next slot
\* with the distance of the entry now in hand, and give up after as many
\* iterations as there are slots.
ProbeStep(swap, dist, next) ==
    LET t == IF swap THEN [entries EXCEPT ![ins.idx] = ins.cur] ELSE entries IN
    /\ \/ /\ ins.n + 1 = Capacity
          /\ Finish(t, "DroppedFull")
       \/ /\ ins.n + 1 < Capacity
          /\ entries' = t
          /\ ins' = [ins EXCEPT !.cur = IF swap THEN Occupant ELSE @,
                                !.dist = dist + 1, !.idx = next, !.n = @ + 1]
          /\ UNCHANGED <<result, before, reclaimed>>
    /\ UNCHANGED size

Incumbent == probe_distance(Occupant.hash, ins.idx)
Mismatch  == Blocked /\ Occupant.hash # ins.cur.hash

\* Mutants of InsertProbe: nothing is ever displaced; an entry is displaced one
\* step too late; a displaced entry is overwritten without being carried on.
ProbeNoSwap   == Mismatch /\ ProbeStep(FALSE, ins.dist, (ins.idx + 1) % Capacity)
ProbeLateSwap ==
    Mismatch /\ ProbeStep(Incumbent + 1 < ins.dist,
                          IF Incumbent + 1 < ins.dist THEN Incumbent ELSE ins.dist,
                          (ins.idx + 1) % Capacity)
ProbeForgets ==
    /\ Mismatch
    /\ \/ /\ Incumbent < ins.dist
          /\ Finish([entries EXCEPT ![ins.idx] = ins.cur], "Inserted")
          /\ UNCHANGED size
       \/ /\ Incumbent >= ins.dist
          /\ ProbeStep(FALSE, ins.dist, (ins.idx + 1) % Capacity)

\* The incumbent that is closer to its home than the entry in hand gives way.
InsertProbe ==
    LET swap == Incumbent < ins.dist IN
    Mismatch /\ ProbeStep(swap, IF swap THEN Incumbent ELSE ins.dist, (ins.idx + 1) % Capacity)

\* The clock advances between two packets.
Tick ==
    /\ Idle
    /\ entries' = [i \in Slots |->
          IF entries[i] = Empty \/ entries[i].age = MaxAge THEN entries[i]
          ELSE [entries[i] EXCEPT !.age = @ + 1]]
    /\ result' = "none"
    /\ UNCHANGED <<size, ins, before, reclaimed>>

Init ==
    /\ entries = [i \in Slots |-> Empty]
    /\ size = 0 /\ ins = <<>> /\ result = "none" /\ reclaimed = FALSE
    /\ before \in {Observe(h) : h \in Hashes}

\* Packets that are not TCP have no flags, and neither has a TCP packet that
\* ends before its flags.
FlagsOf(h) == {NoFlags} \cup (IF ProtoOf[h] = "Tcp" THEN FlagSets ELSE {})

Next ==
    \/ \E h \in Hashes : \E flags \in FlagsOf(h) :
          \/ PacketHit(h, flags)
          \/ \E b \in Backends : PacketInsert(h, flags, b)
    \/ InsertEmpty \/ InsertExpired \/ InsertUpdate \/ InsertProbe
    \/ Tick

Spec == Init /\ [][Next]_vars

(***************************************************************************)
(* Properties.                                                             *)
(***************************************************************************)
\* Type invariant of the table and of the insert loop's variables.
TypeOK ==
    /\ entries \in [Slots -> ConnEntry \cup {Empty}]
    /\ size \in 0 .. Capacity
    /\ reclaimed \in BOOLEAN
    /\ result \in {"none", "Inserted", "Updated", "EvictedExpired", "DroppedFull"}
    /\ ~Idle => /\ ins.cur \in ConnEntry /\ ins.idx \in Slots
                /\ ins.n \in Slots /\ ins.dist \in Nat

\* size, behind the conn_table_size and fill gauges, counts the occupied slots
\* although reclaiming an expired slot and a drop leave it alone.
SizeIsOccupancy == size = Cardinality(Occupied(entries))

\* The loop counter dist is always the distance of the entry in hand from its
\* home, through every swap, so the Robin Hood comparison is the right one.
DistIsProbeDistance == ~Idle => ins.dist = probe_distance(ins.cur.hash, ins.idx)

\* Every live entry is one that get finds.
Reachable ==
    \A i \in Occupied(entries) :
        ~is_expired(entries[i]) => get(entries, entries[i].hash) # {}

\* "No matching entry could be further out": the early end of the probe in get
\* hides no live entry, whatever was inserted, displaced or reclaimed before.
LiveIsReachable == Idle => Reachable

\* As long as no expired slot has been reclaimed, every sequence of packets,
\* displacements and refusals keeps the Robin Hood order that get relies on,
\* with the distances carried by insert the true ones, and a flow has at most
\* one live entry, so no superseded backend or TCP state can surface again.
ReachableBeforeReclaim ==
    /\ DistIsProbeDistance
    /\ Idle /\ ~reclaimed =>
          Reachable /\ \A h \in Hashes : Cardinality(Live(entries, h)) <= 1

\* Until then a Closing flow stays Closing for later packets as long as its
\* entry has not expired, although a reinsertion merges states.
ClosingIsTerminal ==
    Idle /\ ~reclaimed /\ before.closing =>
        \A i \in get(entries, before.hash) : entries[i].state = "Closing"

\* The flows that were live, or arrive, and of which no live entry is left.
Lost == {h \in before.live \cup {before.hash} : Live(entries, h) = {}}

\* An insert displaces entries along the probe but loses none of the flows that
\* were live, except that DroppedFull loses one flow, the new one or any other:
\* exactly one until an expired slot is reclaimed, at most one after that, when
\* the dropped entry may be the second of its flow.  And the count of entries
\* stays right.  That is less than is promised of DroppedFull: "the entry was
\* dropped; the caller falls back to pure Maglev hashing" (conn_table.rs:26-27) and
\* new flows go "without storing them" (lb-spec-v2.md:470).  The entry dropped
\* is the one in hand at the end of the loop, which is a live entry of another
\* flow once the new one has displaced any.
OnlyDropLosesFlow ==
    /\ SizeIsOccupancy
    /\ Idle /\ result # "none" =>
          IF result = "DroppedFull"
          THEN \E h \in before.live \cup {before.hash} :
                  Lost \subseteq {h} /\ (~reclaimed => Lost = {h})
          ELSE Lost = {}

\* A packet that is not refused leaves its own flow in the table, on a slot
\* the next packet of the flow finds.
PacketIsTracked ==
    Idle /\ result \in {"Inserted", "Updated", "EvictedExpired"} =>
        Found(entries, before.hash) # {}
=============================================================================
