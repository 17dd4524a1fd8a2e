------------------------------ MODULE Rewriter ------------------------------
(***************************************************************************)
(* What the workers of the data plane decide about each packet: process_one*)
(* of the per-queue mode (rewriter.rs, with the oversize check and ICMP)   *)
(* and the loop body of run_rewriter (threading.rs, without them).  Each   *)
(* worker has a connection table, a fragment table and an ICMP limiter of  *)
(* its own; it reads the pick (VIP matcher and lookup tables) once per     *)
(* batch and the health map for each packet, while the controller changes  *)
(* both.                                                                   *)
(*                                                                         *)
(* A batch takes no time: `now` is read at its start, and an entry's age is*)
(* only compared with that reading.  The connection table is reduced to    *)
(* the backends a flow has been pinned to: get returns one of them, or     *)
(* none after an expiry or an eviction (module ConnTable has the details). *)
(***************************************************************************)
EXTENDS FragmentTable, FiniteSets

CONSTANTS
    Workers,        \* the rewriter threads
    Flows,          \* the 5-tuples
    FragHashOf,     \* FragmentId::fragment_hash of each datagram
    Packets,        \* the packets that occur, see PacketType
    Scenarios,      \* the packets, failures and picks of one behaviour
    WorkerOf,       \* which worker steering or the NIC gives each packet to
    Ipv4,           \* the backends with an IPv4 address
    SrcIpv4,        \* whether the configured source address is IPv4
    SizeChecked,    \* TRUE in the per-queue mode, FALSE in run_rewriter
    IcmpLimit,      \* icmp_rate_limit
    Second,         \* one second, in units of Tick
    NoBackend, NoBatch

Datagrams  == DOMAIN FragHashOf
\* "first" has MF and offset 0, "later" has an offset, "whole" has neither;
\* big: DF is set and the packet is too long with a GRE header; fits: the
\* buffer has room for the GRE header.
PacketType == [flow : Flows, datagram : Datagrams, part : {"whole", "first", "later"},
               big : BOOLEAN, fits : BOOLEAN]
Pick       == [Flows -> Backends \cup {NoBackend}]

ASSUME RewriterAssumption ==
    /\ FragHashOf \in [Datagrams -> FragHashes]
    /\ Packets \subseteq PacketType
    /\ Scenarios \subseteq
          [packets : SUBSET Packets, failing : SUBSET Backends, picks : SUBSET Pick]
    /\ WorkerOf \in [Packets -> Workers]
    /\ Ipv4 \subseteq Backends /\ SrcIpv4 \in BOOLEAN /\ SizeChecked \in BOOLEAN
    /\ IcmpLimit \in Nat /\ Second \in Nat \ {0} /\ Second <= MaxAge
    /\ NoBackend \notin Backends /\ NoBatch \notin Pick

VARIABLES
    scenario,    \* the packets, failures and picks of this behaviour
    pick,        \* shared: vip_matcher and lookup_tables
    unhealthy,   \* shared: the backends health_status calls Unhealthy
    snap,        \* per worker: the pick of its batch, or NoBatch
    pinned,      \* per worker and flow: backends conn_table may hold
    frag,        \* per worker: fragment_table
    limiter,     \* per worker: icmp_rate_limiter
    out,         \* what became of the latest packet: the backend it was
                 \* encapsulated to, or the 3-tuple hash that had no mapping
    latest,      \* history, per worker and hash: the mapping last inserted
    damage,      \* history, per worker: what inserts have done to the table
    sent,        \* history, per worker: ICMP packets of age up to a, a < Second
    gone         \* history, per worker: see BatchStart

history == <<latest, damage, sent, gone>>
vars == <<scenario, pick, unhealthy, snap, pinned, frag, limiter, out, history>>

(***************************************************************************)
(* Helpers.                                                                *)
(***************************************************************************)
Outcome(w, verdict, about) == [worker |-> w, verdict |-> verdict, about |-> about]
NoOut == [verdict |-> "none"]

\* GRE needs an IPv4 source, an IPv4 backend and room in the buffer.
encapsulate_ipv4(p) == p.fits
gre_encap_to(p, b) ==
    IF SrcIpv4 /\ b \in Ipv4 /\ encapsulate_ipv4(p) THEN "forwarded" ELSE "dropped"

\* run_rewriter does not check the size.
should_generate_icmp(p) == SizeChecked /\ p.big

\* IcmpRateLimiter::allow, with its window restarted when a second is over.
Window(l) == IF l.age >= Second THEN [count |-> 0, age |-> 0] ELSE l

allow(l) == IcmpLimit > 0 /\ Window(l).count < IcmpLimit

Charge(l) == [Window(l) EXCEPT !.count = @ + 1]

\* What insert may do to mappings other than its own.
Damage(t, h, b) == {x \in {"reclaim", "overflow"} :
                      \/ x = "reclaim"  /\ Reclaims(t, h, b)
                      \/ x = "overflow" /\ Overflows(t, h, b)}

Aged(n, d) == IF n + d > MaxAge THEN MaxAge ELSE n + d

Offered(f) == {f[fl] : fl \in Flows} \ {NoBackend}

(***************************************************************************)
(* The controller's side: one pointer swap, one entry of the health map.   *)
(***************************************************************************)
Publish(f) ==
    /\ pick' = f
    /\ out' = NoOut
    /\ UNCHANGED <<scenario, unhealthy, snap, pinned, frag, limiter, history>>

\* A backend that recovers may be used again by every worker at once.
SetHealth(b) ==
    /\ unhealthy' = IF b \in unhealthy THEN unhealthy \ {b} ELSE unhealthy \cup {b}
    /\ gone' = [w \in Workers |-> gone[w] \ {b}]
    /\ out' = NoOut
    /\ UNCHANGED <<scenario, pick, snap, pinned, frag, limiter, latest, damage, sent>>

\* Time passes for every worker between its batches.
Tick ==
    /\ \A w \in Workers : snap[w] = NoBatch
    /\ frag' = [w \in Workers |-> frag_age(frag[w], 1)]
    /\ limiter' = [w \in Workers |-> [limiter[w] EXCEPT !.age = Aged(@, 1)]]
    /\ latest' = [w \in Workers |-> [h \in FragHashes |->
                     [latest[w][h] EXCEPT !.age = Aged(@, 1)]]]
    /\ sent' = [w \in Workers |-> [a \in 0 .. Second - 1 |-> IF a = 0 THEN 0 ELSE sent[w][a - 1]]]
    /\ out' = NoOut
    /\ UNCHANGED <<scenario, pick, unhealthy, snap, pinned, damage, gone>>

(***************************************************************************)
(* Worker w.                                                               *)
(***************************************************************************)
\* The loads at the head of a batch.  gone are the backends that are out of
\* service for all of this batch: unhealthy and not offered any more.
BatchStart(w) ==
    /\ snap[w] = NoBatch
    /\ snap' = [snap EXCEPT ![w] = pick]
    /\ gone' = [gone EXCEPT ![w] = unhealthy \ Offered(pick)]
    /\ out' = NoOut
    /\ UNCHANGED <<scenario, pick, unhealthy, pinned, frag, limiter, latest, damage, sent>>

BatchEnd(w) ==
    /\ snap[w] # NoBatch
    /\ snap' = [snap EXCEPT ![w] = NoBatch]
    /\ gone' = [gone EXCEPT ![w] = {}]
    /\ out' = NoOut
    /\ UNCHANGED <<scenario, pick, unhealthy, pinned, frag, limiter, latest, damage, sent>>

Has(w, p, parts) == snap[w] # NoBatch /\ WorkerOf[p] = w /\ p.part \in parts

\* A non-first fragment goes where the fragment table says, whatever the
\* health, the tables and its size.
LaterFragment(w, p) ==
    LET b == frag_get(frag[w], FragHashOf[p.datagram]) IN
    /\ Has(w, p, {"later"})
    /\ \/ b = {} /\ out' = Outcome(w, "no_mapping", FragHashOf[p.datagram])
       \/ \E c \in b : out' = Outcome(w, gre_encap_to(p, c), NoBackend)
    /\ UNCHANGED <<scenario, pick, unhealthy, snap, pinned, frag, limiter, history>>

\* Not IPv4 TCP or UDP, no VIP matches, or its pool has no table: dropped even
\* if the flow is pinned to a healthy backend.
NoService(w, p) ==
    /\ Has(w, p, {"whole", "first"})
    /\ snap[w][p.flow] = NoBackend
    /\ out' = Outcome(w, "dropped", NoBackend)
    /\ UNCHANGED <<scenario, pick, unhealthy, snap, pinned, frag, limiter, history>>

\* Mutant of Backend: a pinned backend is used whatever its health.
BackendSticky(w, p) == pinned[w][p.flow] \cup {snap[w][p.flow]}

\* The backends conn_table.get, the health map and lookup may lead to.
Backend(w, p) == (pinned[w][p.flow] \ unhealthy) \cup {snap[w][p.flow]}

\* A first fragment leaves its mapping before anything else can drop it.
Remember(w, p, b) ==
    LET h == FragHashOf[p.datagram] IN
    IF p.part # "first"
    THEN UNCHANGED <<frag, latest, damage>>
    ELSE /\ frag' = [frag EXCEPT ![w] = frag_insert(@, h, b)]
         /\ latest' = [latest EXCEPT ![w][h] = [backend_ip |-> b, age |-> 0]]
         /\ damage' = [damage EXCEPT ![w] = @ \cup Damage(frag[w], h, b)]

\* Mutant of Oversized: a refused reply restarts the window.
OversizedRestarts(w) ==
    IF allow(limiter[w])
    THEN /\ limiter' = [limiter EXCEPT ![w] = Charge(limiter[w])]
         /\ sent' = [sent EXCEPT ![w] = [a \in 0 .. Second - 1 |-> sent[w][a] + 1]]
    ELSE limiter' = [limiter EXCEPT ![w] = [count |-> 0, age |-> 0]] /\ UNCHANGED sent

\* The reply to an oversized packet, if the limiter allows one.
Oversized(w) ==
    IF allow(limiter[w])
    THEN /\ limiter' = [limiter EXCEPT ![w] = Charge(limiter[w])]
         /\ sent' = [sent EXCEPT ![w] = [a \in 0 .. Second - 1 |-> sent[w][a] + 1]]
    ELSE /\ limiter' = [limiter EXCEPT ![w] = IF IcmpLimit = 0 THEN @ ELSE Window(@)]
         /\ UNCHANGED sent

\* A packet with an L4 header: choose and pin a backend, remember a first
\* fragment, answer or encapsulate.
Serve(w, p) ==
    /\ Has(w, p, {"whole", "first"})
    /\ snap[w][p.flow] # NoBackend
    /\ \E b \in Backend(w, p) :
          /\ pinned' = [pinned EXCEPT ![w][p.flow] = @ \cup {b}]
          /\ Remember(w, p, b)
          /\ \/ /\ should_generate_icmp(p)
                /\ Oversized(w)
                /\ out' = Outcome(w, IF allow(limiter[w]) THEN "icmp" ELSE "limited", NoBackend)
             \/ /\ ~should_generate_icmp(p)
                /\ out' = Outcome(w, gre_encap_to(p, b), b)
                /\ UNCHANGED <<limiter, sent>>
    /\ UNCHANGED <<scenario, pick, unhealthy, snap, gone>>

process_one(w, p) == LaterFragment(w, p) \/ NoService(w, p) \/ Serve(w, p)

Init ==
    /\ scenario \in Scenarios
    /\ pick \in scenario.picks
    /\ unhealthy = {}
    /\ snap = [w \in Workers |-> NoBatch]
    /\ pinned = [w \in Workers |-> [fl \in Flows |-> {}]]
    /\ frag = [w \in Workers |-> [i \in FragSlots |-> Empty]]
    /\ limiter = [w \in Workers |-> [count |-> 0, age |-> 0]]
    /\ out = NoOut
    /\ latest = [w \in Workers |-> [h \in FragHashes |-> [backend_ip |-> NoBackend, age |-> MaxAge]]]
    /\ damage = [w \in Workers |-> {}]
    /\ sent = [w \in Workers |-> [a \in 0 .. Second - 1 |-> 0]]
    /\ gone = [w \in Workers |-> {}]

Next ==
    \/ \E f \in scenario.picks : Publish(f)
    \/ \E b \in scenario.failing : SetHealth(b)
    \/ Tick
    \/ \E w \in Workers : BatchStart(w) \/ BatchEnd(w)
    \/ \E w \in Workers, p \in scenario.packets : process_one(w, p)

Spec == Init /\ [][Next]_vars

(***************************************************************************)
(* Properties.                                                             *)
(***************************************************************************)
Remembered(w, h) == latest[w][h].age <= FragTtl

\* Type invariant of the workers' state.
TypeOK ==
    /\ pick \in Pick /\ unhealthy \subseteq Backends
    /\ snap \in [Workers -> Pick \cup {NoBatch}]
    /\ pinned \in [Workers -> [Flows -> SUBSET Backends]]
    /\ frag \in [Workers -> [FragSlots -> FragmentEntry \cup {Empty}]]
    /\ limiter \in [Workers -> [count : 0 .. IcmpLimit, age : 0 .. MaxAge]]
    /\ out.verdict \in {"none", "no_mapping", "forwarded", "dropped", "icmp", "limited"}

\* While the table has not overflowed, it never sends a fragment to another
\* backend than the one the latest first fragment with its 3-tuple went to, and
\* not after the TTL, although expired slots are reused and leave duplicates.
FragmentsFollowFirst ==
    \A w \in Workers, h \in FragHashes :
        "overflow" \notin damage[w] =>
            frag_get(frag[w], h) \subseteq
                (IF Remembered(w, h) THEN {latest[w][h].backend_ip} ELSE {})

\* Until an insert ends in the expired slot of another 3-tuple or in a full
\* table, a worker finds every mapping of its first fragments until the TTL,
\* whatever the inserts have displaced and however many expired entries the
\* table still holds.
FragmentsAreFound ==
    \A w \in Workers, h \in FragHashes :
        damage[w] = {} /\ Remembered(w, h) => frag_get(frag[w], h) # {}

\* A backend that was unhealthy and out of the tables when the batch began is
\* given no packet of a flow in that batch, pinned to it or not, whatever is
\* published meanwhile.  Later fragments still go to it.
UnhealthyIsDrained ==
    out.verdict = "forwarded" => out.about \notin gone[out.worker]

\* In no second, wherever it begins, does a worker send more than twice
\* icmp_rate_limit replies.  That is not what is promised: icmp_rate_limit is
\* the "Maximum ICMP Fragmentation Needed responses per second"
\* (operations.md:96) and the "101st ICMP in same second" is to be dropped
\* (mtu-handling-spec.md:289).  allow counts from the first call after a window
\* is over, so that a full window and the next one meet in one second; what the
\* code keeps is that no third one does.
IcmpBounded ==
    \A w \in Workers : sent[w][Second - 1] <= 2 * IcmpLimit
=============================================================================
