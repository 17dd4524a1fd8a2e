----------------------------- MODULE PacketPath -----------------------------
(***************************************************************************)
(* A packet's bytes on their way through the node: the parsing of          *)
(* lb-types/packet.rs, the queue steering chooses for it, the GRE header of*)
(* gre.rs and the ICMP reply of icmp.rs.  The other modules take from here *)
(* that a packet has a 5-tuple, a datagram and a size; this one says how   *)
(* they are read, and what the network gets.                               *)
(*                                                                         *)
(* A packet is a sequence of bytes; offsets are those of the code, so byte *)
(* o is data[o + 1].  An Option is a set of at most one value.  The tables *)
(* do not change and every backend is healthy here; no packet is a SYN     *)
(* (module MssClamp).  A mapping of the fragment table may go at any time. *)
(***************************************************************************)
EXTENDS Integers, Sequences, SequencesExt, Functions

CONSTANTS
    Modes,           \* the modes of the forwarder, of "threaded", "per_queue"
    NumQueues,       \* the number of rewriters
    QueueCapacity,   \* of the queue of a rewriter
    PacketBufSize,   \* PACKET_BUF_SIZE
    NetworkMtu,      \* network_mtu
    SrcIp,           \* the node's address
    Services,        \* the <<address, protocol, port>> of the VIPs
    Table,           \* the lookup table of their pool
    Wire,            \* the packets that arrive, see SentPacket
    xxh3(_)          \* the hash function

Octet == 0 .. 255
Port  == 0 .. 65535
Address == [1 .. 4 -> Octet] \cup [1 .. 16 -> Octet]
\* A packet and what its sender means: for a fragment, the 5-tuple of the
\* datagram it is a part of.
SentPacket == [bytes : Seq(Octet), tuple : [src_ip : Address, dst_ip : Address,
                  src_port : Port, dst_port : Port, protocol : Octet]]

ASSUME PathAssumption ==
    /\ Modes \subseteq {"threaded", "per_queue"}
    /\ NumQueues \in Nat \ {0} /\ QueueCapacity \in Nat \ {0}
    /\ PacketBufSize \in Nat /\ NetworkMtu \in 1280 .. 65535
    /\ SrcIp \in [1 .. 4 -> Octet]
    /\ Services \subseteq Address \X Octet \X Port
    /\ Table \in Seq([1 .. 4 -> Octet]) /\ Table # <<>>
    /\ \A p \in DOMAIN Wire : Wire[p] \in SentPacket

VARIABLES
    mode,        \* threaded: one steering thread; per_queue: the NIC steers
    rx,          \* the packets that wait for each rewriter
    fragments,   \* per rewriter: the backend of a 3-tuple's hash
    out          \* what became of the latest packet

pathVars == <<mode, rx, fragments, out>>

Queues == 0 .. NumQueues - 1

(***************************************************************************)
(* packet.rs.                                                              *)
(***************************************************************************)
At(data, o)  == data[o + 1]
from_be_bytes(data, o) == At(data, o) * 256 + At(data, o + 1)
Bytes16(w)   == <<w \div 256, w % 256>>
Octets(data, o, n) == SubSeq(data, o + 1, o + n)
version(data) == At(data, 0) \div 16
from_ip_proto == {6, 17}

\* The 5-tuple and, where the packet holds them, the TCP flags.
Meta(data, addresses, width, l4, protocol) ==
    [src_ip    |-> Octets(data, addresses, width),
     dst_ip    |-> Octets(data, addresses + width, width),
     src_port  |-> from_be_bytes(data, l4),
     dst_port  |-> from_be_bytes(data, l4 + 2),
     protocol  |-> protocol,
     tcp_flags |-> IF protocol = 6 /\ Len(data) >= l4 + 14 THEN {At(data, l4 + 13)} ELSE {}]

ihl(data) == (At(data, 0) % 16) * 4

from_ipv4_bytes(data) ==
    IF /\ Len(data) >= 24 /\ version(data) = 4
       /\ Len(data) >= ihl(data) + 4 /\ At(data, 9) \in from_ip_proto
    THEN {Meta(data, 12, 4, ihl(data), At(data, 9))}
    ELSE {}

from_ipv6_bytes(data) ==
    IF Len(data) >= 44 /\ version(data) = 6 /\ At(data, 6) \in from_ip_proto
    THEN {Meta(data, 8, 16, 40, At(data, 6))}
    ELSE {}

from_ip_bytes(data) ==
    IF data = <<>> THEN {} ELSE from_ipv4_bytes(data) \cup from_ipv6_bytes(data)

ip_buf(ip) == ip \o [i \in 1 .. 16 - Len(ip) |-> 0]

flow_hash(meta) ==
    xxh3(ip_buf(meta.src_ip) \o ip_buf(meta.dst_ip)
         \o Bytes16(meta.src_port) \o Bytes16(meta.dst_port) \o <<meta.protocol>>)

\* Mutant of FragmentId: the identification is left out.
FragmentIdAddresses(data) ==
    IF Len(data) >= 20 /\ version(data) = 4
    THEN {[src_ip |-> Octets(data, 12, 4), dst_ip |-> Octets(data, 16, 4), ip_id |-> 0]}
    ELSE {}

\* FragmentId: addresses and identification of an IPv4 packet.
FragmentId(data) ==
    IF Len(data) >= 20 /\ version(data) = 4
    THEN {[src_ip |-> Octets(data, 12, 4), dst_ip |-> Octets(data, 16, 4),
           ip_id |-> from_be_bytes(data, 4)]}
    ELSE {}

fragment_hash(fid) == xxh3(ip_buf(fid.src_ip) \o ip_buf(fid.dst_ip) \o Bytes16(fid.ip_id))

\* Neither looks at the version.
is_non_first_fragment(data) == Len(data) >= 20 /\ from_be_bytes(data, 6) % 8192 # 0
is_fragment(data) ==
    Len(data) >= 20 /\ ((from_be_bytes(data, 6) \div 8192) % 2 = 1 \/ from_be_bytes(data, 6) % 8192 # 0)

(***************************************************************************)
(* gre.rs and icmp.rs.                                                     *)
(***************************************************************************)
\* The one's complement sum of the 16-bit words, an odd last byte as the
\* upper half of a word.  Two carries are the most a short sum has.
OnesSum(data) ==
    LET even  == IF Len(data) % 2 = 0 THEN data ELSE data \o <<0>>
        words == FoldLeft(+, 0, [i \in 1 .. Len(even) \div 2 |-> from_be_bytes(even, 2 * i - 2)])
        once  == (words % 65536) + (words \div 65536)
    IN  (once % 65536) + (once \div 65536)

ip_checksum(data) == 65535 - OnesSum(data)

\* Both headers have no options; the checksum is written into their bytes 10
\* and 11, which are zero before.
IpHeader(tos, total_len, flags, protocol, src, dst) ==
    LET head == <<69, tos>> \o Bytes16(total_len % 65536) \o <<0, 0>> \o Bytes16(flags)
                \o <<64, protocol>>
    IN  head \o Bytes16(ip_checksum(head \o src \o dst)) \o src \o dst

ENCAP_OVERHEAD == 24
GRE_PROTO(data) == IF data # <<>> /\ version(data) = 6 THEN 34525 ELSE 2048

\* The outer header has DF; a packet without room for both is refused.
encapsulate_ipv4_buf(data, src_ip, dst_ip) ==
    IF Len(data) + ENCAP_OVERHEAD > PacketBufSize
    THEN {}
    ELSE {IpHeader(0, Len(data) + ENCAP_OVERHEAD, 16384, 47, src_ip, dst_ip)
          \o <<0, 0>> \o Bytes16(GRE_PROTO(data)) \o data}

\* A 16-bit sum, in a build that does not check for overflow.
should_generate_icmp(data) ==
    /\ Len(data) >= 20 /\ version(data) = 4
    /\ (from_be_bytes(data, 6) \div 16384) % 2 = 1
    /\ (from_be_bytes(data, 2) + ENCAP_OVERHEAD) % 65536 > NetworkMtu

generate_icmp_frag_needed(original, vip) ==
    LET payload == SubSeq(original, 1, IF Len(original) < 28 THEN Len(original) ELSE 28)
        mtu     == Bytes16(NetworkMtu - ENCAP_OVERHEAD)
        sum     == ip_checksum(<<3, 4, 0, 0, 0, 0>> \o mtu \o payload)
    IN  IpHeader(192, 28 + Len(payload), 0, 1, vip, Octets(original, 12, 4))
        \o <<3, 4>> \o Bytes16(sum) \o <<0, 0>> \o mtu \o payload

(***************************************************************************)
(* The threads.                                                            *)
(***************************************************************************)
write_from(src) == SubSeq(src, 1, IF Len(src) < PacketBufSize THEN Len(src) ELSE PacketBufSize)
Frame(p) == write_from(Wire[p].bytes)

assign_queue(meta) == flow_hash(meta) % NumQueues
maglev(hash) == Table[(hash % Len(Table)) + 1]
match_packet(meta) == <<meta.dst_ip, meta.protocol, meta.dst_port>> \in Services

Outcome(q, p, verdict, data) == [queue |-> q, packet |-> p, verdict |-> verdict, data |-> data]
NoOutcome == [verdict |-> "none"]

Push(q, p) ==
    /\ Len(rx[q]) < QueueCapacity
    /\ rx' = [rx EXCEPT ![q] = Append(@, p)]
    /\ out' = NoOutcome
    /\ UNCHANGED <<mode, fragments>>

\* run_steering; a packet without a 5-tuple goes to queue 0.
Steer(p) ==
    /\ mode = "threaded"
    /\ Push(IF from_ip_bytes(Frame(p)) = {} THEN 0
            ELSE assign_queue(CHOOSE meta \in from_ip_bytes(Frame(p)) : TRUE), p)

\* The NIC's own hash, of which the code knows nothing.
NicSteers(q, p) == mode = "per_queue" /\ Push(q, p)

\* What encapsulate_ipv4_buf leaves of frame p for the tunnel to backend b.
Encapsulated(q, p, b) ==
    LET sent == encapsulate_ipv4_buf(Frame(p), SrcIp, b) IN
    \/ sent = {} /\ out' = Outcome(q, p, "dropped", <<>>)
    \/ \E data \in sent : out' = Outcome(q, p, "forwarded", data)

\* run_rewriter counts a packet that is not IPv4 like a missing mapping.
LaterFragment(q, p) ==
    LET known == {h \in DOMAIN fragments[q] :
                     \E fid \in FragmentId(Frame(p)) : h = fragment_hash(fid)} IN
    /\ is_non_first_fragment(Frame(p))
    /\ \/ /\ known = {}
          /\ out' = Outcome(q, p, IF mode = "per_queue" /\ FragmentId(Frame(p)) = {}
                                  THEN "dropped" ELSE "no_mapping", <<>>)
       \/ \E h \in known : Encapsulated(q, p, fragments[q][h])
    /\ UNCHANGED fragments

NoService(q, p) ==
    /\ ~is_non_first_fragment(Frame(p))
    /\ \A meta \in from_ipv4_bytes(Frame(p)) : ~match_packet(meta)
    /\ out' = Outcome(q, p, "dropped", <<>>)
    /\ UNCHANGED fragments

\* The limiter of the replies may have refused this one (module Rewriter).
Oversized(q, p, meta) ==
    \/ out' = Outcome(q, p, "limited", <<>>)
    \/ out' = Outcome(q, p, "icmp", generate_icmp_frag_needed(Frame(p), meta.dst_ip))

Remember(q, p, b) ==
    IF is_fragment(Frame(p))
    THEN \E fid \in FragmentId(Frame(p)) :
            fragments' = [fragments EXCEPT ![q] =
                [h \in DOMAIN @ \cup {fragment_hash(fid)} |->
                    IF h = fragment_hash(fid) THEN b ELSE @[h]]]
    ELSE UNCHANGED fragments

Serve(q, p) ==
    /\ ~is_non_first_fragment(Frame(p))
    /\ \E meta \in from_ipv4_bytes(Frame(p)) :
          LET b == maglev(flow_hash(meta)) IN
          /\ match_packet(meta)
          /\ Remember(q, p, b)
          /\ IF mode = "per_queue" /\ should_generate_icmp(Frame(p))
             THEN Oversized(q, p, meta)
             ELSE Encapsulated(q, p, b)

\* run_rewriter and process_one: the next packet of rewriter q.
Rewrite(q) ==
    /\ rx[q] # <<>>
    /\ rx' = [rx EXCEPT ![q] = Tail(@)]
    /\ LET p == Head(rx[q]) IN LaterFragment(q, p) \/ NoService(q, p) \/ Serve(q, p)
    /\ UNCHANGED mode

\* The TTL of a mapping or another insert takes it (module FragmentTable).
Forget(q, h) ==
    /\ fragments' = [fragments EXCEPT ![q] = Restrict(@, DOMAIN @ \ {h})]
    /\ out' = NoOutcome
    /\ UNCHANGED <<mode, rx>>

PathInit ==
    /\ mode \in Modes
    /\ rx = [q \in Queues |-> <<>>]
    /\ fragments = [q \in Queues |-> <<>>]
    /\ out = NoOutcome

PathNext ==
    \/ \E p \in DOMAIN Wire : Steer(p)
    \/ \E q \in Queues, p \in DOMAIN Wire : NicSteers(q, p)
    \/ \E q \in Queues : Rewrite(q)
    \/ \E q \in Queues : \E h \in DOMAIN fragments[q] : Forget(q, h)

PathSpec == PathInit /\ [][PathNext]_pathVars

(***************************************************************************)
(* Properties.                                                             *)
(***************************************************************************)
Tuple(p) == Wire[p].tuple
Later(p) == is_non_first_fragment(Wire[p].bytes)

\* A header the receiver accepts: its length, its sum and its destination.
Delivers(data, protocol, src, dst) ==
    /\ from_be_bytes(data, 2) = Len(data)
    /\ OnesSum(Octets(data, 0, 20)) = 65535
    /\ At(data, 9) = protocol
    /\ Octets(data, 12, 4) = src /\ Octets(data, 16, 4) = dst

\* What the end of the tunnel unpacks is the packet as it came, at the backend
\* of its flow, and in start mode it went through the rewriter of its flow.
TunnelCarries ==
    LET p == out.packet IN
    /\ Delivers(out.data, 47, SrcIp, maglev(flow_hash(Tuple(p))))
    /\ Octets(out.data, 20, 4) = <<0, 0, 8, 0>>
    /\ SubSeq(out.data, 25, Len(out.data)) = Wire[p].bytes
    /\ mode = "threaded" /\ ~Later(p) => out.queue = assign_queue(Tuple(p))

\* The reply comes from the VIP, goes to the sender of a packet that is too
\* long for the tunnel, and names a size that is not.
ReplyReaches ==
    LET p == out.packet  icmp == SubSeq(out.data, 21, Len(out.data)) IN
    /\ Delivers(out.data, 1, Tuple(p).dst_ip, Tuple(p).src_ip)
    /\ OnesSum(icmp) = 65535
    /\ Len(Wire[p].bytes) > from_be_bytes(icmp, 6) /\ from_be_bytes(icmp, 6) + ENCAP_OVERHEAD <= NetworkMtu

\* Whatever options, fragmentation or length the packets have and whichever
\* rewriter gets them: each packet that is tunnelled, a later fragment without
\* ports of its own too, arrives unchanged at the backend of its flow, and each
\* ICMP reply at the sender it concerns.  packet.rs reads one header in three
\* places (steering, rewriter, fragment table), which must agree.
FlowsReachTheirBackend ==
    /\ out.verdict = "forwarded" => TunnelCarries
    /\ out.verdict = "icmp" => ReplyReaches
=============================================================================
