---------------------------- MODULE MCPacketPath ----------------------------
(* PacketPath with three flows of one client to one VIP, in short and long  *)
(* packets, with IP options, in two datagrams of two fragments each, and     *)
(* with packets that are none of the VIP's.  No packet is a SYN.             *)
EXTENDS PacketPath

Client == <<10, 0, 0, 1>>
Vip    == <<192, 0, 2, 1>>
Tcp(sport) == [src_ip |-> Client, dst_ip |-> Vip, src_port |-> sport, dst_port |-> 443,
               protocol |-> 6]
Udp(sport) == [Tcp(sport) EXCEPT !.dst_port = 53, !.protocol = 17]
Web    == Tcp(5001)
Dns(n) == Udp(5001 + n)
OffVip == [Web EXCEPT !.dst_port = 80]
SixTcp == [Web EXCEPT !.src_ip = [i \in 1 .. 16 |-> i], !.dst_ip = [i \in 1 .. 16 |-> 32]]

Payload(n) == [i \in 1 .. n |-> i % 256]
Header4(t, options, id, flags, len) ==
    <<64 + 5 + (Len(options) \div 4), 0>> \o Bytes16(20 + Len(options) + len) \o Bytes16(id)
    \o Bytes16(flags) \o <<64, t.protocol, 0, 0>> \o t.src_ip \o t.dst_ip \o options
PortBytes(t) == Bytes16(t.src_port) \o Bytes16(t.dst_port)
\* ACK is the only flag.
Segment(t, n) == PortBytes(t) \o [i \in 1 .. 8 |-> 0] \o <<80, 16>> \o Payload(n)

Sent(t, bytes) == [bytes |-> bytes, tuple |-> t]
Packet4(t, options, id, flags, body) ==
    Sent(t, Header4(t, options, id, flags, Len(body)) \o body)

Options == [i \in 1 .. 16 |-> 1]
DF == 16384
MF == 8192
FirstOf(n) == Packet4(Dns(n), <<>>, n, MF, PortBytes(Dns(n)) \o Payload(12))
LastOf(n)  == Packet4(Dns(n), <<>>, n, 2, Payload(8))

Small == [ack     |-> Packet4(Web, <<>>, 0, DF, Segment(Web, 6)),
          options |-> Packet4(Web, Options, 0, DF, Segment(Web, 7)),
          off_vip |-> Packet4(OffVip, <<>>, 0, DF, Segment(OffVip, 6)),
          cut_off |-> Sent(Web, Header4(Web, <<>>, 0, 0, 0))]
Fragmented == [first1 |-> FirstOf(1), last1 |-> LastOf(1), first2 |-> FirstOf(2), last2 |-> LastOf(2)]
Long  == [big         |-> Packet4(Web, <<>>, 0, DF, Segment(Web, 1223)),
          big_options |-> Packet4(Web, Options, 0, DF, Segment(Web, 1223)),
          big_no_df   |-> Packet4(Web, <<>>, 0, 0, Segment(Web, 1223))]
Six   == [six |-> Sent(SixTcp, <<96, 0, 0, 0, 0, 20, 6, 64>> \o SixTcp.src_ip
                               \o SixTcp.dst_ip \o Segment(SixTcp, 6))]

Both(f, g) == [p \in DOMAIN f \cup DOMAIN g |-> IF p \in DOMAIN f THEN f[p] ELSE g[p]]
MCWire == Both(Both(Small, Fragmented), Both(Long, Six))

MCServices == {<<Vip, 6, 443>>, <<Vip, 17, 53>>}
MCSrcIp    == <<10, 9, 9, 9>>
MCTable    == <<<<10, 1, 1, 1>>, <<10, 1, 1, 2>>, <<10, 1, 1, 3>>>>
MCxxh3(buf) == FoldLeft(LAMBDA h, b : (h * 31 + b + 7) % 65521, 17, buf)

\* No two 3-tuples share a hash.
ASSUME SampleAssumption ==
    \A p, r \in DOMAIN Wire :
        \A a \in FragmentId(Wire[p].bytes), b \in FragmentId(Wire[r].bytes) :
            a # b => fragment_hash(a) # fragment_hash(b)
=============================================================================
