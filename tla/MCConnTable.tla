---------------------------- MODULE MCConnTable ----------------------------
(* ConnTable on four slots with five flows on two neighbouring homes, of which   *)
(* one outlives the others by a tick, so that it can come to be in the table     *)
(* twice; or with four TCP flows that collide.                                   *)
EXTENDS ConnTable

MCHashes   == {0, 3, 4, 7, 8}
MCProtos   == [h \in MCHashes |-> CASE h = 0 -> "Tcp" [] h = 8 -> "Udp" [] h \in {3, 4, 7} -> "Other"]
MCUdpTtl   == [b \in Buckets |-> IF b = "udp" THEN 1 ELSE 0]

MCFewHashes == {0, 1, 4, 8}
MCFewProtos == [h \in MCFewHashes |-> "Tcp"]
MCTtl      == [tcp_handshake |-> 0, tcp_closing |-> 1, tcp_established |-> 1, udp |-> 0, other |-> 0]

MCFlagSets == {{"syn"}, {"ack"}, {"fin", "ack"}}
=============================================================================
