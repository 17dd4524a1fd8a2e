---------------------------- MODULE MCBgpSpeaker ----------------------------
(* BgpSpeaker with small sets of peers and VIPs. *)
EXTENDS BgpSpeaker

CONSTANTS p1, p2, p3, v1

TwoPeers   == {p1, p2}
TwoAndOff  == {p1, p2, p3}
One        == {p1}
OneVip     == {v1}
=============================================================================
