----------------------------- MODULE MCMssClamp -----------------------------
(* MssClamp with the option behind as many NOPs as a sender may put there.   *)
EXTENDS MssClamp

Mss(n)  == <<2, 4>> \o <<n \div 256, n % 256>>
Nops(k) == [i \in 1 .. k |-> <<1>>]

MCOptions == {Nops(k) \o <<Mss(n)>> : k \in 0 .. 3, n \in {536, 1436, 1437, 1460, 8960, 65535}}
MCIp == {[version |-> 4, protocol |-> 6, ihl |-> 20]}
=============================================================================
