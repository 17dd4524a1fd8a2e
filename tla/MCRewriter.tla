----------------------------- MODULE MCRewriter -----------------------------
(* Rewriter with one flow whose datagrams have 3-tuples on nearby homes.   *)
EXTENDS Rewriter

P(d, part, big) == [flow |-> "f", datagram |-> d, part |-> part, big |-> big, fits |-> TRUE]

MCFlows   == {"f"}
MCHashes  == {0, 4, 1}
MCHashOf  == [d0 |-> 0, d4 |-> 4, d1 |-> 1]
MCPick(b) == [fl \in Flows |-> b]
MCFragments == {P(d, "first", FALSE) : d \in Datagrams} \cup {P("d0", "later", FALSE)}
MCMixed   == {P("d1", "first", FALSE), P("d1", "first", TRUE), P("d1", "later", FALSE),
              P("d1", "whole", TRUE), [P("d1", "whole", FALSE) EXCEPT !.fits = FALSE]}
MCPackets == MCFragments \cup MCMixed

\* Many datagrams with every backend up, or one flow while backends fail and
\* lose their VIP.
MCScenarios ==
    {[packets |-> MCFragments, failing |-> {}, picks |-> {MCPick(b) : b \in Backends}],
     [packets |-> MCMixed, failing |-> Backends,
      picks |-> {MCPick(b) : b \in Backends \cup {NoBackend}}]}
OneWorker == [p \in Packets |-> CHOOSE w \in Workers : TRUE]
=============================================================================
