--------------------------- MODULE PipelineOrder ---------------------------
(***************************************************************************)
(* Pipeline with two history variables: the packets of each flow are       *)
(* numbered as they arrive, and everything put on the wire is logged.  It  *)
(* states what the hand-over through steering, rewriter and muxer means    *)
(* for a flow.                                                             *)
(***************************************************************************)
EXTENDS Pipeline

CONSTANT MaxPackets      \* bound on the packets that arrive in a behaviour

VARIABLES arrived,       \* arrived[flow]: packets of the flow so far
          log            \* everything sent, in order

orderVars == <<vars, arrived, log>>

\* Packets of flow among the first n of batch b.
CountFlow(b, flow, n) == Cardinality({i \in 1 .. n : b[i].flow = flow})

Numbered(b) ==
    \A i \in DOMAIN b : b[i].label = arrived[b[i].flow] + CountFlow(b, b[i].flow, i)

Total == Cardinality({fn \in Flows \X (1 .. MaxPackets) : fn[2] <= arrived[fn[1]]})

OrderRecv ==
    /\ steerPc = "check" /\ ~shutdown
    /\ \E b \in SeqsUpTo(Packet, BatchSize) :
          /\ Total + Len(b) <= MaxPackets
          /\ Numbered(b)
          /\ SteerRecvBatch(b)
          /\ arrived' = [fl \in Flows |-> arrived[fl] + CountFlow(b, fl, Len(b))]
    /\ UNCHANGED log

OrderSend == MuxSend /\ log' = log \o wire' /\ UNCHANGED arrived

OrderOther ==
    /\ \/ SteerAlloc \/ SteerExhausted \/ SteerPush \/ SteerExit
       \/ \E q \in Queues : Rewriter(q)
       \/ MuxCheck \/ MuxPop \/ MuxNextQueue \/ MuxDrained \/ MuxFree
       \/ Shutdown \/ Terminated
    /\ UNCHANGED <<arrived, log>>

OrderInit == Init /\ arrived = [fl \in Flows |-> 0] /\ log = <<>>

OrderNext == OrderRecv \/ OrderSend \/ OrderOther

OrderSpec == OrderInit /\ [][OrderNext]_orderVars

\* The fairness of Pipeline, for the steps with their history variables.
Quietly(A) == A /\ UNCHANGED <<arrived, log>>

OrderFairness ==
    /\ WF_orderVars(Quietly(SteerAlloc \/ SteerExhausted \/ SteerPush \/ SteerExit))
    /\ \A q \in Queues : WF_orderVars(Quietly(Rewriter(q)))
    /\ WF_orderVars(OrderSend \/ Quietly(MuxCheck \/ MuxPop \/ MuxNextQueue \/ MuxDrained \/ MuxFree))

\* Steering pins a flow to one rewriter and every queue is FIFO, so packets of
\* a flow leave in the order they came, none twice, whatever is dropped.
PerFlowOrder ==
    \A i, j \in DOMAIN log :
        i < j /\ log[i].pkt.flow = log[j].pkt.flow =>
            log[i].pkt.label < log[j].pkt.label
=============================================================================
