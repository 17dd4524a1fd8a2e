-------------------------- MODULE MCPipelineOrder --------------------------
(* PipelineOrder with a few numbered packets of a flow and of junk, and    *)
(* the free list that PacketPool::new builds.                              *)
EXTENDS PipelineOrder

MCFrames   == 1 .. PoolSize
MCFlows    == {"f1", "junk"}
MCFlowHash == [f1 |-> 3, junk |-> 1]
MCParsed   == {"f1"}
MCLabels   == 1 .. MaxPackets
MCFreeList == [i \in 1 .. PoolSize |-> i]

\* The frames are interchangeable, so one order of the free list stands for all.
MCInit == free = MCFreeList /\ OrderInit
MCSpec == MCInit /\ [][OrderNext]_orderVars /\ OrderFairness
=============================================================================
