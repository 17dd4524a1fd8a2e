----------------------------- MODULE MCPipeline -----------------------------
(* Pipeline with two flows that hash to different queues. *)
EXTENDS Pipeline, TLC

MCTwoFlows == {"f0", "f1"}
MCTwoHash  == [f0 |-> 2, f1 |-> 3]
MCLabels   == {0}
FrameSymmetry == Permutations(Frames)
=============================================================================
