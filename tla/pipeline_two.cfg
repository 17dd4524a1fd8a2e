SPECIFICATION Spec
CONSTANTS
    Frames = {a, b, c, d, e, f}
    NumRewriters = 2
    QueueCapacity = 1
    BatchDrainSize = 1
    BatchSize = 1
    Flows <- MCTwoFlows
    FlowHash <- MCTwoHash
    Parsed <- MCTwoFlows
    Forwardable <- MCTwoFlows
    Labels <- MCLabels
    SrcIpv4 = TRUE
    NoFrame = NoFrame
    NoPacket = NoPacket
SYMMETRY FrameSymmetry
INVARIANTS TypeOK SingleOwner NoFrameLost
PROPERTY LifecycleSpec
