SPECIFICATION MCSpec
CONSTANTS
    Frames <- MCFrames
    NumRewriters = 2
    QueueCapacity = 1
    BatchDrainSize = 2
    BatchSize = 2
    Flows <- MCFlows
    FlowHash <- MCFlowHash
    Parsed <- MCParsed
    Forwardable <- MCParsed
    Labels <- MCLabels
    SrcIpv4 = TRUE
    NoFrame = NoFrame
    NoPacket = NoPacket
    MaxPackets = 3
INVARIANTS PerFlowOrder EncapsulatedOnce
PROPERTIES ShutdownCompletes FramesReturn
