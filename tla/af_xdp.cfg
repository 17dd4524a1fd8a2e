SPECIFICATION FairSpec
CONSTANTS
    Configs <- MCConfigs
    PACKET_BUF_SIZE = 2
    BatchSize = 2
    NoPacket = NoPacket
    Labels = {p1, p2}
    Headroom = 1
INVARIANTS
    PacketsIntact
    LeakNeedsSpareFrames
    StallNeedsRefusal
PROPERTIES
    OwnershipSpec
    TxFrameReturns
