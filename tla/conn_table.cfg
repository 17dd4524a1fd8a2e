SPECIFICATION Spec
CONSTANTS
    Capacity = 4
    Hashes <- MCHashes
    Backends = {b1}
    ProtoOf <- MCProtos
    FlagSets <- MCFlagSets
    HealthReads = {TRUE, FALSE}
    Ttl <- MCUdpTtl
    Empty = Empty
    NoFlags = NoFlags
INVARIANTS ReachableBeforeReclaim ClosingIsTerminal OnlyDropLosesFlow PacketIsTracked
