SPECIFICATION Spec
CONSTANTS
    Capacity = 4
    Hashes <- MCFewHashes
    Backends = {b1}
    ProtoOf <- MCFewProtos
    FlagSets <- MCFlagSets
    HealthReads = {TRUE}
    Ttl <- MCTtl
    Empty = Empty
    NoFlags = NoFlags
INVARIANT LiveIsReachable
