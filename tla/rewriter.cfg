SPECIFICATION Spec
CONSTANTS
    FragCapacity = 4
    FragHashes <- MCHashes
    FragTtl = 1
    MaxAge = 2
    Backends = {b1, b2}
    Empty = Empty
    Workers = {0}
    Flows <- MCFlows
    FragHashOf <- MCHashOf
    Packets <- MCPackets
    Scenarios <- MCScenarios
    WorkerOf <- OneWorker
    Ipv4 = {b1, b2}
    SrcIpv4 = TRUE
    SizeChecked = TRUE
    IcmpLimit = 1
    Second = 2
    NoBackend = NoBackend
    NoBatch = NoBatch
INVARIANTS FragmentsFollowFirst FragmentsAreFound UnhealthyIsDrained IcmpBounded
