SPECIFICATION MCSpec
CONSTANTS
    pool1 = pool1
    pool2 = pool2
    Configs = {c1, c2, c3}
    EmptyConfig = EmptyConfig
    Malformed = Malformed
    Workers = {w1}
    InitialFiles = {c1, c2, c3, Malformed}
    MaxChanges = 3
    Ips = {"ip1"}
    Ports = {80, 443}
    Targets <- MCTargets
    ProbeKind <- MCProbeKind
    healthy_threshold = 2
    unhealthy_threshold = 3
    TableSize = 5
    WeightLists <- MCWeights
    Transcripts <- MCTranscripts
    Asn = 65010
    HoldTime = 90
    RouterId <- MCRouterId
    WireVips <- MCWireVips
    NetworkMtus = {1279, 1280, 1500, 9000}
    OptionLists <- MCOptions
    TcpFlagBytes = {2, 18, 16}
    IpHeaders <- MCIp
    Modes = {"threaded", "per_queue"}
    NumQueues = 2
    QueueCapacity = 1
    PacketBufSize = 2048
    NetworkMtu = 1280
    SrcIp <- MCSrcIp
    Services <- MCServices
    Table <- MCTable
    Wire <- MCWire
    xxh3 <- MCxxh3
INVARIANTS
    MapHasWitness
    FramingIsExact
    OwnMessagesDecode
    SynFitsTunnel
    TableIsFair
    FlowsReachTheirBackend
PROPERTIES
    NeverGoesBack
    FileIsApplied
    StatusFollowsRuns
    DeadIsReported
