SPECIFICATION AnsweringSpec
CONSTANTS
    p1 = p1
    p2 = p2
    p3 = p3
    v1 = v1
    Peers <- TwoAndOff
    Enabled <- TwoPeers
    Vips <- OneVip
    MaxCmds = 3
    MaxEvents = 2
INVARIANTS NoStaleRoute NoMissingRoute GaugeIsAccurate
PROPERTIES RoutesConverge ShutdownCompletes
