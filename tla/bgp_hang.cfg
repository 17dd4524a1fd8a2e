SPECIFICATION FairSpec
CONSTANTS
    p1 = p1
    p2 = p2
    p3 = p3
    v1 = v1
    Peers <- One
    Enabled <- One
    Vips <- OneVip
    MaxCmds = 2
    MaxEvents = 2
PROPERTY ShutdownCompletes
