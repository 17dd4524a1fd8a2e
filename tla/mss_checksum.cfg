SPECIFICATION ClampSpec
CONSTANTS
    NetworkMtus = {1280, 1500}
    OptionLists <- MCOptions
    TcpFlagBytes = {2, 18}
    IpHeaders <- MCIp
INVARIANT ChecksumStaysValid
CHECK_DEADLOCK FALSE
