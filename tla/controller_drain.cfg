SPECIFICATION Spec
CONSTANTS
    Backends <- MCBackends
    PoolIds <- MCPools
    Vips <- MCVips
    IPv4Vips <- MCIPv4
    Configs <- MCConfigs
    NoConfig = NoConfig
INVARIANT WithdrawnStaysWithdrawn
