SPECIFICATION FairSpec
CONSTANTS
    Backends <- MCBackends
    PoolIds <- MCPools
    Vips <- MCVips
    IPv4Vips <- MCIPv4
    Configs <- MCConfigs
    NoConfig = NoConfig
INVARIANTS AnnouncedIsDesired TablesAreFresh NoTableForRemovedPool
PROPERTY PendingIsFlushed
