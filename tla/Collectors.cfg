CONSTANTS
    Classes <- MCClasses
    Ticks <- MCTicks
    WordMod = 1048576
    U16Mod = 65536
    U32Mod = 65536
    Listings <- MCListings
    Partitions <- MCPartitions
    CacheName <- MCCacheName
    MaxDisks = 2
    MaxInterfaces = 1
    MaxFs = 1
    Interfaces <- MCInterfaces
    Mounts <- MCMounts
    Watched = 2
    Groups <- MCGroups
    ListLimit = 3
    MaxProcGroups = 1
    Configs <- MCConfigs
    U16Max = 4
    Candidates = 3
    ScanLimit = 2
    MaxTopN = 7
    MaxFaults = 2
    MaxSamples = 3
SPECIFICATION Spec
INVARIANTS NoStaleValues CpuSharesAddUp SharesOverOneInterval DiskRatesTrue DisksReported ThreadCountsTrue TopNTrue
