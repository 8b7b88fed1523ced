SPECIFICATION FairSpec
CONSTANTS
    Capacity = 0
    LockBytePage = 6
    OriginFiles <- SyncOrigins
    ReplicaFiles <- SyncReplicas
    Counters <- OneCounter
    Fine = 2
    Coarse = 3
    FlatMax = 2
    OriginPageSize = 512
    Modulus = 10
    ReplicaPageSizes <- TwoSizes
    MaxFaults = 0
    OptionPairs <- SyncOptions
INVARIANTS
    SyncInductive
    HashesNameTheirRange
    ReadyAfterHash
    
    StatsAgree
    SuccessIsCommit
PROPERTIES
    
    WalOnlyEnforced
    ImplementsExchange
    Terminates
