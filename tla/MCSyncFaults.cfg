SPECIFICATION FairSpec
CONSTANTS
    Capacity = 1
    LockBytePage = 6
    OriginFiles <- FaultOrigins
    ReplicaFiles <- FaultReplicas
    Counters <- OneCounter
    Fine = 2
    Coarse = 3
    FlatMax = 2
    OriginPageSize = 512
    Modulus = 10
    ReplicaPageSizes <- OneSize
    MaxFaults = 2
    OptionPairs <- FaultOptions
INVARIANTS
    NoOneSidedFailure
PROPERTIES
    ImplementsExchange
    Terminates
