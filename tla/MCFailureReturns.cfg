SPECIFICATION FairSpec
CONSTANTS
    Capacity = 0
    LockBytePage = 6
    OriginFiles <- OneOrigin
    ReplicaFiles <- FewReplicas
    Counters <- OneCounter
    Fine = 2
    Coarse = 3
    FlatMax = 2
    OriginPageSize = 512
    Modulus = 10
    ReplicaPageSizes <- OneSize
    MaxFaults = 1
    OptionPairs <- DefaultOptions
PROPERTIES
    FailureReturns
CHECK_DEADLOCK FALSE
