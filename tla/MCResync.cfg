SPECIFICATION ResyncSpec
CONSTANTS
    Capacity = 2
    LockBytePage = 4
    OriginFiles <- Versions
    ReplicaFiles <- Replicas
    Counters <- OneCounter
    Fine = 2
    Coarse = 3
    FlatMax = 2
    OriginPageSize = 512
    Modulus = 10
    ReplicaPageSizes <- OneSize
    MaxFaults = 2
    OptionPairs <- DefaultOptions

    
PROPERTIES
    ImplementsExchange
    Converges
