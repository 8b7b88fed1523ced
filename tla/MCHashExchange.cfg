SPECIFICATION Spec
CONSTANTS
    LockBytePage = 6
    OriginFiles <- MCOriginFiles
    ReplicaFiles <- MCReplicaFiles
    Counters <- MCCounters
    Fine = 2
    Coarse = 3
    FlatMax = 2
INVARIANTS
    Inductive
    NoPageForgotten
    RangesApart
    RestIsOnItsWay
    OnlyDifferencesSent
    FileIsDatabase
PROPERTIES
    CommitMirrors
    WalReplicaStaysWal
    ImplementsCopy
