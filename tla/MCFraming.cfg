SPECIFICATION FairSpec
CONSTANTS
    Buf = 3
    Word = 2
    HashLen = 2
    PageSize = 4
    MaxText = 4
    MaxExponent = 16
    Scripts <- MCScripts
    Rooms <- MCRooms
INVARIANTS
    TypeOK
    InStep
    NothingTorn
    CountersMeet
    CancelledStops
PROPERTIES
    CancelledReturns
    EverythingArrives
