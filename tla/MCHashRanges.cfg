SPECIFICATION Spec
CONSTANTS
    Fine = 30
    Coarse = 1000
    FlatMax = 100
    Firsts <- MCFirsts
    Lengths <- MCLengths
INVARIANTS
    PiecesTile
    ThreeRounds
    SubdivideIsTheQuery
CHECK_DEADLOCK FALSE
