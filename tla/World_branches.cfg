\* Two nodes and a branch; a length that was not initialized is 0 or 9.
CONSTANTS
    Nodes = {m, n}
    Branches = {b}
    NoNode = NoNode
    Unbuilt = Unbuilt
    West = 1
    East = 2
    Height = 1
    Positions <- Map
    Leftover = {0, 9}
SPECIFICATION Spec
SYMMETRY Symmetry
CHECK_DEADLOCK FALSE
INVARIANTS
    WorldInv
    VectorsInv
    DistancesAgree
PROPERTY
    LenAnswers
