SPECIFICATION CallSpec
CONSTANTS
    LeafSize = 1
    Projected = 2
    Dim = 4
    MaxPower = 4
    MaxSize = 4
    MaxSim = 3
    MaxPoints = 4
CHECK_DEADLOCK FALSE
INVARIANTS
    PowersCompose
    SearchIsExact
    NeighboursAreExact
    ResultsFit
    AlgebraLaws
