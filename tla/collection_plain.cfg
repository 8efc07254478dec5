SPECIFICATION VersionedSpec
CONSTANTS
    Competitive = FALSE
    K = 2
    L0 = 0
    MaxLoc = 2
    MaxWrite = 3
    MaxDoc = 2
    MaxVersion = 3
INVARIANTS TypeOK DocumentsExact VersionWitnessesState
