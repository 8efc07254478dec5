SPECIFICATION IndexSpec
CONSTANTS
    Competitive = TRUE
    K = 2
    L0 = 0
    MaxLoc = 3
    MaxWrite = 3
    MaxDoc = 2
    MaxVersion = 3
INVARIANTS MemoryIsCommitted IdsAreFresh DocumentsExact DocumentsReachable
PROPERTY DocumentIdsAreStable
