SPECIFICATION DurableSpec
CONSTANTS
    Competitive = TRUE
    K = 2
    L0 = 1
    MaxLoc = 3
    MaxWrite = 3
    MaxDoc = 2
    MaxVersion = 2
INVARIANTS LearnedIsDurable

