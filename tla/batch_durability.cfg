SPECIFICATION BatchSpec
CONSTANTS
    Competitive = TRUE
    K = 2
    L0 = 0
    MaxLoc = 3
    MaxWrite = 3
    MaxDoc = 1
    MaxVersion = 3
INVARIANTS LearnedIsDurable

