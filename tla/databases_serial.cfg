SPECIFICATION SerialSpec
CONSTANTS
    Default = dflt
    Name = {dflt, n1}
    Config = {p, q}
    Client = {c1, c2}
    Boot = boot
    dflt = dflt
    n1 = n1
    p = p
    q = q
    c1 = c1
    c2 = c2
    boot = boot
    MaxDir = 4
    MaxWrite = 2
SYMMETRY Symmetry
INVARIANTS
    MountedAsSaved
    ServedIsInPlace
    ReadableIsMounted
