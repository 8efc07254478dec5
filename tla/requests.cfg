SPECIFICATION SparedSpec
CONSTANTS
    Name = {a, b}
    Request = {r1, r2}
    Places = {"refused", "missing"}
    Sends = 2
    MaxFault = 1
    a = a
    b = b
    r1 = r1
    r2 = r2
PROPERTIES ConflictsAreExact CallsAreAtomic
SYMMETRY Symmetry
CHECK_DEADLOCK FALSE
