SPECIFICATION Spec
CONSTANTS
    Name = {a, b}
    Client = {c1, c2}
    a = a
    b = b
    c1 = c1
    c2 = c2
    MaxId = 3
    MaxObject = 3
    MaxWrite = 2
INVARIANTS
    CacheIsRegistered
    OneObject
    AcknowledgedIsStored
    CollectionsAreDisjoint
