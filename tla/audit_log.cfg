SPECIFICATION Spec
CONSTANTS
    Request = {r1, r2}
    Task = {t1, t2}
    r1 = r1
    r2 = r2
    t1 = t1
    t2 = t2
    Loop = loop
    Reader = reader
    Main = main
    MaxEntries = 2
    Retention = 1
    FlushThreshold = 2
    MaxBuffer = 2
    MaxEvent = 3
    MaxClock = 2
INVARIANTS
    Accounted
    RecordedOnce
PROPERTIES
    RowsLeaveByRetention
    StagedIsStored
