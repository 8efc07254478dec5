SPECIFICATION Spec
CONSTANTS
    Db = {d}
    Enabled = {d}
    Triggered = {"ladder"}
    Asked = {"ladder"}
    Passes = 2
    IdleTime = 1
    MaxItem = 2
    MaxLoc = 2
    MaxTrouble = 1
    MaxTrigger = 1
INVARIANTS
    FlushedIsKept
    RungIsExact
PROPERTIES
    QuiescentIsLeftAlone
    ChangeIsDreamed
