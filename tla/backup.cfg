SPECIFICATION ColdSpec
CONSTANTS
    Name = {a}
    a = a
    All = All
    MaxClock = 3
    MaxCommand = 3

    
PROPERTIES
    RestoresWhatWasSaved
CHECK_DEADLOCK FALSE
