SPECIFICATION FairSpec
CONSTANTS
    Tools = {"media", "info"}
    Defaults = {"media"}
    Capacity = 1
    MaxActs = 2
    MaxLines = 2
    MaxRuns = 1
    MaxFaults = 1
    MaxStarts = 1
INVARIANTS
    LogIsComplete
    RecordsAreKept
PROPERTIES
    ScreenCatchesUp
CHECK_DEADLOCK FALSE
