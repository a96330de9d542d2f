\* A run of --tool recorded while the panel is open is kept.
SPECIFICATION FairSpec
CONSTANTS
    Tools = {"media", "info"}
    Defaults = {"media"}
    Capacity = 1
    MaxActs = 2
    MaxLines = 2
    MaxRuns = 1
    MaxFaults = 1
    MaxStarts = 1
CHECK_DEADLOCK FALSE
INVARIANT
    NewestIsKept
