SPECIFICATION SystemSpec
CONSTANTS
    Versions <- MCVersions
    Arches = {"x86_64"}
    Arch = "x86_64"
    OSFits = TRUE
    Controls = {"cubic", "htcp"}
    Qdiscs = {"fq", "cake"}
    Published <- MCPublished
    Offers <- MCOffers
    MaxTasks = 3
    MaxFaults = 1
    MaxEvents = 1
    Documents <- MCDocuments
    DefaultSub = 3
    MaxVersion = 1
    MaxJobs = 3
    MaxMishaps = 1
    MaxEdits = 1
    MaxCycles = 1
INVARIANTS
    KernelStays
    RunConverges
    PairIsKept
    LeftoversExplained
    UpdateIsTold
PROPERTIES
    ClearUndoes
CHECK_DEADLOCK FALSE
