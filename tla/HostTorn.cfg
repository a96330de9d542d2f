SPECIFICATION Spec
CONSTANTS
    Panels = {panel}
    Timer = timer
    Script = script
    DomainCount = 2
    ManifestDomain = 2
    ManifestPort = 2
    SubPorts = {1, 2}
    MaxTasks = 1
    MaxFaults = 1
    MaxAges = 1
INVARIANTS
    PairNeverTorn
CHECK_DEADLOCK FALSE
