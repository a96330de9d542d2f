SPECIFICATION Spec
CONSTANTS
    Panels = {panel}
    Timer = timer
    Script = script
    DomainCount = 2
    ManifestDomain = 2
    ManifestPort = 2
    SubPorts = {1, 2}
    MaxTasks = 1
    MaxFaults = 0
    MaxAges = 0
INVARIANTS
    SchemesAgree
CHECK_DEADLOCK FALSE
