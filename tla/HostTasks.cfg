SPECIFICATION Spec
CONSTANTS
    Panels = {panel}
    Timer = timer
    Script = script
    DomainCount = 2
    ManifestDomain = 2
    ManifestPort = 2
    SubPorts = {1, 2}
    MaxTasks = 2
    MaxFaults = 1
    MaxAges = 1
INVARIANTS
    PairsFit
    CoreComesBack
    RenewedIsServed
    SettingsAsDecided
    AccountFits
CHECK_DEADLOCK FALSE
