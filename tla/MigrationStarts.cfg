SPECIFICATION FairSpec
CONSTANTS
    NoOne = NoOne
    Starters = {panel, service}
    Service = service
    ProtocolCount = 2
    Users = {u1}
    Ports = {1, 2}
    MaxFaults = 1
    MaxEdits = 2
INVARIANTS
    OneNodeEach
    SelectionsExist
    SelectionsKept
    EditsSurvive
PROPERTIES
    EventuallyUpgraded
