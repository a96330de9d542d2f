SPECIFICATION Spec
CONSTANTS
    NoOne = NoOne
    Starters = {panel, service}
    Service = service
    ProtocolCount = 2
    Users = {u1}
    Ports = {1, 2}
    MaxFaults = 0
    MaxEdits = 0
INVARIANTS
    FoundNodesComplete
