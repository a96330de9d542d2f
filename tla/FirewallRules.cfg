SPECIFICATION Spec
CONSTANTS
    Panels = {p1, p2}
    Boot = Boot
    Slots = {1, 2}
    Ports = {8, 80}
    Ranges <- OneRange
    Backends = {"iptables", "nft", "none"}
    Foreign <- OperatorsRule
    MaxEdits = 1
    MaxTasks = 2
    MaxFaults = 1
    MaxReboots = 1
SYMMETRY PanelSymmetry
CHECK_DEADLOCK FALSE
INVARIANTS
    AppliedIsPresent
    RemovedIsGone
    Delivered
