SPECIFICATION Spec
CONSTANTS
    Panels = {p1}
    Boot = Boot
    Slots = {1, 2}
    Ports = {8, 80}
    Ranges <- OneRange
    Backends = {"iptables", "nft", "none"}
    Foreign <- OperatorsRule
    MaxEdits = 1
    MaxTasks = 2
    MaxFaults = 0
    MaxReboots = 0
CHECK_DEADLOCK FALSE
INVARIANT ServedHops
