SPECIFICATION Spec
CONSTANTS
    Loop = Loop
    NoOne = NoOne
    Panels = {p1, p2}
    Tokens = {t1, t2}
    Nodes = {n1, n2}
    Ports = {1, 2, 3}
    SubPort = 3
    FirstPort = 1
    Deployed = {n1}
    Subscribed = {t1}
    MaxEdits = 3
    MaxFaults = 1
    MaxFlips = 1
SYMMETRY PanelSymmetry
INVARIANTS
    NodesAsDecided
    PortsDistinct
    CoreMatchesFiles
    DanglingIsExcused
