SPECIFICATION FairSpec
CONSTANTS
    Loop = Loop
    NoOne = NoOne
    Panels = {p1}
    Tokens = {t1}
    Nodes = {n1}
    Provisioned = {t1}
    Quotas = {1}
    Expiries = {2}
    MaxBytes = 1
    MaxMonth = 2
    MaxEdits = 2
    MaxFaults = 0
    MaxStops = 1
INVARIANTS
    AppliesCurrentTerms
PROPERTIES
    EventuallyCutOff
