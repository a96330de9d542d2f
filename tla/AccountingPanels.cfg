SPECIFICATION Spec
CONSTANTS
    Loop = Loop
    NoOne = NoOne
    Panels = {p1, p2}
    Tokens = {t1, t2}
    Nodes = {n1}
    Provisioned = {t1}
    Quotas = {1}
    Expiries = {2}
    MaxBytes = 1
    MaxMonth = 2
    MaxEdits = 2
    MaxFaults = 0
    MaxStops = 0
SYMMETRY PanelSymmetry
INVARIANTS
    AppliesCurrentTerms
    AppliedMatchesCore
PROPERTIES
    LedgerPromise
