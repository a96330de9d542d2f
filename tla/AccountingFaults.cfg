SPECIFICATION Spec
CONSTANTS
    Loop = Loop
    NoOne = NoOne
    Panels = {p1}
    Tokens = {t1, t2}
    Nodes = {n1}
    Provisioned = {t1}
    Quotas = {2}
    Expiries = {}
    MaxBytes = 2
    MaxMonth = 1
    MaxEdits = 1
    MaxFaults = 1
    MaxStops = 1
INVARIANTS
    BaselineCovered
    ChargedAtMostOnce
    AppliedMatchesCore
PROPERTIES
    LedgerPromise
