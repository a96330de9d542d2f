SPECIFICATION RunsSpec
CONSTANTS
    t1 = t1
    t2 = t2
    Targets <- MCTargets
    Distance <- MCDistance
    MaxHops = 2
    Tries = 2
    Concurrency = 2
    BatchMax = 1
    Named <- MCNamed
    MaxWire = 2
    MaxFaults = 1
    Items = 3
    Wanted = {1, 3}
    Slots = 2
    Endpoints = 2
    Carriers <- MCCarriers
    Listings <- MCListings
    Nearest = 2
    Services <- Catalogue
INVARIANTS HopsAreOwn NothingIsBlank ReportIsMeasured VerdictIsTrue
PROPERTIES TraceEnds
CHECK_DEADLOCK FALSE
