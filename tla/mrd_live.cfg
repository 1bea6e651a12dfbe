CONSTANTS
    a1 = a1
    a2 = a2
    Addr = {a1, a2}
    LinkLocal = {a1, a2}
    Matched = {a1, a2}
    OwnAddr = {a2}
    ShmId = 1
    MAX_MCAST_ENTRIES = 2
    MAX_MLIFE = 2
    MAX_SHMRCOUNT = 2
    MaxLines = 1
    Budget <- LiveBudget
SPECIFICATION FairSpec
PROPERTIES
    RoutesConverge
    PingsResolve
