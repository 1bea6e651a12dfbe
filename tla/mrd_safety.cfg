CONSTANTS
    a1 = a1
    a2 = a2
    a3 = a3
    Addr = {a1, a2, a3}
    LinkLocal = {a1, a2}
    Matched = {a1, a2, a3}
    OwnAddr = {}
    ShmId = 1
    MAX_MCAST_ENTRIES = 2
    MAX_MLIFE = 2
    MAX_SHMRCOUNT = 2
    MaxLines = 1
    Budget <- SafetyBudget
SPECIFICATION Spec
SYMMETRY Symmetry
CHECK_DEADLOCK FALSE
INVARIANTS
    TypeOK
    RoutesListed
    ListedRouted
    StaleBound
    SegmentMapped
PROPERTIES
    KeptForLife
    RoutesFollowLines
