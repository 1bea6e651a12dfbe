CONSTANTS
    n1 = n1
    n2 = n2
    Node = {n1, n2}
    Peer <- Peers
    Blank = Blank
    Wild = Wild
    MOCA_REFRESH_INTERVAL = 1
    MaxTick = 3
    Budget <- AllBudget
CHECK_DEADLOCK FALSE
SPECIFICATION Spec
SYMMETRY Symmetry
INVARIANTS
    TypeOK
    RowsAnnounced
    FreshRows
