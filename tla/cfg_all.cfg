CONSTANTS
    k1 = k1
    k2 = k2
    none = none
    r1 = r1
    r2 = r2
    Key = {k1, k2, none}
    ValidKey = {k1, k2}
    NoKey = none
    Name <- Names
    Begins <- NamesBegin
    Blob <- Blobs
    Resetter = {r1}
    Budget <- AllBudget
SPECIFICATION Spec
SYMMETRY Symmetry
CHECK_DEADLOCK FALSE
INVARIANTS
    TypeOK
    Agree
    DocAllOrNothing
    OnlyValidated
