CONSTANTS
    Level <- Trace
    INVALID_LEVEL <- Invalid
    FirstLevel = 1
    NULL = NULL
    Budget <- AllBudget
CHECK_DEADLOCK FALSE
SPECIFICATION FairSpec
INVARIANTS
    TypeOK
    FaultsExplained
    GreenIsServed
    CrashNoticed
    LevelFollows
PROPERTIES
    BecomesReady
