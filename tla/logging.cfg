CONSTANTS
    Period = {1, 3}
    DefaultPeriod = 3
    Nap = 2
    Missing = Missing
    Absent = Absent
    Truncated = Truncated
    Budget <- AllBudget
SPECIFICATION FairSpec
INVARIANTS
    TypeOK
    SettingsAgree
    WaitsNewInterval
    LoggerKeepsTime
PROPERTIES
    SettingsAdopted
