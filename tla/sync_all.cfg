CONSTANTS
    d2 = d2
    d1 = d1
    Device = {d1, d2}
    Zero = Zero
    MaxChange = 2
    MaxHostSync = 1
    MaxLMRestart = 1
    MaxSendFail = 1
    MaxHalFail = 1
    MaxRestart = 1
SPECIFICATION ThreadSpec
INVARIANTS
    TypeOK
    UniqueMac
    NodesLiveWhileUsed
    OfflineTold
PROPERTIES
    RoundTruth
    HostSyncServed
