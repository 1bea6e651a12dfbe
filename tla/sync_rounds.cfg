CONSTANTS
    d3 = d3
    d2 = d2
    d1 = d1
    Device = {d1, d2, d3}
    Zero = Zero
    MaxChange = 4
    MaxHostSync = 0
    MaxLMRestart = 0
    MaxSendFail = 0
    MaxHalFail = 1
    MaxRestart = 0
SPECIFICATION FairSpec
INVARIANT RoundAgreement
PROPERTIES
    ReportsTopologyChanges
