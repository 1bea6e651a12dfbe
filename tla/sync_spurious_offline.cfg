CONSTANTS
    d2 = d2
    d1 = d1
    Device = {d1, d2}
    Zero = Zero
    MaxChange = 2
    MaxHostSync = 1
    MaxLMRestart = 0
    MaxSendFail = 0
    MaxHalFail = 0
    MaxRestart = 0
SPECIFICATION Spec
PROPERTY OfflineTruth
