CONSTANTS
    m1 = m1
    m2 = m2
    None = None
    Msgs <- MCMsgs
    MaxMsgs = 2
    MaxReorgs = 1
    Gases = {0, 2}
    MaxGases = {0, 1, 2}
    LoadCost = 2
    RetryLimit = 16
    SideloadCacheSize = 0
    Blocks = {}
SPECIFICATION Spec
PROPERTY AdvanceReachesTarget
