CONSTANTS
    m1 = m1
    m2 = m2
    a = a
    b = b
    None = None
    Msgs <- MCMsgs
    LogVals <- MCLogVals
    LogsOf <- MCLogsOf
    SendsOf <- MCSendsOf
    SideloadAfter <- MCSideloadAfter
    SideloadCacheSize = 1
    MaxMessageBatch = 10
    RequestCounts = {}
    MaxMsgs = 2
    MaxReorgs = 1
    MaxCrashes = 1
SPECIFICATION Spec
INVARIANT LogRefcountSound
