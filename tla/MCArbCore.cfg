CONSTANTS
    m1 = m1
    m2 = m2
    a = a
    b = b
    None = None
    Msgs <- MCMsgs
    LogVals <- MCLogVals
    LogsOf <- MCLogsOf
    SendsOf <- MCSendsOf
    SideloadAfter <- MCSideloadAfter
    SideloadCacheSize = 1
    MaxMessageBatch = 10
    RequestCounts = {1}
    MaxMsgs = 3
    MaxReorgs = 1
    MaxCrashes = 1
SPECIFICATION Spec
CONSTRAINT ViewBound
INVARIANT CheckpointsValid
INVARIANT CheckpointOutputsPersisted
INVARIANT MachineOutputsAccounted
INVARIANT CursorBehind
INVARIANT CursorDataIsLog
INVARIANT SendsReadMatchesLog
PROPERTY CrashMidReorgResumes
PROPERTY StreamsRefined
