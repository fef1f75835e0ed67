CONSTANTS
    Groups <- MCGroups
    NoGroup = NoGroup
    Capacity <- MCCapacity
    Requests <- ContendedRequests
    NoId = NoId
    NoDeployment = NoDeployment
    Procs = {h1, h2}
    NoProc = NoProc
    NoRequest = NoRequest
    NoEvent = NoEvent
    NoHint = NoHint
    CheckpointInterval = 0
    Retain = 3
    MaxEvents = 3
    MaxOps = 3
    MaxCrashes = 0
    MaxIoFailures = 0
    MaxOlderWrites = 1
SPECIFICATION FairSpec
INVARIANTS OlderWriterDoesNoHarm
PROPERTIES CallsReturn
CHECK_DEADLOCK FALSE
