CONSTANTS
    Groups <- MCGroups
    NoGroup = NoGroup
    Capacity <- MCCapacity
    Requests <- ReusedIdRequests
    NoId = NoId
    NoDeployment = NoDeployment
    Procs = {h1}
    NoProc = NoProc
    NoRequest = NoRequest
    NoEvent = NoEvent
    NoHint = NoHint
    CheckpointInterval = 0
    Retain = 0
    MaxEvents = 3
    MaxOps = 5
    MaxCrashes = 1
    MaxIoFailures = 0
    MaxOlderWrites = 0
SPECIFICATION Spec
INVARIANTS CheckpointKeepsAuthority
CHECK_DEADLOCK FALSE
