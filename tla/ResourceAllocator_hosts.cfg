CONSTANTS
    Groups <- MCGroups
    NoGroup = NoGroup
    Capacity <- MCCapacity
    Requests <- ContendedRequests
    NoId = NoId
    NoDeployment = NoDeployment
    Procs = {h1, h2}
    NoProc = NoProc
    NoRequest = NoRequest
    NoEvent = NoEvent
    NoHint = NoHint
    CheckpointInterval = 2
    Retain = 1
    MaxEvents = 3
    MaxOps = 3
    MaxCrashes = 1
    MaxIoFailures = 1
    MaxOlderWrites = 0
SPECIFICATION Spec
SYMMETRY Symmetry
INVARIANTS DecidesOnWholeJournal JournalIsSound
PROPERTIES ImplementsLedger
CHECK_DEADLOCK FALSE
