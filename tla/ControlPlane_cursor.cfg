CONSTANTS
    Requests <- HostRequests
    Notifications <- OneNotification
    NoRevision = 0
    OlderJournal <- JournalOfAnEarlierBuild
    Pids = {1}
    NoRequest = NoRequest
    MaxRevision = 2
    MaxCalls = 3
    MaxCrashes = 1
    MaxIoFailures = 1
SPECIFICATION Spec
INVARIANT CursorSkipsNothing
CHECK_DEADLOCK FALSE
