CONSTANTS
    Cases <- MemoryCases
    Grants <- MemoryGrants
    Actors = {"worker", "reviewer"}
    Inputs <- DraftInputs
    Artifacts = {"paper", "note"}
    Lives = {}
    MaxLog = 3
    MaxProposals = 1
    Policy <- ProjectPolicy
    Drafts <- AllDrafts
    IndexEdits = {{"old", "secret"}}
SPECIFICATION MemorySpec
INVARIANTS AnswersAreConsistent AcceptedMemoryIsEarned ProposalsAreReadable
PROPERTIES ContestedOnlyGrows ConflictsSettle
CHECK_DEADLOCK FALSE
