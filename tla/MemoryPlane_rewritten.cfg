CONSTANTS
    Cases <- RewrittenCases
    Grants <- MemoryGrants
    Actors = {"worker", "reviewer"}
    Inputs <- DraftInputs
    Artifacts = {"paper", "note"}
    Lives = {}
    MaxLog = 3
    MaxProposals = 1
    Policy <- ProjectPolicy
    Drafts <- AllDrafts
    IndexEdits = {{"old", "secret"}}
SPECIFICATION MemorySpec
INVARIANT ClaimsReadAsReviewed
CHECK_DEADLOCK FALSE
