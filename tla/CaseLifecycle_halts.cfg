CONSTANTS
    Cases <- HaltingCases
    Grants <- AllGrants
    Actors = {"worker", "reviewer"}
    Inputs <- ClaimInputs
    Artifacts = {"file"}
    Lives = {"resolved"}
    MaxLog = 2
    MaxProposals = 1
SPECIFICATION Spec
INVARIANTS ExternalHaltsClear
CHECK_DEADLOCK FALSE
