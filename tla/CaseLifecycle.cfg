CONSTANTS
    Cases <- ReviewedCases
    Grants <- AllGrants
    Actors = {"worker", "reviewer"}
    Inputs <- ClaimInputs
    Artifacts = {"file"}
    Lives = {"resolved"}
    MaxLog = 4
    MaxProposals = 1
SPECIFICATION Spec
INVARIANTS SatisfactionRestsOnReview CloseRestsOnDecisions NamedOperationsClear ReducersAgree FilesAwaitTheirReview AuthorityIsGenesis
CHECK_DEADLOCK FALSE
