CONSTANTS
    Cases <- ContradictoryCases
    Grants <- AllGrants
    Actors = {"worker", "reviewer"}
    Inputs <- ClaimInputs
    Artifacts = {"file"}
    Lives = {"resolved"}
    MaxLog = 3
    MaxProposals = 1
SPECIFICATION Spec
INVARIANTS WaivedObstructionsDoNotBlock
CHECK_DEADLOCK FALSE
