CONSTANTS
    None = None
    Blank = Blank
    Topology <- InstanceTopology
    Batches <- InstanceBatches
    StreamEvents <- InstanceEvents
    Bundles <- InstanceBundles
    GivenExpectations <- InstanceGiven
    ResourceExpectations <- InstanceResources
    Journal <- InstanceJournal
    Dispositions = {}
    Grants <- InstanceGrants
    CaseArtifacts <- InstanceArtifacts
    DispatchGates <- WorkerGates
    ReviewGates <- InstanceReviewGates
    Edited <- InstanceEdited
    Policies <- InstancePolicies
    ArtifactAnchors <- InstanceAnchors
    MaxBatches = 3
    MaxEvents = 2
    MaxInputs = 3
    MaxLedger = 5
    MaxSteps = 5
SPECIFICATION Spec
INVARIANTS CompleteMeansOneLineage RunAnswersAreTrue StageReleasesAreEarned PolicySatisfactionIsCurrent
CHECK_DEADLOCK FALSE
