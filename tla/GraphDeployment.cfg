CONSTANTS
    None = None
    Blank = Blank
    CaseSpace = "case"
    Claims = {"c1", "c2"}
    BaseTopology <- Base
    Topologies <- InstanceTopologies
    Documents <- InstanceDocuments
    Mappings <- InstanceMappings
    ClaimRecords <- InstanceClaimRecords
    ExpansionPolicies <- InstanceExpansionPolicies
    Rounds <- InstanceRounds
    SimulationRequests <- InstanceSimulationRequests
    RedesignInputs <- InstanceRedesignInputs
    Dispositions <- InstanceDispositions
    MaxLog = 3
    MaxBundles = 1
    MaxRounds = 2
SPECIFICATION Spec
INVARIANTS AuthorityIsReviewed AuthorisedRunsDoNotCollide ExpansionStaysWithinPolicy TransitionsAreExact SimulationFitsTheGraph
CHECK_DEADLOCK FALSE
