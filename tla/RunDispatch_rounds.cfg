CONSTANTS
    Runners = {p1}
    Steps = {"s1", "s2", "s3"}
    Plan <- ThreeStepPlan
    Cells = {"c1", "c2"}
    WorkCell <- ThreeSteps
    Capability = "capability"
    Modes = {"step", "frontier", "operate"}
    MayRetry = FALSE
    MaySupersede = FALSE
    Rejectable = {"s1"}
    MaxParallel = 2
    MaxRounds = 2
    MaxAttempts = 2
    MaxCalls = 1
    MaxCrashes = 0
    MaxFaults = 1
    MaxEdits = 1
SPECIFICATION FairSpec
INVARIANTS RoundsAreTrue
PROPERTIES CallsReturn
CHECK_DEADLOCK FALSE
