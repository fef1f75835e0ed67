CONSTANTS
    Runners = {p1, p2}
    Steps = {"s1"}
    Plan <- OneStepPlan
    Cells = {"c1"}
    WorkCell <- OneCell
    Capability = "capability"
    Modes = {"step", "frontier"}
    MayRetry = TRUE
    MaySupersede = FALSE
    Rejectable = {}
    MaxParallel = 1
    MaxRounds = 1
    MaxAttempts = 3
    MaxCalls = 3
    MaxCrashes = 0
    MaxFaults = 0
    MaxEdits = 0
SPECIFICATION Spec
SYMMETRY Symmetry
INVARIANTS OneLiveDispatch
CHECK_DEADLOCK FALSE
