CONSTANTS
    Runners = {p1, p2}
    Steps = {"s1", "s2"}
    Plan <- TwoStepPlan
    Cells = {"c1", "c2"}
    WorkCell <- TwoCells
    Capability = "capability"
    Modes = {"frontier"}
    MayRetry = FALSE
    MaySupersede = FALSE
    Rejectable = {}
    MaxParallel = 2
    MaxRounds = 1
    MaxAttempts = 3
    MaxCalls = 2
    MaxCrashes = 0
    MaxFaults = 0
    MaxEdits = 0
SPECIFICATION Spec
SYMMETRY Symmetry
INVARIANTS EveryAnchoredTraceVerifies
CHECK_DEADLOCK FALSE
