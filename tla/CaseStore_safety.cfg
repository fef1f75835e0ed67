CONSTANTS
    Procs = {p1, p2}
    Revs = {r1, r2, r3}
    NoRev = NoRev
    Operations = {"import", "append", "rebuild", "adopt", "read"}
    SNAPSHOT_INTERVAL = 2
    MaxOps = 4
    MaxSeq = 3
    MaxCrashes = 1
    MaxIoFailures = 1
    MaxDisplacements = 0
SPECIFICATION Spec
SYMMETRY Symmetry
INVARIANTS MutualExclusion HistoryIsSound AcknowledgedEntriesStay AnswersAreTrue
CHECK_DEADLOCK FALSE
