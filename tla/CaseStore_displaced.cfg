CONSTANTS
    Procs = {p1, p2}
    Revs = {r1, r2}
    NoRev = NoRev
    Operations = {"import", "append", "adopt"}
    SNAPSHOT_INTERVAL = 2
    MaxOps = 3
    MaxSeq = 2
    MaxCrashes = 0
    MaxIoFailures = 0
    MaxDisplacements = 1
SPECIFICATION Spec
SYMMETRY Symmetry
PROPERTIES DisplacedHolderNeverWrites
CHECK_DEADLOCK FALSE
