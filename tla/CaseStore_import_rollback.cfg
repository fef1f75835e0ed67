CONSTANTS
    Procs = {p1, p2}
    Revs = {r1, r2}
    NoRev = NoRev
    Operations = {"import", "rebuild"}
    SNAPSHOT_INTERVAL = 2
    MaxOps = 3
    MaxSeq = 2
    MaxCrashes = 1
    MaxIoFailures = 0
    MaxDisplacements = 0
SPECIFICATION Spec
SYMMETRY Symmetry
PROPERTIES RefusedImportIsRolledBack
CHECK_DEADLOCK FALSE
