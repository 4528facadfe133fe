SPECIFICATION Spec
CONSTANTS
    Tabs = {t1, t2}
    Names = {n1, n2}
    Tasks = {k1, k2, k3, k4}
    Platform = "extension"
    WritesFail = FALSE
    Overlap = {}
    MaxVaults = 2
    MaxOpenings = 4
    MaxFiles = 1
    Elsewhere = {f1, f2}
    Foreign <- TwoOfOneName
    Null = Null
SYMMETRY Symmetry
CHECK_DEADLOCK FALSE
INVARIANTS
    DeletedStaysDeleted
