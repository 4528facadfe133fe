SPECIFICATION Spec
CONSTANTS
    Tabs = {t1}
    Names = {n1, n2}
    Tasks = {k1, k2, k3}
    Platform = "extension"
    WritesFail = FALSE
    Overlap = {"vault"}
    MaxVaults = 2
    MaxOpenings = 3
    MaxFiles = 1
    Elsewhere = {f1, f2}
    Foreign <- TwoOfOneName
    Null = Null
SYMMETRY Symmetry
CHECK_DEADLOCK FALSE
INVARIANTS
    NamesUnique
