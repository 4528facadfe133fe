SPECIFICATION Spec
CONSTANTS
    Calls = {c1, c2, c3, c4}
    MaxLocks = 1
    MaxOthers = 1
    MaxWrites = 2
    Missing = Missing
    Torn = Torn
    Corrupt = Corrupt
    Foreign = Foreign
INVARIANTS
    TypeOK
    IndInv
    OutcomesAreVisible
    LastOpeningWins
    SessionIsOnDisk
PROPERTIES
    SupersededNeverSaved
    StorageSpec
CHECK_DEADLOCK FALSE
SYMMETRY CallSymmetry
