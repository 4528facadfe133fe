SPECIFICATION Spec
CONSTANTS
    Sessions = {a, b}
    MaxWrites = 3
    MaxFaults = 2
    Faults = {"crash", "io", "rm", "damage", "power"}
    DirSync = TRUE
    Free = Free
    Stale = Stale
    Missing = Missing
    Torn = Torn
    Corrupt = Corrupt
    Foreign = Foreign
SYMMETRY SessionSymmetry
INVARIANTS
    TypeOK
    OneWriter
    NoLostUpdate
    BackupIsRecent
    RefusedNotWritten
    NeverTorn
    IndInv
    HistoryInv
PROPERTIES
    ReplacedBytesSurvive
    RegisterSpec
    LegacyKept
