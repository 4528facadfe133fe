SPECIFICATION FairSpec
CONSTANTS
    Sessions = {a, b}
    MaxWrites = 2
    MaxFaults = 2
    Faults = {"crash", "io", "rm", "damage", "power"}
    DirSync = TRUE
    Free = Free
    Stale = Stale
    Missing = Missing
    Torn = Torn
    Corrupt = Corrupt
    Foreign = Foreign
INVARIANTS
    OneWriter
    NoLostUpdate
    BackupIsRecent
    RefusedNotWritten
    NeverTorn
PROPERTIES
    ReplacedBytesSurvive
    RegisterSpec
    LegacyKept
    CallsReturn
