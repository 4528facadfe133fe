SPECIFICATION Spec
CONSTANTS
    Sessions = {a}
    MaxWrites = 2
    MaxFaults = 1
    Faults = {"crash", "io"}
    DirSync = TRUE
    Free = Free
    Stale = Stale
    Missing = Missing
    Torn = Torn
    Corrupt = Corrupt
    Foreign = Foreign
PROPERTIES
    InterruptedBackupFailsClosed
