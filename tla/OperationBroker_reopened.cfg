SPECIFICATION Spec
CONSTANTS
    Calls = {c1}
    MaxActive = 1
    Timeout = 2
    MaxTime = 4
    AllowLoopback = TRUE
    Reopens = {"v1", "v2"}
CHECK_DEADLOCK FALSE
INVARIANTS
    MigratedOnly
