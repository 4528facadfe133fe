SPECIFICATION FairSpec
CONSTANTS
    Calls = {c1, c2, c3}
    MaxActive = 2
    Timeout = 2
    MaxTime = 3
    AllowLoopback = TRUE
    Reopens = {"v2"}
CHECK_DEADLOCK FALSE
INVARIANTS
    PlacesAreHeld
    DestinationChecked
    DeadlineKept
PROPERTIES
    EveryCallSettles
