SPECIFICATION FairSpec
CONSTANTS
    Calls = {c1, c2, c3}
    MaxLocks = 1
    MaxOthers = 1
    MaxWrites = 2
    Missing = Missing
    Torn = Torn
    Corrupt = Corrupt
    Foreign = Foreign
INVARIANTS
    OutcomesAreVisible
    LastOpeningWins
    SessionIsOnDisk
PROPERTIES
    SupersededNeverSaved
    StorageSpec
    CallsSettle
CHECK_DEADLOCK FALSE
