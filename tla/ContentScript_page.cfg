SPECIFICATION FairSpec
CONSTANTS
    NumFields = 3
    Passes = {p1, p2, p3}
    Stays = FALSE
    TypesMeanwhile = FALSE
    MaxReferences = 2
CHECK_DEADLOCK FALSE
INVARIANTS
    NoReferenceSubmitted
    AbortedAsAWhole
PROPERTIES
    StoppedSubmitsEnd
