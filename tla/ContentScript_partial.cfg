SPECIFICATION Spec
CONSTANTS
    NumFields = 2
    Passes = {p1}
    Stays = FALSE
    TypesMeanwhile = FALSE
    MaxReferences = 1
CHECK_DEADLOCK FALSE
INVARIANTS
    NoPartialReveal
