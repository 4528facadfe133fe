SPECIFICATION Spec
CONSTANTS
    NumFields = 1
    Passes = {p1, p2}
    Stays = TRUE
    TypesMeanwhile = FALSE
    MaxReferences = 1
SYMMETRY PassSymmetry
CHECK_DEADLOCK FALSE
INVARIANTS
    NoReferenceSubmitted
