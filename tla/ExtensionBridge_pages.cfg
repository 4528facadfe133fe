SPECIFICATION Spec
CONSTANTS
    Pages = {p1, p2}
    Requests = {r1}
    Clicks = {c1}
    Habits = {"address"}
    Timeout = 2
    None = None
SYMMETRY Symmetry
CHECK_DEADLOCK FALSE
INVARIANTS
    UnlockedPageIsUsed
