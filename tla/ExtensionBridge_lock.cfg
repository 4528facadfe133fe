SPECIFICATION Spec
CONSTANTS
    Pages = {p1}
    Requests = {r1}
    Clicks = {c1}
    Habits = {}
    Timeout = 2
    None = None
SYMMETRY Symmetry
CHECK_DEADLOCK FALSE
INVARIANTS
    LockedPageTellsNothing
