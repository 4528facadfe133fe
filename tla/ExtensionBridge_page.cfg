SPECIFICATION FairSpec
CONSTANTS
    Pages = {p1, p2, p3}
    Requests = {r1}
    Clicks = {c1, c2}
    Habits = {"address", "double click"}
    Timeout = 1
    None = None
CHECK_DEADLOCK FALSE
INVARIANTS
    OnlyPageIsUsed
PROPERTIES
    EveryRequestAnswered
