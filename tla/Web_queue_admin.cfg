SPECIFICATION Spec
CONSTANTS
    Admins = {a1, a2}
    Jobs = {j1}
    Calls = {c1, c2}
    Fields = {"name", "limit"}
    Values = {v1, v2}
    Empty = Empty
    MaxProjects = 2
    MaxQueues = 3
    ClickBudget = 4
SYMMETRY Symmetry
INVARIANTS
    AdminInv
    UntouchedFollow
PROPERTIES
    PausedStaysPaused
    DeletedAsCounted
CHECK_DEADLOCK FALSE
