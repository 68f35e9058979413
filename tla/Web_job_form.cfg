SPECIFICATION Spec
CONSTANTS
    Queues = {q1, q2}
    Requests = {r1, r2}
    Values = {7, 90}
    ClickBudget = 6
    FaultBudget = 1
    NoQueue = NoQueue
    NoValue = NoValue
    Nobody = Nobody
SYMMETRY Symmetry
INVARIANTS
    JobFormInv
    RunsAsShown
    OneJobPerClick
CHECK_DEADLOCK FALSE
