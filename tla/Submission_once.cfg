SPECIFICATION Spec
CONSTANTS
    Requests = {r1, r2, r3}
    Keys = {k1}
    Queues = {q1, q2}
    Faults = {"redis_error", "expire", "db_error", "crash", "delete"}
    FaultBudget = 2
    NoKey = NoKey
    NoQueue = NoQueue
    NoJob = NoJob
SYMMETRY Symmetry
INVARIANTS
    SubmissionInv
    AnswersAgree
    RetriesFindTheJob
PROPERTIES
    ImplementsExactlyOnce
CHECK_DEADLOCK FALSE
