SPECIFICATION Spec
CONSTANTS
    Jobs = {j1, j2, j3}
    Submitted = {j1, j2}
    Workers = {w1, w2}
    Slots = {s1}
    MaxRetries <- TwoAttempts
    Faults = {"crash", "shutdown", "decommission", "prune", "db_error", "reaper_crash", "replay"}
    FaultBudget = 3
    NoWorker = NoWorker
    NoJob = NoJob
SYMMETRY Symmetry
INVARIANTS
    SafeInv
    OneThreadPerJob
    RetryAccounting
    DeadLetterExact
