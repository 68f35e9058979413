SPECIFICATION Spec
CONSTANTS
    Jobs = {j1, j2, j3}
    Submitted = {j1}
    Workers = {w1, w2}
    Slots = {s1}
    MaxRetries <- TwoAttempts
    Faults = {"crash", "stall", "long_drain", "shutdown", "decommission", "db_error", "reaper_crash", "prune", "replay"}
    FaultBudget = 2
    NoWorker = NoWorker
    NoJob = NoJob
SYMMETRY Symmetry
INVARIANTS
    RetryNeverOvercounted
    FinalIsEarned
    OverlapsArePaid
    StartsArePaid
PROPERTIES
    DeadWorkersStayDead
