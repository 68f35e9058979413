SPECIFICATION Spec
CONSTANTS
    Jobs = {j1, j2, j3}
    Submitted = {j1, j2}
    Workers = {w1, w2}
    Slots = {s1, s2}
    MaxRetries <- TwoAttempts
    Faults = {"crash", "reaper_crash", "shutdown", "prune", "replay"}
    FaultBudget = 2
    NoWorker = NoWorker
    NoJob = NoJob
SYMMETRY Symmetry
INVARIANTS
    NoStrandedJob
    AttemptsBounded
PROPERTIES
    ImplementsContract
