SPECIFICATION Spec
CONSTANTS
    Jobs = {j1}
    Submitted = {j1}
    Workers = {w1, w2}
    Slots = {s1}
    MaxRetries <- TwoAttempts
    Faults = {"shutdown", "long_drain"}
    FaultBudget = 2
    NoWorker = NoWorker
    NoJob = NoJob
INVARIANT NeverProcessedTwiceAtOnce
