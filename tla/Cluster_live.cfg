SPECIFICATION FairSpec
CONSTANTS
    Jobs = {j1, j2, j3}
    Submitted = {j1, j2}
    Workers = {w1, w2}
    Slots = {s1, s2}
    MaxRetries <- TwoAttempts
    Faults = {"crash", "reaper_crash", "shutdown", "decommission", "replay"}
    FaultBudget = 1
    NoWorker = NoWorker
    NoJob = NoJob

PROPERTIES
    EveryJobEnds
