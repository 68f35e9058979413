SPECIFICATION FairSpec
CONSTANTS
    t1 = t1
    t2 = t2
    Schedulers = {s1, s2}
    Jobs = {j1}
    Templates = {t1, t2}
    NextRun <- TwoPaces
    Horizon = 3
    BatchSize = 2
    Faults = {"crash", "shutdown", "tick_error", "delete"}
    FaultBudget = 2
    NoLeader = NoLeader
INVARIANTS
    LeaderInv
    OneLeader
    SpawnedOnce
PROPERTIES
    ImplementsTimetable
    EverythingServed
CHECK_DEADLOCK FALSE
