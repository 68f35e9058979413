SPECIFICATION FairSpec
CONSTANTS
    t1 = t1
    t2 = t2
    Schedulers = {s1, s2}
    Jobs = {j1}
    Templates = {t1}
    NextRun <- TwoPaces
    Horizon = 2
    BatchSize = 2
    Faults = {"crash", "lost_connection"}
    FaultBudget = 2
    NoLeader = NoLeader
INVARIANTS
    LockIsServed
    SpawnsAreDue
PROPERTIES
    EverythingServed
CHECK_DEADLOCK FALSE
