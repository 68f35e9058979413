SPECIFICATION FairSpec
CONSTANTS
    t1 = t1
    t2 = t2
    u1 = u1
    u2 = u2
    k1 = k1
    k2 = k2
    Tabs = {t1, t2}
    Users = {u1, u2}
    Tokens = {k1, k2}
    Earlier = {k1}
    CallsAtOnce = 1
    Account <- TokenAccount
    FaultBudget = 1
    ClickBudget = 2
    NoToken = NoToken
    NoUser = NoUser
INVARIANTS
    SessionInv
    AccountIsShown
PROPERTIES
    DeadSessionLeaves
    PagesSettle
CHECK_DEADLOCK FALSE
