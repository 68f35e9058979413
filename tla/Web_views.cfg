SPECIFICATION FairSpec
CONSTANTS
    Names = {"jobs", "search-projects", "search-queues"}
    Kinds = {"create", "detail-replay"}
    Filters = {"", "failed"}
    PageSizes = {1, 2}
    FirstSize = 1
    FirstFound <- OneFailed
    MaxRows = 2
    MaxChanges = 1
    ClickBudget = 2
    FaultBudget = 1
INVARIANTS
    ViewsInv
    FreshAfterWrite
    EmptyIsHonest
PROPERTIES
    ListsCatchUp
CHECK_DEADLOCK FALSE
