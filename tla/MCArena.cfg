SPECIFICATION Spec
CONSTANTS
    low = low
    high = high
    NoTask = NoTask
    NoValue = NoValue
    N = 2
    Task <- MCTask
    priority_fn <- MCPriority
    GenMod = 2
    RefMax = 2
    MaxKey = 4
INVARIANTS
    TypeOK
    RefcountExact
    HandleKeepsResource
PROPERTIES
    DeadHandlesStayDead
    FrozenIsExclusive
    EvictsOnlyLowerPriority
