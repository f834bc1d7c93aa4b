SPECIFICATION LiveSpec
CONSTANTS
    N = 3
    Generations = 2
    Priority <- MCPriority
    Region = {r1}
    Overlaps <- ClientMemory
    Protected = {1}
    EventLimit = 1
    Callees <- MCCallees
    Slices = {"ok", "memory"}
    KernelCallers = {0}
    ReplyFaulters = {}
    Debugged = {}
    HibernationTask = 1
    r1 = r1
INVARIANTS
    STypeOK
    FaultsInHand
    RestartsFaulted
PROPERTIES
    
    MessagesAnswered
