SPECIFICATION Spec
CONSTANTS
    N = 3
    Generations = 2
    Priority <- MCPriority
    Region = {r1, r2}
    Overlaps <- SharedMemory
    Protected = {}
    EventLimit = 2
    Callees <- MCChain
    Slices = {"ok"}
    KernelCallers = {}
    ReplyFaulters = {1}
    Debugged = {2}
    r1 = r1
    r2 = r2
INVARIANTS
    BufferMatchesState
    HibernationIsolates
    NoHibernatedCopy
    NotificationsHeard
