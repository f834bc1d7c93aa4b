SPECIFICATION SSpec
CONSTANTS
    N = 3
    Generations = 2
    Priority <- MCPriority
    Region = {}
    Overlaps <- NoOverlap
    Protected = {1}
    EventLimit = 1
    Callees <- MCCallees
    Slices = {"ok", "memory"}
    KernelCallers = {0}
    ReplyFaulters = {1}
    Debugged = {}
    HibernationTask = 3
    r1 = r1
INVARIANT SupervisorHears
