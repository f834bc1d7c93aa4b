SPECIFICATION Spec
CONSTANTS
    N = 3
    Generations = 2
    Priority <- MCPriority
    Region = {r1}
    Overlaps <- ClientMemory
    Protected = {}
    EventLimit = 1
    Callees <- MCCallees
    Slices = {"ok", "usage"}
    KernelCallers = {0}
    ReplyFaulters = {}
    Debugged = {}
    r1 = r1
    r2 = r2
INVARIANTS
    TypeOK
    NoWaitOnDead
    NoMissedRendezvous
    RepliesArrive
    
PROPERTIES
    FaultStays
    FaultsReported
