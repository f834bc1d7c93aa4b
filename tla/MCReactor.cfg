SPECIFICATION LiveSpec
CONSTANTS
    a = a
    b = b
    s = s
    g1 = g1
    g2 = g2
    NoGroup = NoGroup
    Task = {a, b, s}
    Group = {g1, g2}
    group_subscribers <- MCSubscribers
    senders <- MCSenders
    priority_range <- MCRange
    Code = {1}
    Priorities = {0, 1}
    QUEUE_CAPACITY = 2
    MaxId = 3
INVARIANTS
    TypeOK
    CursorsInRange
    NoLostWakeup
PROPERTIES
    Drains
    ImplementsMailboxes
