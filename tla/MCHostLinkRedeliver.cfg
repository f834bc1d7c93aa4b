SPECIFICATION Spec
CONSTANTS
    Call <- MCCall
    Parts = 2
    MaxRetransmits = 1
    MaxFaults = 1
CHECK_DEADLOCK FALSE
INVARIANTS
    RedeliversReply
