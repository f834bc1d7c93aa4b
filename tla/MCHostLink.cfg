SPECIFICATION LiveSpec
CONSTANTS
    Call <- MCCall
    Parts = 2
    MaxRetransmits = 1
    MaxFaults = 2
CHECK_DEADLOCK FALSE
INVARIANTS
    TypeOK
    RightReply
    NoSpuriousDispatch
    DispatchesWhole
    OwnerHolds

    
