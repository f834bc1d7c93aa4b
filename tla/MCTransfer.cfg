SPECIFICATION Spec
CONSTANTS
    Params = 3
    GenMod = 2
    MaxRestarts = 1
CHECK_DEADLOCK FALSE
INVARIANTS
    NoInheritance
    ServesWithAll
    LostUnfreezes
