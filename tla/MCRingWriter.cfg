SPECIFICATION Spec
CONSTANTS
    capacity = 16
    erase_size = 8
    program_size = 4
    Base = 4
    CounterBytes = 1
    MaxData = 4
INVARIANTS
    TypeOK
    
