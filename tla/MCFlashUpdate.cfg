SPECIFICATION Spec
CONSTANTS
    PartSize = 2
    LoaderChunk = 1
    Version = {1, 2}
    MaxUpdates = 2
CHECK_DEADLOCK FALSE
INVARIANTS
    CompleteBoots
    
