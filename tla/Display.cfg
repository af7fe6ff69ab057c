SPECIFICATION DisplayFairSpec
CONSTANTS
    NOutputs = 2
    NVersions = 2
INVARIANTS
    FlipsAccountedFor
    

    
    
CHECK_DEADLOCK FALSE
