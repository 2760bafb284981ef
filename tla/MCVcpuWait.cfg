SPECIFICATION FairSpec
CONSTANTS
    MaxInstance = 1
INVARIANTS
    
    BootsClean
PROPERTIES
    StopHolds
    WakeNotLost
    
    
