SPECIFICATION MCSpec
CONSTANTS
    Vcpu = {0}
    Bsp = 0
    RESTART_MAX = 2
INVARIANTS
    RestartBounded
    OwnedCompletion
PROPERTIES
    
    SuccessMeansAlive
    
    
