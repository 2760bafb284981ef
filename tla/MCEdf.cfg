SPECIFICATION Spec
CONSTANTS
    t1 = t1
    t2 = t2
    Idle = Idle
    None = None
    Thread <- MCThread
    Period <- MCPeriod
    Budget <- MCBudget
    BootTime <- MCBootTime
    MaxTime = 8
    MaxLate = 1
INVARIANTS
    TypeOK
    PicksEarliest
    
    
PROPERTIES
    Contract
    BudgetDelivered
CHECK_DEADLOCK FALSE
