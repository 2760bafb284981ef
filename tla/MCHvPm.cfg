SPECIFICATION MCSpec
CONSTANTS
    NVcpu = 2
    VmOf <- MCVmOf1
    Policy = {1}
    NHook = 3
    PrepareHook = {2}
    WdtHook = 1
    MaxEpoch = 1
    MaxOwed = 1
    NAp = 2
    MaxEntry = 2
INVARIANTS
    MCRetainedMeansOff
    
    FailClosed
    GuestTransparent
    TopologyExcluded
    HostOrder
    NoApStranded
PROPERTIES
    FailedOnlyIfUnproven
    AbortServed
CHECK_DEADLOCK FALSE
