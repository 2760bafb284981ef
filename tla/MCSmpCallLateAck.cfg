SPECIFICATION Spec
CONSTANTS
    Pcpu <- MCPcpu
    Active = {0, 1, 2}
    Masks <- MCMasks
    MaxGeneration = 2
INVARIANTS
    SuccessMeansRan
