SPECIFICATION PollSpec
CONSTANTS
    t1 = t1
    t2 = t2
    vm1 = vm1
    vm2 = vm2
    Idle = Idle
    None = None
    Thread <- MCThread
    Vm <- MCVm
    VmOf <- MCVmOf
    Policy = "rtds"
    Management = {"RESET"}
    MaxGen = 2
    MaxEpoch = 0
INVARIANTS
    QueuedIsAwake
    QuiescedIsOff
PROPERTIES
    QuiesceAnswered
