SPECIFICATION FairSpec
CONSTANTS
    t1 = t1
    t2 = t2
    vm1 = vm1
    vm2 = vm2
    Idle = Idle
    None = None
    Thread <- MCThread1
    Vm <- MCVm
    VmOf <- MCVmOf1
    Policy = "noop"
    Management = {"SUSPEND"}
    MaxGen = 0
    MaxEpoch = 0
PROPERTIES
    ManagementReachesIdle
