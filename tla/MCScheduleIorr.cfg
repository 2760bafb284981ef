SPECIFICATION TickSpec
CONSTANTS
    t1 = t1
    t2 = t2
    vm1 = vm1
    vm2 = vm2
    Idle = Idle
    None = None
    Thread <- MCThread
    Vm <- MCVm
    VmOf <- MCVmOf
    Policy = "iorr"
    Management = {"SUSPEND", "SHUTDOWN"}
    MaxGen = 1
    MaxEpoch = 1
INVARIANTS
    CurrentIsRunning
    QueueIsAwake
    FreezeTransparent
PROPERTIES
    FrozenUntilThaw
    IdleDispatches
