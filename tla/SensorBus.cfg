SPECIFICATION FairSpec
CONSTANTS
    Slaves = {distro, balancer}
    None = none
    MaxCommands = 2
    MaxTimeouts = 1
INVARIANTS HardwareSpared TakenOnce SuccessIsOwn
PROPERTY ComesToRest
CHECK_DEADLOCK FALSE
