SPECIFICATION FairSpec
CONSTANTS
    Cmds = {k1, k2, k3}
    NoCmd = none
    CoolDown = 2
    CpuBudget = 2
    ProcCap = 1
    FailThreshold = 2
    MaxUse = 2
    MaxCount = 4
INVARIANTS InFlightExact OverLimitNotClosed
PROPERTIES RefusalEnds
