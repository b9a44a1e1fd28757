SPECIFICATION FairSpec
CONSTANTS
    d = d
    p = p
    v1 = v1
    v2 = v2
    t1 = t1
    t2 = t2
    t3 = t3
    None = None
    Driver <- d
    Psoc <- MCPsoc
    Vdev <- MCVdev
    PsocOf <- MCPsocOf
    Thread <- MCThread
    OpNode <- PsocNodes
    MaxDone = 2
PROPERTIES
    UptreeWaitReturns
CHECK_DEADLOCK FALSE
