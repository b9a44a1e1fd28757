SPECIFICATION FairSpec
CONSTANTS
    d = d
    p = p
    v1 = v1
    t1 = t1
    t2 = t2
    t3 = t3
    None = None
    Driver <- d
    Psoc <- MCPsoc
    Vdev <- MCVdev
    PsocOf <- MCPsocOf
    Thread <- MCThread
    OpNode <- AllNodes
    MaxDone = 2
INVARIANTS
    NoLostWakeup
PROPERTIES
    DriverServed
    UptreeWaitReturns
