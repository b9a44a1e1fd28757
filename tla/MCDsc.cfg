SPECIFICATION Spec
CONSTANTS
    d = d
    p = p
    v1 = v1
    v2 = v2
    t1 = t1
    t2 = t2
    t3 = t3
    None = None
    Driver <- d
    Psoc <- MCPsoc
    Vdev <- MCVdev
    PsocOf <- MCPsocOf
    Thread <- MCThread
    OpNode <- AllNodes
    MaxDone = 2
SYMMETRY MCSymmetry
INVARIANTS
    TypeOK
    OwnerAgrees
    Quiescence
    IInv
    TreeExclusion
    NoStrandedWaiter
PROPERTIES
    GrantOrder
    Promise
CHECK_DEADLOCK FALSE
