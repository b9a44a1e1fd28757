SPECIFICATION OsifFairSpec
CONSTANTS
    d = d
    p = p
    v1 = v1
    v2 = v2
    w1 = w1
    w2 = w2
    t1 = t1
    t2 = t2
    t3 = t3
    None = None
    Driver <- d
    Psoc <- MCPsoc
    Vdev <- MCVdev
    PsocOf <- MCPsocOf
    Thread <- MCThread
    OpNode <- MCVdev
    MaxDone = 1
    Slot <- MCSlot
    Dev <- TwoDevs
    User <- ThreadsOneTwo
    Creator <- ThreadOne
    Deleter <- ThreadThree
    Closer <- Nobody
INVARIANTS
    OsifIInv
    RegisteredIsLive
    NobodyOnFreedVdev
    OwnContext
    
    
PROPERTIES
    SlotsReclaimed
