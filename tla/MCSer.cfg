SPECIFICATION Spec
CONSTANTS
    va = va
    vb = vb
    a1 = a1
    a2 = a2
    b1 = b1
    b2 = b2
    c1 = c1
    c2 = c2
    c3 = c3
    t = t
    mc = mc
    None = None
    Vdev <- MCVdev
    Cmd <- MCCmd
    VdevOf <- MCVdevOf
    Blocking <- TwoBlocking
    HighPriority <- OneHigh
    Cell <- MCCell
    Thread <- MCThread
    Mc <- mc
    MaxPending = 2
    ActiveCancels = TRUE
    MaxRequests = 3
SYMMETRY Cells
INVARIANTS
    IInv
    CellsAccounted
    OneActivePerVdev
    CallbackKeepsCell
    TimersWatch
CHECK_DEADLOCK FALSE
