SPECIFICATION RecFairSpec
CONSTANTS
    d = d
    p = p
    v = v
    worker = worker
    opener = opener
    idle = idle
    unloader = unloader
    user = user
    None = None
    Driver <- d
    Psoc <- MCPsoc
    Vdev <- MCVdev
    PsocOf <- MCPsocOf
    Thread <- MCThread
    OpNode <- MCVdev
    MaxDone = 1
    Worker <- worker
    Opener <- opener
    Idle <- idle
    Unloader <- unloader
    User <- MCUser
    MaxCrash = 1
INVARIANTS
    RecIInv
    OpenHasModules
PROPERTIES
    ModulesQuiet
    RecoveryEnds
    FlagEnds
    UnloadEnds
    OpenEnds
CHECK_DEADLOCK FALSE
