CONSTANTS
    v1 = v1
    v2 = v2
    v3 = v3
    Blank = Blank
    VmIds <- MC_VmIds
    InitialVms <- MC_InitialVms
    MaxTicks = 2
    MaxOps = 3
    MaxIdsPerRequest = 2

SPECIFICATION Spec

INVARIANT NoUndefinedBehaviour


CHECK_DEADLOCK FALSE
