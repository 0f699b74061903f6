CONSTANTS
    u1 = u1
    u2 = u2
    u3 = u3
    Users <- MC_Users
    ChatLimit = 2
    MaxRequests = 3

SPECIFICATION Spec

INVARIANT TypeOK
INVARIANT RollbackOnlyPending

CHECK_DEADLOCK FALSE
