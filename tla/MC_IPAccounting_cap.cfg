CONSTANTS
    s1 = s1  s2 = s2  s3 = s3
    Sockets <- MC_Sockets
    MaxConnections = 1
    MaxToggles = 0
SPECIFICATION Spec
INVARIANT CapEnforced
CHECK_DEADLOCK FALSE
