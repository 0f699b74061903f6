CONSTANTS
    s1 = s1  s2 = s2  s3 = s3  r1 = r1
    g1 = g1  g2 = g2  g3 = g3  g4 = g4
    NoName = NoName
    Sockets <- MC_TwoSockets
    GuestPool <- MC_SmallPool
    RegNames <- MC_RegNames
    MaxRequests = 3
SPECIFICATION Spec
INVARIANT TypeOK
PROPERTY EventuallyNamed
CHECK_DEADLOCK FALSE
