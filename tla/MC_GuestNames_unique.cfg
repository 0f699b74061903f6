CONSTANTS
    s1 = s1  s2 = s2  s3 = s3  r1 = r1
    g1 = g1  g2 = g2  g3 = g3  g4 = g4
    NoName = NoName
    Sockets <- MC_Sockets
    GuestPool <- MC_GuestPool
    RegNames <- MC_NoRegNames
    MaxRequests = 4
SPECIFICATION Spec
INVARIANT GuestNamesUnique
SYMMETRY MC_Symmetry
CHECK_DEADLOCK FALSE
