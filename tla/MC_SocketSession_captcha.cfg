CONSTANTS
    s1 = s1  s2 = s2
    Sockets <- MC_Sockets
    MaxConnections = 1
    MaxToggles = 0
    CaptchaRequired = TRUE
    Admins <- MC_Admins
    MaxRequests = 1
SPECIFICATION Spec
INVARIANT CaptchaGate
CHECK_DEADLOCK FALSE
