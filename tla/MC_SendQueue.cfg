CONSTANTS
    m1 = m1
    m2 = m2
    Msg <- MC_Msg
    MaxMsgs = 4
    MaxBatch = 2

SPECIFICATION Spec

INVARIANT TypeOK
INVARIANT SingleWrite
INVARIANT WireIsPrefix

PROPERTY ChannelSpec

CHECK_DEADLOCK FALSE
