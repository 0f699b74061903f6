CONSTANTS
    FileDurations <- MC_FileDurations
    KeyIntervals <- MC_KeyIntervals
    MaxTime = 4
    MaxCmds = 3
    SchemaDefaults <- MC_SchemaDefaults
    MaxWrites = 1
    Captures <- MC_AllCaptured
SPECIFICATION Spec
INVARIANT HeaderOK
INVARIANT TypeOK
CHECK_DEADLOCK FALSE
