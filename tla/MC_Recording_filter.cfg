CONSTANTS
    FileDurations <- MC_FileDurations
    KeyIntervals <- MC_KeyIntervals
    MaxTime = 5
    MaxCmds = 2
    SchemaDefaults <- MC_SchemaDefaults
    MaxWrites = 1
    Captures <- MC_Captures
SPECIFICATION Spec
PROPERTY MessagesAsCaptured
CHECK_DEADLOCK FALSE
