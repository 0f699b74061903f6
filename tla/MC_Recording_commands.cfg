CONSTANTS
    FileDurations <- MC_FileDurations
    KeyIntervals <- MC_KeyIntervals
    MaxTime = 5
    MaxCmds = 3
    SchemaDefaults <- MC_SchemaDefaults
    MaxWrites = 1
    Captures <- MC_Captures
SPECIFICATION Spec
PROPERTY RecordingFollowsCommands
CHECK_DEADLOCK FALSE
