--------------------------- MODULE MC_Recording ----------------------------
EXTENDS Recording

\* A one-unit and a three-unit file; no keyframes, one slot per unit, or one
\* interval that does not divide the file duration.
MC_FileDurations == {0, 1, 3}
MC_KeyIntervals == {0, 1, 2}

\* An admin captures everything, or nothing but non-Guacamole messages.
MC_Captures == {{}, Flags}
\* Cap'n Proto Bool fields default to false unless the schema says otherwise
\* (the schema is not in the repository).
MC_SchemaDefaults == {}
\* The header run gives one setting, capturing everything.
MC_AllCaptured == {Flags}

=============================================================================
