--------------------------- MODULE MC_VmRegistry ---------------------------
EXTENDS VmRegistry

CONSTANTS v1, v2, v3

MC_VmIds == {v1, v2, v3}
MC_InitialVms == {v1, v2}

=============================================================================
