-------------------------- MODULE MC_IPAccounting ---------------------------
EXTENDS IPAccounting

CONSTANTS s1, s2, s3

MC_Sockets == {s1, s2, s3}

=============================================================================
