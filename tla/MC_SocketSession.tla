-------------------------- MODULE MC_SocketSession --------------------------
EXTENDS SocketSession

CONSTANTS s1, s2

MC_Sockets == {s1, s2}

\* Both sockets are admins, so one can view the config while the other
\* modifies it.
MC_Admins == {s1, s2}

=============================================================================
