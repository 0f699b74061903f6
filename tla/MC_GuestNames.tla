--------------------------- MODULE MC_GuestNames ---------------------------
EXTENDS GuestNames

CONSTANTS s1, s2, s3, g1, g2, g3, g4, r1

MC_Sockets == {s1, s2, s3}
MC_TwoSockets == {s1, s2}
MC_GuestPool == {g1, g2, g3, g4}
MC_SmallPool == {g1, g2, g3}
MC_RegNames == {r1}
MC_NoRegNames == {}

\* Sockets are interchangeable, and so are the guest names: GenerateUsername
\* may pick any free one.
MC_Symmetry == Permutations(MC_Sockets) \cup Permutations(MC_GuestPool)

=============================================================================
