--------------------------- MODULE MC_DirectChat ---------------------------
(* Model-checking instance of DirectChat: three users, so that chat ids    *)
(* on the two sides of a chat can differ.                                  *)
EXTENDS DirectChat

CONSTANTS u1, u2, u3

MC_Users == {u1, u2, u3}

=============================================================================
