--------------------------- MODULE MC_SendQueue ---------------------------
(* Model-checking instance of SendQueue: two payloads, up to three queued  *)
(* messages, batches of up to two.                                         *)
EXTENDS SendQueue

CONSTANTS m1, m2

MC_Msg == {m1, m2}

=============================================================================
