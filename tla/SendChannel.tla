---------------------------- MODULE SendChannel ----------------------------
(***************************************************************************)
(* What the outbound side of one client connection promises (spec 5,      *)
(* "Ordering guarantees"): every message handed to the socket reaches the  *)
(* wire in the order it was handed over, none is lost or sent twice, and   *)
(* delivery only stops when the connection is closed.  Several messages    *)
(* may be handed over, or written, in one step.                            *)
(***************************************************************************)
EXTENDS Naturals, Sequences, SequencesExt

CONSTANTS Msg,      \* message payloads
          MaxMsgs   \* bound on the number of messages handed over

VARIABLES sent,     \* every message handed to the socket, in order
          wire,     \* what the peer has received
          closed    \* the connection is closed

vars == <<sent, wire, closed>>

Init ==
    /\ sent = <<>>
    /\ wire = <<>>
    /\ closed = FALSE

\* One or more messages are handed over at once.
Enqueue ==
    /\ \E ms \in SeqOf(Msg, MaxMsgs - Len(sent)) \ {<<>>} :
          sent' = sent \o ms
    /\ UNCHANGED <<wire, closed>>

\* The wire grows by the next messages of sent, in order.
Deliver ==
    /\ ~closed
    /\ \E k \in Len(wire) + 1 .. Len(sent) : wire' = SubSeq(sent, 1, k)
    /\ UNCHANGED <<sent, closed>>

Close ==
    /\ closed' = TRUE
    /\ UNCHANGED <<sent, wire>>

Next == Enqueue \/ Deliver \/ Close

Spec == Init /\ [][Next]_vars /\ WF_vars(Deliver)

=============================================================================
