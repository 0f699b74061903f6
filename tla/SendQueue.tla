----------------------------- MODULE SendQueue -----------------------------
(***************************************************************************)
(* The outbound pipeline of one CollabVmSocket (CollabVmServer.hpp,       *)
(* QueueMessage, QueueMessageBatch, SendMessage, SendMessageBatch and      *)
(* SendMessageCallback).  The send queue and the sending_ flag are owned   *)
(* by the send_queue_ strand: callers on other strands only dispatch a     *)
(* task to it, and the completion handler of a socket write is wrapped     *)
(* onto the same strand.  The strand is a FIFO of pending tasks; the       *)
(* transport completes outstanding writes, successfully or with an error,  *)
(* in any order relative to the strand.                                    *)
(***************************************************************************)
EXTENDS Naturals, Sequences, SequencesExt

CONSTANTS Msg,       \* message payloads (shared SocketMessage objects)
          MaxMsgs,   \* bound on the number of messages queued in a run
          MaxBatch   \* bound on the size of one QueueMessageBatch

ASSUME MaxMsgs \in Nat /\ MaxBatch \in Nat \ {0}

VARIABLES sent,        \* history: messages in the order they were queued
          tasks,       \* send_queue_ strand: pending tasks, FIFO
          send_queue,  \* std::queue guarded by send_queue_
          sending,     \* sending_
          writes,      \* outstanding TSocket::WriteMessage calls
          wire,        \* bytes the peer has received, as messages
          closed       \* the socket has been closed

vars == <<sent, tasks, send_queue, sending, writes, wire, closed>>

\* Strand tasks: the lambdas of QueueMessage and QueueMessageBatch, and the
\* wrapped completion handler carrying the write's error code.
QueueTask(m)  == [kind |-> "queue", msgs |-> <<m>>]
BatchTask(ms) == [kind |-> "batch", msgs |-> ms]
DoneTask(ok)  == [kind |-> "done",  ok |-> ok]

Task == [kind : {"queue", "batch"}, msgs : Seq(Msg)]
          \cup [kind : {"done"}, ok : BOOLEAN]

TypeOK ==
    /\ sent \in Seq(Msg)
    /\ tasks \in Seq(Task)
    /\ send_queue \in Seq(Msg)
    /\ sending \in BOOLEAN
    \* SendMessageBatch pops front() in a do-while: never given an empty queue
    /\ writes \in Seq(Seq(Msg) \ {<<>>})
    /\ wire \in Seq(Msg)
    /\ closed \in BOOLEAN

Init ==
    /\ sent = <<>>
    /\ tasks = <<>>
    /\ send_queue = <<>>
    /\ sending = FALSE
    /\ writes = <<>>
    /\ wire = <<>>
    /\ closed = FALSE

\* SendMessage / SendMessageBatch: hand the buffers of ms to the transport
\* in one WriteMessage call.
StartWrite(ms) == writes' = Append(writes, ms)

-----------------------------------------------------------------------------
(* Callers.  QueueMessage frames the message and dispatches a task; it is  *)
(* called from any strand.  QueueMessageBatch dispatches a task whose      *)
(* callback pushes several messages (the VM list and the thumbnails).      *)

QueueMessage(m) ==
    /\ Len(sent) < MaxMsgs
    /\ sent' = Append(sent, m)
    /\ tasks' = Append(tasks, QueueTask(m))
    /\ UNCHANGED <<send_queue, sending, writes, wire, closed>>

QueueMessageBatch(ms) ==
    /\ Len(sent) + Len(ms) <= MaxMsgs
    /\ sent' = sent \o ms
    /\ tasks' = Append(tasks, BatchTask(ms))
    /\ UNCHANGED <<send_queue, sending, writes, wire, closed>>

-----------------------------------------------------------------------------
(* The send_queue_ strand runs its oldest task.                            *)

\* Seeded-bug variant: writes immediately even while a write is in flight.
RunQueueMessage_IgnoresSending ==
    /\ tasks # <<>> /\ Head(tasks).kind = "queue"
    /\ tasks' = Tail(tasks)
    /\ sending' = TRUE
    /\ StartWrite(Head(tasks).msgs)
    /\ UNCHANGED <<sent, send_queue, wire, closed>>

\* QueueMessage's lambda: queue behind the write in flight, or start one.
RunQueueMessage ==
    /\ tasks # <<>> /\ Head(tasks).kind = "queue"
    /\ tasks' = Tail(tasks)
    /\ IF sending
         THEN /\ send_queue' = send_queue \o Head(tasks).msgs
              /\ UNCHANGED <<sending, writes>>
         ELSE /\ sending' = TRUE
              /\ StartWrite(Head(tasks).msgs)
              /\ UNCHANGED send_queue
    /\ UNCHANGED <<sent, wire, closed>>

\* QueueMessageBatch's lambda: push every message, then, if nothing is in
\* flight, send the whole queue as one batch (SendMessageBatch pops it).
RunQueueMessageBatch ==
    /\ tasks # <<>> /\ Head(tasks).kind = "batch"
    /\ tasks' = Tail(tasks)
    /\ LET q == send_queue \o Head(tasks).msgs IN
         IF q # <<>> /\ ~sending
           THEN /\ sending' = TRUE
                /\ StartWrite(q)
                /\ send_queue' = <<>>
           ELSE /\ send_queue' = q
                /\ UNCHANGED <<sending, writes>>
    /\ UNCHANGED <<sent, wire, closed>>

\* Seeded-bug variant: sending_ is never cleared when the queue runs dry.
RunSendMessageCallback_KeepsSending ==
    /\ tasks # <<>> /\ Head(tasks).kind = "done"
    /\ tasks' = Tail(tasks)
    /\ IF ~Head(tasks).ok
         THEN /\ closed' = TRUE
              /\ UNCHANGED <<send_queue, sending, writes>>
         ELSE /\ UNCHANGED closed
              /\ IF send_queue = <<>>
                   THEN UNCHANGED <<send_queue, sending, writes>>
                   ELSE /\ StartWrite(send_queue)
                        /\ send_queue' = <<>>
                        /\ UNCHANGED sending
    /\ UNCHANGED <<sent, wire>>

\* Seeded-bug variant: the queue is sent but not popped.
RunSendMessageCallback_NoPop ==
    /\ tasks # <<>> /\ Head(tasks).kind = "done"
    /\ tasks' = Tail(tasks)
    /\ IF ~Head(tasks).ok
         THEN /\ closed' = TRUE
              /\ UNCHANGED <<send_queue, sending, writes>>
         ELSE /\ UNCHANGED closed
              /\ IF send_queue = <<>>
                   THEN /\ sending' = FALSE
                        /\ UNCHANGED <<send_queue, writes>>
                   ELSE /\ StartWrite(send_queue)
                        /\ UNCHANGED <<send_queue, sending>>
    /\ UNCHANGED <<sent, wire>>

\* Seeded-bug variant: no `case 0`, the queue is always sent as a batch.
RunSendMessageCallback_AlwaysWrite ==
    /\ tasks # <<>> /\ Head(tasks).kind = "done"
    /\ tasks' = Tail(tasks)
    /\ IF ~Head(tasks).ok
         THEN /\ closed' = TRUE
              /\ UNCHANGED <<send_queue, sending, writes>>
         ELSE /\ UNCHANGED <<closed, sending>>
              /\ StartWrite(send_queue)
              /\ send_queue' = <<>>
    /\ UNCHANGED <<sent, wire>>

\* SendMessageCallback: on error close the socket and stop (sending_ stays
\* set); otherwise clear sending_ when the queue is empty, else send its
\* head (case 1) or all of it as a batch (default), emptying it.  With one
\* queued message both branches write exactly that message.
RunSendMessageCallback ==
    /\ tasks # <<>> /\ Head(tasks).kind = "done"
    /\ tasks' = Tail(tasks)
    /\ IF ~Head(tasks).ok
         THEN /\ closed' = TRUE
              /\ UNCHANGED <<send_queue, sending, writes>>
         ELSE /\ UNCHANGED closed
              /\ IF send_queue = <<>>
                   THEN /\ sending' = FALSE
                        /\ UNCHANGED <<send_queue, writes>>
                   ELSE /\ StartWrite(send_queue)
                        /\ send_queue' = <<>>
                        /\ UNCHANGED sending
    /\ UNCHANGED <<sent, wire>>

-----------------------------------------------------------------------------
(* The transport.  An outstanding write completes: its bytes reach the     *)
(* peer unless the socket is closed, and the wrapped handler is posted to  *)
(* the strand with the error code.  A write may fail at any time (peer     *)
(* gone), which closes the socket.  Close is also called from outside,     *)
(* e.g. by KICK_USER or a read error.                                      *)

WriteCompletes(i) ==
    /\ ~closed
    /\ wire' = wire \o writes[i]
    /\ writes' = RemoveAt(writes, i)
    /\ tasks' = Append(tasks, DoneTask(TRUE))
    /\ UNCHANGED <<sent, send_queue, sending, closed>>

WriteFails(i) ==
    /\ closed' = TRUE
    /\ writes' = RemoveAt(writes, i)
    /\ tasks' = Append(tasks, DoneTask(FALSE))
    /\ UNCHANGED <<sent, send_queue, sending, wire>>

Close ==
    /\ ~closed
    /\ closed' = TRUE
    /\ UNCHANGED <<sent, tasks, send_queue, sending, writes, wire>>

-----------------------------------------------------------------------------

RunStrand == RunQueueMessage \/ RunQueueMessageBatch \/ RunSendMessageCallback

CompleteWrite == \E i \in 1 .. Len(writes) : WriteCompletes(i) \/ WriteFails(i)

Next ==
    \/ \E m \in Msg : QueueMessage(m)
    \/ \E ms \in SeqOf(Msg, MaxBatch) \ {<<>>} : QueueMessageBatch(ms)
    \/ RunStrand
    \/ CompleteWrite
    \/ Close

\* The io_context threads eventually run every task posted to a strand,
\* and the transport eventually completes every write it was given.
Fairness == WF_vars(RunStrand) /\ WF_vars(CompleteWrite)

Spec == Init /\ [][Next]_vars /\ Fairness

-----------------------------------------------------------------------------
(* Properties                                                              *)

\* At most one WriteMessage is outstanding on the socket at any time: the
\* sending_ flag must keep QueueMessage, QueueMessageBatch and the
\* completion handler from starting a second write, which the websocket
\* stream does not allow.
SingleWrite == Len(writes) <= 1

\* What the peer received is always a prefix of what was queued, in
\* queueing order: the completion handler and the batch path never lose,
\* repeat or reorder a message.
WireIsPrefix == IsPrefix(wire, sent)

\* The pipeline implements the FIFO channel of SendChannel: every message
\* queued on an open socket is eventually written, in order.
Channel == INSTANCE SendChannel WITH sent <- sent, wire <- wire, closed <- closed
ChannelSpec == Channel!Spec

=============================================================================
