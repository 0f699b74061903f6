----------------------------- MODULE Recording ------------------------------
(***************************************************************************)
(* RecordingController (CollabVmServer.hpp, the recording engine of one    *)
(* VM).  Its public operations Start, Stop and SetRecordingSettings, and   *)
(* the handlers of its two steady timers, run on the VM's owner.  A timer  *)
(* wait completes by posting its handler: with success when it expires,    *)
(* with operation_aborted when cancel() or expires_after() interrupts it.  *)
(* A handler already posted is not recalled by a later cancel().           *)
(*                                                                         *)
(* file_duration_ (minutes) and keyframe_interval_ (seconds) are counted   *)
(* in one time unit.  The steady clock `now` drives the timers; the        *)
(* system clock `wall` stamps the header; it is taken to move forward.     *)
(*                                                                         *)
(* WriteMessage appends a server message to the open file when            *)
(* IsMessageRecorded passes it.  That filter reads the member settings_,   *)
(* which no code assigns: SetRecordingSettings stores the admin's flags in *)
(* settings_message_builder_ only.  A default Recordings reader yields the *)
(* schema's default flags, the constant SchemaDefaults.                    *)
(***************************************************************************)
EXTENDS Naturals, Integers, Sequences

CONSTANTS FileDurations,   \* values an admin may give file_duration_
          KeyIntervals,    \* values an admin may give keyframe_interval_
          MaxTime,         \* bound on the steady clock
          MaxCmds,         \* bound on Start/Stop/SetRecordingSettings calls
          Captures,        \* capture flag sets an admin may give
          SchemaDefaults,  \* the flags a default Recordings reader returns
          MaxWrites        \* bound on WriteMessage calls

ASSUME 0 \in FileDurations /\ 0 \in KeyIntervals

Timers == {"stop", "key"}
Flags == {"display", "input", "audio"}
\* Server messages: not Guacamole, and the Guacamole SYNC, AUDIO, MOUSE (or
\* KEY) and any other (display) instruction.
Kinds == {"other", "sync", "audio", "mouse", "img"}
Time == 0 .. MaxTime + 1

VARIABLES now,        \* steady_clock
          wall,       \* system_clock
          fd,         \* file_duration_
          ki,         \* keyframe_interval_
          open,       \* IsRecording(): file_stream_ open and good
          hdr,        \* file_header_, as last written to the open file
          next,       \* next_keyframe_offset_, as an index into hdr.keys
          files,      \* headers of the closed recording files
          timer,      \* timer[t]: a wait pending on t and its expiry
          posted,     \* handlers posted to the owner, oldest first
          cmds,       \* public calls so far
          wanted,     \* ghost: the last of Start()/Stop() called was Start()
          open_failed, \* ghost: this step's Start() could not open the file
          capture,    \* the flags held in settings_message_builder_
          written,    \* messages written to recording files so far
          writes,     \* WriteMessage calls so far
          msg         \* the message of the last WriteMessage call

logVars == <<capture, written, writes, msg>>
vars == <<now, wall, fd, ki, open, hdr, next, files, timer, posted,
          cmds, wanted, open_failed, logVars>>

Completion(t, ok) == [timer |-> t, ok |-> ok]

Header == [start : Time, stop : Time, slots : Nat, count : Nat,
           keys : Seq(Time)]

TypeOK ==
    /\ now \in 0 .. MaxTime /\ wall \in Time
    /\ fd \in FileDurations /\ ki \in KeyIntervals
    /\ open \in BOOLEAN /\ wanted \in BOOLEAN /\ open_failed \in BOOLEAN
    /\ hdr \in Header /\ files \subseteq Header
    \* the iterator stays inside the preallocated keyframe list
    /\ next \in 0 .. hdr.slots
    /\ timer \in [Timers -> [waiting : BOOLEAN, expiry : Int]]
    /\ posted \in Seq([timer : Timers, ok : BOOLEAN])
    /\ cmds \in 0 .. MaxCmds
    /\ capture \subseteq Flags /\ msg \in Kinds \cup {"none"}
    /\ writes \in 0 .. MaxWrites /\ written \in 0 .. writes

Init ==
    /\ now = 0 /\ wall = 1
    /\ fd = 0 /\ ki = 0
    /\ open = FALSE
    /\ hdr = [start |-> 0, stop |-> 0, slots |-> 0, count |-> 0, keys |-> <<>>]
    /\ next = 0
    /\ files = {}
    /\ timer = [t \in Timers |-> [waiting |-> FALSE, expiry |-> 0]]
    /\ posted = <<>>
    /\ cmds = 0 /\ wanted = FALSE /\ open_failed = FALSE
    /\ capture = SchemaDefaults
    /\ written = 0 /\ writes = 0 /\ msg = "none"

\* The aborted completions that cancelling the timers in ts posts, in order.
Aborts(tm, ts) ==
    SelectSeq([i \in 1 .. Len(ts) |-> Completion(ts[i], FALSE)],
              LAMBDA c : tm[c.timer].waiting)
Disarm(tm, T) == [t \in Timers |-> IF t \in T THEN [tm[t] EXCEPT !.waiting = FALSE]
                                             ELSE tm[t]]
\* expires_after(d) then async_wait on t.
Arm(tm, t, d) == [tm EXCEPT ![t] = [waiting |-> TRUE, expiry |-> now + d]]

-----------------------------------------------------------------------------
(* Stop() and Start(), as operators on the posted handlers p: a caller     *)
(* that is itself a handler passes the queue without its own entry.        *)

\* Stop: if recording, cancel both timers, stamp stopTime, rewrite the
\* header and close the file.
StopOp(p) ==
    IF ~open
      THEN /\ posted' = p
           /\ UNCHANGED <<open, hdr, files, timer>>
      ELSE /\ posted' = p \o Aborts(timer, <<"key", "stop">>)
           /\ timer' = Disarm(timer, Timers)
           /\ hdr' = [hdr EXCEPT !.stop = wall]
           /\ files' = files \cup {[hdr EXCEPT !.stop = wall]}
           /\ open' = FALSE

\* Seeded-bug variant: next_keyframe_offset_ is not reset for the new file.
StartOp_NoReset(p, f, k) ==
    IF f = 0
      THEN /\ posted' = p /\ open_failed' = FALSE
           /\ UNCHANGED <<open, hdr, next, files, timer>>
      ELSE
      LET closing == open
          p1 == IF closing THEN p \o Aborts(timer, <<"key", "stop">>) ELSE p
          tm1 == IF closing THEN Disarm(timer, Timers) ELSE timer
          closed == [hdr EXCEPT !.stop = wall]
          n == IF k = 0 THEN 0 ELSE f \div k
      IN
      /\ UNCHANGED next
      /\ files' = IF closing THEN files \cup {closed} ELSE files
      /\ \/ /\ open' = TRUE /\ open_failed' = FALSE
            /\ hdr' = [start |-> wall, stop |-> 0, slots |-> n, count |-> 0,
                       keys |-> [i \in 1 .. n |-> 0]]
            /\ posted' = p1 \o Aborts(tm1, <<"stop", "key">>)
            /\ timer' = IF k = 0 THEN Disarm(Arm(tm1, "stop", f), {"key"})
                        ELSE Arm(Arm(tm1, "stop", f), "key", k)
         \/ /\ open' = FALSE /\ open_failed' = TRUE
            /\ hdr' = IF closing THEN closed ELSE hdr
            /\ posted' = p1 /\ timer' = tm1

\* Start with the settings f, k: nothing if f is zero.  Else Stop, then
\* open a new file (which may fail: no directory, open error), write a
\* header with startTime and f \div k zeroed keyframe slots, arm the stop
\* timer for f, and UpdateKeyframeTimer.
StartOp(p, f, k) ==
    IF f = 0
      THEN /\ posted' = p /\ open_failed' = FALSE
           /\ UNCHANGED <<open, hdr, next, files, timer>>
      ELSE
      LET closing == open
          p1 == IF closing THEN p \o Aborts(timer, <<"key", "stop">>) ELSE p
          tm1 == IF closing THEN Disarm(timer, Timers) ELSE timer
          closed == [hdr EXCEPT !.stop = wall]
          n == IF k = 0 THEN 0 ELSE f \div k
      IN
      /\ files' = IF closing THEN files \cup {closed} ELSE files
      /\ \/ /\ open' = TRUE /\ open_failed' = FALSE
            /\ hdr' = [start |-> wall, stop |-> 0, slots |-> n, count |-> 0,
                       keys |-> [i \in 1 .. n |-> 0]]
            /\ next' = 0
            /\ posted' = p1 \o Aborts(tm1, <<"stop", "key">>)
            /\ timer' = IF k = 0 THEN Disarm(Arm(tm1, "stop", f), {"key"})
                        ELSE Arm(Arm(tm1, "stop", f), "key", k)
         \/ /\ open' = FALSE /\ open_failed' = TRUE
            /\ hdr' = IF closing THEN closed ELSE hdr
            /\ posted' = p1 /\ timer' = tm1
            /\ UNCHANGED next

-----------------------------------------------------------------------------
(* Calls from the VM's owner (VM start and stop, settings updates).        *)

Call == cmds < MaxCmds /\ cmds' = cmds + 1

Start ==
    /\ Call /\ wanted' = TRUE
    /\ StartOp(posted, fd, ki)
    /\ UNCHANGED <<now, wall, fd, ki, logVars>>

Stop ==
    /\ Call /\ wanted' = FALSE /\ open_failed' = FALSE
    /\ StopOp(posted)
    /\ UNCHANGED <<now, wall, fd, ki, next, logVars>>

\* UpdateKeyframeTimer with interval k: cancel, or re-arm.
UpdateKeyframeTimer(k) ==
    /\ posted' = posted \o Aborts(timer, <<"key">>)
    /\ timer' = IF k = 0 THEN Disarm(timer, {"key"}) ELSE Arm(timer, "key", k)

\* Store the settings; when recording, restart if the stop timer's
\* remaining time is below the new duration, else UpdateKeyframeTimer.
SetRecordingSettings(f, k, c) ==
    /\ Call /\ fd' = f /\ ki' = k /\ capture' = c
    /\ IF ~open
         THEN /\ open_failed' = FALSE
              /\ UNCHANGED <<open, hdr, next, files, timer, posted>>
         ELSE IF timer["stop"].expiry - now < f
           THEN StartOp(posted, f, k)
           ELSE /\ UpdateKeyframeTimer(k) /\ open_failed' = FALSE
                /\ UNCHANGED <<open, hdr, next, files>>
    /\ UNCHANGED <<now, wall, wanted, written, writes, msg>>

-----------------------------------------------------------------------------
(* Timer handlers, run in the order they were posted.                      *)

\* stop_timer_: on error Stop(), else Start() (roll over to a new file).
RunStopHandler ==
    /\ posted # <<>> /\ Head(posted).timer = "stop"
    /\ IF Head(posted).ok
         THEN StartOp(Tail(posted), fd, ki)
         ELSE StopOp(Tail(posted)) /\ open_failed' = FALSE /\ UNCHANGED next
    /\ UNCHANGED <<now, wall, fd, ki, cmds, wanted, logVars>>

\* Seeded-bug variant: the end of the keyframe list is detected one late.
RunKeyframeHandler_LateEnd ==
    /\ posted # <<>> /\ Head(posted).timer = "key"
    /\ IF ~Head(posted).ok
         THEN /\ posted' = Tail(posted) /\ open_failed' = FALSE
              /\ UNCHANGED <<open, hdr, next, files, timer>>
         ELSE IF next > hdr.slots
           THEN StartOp(Tail(posted), fd, ki)
           ELSE /\ hdr' = [hdr EXCEPT !.keys[next + 1] = wall, !.count = @ + 1]
                /\ next' = next + 1
                /\ posted' = Tail(posted) \o Aborts(timer, <<"key">>)
                /\ timer' = Arm(timer, "key", ki)
                /\ open_failed' = FALSE
                /\ UNCHANGED <<open, files>>
    /\ UNCHANGED <<now, wall, fd, ki, cmds, wanted, logVars>>

\* keyframe_timer_: on error nothing.  Else, at the end of the keyframe
\* list, Start(); otherwise fill the next slot with {tellp, now}, bump
\* keyframesCount, rewrite the header and StartKeyframeTimer.
RunKeyframeHandler ==
    /\ posted # <<>> /\ Head(posted).timer = "key"
    /\ IF ~Head(posted).ok
         THEN /\ posted' = Tail(posted) /\ open_failed' = FALSE
              /\ UNCHANGED <<open, hdr, next, files, timer>>
         ELSE IF next = hdr.slots
           THEN StartOp(Tail(posted), fd, ki)
           ELSE /\ hdr' = [hdr EXCEPT !.keys[next + 1] = wall, !.count = @ + 1]
                /\ next' = next + 1
                /\ posted' = Tail(posted) \o Aborts(timer, <<"key">>)
                /\ timer' = Arm(timer, "key", ki)
                /\ open_failed' = FALSE
                /\ UNCHANGED <<open, files>>
    /\ UNCHANGED <<now, wall, fd, ki, cmds, wanted, logVars>>

-----------------------------------------------------------------------------
(* Messages the VM sends while recording.                                  *)

\* IsMessageRecorded: every non-Guacamole message; SYNC if any flag is on;
\* AUDIO with the audio flag, MOUSE and KEY with the input flag, any other
\* instruction with the display flag.
IsMessageRecorded(m, flags) ==
    CASE m = "other" -> TRUE
      [] m = "sync"  -> flags # {}
      [] m = "audio" -> "audio" \in flags
      [] m = "mouse" -> "input" \in flags
      [] m = "img"   -> "display" \in flags

\* WriteMessage: write the framed message to the file if the filter, which
\* reads settings_, passes it.
WriteMessage(m) ==
    /\ open /\ writes < MaxWrites
    /\ writes' = writes + 1 /\ msg' = m
    /\ written' = IF IsMessageRecorded(m, SchemaDefaults) THEN written + 1
                                                        ELSE written
    /\ open_failed' = FALSE
    /\ UNCHANGED <<now, wall, fd, ki, open, hdr, next, files, timer, posted,
                   cmds, wanted, capture>>

-----------------------------------------------------------------------------
(* Environment: time passes and a due timer posts its success handler.     *)

Tick ==
    /\ now < MaxTime
    /\ now' = now + 1 /\ wall' = wall + 1
    /\ open_failed' = FALSE
    /\ UNCHANGED <<fd, ki, open, hdr, next, files, timer, posted, cmds, wanted,
                   logVars>>

Expire(t) ==
    /\ timer[t].waiting /\ timer[t].expiry <= now
    /\ timer' = [timer EXCEPT ![t].waiting = FALSE]
    /\ posted' = Append(posted, Completion(t, TRUE))
    /\ open_failed' = FALSE
    /\ UNCHANGED <<now, wall, fd, ki, open, hdr, next, files, cmds, wanted,
                   logVars>>

Next ==
    \/ Start \/ Stop
    \/ \E f \in FileDurations, k \in KeyIntervals, c \in Captures :
          SetRecordingSettings(f, k, c)
    \/ \E m \in Kinds : WriteMessage(m)
    \/ RunStopHandler \/ RunKeyframeHandler
    \/ Tick
    \/ \E t \in Timers : Expire(t)

Spec == Init /\ [][Next]_vars


-----------------------------------------------------------------------------
(* Properties                                                              *)

\* Headers of the recording files: the closed ones, and the open one as
\* last rewritten.
Written == files \cup (IF open THEN {hdr} ELSE {})

\* Spec 8.7: in every recording file header keyframesCount <= the number of
\* preallocated keyframe slots, and every used slot's timestamp lies between
\* startTime and (once written) stopTime -- across rollovers, settings
\* changes and timer handlers that run after a cancel().
HeaderOK ==
    \A h \in Written :
        /\ h.count <= h.slots
        /\ \A i \in 1 .. h.count :
              /\ h.start <= h.keys[i]
              /\ h.stop > 0 => h.keys[i] <= h.stop

\* Spec 4.10: IsRecording() changes only as the last Start()/Stop() call
\* asked.  A recording starts only while Start() is in force (a stop-timer
\* handler posted before a Stop() must not reopen a file), and ends only by
\* Stop() or by a rollover whose new file cannot be opened (a rollover by
\* the stop timer, a full keyframe list or a settings change otherwise
\* continues in a new file, and an aborted handler of the old file's timer
\* must not close the new one).
RecordingFollowsCommands ==
    [][open' # open => (open' = wanted' \/ open_failed')]_vars

\* Spec 4.10: a message handed to WriteMessage is written exactly when the
\* capture flags last given by SetRecordingSettings select it.
MessagesAsCaptured ==
    [][writes' # writes =>
         (written' # written <=> IsMessageRecorded(msg', capture))]_vars

=============================================================================
