---------------------------- MODULE IPAccounting ----------------------------
(***************************************************************************)
(* Per-IP connection accounting (CollabVmServer.hpp: OnPreConnect,         *)
(* GetIPData, the tail of OnDisconnect).  A connecting socket looks up its *)
(* IP's IPData on the server's ip_data_ strand (storing the shared pointer *)
(* in its own ip_data_ field), reads the connection cap on the settings_   *)
(* strand, and counts itself on the IP's own strand, where it is accepted  *)
(* or closed.  OnDisconnect, called once when a socket closes, decrements  *)
(* the count on the IP's strand if the socket's ip_data_ is set.  All      *)
(* sockets come from one IP: IPs do not interact.                          *)
(***************************************************************************)
EXTENDS Integers, Sequences, FiniteSets

CONSTANTS Sockets,        \* sockets connecting from the IP
          MaxConnections, \* the MAX_CONNECTIONS setting
          MaxToggles      \* bound on admin changes of MAX_CONNECTIONS_ENABLED

VARIABLES phase,       \* phase[s]: "new", "connecting", "live", "closing", "gone"
          has_ip_data, \* has_ip_data[s]: the socket's ip_data_ is set
          mq,          \* tasks of the ip_data_ map strand (sockets)
          sq,          \* tasks of the settings_ strand (sockets)
          iq,          \* tasks of the IP's strand
          connections, \* IPData::connections
          enabled,     \* the MAX_CONNECTIONS_ENABLED setting
          toggles      \* admin changes of it so far

vars == <<phase, has_ip_data, mq, sq, iq, connections, enabled, toggles>>

Phases == {"new", "connecting", "live", "closing", "gone"}

CheckTask(s, on) == [kind |-> "check", sock |-> s, enabled |-> on]
DecrementTask(s) == [kind |-> "decrement", sock |-> s]

TypeOK ==
    /\ phase \in [Sockets -> Phases]
    /\ has_ip_data \in [Sockets -> BOOLEAN]
    /\ mq \in Seq(Sockets) /\ sq \in Seq(Sockets)
    /\ iq \in Seq([kind : {"check"}, sock : Sockets, enabled : BOOLEAN]
                  \cup [kind : {"decrement"}, sock : Sockets])
    /\ connections \in 0 .. Cardinality(Sockets)
    /\ enabled \in BOOLEAN
    /\ toggles \in 0 .. MaxToggles

Init ==
    /\ phase = [s \in Sockets |-> "new"]
    /\ has_ip_data = [s \in Sockets |-> FALSE]
    /\ mq = <<>> /\ sq = <<>> /\ iq = <<>>
    /\ connections = 0
    /\ enabled \in BOOLEAN   \* MAX_CONNECTIONS_ENABLED as loaded from the database
    /\ toggles = 0

-----------------------------------------------------------------------------

\* OnPreConnect: GetIPData dispatches the lookup to the ip_data_ strand.
OnPreConnect(s) ==
    /\ phase[s] = "new"
    /\ phase' = [phase EXCEPT ![s] = "connecting"]
    /\ mq' = Append(mq, s)
    /\ UNCHANGED <<has_ip_data, sq, iq, connections, enabled, toggles>>

\* GetIPData on the ip_data_ strand: find or emplace the IP's entry; the
\* callback stores it in the socket's ip_data_ and hops to settings_.
RunGetIPData ==
    /\ mq # <<>>
    /\ has_ip_data' = [has_ip_data EXCEPT ![Head(mq)] = TRUE]
    /\ sq' = Append(sq, Head(mq))
    /\ mq' = Tail(mq)
    /\ UNCHANGED <<phase, iq, connections, enabled, toggles>>

\* settings_ strand: read the cap settings and hop to the IP's strand.
RunReadSettings ==
    /\ sq # <<>>
    /\ iq' = Append(iq, CheckTask(Head(sq), enabled))
    /\ sq' = Tail(sq)
    /\ UNCHANGED <<phase, has_ip_data, mq, connections, enabled, toggles>>

\* Seeded-bug variant: the socket under the cap is never handed on to
\* TSocket::OnPreConnect.
RunCheck_NoAccept ==
    /\ iq # <<>> /\ Head(iq).kind = "check"
    /\ LET t == Head(iq) IN
         IF t.enabled /\ connections + 1 > MaxConnections
           THEN /\ connections' = connections + 1
                /\ phase' = IF phase[t.sock] = "connecting"
                              THEN [phase EXCEPT ![t.sock] = "closing"] ELSE phase
           ELSE /\ connections' = IF t.enabled THEN connections + 1 ELSE connections
                /\ UNCHANGED phase
    /\ iq' = Tail(iq)
    /\ UNCHANGED <<has_ip_data, mq, sq, enabled, toggles>>

\* The IP's strand: when the cap is enabled, ++connections and, past the
\* cap, Close(); else TSocket::OnPreConnect accepts the socket (a socket
\* already gone stays gone).
RunCheck ==
    /\ iq # <<>> /\ Head(iq).kind = "check"
    /\ LET t == Head(iq)
           over == t.enabled /\ connections + 1 > MaxConnections
       IN
       /\ connections' = IF t.enabled THEN connections + 1 ELSE connections
       /\ phase' = IF phase[t.sock] = "connecting"
                     THEN [phase EXCEPT ![t.sock] = IF over THEN "closing" ELSE "live"]
                     ELSE phase
    /\ iq' = Tail(iq)
    /\ UNCHANGED <<has_ip_data, mq, sq, enabled, toggles>>

\* OnDisconnect: once, when the connection closes (the peer leaves, or the
\* cap closed it); decrement on the IP's strand if ip_data_ is set.
OnDisconnect(s) ==
    /\ phase[s] \in {"connecting", "live", "closing"}
    /\ phase' = [phase EXCEPT ![s] = "gone"]
    /\ iq' = IF has_ip_data[s] THEN Append(iq, DecrementTask(s)) ELSE iq
    /\ UNCHANGED <<has_ip_data, mq, sq, connections, enabled, toggles>>

\* Seeded-bug variant: the decrement is not guarded by connections > 0.
RunDecrement_Unguarded ==
    /\ iq # <<>> /\ Head(iq).kind = "decrement"
    /\ connections' = connections - 1
    /\ iq' = Tail(iq)
    /\ UNCHANGED <<phase, has_ip_data, mq, sq, enabled, toggles>>

\* The IP's strand: decrement if positive.
RunDecrement ==
    /\ iq # <<>> /\ Head(iq).kind = "decrement"
    /\ connections' = IF connections > 0 THEN connections - 1 ELSE 0
    /\ iq' = Tail(iq)
    /\ UNCHANGED <<phase, has_ip_data, mq, sq, enabled, toggles>>

\* An admin turns MAX_CONNECTIONS_ENABLED on or off.
ToggleCap ==
    /\ toggles < MaxToggles
    /\ enabled' = ~enabled /\ toggles' = toggles + 1
    /\ UNCHANGED <<phase, has_ip_data, mq, sq, iq, connections>>

Next ==
    \/ \E s \in Sockets : OnPreConnect(s) \/ OnDisconnect(s)
    \/ RunGetIPData \/ RunReadSettings \/ RunCheck \/ RunDecrement
    \/ ToggleCap

\* The strands run every task posted to them.
Fairness == WF_vars(RunGetIPData) /\ WF_vars(RunReadSettings)
            /\ WF_vars(RunCheck) /\ WF_vars(RunDecrement)

Spec == Init /\ [][Next]_vars /\ Fairness

Live == {s \in Sockets : phase[s] = "live"}

-----------------------------------------------------------------------------
(* Properties                                                              *)

\* Every connection attempt is eventually accepted or closed by the cap.
Settles == \A s \in Sockets : phase[s] = "connecting" ~> phase[s] # "connecting"

\* Spec 4.2: while the cap is enabled, an IP never has more than
\* MaxConnections accepted sessions at once (RunCheck's ++connections and
\* OnDisconnect's decrement keeping the count of the live sockets).
CapEnforced == enabled => Cardinality(Live) <= MaxConnections

=============================================================================
