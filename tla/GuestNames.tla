----------------------------- MODULE GuestNames -----------------------------
(***************************************************************************)
(* Usernames of connected sockets and the server's guest-name table        *)
(* (CollabVmServer.hpp).  Each socket's username lives in its own          *)
(* username_ strand; the case-insensitive guests_ table (name -> socket)   *)
(* lives in one server-wide strand; logins run CreateSession on the        *)
(* sessions_ strand.  Operations hop between these strands: a value read   *)
(* in one task is used by a later task on another strand.                  *)
(*                                                                         *)
(* Names are abstracted to model values already folded to one case.        *)
(* Joining the channel after a name is known, and the ChangeUsername        *)
(* broadcast of SetUserData, are left to the channel model.                *)
(***************************************************************************)
EXTENDS Naturals, Sequences, FiniteSets, SequencesExt, TLC

CONSTANTS Sockets,      \* client connections
          GuestPool,    \* names "guest<N>" and other names guests may take
          RegNames,     \* names of registered accounts
          MaxRequests,  \* bound on client requests
          NoName        \* the empty std::string

ASSUME /\ NoName \notin GuestPool \cup RegNames
       /\ Cardinality(GuestPool) >= MaxRequests

Names == GuestPool \cup RegNames

VARIABLES username,    \* username[s]: the value guarded by s's username_
          logged_in,   \* logged_in[s]: is_logged_in_
          live,        \* sockets not yet disconnected
          uq,          \* uq[s]: pending tasks of s's username_ strand
          guests,      \* the guests_ table, a function Names ~> Sockets
          gq,          \* pending tasks of the guests_ strand
          sq,          \* pending CreateSession tasks of the sessions_ strand
          requests     \* number of client requests so far

vars == <<username, logged_in, live, uq, guests, gq, sq, requests>>

\* Tasks of a username_ strand.
ConnectTask     == [kind |-> "connect"]
RenameTask(n)   == [kind |-> "rename", name |-> n]
SetTask(n)      == [kind |-> "set", name |-> n]
DisconnectTask  == [kind |-> "disconnect"]
\* Tasks of the guests_ strand.
GenerateTask(s)       == [kind |-> "generate", sock |-> s]
InsertTask(s, n, cur) == [kind |-> "insert", sock |-> s, name |-> n, cur |-> cur]
EraseTask(n)          == [kind |-> "erase", name |-> n]

TypeOK ==
    /\ username \in [Sockets -> Names \cup {NoName}]
    /\ logged_in \in [Sockets -> BOOLEAN]
    /\ live \subseteq Sockets
    /\ DOMAIN guests \subseteq Names /\ \A n \in DOMAIN guests : guests[n] \in Sockets
    /\ \A s \in Sockets : uq[s] \in Seq([kind : {"connect", "disconnect"}]
                                        \cup [kind : {"rename", "set"}, name : Names])
    /\ sq \in Seq([sock : Sockets, name : RegNames])
    /\ requests \in 0 .. MaxRequests

Init ==
    /\ username = [s \in Sockets |-> NoName]
    /\ logged_in = [s \in Sockets |-> FALSE]
    /\ live = Sockets
    /\ uq = [s \in Sockets |-> <<>>]
    /\ guests = <<>>
    /\ gq = <<>>
    /\ sq = <<>>
    /\ requests = 0

\* SetUserData(name): dispatch a swap of the username onto s's strand.
SetUserData(s, n) == uq' = [uq EXCEPT ![s] = Append(@, SetTask(n))]

Request == /\ requests < MaxRequests
           /\ requests' = requests + 1

-----------------------------------------------------------------------------
(* Client requests of a live socket.                                       *)

\* CONNECT_TO_CHANNEL: a task on the socket's username_ strand.
ConnectToChannel(s) ==
    /\ s \in live /\ Request
    /\ uq' = [uq EXCEPT ![s] = Append(@, ConnectTask)]
    /\ UNCHANGED <<username, logged_in, live, guests, gq, sq>>

\* CHANGE_USERNAME: refused at once for a logged-in socket (the captcha,
\* rate-limit and ValidateUsername checks are not modelled: they pass).
ChangeUsername(s, n) ==
    /\ s \in live /\ ~logged_in[s] /\ Request
    /\ uq' = [uq EXCEPT ![s] = Append(@, RenameTask(n))]
    /\ UNCHANGED <<username, logged_in, live, guests, gq, sq>>

\* LOGIN_REQUEST (or ACCOUNT_REGISTRATION_REQUEST) that succeeds: after the
\* captcha and database hops, CreateSession runs on the sessions_ strand.
Login(s, r) ==
    /\ s \in live /\ Request
    /\ sq' = Append(sq, [sock |-> s, name |-> r])
    /\ UNCHANGED <<username, logged_in, live, uq, guests, gq>>

\* OnDisconnect: the socket stops reading and dispatches a task to its
\* username_ strand.
Disconnect(s) ==
    /\ s \in live
    /\ live' = live \ {s}
    /\ uq' = [uq EXCEPT ![s] = Append(@, DisconnectTask)]
    /\ UNCHANGED <<username, logged_in, guests, gq, sq, requests>>

-----------------------------------------------------------------------------
(* username_ strand of socket s.                                           *)

RunUsernameTask(s) ==
    /\ uq[s] # <<>>
    /\ LET t == Head(uq[s])
           cur == username[s]
       IN
       CASE t.kind = "connect" ->
              \* empty name: GenerateUsername on the guests_ strand
              /\ gq' = IF cur = NoName THEN Append(gq, GenerateTask(s)) ELSE gq
              /\ uq' = [uq EXCEPT ![s] = Tail(@)]
              /\ UNCHANGED username
         [] t.kind = "rename" ->
              \* same name: nothing; else insert on guests_ with the
              \* current name read here
              /\ gq' = IF cur = t.name THEN gq
                       ELSE Append(gq, InsertTask(s, t.name, cur))
              /\ uq' = [uq EXCEPT ![s] = Tail(@)]
              /\ UNCHANGED username
         [] t.kind = "set" ->
              /\ username' = [username EXCEPT ![s] = t.name]
              /\ uq' = [uq EXCEPT ![s] = Tail(@)]
              /\ UNCHANGED gq
         [] t.kind = "disconnect" ->
              \* the name is moved out of the strand (leaving it empty)
              \* into a task that erases it from guests_
              /\ gq' = IF cur = NoName THEN gq ELSE Append(gq, EraseTask(cur))
              /\ uq' = [uq EXCEPT ![s] = Tail(@)]
              /\ username' = [username EXCEPT ![s] = NoName]
    /\ UNCHANGED <<logged_in, live, guests, sq, requests>>

-----------------------------------------------------------------------------
(* guests_ strand.                                                         *)

\* Seeded-bug variant: the generated name is inserted but never set.
RunGenerate_NoSet ==
    /\ gq # <<>> /\ Head(gq).kind = "generate"
    /\ \E n \in GuestPool \ DOMAIN guests : guests' = guests @@ (n :> Head(gq).sock)
    /\ gq' = Tail(gq)
    /\ UNCHANGED <<username, logged_in, live, uq, sq, requests>>

\* GenerateUsername: from a random guest<N>, increment until insert
\* succeeds; any free name can be the result.  Then SetUserData.
RunGenerate ==
    /\ gq # <<>> /\ Head(gq).kind = "generate"
    /\ \E n \in GuestPool \ DOMAIN guests :
          /\ guests' = guests @@ (n :> Head(gq).sock)
          /\ SetUserData(Head(gq).sock, n)
    /\ gq' = Tail(gq)
    /\ UNCHANGED <<username, logged_in, live, sq, requests>>

\* Seeded-bug variant: the current name is inserted and the new one erased.
RunInsert_Swapped ==
    /\ gq # <<>> /\ Head(gq).kind = "insert"
    /\ LET t == Head(gq) IN
         IF t.name \in DOMAIN guests
           THEN UNCHANGED <<guests, uq>>
           ELSE /\ guests' = Restrict(guests @@ (t.cur :> t.sock),
                                      (DOMAIN guests \cup {t.cur}) \ {t.name})
                /\ SetUserData(t.sock, t.name)
    /\ gq' = Tail(gq)
    /\ UNCHANGED <<username, logged_in, live, sq, requests>>

\* CHANGE_USERNAME on guests_: insert; if taken reply UsernameTaken, else
\* erase the name read on the username_ strand and SetUserData.
RunInsert ==
    /\ gq # <<>> /\ Head(gq).kind = "insert"
    /\ LET t == Head(gq) IN
         IF t.name \in DOMAIN guests
           THEN UNCHANGED <<guests, uq>>
           ELSE /\ guests' = Restrict(guests @@ (t.name :> t.sock),
                                      (DOMAIN guests \cup {t.name}) \ {t.cur})
                /\ SetUserData(t.sock, t.name)
    /\ gq' = Tail(gq)
    /\ UNCHANGED <<username, logged_in, live, sq, requests>>

\* OnDisconnect on guests_: erase the name.
RunErase ==
    /\ gq # <<>> /\ Head(gq).kind = "erase"
    /\ guests' = Restrict(guests, DOMAIN guests \ {Head(gq).name})
    /\ gq' = Tail(gq)
    /\ UNCHANGED <<username, logged_in, live, uq, sq, requests>>

-----------------------------------------------------------------------------
(* sessions_ strand: CreateSession for a successful login.  The database   *)
(* returns the account's name; the socket becomes logged in and its name   *)
(* is set.  A previous session of the account is looked up and             *)
(* InvalidateSession, whose body is a TODO, is called on it.               *)

RunCreateSession ==
    /\ sq # <<>>
    /\ logged_in' = [logged_in EXCEPT ![Head(sq).sock] = TRUE]
    /\ SetUserData(Head(sq).sock, Head(sq).name)
    /\ sq' = Tail(sq)
    /\ UNCHANGED <<username, live, guests, gq, requests>>

-----------------------------------------------------------------------------

RunStrands ==
    \/ \E s \in Sockets : RunUsernameTask(s)
    \/ RunGenerate \/ RunInsert \/ RunErase
    \/ RunCreateSession

Next ==
    \/ \E s \in Sockets : ConnectToChannel(s) \/ Disconnect(s)
    \/ \E s \in Sockets, n \in Names : ChangeUsername(s, n)
    \/ \E s \in Sockets, r \in RegNames : Login(s, r)
    \/ RunStrands

\* The io_context eventually runs every task dispatched to a strand.
Fairness ==
    /\ \A s \in Sockets : WF_vars(RunUsernameTask(s))
    /\ WF_vars(RunGenerate) /\ WF_vars(RunInsert) /\ WF_vars(RunErase)
    /\ WF_vars(RunCreateSession)

Spec == Init /\ [][Next]_vars /\ Fairness

\* No task is pending on any strand.
Quiescent == /\ \A s \in Sockets : uq[s] = <<>>
             /\ gq = <<>> /\ sq = <<>>

-----------------------------------------------------------------------------
(* Properties                                                              *)

\* Spec 3 and 8.2: once every strand has drained, no two live guests
\* (sockets not logged in) go by the same name.
GuestNamesUnique ==
    Quiescent =>
        \A s1, s2 \in live :
            (s1 # s2 /\ ~logged_in[s1] /\ ~logged_in[s2]
             /\ username[s1] # NoName)
                => username[s1] # username[s2]

\* Every live socket that asked to join a channel eventually has a name.
EventuallyNamed ==
    \A s \in Sockets :
        (s \in live /\ ConnectTask \in ToSet(uq[s]))
            ~> (username[s] # NoName \/ s \notin live)

=============================================================================
