----------------------------- MODULE DirectChat -----------------------------
(***************************************************************************)
(* Direct (private) chats between connected users (CollabVmServer.hpp,    *)
(* CHAT_MESSAGE handler, destinations NEW_DIRECT and DIRECT).  Each        *)
(* socket owns a chat_rooms_ table, local id -> (peer socket, id of the    *)
(* chat on the peer's side, 0 while unknown), guarded by its own strand,   *)
(* and a counter chat_rooms_id_ starting at 1.  Opening a chat hops:       *)
(* guests_ strand (find the recipient) -> sender's table -> recipient's    *)
(* table -> sender's table, each hop a task on that strand's FIFO.         *)
(***************************************************************************)
EXTENDS Naturals, Sequences, FiniteSets, Functions

CONSTANTS Users,        \* sockets of connected guests
          ChatLimit,    \* the per-socket table limit (10 in the code)
          MaxRequests   \* bound on chat requests sent by all clients

ASSUME ChatLimit \in Nat \ {0} /\ MaxRequests \in Nat

\* A socket allocates at most one id per request, so ids stay in ChatId.
ChatId == 1 .. MaxRequests
Row == [peer : Users, peer_id : {0} \cup ChatId]

VARIABLES rooms,      \* rooms[u]: u's chat_rooms_, a function ChatId ~> Row
          next_id,    \* next_id[u]: u's chat_rooms_id_
          chat,       \* chat[u]: pending tasks of u's chat_rooms_ strand
          lookups,    \* pending NEW_DIRECT tasks of the guests_ strand
          online,     \* users still in the guests_ table
          requests,   \* number of chat requests sent so far
          notices,    \* chat channel ids sent to clients
          responses   \* ChatMessageResponse codes sent to clients

vars == <<rooms, next_id, chat, lookups, online, requests, notices,
          responses>>

OpenTask(b)          == [kind |-> "open", to |-> b]
AcceptTask(a, s)     == [kind |-> "accept", from |-> a, sender_id |-> s]
ConfirmTask(b, s, r) == [kind |-> "confirm", to |-> b, sender_id |-> s,
                         recipient_id |-> r]
RollbackTask(s)      == [kind |-> "rollback", sender_id |-> s]
DirectTask(i)        == [kind |-> "direct", id |-> i]

\* A chat channel id sent to `user` naming the chat with `peer`: kind
\* "reply" is SendChatChannelId, "new" a NewChatChannel message, "direct"
\* a chat message built by CreateChatMessage from a set-up row, "early"
\* one sent through a row whose peer id is still pending.
Notice(k, u, i, v) == [kind |-> k, user |-> u, id |-> i, peer |-> v]

Codes == {"USER_NOT_FOUND", "USER_CHAT_LIMIT", "RECIPIENT_CHAT_LIMIT"}

\* std::unordered_map::emplace of a fresh key, and erase.
Emplace(f, k, v) == [i \in DOMAIN f \cup {k} |-> IF i = k THEN v ELSE f[i]]
Erase(f, k) == Restrict(f, DOMAIN f \ {k})

\* The row of u's table whose peer is v (find_if on room.second.first).
RowsFor(u, v) == {i \in DOMAIN rooms[u] : rooms[u][i].peer = v}

TypeOK ==
    /\ \A u \in Users : DOMAIN rooms[u] \subseteq ChatId
                        /\ Cardinality(DOMAIN rooms[u]) <= ChatLimit
                        /\ \A i \in DOMAIN rooms[u] : rooms[u][i] \in Row
    /\ next_id \in [Users -> 1 .. MaxRequests + 1]
    /\ lookups \in Seq([from : Users, to : Users])
    /\ online \subseteq Users
    /\ requests \in 0 .. MaxRequests
    /\ \A n \in notices : n.user \in Users /\ n.peer \in Users
                          /\ n.id \in {0} \cup ChatId
    /\ responses \subseteq [user : Users, code : Codes]

Init ==
    /\ rooms = [u \in Users |-> <<>>]
    /\ next_id = [u \in Users |-> 1]
    /\ chat = [u \in Users |-> <<>>]
    /\ lookups = <<>>
    /\ online = Users
    /\ requests = 0
    /\ notices = {}
    /\ responses = {}

Respond(u, code) == responses' = responses \cup {[user |-> u, code |-> code]}

-----------------------------------------------------------------------------
(* Client requests, as decoded by HandleMessage.                           *)

\* CHAT_MESSAGE with destination NEW_DIRECT(username of b): after the
\* username_ strand the request is a task on the guests_ strand.
SendNewDirect(a, b) ==
    /\ a \in online /\ a # b
    /\ requests < MaxRequests
    /\ requests' = requests + 1
    /\ lookups' = Append(lookups, [from |-> a, to |-> b])
    /\ UNCHANGED <<rooms, next_id, chat, online, notices, responses>>

\* CHAT_MESSAGE with destination DIRECT(id): a task on a's own table.
SendDirect(a, i) ==
    /\ a \in online
    /\ requests < MaxRequests
    /\ requests' = requests + 1
    /\ chat' = [chat EXCEPT ![a] = Append(@, DirectTask(i))]
    /\ UNCHANGED <<rooms, next_id, lookups, online, notices, responses>>

\* OnDisconnect erases the socket's name from guests_; its chat_rooms_
\* table and strand live on with the pending tasks.
Disconnect(u) ==
    /\ u \in online
    /\ online' = online \ {u}
    /\ UNCHANGED <<rooms, next_id, chat, lookups, requests, notices,
                   responses>>

-----------------------------------------------------------------------------
(* Strand steps.                                                           *)

\* guests_ strand: look the recipient up; USER_NOT_FOUND, or hop to the
\* sender's table.
RunLookup ==
    /\ lookups # <<>>
    /\ LET a == Head(lookups).from
           b == Head(lookups).to
       IN  /\ lookups' = Tail(lookups)
           /\ IF b \in online
                THEN /\ chat' = [chat EXCEPT ![a] = Append(@, OpenTask(b))]
                     /\ UNCHANGED responses
                ELSE /\ Respond(a, "USER_NOT_FOUND")
                     /\ UNCHANGED chat
    /\ UNCHANGED <<rooms, next_id, online, requests, notices>>

\* Seeded-bug variant: off by one in the sender's limit check.
RunOpen_OffByOne(a) ==
    /\ chat[a] # <<>> /\ Head(chat[a]).kind = "open"
    /\ LET b == Head(chat[a]).to
           id == next_id[a]
       IN
       \/ /\ Cardinality(DOMAIN rooms[a]) > ChatLimit
          /\ Respond(a, "USER_CHAT_LIMIT")
          /\ chat' = [chat EXCEPT ![a] = Tail(@)]
          /\ UNCHANGED <<rooms, next_id, notices>>
       \/ /\ Cardinality(DOMAIN rooms[a]) <= ChatLimit
          /\ RowsFor(a, b) # {}
          /\ LET i == CHOOSE i \in RowsFor(a, b) : TRUE IN
               notices' = notices \cup
                            {Notice("reply", a, rooms[a][i].peer_id, b)}
          /\ chat' = [chat EXCEPT ![a] = Tail(@)]
          /\ UNCHANGED <<rooms, next_id, responses>>
       \/ /\ Cardinality(DOMAIN rooms[a]) <= ChatLimit
          /\ RowsFor(a, b) = {}
          /\ next_id' = [next_id EXCEPT ![a] = id + 1]
          /\ rooms' = [rooms EXCEPT ![a] = Emplace(@, id, [peer |-> b, peer_id |-> 0])]
          /\ chat' = [chat EXCEPT ![a] = Tail(@),
                                  ![b] = Append(@, AcceptTask(a, id))]
          /\ UNCHANGED <<notices, responses>>
    /\ UNCHANGED <<lookups, online, requests>>

\* Sender's table: limit check, reuse of an existing chat, or a new row
\* (id -> (b, 0)) and a hop to the recipient's table.
RunOpen(a) ==
    /\ chat[a] # <<>> /\ Head(chat[a]).kind = "open"
    /\ LET b == Head(chat[a]).to
           id == next_id[a]
       IN
       \/ /\ Cardinality(DOMAIN rooms[a]) >= ChatLimit
          /\ Respond(a, "USER_CHAT_LIMIT")
          /\ chat' = [chat EXCEPT ![a] = Tail(@)]
          /\ UNCHANGED <<rooms, next_id, notices>>
       \/ /\ Cardinality(DOMAIN rooms[a]) < ChatLimit
          /\ RowsFor(a, b) # {}
          /\ LET i == CHOOSE i \in RowsFor(a, b) : TRUE IN
               notices' = notices \cup
                            {Notice("reply", a, rooms[a][i].peer_id, b)}
          /\ chat' = [chat EXCEPT ![a] = Tail(@)]
          /\ UNCHANGED <<rooms, next_id, responses>>
       \/ /\ Cardinality(DOMAIN rooms[a]) < ChatLimit
          /\ RowsFor(a, b) = {}
          /\ next_id' = [next_id EXCEPT ![a] = id + 1]
          /\ rooms' = [rooms EXCEPT ![a] = Emplace(@, id, [peer |-> b, peer_id |-> 0])]
          /\ chat' = [chat EXCEPT ![a] = Tail(@),
                                  ![b] = Append(@, AcceptTask(a, id))]
          /\ UNCHANGED <<notices, responses>>
    /\ UNCHANGED <<lookups, online, requests>>

\* Seeded-bug variant: the recipient's limit is checked before its table is
\* searched for an existing chat with the sender.
RunAccept_LimitFirst(b) ==
    /\ chat[b] # <<>> /\ Head(chat[b]).kind = "accept"
    /\ LET a == Head(chat[b]).from
           s == Head(chat[b]).sender_id
           rid == next_id[b]
       IN
       \/ /\ Cardinality(DOMAIN rooms[b]) >= ChatLimit
          /\ chat' = [chat EXCEPT ![b] = Tail(@), ![a] = Append(@, RollbackTask(s))]
          /\ UNCHANGED <<rooms, next_id, notices>>
       \/ /\ Cardinality(DOMAIN rooms[b]) < ChatLimit
          /\ RowsFor(b, a) # {}
          /\ LET i == CHOOSE i \in RowsFor(b, a) : TRUE IN
               IF rooms[b][i].peer_id = 0
                 THEN /\ rooms' = [rooms EXCEPT ![b][i].peer_id = s]
                      /\ UNCHANGED notices
                 ELSE /\ notices' = notices \cup {Notice("reply", a, s, b)}
                      /\ UNCHANGED rooms
          /\ chat' = [chat EXCEPT ![b] = Tail(@)]
          /\ UNCHANGED <<next_id>>
       \/ /\ Cardinality(DOMAIN rooms[b]) < ChatLimit
          /\ RowsFor(b, a) = {}
          /\ next_id' = [next_id EXCEPT ![b] = rid + 1]
          /\ rooms' = [rooms EXCEPT ![b] = Emplace(@, rid, [peer |-> b, peer_id |-> s])]
          /\ chat' = [chat EXCEPT ![b] = Tail(@),
                                  ![a] = Append(@, ConfirmTask(b, s, rid))]
          /\ UNCHANGED notices
    /\ UNCHANGED <<lookups, online, requests, responses>>

\* Recipient's table.  A row whose peer is the sender: fill its pending id
\* with sender_id, or, if already known, send sender_id back.  Else, at the
\* limit, hop back to roll the sender's row back.  Else emplace
\* (recipient_id -> (recipient, sender_id)) -- the code stores the
\* recipient itself as the peer of the new row -- and hop back.
RunAccept(b) ==
    /\ chat[b] # <<>> /\ Head(chat[b]).kind = "accept"
    /\ LET a == Head(chat[b]).from
           s == Head(chat[b]).sender_id
           rid == next_id[b]
       IN
       \/ /\ RowsFor(b, a) # {}
          /\ LET i == CHOOSE i \in RowsFor(b, a) : TRUE IN
               IF rooms[b][i].peer_id = 0
                 THEN /\ rooms' = [rooms EXCEPT ![b][i].peer_id = s]
                      /\ UNCHANGED notices
                 ELSE /\ notices' = notices \cup {Notice("reply", a, s, b)}
                      /\ UNCHANGED rooms
          /\ chat' = [chat EXCEPT ![b] = Tail(@)]
          /\ UNCHANGED <<next_id>>
       \/ /\ RowsFor(b, a) = {}
          /\ Cardinality(DOMAIN rooms[b]) >= ChatLimit
          /\ chat' = [chat EXCEPT ![b] = Tail(@), ![a] = Append(@, RollbackTask(s))]
          /\ UNCHANGED <<rooms, next_id, notices>>
       \/ /\ RowsFor(b, a) = {}
          /\ Cardinality(DOMAIN rooms[b]) < ChatLimit
          /\ next_id' = [next_id EXCEPT ![b] = rid + 1]
          /\ rooms' = [rooms EXCEPT ![b] = Emplace(@, rid, [peer |-> b, peer_id |-> s])]
          /\ chat' = [chat EXCEPT ![b] = Tail(@),
                                  ![a] = Append(@, ConfirmTask(b, s, rid))]
          /\ UNCHANGED notices
    /\ UNCHANGED <<lookups, online, requests, responses>>

\* Sender's table, back from the recipient: if the row is still pending,
\* record recipient_id, send sender_id to the sender and one NewChatChannel
\* message, with channel recipient_id, to both.  Otherwise nothing.
RunConfirm(a) ==
    /\ chat[a] # <<>> /\ Head(chat[a]).kind = "confirm"
    /\ LET t == Head(chat[a]) IN
         IF t.sender_id \in DOMAIN rooms[a] /\ rooms[a][t.sender_id].peer_id = 0
           THEN /\ rooms' = [rooms EXCEPT ![a][t.sender_id].peer_id = t.recipient_id]
                /\ notices' = notices \cup
                     {Notice("reply", a, t.sender_id, t.to),
                      Notice("new", t.to, t.recipient_id, a),
                      Notice("new", a, t.recipient_id, t.to)}
           ELSE UNCHANGED <<rooms, notices>>
    /\ chat' = [chat EXCEPT ![a] = Tail(@)]
    /\ UNCHANGED <<next_id, lookups, online, requests, responses>>

\* Sender's table, recipient at its limit: erase the row, report it.
RunRollback(a) ==
    /\ chat[a] # <<>> /\ Head(chat[a]).kind = "rollback"
    /\ rooms' = [rooms EXCEPT ![a] = Erase(@, Head(chat[a]).sender_id)]
    /\ Respond(a, "RECIPIENT_CHAT_LIMIT")
    /\ chat' = [chat EXCEPT ![a] = Tail(@)]
    /\ UNCHANGED <<next_id, lookups, online, requests, notices>>

\* DIRECT: look the id up in a's own table and queue a chat message, with
\* channel = that id, on the row's peer.  Unknown ids are dropped.  (The
\* notice's kind records whether the row was still pending when used.)
RunDirect(a) ==
    /\ chat[a] # <<>> /\ Head(chat[a]).kind = "direct"
    /\ LET i == Head(chat[a]).id IN
         IF i \in DOMAIN rooms[a]
           THEN notices' = notices \cup
                  {Notice(IF rooms[a][i].peer_id = 0 THEN "early" ELSE "direct",
                          rooms[a][i].peer, i, a)}
           ELSE UNCHANGED notices
    /\ chat' = [chat EXCEPT ![a] = Tail(@)]
    /\ UNCHANGED <<rooms, next_id, lookups, online, requests, responses>>

-----------------------------------------------------------------------------

RunChatStrand(u) ==
    RunOpen(u) \/ RunAccept(u) \/ RunConfirm(u) \/ RunRollback(u) \/ RunDirect(u)

Next ==
    \/ \E a, b \in Users : SendNewDirect(a, b)
    \/ \E a \in Users, i \in ChatId : SendDirect(a, i)
    \/ \E u \in Users : Disconnect(u)
    \/ RunLookup
    \/ \E u \in Users : RunChatStrand(u)

\* Every strand eventually runs its pending tasks.
Fairness == WF_vars(RunLookup) /\ \A u \in Users : WF_vars(RunChatStrand(u))

Spec == Init /\ [][Next]_vars /\ Fairness

-----------------------------------------------------------------------------
(* Properties                                                              *)

\* Spec 4.9, scenario 6: the RECIPIENT_CHAT_LIMIT hop only ever erases a
\* row that is still pending.  A chat both sides already agreed on (its
\* pending id filled in by the recipient's own, concurrent request) must
\* never be rolled back by the late hop of the sender's request.
RollbackOnlyPending ==
    \A a \in Users : \A k \in 1 .. Len(chat[a]) :
        LET t == chat[a][k] IN
            (t.kind = "rollback" /\ t.sender_id \in DOMAIN rooms[a])
                => rooms[a][t.sender_id].peer_id = 0

=============================================================================
