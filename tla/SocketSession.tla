---------------------------- MODULE SocketSession ----------------------------
(***************************************************************************)
(* One socket's life on the server (CollabVmServer.hpp, CollabVmSocket):   *)
(* its admission by the per-IP accounting of IPAccounting, the CAPTCHA     *)
(* gate of the request dispatcher, and its registration as a viewer of the *)
(* public and admin VM lists, which OnDisconnect must undo.                *)
(*                                                                         *)
(* The transport calls OnConnect once the socket is accepted, which posts  *)
(* a task to the settings_ strand that copies the CAPTCHA_REQUIRED setting *)
(* into is_captcha_required_.  CAPTCHA_COMPLETED asks the CAPTCHA          *)
(* provider, whose answers come back in any order and set the flag to      *)
(* !is_valid; an admin's SEND_CAPTCHA finds the user on its channel's      *)
(* strand and sets the flag.  Chat, rename, turn, vote and Guacamole       *)
(* requests are dropped while the flag is set.                             *)
(*                                                                         *)
(* VM_LIST_REQUEST and SERVER_CONFIG_REQUEST register the socket in        *)
(* vm_list_viewers_ and admin_vm_list_viewers_ on the virtual_machines_    *)
(* strand; LeaveVmList (joining a channel, disconnecting) and              *)
(* LeaveServerConfig (disconnecting) remove it.                            *)
(*                                                                         *)
(* SERVER_CONFIG_REQUEST also posts a read of the settings to the          *)
(* settings_ strand, whose copy is queued to the admin.  An admin's        *)
(* SERVER_CONFIG_MODIFICATIONS updates the settings on that strand (which  *)
(* may turn MAX_CONNECTIONS_ENABLED on or off) and posts to                *)
(* virtual_machines_ a broadcast of the new settings to every viewing      *)
(* admin but itself.  Settings are versioned: version n carries the first  *)
(* n modifications.                                                        *)
(*                                                                         *)
(* OnConnect's tasks are kept in their own sequence cq: on the settings_   *)
(* strand they commute with IPAccounting's cap reads (disjoint state), and *)
(* a socket's own cap read precedes its OnConnect.  The cap reads are      *)
(* likewise kept apart from the config reads and modifications (setq),     *)
(* which lets them run in every order the shared strand allows and more.   *)
(***************************************************************************)
EXTENDS Integers, Sequences, FiniteSets, Bags, BagsExt

CONSTANTS Sockets, MaxConnections, MaxToggles,
          Admins,          \* sockets whose is_admin_ is set
          CaptchaRequired, \* the CAPTCHA_REQUIRED server setting
          MaxRequests      \* bound on client and admin requests

VARIABLES phase, has_ip_data, mq, sq, iq, connections, enabled, toggles,
          connected,     \* connected[s]: the transport called OnConnect
          cq,            \* OnConnect's tasks on the settings_ strand
          captcha,       \* captcha[s]: the socket's is_captcha_required_
          verifying,     \* bag of CAPTCHA provider answers not yet delivered
          chan,          \* SEND_CAPTCHA callbacks on the channel's strand
          jq,            \* CONNECT_TO_CHANNEL joins not yet run
          viewing,       \* viewing[s]: is_viewing_vm_list_
          config,        \* config[s]: is_viewing_server_config
          vmq,           \* viewer tasks of the virtual_machines_ strand
          viewers,       \* vm_list_viewers_, a bag of sockets
          admin_viewers, \* admin_vm_list_viewers_, a bag of sockets
          setq,          \* config reads and modifications on the settings_ strand
          version,       \* modifications applied to the server settings
          known,         \* known[s]: the modifications s has been sent or made
          requests,      \* requests so far
          owed,          \* ghost: a CAPTCHA demanded of s and not yet solved
          bypassed       \* ghost: sockets that got a gated request through while owing

IP == INSTANCE IPAccounting

ipVars == <<phase, has_ip_data, mq, sq, iq, connections, enabled, toggles>>
gateVars == <<connected, cq, captcha, verifying, chan, owed, bypassed>>
viewVars == <<jq, viewing, config, vmq, viewers, admin_viewers>>
cfgVars == <<setq, version, known>>
vars == <<ipVars, gateVars, viewVars, cfgVars, requests>>

Answer == [sock : Sockets, valid : BOOLEAN]
ViewerTask == [kind : {"add", "remove", "add_admin", "remove_admin"}, sock : Sockets]
ConfigTask == [kind : {"config"}, sock : Sockets, ver : 0 .. MaxRequests]
SettingsTask == [kind : {"read"}, sock : Sockets]
                \cup [kind : {"update"}, sock : Sockets, cap : BOOLEAN]

TypeOK ==
    /\ IP!TypeOK
    /\ connected \in [Sockets -> BOOLEAN]
    /\ cq \in Seq(Sockets) /\ chan \in Seq(Sockets) /\ jq \in Seq(Sockets)
    /\ captcha \in [Sockets -> BOOLEAN]
    /\ IsABag(verifying) /\ BagToSet(verifying) \subseteq Answer
    /\ viewing \in [Sockets -> BOOLEAN] /\ config \in [Sockets -> BOOLEAN]
    /\ vmq \in Seq(ViewerTask \cup ConfigTask)
    /\ setq \in Seq(SettingsTask) /\ version \in 0 .. MaxRequests
    /\ known \in [Sockets -> SUBSET (1 .. version)]
    /\ IsABag(viewers) /\ BagToSet(viewers) \subseteq Sockets
    /\ IsABag(admin_viewers) /\ BagToSet(admin_viewers) \subseteq Sockets
    /\ requests \in 0 .. MaxRequests
    /\ owed \in [Sockets -> BOOLEAN]
    /\ bypassed \subseteq Sockets

Init ==
    /\ IP!Init
    /\ connected = [s \in Sockets |-> FALSE]
    /\ cq = <<>> /\ chan = <<>> /\ jq = <<>> /\ vmq = <<>>
    /\ captcha = [s \in Sockets |-> FALSE]
    /\ verifying = EmptyBag
    /\ viewing = [s \in Sockets |-> FALSE]
    /\ config = [s \in Sockets |-> FALSE]
    /\ viewers = EmptyBag /\ admin_viewers = EmptyBag
    /\ setq = <<>> /\ version = 0 /\ known = [s \in Sockets |-> {}]
    /\ requests = 0
    /\ owed = [s \in Sockets |-> FALSE]
    /\ bypassed = {}

-----------------------------------------------------------------------------
(* Admission                                                               *)

\* A step of the per-IP accounting other than OnDisconnect.
Accounting ==
    /\ \/ \E s \in Sockets : IP!OnPreConnect(s)
       \/ IP!RunGetIPData \/ IP!RunReadSettings \/ IP!RunCheck
       \/ IP!RunDecrement
    /\ UNCHANGED <<gateVars, viewVars, cfgVars, requests>>

\* The socket reads messages once the transport has called OnConnect, and
\* until it closes.
Reading(s) == connected[s] /\ phase[s] = "live"

\* A request read from socket s.
Request(s) == Reading(s) /\ requests < MaxRequests /\ requests' = requests + 1

\* OnConnect: post the read of CAPTCHA_REQUIRED to the settings_ strand.
\* Spec 4.12 demands the CAPTCHA from the admission on.
OnConnect(s) ==
    /\ phase[s] = "live" /\ ~connected[s]
    /\ connected' = [connected EXCEPT ![s] = TRUE]
    /\ cq' = Append(cq, s)
    /\ owed' = [owed EXCEPT ![s] = CaptchaRequired]
    /\ UNCHANGED <<ipVars, captcha, verifying, chan, bypassed, viewVars, cfgVars, requests>>

\* OnConnect's task: is_captcha_required_ = the setting.
RunCaptchaSetting ==
    /\ cq # <<>>
    /\ captcha' = [captcha EXCEPT ![Head(cq)] = CaptchaRequired]
    /\ cq' = Tail(cq)
    /\ UNCHANGED <<ipVars, connected, verifying, chan, owed, bypassed, viewVars, cfgVars, requests>>

-----------------------------------------------------------------------------
(* The CAPTCHA gate                                                        *)

\* CHAT_MESSAGE, CHANGE_USERNAME, TURN_REQUEST, VOTE, GUAC_INSTR: each
\* breaks out while is_captcha_required_ is set; otherwise the request goes
\* on to its handler.
GatedRequest(s) ==
    /\ Request(s)
    /\ bypassed' = IF ~captcha[s] /\ owed[s] THEN bypassed \cup {s} ELSE bypassed
    /\ UNCHANGED <<ipVars, connected, cq, captcha, verifying, chan, owed, viewVars, cfgVars>>

\* CAPTCHA_COMPLETED: ask the provider to verify the token; it may be
\* valid or not, and the provider may fail (is_valid false).
CaptchaCompleted(s) ==
    /\ Request(s)
    /\ \E valid \in BOOLEAN :
         verifying' = BagAdd(verifying, [sock |-> s, valid |-> valid])
    /\ UNCHANGED <<ipVars, connected, cq, captcha, chan, owed, bypassed, viewVars, cfgVars>>

\* The provider's callback, in any order: is_captcha_required_ = !is_valid.
RunVerify ==
    \E a \in BagToSet(verifying) :
       /\ verifying' = BagRemove(verifying, a)
       /\ captcha' = [captcha EXCEPT ![a.sock] = ~a.valid]
       /\ owed' = [owed EXCEPT ![a.sock] = @ /\ ~a.valid]
       /\ UNCHANGED <<ipVars, connected, cq, chan, bypassed, viewVars, cfgVars, requests>>

\* SEND_CAPTCHA from an admin (the admin's own socket is not modelled):
\* GetUser dispatches to the user's channel strand.
SendCaptcha(s) ==
    /\ requests < MaxRequests /\ requests' = requests + 1
    /\ chan' = Append(chan, s)
    /\ UNCHANGED <<ipVars, connected, cq, captcha, verifying, owed, bypassed, viewVars, cfgVars>>

\* GetUser's callback on the channel strand, if the user is still in the
\* channel: is_captcha_required_ = true (and a captcha-required message).
RunSendCaptcha ==
    /\ chan # <<>>
    /\ LET s == Head(chan) IN
       IF Reading(s)
         THEN /\ captcha' = [captcha EXCEPT ![s] = TRUE]
              /\ owed' = [owed EXCEPT ![s] = TRUE]
         ELSE UNCHANGED <<captcha, owed>>
    /\ chan' = Tail(chan)
    /\ UNCHANGED <<ipVars, connected, cq, verifying, bypassed, viewVars, cfgVars, requests>>

-----------------------------------------------------------------------------
(* VM list viewers                                                         *)

Task(k, s) == [kind |-> k, sock |-> s]

\* LeaveVmList, on the calling thread: if is_viewing_vm_list_, clear it
\* and post RemoveVmListViewer.
LeaveVmList(s) == IF viewing[s] THEN <<Task("remove", s)>> ELSE <<>>

\* LeaveServerConfig, likewise for is_viewing_server_config.
LeaveServerConfig(s) == IF config[s] THEN <<Task("remove_admin", s)>> ELSE <<>>

\* VM_LIST_REQUEST: post the registration; is_viewing_vm_list_ is tested
\* and set inside the task.
VmListRequest(s) ==
    /\ Request(s)
    /\ vmq' = Append(vmq, Task("add", s))
    /\ UNCHANGED <<ipVars, gateVars, jq, viewing, config, viewers, admin_viewers,
                   cfgVars>>

\* SERVER_CONFIG_REQUEST (is_admin_ only): post the settings reply to
\* settings_, and, unless already viewing, set is_viewing_server_config
\* here and post AddAdminVmListViewer.
ServerConfigRequest(s) ==
    /\ Request(s) /\ s \in Admins
    /\ setq' = Append(setq, [kind |-> "read", sock |-> s])
    /\ config' = [config EXCEPT ![s] = TRUE]
    /\ vmq' = IF config[s] THEN vmq ELSE Append(vmq, Task("add_admin", s))
    /\ UNCHANGED <<ipVars, gateVars, jq, viewing, viewers, admin_viewers,
                   version, known>>

\* SERVER_CONFIG_HIDDEN (any socket): LeaveServerConfig.
ServerConfigHidden(s) ==
    /\ Request(s)
    /\ config' = [config EXCEPT ![s] = FALSE]
    /\ vmq' = vmq \o LeaveServerConfig(s)
    /\ UNCHANGED <<ipVars, gateVars, jq, viewing, viewers, admin_viewers,
                   cfgVars>>

\* CONNECT_TO_CHANNEL: the username_ hop (and GenerateUsername) before the
\* channel's strand runs the join; not gated by the CAPTCHA.
ConnectToChannel(s) ==
    /\ Request(s)
    /\ jq' = Append(jq, s)
    /\ UNCHANGED <<ipVars, gateVars, viewing, config, vmq, viewers, admin_viewers,
                   cfgVars>>

\* The join on the channel's strand: it fails (no such VM, guests
\* disallowed, already in the global chat) or LeaveVmList, then joins.
RunJoin ==
    /\ jq # <<>>
    /\ LET s == Head(jq) IN
       \/ UNCHANGED <<viewing, vmq>>
       \/ /\ viewing' = [viewing EXCEPT ![s] = FALSE]
          /\ vmq' = vmq \o LeaveVmList(s)
    /\ jq' = Tail(jq)
    /\ UNCHANGED <<ipVars, gateVars, config, viewers, admin_viewers, cfgVars, requests>>

\* Seeded-bug variant: OnDisconnect forgets LeaveServerConfig.
Disconnect_NoLeaveConfig(s) ==
    /\ IP!OnDisconnect(s)
    /\ viewing' = [viewing EXCEPT ![s] = FALSE]
    /\ vmq' = vmq \o LeaveVmList(s)
    /\ UNCHANGED <<gateVars, jq, config, viewers, admin_viewers, cfgVars, requests>>

\* OnDisconnect: LeaveServerConfig, LeaveVmList, then the accounting's
\* decrement (the username_ and channel parts are in GuestNames).
Disconnect(s) ==
    /\ IP!OnDisconnect(s)
    /\ config' = [config EXCEPT ![s] = FALSE]
    /\ viewing' = [viewing EXCEPT ![s] = FALSE]
    /\ vmq' = vmq \o LeaveServerConfig(s) \o LeaveVmList(s)
    /\ UNCHANGED <<gateVars, jq, viewers, admin_viewers, cfgVars, requests>>

\* Seeded-bug variant: the registration ignores is_viewing_vm_list_.
AddVmListViewer_NoFlagCheck(s) ==
    /\ viewing' = [viewing EXCEPT ![s] = TRUE]
    /\ viewers' = BagAdd(viewers, s)

\* VM_LIST_REQUEST's task: unless is_viewing_vm_list_, set it and
\* AddVmListViewer (which also queues the list and thumbnails).
AddVmListViewer(s) ==
    /\ viewing' = [viewing EXCEPT ![s] = TRUE]
    /\ viewers' = IF viewing[s] THEN viewers ELSE BagAdd(viewers, s)

\* Seeded-bug variant: the early return tests only that one admin views.
BroadcastToViewingAdminsExcluding_SizeOne(ver, ex) ==
    known' = IF BagCardinality(admin_viewers) <= 1 THEN known
             ELSE [v \in Sockets |-> IF v \in BagToSet(admin_viewers) \ {ex}
                                     THEN known[v] \cup 1 .. ver ELSE known[v]]

\* Queue the settings of version ver to every viewing admin but ex (the
\* early return, when no admin or only ex views, has the same effect).
BroadcastToViewingAdminsExcluding(ver, ex) ==
    known' = [v \in Sockets |-> IF v \in BagToSet(admin_viewers) \ {ex}
                                THEN known[v] \cup 1 .. ver ELSE known[v]]

\* The virtual_machines_ strand: the VM_LIST_REQUEST task,
\* RemoveVmListViewer, AddAdminVmListViewer, RemoveAdminVmListViewer (a
\* remove erases the first copy found, if any), and the broadcast of a
\* settings modification.
RunViewerTask ==
    /\ vmq # <<>>
    /\ LET t == Head(vmq) IN
       CASE t.kind = "add" ->
              AddVmListViewer(t.sock) /\ UNCHANGED <<admin_viewers, known>>
         [] t.kind = "remove" ->
              /\ viewers' = BagRemove(viewers, t.sock)
              /\ UNCHANGED <<viewing, admin_viewers, known>>
         [] t.kind = "add_admin" ->
              /\ admin_viewers' = BagAdd(admin_viewers, t.sock)
              /\ UNCHANGED <<viewing, viewers, known>>
         [] t.kind = "remove_admin" ->
              /\ admin_viewers' = BagRemove(admin_viewers, t.sock)
              /\ UNCHANGED <<viewing, viewers, known>>
         [] t.kind = "config" ->
              /\ BroadcastToViewingAdminsExcluding(t.ver, t.sock)
              /\ UNCHANGED <<viewing, viewers, admin_viewers>>
    /\ vmq' = Tail(vmq)
    /\ UNCHANGED <<ipVars, gateVars, jq, config, setq, version, requests>>

-----------------------------------------------------------------------------
(* Server settings                                                         *)

\* SERVER_CONFIG_MODIFICATIONS (is_admin_ only, the settings unvalidated):
\* post the update to settings_.  cap is the MAX_CONNECTIONS_ENABLED value
\* the modified list ends up with (its old value if the list leaves it).
ConfigModifications(s) ==
    /\ Request(s) /\ s \in Admins
    /\ \E cap \in BOOLEAN :
         setq' = Append(setq, [kind |-> "update", sock |-> s, cap |-> cap])
    /\ UNCHANGED <<ipVars, gateVars, viewVars, version, known>>

\* UpdateServerSettings: build the new list from the old one and the
\* updates, save them, and swap it in (ApplySettings passes the captcha
\* and recording settings on; neither is read by this model).
UpdateServerSettings(cap) ==
    /\ version' = version + 1
    /\ enabled' = cap

\* The settings_ strand: SERVER_CONFIG_REQUEST's task queues a copy of the
\* settings to the admin; SERVER_CONFIG_MODIFICATIONS's task updates them
\* (the admin knows its own change) and posts the broadcast.
RunSettingsTask ==
    /\ setq # <<>>
    /\ LET t == Head(setq) IN
       IF t.kind = "read"
         THEN /\ known' = [known EXCEPT ![t.sock] = @ \cup 1 .. version]
              /\ UNCHANGED <<version, enabled, vmq>>
         ELSE /\ UpdateServerSettings(t.cap)
              /\ known' = [known EXCEPT ![t.sock] = @ \cup {version + 1}]
              /\ vmq' = Append(vmq, [kind |-> "config", sock |-> t.sock,
                                      ver |-> version + 1])
    /\ setq' = Tail(setq)
    /\ UNCHANGED <<phase, has_ip_data, mq, sq, iq, connections, toggles,
                   gateVars, jq, viewing, config, viewers, admin_viewers, requests>>

-----------------------------------------------------------------------------

Next ==
    \/ Accounting
    \/ \E s \in Sockets :
          \/ OnConnect(s) \/ Disconnect(s)
          \/ GatedRequest(s) \/ CaptchaCompleted(s) \/ SendCaptcha(s)
          \/ VmListRequest(s) \/ ServerConfigRequest(s) \/ ServerConfigHidden(s)
          \/ ConnectToChannel(s)
          \/ ConfigModifications(s)
    \/ RunCaptchaSetting \/ RunVerify \/ RunSendCaptcha
    \/ RunJoin \/ RunViewerTask \/ RunSettingsTask

\* The strands run every posted task, and the CAPTCHA provider answers
\* every request (an error is the answer is_valid = false).
Fairness ==
    /\ IP!Fairness
    /\ WF_vars(RunCaptchaSetting) /\ WF_vars(RunVerify) /\ WF_vars(RunSendCaptcha)
    /\ WF_vars(RunJoin) /\ WF_vars(RunViewerTask) /\ WF_vars(RunSettingsTask)

Spec == Init /\ [][Next]_vars /\ Fairness

-----------------------------------------------------------------------------
(* Properties                                                              *)

\* Spec 4.2 (IPAccounting): every connection attempt is accepted or closed.
Settles == IP!Settles

\* Whenever no viewer task of a socket is pending on virtual_machines_, the
\* socket is in vm_list_viewers_ exactly once if is_viewing_vm_list_ is
\* set and not at all otherwise, and likewise for admin_vm_list_viewers_
\* and is_viewing_server_config: the flags, read and written on the
\* socket's and the channel's threads, keep the lists free of duplicates.
RegistrationsMatchFlags ==
    \A s \in Sockets :
        (\A i \in 1 .. Len(vmq) : vmq[i].kind # "config" => vmq[i].sock # s) =>
            /\ CopiesIn(s, viewers) = IF viewing[s] THEN 1 ELSE 0
            /\ CopiesIn(s, admin_viewers) = IF config[s] THEN 1 ELSE 0

\* Once the settings_ and virtual_machines_ strands are idle, every admin
\* viewing the server config has been sent, or has made, every settings
\* modification: a reply read before a modification is followed by its
\* broadcast, and a registration that misses a broadcast is preceded by a
\* read that saw the modification.
ConfigViewersCurrent ==
    (setq = <<>> /\ vmq = <<>>) =>
        \A s \in Sockets : config[s] => known[s] = 1 .. version

\* A closed socket is eventually dropped from admin_vm_list_viewers_, so
\* the list holds no socket (and its shared_ptr) for good.
AdminViewersReleased ==
    \A s \in Sockets : phase[s] = "gone" ~> CopiesIn(s, admin_viewers) = 0

\* Spec 4.2 and the Session invariant: a socket required to complete a
\* CAPTCHA has its chat, rename, turn, vote and Guacamole requests dropped
\* until it sends a valid one.
CaptchaGate == bypassed = {}

=============================================================================
