# TLA+ models of collab-vm-server 2.0

This directory holds TLA+ specifications of the concurrency in
`src/CollabVmServer.hpp`, the single header that implements the CollabVM
server. It also holds the TLC configurations that check them.

Each module translates a handler or a group of handlers of that file. The
line ranges each definition stands for are listed under `map` in
`PROJECT.json`.

## 1. The system

The server is one Boost.Asio program running on a pool of `io_context`
threads. Shared state is never locked. Every piece of mutable state is
wrapped in a `StrandGuard<T>`, and code that wants the state calls
`state.dispatch(lambda)`. The lambda then runs later, on that strand, one
at a time and in posting order.

An operation that touches several pieces of state is a chain of such
lambdas. For example, "look up the recipient in `guests_`, then update
the sender's `chat_rooms_`, then the recipient's" is three tasks on three
strands. Between any two tasks of one chain, tasks of other chains run.
Almost all the hard behaviour of this code lives there:
- a value read in one task is used in a later task after it has changed;
- two chains interleave in an order no test fixes.

### Components, their state and operations

| Component | State (members) | Operations (handlers) | Interacts with |
|---|---|---|---|
| Socket send pipeline | `send_queue_` (queue + `sending_`) | `QueueMessage`, `QueueMessageBatch`, `SendMessage(Batch)`, `SendMessageCallback` | every component that sends to a client |
| Direct chat | `chat_rooms_` (id → (peer, peer id)), `chat_rooms_id_` | `CHAT_MESSAGE` NEW_DIRECT / DIRECT | `guests_` lookup, the peer's `chat_rooms_` |
| Usernames and guest table | `username_` per socket; server `guests_` (name → socket) | `CONNECT_TO_CHANNEL`, `CHANGE_USERNAME`, `GenerateUsername`, `SetUserData`, `OnDisconnect` | channels (broadcast of name changes), sessions |
| Sessions / login | `sessions_`, `is_logged_in_` | `LOGIN_REQUEST`, `ACCOUNT_REGISTRATION_REQUEST`, `CreateSession`, `InvalidateSession` | database, captcha verifier, usernames |
| IP accounting | `ip_data_` map; per-IP strand with `connections` | `OnPreConnect`, `GetIPData`, tail of `OnDisconnect` | settings (`MAX_CONNECTIONS`) |
| Recording engine | `RecordingController`: file, header, two steady timers, iterator | `Start`, `Stop`, `SetRecordingSettings`, `WriteMessage`, timer handlers | VM start/stop, settings broadcast |
| Request dispatcher | `is_captcha_required_`, `is_admin_`, `is_logged_in_` | `OnMessage` / `HandleMessage` switch | every other component |
| VM registry | `virtual_machines_`, `admin_virtual_machines_`, `pending_vm_info_requests_` | `UpdateVirtualMachineInfoList`, `UpdateVirtualMachineInfo`, create/delete VM | sockets (VM list batches) |
| Settings store | `settings_` (`ServerSettingsList`) | `SERVER_CONFIG_REQUEST`, `SERVER_CONFIG_MODIFICATIONS`, `UpdateServerSettings`, `ApplySettings` | IP accounting, recording, captcha, admin viewers |
| Playback preview | files under `./recordings/` | `SendRecordingPreviews` | recording engine |
| User channel, chat room, turn controller | not under `src/` | — | — |

### Hard behaviours the code is exposed to

These are the hazards listed in `PROJECT.json`:
- **Interleaving of chains across strands.** Examples are the `sending_` flag, concurrent NEW_DIRECT setup, and `ip_data_` read on the socket's thread.
- **Stale reads.** A name read on `username_` is used on `guests_`.
- **Ordering.** A disconnect's tasks overtake a connect's or a rename's.
- **Asio timer semantics.** A handler already posted is not recalled by `cancel()`, and `expires_after` aborts a pending wait.
- **Liveness.** Every posted task is run, and every write completes.
- **Bounded tables and counters.** The chat limit of 10, and `uint32` chat ids.

## 2. Modules

| Module | Models | State ↔ code | Actions ↔ code |
|---|---|---|---|
| `SendChannel` | the promise of the send pipeline: a FIFO channel that delivers every message sent on an open socket | `sent`, `wire`, `closed` | `Enqueue`, `Deliver`, `Close` |
| `SendQueue` | one socket's send pipeline | `tasks` = the `send_queue_` strand; `send_queue`, `sending` = the guarded queue and `sending_`; `writes` = outstanding `WriteMessage` calls; `wire` = what the peer received | `QueueMessage`/`QueueMessageBatch` (caller side) and `RunQueueMessage`/`RunQueueMessageBatch` (their lambdas); `RunSendMessageCallback`; the transport's `WriteCompletes`, `WriteFails`, `Close` |
| `DirectChat` | NEW_DIRECT and DIRECT between users | `rooms[u]` = `chat_rooms_` (id → peer, peer id); `ids[u]` = `chat_rooms_id_`; `cq[u]` = each user's `chat_rooms_` strand; `lq` = `guests_` strand; `notices` = messages the clients receive | `SendNewDirect`, `SendDirect`, `Disconnect`; `RunLookup`, `RunOpen`, `RunAccept`, `RunConfirm`, `RunRollback`, `RunDirect`, one per lambda of the chain |
| `GuestNames` | usernames, the guest table and `CreateSession` | `username`, `uq[s]` = `username_` and its strand; `guests`, `gq` = `guests_` and its strand; `sq` = `sessions_` strand; `logged_in` = `is_logged_in_` | `ConnectToChannel`, `ChangeUsername`, `Login`, `Disconnect`; `RunUsernameTask` (every `username_` lambda, by kind); `RunGenerate`, `RunInsert`, `RunErase`; `RunCreateSession` |
| `IPAccounting` | per-IP connection counting and the cap | `phase` = socket lifecycle; `has_ip_data` = the socket's `ip_data_`; `mq`, `sq`, `iq` = the `ip_data_`, `settings_` and per-IP strands; `connections` = `IPData::connections`; `enabled` = `MAX_CONNECTIONS_ENABLED`, as loaded from the database | `OnPreConnect`, `RunGetIPData`, `RunReadSettings`, `RunCheck`, `OnDisconnect`, `RunDecrement`, `ToggleCap` |
| `SocketSession` | a socket's admission, the CAPTCHA gate of the dispatcher, its registration as a VM list viewer, and the server settings, composed with `IPAccounting` (`IP == INSTANCE IPAccounting`; its steps are actions of the composite, and its `OnDisconnect` is part of `Disconnect`) | `IPAccounting`'s variables; `connected` = the transport called `OnConnect`; `cq` = `OnConnect`'s tasks on `settings_`; `captcha` = `is_captcha_required_`; `verifying` = bag of CAPTCHA provider answers outstanding; `chan` = `SEND_CAPTCHA` callbacks on the channel strand; `jq` = channel joins pending; `viewing`, `config` = `is_viewing_vm_list_`, `is_viewing_server_config`; `vmq` = viewer tasks on `virtual_machines_`; `viewers`, `admin_viewers` = `vm_list_viewers_`, `admin_vm_list_viewers_` as bags; `setq` = config reads and modifications on `settings_`; `version` = modifications applied; `known[s]` = the modifications admin `s` has been sent or made; ghosts `owed` (a CAPTCHA demanded and not yet solved) and `bypassed` | `Accounting`; `OnConnect`, `RunCaptchaSetting`; `GatedRequest` (the `is_captcha_required_` check of chat, rename, turn, vote, Guacamole); `CaptchaCompleted`, `RunVerify`; `SendCaptcha`, `RunSendCaptcha`; `VmListRequest`, `ServerConfigRequest`, `ServerConfigHidden` (`LeaveServerConfig`), `ConnectToChannel`, `RunJoin` (with `LeaveVmList`); `Disconnect` (`LeaveServerConfig`, `LeaveVmList`, the decrement); `RunViewerTask` (`AddVmListViewer`, the removals, `BroadcastToViewingAdminsExcluding`); `ConfigModifications`, `RunSettingsTask` (`UpdateServerSettings`, which sets `MAX_CONNECTIONS_ENABLED`, replacing `IPAccounting`'s `ToggleCap`) |
| `VmRegistry` | the `virtual_machines_` strand: the VM lists, the bulk info update and admin VM requests | `vms` = ids in `admin_virtual_machines_`; `used` = ids ever issued; `state` = each VM started or stopped; `vq[v]` = VM `v`'s strand; `lq` = callbacks wrapped onto `virtual_machines_`; `pending`, `updates` = `pending_vm_info_requests_`, `pending_vm_info_updates_`; `pend`, `has` = `AdminVm`'s pending info and `has_vm_info`; `admin`, `public` = `admin_vm_info_list_`, `vm_info_list_` as bags of ids and blank slots; `ub` = the undefined behaviour hit, if any | `UpdateVirtualMachineInfoList` (timer tick); `RunBulkCallback` (`BulkAnswer`), `RunSingleCallback` (`UpdateVirtualMachineInfo`), `RunConfigCallback`; `CreateVm`, `DeleteVm`, `UpdateVmConfig`, `StartStopVms` (`START_VMS`, `STOP_VMS`, `RESTART_VMS`); `RunVm` (the VM's strand, from the spec) |
| `Recording` | `RecordingController` of one VM | `open` = `IsRecording()`; `hdr` = `file_header_` (start, stop, slots, count, keyframe timestamps); `next` = `next_keyframe_offset_`; `timer` = the two steady timers; `posted` = completion handlers posted and not yet run; `now`/`wall` = steady and system clocks; `capture` = the flags in `settings_message_builder_`; `written`, `writes`, `msg` = messages written, `WriteMessage` calls, the last message's kind; ghosts `wanted`, `open_failed` | `Start`, `Stop`, `SetRecordingSettings` (with `StartOp`, `StopOp`, `UpdateKeyframeTimer`); `WriteMessage` (with `IsMessageRecorded`, which reads the never-assigned `settings_`, i.e. `SchemaDefaults`); `RunStopHandler`, `RunKeyframeHandler`; `Tick`, `Expire` |

A strand is modelled as a FIFO sequence of tasks, and each module has an
action that runs the head task of one strand. That action models the
whole lambda, including every call it makes. An example is `SetUserData`
dispatched at the end of `RunInsert`.

Client requests are inputs drawn with `\E` from small sets, and a request
counter bounds them.

Data is abstracted:
- names and messages are model values;
- a header is a record of the times and counts the properties talk about;
- file bytes, PNGs, Cap'n Proto framing and wording are left out.

A `ResizableList` is a bag of ids plus `Blank` slots. `Reset(n)` gives n
blank slots. `RemoveFirst` without a matching element would make
`remove_copy_if` write one element past the shortened list, and that is
recorded as undefined behaviour: `ub` is set and every action stops.

`SendQueue` refines `SendChannel`. `Channel == INSTANCE SendChannel WITH
sent <- sent, wire <- wire, closed <- closed` maps
the pipeline's history and wire to the channel's variables, and
`ChannelSpec == Channel!Spec` is checked as a `PROPERTY`.

Each `MC_*` module declares the model values and sets for TLC, and each
`.cfg` fixes the bounds.

## 3. Runs

| Run | Cfg | Expect | Bounds | What it shows |
|---|---|---|---|---|
| `sendqueue` | `MC_SendQueue.cfg` | pass | 2 payloads, 4 messages, batches ≤ 2 | See below. |
| `directchat_safety` | `MC_DirectChat_safety.cfg` | pass | 3 users, limit 2, 3 requests | See below. |
| `guestnames_live` | `MC_GuestNames_live.cfg` | pass | 2 sockets, 3 guest names, 1 account, 3 requests | See below. |
| `guestnames_unique` | `MC_GuestNames_unique.cfg` | violation | 3 sockets, 4 guest names, 4 requests, symmetry | See below. |
| `recording_header` | `MC_Recording_header.cfg` | pass | durations {0,1,3}, intervals {0,1,2}, time ≤ 4, 3 calls, every flag captured, 1 write | See below. |
| `recording_commands` | `MC_Recording_commands.cfg` | violation | time ≤ 5, 3 calls, no flags or every flag captured, 1 write | See below. |
| `recording_filter` | `MC_Recording_filter.cfg` | violation | time ≤ 5, 2 calls, no flags or every flag captured, 1 write | See below. |
| `session_live` | `MC_SocketSession_live.cfg` | pass | 2 sockets (both admins), cap 1 (enabled or not at start), CAPTCHA required, 2 requests | See below. |
| `session_captcha` | `MC_SocketSession_captcha.cfg` | violation | 2 sockets, 1 request | See below. |
| `ip_cap` | `MC_IPAccounting_cap.cfg` | violation | 3 sockets, cap 1 | See below. |
| `vmregistry` | `MC_VmRegistry.cfg` | pass | 3 VM ids (2 at start), 2 ticks, 3 admin requests, id lists of up to 2 | See below. |
| `vmregistry_ub` | `MC_VmRegistry_ub.cfg` | violation | as `vmregistry` | See below. |

More on the larger rows:
- **`sendqueue`** checks `TypeOK`, `SingleWrite`, `WireIsPrefix` and `ChannelSpec`. It shows that:
  - one write is in flight at a time;
  - the peer receives a prefix of what was queued, in order;
  - the pipeline implements `SendChannel`, so every message queued on an open socket is eventually written.
- **`directchat_safety`** checks `TypeOK` (each table within the limit) and `RollbackOnlyPending`. The second says that when the recipient refuses a chat with RECIPIENT_CHAT_LIMIT, the rollback never erases a row whose chat the peer has already accepted.
- **`guestnames_live`** checks `TypeOK` and `EventuallyNamed`: every live socket that asked to join a channel eventually has a name, through renames, logins and disconnects.
- **`guestnames_unique`**:
  1. A rename frees `g1`, and another guest gets `g1`.
  2. The renaming socket's disconnect still erases `g1` by the stale name (line 1663).
  3. A third guest is then given `g1` too.
- **`recording_header`** checks that every header has `keyframesCount` ≤ its slots, with keyframe times in [startTime, stopTime]. This holds across rollovers, settings changes and handlers that run after a `cancel()`.
- **`recording_commands`** checks `RecordingFollowsCommands`, spec 4.10's account of when the engine records: `IsRecording()` changes only as the last `Start()`/`Stop()` asked, or ends because a new file failed to open. TLC reports the rollover bug in 5 states. A `Start()` while recording calls `Stop()`, which aborts the old stop-timer wait. The aborted handler runs `Stop()` after the new file is open, ending the recording that was just started (line 3037). A second timer bug breaks the same property; it is listed under the observations below.
- **`recording_filter`** checks `MessagesAsCaptured`: a message given to `WriteMessage` is written exactly when the capture flags of the last `SetRecordingSettings` select it. TLC reports the filter bug in 4 states: the admin captures every flag, `Start()` opens a file, and a display instruction is not written. `SetRecordingSettings` keeps the admin's flags in `settings_message_builder_` only. `IsMessageRecorded` reads the member `settings_`, which nothing assigns, so it sees the schema defaults (lines 2984, 3096–3120, 3182). If the Bool defaults are false, as Cap'n Proto gives unless the schema says otherwise, no Guacamole instruction is ever recorded, and only non-Guacamole messages reach the file.
- **`session_live`** checks `TypeOK`, `Settles`, `RegistrationsMatchFlags`, `ConfigViewersCurrent` and `AdminViewersReleased`, with the CAPTCHA gate, the VM list registrations and the settings store composed with per-IP accounting:
  - every connecting socket is eventually accepted or closed;
  - whenever no viewer task of a socket is pending on `virtual_machines_`, it is in `vm_list_viewers_` once if `is_viewing_vm_list_` is set and not at all otherwise, and likewise for the admin list. This holds even though the flags are written on three threads;
  - once `settings_` and `virtual_machines_` are idle, every admin viewing the config has been sent, or made, every modification. `SERVER_CONFIG_REQUEST` reads on `settings_` and registers on `virtual_machines_`. A modification read by neither is impossible: its broadcast is posted from `settings_` after the read, so it queues behind the registration;
  - a closed socket always leaves `admin_vm_list_viewers_`. `SERVER_CONFIG_REQUEST` sets its flag before it posts the registration, so the removal is queued behind it.
- **`session_captcha`** checks `CaptchaGate`: a socket that owes a CAPTCHA has its gated requests dropped. In 7 states, a socket is admitted and `OnConnect` posts its `settings_` task. Its first chat request is read before the task runs, so it passes the check of the still-false flag (lines 189–195, 410, 490). Spec 4.12 marks the session at pre-connect. The run fixes `CAPTCHA_REQUIRED` on, so it cannot show the other way the same task breaks the gate (line 192, under the observations below).
- **`vmregistry`** checks `TypeOK`, `PendingCountsInFlight` and `BulkCompletes`:
  - `pending_vm_info_requests_` always equals the bulk requests still queued on VM strands plus the answers not yet run, through VM creation, deletion, config updates and start/stop/restart lists in the middle of an update. A list is handled in order, and the loop returns at the first id with no VM (lines 1162–1172), so a VM deleted while the admin's list was in flight drops the rest of the list;
  - so every bulk update that starts also completes and the lists are rebuilt, unless the process hit undefined behaviour first.
- **`vmregistry_ub`** checks `NoUndefinedBehaviour`. In seven steps:
  1. `v1` is deleted.
  2. A tick starts a bulk update of `v2`.
  3. `CREATE_VM` adds `v3`.
  4. `v2` answers.
  5. The rebuild Resets the admin list to two slots but fills only `v2`'s (line 2614). `v3` is lost and a blank slot is left.
  6. `DELETE_VM v3` calls `RemoveFirst`, which finds no element, so `remove_copy_if` writes past the end of the list (lines 2743–2752, with an assert at 2751 that release builds drop).
- **`ip_cap`** checks `CapEnforced`: while the cap is enabled, at most `MAX_CONNECTIONS` sockets of the IP are accepted. The cap is enabled throughout TLC's trace. Three sockets connect and get their `ip_data_`. `s3` disconnects after its lookup but before its settings hop, so its decrement is queued on the IP's strand ahead of its own check (lines 1689–1695). `s1` is counted and accepted; `s3`'s decrement then takes `s1`'s count back to 0, and `s2`'s check finds room and accepts it: two live sockets under a cap of one (line 178).

Every property of a passing run has a mutant in `PROJECT.json` that TLC
must catch. Each mutant is a plausible bug in the mapped handler:
- a dropped `sending_` check;
- no pop after a send;
- `sending_` not cleared;
- a limit check off by one, or done in the wrong order;
- a generated name never set;
- the end of the keyframe list detected one slot late;
- the keyframe iterator not reset;
- a decrement not guarded;
- a socket under the cap never accepted;
- the viewer registration done without testing the flag;
- `LeaveServerConfig` missing from `OnDisconnect`;
- the broadcast's early return taken whenever one admin views, even when it is not the sender;
- the update guard on `pending_vm_info_requests_` dropped;
- the answer of a deleted VM not counted;
- the counter set from the wrong list.

### Bounds

The bounds are the smallest that reach each interesting case:
- **SendQueue.** Four messages give a batch while a write is in flight, a failing write in the middle of a batch, and a second completion.
- **DirectChat.** Three users let two users open chats with each other concurrently while a third fills the limit. The limit of 2 is needed for the limit-first mutant to matter.
- **GuestNames, uniqueness.** The uniqueness bug needs three sockets and a rename before a disconnect, which is 20 steps deep. A pool larger than the number of requests guarantees `GenerateUsername` always finds a free name, as its unbounded increment does in the code.
- **IPAccounting.** Three sockets with a cap of one: one accepted, one whose decrement overtakes its check, and one admitted past the cap. The setting is drawn from the database at start; `CapEnforced` only constrains the behaviours where it is enabled.
- **SocketSession.** Two sockets with a cap of one give both an accepted and a closed socket when the cap starts enabled. When it starts disabled, both are live, so one admin can view the config while the other modifies it. Two requests reach every pair among the gated request, a CAPTCHA answer, a config hide, an admin's `SEND_CAPTCHA`, two list requests, and a list request followed by a channel join, each raced against the strands and a disconnect. The bypass needs only one request. Three requests take over nine minutes.
- **VmRegistry.** Three ids with two at start let a VM be deleted, and another created, while an update is in flight. Two ticks give an update that starts after another completed. Three admin requests reach a config update or a start followed by a delete of the same VM. Lists of two ids reach a list whose first id was deleted and whose second is then dropped, and a VM listed twice. The undefined behaviours below are reached within these bounds.
- **Recording.** A clock of 4–5 units with durations up to 3 gives a full keyframe list, a rollover by the stop timer, and a settings change while recording.

Runs whose bounds eventually exhaust every action set
`CHECK_DEADLOCK FALSE`. The request, message, time and call counters are
bounded, so the model stops where the program would idle.

### Fairness

Every strand action is weakly fair: an `io_context` thread eventually
runs each task posted to a strand. The transport eventually completes a
write it was given, which is also weak fairness.

The `settings_` strand (config reads and modifications) is weakly fair like the others.

The CAPTCHA provider eventually answers every verification, which is weak fairness on `RunVerify`. An error is delivered as `is_valid = false`. No liveness property of the gate is checked (see the observations).

In `VmRegistry` the registry strand and each VM's strand are weakly
fair: they are strands of the same pool.

Client requests, disconnects, settings modifications, admin VM requests, update ticks and the clock are not fair,
because nothing obliges a user to act. The liveness properties therefore
promise only what the server itself must do.

## 4. Observations not among the checked runs

These disagreements were met while modelling. Each is recorded as a
hazard in `PROJECT.json`, except the first, which a unit test reaches:
- **Recipient's row names itself.** `RunAccept` follows line 611, which emplaces the recipient's new row as `make_pair(recipient, sender_id)`: the recipient names itself as the peer, so its DIRECT messages loop back to it, where spec 4.9 says the row is (sender, sender_id). Any single NEW_DIRECT that is accepted shows it, so no model-checking run is spent on it.
- **Stopped recording resumes.** The stop timer expires and its success handler is posted. `Stop()` then cancels the timer, but the posted handler still runs `Start()`, so recording resumes on a stopped VM (lines 3035–3041). It breaks `RecordingFollowsCommands` in 7 states, a trace TLC reports when the invariant `open => wanted`, which the shorter trace of `recording_commands` does not break, is checked instead.
- **`SEND_CAPTCHA` undone.** `OnConnect`'s `settings_` task assigns `is_captcha_required_ = CAPTCHA_REQUIRED` whenever it runs (line 192). With the setting off, an admin's `SEND_CAPTCHA` applied before the task is cleared, and the user's gated requests pass: `CaptchaGate` fails in 10 states with `CaptchaRequired = FALSE` and two requests. `session_captcha` fixes the setting on to show the bug at line 191 instead.
- **An old answer satisfies a new demand.** Provider answers come back in any order and the last one decides `is_captcha_required_` (line 338). A valid answer to a CAPTCHA shown before an admin's `SEND_CAPTCHA` clears that later demand. A liveness property that every demand stays enforced until it is solved is broken by this and by the undone `SEND_CAPTCHA`; every run slot is taken by a checked violation, so it is not kept as a run.
- **Reply with the peer's id.** A NEW_DIRECT to a user with whom a chat is still pending replies with `existing_chat_room->second.second`, the peer's id, which is 0 while pending (line 555).
- **DIRECT with the sender's id.** DIRECT messages reach the recipient under the sender's local chat id (line 674).
- **`InvalidateSession` is empty.** Its body is a TODO (line 1729), so two sockets logged in to one account both stay live.
- **`SetRecordingSettings` compares the other way.** It restarts when the remaining time is *below* the new duration (line 2995). Spec 4.10 describes the opposite comparison.
- **No clock-skew cap.** Keyframe and stop timestamps come from `system_clock` with no cap on backward jumps (line 3143). A clock set back once puts a keyframe after stopTime. The model takes the system clock to move forward.
- **Leaked IP count.** A socket that disconnects before `GetIPData` stored `ip_data_` is counted and never uncounted (line 1689). Over time this locks the IP out.
- **Leaked guest name.** A socket that disconnects before `GenerateUsername` runs leaves its generated name in `guests_` for good (line 1657). TLC found this with a `guests_`-leak invariant on `GuestNames`.
- **Null dereference after delete.** An `UPDATE_VM_CONFIG` of a VM that is deleted before the VM's answer comes back makes `UpdateVirtualMachineInfo` index `admin_virtual_machines_[vm_id]`. That inserts a null entry, which is then dereferenced (line 2658). `vmregistry_ub` reaches this too.
- **Public list overflow.** The bulk answer of `v` says hidden, then a config update during the bulk update turns `v`'s pending info to shown. `vm_info_list_` is Reset to the count of shown answers but filled from the pending info, one element past its end (lines 2609, 2625). TLC reaches this in 13 states.
- **Solved CAPTCHA re-demanded.** A valid `CAPTCHA_COMPLETED` answered before `OnConnect`'s `settings_` task runs is overwritten by that task (line 192). The socket was told no CAPTCHA was needed (its ConnectResponse reads the false flag, line 258), and its requests are then dropped silently.
- **Closed socket kept as a VM list viewer.** `VM_LIST_REQUEST` tests and sets `is_viewing_vm_list_` inside its `virtual_machines_` task (line 730). A disconnect whose `LeaveVmList` runs before that task sees the flag clear and posts no removal. The task then registers the closed socket, and every later list broadcast queues to it for good. With two list requests the socket is registered twice and only one copy is removed. TLC found both on `session_live`'s configuration, with a liveness property that a closed socket leaves `vm_list_viewers_`. The admin list does not have this problem, because its flag is set before the task is posted.
- **CONNECT_TO_CHANNEL is not CAPTCHA-gated.** Spec 4.8's capability table gates connect-to-channel on the CAPTCHA, but the handler (line 218) has no `is_captcha_required_` check.
- **Sessions never released.** `SetSessionId` (line 1529) inserts a `shared_ptr` to the socket into `sessions_`, and nothing erases it. `CreateSession` only invalidates a replaced session. Each login therefore pins its socket for the life of the server.
- **Silent partial start.** `START_VMS`, `STOP_VMS` and `RESTART_VMS` `return` from the whole task at the first unknown id (lines 1168, 1190, 1212), leaving the ids after it unhandled with no error to the admin (the code says `TODO: Indicate error`). The model keeps this; no property is about the reply, since there is none.
- **`BAN_IP` environment.** `putenv(("IP_ADDRESS=" + ip_address).data())` (line 1362) hands `putenv` a pointer into a temporary string, which POSIX keeps in the environment; the later `system()` reads freed memory. This is not a state-machine question and is not modelled.
- **Stale public entry.** `RemoveAdminVirtualMachine` does not touch `vm_info_list_`, so a deleted VM stays in the public list until the next update (line 2409).
- **Registered name erases a guest's entry.** A logged-in socket's disconnect erases `guests_[registered name]`, which can be another guest's entry. TLC found this with a registered account in the uniqueness configuration, but that configuration takes over five minutes.

## 5. What is not modelled, and the plan

Left out of the current modules:
- **Username chain.** `CONNECT_TO_CHANNEL`'s join of the user channel and the broadcast of a new name by `SetUserData`.
- **The `username_` hop before `guests_` in NEW_DIRECT.** It is abstracted into the lookup task.
- **Self-chat.** A self-chat runs inline on the caller's strand.
- **`RunConfirm`'s else branch**, which handles a row already filled. It is unreachable under the bounds, because the recipient task fills the sender's pending row only on the concurrent path. It is the code's implicit no-op.
- **Recording file I/O.**
- **Captcha, database, two-factor and registration flows.** These are external calls.
- **Playback preview.** It reads recording files and renders PNGs.
- **`ApplySettings`' hand-off.** It gives the CAPTCHA settings to the external verifier and the recording settings to each VM's controller. `Recording` takes `SetRecordingSettings` as an input instead. `CAPTCHA_REQUIRED` is a per-run constant, because only OnConnect's task reads it.

Plan for later work, in order:
1. **Dispatcher, rest.** The admin and login gates, composed with `GuestNames`' `CreateSession`, which sets `is_logged_in_` and `is_admin_` on another strand than the one that reads them (line 414).
2. **VM registry, rest.** Thumbnails, viewer lists, the read-only `READ_VMS` and `READ_VM_CONFIG`, and the broadcast of the rebuilt list to sockets, composed with `SendQueue`.
3. **User channel, chat room and turn controller** (not under `src/`), modelled from the spec and composed with `GuestNames` for the name broadcast.
4. **Tighter models.** Unbounded `chat_rooms_` growth across disconnects (`chat_rooms_id_` wrapping is out of reach: chat messages are rate-limited, line 498).
