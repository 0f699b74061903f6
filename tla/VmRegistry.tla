----------------------------- MODULE VmRegistry -----------------------------
(***************************************************************************)
(* The VM registry (CollabVmServer.hpp, VirtualMachinesList and the admin  *)
(* requests that reach it).  Its state -- the map admin_virtual_machines_, *)
(* the two list messages admin_vm_info_list_ and vm_info_list_, each VM's  *)
(* pending-info double buffer and has_vm_info, and the counters of a bulk  *)
(* update -- is owned by the virtual_machines_ strand.  Every VM answers a *)
(* SetVmInfo request on its own strand by posting a wrapped callback back  *)
(* to the registry's strand, carrying the info it reports at that time.    *)
(*                                                                         *)
(* A VM's info is abstracted to whether it reports public info (vm_info    *)
(* non-null); every VM always reports admin info.  A list message is a bag *)
(* of the VM ids in its slots, with Blank for a slot that was sized by     *)
(* Reset and never filled.  An operation with undefined behaviour (null    *)
(* dereference, a write past a capnp list) sets ub and stops the process.  *)
(* Thumbnails and the broadcasts to viewers are left out: each broadcast   *)
(* sends the list as it is.                                                *)
(***************************************************************************)
EXTENDS Naturals, FiniteSets, Sequences, Bags

CONSTANTS VmIds,        \* ids the database may hand out
          InitialVms,   \* VMs read from the database at start-up
          MaxTicks,     \* bound on vm_info_timer_ expiries
          MaxOps,       \* bound on admin requests
          MaxIdsPerRequest, \* bound on the ids of one START/STOP/RESTART_VMS
          Blank         \* an unfilled list slot

ASSUME InitialVms \subseteq VmIds /\ Blank \notin VmIds

Shown == "shown"    \* the VM reports public info
Hidden == "hidden"  \* vm_info is null
NoPend == "none"    \* HasPendingAdminVmInfo() is false

VARIABLES vms,      \* DOMAIN admin_virtual_machines_
          used,     \* ids handed out so far (GetNewVmId)
          state,    \* state[v]: what VM v reports (started or stopped)
          vq,       \* vq[v]: requests pending on VM v's strand
          lq,       \* wrapped callbacks pending on the virtual_machines_ strand
          pending,  \* pending_vm_info_requests_
          updates,  \* pending_vm_info_updates_
          pend,     \* pend[v]: AdminVm's pending info, or NoPend
          has,      \* has[v]: AdminVm::has_vm_info
          admin,    \* admin_vm_info_list_, as a bag of ids and Blanks
          public,   \* vm_info_list_, as a bag of ids and Blanks
          ub,       \* "none", or the undefined behaviour that stopped the process
          ticks, ops

vars == <<vms, used, state, vq, lq, pending, updates, pend, has, admin,
          public, ub, ticks, ops>>

Slot == VmIds \cup {Blank}
Power == {"start", "stop", "restart"}
Request == {"bulk", "single", "settings"} \cup Power
\* the id lists a START_VMS, STOP_VMS or RESTART_VMS message may carry
IdLists == UNION {[1 .. n -> VmIds] : n \in 1 .. MaxIdsPerRequest}
Callback == [kind : {"bulk", "single", "config"}, vm : VmIds,
             info : {Shown, Hidden}]

TypeOK ==
    /\ vms \subseteq used /\ used \subseteq VmIds
    /\ state \in [VmIds -> {Shown, Hidden}]
    /\ vq \in [VmIds -> Seq(Request)]
    /\ lq \in Seq(Callback)
    /\ pending \in Nat /\ updates \in Nat
    /\ pend \in [VmIds -> {Shown, Hidden, NoPend}]
    /\ has \in [VmIds -> BOOLEAN]
    /\ IsABag(admin) /\ BagToSet(admin) \subseteq Slot
    /\ IsABag(public) /\ BagToSet(public) \subseteq Slot
    /\ ub \in {"none", "null_deref", "list_overflow"}
    /\ ticks \in 0 .. MaxTicks /\ ops \in 0 .. MaxOps

Init ==
    /\ vms = InitialVms /\ used = InitialVms
    /\ state = [v \in VmIds |-> Hidden]
    /\ vq = [v \in VmIds |-> <<>>]
    /\ lq = <<>>
    /\ pending = 0 /\ updates = 0
    /\ pend = [v \in VmIds |-> NoPend]
    /\ has = [v \in VmIds |-> FALSE]
    /\ admin = SetToBag(InitialVms)
    /\ public = EmptyBag
    /\ ub = "none"
    /\ ticks = 0 /\ ops = 0

-----------------------------------------------------------------------------
(* ResizableList operations, on a bag of slots.                            *)

\* Reset(n): n unfilled slots.
Blanks(n) == IF n = 0 THEN EmptyBag ELSE (Blank :> n)

\* RemoveFirst(id == v): a list one slot shorter, filled by remove_copy_if
\* with every slot not holding v; extra copies of v leave unfilled slots
\* at the end.  With no copy of v it writes past the end (see Fail).
RemoveFirst(b, v) ==
    [x \in DOMAIN b \ {v} |-> b[x]] (+) Blanks(CopiesIn(v, b) - 1)

\* Some request of a client or a callback reached undefined behaviour.
Fail(kind) == /\ ub' = kind
              /\ UNCHANGED <<vms, used, state, vq, lq, pending, updates,
                             pend, has, admin, public, ticks, ops>>

Running == ub = "none"

Admin == /\ Running /\ ops < MaxOps /\ ops' = ops + 1

-----------------------------------------------------------------------------
(* Tasks of the virtual_machines_ strand.                                  *)

\* Seeded-bug variant: no early return while a bulk update is pending.
UpdateVirtualMachineInfoList_NoGuard ==
    /\ Running /\ ticks < MaxTicks /\ ticks' = ticks + 1
    /\ pending' = Cardinality(vms) /\ updates' = 0
    /\ vq' = [v \in VmIds |-> IF v \in vms THEN Append(vq[v], "bulk") ELSE vq[v]]
    /\ UNCHANGED <<vms, used, state, lq, pend, has, admin, public, ub, ops>>

\* Seeded-bug variant: every id ever created is counted, deleted ones too.
UpdateVirtualMachineInfoList_CountsUsed ==
    /\ Running /\ ticks < MaxTicks /\ ticks' = ticks + 1
    /\ IF pending # 0
         THEN UNCHANGED <<vq, pending, updates>>
         ELSE /\ pending' = Cardinality(used) /\ updates' = 0
              /\ vq' = [v \in VmIds |-> IF v \in vms THEN Append(vq[v], "bulk")
                                                     ELSE vq[v]]
    /\ UNCHANGED <<vms, used, state, lq, pend, has, admin, public, ub, ops>>

\* vm_info_timer_ expires; UpdateVirtualMachineInfoList runs on the strand:
\* nothing while a bulk update is pending, else count the VMs and send each
\* a SetVmInfo request.
UpdateVirtualMachineInfoList ==
    /\ Running /\ ticks < MaxTicks /\ ticks' = ticks + 1
    /\ IF pending # 0
         THEN UNCHANGED <<vq, pending, updates>>
         ELSE /\ pending' = Cardinality(vms) /\ updates' = 0
              /\ vq' = [v \in VmIds |-> IF v \in vms THEN Append(vq[v], "bulk")
                                                     ELSE vq[v]]
    /\ UNCHANGED <<vms, used, state, lq, pend, has, admin, public, ub, ops>>

\* The bulk callback for the answer c: record has_vm_info and the pending
\* info, count a public one; when it is the last answer, rebuild both
\* lists from the VMs now in the map that hold pending info, and free that
\* info.
BulkAnswer(c) ==
    LET pend1 == [pend EXCEPT ![c.vm] = c.info]
        updates1 == IF c.info = Shown THEN updates + 1 ELSE updates
        filled == {w \in vms : pend1[w] # NoPend}
        shown == {w \in filled : pend1[w] = Shown}
    IN
    /\ lq' = Tail(lq)
    /\ has' = [has EXCEPT ![c.vm] = c.info = Shown]
    /\ updates' = updates1
    /\ pending' = pending - 1
    /\ IF pending - 1 # 0
         THEN /\ pend' = pend1
              /\ UNCHANGED <<admin, public, ub>>
         \* setWithCaveats past the end of a list Reset to updates1 slots
         ELSE IF Cardinality(shown) > updates1
           THEN /\ ub' = "list_overflow" /\ pend' = pend1
                /\ UNCHANGED <<admin, public>>
           ELSE /\ admin' = SetToBag(filled) (+) Blanks(Cardinality(vms) - Cardinality(filled))
                /\ public' = SetToBag(shown) (+) Blanks(updates1 - Cardinality(shown))
                /\ pend' = [w \in VmIds |-> IF w \in filled THEN NoPend ELSE pend1[w]]
                /\ UNCHANGED ub
    /\ UNCHANGED <<vms, used, state, vq, ticks, ops>>

\* Seeded-bug variant: the answer of a VM deleted meanwhile is dropped
\* before it is counted.
RunBulkCallback_SkipDeleted ==
    /\ Running /\ lq # <<>> /\ Head(lq).kind = "bulk"
    /\ IF Head(lq).vm \notin vms
         THEN /\ lq' = Tail(lq)
              /\ UNCHANGED <<vms, used, state, vq, pending, updates, pend, has,
                             admin, public, ub, ticks, ops>>
         ELSE BulkAnswer(Head(lq))

\* The wrapped callback of a bulk SetVmInfo request.
RunBulkCallback ==
    /\ Running /\ lq # <<>> /\ Head(lq).kind = "bulk"
    /\ BulkAnswer(Head(lq))

\* UpdateVirtualMachineInfo's callback.  admin_virtual_machines_[vm_id] of
\* a deleted VM inserts and dereferences a null pointer.  While a bulk
\* update holds pending info, replace it; else patch the admin entry and
\* add, update or remove the public one.
RunSingleCallback ==
    LET c == Head(lq) IN
    /\ Running /\ lq # <<>> /\ c.kind = "single"
    /\ IF c.vm \notin vms
         THEN Fail("null_deref")
       ELSE IF pend[c.vm] # NoPend
         THEN /\ pend' = [pend EXCEPT ![c.vm] = c.info]
              /\ lq' = Tail(lq)
              /\ UNCHANGED <<vms, used, state, vq, pending, updates, has,
                             admin, public, ub, ticks, ops>>
       ELSE IF has[c.vm] /\ c.info = Hidden /\ CopiesIn(c.vm, public) = 0
         THEN Fail("list_overflow")
       ELSE /\ lq' = Tail(lq)
            /\ public' = IF has[c.vm] /\ c.info = Hidden THEN RemoveFirst(public, c.vm)
                         ELSE IF ~has[c.vm] /\ c.info = Shown THEN public (+) SetToBag({c.vm})
                         ELSE public
            /\ has' = [has EXCEPT ![c.vm] = c.info = Shown]
            /\ UNCHANGED <<vms, used, state, vq, pending, updates, pend,
                           admin, ub, ticks, ops>>

\* UPDATE_VM_CONFIG's wrapped callback, once the VM accepted the settings:
\* if the VM still exists, UpdateVirtualMachineInfo.
RunConfigCallback ==
    LET c == Head(lq) IN
    /\ Running /\ lq # <<>> /\ c.kind = "config"
    /\ lq' = Tail(lq)
    /\ vq' = IF c.vm \in vms THEN [vq EXCEPT ![c.vm] = Append(@, "single")] ELSE vq
    /\ UNCHANGED <<vms, used, state, pending, updates, pend, has, admin,
                   public, ub, ticks, ops>>

-----------------------------------------------------------------------------
(* Admin requests, each a task dispatched to the virtual_machines_ strand. *)

\* AddAdminVirtualMachine: a new admin list entry and a stopped VM.
AddAdminVirtualMachine(v) ==
    /\ vms' = vms \cup {v}
    /\ admin' = admin (+) SetToBag({v})

\* CREATE_VM: a new id from the database (GetNewVmId), then
\* AddAdminVirtualMachine.
CreateVm ==
    /\ Admin
    /\ \E v \in VmIds \ used :
          /\ used' = used \cup {v}
          /\ AddAdminVirtualMachine(v)
    /\ UNCHANGED <<state, vq, lq, pending, updates, pend, has, public, ub, ticks>>

\* RemoveAdminVirtualMachine: stop the VM, erase it from the map and
\* remove its admin list entry, writing past the list when it has none.
\* The AdminVm lives on in callbacks that captured it.
RemoveAdminVirtualMachine(v) ==
    IF CopiesIn(v, admin) = 0
      THEN /\ ub' = "list_overflow"
           /\ UNCHANGED <<vms, admin, vq>>
      ELSE /\ vms' = vms \ {v}
           /\ admin' = RemoveFirst(admin, v)
           /\ vq' = [vq EXCEPT ![v] = Append(@, "stop")]
           /\ UNCHANGED ub

\* DELETE_VM of a VM in the map (another id is answered with nothing).
DeleteVm(v) ==
    /\ Admin /\ v \in vms
    /\ RemoveAdminVirtualMachine(v)
    /\ UNCHANGED <<used, state, lq, pending, updates, pend, has, public, ticks>>

\* UPDATE_VM_CONFIG: if the VM exists, UpdateSettings on the VM.
UpdateVmConfig(v) ==
    /\ Admin /\ v \in vms
    /\ vq' = [vq EXCEPT ![v] = Append(@, "settings")]
    /\ UNCHANGED <<vms, used, state, lq, pending, updates, pend, has, admin,
                   public, ub, ticks>>

\* START_VMS, STOP_VMS and RESTART_VMS: for each listed id in order, the
\* VM's Start, Stop or Restart; the first id with no VM returns from the
\* loop, so the ids after it are dropped and nothing tells the admin.
StartStopVms(ids, r) ==
    LET Missing == {i \in 1 .. Len(ids) : ids[i] \notin vms}
        first == CHOOSE i \in Missing : \A j \in Missing : i <= j
        done == IF Missing = {} THEN ids ELSE SubSeq(ids, 1, first - 1)
        Times(v) == Cardinality({i \in 1 .. Len(done) : done[i] = v})
    IN
    /\ Admin
    /\ vq' = [v \in VmIds |-> vq[v] \o [i \in 1 .. Times(v) |-> r]]
    /\ UNCHANGED <<vms, used, state, lq, pending, updates, pend, has, admin,
                   public, ub, ticks>>

-----------------------------------------------------------------------------
(* A VM's strand (AdminVirtualMachine, not in this file): it runs its      *)
(* requests in order.  SetVmInfo fills a VmInfoProducer with what the VM   *)
(* reports now, whose destructor posts the wrapped callback; UpdateSettings *)
(* posts UPDATE_VM_CONFIG's callback; Start, Restart and Stop change what *)
(* it reports: a VM that is started or restarted ends up running.        *)

RunVm(v) ==
    LET r == Head(vq[v])
        Post(k) == lq' = Append(lq, [kind |-> k, vm |-> v, info |-> state[v]])
    IN
    /\ Running /\ vq[v] # <<>>
    /\ vq' = [vq EXCEPT ![v] = Tail(@)]
    /\ \/ r \in {"bulk", "single"} /\ Post(r) /\ UNCHANGED state
       \/ r = "settings" /\ Post("config") /\ UNCHANGED state
       \/ r \in Power /\ UNCHANGED lq
          /\ state' = [state EXCEPT ![v] = IF r = "stop" THEN Hidden ELSE Shown]
    /\ UNCHANGED <<vms, used, pending, updates, pend, has, admin, public, ub,
                   ticks, ops>>

-----------------------------------------------------------------------------

RunStrand == RunBulkCallback \/ RunSingleCallback \/ RunConfigCallback

Next ==
    \/ UpdateVirtualMachineInfoList
    \/ RunStrand
    \/ \E v \in VmIds : RunVm(v)
    \/ CreateVm
    \/ \E v \in VmIds : DeleteVm(v) \/ UpdateVmConfig(v)
    \/ \E ids \in IdLists, r \in Power : StartStopVms(ids, r)

\* The io_context runs every task posted to the registry's strand and to
\* each VM's strand.  Timer expiries and admin requests are not forced.
Fairness == WF_vars(RunStrand) /\ \A v \in VmIds : WF_vars(RunVm(v))

Spec == Init /\ [][Next]_vars /\ Fairness

-----------------------------------------------------------------------------
(* Properties                                                              *)

\* Answers to the current bulk update still to come: requests queued on a
\* VM and callbacks queued on the registry's strand.
BulkRequests == UNION {{<<v, i>> : i \in {j \in 1 .. Len(vq[v]) : vq[v][j] = "bulk"}}
                       : v \in VmIds}
BulkCallbacks == {i \in 1 .. Len(lq) : lq[i].kind = "bulk"}

\* pending_vm_info_requests_ is exactly the number of bulk answers still
\* to come, across timer ticks that find an update pending, VMs created
\* and deleted while it is in flight: the lists are rebuilt exactly when
\* the last answer arrives, and the counter never wraps below zero.
PendingCountsInFlight ==
    Running => pending = Cardinality(BulkRequests) + Cardinality(BulkCallbacks)

\* Every bulk update started by UpdateVirtualMachineInfoList eventually
\* completes (its lists are rebuilt and a new one can start), unless the
\* process stopped on undefined behaviour.
BulkCompletes == pending # 0 ~> (pending = 0 \/ ~Running)

\* The registry never dereferences a null AdminVm nor writes past the end
\* of a list message, whatever the admins and the VMs do.
NoUndefinedBehaviour == Running

=============================================================================
