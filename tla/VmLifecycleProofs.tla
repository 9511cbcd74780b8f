------------------------- MODULE VmLifecycleProofs -------------------------
(***************************************************************************)
(* Proofs about VmLifecycle, for any number of VMs, addresses, backups and *)
(* requests, any faults, and whatever each request asks for.               *)
(***************************************************************************)
EXTENDS VmLifecycle, FiniteSetTheorems, TLAPS

-----------------------------------------------------------------------------
(***************************************************************************)
(* The inductive invariant.                                                *)
(***************************************************************************)
CallsOK == \A r \in Requests : call[r] \in CallsOf[r]

\* What a request that has come this far asked for.
StagesOK ==
    \A r \in Requests :
        /\ phase[r] \in {"numbered", "picked", "cloned"} => Op(r) = "create"
        /\ phase[r] = "made" => Op(r) = "backup"
        /\ phase[r] = "found" => Op(r) = "removeIp"
        /\ phase[r] \in {"ready", "queued", "executed"} => Op(r) \in Queueing

Creating(r, stages) == Op(r) = "create" /\ phase[r] \in stages

\* A VM has no row before its creation writes it, ...
Unborn ==
    \A r \in Requests : Creating(r, {"new", "numbered", "picked"}) => status[V(r)] = "absent"

\* ... and a vmid from its number on.
Numbered ==
    \A r \in Requests :
        Creating(r, {"numbered", "picked", "ready", "queued", "cloned", "executed"})
          => Machine(r) \in Ids

\* A creation that has cloned owns the machine, ...
Cloned == \A r \in Requests : Creating(r, {"cloned", "executed"}) => owner[Machine(r)] = V(r)

\* ... as every running VM does, ...
Running == \A v \in Vms : status[v] = "running" => vmid[v] \in Ids /\ owner[vmid[v]] = v

\* ... and the tag is on no machine of anybody else.
TagsAreOurs == \A n \in tagged : owner[n] \in Vms

MachinesOK == Unborn /\ Numbered /\ Cloned /\ Running /\ TagsAreOurs /\ ForeignUntouched

\* A backup job that has run has written its archive.
Written ==
    \A r \in Requests : phase[r] = "executed" /\ Op(r) = "backup" => Item(r) \in archives

BackupsOK == Written /\ CompletedHasArchive

\* The lock of a pool is held by one creation at most.
LockHeld ==
    \A r, q \in Requests : r # q /\ phase[r] = "picked" /\ phase[q] = "picked"
                             => PoolOf[V(r)] # PoolOf[V(q)]

\* While it is, no VM of the pool takes the address that the creation has picked.
PickedFree ==
    \A r \in Requests : phase[r] = "picked" /\ ip[r] \in Ips /\ addr[ip[r]] \in Vms
                          => PoolOf[addr[ip[r]]] # PoolOf[V(r)]

AddressesOK == LockHeld /\ PickedFree

VmInv == TypeOK /\ CallsOK /\ StagesOK /\ MachinesOK /\ BackupsOK /\ AddressesOK

-----------------------------------------------------------------------------
\* What a request asks for is of the kind that its operation names, and no two
\* requests create the same VM.
LEMMA CallFacts ==
    ASSUME TypeOK, CallsOK, NEW r \in Requests
    PROVE  /\ Op(r) \in Queueing \cup Writing /\ V(r) \in Vms
           /\ Op(r) \in OnBackups => Item(r) \in Backups
           /\ Op(r) \in OnSnapshots => Item(r) \in Snapshots
           /\ Op(r) \in OnIps => Item(r) \in Ips
           /\ Op(r) = "create" => V(r) \notin Old
           /\ \A q \in Requests : q # r /\ Op(q) = "create" /\ Op(r) = "create" => V(q) # V(r)
  <1>1. call[r] \in [op : Queueing \cup Writing, vm : Vms, item : Items \cup {None}]
    BY VmAssumption DEF CallsOK
  <1>2. \A q \in Requests : q # r /\ Op(q) = "create" /\ Op(r) = "create" => V(q) # V(r)
    BY VmAssumption DEF CallsOK, Op, V
  <1>3. /\ Op(r) \in OnBackups => Item(r) \in Backups
        /\ Op(r) \in OnSnapshots => Item(r) \in Snapshots
        /\ Op(r) \in OnIps => Item(r) \in Ips
        /\ Op(r) = "create" => V(r) \notin Old
    BY VmAssumption DEF CallsOK, Op, V, Item
  <1> QED
    BY <1>1, <1>2, <1>3 DEF Op, V

\* A step that only moves a request on: it asks for its job, is refused, is
\* queued, is dropped with its worker or looks up an address to remove.
Silent(r) ==
    /\ \E next \in {"ready", "queued", "found", "done", "failed"} :
         /\ phase' = [phase EXCEPT ![r] = next]
         /\ next = "ready" => phase[r] = "new" /\ Op(r) \in Queueing \ {"create"}
         /\ next = "queued" => phase[r] \in {"ready", "cloned", "executed"}
         /\ next = "found" => Op(r) = "removeIp"
    /\ faults' \in Nat
    /\ UNCHANGED <<rowVars, ipVars, backupVars, snapshot, proxmox, call, ip>>

\* The steps that change more than that.
Changes(r) ==
    GetNextVmid(r) \/ PickIp(r) \/ CreateVm(r) \/ RefuseCreate(r) \/ Reinstall(r)
    \/ CreateBackup(r) \/ EvictOldest(r) \/ CreateSnapshot(r)
    \/ Clone(r) \/ Tag(r) \/ Execute(r) \/ FailJob(r) \/ Apply(r)
    \/ DeleteBackup(r) \/ LockBackup(r) \/ UnlockBackup(r)
    \/ ForceStop(r) \/ ForceRelease(r) \/ ForceDelete(r) \/ AddIp(r) \/ RemoveIp(r)

\* Every step of a request is of one of these two kinds.
LEMMA StepCases ==
    ASSUME TypeOK, CallsOK, NEW r \in Requests, Begin(r) \/ Work(r) \/ Write(r)
    PROVE  Silent(r) \/ Changes(r)
  <1>0. faults \in Nat
    BY DEF TypeOK
  <1>1. ASSUME NEW ops, Ask(r, ops), ops \subseteq Queueing \ {"create"} PROVE Silent(r)
    BY <1>0, <1>1 DEF Ask, Goto, Silent
  <1>2. CASE Begin(r)
    <2>1. CASE Refuse(r)
      BY <1>0, <2>1 DEF Refuse, Goto, Silent
    <2>2. CASE Enqueue(r)
      BY <1>0, <2>2 DEF Enqueue, Goto, Silent, Fault, NoFault
    <2>3. CASE \/ PerformAction(r) \/ DeleteVm(r) \/ ResizeVm(r) \/ ChangeIso(r)
               \/ RestoreBackup(r) \/ DeleteSnapshot(r) \/ RollbackSnapshot(r)
               \/ ChangeFirewall(r) \/ MigrateVm(r) \/ UpdateHardwareConfig(r)
               \/ ChangeNetwork(r) \/ AdminResizeVm(r) \/ AdminMigrateVm(r)
               \/ AddVmFirewall(r) \/ DeleteVmFirewall(r)
      <3>1. PICK ops \in {Powers, {"delete"}, {"resize"}, {"iso"}, {"restore"}, {"deleteSnapshot"},
                          {"rollback"}, {"firewall"}, {"migrate"}, {"hardware"}, {"network"}} :
              Ask(r, ops)
        BY <2>3 DEF PerformAction, DeleteVm, ResizeVm, ChangeIso, RestoreBackup, DeleteSnapshot,
           RollbackSnapshot, ChangeFirewall, MigrateVm, UpdateHardwareConfig, ChangeNetwork,
           AdminResizeVm, AdminMigrateVm, AddVmFirewall, DeleteVmFirewall
      <3>2. ops \subseteq Queueing \ {"create"}
        BY DEF Queueing, Powers
      <3> QED
        BY <1>1, <3>1, <3>2
    <2>4. CASE AdminReinstallVm(r)
      BY <2>4 DEF AdminReinstallVm, Changes
    <2> QED
      BY <1>2, <2>1, <2>2, <2>3, <2>4 DEF Begin, Changes
  <1>3. CASE Work(r)
    <2>1. CASE WorkerDies(r)
      BY <1>0, <2>1 DEF WorkerDies, Goto, Fault, Silent
    <2> QED
      BY <1>3, <2>1 DEF Work, Changes
  <1>4. CASE Write(r)
    <2>1. CASE RefuseBackup(r)
      BY <1>0, <2>1 DEF RefuseBackup, Goto, Silent
    <2>2. CASE CheckRemoveIp(r)
      BY <1>0, <2>2 DEF CheckRemoveIp, Goto, Silent
    <2> QED
      BY <1>4, <2>1, <2>2 DEF Write, Changes
  <1> QED
    BY <1>2, <1>3, <1>4

-----------------------------------------------------------------------------
(***************************************************************************)
(* Types, and the calls.                                                   *)
(***************************************************************************)
\* The initial state satisfies the invariant.
LEMMA InitInv == ASSUME Init PROVE VmInv
  <1>1. TypeOK
    <2>1. vmid \in [Vms -> Ids \cup {None}] /\ call \in [Requests -> Calls]
      BY DEF Init
    <2>2. order \in Seq(Backups)
      <3>1. Cardinality(OldBackups) \in Nat
        BY VmAssumption, FS_CardinalityType
      <3>2. PICK n \in Nat : order \in [1 .. n -> OldBackups]
        BY <3>1 DEF Init
      <3> QED
        BY <3>2, VmAssumption
    <2>3. owner \in [Ids -> Vms \cup {Foreign, None}]
      <3>1. ASSUME NEW n \in Ids, \E v \in Old : vmid[v] = n
            PROVE  (CHOOSE v \in Old : vmid[v] = n) \in Vms
        BY <3>1, VmAssumption
      <3> QED
        BY <3>1 DEF Init
    <2>4. /\ status \in [Vms -> VmStatuses \cup {"absent"}] /\ allocated \subseteq Vms
          /\ addresses \subseteq Ips /\ addr \in [Ips -> Vms \cup {None}] /\ assigned \subseteq Ips
      BY VmAssumption DEF Init, VmStatuses
    <2>5. /\ backup \in [Backups -> {"none", "pending", "completed", "failed"}]
          /\ locked \subseteq Backups
          /\ snapshot \in [Snapshots -> {"none", "pending", "created"}]
          /\ tagged \subseteq Ids /\ archives \subseteq Backups /\ meddled \subseteq Queueing
      BY VmAssumption DEF Init
    <2>6. /\ phase \in [Requests -> {"new"}] /\ ip \in [Requests -> {None}] /\ faults = 0
      BY DEF Init
    <2> QED
      BY <2>1, <2>2, <2>3, <2>4, <2>5, <2>6 DEF TypeOK
  <1>2. CallsOK
    BY DEF Init, CallsOK
  <1>3. \A r \in Requests : phase[r] = "new"
    BY DEF Init
  <1>4. MachinesOK
    <2>1. Unborn
      BY <1>1, <1>2, <1>3, CallFacts DEF Unborn, Creating, Init
    <2>2. Numbered /\ Cloned
      BY <1>3 DEF Numbered, Cloned, Creating
    <2>3. ASSUME NEW v \in Old PROVE vmid[v] \in Ids /\ owner[vmid[v]] = v
      <3>1. v \in Vms /\ vmid[v] \in Ids
        BY VmAssumption DEF Init
      <3>2. owner[vmid[v]] = CHOOSE u \in Old : vmid[u] = vmid[v]
        BY <3>1, <2>3 DEF Init
      <3> QED
        BY <3>1, <3>2 DEF Init
    <2>4. Running
      BY <2>3 DEF Running, Init
    <2>5. TagsAreOurs
      <3> SUFFICES ASSUME NEW n \in tagged PROVE owner[n] \in Vms
        BY DEF TagsAreOurs
      <3>1. n \in Ids /\ owner[n] # None
        BY DEF Init
      <3>2. PICK v \in Old : vmid[v] = n
        BY <3>1 DEF Init
      <3> QED
        BY <2>3, <3>2, VmAssumption
    <2> QED
      BY <2>1, <2>2, <2>4, <2>5 DEF MachinesOK, ForeignUntouched, Init
  <1>5. BackupsOK
    BY <1>3 DEF BackupsOK, Written, CompletedHasArchive, Init
  <1>6. AddressesOK
    BY <1>3 DEF AddressesOK, LockHeld, PickedFree
  <1>7. StagesOK
    BY <1>3 DEF StagesOK
  <1> QED
    BY <1>1, <1>2, <1>4, <1>5, <1>6, <1>7 DEF VmInv

\* A request keeps the call it makes.
LEMMA CallKept == ASSUME NEW r, Silent(r) \/ Changes(r) PROVE UNCHANGED call
  BY DEF Silent, Changes, Goto, GetNextVmid, PickIp, CreateVm, RefuseCreate, Reinstall,
       CreateBackup, EvictOldest,
     CreateSnapshot, Clone, Tag, Execute, FailJob, Apply, DeleteBackup,
     LockBackup, UnlockBackup, ForceStop, ForceRelease, ForceDelete, AddIp, RemoveIp,
     OnBackup

\* A step of a request keeps the types and the calls.
LEMMA TypeStep ==
    ASSUME VmInv, NEW r \in Requests, Silent(r) \/ Changes(r)
    PROVE  TypeOK' /\ CallsOK'
  <1> USE DEF TypeOK
  <1>0. /\ TypeOK /\ CallsOK /\ V(r) \in Vms /\ Op(r) \in Queueing \cup Writing
        /\ Op(r) \in OnBackups => Item(r) \in Backups
        /\ Op(r) \in OnSnapshots => Item(r) \in Snapshots
        /\ Op(r) \in OnIps => Item(r) \in Ips
    BY CallFacts DEF VmInv
  <1>1. StagesOK /\ Numbered
    BY DEF VmInv, MachinesOK
  <1>2. UNCHANGED call
    BY CallKept
  <1>3. CallsOK'
    BY <1>0, <1>2 DEF CallsOK
  <1> SUFFICES TypeOK'
    BY <1>3
  <1> USE <1>0, <1>2
  <1>4. CASE Silent(r)
    BY <1>4 DEF Silent, rowVars, ipVars, backupVars, proxmox
  <1>5. CASE GetNextVmid(r)
    BY <1>5 DEF GetNextVmid, rowVars, ipVars, backupVars, proxmox, Goto
  <1>6. CASE PickIp(r)
    BY <1>6 DEF PickIp, rowVars, ipVars, backupVars, proxmox, Goto
  <1>7. CASE CreateVm(r)
    BY <1>7 DEF CreateVm, SetStatus, VmStatuses, rowVars, ipVars, backupVars, proxmox, Goto
  <1>8. CASE RefuseCreate(r)
    BY <1>8 DEF RefuseCreate, rowVars, ipVars, backupVars, proxmox, Goto
  <1>9. CASE Reinstall(r)
    BY <1>9 DEF Reinstall, SetStatus, VmStatuses, rowVars, ipVars, backupVars, proxmox, Goto
  <1>10. CASE CreateBackup(r)
    BY <1>10 DEF CreateBackup, OnBackups, rowVars, ipVars, backupVars, proxmox, Goto
  <1>11. CASE EvictOldest(r)
    BY <1>11 DEF EvictOldest, rowVars, ipVars, backupVars, proxmox, Goto
  <1>12. CASE CreateSnapshot(r)
    BY <1>12 DEF CreateSnapshot, rowVars, ipVars, backupVars, proxmox, Goto
  <1>13. CASE Clone(r)
    BY <1>13 DEF Clone, rowVars, ipVars, backupVars, proxmox, Goto
  <1>14. CASE Tag(r)
    BY <1>1, <1>14 DEF Tag, StagesOK, Numbered, Creating, rowVars, ipVars, backupVars, proxmox,
       Goto
  <1>15. CASE Execute(r)
    BY <1>1, <1>15 DEF Execute, StagesOK, OnBackups, rowVars, ipVars, backupVars, proxmox, Goto
  <1>16. CASE FailJob(r)
    BY <1>16 DEF FailJob, Fault, NoFault, SetStatus, VmStatuses, rowVars, ipVars, backupVars,
       proxmox, Goto
  <1>17. CASE Apply(r)
    BY <1>17 DEF Apply, SetStatus, VmStatuses, Outcome, rowVars, ipVars, backupVars, proxmox, Goto
  <1>18. CASE DeleteBackup(r)
    BY <1>18 DEF DeleteBackup, OnBackup, rowVars, ipVars, backupVars, proxmox, Goto
  <1>19. CASE LockBackup(r)
    BY <1>19 DEF LockBackup, OnBackup, OnBackups, rowVars, ipVars, backupVars, proxmox, Goto
  <1>20. CASE UnlockBackup(r)
    BY <1>20 DEF UnlockBackup, OnBackup, rowVars, ipVars, backupVars, proxmox, Goto
  <1>21. CASE ForceStop(r)
    BY <1>21 DEF ForceStop, SetStatus, VmStatuses, rowVars, ipVars, backupVars, proxmox, Goto
  <1>22. CASE ForceRelease(r)
    BY <1>22 DEF ForceRelease, rowVars, ipVars, backupVars, proxmox, Goto
  <1>23. CASE ForceDelete(r)
    BY <1>23 DEF ForceDelete, Fault, NoFault, SetStatus, rowVars, ipVars, backupVars, proxmox,
       Goto
  <1>24. CASE AddIp(r)
    BY <1>24 DEF AddIp, OnIps, rowVars, ipVars, backupVars, proxmox, Goto
  <1>25. CASE RemoveIp(r)
    BY <1>1, <1>25 DEF RemoveIp, StagesOK, OnIps, rowVars, ipVars, backupVars, proxmox, Goto
  <1> QED
    BY <1>4, <1>5, <1>6, <1>7, <1>8, <1>9, <1>10, <1>11, <1>12, <1>13, <1>14, <1>15, <1>16,
       <1>17, <1>18, <1>19, <1>20, <1>21, <1>22, <1>23, <1>24, <1>25 DEF Changes


\* A step of a request keeps the link between how far a request is and what it
\* asked for.
LEMMA StagesStep ==
    ASSUME VmInv, NEW r \in Requests, Silent(r) \/ Changes(r)
    PROVE  StagesOK'
  <1>1. phase \in [Requests -> {"new", "numbered", "picked", "made", "ready", "queued", "cloned",
                               "executed", "released", "found", "done", "failed"}]
    BY DEF VmInv, TypeOK
  <1>2. StagesOK /\ UNCHANGED call
    BY CallKept DEF VmInv
  <1> USE <1>1, <1>2 DEF StagesOK, Op
  <1>3. CASE Silent(r)
    BY <1>3 DEF Silent, Queueing
  <1>4. CASE GetNextVmid(r)
    BY <1>4 DEF GetNextVmid, Queueing, Rows, Goto
  <1>5. CASE PickIp(r)
    BY <1>5 DEF PickIp, Queueing, Rows, Goto
  <1>6. CASE CreateVm(r)
    BY <1>6 DEF CreateVm, Queueing, Rows, Goto
  <1>7. CASE RefuseCreate(r)
    BY <1>7 DEF RefuseCreate, Queueing, Rows, Goto
  <1>8. CASE Reinstall(r)
    BY <1>8 DEF Reinstall, Queueing, Rows, Goto
  <1>9. CASE CreateBackup(r)
    BY <1>9 DEF CreateBackup, Queueing, Rows, Goto
  <1>10. CASE EvictOldest(r)
    BY <1>10 DEF EvictOldest, Queueing, Rows, Goto
  <1>11. CASE CreateSnapshot(r)
    BY <1>11 DEF CreateSnapshot, Queueing, Rows, Goto
  <1>12. CASE Clone(r)
    BY <1>12 DEF Clone, Queueing, Rows, Goto
  <1>13. CASE Tag(r)
    BY <1>13 DEF Tag, Queueing, Rows, Goto
  <1>14. CASE Execute(r)
    BY <1>14 DEF Execute, Queueing, Rows, Goto
  <1>15. CASE FailJob(r)
    BY <1>15 DEF FailJob, Queueing, Rows, Goto
  <1>16. CASE Apply(r)
    BY <1>16 DEF Apply, Queueing, Rows, Goto
  <1>17. CASE DeleteBackup(r)
    BY <1>17 DEF DeleteBackup, OnBackup, Queueing, Rows, Goto
  <1>18. CASE LockBackup(r)
    BY <1>18 DEF LockBackup, OnBackup, Queueing, Rows, Goto
  <1>19. CASE UnlockBackup(r)
    BY <1>19 DEF UnlockBackup, OnBackup, Queueing, Rows, Goto
  <1>20. CASE ForceStop(r)
    BY <1>20 DEF ForceStop, Queueing, Rows, Goto
  <1>21. CASE ForceRelease(r)
    BY <1>21 DEF ForceRelease, Queueing, Rows, Goto
  <1>22. CASE ForceDelete(r)
    BY <1>22 DEF ForceDelete, Queueing, Rows, Goto
  <1>23. CASE AddIp(r)
    BY <1>23 DEF AddIp, Queueing, Rows, Goto
  <1>24. CASE RemoveIp(r)
    BY <1>24 DEF RemoveIp, Queueing, Rows, Goto
  <1> QED
    BY <1>3, <1>4, <1>5, <1>6, <1>7, <1>8, <1>9, <1>10, <1>11, <1>12, <1>13, <1>14, <1>15,
       <1>16, <1>17, <1>18, <1>19, <1>20, <1>21, <1>22, <1>23, <1>24 DEF Changes


\* A step of a request keeps the link between the rows and the machines.
LEMMA MachinesStep ==
    ASSUME VmInv, NEW r \in Requests, Silent(r) \/ Changes(r)
    PROVE  MachinesOK'
  <1>1. /\ status \in [Vms -> VmStatuses \cup {"absent"}] /\ vmid \in [Vms -> Ids \cup {None}]
        /\ owner \in [Ids -> Vms \cup {Foreign, None}] /\ tagged \subseteq Ids
        /\ phase \in [Requests -> {"new", "numbered", "picked", "made", "ready", "queued", "cloned",
                               "executed", "released", "found", "done", "failed"}]
    BY DEF VmInv, TypeOK
  <1>2. UNCHANGED call
    BY CallKept
  <1>3. /\ V(r) \in Vms /\ None \notin Vms /\ Foreign \notin Vms
        /\ \A q \in Requests : V(q) \in Vms /\ V(q)' = V(q) /\ Op(q)' = Op(q)
        /\ \A q \in Requests : q # r /\ Op(q) = "create" /\ Op(r) = "create" => V(q) # V(r)
    BY <1>2, CallFacts, VmAssumption DEF VmInv, V, Op
  <1>4. /\ StagesOK
        /\ Unborn /\ Numbered /\ Cloned /\ Running /\ TagsAreOurs /\ ForeignUntouched
    BY DEF VmInv, MachinesOK
  <1> USE <1>1, <1>3, <1>4 DEF MachinesOK, Machine, Creating
  <1>5. CASE Silent(r) \/ PickIp(r) \/ CreateBackup(r) \/ EvictOldest(r) \/ CreateSnapshot(r)
            \/ DeleteBackup(r) \/ LockBackup(r) \/ UnlockBackup(r) \/ ForceRelease(r)
            \/ AddIp(r) \/ RemoveIp(r)
    <2>1. UNCHANGED <<status, vmid, owner, tagged, meddled>>
      BY <1>5 DEF Silent, PickIp, CreateBackup, EvictOldest, CreateSnapshot, DeleteBackup,
       LockBackup, UnlockBackup, ForceRelease, AddIp, RemoveIp, OnBackup,
         rowVars, proxmox
    <2>2. PICK next : /\ phase' = [phase EXCEPT ![r] = next]
                      /\ next \in {"picked", "ready", "queued"} /\ Op(r) = "create"
                           => phase[r] \in {"numbered", "ready", "queued", "cloned", "executed"}
                      /\ next \in {"picked"} => phase[r] = "numbered"
                      /\ next \notin {"new", "numbered", "cloned", "executed"}
      BY <1>5 DEF Silent, PickIp, CreateBackup, EvictOldest, CreateSnapshot, DeleteBackup,
       LockBackup, UnlockBackup, ForceRelease, AddIp, RemoveIp, OnBackup,
         Goto, StagesOK
    <2>3. Unborn' /\ Numbered' /\ Cloned'
      BY <2>1, <2>2 DEF Unborn, Numbered, Cloned
    <2>4. Running' /\ TagsAreOurs' /\ ForeignUntouched'
      BY <2>1 DEF Running, TagsAreOurs, ForeignUntouched
    <2> QED
      BY <2>3, <2>4
  <1>6. CASE GetNextVmid(r)
    <2>1. Unborn'
      BY <1>6 DEF GetNextVmid, Unborn, Goto, rowVars, proxmox
    <2>2. Numbered'
      BY <1>6 DEF GetNextVmid, Numbered, Goto, rowVars, proxmox
    <2>3. Cloned'
      BY <1>6 DEF GetNextVmid, Cloned, Goto, rowVars, proxmox
    <2>4. Running'
      BY <1>6 DEF GetNextVmid, Running, Unborn, Goto, rowVars, proxmox
    <2>5. TagsAreOurs'
      BY <1>6 DEF GetNextVmid, TagsAreOurs, Goto, rowVars, proxmox
    <2>6. ForeignUntouched'
      BY <1>6 DEF GetNextVmid, ForeignUntouched, Goto, rowVars, proxmox
    <2> QED
      BY <2>1, <2>2, <2>3, <2>4, <2>5, <2>6
  <1>7. CASE CreateVm(r)
    <2>1. Unborn'
      BY <1>7 DEF CreateVm, Unborn, StagesOK, Goto, rowVars, proxmox, SetStatus
    <2>2. Numbered'
      BY <1>7 DEF CreateVm, Numbered, StagesOK, Goto, rowVars, proxmox, SetStatus
    <2>3. Cloned'
      BY <1>7 DEF CreateVm, Cloned, Goto, rowVars, proxmox, SetStatus
    <2>4. Running'
      BY <1>7 DEF CreateVm, Running, Goto, rowVars, proxmox, SetStatus
    <2>5. TagsAreOurs'
      BY <1>7 DEF CreateVm, TagsAreOurs, Goto, rowVars, proxmox, SetStatus
    <2>6. ForeignUntouched'
      BY <1>7 DEF CreateVm, ForeignUntouched, Goto, rowVars, proxmox, SetStatus
    <2> QED
      BY <2>1, <2>2, <2>3, <2>4, <2>5, <2>6
  <1>8. CASE RefuseCreate(r)
    <2>1. Unborn'
      BY <1>8 DEF RefuseCreate, Unborn, Goto, rowVars, proxmox
    <2>2. Numbered'
      BY <1>8 DEF RefuseCreate, Numbered, Goto, rowVars, proxmox
    <2>3. Cloned'
      BY <1>8 DEF RefuseCreate, Cloned, Goto, rowVars, proxmox
    <2>4. Running'
      BY <1>8 DEF RefuseCreate, Running, Unborn, Goto, rowVars, proxmox
    <2>5. TagsAreOurs'
      BY <1>8 DEF RefuseCreate, TagsAreOurs, Goto, rowVars, proxmox
    <2>6. ForeignUntouched'
      BY <1>8 DEF RefuseCreate, ForeignUntouched, Goto, rowVars, proxmox
    <2> QED
      BY <2>1, <2>2, <2>3, <2>4, <2>5, <2>6
  <1>9. CASE Reinstall(r)
    <2>1. Unborn'
      BY <1>9 DEF Reinstall, Unborn, Goto, rowVars, proxmox, SetStatus, Allowed
    <2>2. Numbered'
      BY <1>9 DEF Reinstall, Numbered, Goto, rowVars, proxmox, SetStatus, Allowed
    <2>3. Cloned'
      BY <1>9 DEF Reinstall, Cloned, Goto, rowVars, proxmox, SetStatus, Allowed
    <2>4. Running'
      BY <1>9 DEF Reinstall, Running, Goto, rowVars, proxmox, SetStatus, Allowed
    <2>5. TagsAreOurs'
      BY <1>9 DEF Reinstall, TagsAreOurs, Goto, rowVars, proxmox, SetStatus, Allowed
    <2>6. ForeignUntouched'
      BY <1>9 DEF Reinstall, ForeignUntouched, Goto, rowVars, proxmox, SetStatus, Allowed
    <2> QED
      BY <2>1, <2>2, <2>3, <2>4, <2>5, <2>6
  <1>10. CASE Clone(r)
    <2>1. Unborn'
      BY <1>10 DEF Clone, Unborn, Goto, rowVars, proxmox, Works
    <2>2. Numbered'
      BY <1>10 DEF Clone, Numbered, Goto, rowVars, proxmox, Works
    <2>3. Cloned'
      BY <1>10 DEF Clone, Cloned, Numbered, Goto, rowVars, proxmox, Works
    <2>4. Running'
      BY <1>10 DEF Clone, Running, Goto, rowVars, proxmox, Works
    <2>5. TagsAreOurs'
      BY <1>10 DEF Clone, TagsAreOurs, Goto, rowVars, proxmox, Works
    <2>6. ForeignUntouched'
      BY <1>10 DEF Clone, ForeignUntouched, Goto, rowVars, proxmox, Works
    <2> QED
      BY <2>1, <2>2, <2>3, <2>4, <2>5, <2>6
  <1>11. CASE Tag(r)
    <2>1. Unborn'
      BY <1>11 DEF Tag, Unborn, Goto, rowVars, proxmox
    <2>2. Numbered'
      BY <1>11 DEF Tag, Numbered, Goto, rowVars, proxmox
    <2>3. Cloned'
      BY <1>11 DEF Tag, Cloned, Goto, rowVars, proxmox
    <2>4. Running'
      BY <1>11 DEF Tag, Running, Goto, rowVars, proxmox
    <2>5. TagsAreOurs'
      BY <1>11 DEF Tag, TagsAreOurs, StagesOK, Cloned, Goto, rowVars, proxmox
    <2>6. ForeignUntouched'
      BY <1>11 DEF Tag, ForeignUntouched, Goto, rowVars, proxmox
    <2> QED
      BY <2>1, <2>2, <2>3, <2>4, <2>5, <2>6
  <1>12. CASE Execute(r)
    <2>1. Unborn'
      BY <1>12 DEF Execute, Unborn, Goto, rowVars, proxmox
    <2>2. Numbered'
      BY <1>12 DEF Execute, Numbered, Goto, rowVars, proxmox
    <2>3. Cloned'
      BY <1>12 DEF Execute, Cloned, Goto, rowVars, proxmox
    <2>4. Running'
      BY <1>12 DEF Execute, Running, Goto, rowVars, proxmox
    <2>5. TagsAreOurs'
      BY <1>12 DEF Execute, TagsAreOurs, Goto, rowVars, proxmox
    <2>6. ForeignUntouched'
      BY <1>12 DEF Execute, ForeignUntouched, TagsAreOurs, Works, Goto, rowVars, proxmox
    <2> QED
      BY <2>1, <2>2, <2>3, <2>4, <2>5, <2>6
  <1>13. CASE FailJob(r)
    <2>1. Unborn'
      BY <1>13 DEF FailJob, Unborn, Goto, rowVars, proxmox, SetStatus
    <2>2. Numbered'
      BY <1>13 DEF FailJob, Numbered, StagesOK, Goto, rowVars, proxmox, SetStatus
    <2>3. Cloned'
      BY <1>13 DEF FailJob, Cloned, Goto, rowVars, proxmox, SetStatus
    <2>4. Running'
      BY <1>13 DEF FailJob, Running, Goto, rowVars, proxmox, SetStatus
    <2>5. TagsAreOurs'
      BY <1>13 DEF FailJob, TagsAreOurs, Goto, rowVars, proxmox, SetStatus
    <2>6. ForeignUntouched'
      BY <1>13 DEF FailJob, ForeignUntouched, Goto, rowVars, proxmox, SetStatus
    <2> QED
      BY <2>1, <2>2, <2>3, <2>4, <2>5, <2>6
  <1>14. CASE Apply(r)
    <2>1. Unborn'
      BY <1>14 DEF Apply, Unborn, Goto, rowVars, proxmox, SetStatus, Outcome
    <2>2. Numbered'
      BY <1>14 DEF Apply, Numbered, Goto, rowVars, proxmox, SetStatus, Outcome
    <2>3. Cloned'
      BY <1>14 DEF Apply, Cloned, Goto, rowVars, proxmox, SetStatus, Outcome
    <2>4. Running'
      BY <1>14 DEF Apply, Running, Cloned, Numbered, Goto, rowVars, proxmox, SetStatus, Outcome
    <2>5. TagsAreOurs'
      BY <1>14 DEF Apply, TagsAreOurs, Goto, rowVars, proxmox, SetStatus, Outcome
    <2>6. ForeignUntouched'
      BY <1>14 DEF Apply, ForeignUntouched, Goto, rowVars, proxmox, SetStatus, Outcome
    <2> QED
      BY <2>1, <2>2, <2>3, <2>4, <2>5, <2>6
  <1>15. CASE ForceStop(r)
    <2>1. Unborn'
      BY <1>15 DEF ForceStop, Unborn, Goto, rowVars, proxmox, SetStatus
    <2>2. Numbered'
      BY <1>15 DEF ForceStop, Numbered, Goto, rowVars, proxmox, SetStatus
    <2>3. Cloned'
      BY <1>15 DEF ForceStop, Cloned, Goto, rowVars, proxmox, SetStatus
    <2>4. Running'
      BY <1>15 DEF ForceStop, Running, Goto, rowVars, proxmox, SetStatus
    <2>5. TagsAreOurs'
      BY <1>15 DEF ForceStop, TagsAreOurs, Goto, rowVars, proxmox, SetStatus
    <2>6. ForeignUntouched'
      BY <1>15 DEF ForceStop, ForeignUntouched, Goto, rowVars, proxmox, SetStatus
    <2> QED
      BY <2>1, <2>2, <2>3, <2>4, <2>5, <2>6
  <1>16. CASE ForceDelete(r)
    <2>1. Unborn'
      BY <1>16 DEF ForceDelete, Unborn, Goto, rowVars, proxmox, SetStatus
    <2>2. Numbered'
      BY <1>16 DEF ForceDelete, Numbered, Goto, rowVars, proxmox, SetStatus
    <2>3. Cloned'
      BY <1>16 DEF ForceDelete, Cloned, Goto, rowVars, proxmox, SetStatus
    <2>4. Running'
      BY <1>16 DEF ForceDelete, Running, Goto, rowVars, proxmox, SetStatus
    <2>5. TagsAreOurs'
      BY <1>16 DEF ForceDelete, TagsAreOurs, Goto, rowVars, proxmox, SetStatus
    <2>6. ForeignUntouched'
      BY <1>16 DEF ForceDelete, ForeignUntouched, Goto, rowVars, proxmox, SetStatus
    <2> QED
      BY <2>1, <2>2, <2>3, <2>4, <2>5, <2>6
  <1> QED
    BY <1>5, <1>6, <1>7, <1>8, <1>9, <1>10, <1>11, <1>12, <1>13, <1>14, <1>15, <1>16 DEF Changes


\* A step of a request keeps the link between the backup rows and the archives.
LEMMA BackupsStep ==
    ASSUME VmInv, NEW r \in Requests, Silent(r) \/ Changes(r)
    PROVE  BackupsOK'
  <1>1. /\ backup \in [Backups -> {"none", "pending", "completed", "failed"}]
        /\ phase \in [Requests -> {"new", "numbered", "picked", "made", "ready", "queued", "cloned",
                               "executed", "released", "found", "done", "failed"}]
    BY DEF VmInv, TypeOK
  <1>2. \A q \in Requests : Item(q)' = Item(q) /\ Op(q)' = Op(q)
    BY CallKept DEF Item, Op
  <1>3. Op(r) = "backup" => Item(r) \in Backups
    BY CallFacts DEF VmInv, OnBackups
  <1>4. StagesOK /\ Written /\ CompletedHasArchive
    BY DEF VmInv, BackupsOK
  <1> USE <1>1, <1>2, <1>4 DEF BackupsOK, Written, CompletedHasArchive
  <1>5. CASE Silent(r)
    BY <1>5 DEF Silent, backupVars, proxmox
  <1>6. CASE GetNextVmid(r)
    BY <1>6 DEF GetNextVmid, Goto, backupVars, proxmox
  <1>7. CASE PickIp(r)
    BY <1>7 DEF PickIp, Goto, backupVars, proxmox
  <1>8. CASE CreateVm(r)
    BY <1>8 DEF CreateVm, Goto, backupVars, proxmox
  <1>9. CASE RefuseCreate(r)
    BY <1>9 DEF RefuseCreate, Goto, backupVars, proxmox
  <1>10. CASE Reinstall(r)
    BY <1>10 DEF Reinstall, Goto, backupVars, proxmox
  <1>11. CASE CreateBackup(r)
    BY <1>3, <1>11 DEF CreateBackup, Goto, backupVars, proxmox
  <1>12. CASE EvictOldest(r)
    BY <1>12 DEF EvictOldest, Goto, backupVars, proxmox
  <1>13. CASE CreateSnapshot(r)
    BY <1>13 DEF CreateSnapshot, Goto, backupVars, proxmox
  <1>14. CASE Clone(r)
    BY <1>14 DEF Clone, Goto, backupVars, proxmox
  <1>15. CASE Tag(r)
    BY <1>15 DEF Tag, StagesOK, Goto, backupVars, proxmox
  <1>16. CASE Execute(r)
    BY <1>3, <1>16 DEF Execute, Goto, backupVars, proxmox
  <1>17. CASE FailJob(r)
    BY <1>17 DEF FailJob, Goto, backupVars, proxmox
  <1>18. CASE Apply(r)
    BY <1>3, <1>18 DEF Apply, Goto, backupVars, proxmox
  <1>19. CASE DeleteBackup(r)
    BY <1>19 DEF DeleteBackup, OnBackup, Goto, backupVars, proxmox
  <1>20. CASE LockBackup(r)
    BY <1>20 DEF LockBackup, OnBackup, Goto, backupVars, proxmox
  <1>21. CASE UnlockBackup(r)
    BY <1>21 DEF UnlockBackup, OnBackup, Goto, backupVars, proxmox
  <1>22. CASE ForceStop(r)
    BY <1>22 DEF ForceStop, Goto, backupVars, proxmox
  <1>23. CASE ForceRelease(r)
    BY <1>23 DEF ForceRelease, Goto, backupVars, proxmox
  <1>24. CASE ForceDelete(r)
    BY <1>24 DEF ForceDelete, Goto, backupVars, proxmox
  <1>25. CASE AddIp(r)
    BY <1>25 DEF AddIp, Goto, backupVars, proxmox
  <1>26. CASE RemoveIp(r)
    BY <1>26 DEF RemoveIp, Goto, backupVars, proxmox
  <1> QED
    BY <1>5, <1>6, <1>7, <1>8, <1>9, <1>10, <1>11, <1>12, <1>13, <1>14, <1>15, <1>16, <1>17,
       <1>18, <1>19, <1>20, <1>21, <1>22, <1>23, <1>24, <1>25, <1>26 DEF Changes

\* A step of a request keeps what the locks of the pools are for.
LEMMA AddressesStep ==
    ASSUME VmInv, NEW r \in Requests, Silent(r) \/ Changes(r)
    PROVE  AddressesOK'
  <1>1. /\ addr \in [Ips -> Vms \cup {None}] /\ ip \in [Requests -> Ips \cup {None}]
        /\ phase \in [Requests -> {"new", "numbered", "picked", "made", "ready", "queued", "cloned",
                               "executed", "released", "found", "done", "failed"}]
        /\ addresses \subseteq Ips
    BY DEF VmInv, TypeOK
  <1>2. /\ None \notin Ips /\ None \notin Vms
        /\ \A q \in Requests : V(q) \in Vms /\ V(q)' = V(q)
    BY CallKept, CallFacts, VmAssumption DEF VmInv, V
  <1>3. LockHeld /\ PickedFree
    BY DEF VmInv, AddressesOK
  <1> USE <1>1, <1>2, <1>3 DEF AddressesOK, LockHeld, PickedFree
  <1>4. CASE Silent(r)
    BY <1>4 DEF Silent, ipVars
  <1>5. CASE GetNextVmid(r)
    BY <1>5 DEF GetNextVmid, Goto, ipVars
  <1>6. CASE PickIp(r)
    BY <1>6 DEF PickIp, Picking, Goto, ipVars
  <1>7. CASE CreateVm(r)
    BY <1>7 DEF CreateVm, Goto, ipVars
  <1>8. CASE RefuseCreate(r)
    BY <1>8 DEF RefuseCreate, Goto, ipVars
  <1>9. CASE Reinstall(r)
    BY <1>9 DEF Reinstall, Goto, ipVars
  <1>10. CASE CreateBackup(r)
    BY <1>10 DEF CreateBackup, Goto, ipVars
  <1>11. CASE EvictOldest(r)
    BY <1>11 DEF EvictOldest, Goto, ipVars
  <1>12. CASE CreateSnapshot(r)
    BY <1>12 DEF CreateSnapshot, Goto, ipVars
  <1>13. CASE Clone(r)
    BY <1>13 DEF Clone, Goto, ipVars
  <1>14. CASE Tag(r)
    BY <1>14 DEF Tag, Goto, ipVars
  <1>15. CASE Execute(r)
    BY <1>15 DEF Execute, Goto, ipVars
  <1>16. CASE FailJob(r)
    BY <1>16 DEF FailJob, Goto, ipVars
  <1>17. CASE Apply(r)
    BY <1>17 DEF Apply, Goto, ipVars
  <1>18. CASE DeleteBackup(r)
    BY <1>18 DEF DeleteBackup, OnBackup, Goto, ipVars
  <1>19. CASE LockBackup(r)
    BY <1>19 DEF LockBackup, OnBackup, Goto, ipVars
  <1>20. CASE UnlockBackup(r)
    BY <1>20 DEF UnlockBackup, OnBackup, Goto, ipVars
  <1>21. CASE ForceStop(r)
    BY <1>21 DEF ForceStop, Goto, ipVars
  <1>22. CASE ForceRelease(r)
    BY <1>22 DEF ForceRelease, Goto, ipVars
  <1>23. CASE ForceDelete(r)
    BY <1>23 DEF ForceDelete, Goto, ipVars
  <1>24. CASE AddIp(r)
    BY <1>24 DEF AddIp, Goto, ipVars
  <1>25. CASE RemoveIp(r)
    BY <1>25 DEF RemoveIp, Goto, ipVars
  <1> QED
    BY <1>4, <1>5, <1>6, <1>7, <1>8, <1>9, <1>10, <1>11, <1>12, <1>13, <1>14, <1>15, <1>16,
       <1>17, <1>18, <1>19, <1>20, <1>21, <1>22, <1>23, <1>24, <1>25 DEF Changes

\* A machine made by hand, like a step of nobody, takes nothing from a VM.
LEMMA ByHandStep ==
    ASSUME VmInv, \/ \E n \in Ids : CreateByHand(n)
                  \/ UNCHANGED vars
    PROVE  VmInv'
  <1>1. UNCHANGED <<rowVars, ipVars, backupVars, snapshot, tagged, archives, meddled,
                    call, phase, ip>>
    BY DEF CreateByHand, vars, rowVars, ipVars, backupVars, proxmox
  <1>2. /\ owner' \in [Ids -> Vms \cup {Foreign, None}] /\ faults' \in Nat
        /\ \A n \in Ids : owner[n] # None => owner'[n] = owner[n]
    BY DEF CreateByHand, vars, proxmox, VmInv, TypeOK, Fault
  <1>3. None \notin Vms /\ \A r \in Requests : V(r) \in Vms
    BY CallFacts, VmAssumption DEF VmInv
  <1>4. TypeOK' /\ CallsOK' /\ StagesOK' /\ BackupsOK' /\ AddressesOK'
    BY <1>1, <1>2 DEF VmInv, TypeOK, CallsOK, StagesOK, BackupsOK, Written, CompletedHasArchive,
       AddressesOK, LockHeld, PickedFree, rowVars, ipVars, backupVars, Op, V, Item
  <1>5. MachinesOK'
    BY <1>1, <1>2, <1>3 DEF VmInv, TypeOK, MachinesOK, Unborn, Numbered, Cloned, Running,
       TagsAreOurs,
       ForeignUntouched, Creating, Machine, Op, V, rowVars
  <1> QED
    BY <1>4, <1>5 DEF VmInv

\* The invariant is inductive.
LEMMA InvStep == ASSUME VmInv, [Next]_vars PROVE VmInv'
  <1>1. CASE \E r \in Requests : Begin(r) \/ Work(r) \/ Write(r)
    <2>1. PICK r \in Requests : Begin(r) \/ Work(r) \/ Write(r)
      BY <1>1
    <2>2. Silent(r) \/ Changes(r)
      BY <2>1, StepCases DEF VmInv
    <2> QED
      BY <2>2, TypeStep, StagesStep, MachinesStep, BackupsStep, AddressesStep DEF VmInv
  <1> QED
    BY <1>1, ByHandStep DEF Next

\* The invariant holds in every reachable state.
LEMMA Invariance == Spec => []VmInv
  <1> QED
    BY InitInv, InvStep, PTL DEF Spec

-----------------------------------------------------------------------------
(***************************************************************************)
(* What follows from it.                                                   *)
(***************************************************************************)
\* The rows, the machines in Proxmox, the requests and the picked addresses
\* always hold values of their types.
THEOREM TypeCorrect == Spec => []TypeOK
  <1>1. VmInv => TypeOK
    BY DEF VmInv
  <1> QED
    BY <1>1, Invariance, PTL

\* A VM that is said to run owns the machine its row names, although two
\* creations may be given the same vmid before either has cloned.
THEOREM RunningVmsOwnTheirMachines == Spec => []RunningOwnsMachine
  <1>1. VmInv => RunningOwnsMachine
    BY DEF VmInv, MachinesOK, Running, RunningOwnsMachine
  <1> QED
    BY <1>1, Invariance, PTL

\* Only the jobs of the firewall can change a machine that was made by hand.
THEOREM ForeignMachinesAreLeftAlone == Spec => []ForeignUntouched
  <1>1. VmInv => ForeignUntouched
    BY DEF VmInv, MachinesOK
  <1> QED
    BY <1>1, Invariance, PTL

\* A completed backup has its archive, whatever else was done to its row and
\* however often its job ran.
THEOREM CompletedBackupsExist == Spec => []CompletedHasArchive
  <1>1. VmInv => CompletedHasArchive
    BY DEF VmInv, BackupsOK
  <1> QED
    BY <1>1, Invariance, PTL

\* An address goes from one VM to another only between pools: the creation that
\* takes it had picked it when it was free, and held its pool's lock since.
THEOREM AddressesStayInTheirPool == Spec => AddressKept
  <1> DEFINE Kept == \A i \in Ips, v, w \in Vms :
                       addr[i] = v /\ addr'[i] = w /\ v # w => PoolOf[v] # PoolOf[w]
  <1>1. ASSUME VmInv, [Next]_vars PROVE Kept
    <2>1. CASE \E r \in Requests : Begin(r) \/ Work(r) \/ Write(r)
      <3>1. PICK r \in Requests : Begin(r) \/ Work(r) \/ Write(r)
        BY <2>1
      <3>2. Silent(r) \/ Changes(r)
        BY <1>1, <3>1, StepCases DEF VmInv
      <3>3. /\ addr \in [Ips -> Vms \cup {None}] /\ PickedFree /\ None \notin Vms /\ None \notin Ips
            /\ addresses \subseteq Ips
        BY <1>1, VmAssumption DEF VmInv, TypeOK, AddressesOK
      <3>4. CASE CreateVm(r)
        BY <3>3, <3>4 DEF CreateVm, PickedFree
      <3>5. CASE RemoveIp(r) \/ ForceDelete(r)
        BY <3>3, <3>5 DEF RemoveIp, ForceDelete
      <3>6. CASE ~(CreateVm(r) \/ RemoveIp(r) \/ ForceDelete(r))
        <4>1. UNCHANGED addr
          BY <3>2, <3>6 DEF Silent, Changes, ipVars, OnBackup, GetNextVmid, PickIp,
       RefuseCreate, Reinstall, CreateBackup, EvictOldest, CreateSnapshot, Clone, Tag,
       Execute, FailJob, Apply, DeleteBackup, LockBackup, UnlockBackup, ForceStop,
       ForceRelease, AddIp
        <4> QED
          BY <4>1
      <3> QED
        BY <3>4, <3>5, <3>6
    <2>2. CASE (\E n \in Ids : CreateByHand(n)) \/ UNCHANGED vars
      BY <2>2 DEF CreateByHand, vars, ipVars
    <2> QED
      BY <1>1, <2>1, <2>2 DEF Next
  <1>2. Kept => [Kept]_vars
    OBVIOUS
  <1> QED
    BY <1>1, Invariance, PTL DEF Spec, AddressKept

=============================================================================
