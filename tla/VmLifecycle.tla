---------------------------- MODULE VmLifecycle ----------------------------
(***************************************************************************)
(* VmService, the VM operations of AdminService, IpPoolService and the     *)
(* effects of their jobs in ProxmoxJobConsumer: VM rows, addresses,        *)
(* backups and snapshots in PostgreSQL beside the machines in Proxmox.     *)
(*                                                                         *)
(* Each request makes one call; a call that queues a job goes on as that   *)
(* job.  Workers take jobs in any order.  Keys, attempts and refunds are   *)
(* in ProxmoxJobs, the amounts of a pool in ResourcePool.                  *)
(***************************************************************************)
EXTENDS Integers, Sequences, FiniteSets

CONSTANTS Vms, Backups, Snapshots, Ips,
          Ids,          \* the vmids of Proxmox
          PoolOf,       \* the pool that each VM is created in
          Old,          \* the VMs that run at the start
          OldBackups,   \* their completed backups
          VmOf,         \* the VM of each backup and snapshot
          BackupLimit,
          Requests,
          CallsOf,      \* what each request may ask for
          MaxFaults,    \* bound of the exploration
          Foreign,      \* made in Proxmox by hand
          None

Items == Backups \cup Snapshots \cup Ips

Powers == {"start", "stop", "shutdown", "restart"}
Rows == {"backup", "snapshot"}     \* calls that create a row of their own
Queueing == Powers \cup Rows \cup
    {"create", "delete", "resize", "reinstall", "iso", "restore", "deleteSnapshot",
     "rollback", "hardware", "network", "migrate", "firewall"}
Writing == {"deleteBackup", "lock", "unlock", "forceStop", "forceDelete", "addIp", "removeIp"}

OnBackups == {"backup", "restore", "deleteBackup", "lock", "unlock"}
OnSnapshots == {"snapshot", "deleteSnapshot", "rollback"}
OnIps == {"addIp", "removeIp"}

ASSUME VmAssumption ==
    /\ Ids \subseteq Nat /\ BackupLimit \in Nat
    /\ Old \subseteq Vms /\ OldBackups \subseteq Backups /\ IsFiniteSet(OldBackups)
    /\ {None, Foreign} \cap Vms = {} /\ None # Foreign /\ None \notin Ids \cup Ips
    /\ CallsOf \in [Requests -> SUBSET [op : Queueing \cup Writing, vm : Vms, item : Items \cup {None}]]
    /\ \A r, q \in Requests : \A c \in CallsOf[r], d \in CallsOf[q] :
         /\ c.op = "create" => c.vm \notin Old
         /\ c.op \in OnBackups => c.item \in Backups
         /\ c.op \in OnSnapshots => c.item \in Snapshots
         /\ c.op \in OnIps => c.item \in Ips
         /\ c.item \in DOMAIN VmOf => c.vm = VmOf[c.item]
         /\ r # q /\ c.op = d.op /\ c.op \in Rows => c.item # d.item
         /\ r # q /\ c.op = "create" /\ d.op = "create" => c.vm # d.vm

Calls == UNION {CallsOf[r] : r \in Requests}

VARIABLES
    status, vmid,       \* of the Vm rows
    allocated,          \* the VMs with a ResourceAllocation
    addresses,          \* the IpAddress rows
    addr, assigned,     \* their vmId and isAssigned
    backup, locked,     \* status and isLocked of the Backup rows
    order,              \* the backups as createdAt orders them
    snapshot,           \* status of the Snapshot rows
    owner, tagged,      \* Proxmox: who cloned each machine, which have our tag
    archives,           \* Proxmox: the backups that were written
    meddled,            \* history: jobs that changed a foreign machine
    call, phase,        \* requests
    ip,                 \* the address that a creation has picked
    faults

rowVars == <<status, vmid, allocated>>
ipVars == <<addresses, addr, assigned>>
backupVars == <<backup, locked, order>>
proxmox == <<owner, tagged, archives, meddled>>
vars == <<rowVars, ipVars, backupVars, snapshot, proxmox, call, phase, ip, faults>>

VmStatuses == {"provisioning", "running", "stopped", "suspended", "error",
               "scheduled_deletion", "deleted"}

Init ==
    /\ status = [v \in Vms |-> IF v \in Old THEN "running" ELSE "absent"]
    /\ vmid \in [Vms -> Ids \cup {None}]
    /\ \A v \in Vms : vmid[v] = None <=> v \notin Old
    /\ \A u, v \in Old : u # v => vmid[u] # vmid[v]
    /\ allocated = Old
    /\ addresses = Ips
    /\ addr = [i \in Ips |-> None] /\ assigned = {}
    /\ backup = [b \in Backups |-> IF b \in OldBackups THEN "completed" ELSE "none"]
    /\ locked = {}
    /\ order \in [1 .. Cardinality(OldBackups) -> OldBackups]
    /\ \A i, j \in DOMAIN order : i # j => order[i] # order[j]
    /\ snapshot = [s \in Snapshots |-> "none"]
    /\ owner = [n \in Ids |-> IF \E v \in Old : vmid[v] = n
                              THEN CHOOSE v \in Old : vmid[v] = n ELSE None]
    /\ tagged = {n \in Ids : owner[n] # None}
    /\ archives = OldBackups /\ meddled = {}
    /\ call \in [Requests -> Calls]
    /\ \A r \in Requests : call[r] \in CallsOf[r]
    /\ phase = [r \in Requests |-> "new"]
    /\ ip = [r \in Requests |-> None]
    /\ faults = 0

V(r) == call[r].vm
Item(r) == call[r].item
Op(r) == call[r].op
Machine(r) == vmid[V(r)]

Goto(r, next) == phase' = [phase EXCEPT ![r] = next] /\ UNCHANGED call
Fault == faults < MaxFaults /\ faults' = faults + 1
NoFault == UNCHANGED faults
SetStatus(v, new) == status' = [status EXCEPT ![v] = new]

(***************************************************************************)
(* createVm and adminCreateVm: the next vmid of Proxmox, one transaction   *)
(* for the row, the allocation under the pool's lock and an address that   *)
(* is looked up without a lock, then the job.                              *)
(***************************************************************************)
GetNextVmid(r) ==
    /\ phase[r] = "new" /\ Op(r) = "create"
    /\ \E n \in Ids :
         /\ owner[n] = None /\ \A m \in Ids : owner[m] = None => n <= m
         /\ vmid' = [vmid EXCEPT ![V(r)] = n]
    /\ Goto(r, "numbered")
    /\ UNCHANGED <<status, allocated, ipVars, backupVars, snapshot, proxmox, ip, faults>>

Picking(p) == \E q \in Requests : phase[q] = "picked" /\ PoolOf[V(q)] = p

\* Mutant: the pool's row is not locked.
PickIpUnlocked(r) ==
    /\ phase[r] = "numbered"
    /\ LET free == {i \in addresses : i \notin assigned /\ addr[i] = None}
       IN  ip' \in {[ip EXCEPT ![r] = i] : i \in IF free = {} THEN {None} ELSE free}
    /\ Goto(r, "picked")
    /\ UNCHANGED <<rowVars, ipVars, backupVars, snapshot, proxmox, faults>>

\* The lock of the pool is held from here to the end of the transaction.
PickIp(r) ==
    /\ phase[r] = "numbered" /\ ~Picking(PoolOf[V(r)])
    /\ LET free == {i \in addresses : i \notin assigned /\ addr[i] = None}
       IN  ip' \in {[ip EXCEPT ![r] = i] : i \in IF free = {} THEN {None} ELSE free}
    /\ Goto(r, "picked")
    /\ UNCHANGED <<rowVars, ipVars, backupVars, snapshot, proxmox, faults>>

\* The update of an address does not look at who has it by now; it fails, and
\* the transaction with it, when the row is gone.
CreateVm(r) ==
    /\ phase[r] = "picked" /\ ip[r] \in addresses \cup {None}
    /\ SetStatus(V(r), "provisioning")
    /\ allocated' = allocated \cup {V(r)}
    /\ addr' = [i \in Ips |-> IF i = ip[r] THEN V(r) ELSE addr[i]]
    /\ assigned' = assigned \cup ({ip[r]} \ {None})
    /\ Goto(r, "ready")
    /\ UNCHANGED <<vmid, addresses, backupVars, snapshot, proxmox, ip, faults>>

\* The account is suspended, has no active subscription or not the balance, the
\* pool has no room, the address is gone, or the transaction fails.
RefuseCreate(r) ==
    /\ Op(r) = "create" /\ phase[r] \in {"new", "numbered", "picked"}
    /\ Goto(r, "failed")
    /\ vmid' = [vmid EXCEPT ![V(r)] = None]
    /\ UNCHANGED <<status, allocated, ipVars, backupVars, snapshot, proxmox, ip, faults>>

(***************************************************************************)
(* The other calls that queue a job.  The status may change between the    *)
(* check and the job: nothing looks at it again.                           *)
(***************************************************************************)
Allowed(r) ==
    LET now == status[V(r)] IN
    /\ now # "absent"
    /\ Op(r) = "start" => now = "stopped"
    /\ Op(r) \in {"stop", "shutdown", "restart"} => now = "running"
    /\ Op(r) = "delete" => now # "provisioning"
    /\ Op(r) \in {"iso", "hardware", "network"} => now = "stopped"
    /\ Op(r) = "restore" => backup[Item(r)] = "completed"
    /\ Op(r) \in {"deleteSnapshot", "rollback"} => snapshot[Item(r)] = "created"

Refuse(r) ==
    /\ phase[r] = "new" /\ Op(r) \in Queueing \ {"create"} /\ ~Allowed(r)
    /\ Goto(r, "failed")
    /\ UNCHANGED <<rowVars, ipVars, backupVars, snapshot, proxmox, ip, faults>>

\* What the calls that write nothing themselves have in common.
Ask(r, ops) ==
    /\ phase[r] = "new" /\ Op(r) \in ops /\ Allowed(r)
    /\ Goto(r, "ready")
    /\ UNCHANGED <<rowVars, ipVars, backupVars, snapshot, proxmox, ip, faults>>

PerformAction(r) == Ask(r, Powers)
DeleteVm(r) == Ask(r, {"delete"})
\* Its check of the pool is made again by the job, and is in ResourcePool.
ResizeVm(r) == Ask(r, {"resize"})
ChangeIso(r) == Ask(r, {"iso"})
RestoreBackup(r) == Ask(r, {"restore"})
DeleteSnapshot(r) == Ask(r, {"deleteSnapshot"})
RollbackSnapshot(r) == Ask(r, {"rollback"})
ChangeFirewall(r) == Ask(r, {"firewall"})
MigrateVm(r) == Ask(r, {"migrate"})
UpdateHardwareConfig(r) == Ask(r, {"hardware"})
ChangeNetwork(r) == Ask(r, {"network"})

Reinstall(r) ==
    /\ phase[r] = "new" /\ Op(r) = "reinstall" /\ Allowed(r)
    /\ SetStatus(V(r), "provisioning")
    /\ Goto(r, "ready")
    /\ UNCHANGED <<vmid, allocated, ipVars, backupVars, snapshot, proxmox, ip, faults>>

\* An administrator's calls queue the same jobs and look at less: adminResizeVm
\* and the reinstallation have neither an owner nor a status to check.
AdminResizeVm(r) == Ask(r, {"resize"})
AdminMigrateVm(r) == Ask(r, {"migrate"})
AddVmFirewall(r) == Ask(r, {"firewall"})
DeleteVmFirewall(r) == Ask(r, {"firewall"})
AdminReinstallVm(r) == Reinstall(r)

\* Mutant: the row is created as completed.
CreateBackupDone(r) ==
    /\ phase[r] = "new" /\ Op(r) = "backup" /\ Allowed(r)
    /\ backup' = [backup EXCEPT ![Item(r)] = "completed"]
    /\ order' = Append(order, Item(r))
    /\ Goto(r, "made")
    /\ UNCHANGED <<rowVars, ipVars, locked, snapshot, proxmox, ip, faults>>

\* The row first; then the oldest completed backup that is not locked makes room.
CreateBackup(r) ==
    /\ phase[r] = "new" /\ Op(r) = "backup" /\ Allowed(r)
    /\ backup' = [backup EXCEPT ![Item(r)] = "pending"]
    /\ order' = Append(order, Item(r))
    /\ Goto(r, "made")
    /\ UNCHANGED <<rowVars, ipVars, locked, snapshot, proxmox, ip, faults>>

Completed(v) == {b \in DOMAIN VmOf \cap Backups : VmOf[b] = v /\ backup[b] = "completed"}
Place(b) == CHOOSE i \in DOMAIN order : order[i] = b

EvictOldest(r) ==
    /\ phase[r] = "made"
    /\ LET existing == Completed(V(r))
           oldest == {b \in existing \ locked :
                        \A c \in existing \ locked : Place(b) <= Place(c)}
       IN  backup' = [b \in Backups |->
                        IF Cardinality(existing) >= BackupLimit /\ b \in oldest
                        THEN "failed" ELSE backup[b]]
    /\ Goto(r, "ready")
    /\ UNCHANGED <<rowVars, ipVars, locked, order, snapshot, proxmox, ip, faults>>

CreateSnapshot(r) ==
    /\ phase[r] = "new" /\ Op(r) = "snapshot" /\ Allowed(r)
    /\ snapshot' = [snapshot EXCEPT ![Item(r)] = "pending"]
    /\ Goto(r, "ready")
    /\ UNCHANGED <<rowVars, ipVars, backupVars, proxmox, ip, faults>>

\* enqueueJob; when Redis refuses the job, what was written stays written.
Enqueue(r) ==
    /\ phase[r] = "ready"
    /\ \/ Goto(r, "queued") /\ NoFault
       \/ Goto(r, "failed") /\ Fault
    /\ UNCHANGED <<rowVars, ipVars, backupVars, snapshot, proxmox, ip>>

(***************************************************************************)
(* executeJob: what Proxmox does.  A clone is refused when the vmid is     *)
(* taken.  Every kind but create and the firewall rules asserts that the   *)
(* machine has the tag.  The payloads of the other kinds (power, delete,   *)
(* resize, reinstall, ISO) have a proxmoxId where executeJob reads a vmid, *)
(* so that these jobs fail; ProxmoxJobs has what they would do.            *)
(***************************************************************************)
Named == Rows \cup {"create", "restore", "deleteSnapshot", "rollback", "hardware", "network", "migrate",
                 "firewall"}

\* Mutant: a machine that exists is taken for a clone of an earlier attempt.
WorksAgain(r) == Op(r) \in Named /\ Machine(r) # None

\* Mutant: the tag is not asserted.
WorksUntagged(r) ==
    Op(r) \in Named /\ Machine(r) # None /\ (owner[Machine(r)] = None <=> Op(r) = "create")

Works(r) ==
    IF Op(r) = "create" THEN owner[Machine(r)] = None
    ELSE /\ Op(r) \in Named
         /\ Machine(r) # None
         /\ IF Op(r) = "firewall" THEN owner[Machine(r)] # None ELSE Machine(r) \in tagged

Clone(r) ==
    /\ phase[r] = "queued" /\ Op(r) = "create" /\ Works(r)
    /\ owner' = [owner EXCEPT ![Machine(r)] = V(r)]
    /\ Goto(r, "cloned")
    /\ UNCHANGED <<rowVars, ipVars, backupVars, snapshot, tagged, archives, meddled, ip, faults>>

\* Started, then tagged.
Tag(r) ==
    /\ phase[r] = "cloned"
    /\ tagged' = tagged \cup {Machine(r)}
    /\ Goto(r, "executed")
    /\ UNCHANGED <<rowVars, ipVars, backupVars, snapshot, owner, archives, meddled, ip, faults>>

Execute(r) ==
    /\ phase[r] = "queued" /\ Op(r) # "create" /\ Works(r)
    /\ LET n == Machine(r) IN
         /\ meddled' = IF owner[n] = Foreign THEN meddled \cup {Op(r)} ELSE meddled
         /\ archives' = IF Op(r) = "backup" THEN archives \cup {Item(r)} ELSE archives
    /\ Goto(r, "executed")
    /\ UNCHANGED <<rowVars, ipVars, backupVars, snapshot, owner, tagged, ip, faults>>

\* process's catch block; the job is tried again or is given up.
FailJob(r) ==
    /\ \/ phase[r] = "queued" /\ ~Works(r) /\ NoFault
       \/ phase[r] \in {"queued", "cloned"} /\ Fault
    /\ IF status[V(r)] = "absent" THEN UNCHANGED status ELSE SetStatus(V(r), "error")
    /\ \E next \in {"queued", "failed"} : Goto(r, next)
    /\ UNCHANGED <<vmid, allocated, ipVars, backupVars, snapshot, proxmox, ip>>

\* The worker dies: the job runs again, or is skipped when its key was already
\* completed.
WorkerDies(r) ==
    /\ Fault
    /\ \/ phase[r] \in {"cloned", "executed"} /\ Goto(r, "queued")
       \/ phase[r] = "executed" /\ Goto(r, "done")
    /\ UNCHANGED <<rowVars, ipVars, backupVars, snapshot, proxmox, ip>>

(***************************************************************************)
(* What process writes after the job: JOB_STATUS_MAP, and the rows.        *)
(***************************************************************************)
Outcome(op) ==
    CASE op = "create" -> "running"
      [] op \in {"rollback", "restore", "hardware", "network"} -> "stopped"
      [] OTHER -> None

\* The row of the VM, a backup or a snapshot; a missing VM row fails the job.
Apply(r) ==
    /\ phase[r] = "executed"
    /\ IF status[V(r)] # "absent" /\ Outcome(Op(r)) # None
       THEN SetStatus(V(r), Outcome(Op(r))) ELSE UNCHANGED status
    /\ backup' = IF Op(r) = "backup" THEN [backup EXCEPT ![Item(r)] = "completed"] ELSE backup
    /\ snapshot' = CASE Op(r) = "snapshot" -> [snapshot EXCEPT ![Item(r)] = "created"]
                     [] Op(r) = "deleteSnapshot" -> [snapshot EXCEPT ![Item(r)] = "none"]
                     [] OTHER -> snapshot
    /\ Goto(r, "done")
    /\ UNCHANGED <<vmid, allocated, ipVars, locked, order, proxmox, ip, faults>>

(***************************************************************************)
(* Calls that only write rows.                                             *)
(***************************************************************************)
OnBackup(r, what, ok) ==
    /\ phase[r] = "new" /\ Op(r) = what /\ ok /\ backup[Item(r)] # "none"
    /\ Goto(r, "done")
    /\ UNCHANGED <<rowVars, ipVars, order, snapshot, proxmox, ip, faults>>
DeleteBackup(r) ==
    /\ OnBackup(r, "deleteBackup", TRUE)
    /\ backup' = [backup EXCEPT ![Item(r)] = "failed"] /\ UNCHANGED locked
LockBackup(r) ==
    /\ OnBackup(r, "lock", Item(r) \notin locked)
    /\ locked' = locked \cup {Item(r)} /\ UNCHANGED backup
UnlockBackup(r) ==
    /\ OnBackup(r, "unlock", Item(r) \in locked)
    /\ locked' = locked \ {Item(r)} /\ UNCHANGED backup
\* It is not there, locked already or not locked.
RefuseBackup(r) ==
    /\ phase[r] = "new" /\ Op(r) \in {"deleteBackup", "lock", "unlock"}
    /\ \/ backup[Item(r)] = "none"
       \/ Op(r) = "lock" /\ Item(r) \in locked
       \/ Op(r) = "unlock" /\ Item(r) \notin locked
    /\ Goto(r, "failed")
    /\ UNCHANGED <<rowVars, ipVars, backupVars, snapshot, proxmox, ip, faults>>

\* Only the row stops.
ForceStop(r) ==
    /\ phase[r] = "new" /\ Op(r) = "forceStop" /\ status[V(r)] # "absent"
    /\ SetStatus(V(r), "stopped")
    /\ Goto(r, "done")
    /\ UNCHANGED <<vmid, allocated, ipVars, backupVars, snapshot, proxmox, ip, faults>>

ForceRelease(r) ==
    /\ phase[r] = "new" /\ Op(r) = "forceDelete" /\ status[V(r)] # "absent"
    /\ allocated' = allocated \ {V(r)}
    /\ Goto(r, "released")
    /\ UNCHANGED <<status, vmid, ipVars, backupVars, snapshot, proxmox, ip, faults>>

HasRows(v) ==
    \/ \E b \in Backups : VmOf[b] = v /\ backup[b] # "none"
    \/ \E s \in Snapshots : VmOf[s] = v /\ snapshot[s] # "none"
    \/ v \in allocated

\* Rows that refer to the VM keep PostgreSQL from deleting it; an address is
\* set to no VM, and stays assigned.
ForceDelete(r) ==
    /\ phase[r] = "released" /\ Op(r) = "forceDelete"
    /\ \/ /\ status[V(r)] # "absent" /\ ~HasRows(V(r)) /\ NoFault
          /\ SetStatus(V(r), "absent")
          /\ addr' = [i \in Ips |-> IF addr[i] = V(r) THEN None ELSE addr[i]]
          /\ Goto(r, "done")
       \/ /\ \/ (status[V(r)] = "absent" \/ HasRows(V(r))) /\ NoFault
             \/ Fault
          /\ Goto(r, "failed")
          /\ UNCHANGED <<status, addr>>
    /\ UNCHANGED <<vmid, allocated, addresses, assigned, backupVars, snapshot, proxmox, ip>>

AddIp(r) ==
    /\ phase[r] = "new" /\ Op(r) = "addIp"
    /\ addresses' = addresses \cup {Item(r)}
    /\ Goto(r, IF Item(r) \in addresses THEN "failed" ELSE "done")
    /\ UNCHANGED <<rowVars, addr, assigned, backupVars, snapshot, proxmox, ip, faults>>

CheckRemoveIp(r) ==
    /\ phase[r] = "new" /\ Op(r) = "removeIp"
    /\ Goto(r, IF Item(r) \in addresses \ assigned THEN "found" ELSE "failed")
    /\ UNCHANGED <<rowVars, ipVars, backupVars, snapshot, proxmox, ip, faults>>

RemoveIp(r) ==
    /\ phase[r] = "found"
    /\ addresses' = addresses \ {Item(r)}
    /\ addr' = [addr EXCEPT ![Item(r)] = None]
    /\ assigned' = assigned \ {Item(r)}
    /\ Goto(r, "done")
    /\ UNCHANGED <<rowVars, backupVars, snapshot, proxmox, ip, faults>>

\* Somebody creates a machine in Proxmox by hand.
CreateByHand(n) ==
    /\ owner[n] = None /\ Fault
    /\ owner' = [owner EXCEPT ![n] = Foreign]
    /\ UNCHANGED <<rowVars, ipVars, backupVars, snapshot, tagged, archives, meddled, call, phase, ip>>

Begin(r) ==
    GetNextVmid(r) \/ PickIp(r) \/ CreateVm(r) \/ RefuseCreate(r) \/ Refuse(r)
    \/ PerformAction(r) \/ DeleteVm(r) \/ ResizeVm(r) \/ ChangeIso(r) \/ RestoreBackup(r)
    \/ DeleteSnapshot(r) \/ RollbackSnapshot(r) \/ ChangeFirewall(r) \/ MigrateVm(r)
    \/ UpdateHardwareConfig(r) \/ ChangeNetwork(r)
    \/ AdminResizeVm(r) \/ AdminMigrateVm(r) \/ AddVmFirewall(r) \/ DeleteVmFirewall(r)
    \/ AdminReinstallVm(r)
    \/ Reinstall(r) \/ CreateBackup(r) \/ EvictOldest(r) \/ CreateSnapshot(r) \/ Enqueue(r)

Work(r) ==
    Clone(r) \/ Tag(r) \/ Execute(r) \/ FailJob(r) \/ WorkerDies(r) \/ Apply(r)

Write(r) ==
    DeleteBackup(r) \/ LockBackup(r) \/ UnlockBackup(r) \/ RefuseBackup(r)
    \/ ForceStop(r) \/ ForceRelease(r) \/ ForceDelete(r)
    \/ AddIp(r) \/ CheckRemoveIp(r) \/ RemoveIp(r)

Next ==
    \/ \E r \in Requests : Begin(r) \/ Work(r) \/ Write(r)
    \/ \E n \in Ids : CreateByHand(n)

Spec == Init /\ [][Next]_vars

-----------------------------------------------------------------------------
\* Every variable holds a value of the row, machine or call it stands for.
TypeOK ==
    /\ status \in [Vms -> VmStatuses \cup {"absent"}] /\ vmid \in [Vms -> Ids \cup {None}]
    /\ allocated \subseteq Vms
    /\ addresses \subseteq Ips /\ addr \in [Ips -> Vms \cup {None}] /\ assigned \subseteq Ips
    /\ backup \in [Backups -> {"none", "pending", "completed", "failed"}]
    /\ locked \subseteq Backups /\ order \in Seq(Backups)
    /\ snapshot \in [Snapshots -> {"none", "pending", "created"}]
    /\ owner \in [Ids -> Vms \cup {Foreign, None}] /\ tagged \subseteq Ids
    /\ archives \subseteq Backups /\ meddled \subseteq Queueing
    /\ call \in [Requests -> Calls]
    /\ phase \in [Requests -> {"new", "numbered", "picked", "made", "ready", "queued", "cloned",
                               "executed", "released", "found", "done", "failed"}]
    /\ ip \in [Requests -> Ips \cup {None}] /\ faults \in Nat

\* Of two creations that were given the same vmid at most one ends with a running
\* VM, the one whose clone is the machine: whatever retries, crashes and other
\* calls come in between, nobody's VM runs on another one's machine.
RunningOwnsMachine ==
    \A v \in Vms : status[v] = "running" => owner[vmid[v]] = v

\* No job but those of the firewall, which do not ask for the tag, changes a
\* machine that CloudNest has not made.
ForeignUntouched == meddled \subseteq {"firewall"}

\* A backup is said to be completed only when its archive was written, also when
\* it was deleted, evicted or tried again on the way.
CompletedHasArchive == \A b \in Backups : backup[b] = "completed" => b \in archives

\* An address changes hands only between VMs of different pools: within a pool
\* its lock keeps two creations from picking the same address.
AddressKept ==
    [][\A i \in Ips, v, w \in Vms :
          addr[i] = v /\ addr'[i] = w /\ v # w => PoolOf[v] # PoolOf[w]]_vars
=============================================================================
