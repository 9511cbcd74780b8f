--------------------------- MODULE HourlyBilling ---------------------------
(***************************************************************************)
(* BillingService: the hourly tick of BillingJobConsumer, the same tick    *)
(* and reconcile started by an administrator, and the jobs that billing    *)
(* queues, for the VMs of one customer.                                    *)
(*                                                                         *)
(* debit is indivisible and commits by itself (Wallet).  Hours are the     *)
(* hour buckets of the idempotency keys; time may pass anywhere in a tick. *)
(* A VM that was ever running or stopped has a proxmoxId and a nodeId.     *)
(***************************************************************************)
EXTENDS Integers, FiniteSets

CONSTANTS Vms,
          Cost,       \* calculateHourlyCost of each VM, in cents
          Addressed,  \* the kinds of jobs whose payload has a vmid
          Runners,    \* the BillingJobConsumer and administrators
          Consumer,   \* the first of these
          Balances,   \* what the wallet may hold at the start
          TopUp,      \* the amount of a credit
          MaxHour, MaxFaults, MaxAsked, \* bounds of the exploration
          None

Hours == 0 .. MaxHour
Charges == Vms \X Hours    \* a debit, and the invoice for it, is of a VM and an hour

ASSUME BillingAssumption ==
    /\ IsFiniteSet(Vms) /\ IsFiniteSet(Runners)
    /\ Cost \in [Vms -> Nat \ {0}]
    /\ Balances \subseteq Nat /\ TopUp \in Nat
    /\ MaxHour \in Nat
    /\ None \notin Vms \cup Charges

VARIABLES
    balance, hour,
    status, overdue,  \* of the Vm rows; suspendedAt is 72 h old
    power,            \* in Proxmox: running, stopped, gone
    hourKeys,         \* the billing-hourly keys
    stopKeys,         \* the status of the suspend-vm keys
    debits,           \* how often the wallet was debited for an hour
    linked,           \* invoiceId of each debit
    invoices,         \* the invoices, all of them 'paid'
    queue,            \* jobs: <<kind, vm, hour of the key>>
    step, todo, cur,  \* runners: where in the tick, the list, the VM at hand
    bucket, saw,      \* the hour of its key; reconcile: the status of the list,
                      \* then the one it decided on
    refused, lost,    \* history: keyed hours that a refusal or a fault left unpaid
    faults, asked     \* asked: what the customer has done

rows == <<status, overdue>>
keys == <<hourKeys, stopKeys>>
ledger == <<debits, linked, invoices>>
ticks == <<step, todo, cur, bucket, saw>>
history == <<refused, lost, faults, asked>>
vars == <<balance, hour, rows, power, keys, ledger, queue, ticks, history>>

VmStatuses == {"provisioning", "running", "stopped", "suspended", "error",
               "scheduled_deletion", "deleted"}

Init ==
    /\ balance \in Balances /\ hour = 0
    /\ status \in [Vms -> {"running", "stopped"}]
    /\ overdue = [v \in Vms |-> FALSE]
    /\ power = [v \in Vms |-> IF status[v] = "running" THEN "running" ELSE "stopped"]
    /\ hourKeys = {}
    /\ stopKeys = [c \in Charges |-> "none"]
    /\ debits = [c \in Charges |-> 0] /\ linked = [c \in Charges |-> None] /\ invoices = {}
    /\ queue = {}
    /\ step = [w \in Runners |-> "idle"]
    /\ todo = [w \in Runners |-> {}]
    /\ cur = [w \in Runners |-> None]
    /\ bucket = [w \in Runners |-> 0]
    /\ saw = [w \in Runners |-> [v \in Vms |-> None]]
    /\ refused = {} /\ lost = {} /\ faults = 0 /\ asked = 0

Fault == faults < MaxFaults /\ faults' = faults + 1 /\ UNCHANGED asked
NoFault == UNCHANGED <<faults, asked>>
Ask == asked < MaxAsked /\ asked' = asked + 1 /\ UNCHANGED <<refused, lost, faults>>

\* The VM and the hour that runner w works on.
Item(w) == <<cur[w], bucket[w]>>
WithStatus(S) == {v \in Vms : status[v] \in S}

Goto(w, next) ==
    step' = [step EXCEPT ![w] = next] /\ UNCHANGED <<todo, cur, bucket, saw>>

\* Runner w takes VM v from its list, and goes on to next with it.
Take(w, v, next) ==
    /\ todo' = [todo EXCEPT ![w] = @ \ {v}]
    /\ cur' = [cur EXCEPT ![w] = v]
    /\ step' = [step EXCEPT ![w] = next]

\* The loops catch what a VM's turn throws and go on with the next VM.
NextVm(w, loop) ==
    /\ step' = [step EXCEPT ![w] = loop]
    /\ cur' = [cur EXCEPT ![w] = None]
    /\ bucket' = [bucket EXCEPT ![w] = 0]
    /\ saw' = [saw EXCEPT ![w][cur[w]] = None]
    /\ UNCHANGED todo

(***************************************************************************)
(* runHourlyBilling: first the VMs that are billed, then the ones that are *)
(* suspended for 72 hours when the second list is read.                    *)
(***************************************************************************)
Start(w, list, loop) ==
    /\ todo' = [todo EXCEPT ![w] = list]
    /\ step' = [step EXCEPT ![w] = loop]
    /\ UNCHANGED <<balance, hour, rows, power, keys, ledger, queue, cur, bucket, history>>

StartTick(w) ==
    /\ step[w] = "idle"
    /\ Start(w, WithStatus({"running", "stopped"}), "billing")
    /\ UNCHANGED saw

\* Mutant: the age is compared the wrong way round.
StartDeletingEarly(w) ==
    /\ step[w] = "billing" /\ todo[w] = {}
    /\ Start(w, {v \in WithStatus({"suspended"}) : ~overdue[v]}, "deleting")
    /\ UNCHANGED saw

StartDeleting(w) ==
    /\ step[w] = "billing" /\ todo[w] = {}
    /\ Start(w, {v \in WithStatus({"suspended"}) : overdue[v]}, "deleting")
    /\ UNCHANGED saw

EndTick(w) ==
    /\ step[w] \in {"deleting", "reconciling"} /\ todo[w] = {}
    /\ Goto(w, "idle")
    /\ UNCHANGED <<balance, hour, rows, power, keys, ledger, queue, history>>

\* Mutant: the hour is billed without asking for its key.
KeyHourAgain(w) ==
    /\ step[w] = "billing"
    /\ \E v \in todo[w] : Take(w, v, "keyed") /\ hourKeys' = hourKeys \cup {<<v, hour>>}
    /\ bucket' = [bucket EXCEPT ![w] = hour]
    /\ UNCHANGED <<balance, hour, rows, power, stopKeys, ledger, queue, saw, history>>

\* billVm stores the hour's key, as completed, before it debits.
KeyHour(w) ==
    /\ step[w] = "billing"
    /\ \E v \in todo[w] :
         IF status[v] # "provisioning" /\ <<v, hour>> \notin hourKeys
         THEN /\ Take(w, v, "keyed")
              /\ hourKeys' = hourKeys \cup {<<v, hour>>}
              /\ bucket' = [bucket EXCEPT ![w] = hour]
         ELSE /\ todo' = [todo EXCEPT ![w] = @ \ {v}]
              /\ UNCHANGED <<step, cur, hourKeys, bucket>>
    /\ UNCHANGED <<balance, hour, rows, power, stopKeys, ledger, queue, saw, history>>

Covered(w) == balance >= Cost[cur[w]]

Charge(w) ==
    /\ step[w] = "keyed" /\ Covered(w)
    /\ balance' = balance - Cost[cur[w]]
    /\ debits' = [debits EXCEPT ![Item(w)] = @ + 1]
    /\ Goto(w, "charged")
    /\ UNCHANGED <<hour, rows, power, keys, linked, invoices, queue, history>>

\* Every error of debit is taken for an empty wallet.
Refuse(w) ==
    /\ step[w] = "keyed"
    /\ \/ ~Covered(w) /\ NoFault
       \/ Fault
    /\ refused' = refused \cup {Item(w)}
    /\ Goto(w, "refused")
    /\ UNCHANGED <<balance, hour, rows, power, keys, ledger, queue, lost>>

\* Mutant: invoiceId is not unique.
InvoiceTogether(w) ==
    /\ step[w] = "charged"
    /\ invoices' = invoices \cup {Item(w)}
    /\ linked' = [c \in Charges |->
                    IF debits[c] > 0 /\ linked[c] = None THEN Item(w) ELSE linked[c]]
    /\ NextVm(w, "billing")
    /\ UNCHANGED <<balance, hour, rows, power, keys, debits, queue, history>>

\* createInvoice, one transaction: every debit of this amount without an
\* invoice gets this one.  invoiceId is unique, so two such debits undo it all.
Invoice(w) ==
    /\ step[w] = "charged"
    /\ LET open == {d \in Charges : debits[d] > 0 /\ linked[d] = None /\ Cost[d[1]] = Cost[cur[w]]} IN
         IF Cardinality(open) <= 1
         THEN /\ invoices' = invoices \cup {Item(w)}
              /\ linked' = [c \in Charges |-> IF c \in open THEN Item(w) ELSE linked[c]]
         ELSE UNCHANGED <<invoices, linked>>
    /\ NextVm(w, "billing")
    /\ UNCHANGED <<balance, hour, rows, power, keys, debits, queue, history>>

(***************************************************************************)
(* enterGracePeriod: a stop-vm job under a key of the hour, then the row.  *)
(***************************************************************************)
QueueStop(w) ==
    /\ step[w] = "refused"
    /\ LET k == <<cur[w], hour>> IN
         \/ /\ stopKeys[k] = "none"
            /\ stopKeys' = [stopKeys EXCEPT ![k] = "pending"]
            /\ queue' = queue \cup {<<"stop", cur[w], hour>>}
            /\ Goto(w, "stopping") /\ NoFault
         \/ /\ stopKeys[k] \in {"pending", "completed"}
            /\ Goto(w, "stopping") /\ NoFault
            /\ UNCHANGED <<stopKeys, queue>>
         \/ /\ stopKeys[k] = "failed"            \* suspension deferred
            /\ NextVm(w, "billing") /\ NoFault
            /\ UNCHANGED <<stopKeys, queue>>
         \/ /\ stopKeys[k] = "none" /\ Fault     \* the key is stored, the job is not
            /\ stopKeys' = [stopKeys EXCEPT ![k] = "pending"]
            /\ NextVm(w, "billing")
            /\ UNCHANGED queue
    /\ UNCHANGED <<balance, hour, rows, power, hourKeys, ledger, refused, lost>>

Suspend(w) ==
    /\ step[w] = "stopping"
    /\ status' = [status EXCEPT ![cur[w]] = "suspended"]
    /\ overdue' = [overdue EXCEPT ![cur[w]] = FALSE]
    /\ NextVm(w, "billing")
    /\ UNCHANGED <<balance, hour, power, keys, ledger, queue, history>>

(***************************************************************************)
(* scheduleDeletion: the row, then the job.  Neither the age nor the       *)
(* status is looked at again after the list was read.                      *)
(***************************************************************************)
ScheduleDeletion(w) ==
    /\ step[w] = "deleting"
    /\ \E v \in todo[w] :
         /\ Take(w, v, "scheduled")
         /\ status' = [status EXCEPT ![v] = "scheduled_deletion"]
    /\ UNCHANGED <<balance, hour, overdue, power, keys, ledger, queue, bucket, saw, history>>

\* Nothing queues the job again when Redis has refused it.
QueueDelete(w) ==
    /\ step[w] = "scheduled"
    /\ \/ queue' = queue \cup {<<"delete", cur[w], hour>>} /\ NoFault
       \/ UNCHANGED queue /\ Fault
    /\ NextVm(w, "deleting")
    /\ UNCHANGED <<balance, hour, rows, power, keys, ledger, refused, lost>>

\* The process dies in the middle of a tick; BullMQ or the administrator starts
\* another one.
Crash(w) ==
    /\ step[w] # "idle" /\ Fault
    /\ step' = [step EXCEPT ![w] = "idle"]
    /\ todo' = [todo EXCEPT ![w] = {}]
    /\ cur' = [cur EXCEPT ![w] = None]
    /\ bucket' = [bucket EXCEPT ![w] = 0]
    /\ saw' = [saw EXCEPT ![w] = [v \in Vms |-> None]]
    /\ lost' = IF step[w] = "keyed" THEN lost \cup {Item(w)} ELSE lost
    /\ UNCHANGED <<balance, hour, rows, power, keys, ledger, queue, refused>>

(***************************************************************************)
(* reconcile: what Proxmox answers is compared with the row of the list    *)
(* and written over the row of now.                                        *)
(***************************************************************************)
StartReconcile(w) ==
    /\ step[w] = "idle" /\ w # Consumer
    /\ Start(w, WithStatus({"running", "stopped", "suspended"}), "reconciling")
    /\ saw' = [saw EXCEPT ![w] = [v \in Vms |-> IF v \in todo'[w] THEN status[v] ELSE None]]

Desired(old, p) ==
    CASE p = "running" /\ old = "suspended" -> "running"
      [] p = "stopped" /\ old = "running" -> "stopped"
      [] OTHER -> None

AskProxmox(w) ==
    /\ step[w] = "reconciling"
    /\ \E v \in todo[w] :
         LET desired == Desired(saw[w][v], power[v]) IN
         IF desired # None
         THEN Take(w, v, "asked") /\ saw' = [saw EXCEPT ![w][v] = desired]
         ELSE /\ todo' = [todo EXCEPT ![w] = @ \ {v}]
              /\ saw' = [saw EXCEPT ![w][v] = None]
              /\ UNCHANGED <<step, cur>>
    /\ UNCHANGED <<balance, hour, rows, power, keys, ledger, queue, bucket, history>>

WriteStatus(w) ==
    /\ step[w] = "asked"
    /\ status' = [status EXCEPT ![cur[w]] = saw[w][cur[w]]]
    /\ NextVm(w, "reconciling")
    /\ UNCHANGED <<balance, hour, overdue, power, keys, ledger, queue, history>>

(***************************************************************************)
(* The jobs as ProxmoxJobConsumer ends them: JOB_STATUS_MAP turns a        *)
(* suspended VM whose stop succeeds into a stopped one.                    *)
(***************************************************************************)
Outcome == [stop |-> "stopped", start |-> "running", reinstall |-> "stopped", delete |-> "deleted"]
Left == [Outcome EXCEPT !.delete = "gone"]

KeyDone(j, result) ==
    stopKeys' = IF j[1] = "stop" /\ stopKeys[<<j[2], j[3]>>] = "pending"
                THEN [stopKeys EXCEPT ![<<j[2], j[3]>>] = result] ELSE stopKeys

FinishJob(j) ==
    /\ j[1] \in Addressed /\ power[j[2]] # "gone"
    /\ power' = [power EXCEPT ![j[2]] = Left[j[1]]]
    /\ status' = [status EXCEPT ![j[2]] = Outcome[j[1]]]
    /\ KeyDone(j, "completed")
    /\ queue' = queue \ {j}
    /\ UNCHANGED <<balance, hour, overdue, hourKeys, ledger, ticks, history>>

FailJob(j) ==
    /\ j[1] \notin Addressed \/ power[j[2]] = "gone"
    /\ status' = [status EXCEPT ![j[2]] = "error"]
    /\ KeyDone(j, "failed")
    /\ queue' = queue \ {j}
    /\ UNCHANGED <<balance, hour, overdue, power, hourKeys, ledger, ticks, history>>

\* performAction and reinstallVm, which writes 'provisioning' before it queues.
CustomerStarts(v) ==
    /\ status[v] = "stopped" /\ Ask
    /\ queue' = queue \cup {<<"start", v, 0>>}
    /\ UNCHANGED <<balance, hour, rows, power, keys, ledger, ticks>>

CustomerReinstalls(v) ==
    /\ status[v] # "deleted" /\ Ask
    /\ status' = [status EXCEPT ![v] = "provisioning"]
    /\ queue' = queue \cup {<<"reinstall", v, 0>>}
    /\ UNCHANGED <<balance, hour, overdue, power, keys, ledger, ticks>>

\* autoResumeSuspendedVms, after the credit, resumes the VMs of subscriptions
\* in grace only; none of these has one.
Credit ==
    /\ Ask
    /\ balance' = balance + TopUp
    /\ UNCHANGED <<hour, rows, power, keys, ledger, queue, ticks>>

HourPasses ==
    /\ hour < MaxHour /\ hour' = hour + 1
    /\ UNCHANGED <<balance, rows, power, keys, ledger, queue, ticks, history>>

\* 72 hours after the suspension, which is longer than any tick.
GraceElapses(v) ==
    /\ status[v] = "suspended" /\ ~overdue[v]
    /\ \A w \in Runners : cur[w] # v
    /\ overdue' = [overdue EXCEPT ![v] = TRUE]
    /\ UNCHANGED <<balance, hour, status, power, keys, ledger, queue, ticks, history>>

Bill(w) ==
    KeyHour(w) \/ Charge(w) \/ Refuse(w) \/ Invoice(w) \/ QueueStop(w) \/ Suspend(w)
    \/ StartDeleting(w) \/ ScheduleDeletion(w) \/ QueueDelete(w) \/ EndTick(w)

Reconcile(w) == StartReconcile(w) \/ AskProxmox(w) \/ WriteStatus(w)

Next ==
    \/ \E w \in Runners : StartTick(w) \/ Bill(w) \/ Reconcile(w) \/ Crash(w)
    \/ \E j \in queue : FinishJob(j) \/ FailJob(j)
    \/ \E v \in Vms : CustomerStarts(v) \/ CustomerReinstalls(v) \/ GraceElapses(v)
    \/ Credit \/ HourPasses

Spec == Init /\ [][Next]_vars

(***************************************************************************)
(* Fairness: the hourly job of BillingJobConsumer comes up again and a     *)
(* tick that has begun goes on; jobs are worked off; time passes.          *)
(***************************************************************************)
Fairness ==
    /\ \A w \in Runners : WF_vars(Bill(w))
    /\ SF_vars(StartTick(Consumer))
    /\ WF_vars(\E j \in queue : FinishJob(j) \/ FailJob(j))
    /\ \A v \in Vms : SF_vars(GraceElapses(v))

FairSpec == Spec /\ Fairness

-----------------------------------------------------------------------------
\* Every variable holds a value of the column or local variable it stands for.
TypeOK ==
    /\ balance \in Nat /\ hour \in Hours
    /\ status \in [Vms -> VmStatuses] /\ overdue \in [Vms -> BOOLEAN]
    /\ power \in [Vms -> {"running", "stopped", "gone"}]
    /\ hourKeys \subseteq Charges
    /\ stopKeys \in [Charges -> {"none", "pending", "completed", "failed"}]
    /\ debits \in [Charges -> Nat] /\ linked \in [Charges -> Charges \cup {None}]
    /\ invoices \subseteq Charges
    /\ queue \subseteq {"stop", "start", "reinstall", "delete"} \X Vms \X Hours
    /\ step \in [Runners -> {"idle", "billing", "keyed", "charged", "refused", "stopping",
                             "deleting", "scheduled", "reconciling", "asked"}]
    /\ todo \in [Runners -> SUBSET Vms] /\ cur \in [Runners -> Vms \cup {None}]
    /\ bucket \in [Runners -> Hours]
    /\ saw \in [Runners -> [Vms -> VmStatuses \cup {None}]]
    /\ refused \subseteq Charges /\ lost \subseteq Charges 
    /\ faults \in Nat /\ asked \in Nat

Count(S, x) == IF x \in S THEN 1 ELSE 0
Charging(c) == Cardinality({w \in Runners : step[w] = "keyed" /\ Item(w) = c})

\* An hour of a VM whose key is stored was charged once, or was refused, or is
\* being charged, or is lost to a crash; no hour is charged twice or without its
\* key, though an administrator's tick runs beside the consumer's.
HoursAccountedFor ==
    \A c \in Charges :
        Count(hourKeys, c) = debits[c] + Count(refused, c) + Count(lost, c) + Charging(c)

\* A debit gets at most one invoice, of its own amount, and no invoice pays for
\* two debits: crashes and failed invoices leave debits over, never invoices.
InvoicesBacked ==
    \A c, d \in Charges :
        /\ c \in invoices => debits[c] > 0
        /\ linked[c] # None => /\ debits[c] > 0 /\ linked[c] \in invoices
                              /\ Cost[linked[c][1]] = Cost[c[1]]
        /\ linked[c] # None /\ linked[c] = linked[d] => c = d

\* A VM that was suspended 72 hours ago does not stay so: scheduleDeletion
\* reaches it, or something else gives it another status.
OverdueGone == \A v \in Vms : status[v] = "suspended" /\ overdue[v] ~> status[v] # "suspended"
=============================================================================
