------------------------ MODULE HourlyBillingProofs ------------------------
(***************************************************************************)
(* Proofs about HourlyBilling, for any number of VMs and runners, any      *)
(* costs, any number of hours, and any faults.                             *)
(***************************************************************************)
EXTENDS HourlyBilling, FiniteSetTheorems, TLAPS

-----------------------------------------------------------------------------
(***************************************************************************)
(* The inductive invariant.                                                *)
(***************************************************************************)
AtWork == {"keyed", "charged", "refused", "stopping", "scheduled", "asked"}
OnHour == {"keyed", "charged"}

\* What a runner holds between the steps of a VM's turn: a VM, the status to
\* write, an hour whose key is stored, a debit that has no invoice yet.
RunnersOK ==
    \A w \in Runners :
        /\ step[w] \in AtWork => cur[w] \in Vms
        /\ step[w] = "asked" => saw[w][cur[w]] \in {"running", "stopped"}
        /\ step[w] \in OnHour => Item(w) \in hourKeys
        /\ step[w] = "charged" => debits[Item(w)] > 0 /\ Item(w) \notin invoices

\* The key of an hour is given to one runner only.
OneRunnerPerHour ==
    \A w, u \in Runners :
        w # u /\ step[w] \in OnHour /\ step[u] \in OnHour => Item(w) # Item(u)

InDebit(c) == \E w \in Runners : step[w] = "keyed" /\ Item(w) = c

\* HoursAccountedFor, with the one runner that may be charging an hour in place
\* of the number of these.
HoursOK ==
    \A c \in Charges :
        Count(hourKeys, c) = debits[c] + Count(refused, c) + Count(lost, c)
                             + (IF InDebit(c) THEN 1 ELSE 0)

BillInv == TypeOK /\ RunnersOK /\ OneRunnerPerHour /\ HoursOK /\ InvoicesBacked

\* What a runner may do.
RunnerStep(w) == StartTick(w) \/ Bill(w) \/ Reconcile(w) \/ Crash(w)

\* What anybody else may do.
OtherStep ==
    \/ \E j \in queue : FinishJob(j) \/ FailJob(j)
    \/ \E v \in Vms : CustomerStarts(v) \/ CustomerReinstalls(v) \/ GraceElapses(v)
    \/ Credit \/ HourPasses
    \/ UNCHANGED vars

-----------------------------------------------------------------------------
\* The initial state satisfies the invariant.
LEMMA InitInv == ASSUME Init PROVE BillInv
  <1>1. /\ \A w \in Runners : step[w] = "idle"
        /\ \A c \in Charges : debits[c] = 0 /\ linked[c] = None
        /\ hourKeys = {} /\ refused = {} /\ lost = {} /\ invoices = {}
    BY DEF Init
  <1>2. TypeOK
    BY BillingAssumption DEF Init, TypeOK, VmStatuses, Hours
  <1>3. RunnersOK /\ OneRunnerPerHour
    BY <1>1 DEF RunnersOK, OneRunnerPerHour, AtWork, OnHour
  <1>4. HoursOK
    BY <1>1 DEF HoursOK, InDebit, Count
  <1>5. InvoicesBacked
    BY <1>1 DEF InvoicesBacked
  <1> QED
    BY <1>2, <1>3, <1>4, <1>5 DEF BillInv

\* The VM and the hour of a runner that is at work are those of a charge.
LEMMA ItemType ==
    ASSUME TypeOK, RunnersOK, NEW w \in Runners, step[w] \in AtWork
    PROVE  cur[w] \in Vms /\ bucket[w] \in Hours /\ Item(w) \in Charges
  BY DEF TypeOK, RunnersOK, Item, Charges

-----------------------------------------------------------------------------
\* A runner's step keeps the types.
LEMMA TypeStep ==
    ASSUME BillInv, NEW w \in Runners, RunnerStep(w)
    PROVE  TypeOK'
  <1>1. TypeOK /\ RunnersOK
    BY DEF BillInv
  <1>2. step[w] \in AtWork => cur[w] \in Vms /\ bucket[w] \in Hours /\ Item(w) \in Charges
    BY <1>1, ItemType
  <1>3. Cost \in [Vms -> Nat \ {0}] /\ 0 \in Hours
    BY BillingAssumption DEF Hours
  <1> USE <1>1, <1>2 DEF TypeOK, AtWork
  <1>4. CASE StartTick(w)
    BY <1>3, <1>4 DEF StartTick, Start, WithStatus, rows, keys, ledger, ticks, history
  <1>5. CASE StartDeleting(w)
    BY <1>3, <1>5 DEF StartDeleting, Start, WithStatus, rows, keys, ledger, ticks, history
  <1>6. CASE EndTick(w)
    BY <1>3, <1>6 DEF EndTick, Goto, rows, keys, ledger, ticks, history
  <1>7. CASE KeyHour(w)
    <2> HIDE DEF TypeOK, AtWork
    <2>1. PICK v \in todo[w] :
            /\ todo' = [todo EXCEPT ![w] = @ \ {v}]
            /\ step' = step \/ step' = [step EXCEPT ![w] = "keyed"]
            /\ cur' = cur \/ cur' = [cur EXCEPT ![w] = v]
            /\ hourKeys' = hourKeys \/ hourKeys' = hourKeys \cup {<<v, hour>>}
            /\ bucket' = bucket \/ bucket' = [bucket EXCEPT ![w] = hour]
      BY <1>7 DEF KeyHour, Take
    <2>2. v \in Vms /\ hour \in Hours /\ <<v, hour>> \in Charges
      BY DEF Charges, TypeOK
    <2>3. UNCHANGED <<balance, hour, rows, power, stopKeys, ledger, queue, saw, history>>
      BY <1>7 DEF KeyHour
    <2>4. todo' \in [Runners -> SUBSET Vms] /\ cur' \in [Runners -> Vms \cup {None}]
      BY <2>1, <2>2 DEF TypeOK
    <2>5. hourKeys' \subseteq Charges /\ bucket' \in [Runners -> Hours]
      BY <2>1, <2>2 DEF TypeOK
    <2>6. step' \in [Runners -> {"idle", "billing", "keyed", "charged", "refused", "stopping",
                               "deleting", "scheduled", "reconciling", "asked"}]
      BY <2>1 DEF TypeOK
    <2> QED
      BY <2>3, <2>4, <2>5, <2>6 DEF TypeOK, rows, ledger, history
  <1>8. CASE Charge(w)
    BY <1>3, <1>8 DEF Charge, Goto, Covered, rows, keys, ledger, ticks, history
  <1>9. CASE Refuse(w)
    BY <1>3, <1>9 DEF Refuse, Goto, Fault, NoFault, Covered, rows, keys, ledger, ticks, history
  <1>10. CASE Invoice(w)
    BY <1>3, <1>10 DEF Invoice, NextVm, rows, keys, ledger, ticks, history
  <1>11. CASE QueueStop(w)
    <2>1. /\ cur[w] \in Vms /\ <<cur[w], hour>> \in Charges
          /\ <<"stop", cur[w], hour>> \in {"stop", "start", "reinstall", "delete"} \X Vms \X Hours
      BY <1>11 DEF QueueStop, Charges
    <2>2. /\ stopKeys' = stopKeys \/ stopKeys' = [stopKeys EXCEPT ![<<cur[w], hour>>] = "pending"]
          /\ queue' = queue \/ queue' = queue \cup {<<"stop", cur[w], hour>>}
          /\ Goto(w, "stopping") \/ NextVm(w, "billing")
          /\ faults' \in Nat /\ asked' \in Nat
      BY <1>11 DEF QueueStop, Fault, NoFault
    <2>3. UNCHANGED <<balance, hour, rows, power, hourKeys, ledger, refused, lost>>
      BY <1>11 DEF QueueStop
    <2>4. /\ step' \in [Runners -> {"idle", "billing", "keyed", "charged", "refused", "stopping",
                                 "deleting", "scheduled", "reconciling", "asked"}]
          /\ todo' \in [Runners -> SUBSET Vms] /\ cur' \in [Runners -> Vms \cup {None}]
          /\ bucket' \in [Runners -> Hours]
          /\ saw' \in [Runners -> [Vms -> VmStatuses \cup {None}]]
      <3>1. CASE Goto(w, "stopping")
        BY <3>1 DEF Goto
      <3>2. CASE NextVm(w, "billing")
        BY <1>3, <3>2 DEF NextVm
      <3> QED
        BY <2>2, <3>1, <3>2
    <2>5. stopKeys' \in [Charges -> {"none", "pending", "completed", "failed"}]
      BY <2>1, <2>2
    <2>6. queue' \subseteq {"stop", "start", "reinstall", "delete"} \X Vms \X Hours
      BY <2>1, <2>2
    <2> QED
      BY <2>2, <2>3, <2>4, <2>5, <2>6 DEF rows, ledger
  <1>12. CASE Suspend(w)
    BY <1>3, <1>12 DEF Suspend, NextVm, VmStatuses, rows, keys, ledger, ticks, history
  <1>13. CASE ScheduleDeletion(w)
    BY <1>3, <1>13 DEF ScheduleDeletion, Take, VmStatuses, rows, keys, ledger, ticks, history
  <1>14. CASE QueueDelete(w)
    BY <1>3, <1>14 DEF QueueDelete, NextVm, Fault, NoFault, rows, keys, ledger, ticks, history
  <1>15. CASE StartReconcile(w)
    BY <1>3, <1>15 DEF StartReconcile, Start, WithStatus, rows, keys, ledger, ticks, history
  <1>16. CASE AskProxmox(w)
    <2> HIDE DEF TypeOK, AtWork
    <2>0. ASSUME NEW old, NEW p
          PROVE  Desired(old, p) \in {"running", "stopped", None}
      BY DEF Desired
    <2>1. PICK v \in todo[w], d \in {"running", "stopped", None} :
            /\ saw' = [saw EXCEPT ![w][v] = d]
            /\ todo' = [todo EXCEPT ![w] = @ \ {v}]
            /\ step' = step \/ step' = [step EXCEPT ![w] = "asked"]
            /\ cur' = cur \/ cur' = [cur EXCEPT ![w] = v]
      BY <2>0, <1>16 DEF AskProxmox, Take
    <2>2. v \in Vms /\ d \in VmStatuses \cup {None}
      BY DEF VmStatuses, TypeOK
    <2>3. UNCHANGED <<balance, hour, rows, power, keys, ledger, queue, bucket, history>>
      BY <1>16 DEF AskProxmox
    <2>4. todo' \in [Runners -> SUBSET Vms] /\ cur' \in [Runners -> Vms \cup {None}]
      BY <2>1, <2>2 DEF TypeOK
    <2>5. saw' \in [Runners -> [Vms -> VmStatuses \cup {None}]]
      BY <2>1, <2>2 DEF TypeOK
    <2>6. step' \in [Runners -> {"idle", "billing", "keyed", "charged", "refused", "stopping",
                               "deleting", "scheduled", "reconciling", "asked"}]
      BY <2>1 DEF TypeOK
    <2> QED
      BY <2>3, <2>4, <2>5, <2>6 DEF TypeOK, rows, keys, ledger, history
  <1>17. CASE WriteStatus(w)
    BY <1>3, <1>17 DEF WriteStatus, NextVm, RunnersOK, VmStatuses, rows, keys, ledger, ticks,
       history
  <1>18. CASE Crash(w)
    BY <1>3, <1>18 DEF Crash, Fault, rows, keys, ledger, ticks, history
  <1> QED
    BY <1>4, <1>5, <1>6, <1>7, <1>8, <1>9, <1>10, <1>11, <1>12, <1>13, <1>14, <1>15, <1>16,
       <1>17, <1>18 DEF RunnerStep, Bill, Reconcile

\* A runner's step leaves what the other runners hold, and takes back no key, no
\* debit and no invoice.
LEMMA OthersKept ==
    ASSUME TypeOK, NEW w \in Runners, RunnerStep(w)
    PROVE  /\ \A u \in Runners : u # w => /\ step'[u] = step[u] /\ cur'[u] = cur[u]
                                          /\ bucket'[u] = bucket[u] /\ saw'[u] = saw[u]
                                          /\ Item(u)' = Item(u)
           /\ hourKeys \subseteq hourKeys'
           /\ \A c \in Charges : debits'[c] >= debits[c]
           /\ invoices' = invoices \/ (step[w] = "charged" /\ invoices' = invoices \cup {Item(w)})
  <1>1. /\ step \in [Runners -> {"idle", "billing", "keyed", "charged", "refused", "stopping",
                                 "deleting", "scheduled", "reconciling", "asked"}]
        /\ cur \in [Runners -> Vms \cup {None}] /\ bucket \in [Runners -> Hours]
        /\ saw \in [Runners -> [Vms -> VmStatuses \cup {None}]]
        /\ debits \in [Charges -> Nat]
    BY DEF TypeOK
  <1>2. \A u \in Runners : u # w => /\ step'[u] = step[u] /\ cur'[u] = cur[u]
                                    /\ bucket'[u] = bucket[u] /\ saw'[u] = saw[u]
    <2>1. CASE KeyHour(w)
      BY <1>1, <2>1 DEF KeyHour, Take
    <2>2. CASE AskProxmox(w)
      BY <1>1, <2>2 DEF AskProxmox, Take
    <2>3. CASE Charge(w) \/ Refuse(w) \/ EndTick(w)
      BY <1>1, <2>3 DEF Charge, Refuse, EndTick, Goto
    <2>4. CASE Invoice(w) \/ Suspend(w) \/ QueueDelete(w) \/ WriteStatus(w)
      BY <1>1, <2>4 DEF Invoice, Suspend, QueueDelete, WriteStatus, NextVm
    <2>5. CASE QueueStop(w)
      <3>1. Goto(w, "stopping") \/ NextVm(w, "billing")
        BY <2>5 DEF QueueStop
      <3>2. CASE Goto(w, "stopping")
        BY <1>1, <3>2 DEF Goto
      <3>3. CASE NextVm(w, "billing")
        BY <1>1, <3>3 DEF NextVm
      <3> QED
        BY <3>1, <3>2, <3>3
    <2>6. CASE StartTick(w) \/ StartDeleting(w) \/ StartReconcile(w)
      BY <1>1, <2>6 DEF StartTick, StartDeleting, StartReconcile, Start
    <2>7. CASE ScheduleDeletion(w)
      BY <1>1, <2>7 DEF ScheduleDeletion, Take
    <2>8. CASE Crash(w)
      BY <1>1, <2>8 DEF Crash
    <2> QED
      BY <2>1, <2>2, <2>3, <2>4, <2>5, <2>6, <2>7, <2>8 DEF RunnerStep, Bill, Reconcile
  <1>3. hourKeys \subseteq hourKeys'
    BY DEF RunnerStep, Bill, Reconcile, StartTick, StartDeleting, StartReconcile, Start,
       EndTick, KeyHour, Charge, Refuse, Invoice, QueueStop, Suspend, ScheduleDeletion,
       QueueDelete, AskProxmox, WriteStatus, Crash, keys
  <1>4. debits' = debits \/ debits' = [debits EXCEPT ![Item(w)] = @ + 1]
    BY DEF RunnerStep, Bill, Reconcile, StartTick, StartDeleting, StartReconcile, Start,
       EndTick, KeyHour, Charge, Refuse, Invoice, QueueStop, Suspend, ScheduleDeletion,
       QueueDelete, AskProxmox, WriteStatus, Crash, ledger
  <1>5. invoices' = invoices \/ (step[w] = "charged" /\ invoices' = invoices \cup {Item(w)})
    <2>1. CASE Invoice(w)
      BY <2>1 DEF Invoice
    <2>2. CASE ~Invoice(w)
      BY <2>2 DEF RunnerStep, Bill, Reconcile, StartTick, StartDeleting, StartReconcile, Start,
       EndTick, KeyHour, Charge, Refuse, QueueStop, Suspend, ScheduleDeletion, QueueDelete,
       AskProxmox, WriteStatus, Crash, ledger
    <2> QED
      BY <2>1, <2>2
  <1>6. \A c \in Charges : debits'[c] >= debits[c]
    BY <1>1, <1>4
  <1>7. \A u \in Runners : u # w => Item(u)' = Item(u)
    BY <1>2 DEF Item
  <1> QED
    BY <1>2, <1>3, <1>5, <1>6, <1>7

\* Nobody else has the hour that a runner charges: it is not debited, refused or
\* lost yet.
LEMMA NotYetCharged ==
    ASSUME BillInv, NEW w \in Runners, step[w] = "keyed"
    PROVE  /\ Item(w) \in Charges /\ debits[Item(w)] = 0
           /\ Item(w) \notin refused /\ Item(w) \notin lost /\ Item(w) \notin invoices
  <1>1. Item(w) \in Charges
    BY ItemType DEF BillInv, AtWork
  <1>2. InDebit(Item(w)) /\ debits \in [Charges -> Nat]
    BY DEF InDebit, BillInv, TypeOK
  <1>3. Item(w) \in hourKeys
    BY DEF BillInv, RunnersOK, OnHour
  <1>4. debits[Item(w)] = 0 /\ Item(w) \notin refused /\ Item(w) \notin lost
    BY <1>1, <1>2, <1>3 DEF BillInv, HoursOK, Count
  <1> QED
    BY <1>1, <1>4 DEF BillInv, InvoicesBacked

\* A key that is asked for again is not given: nobody holds the hour of a new one.
LEMMA FreshHour ==
    ASSUME BillInv, NEW v \in Vms, <<v, hour>> \notin hourKeys
    PROVE  /\ <<v, hour>> \in Charges /\ debits[<<v, hour>>] = 0
           /\ <<v, hour>> \notin refused /\ <<v, hour>> \notin lost
           /\ \A u \in Runners : step[u] \in OnHour => Item(u) # <<v, hour>>
  <1>1. <<v, hour>> \in Charges /\ debits \in [Charges -> Nat]
    BY DEF BillInv, TypeOK, Charges
  <1>2. \A u \in Runners : step[u] \in OnHour => Item(u) # <<v, hour>>
    BY DEF BillInv, RunnersOK
  <1> QED
    BY <1>1, <1>2 DEF BillInv, HoursOK, Count

\* A runner's step keeps what the runners hold.
LEMMA RunnersStep ==
    ASSUME BillInv, NEW w \in Runners, RunnerStep(w)
    PROVE  RunnersOK' /\ OneRunnerPerHour'
  <1>1. TypeOK /\ RunnersOK /\ OneRunnerPerHour
    BY DEF BillInv
  <1>2. /\ \A u \in Runners : u # w => /\ step'[u] = step[u] /\ cur'[u] = cur[u]
                                       /\ bucket'[u] = bucket[u] /\ saw'[u] = saw[u]
                                       /\ Item(u)' = Item(u)
        /\ hourKeys \subseteq hourKeys'
        /\ \A c \in Charges : debits'[c] >= debits[c]
        /\ invoices' = invoices \/ (step[w] = "charged" /\ invoices' = invoices \cup {Item(w)})
    BY <1>1, OthersKept
  <1>3. \A u \in Runners : u # w /\ step[u] \in OnHour => Item(u) \in Charges /\ debits[Item(u)] \in Nat
    BY <1>1, ItemType DEF TypeOK, AtWork, OnHour
  <1>4. debits' \in [Charges -> Nat]
    BY TypeStep DEF TypeOK
  <1>5. \A u \in Runners : u # w =>
            /\ step'[u] \in AtWork => cur'[u] \in Vms
            /\ step'[u] = "asked" => saw'[u][cur'[u]] \in {"running", "stopped"}
            /\ step'[u] \in OnHour => Item(u)' \in hourKeys'
            /\ step'[u] = "charged" => debits'[Item(u)'] > 0 /\ Item(u)' \notin invoices'
    BY <1>1, <1>2, <1>3, <1>4 DEF RunnersOK, OneRunnerPerHour, OnHour
  <1>6. ASSUME step'[w] \in OnHour => /\ step[w] \in OnHour /\ Item(w)' = Item(w)
        PROVE  OneRunnerPerHour'
    BY <1>1, <1>2, <1>6 DEF OneRunnerPerHour
  <1> DEFINE Own == /\ step'[w] \in AtWork => cur'[w] \in Vms
                    /\ step'[w] = "asked" => saw'[w][cur'[w]] \in {"running", "stopped"}
                    /\ step'[w] \in OnHour => Item(w)' \in hourKeys'
                    /\ step'[w] = "charged" => debits'[Item(w)'] > 0 /\ Item(w)' \notin invoices'
  <1>7. SUFFICES Own /\ OneRunnerPerHour'
    BY <1>5 DEF RunnersOK
  <1>8. /\ step \in [Runners -> {"idle", "billing", "keyed", "charged", "refused", "stopping",
                                 "deleting", "scheduled", "reconciling", "asked"}]
        /\ cur \in [Runners -> Vms \cup {None}] /\ bucket \in [Runners -> Hours]
        /\ saw \in [Runners -> [Vms -> VmStatuses \cup {None}]] /\ todo \in [Runners -> SUBSET Vms]
        /\ debits \in [Charges -> Nat]
    BY <1>1 DEF TypeOK
  <1>9. CASE step'[w] \notin AtWork
    BY <1>6, <1>9 DEF AtWork, OnHour
  <1>10. CASE KeyHour(w) /\ step'[w] = "keyed"
    <2>1. PICK v \in todo[w] : /\ <<v, hour>> \notin hourKeys /\ hourKeys' = hourKeys \cup {<<v, hour>>}
                               /\ cur'[w] = v /\ bucket'[w] = hour
      BY <1>8, <1>10 DEF KeyHour, Take
    <2>2. v \in Vms /\ Item(w)' = <<v, hour>>
      BY <1>8, <2>1 DEF Item
    <2>3. \A u \in Runners : step[u] \in OnHour => Item(u) # <<v, hour>>
      BY <2>1, <2>2, FreshHour
    <2>4. OneRunnerPerHour'
      BY <1>1, <1>2, <2>2, <2>3 DEF OneRunnerPerHour
    <2> QED
      BY <1>10, <2>1, <2>2, <2>4
  <1>11. CASE Charge(w)
    <2>1. /\ step[w] = "keyed" /\ step'[w] = "charged" /\ Item(w)' = Item(w)
          /\ UNCHANGED <<cur, hourKeys, invoices>>
          /\ debits' = [debits EXCEPT ![Item(w)] = @ + 1]
      BY <1>8, <1>11 DEF Charge, Goto, Item, keys
    <2>2. Item(w) \in Charges /\ debits[Item(w)] = 0 /\ Item(w) \notin invoices
      BY <2>1, NotYetCharged
    <2>3. cur[w] \in Vms /\ Item(w) \in hourKeys
      BY <1>1, <2>1 DEF RunnersOK, AtWork, OnHour
    <2>4. debits'[Item(w)] = 1
      BY <1>8, <2>1, <2>2
    <2>5. Own
      BY <2>1, <2>2, <2>3, <2>4
    <2> QED
      BY <1>6, <2>1, <2>5 DEF OnHour
  <1>12. CASE (Refuse(w) \/ QueueStop(w)) /\ step'[w] \in AtWork
    <2>1. step[w] \in {"keyed", "refused"} /\ step'[w] \in {"refused", "stopping"} /\ cur'[w] = cur[w]
      BY <1>8, <1>12 DEF Refuse, QueueStop, Goto, NextVm, AtWork
    <2>2. cur[w] \in Vms
      BY <1>1, <2>1 DEF RunnersOK, AtWork
    <2> QED
      BY <1>6, <2>1, <2>2 DEF OnHour
  <1>13. CASE ScheduleDeletion(w)
    <2>1. step'[w] = "scheduled" /\ cur'[w] \in Vms
      BY <1>8, <1>13 DEF ScheduleDeletion, Take
    <2> QED
      BY <1>6, <2>1 DEF OnHour
  <1>14. CASE AskProxmox(w) /\ step'[w] \in AtWork
    <2>1. PICK v \in todo[w] :
            /\ step'[w] = "asked" /\ cur'[w] = v /\ Desired(saw[w][v], power[v]) # None
            /\ saw' = [saw EXCEPT ![w][v] = Desired(saw[w][v], power[v])]
      BY <1>8, <1>14 DEF AskProxmox, Take, AtWork
    <2>2. v \in Vms /\ Desired(saw[w][v], power[v]) \in {"running", "stopped"}
      BY <1>8, <2>1 DEF Desired
    <2>3. saw'[w][v] \in {"running", "stopped"}
      BY <1>8, <2>1, <2>2
    <2> QED
      BY <1>6, <2>1, <2>2, <2>3 DEF OnHour
  <1>15. ASSUME step'[w] \in AtWork
         PROVE  \/ KeyHour(w) /\ step'[w] = "keyed"
                \/ Charge(w)
                \/ ScheduleDeletion(w)
                \/ (Refuse(w) \/ QueueStop(w)) /\ step'[w] \in AtWork
                \/ AskProxmox(w) /\ step'[w] \in AtWork
    <2>1. CASE StartTick(w) \/ StartDeleting(w) \/ StartReconcile(w) \/ EndTick(w)
      BY <1>8, <1>15, <2>1 DEF StartTick, StartDeleting, StartReconcile, Start, EndTick, Goto,
       AtWork
    <2>2. CASE Invoice(w) \/ Suspend(w) \/ QueueDelete(w) \/ WriteStatus(w) \/ Crash(w)
      BY <1>8, <1>15, <2>2 DEF Invoice, Suspend, QueueDelete, WriteStatus, NextVm, Crash, AtWork
    <2>3. CASE KeyHour(w)
      BY <1>8, <1>15, <2>3 DEF KeyHour, Take, AtWork
    <2> QED
      BY <1>15, <2>1, <2>2, <2>3 DEF RunnerStep, Bill, Reconcile
  <1> QED
    BY <1>9, <1>10, <1>11, <1>12, <1>13, <1>14, <1>15

\* A runner's step keeps the account of every hour.
LEMMA HoursStep ==
    ASSUME BillInv, NEW w \in Runners, RunnerStep(w)
    PROVE  HoursOK'
  <1>1. TypeOK /\ RunnersOK /\ HoursOK /\ OneRunnerPerHour
    BY DEF BillInv
  <1>2. /\ step \in [Runners -> {"idle", "billing", "keyed", "charged", "refused", "stopping",
                                 "deleting", "scheduled", "reconciling", "asked"}]
        /\ debits \in [Charges -> Nat] /\ todo \in [Runners -> SUBSET Vms]
        /\ cur \in [Runners -> Vms \cup {None}] /\ bucket \in [Runners -> Hours]
    BY <1>1 DEF TypeOK
  <1>3. \A u \in Runners : u # w => step'[u] = step[u] /\ Item(u)' = Item(u)
    BY <1>1, OthersKept
  \* When the runner leaves the hour c out of the account, or neither begins nor
  \* ends its charge, nobody's charge of c begins or ends.
  <1>4. ASSUME NEW c, (step[w] = "keyed" /\ Item(w) = c) <=> (step'[w] = "keyed" /\ Item(w)' = c)
        PROVE  InDebit(c)' <=> InDebit(c)
    BY <1>3, <1>4 DEF InDebit
  <1>5. ASSUME step[w] = "keyed"
        PROVE  \A u \in Runners : step[u] = "keyed" /\ Item(u) = Item(w) => u = w
    BY <1>1, <1>5 DEF OneRunnerPerHour, OnHour
  <1>6. ASSUME step[w] = "keyed", step'[w] # "keyed"
        PROVE  \A c : InDebit(c)' <=> InDebit(c) /\ c # Item(w)
    BY <1>3, <1>5, <1>6 DEF InDebit
  <1>7. CASE Charge(w)
    <2>1. /\ step[w] = "keyed" /\ step'[w] = "charged"
          /\ debits' = [debits EXCEPT ![Item(w)] = @ + 1]
          /\ UNCHANGED <<hourKeys, refused, lost>>
      BY <1>2, <1>7 DEF Charge, Goto, keys, history
    <2>2. Item(w) \in Charges /\ InDebit(Item(w))
      BY <2>1, NotYetCharged DEF InDebit
    <2>3. \A c : InDebit(c)' <=> InDebit(c) /\ c # Item(w)
      BY <1>6, <2>1
    <2> QED
      BY <1>1, <1>2, <2>1, <2>2, <2>3 DEF HoursOK, Count
  <1>8. CASE Refuse(w)
    <2>1. /\ step[w] = "keyed" /\ step'[w] = "refused"
          /\ refused' = refused \cup {Item(w)}
          /\ UNCHANGED <<hourKeys, debits, lost>>
      BY <1>2, <1>8 DEF Refuse, Goto, keys, ledger
    <2>2. Item(w) \in Charges /\ InDebit(Item(w)) /\ Item(w) \notin refused
      BY <2>1, NotYetCharged DEF InDebit
    <2>3. \A c : InDebit(c)' <=> InDebit(c) /\ c # Item(w)
      BY <1>6, <2>1
    <2> QED
      BY <1>1, <1>2, <2>1, <2>2, <2>3 DEF HoursOK, Count
  <1>9. CASE Crash(w) /\ step[w] = "keyed"
    <2>1. /\ step'[w] = "idle"
          /\ lost' = lost \cup {Item(w)}
          /\ UNCHANGED <<hourKeys, debits, refused>>
      BY <1>2, <1>9 DEF Crash, keys, ledger
    <2>2. Item(w) \in Charges /\ InDebit(Item(w)) /\ Item(w) \notin lost
      BY <1>9, NotYetCharged DEF InDebit
    <2>3. \A c : InDebit(c)' <=> InDebit(c) /\ c # Item(w)
      BY <1>6, <1>9, <2>1
    <2> QED
      BY <1>1, <1>2, <2>1, <2>2, <2>3 DEF HoursOK, Count
  <1>10. CASE KeyHour(w) /\ step'[w] = "keyed"
    <2>1. PICK v \in todo[w] : /\ <<v, hour>> \notin hourKeys /\ hourKeys' = hourKeys \cup {<<v, hour>>}
                               /\ cur'[w] = v /\ bucket'[w] = hour
      BY <1>2, <1>10 DEF KeyHour, Take
    <2>2. v \in Vms /\ Item(w)' = <<v, hour>> /\ step[w] = "billing"
          /\ UNCHANGED <<debits, refused, lost>>
      BY <1>2, <1>10, <2>1 DEF Item, KeyHour, ledger, history
    <2>3. /\ <<v, hour>> \in Charges /\ debits[<<v, hour>>] = 0
          /\ <<v, hour>> \notin refused /\ <<v, hour>> \notin lost
      BY <2>1, <2>2, FreshHour
    <2>4. \A c : InDebit(c)' <=> InDebit(c) \/ c = <<v, hour>>
      BY <1>3, <1>10, <2>2 DEF InDebit
    <2>5. ~InDebit(<<v, hour>>)
      BY <2>1, <2>2, FreshHour DEF InDebit, OnHour
    <2> QED
      BY <1>1, <1>2, <2>1, <2>2, <2>3, <2>4, <2>5 DEF HoursOK, Count
  <1>11. CASE /\ UNCHANGED <<hourKeys, debits, refused, lost>>
              /\ step[w] # "keyed" /\ step'[w] # "keyed"
    <2>1. \A c : InDebit(c)' <=> InDebit(c)
      BY <1>4, <1>11
    <2> QED
      BY <1>1, <1>11, <2>1 DEF HoursOK, Count
  <1>12. \/ Charge(w)
         \/ Refuse(w)
         \/ Crash(w) /\ step[w] = "keyed"
         \/ KeyHour(w) /\ step'[w] = "keyed"
         \/ /\ UNCHANGED <<hourKeys, debits, refused, lost>>
            /\ step[w] # "keyed" /\ step'[w] # "keyed"
    <2>1. CASE StartTick(w) \/ StartDeleting(w) \/ StartReconcile(w) \/ EndTick(w)
      BY <1>2, <2>1 DEF StartTick, StartDeleting, StartReconcile, Start, EndTick, Goto, keys,
       ledger, history
    <2>2. CASE Invoice(w) \/ Suspend(w) \/ QueueDelete(w) \/ WriteStatus(w) \/ Crash(w)
      BY <1>2, <2>2 DEF Invoice, Suspend, QueueDelete, WriteStatus, NextVm, Crash, keys,
       ledger, history
    <2>3. CASE KeyHour(w)
      BY <1>2, <2>3 DEF KeyHour, Take, ledger, history
    <2>4. CASE QueueStop(w)
      <3>1. Goto(w, "stopping") \/ NextVm(w, "billing")
        BY <2>4 DEF QueueStop
      <3>2. step'[w] # "keyed"
        BY <1>2, <3>1 DEF Goto, NextVm
      <3> QED
        BY <3>2, <2>4 DEF QueueStop, ledger
    <2>5. CASE AskProxmox(w) \/ ScheduleDeletion(w)
      BY <1>2, <2>5 DEF AskProxmox, ScheduleDeletion, Take, keys, ledger, history
    <2> QED
      BY <2>1, <2>2, <2>3, <2>4, <2>5 DEF RunnerStep, Bill, Reconcile
  <1> QED
    BY <1>7, <1>8, <1>9, <1>10, <1>11, <1>12

\* A set of at most one charge has no two of them.
LEMMA AtMostOne ==
    ASSUME NEW S \in SUBSET Charges, Cardinality(S) <= 1, NEW c \in S, NEW d \in S
    PROVE  c = d
  <1>1. IsFiniteSet(Charges)
    <2>1. IsFiniteSet(Hours)
      BY BillingAssumption, FS_Interval DEF Hours
    <2> QED
      BY <2>1, BillingAssumption, FS_Product DEF Charges
  <1>2. IsFiniteSet(S)
    BY <1>1, FS_Subset
  <1> SUFFICES ASSUME c # d PROVE FALSE
    OBVIOUS
  <1>3. IsFiniteSet({c}) /\ Cardinality({c}) = 1
    BY FS_Singleton
  <1>4. Cardinality({c} \cup {d}) = 2
    BY <1>3, FS_AddElement
  <1>5. Cardinality({c} \cup {d}) <= Cardinality(S)
    BY <1>2, FS_Subset
  <1>6. Cardinality(S) \in Nat
    BY <1>2, FS_CardinalityType
  <1> QED
    BY <1>4, <1>5, <1>6

\* A runner's step keeps the invoices backed.
LEMMA InvoicesStep ==
    ASSUME BillInv, NEW w \in Runners, RunnerStep(w)
    PROVE  InvoicesBacked'
  <1>1. TypeOK /\ RunnersOK /\ InvoicesBacked
    BY DEF BillInv
  <1>2. /\ debits \in [Charges -> Nat] /\ linked \in [Charges -> Charges \cup {None}]
        /\ invoices \subseteq Charges /\ None \notin Charges
    BY <1>1, BillingAssumption DEF TypeOK
  <1>3. debits' \in [Charges -> Nat] /\ \A c \in Charges : debits'[c] >= debits[c]
    BY <1>1, TypeStep, OthersKept DEF TypeOK
  <1>4. CASE UNCHANGED <<linked, invoices>>
    BY <1>1, <1>2, <1>3, <1>4 DEF InvoicesBacked
  <1>5. CASE Invoice(w) /\ ~UNCHANGED <<linked, invoices>>
    <2> DEFINE open == {d \in Charges : debits[d] > 0 /\ linked[d] = None /\ Cost[d[1]] = Cost[cur[w]]}
    <2>1. /\ step[w] = "charged" /\ Cardinality(open) <= 1
          /\ invoices' = invoices \cup {Item(w)}
          /\ linked' = [c \in Charges |-> IF c \in open THEN Item(w) ELSE linked[c]]
          /\ debits' = debits
      BY <1>5 DEF Invoice
    <2>2. /\ Item(w) \in Charges /\ Item(w)[1] = cur[w]
          /\ debits[Item(w)] > 0 /\ Item(w) \notin invoices
      BY <1>1, <2>1, ItemType DEF RunnersOK, AtWork, Item
    <2>3. \A c, d \in open : c = d
      BY <2>1, AtMostOne
    <2>4. \A c \in open : debits[c] > 0 /\ Cost[Item(w)[1]] = Cost[c[1]]
      BY <2>2
    <2>5. open \subseteq Charges
      OBVIOUS
    <2> HIDE DEF open
    <2>6. ASSUME NEW c \in Charges, linked'[c] # None
          PROVE  /\ debits'[c] > 0 /\ linked'[c] \in invoices'
                 /\ Cost[linked'[c][1]] = Cost[c[1]]
      BY <1>1, <2>1, <2>2, <2>4, <2>6 DEF InvoicesBacked
    <2>7. ASSUME NEW c \in Charges, NEW d \in Charges, linked'[c] # None, linked'[c] = linked'[d]
          PROVE  c = d
      <3>1. ASSUME NEW e \in Charges, e \notin open, linked'[e] # None
            PROVE  linked'[e] # Item(w) /\ linked'[e] = linked[e]
        BY <1>1, <2>1, <2>2, <3>1 DEF InvoicesBacked
      <3>2. CASE c \in open /\ d \in open
        BY <2>3, <3>2
      <3>3. CASE c \notin open /\ d \notin open
        BY <1>1, <2>7, <3>1, <3>3 DEF InvoicesBacked
      <3>4. CASE c \in open /\ d \notin open
        BY <2>1, <2>7, <3>1, <3>4
      <3>5. CASE c \notin open /\ d \in open
        BY <2>1, <2>7, <3>1, <3>5
      <3> QED
        BY <3>2, <3>3, <3>4, <3>5
    <2>8. \A c \in Charges : c \in invoices' => debits'[c] > 0
      BY <1>1, <2>1, <2>2 DEF InvoicesBacked
    <2> QED
      BY <2>6, <2>7, <2>8 DEF InvoicesBacked
  <1>6. Invoice(w) \/ UNCHANGED <<linked, invoices>>
    BY DEF RunnerStep, Bill, Reconcile, StartTick, StartDeleting, StartReconcile, Start,
       EndTick, KeyHour, Charge, Refuse, QueueStop, Suspend, ScheduleDeletion, QueueDelete,
       AskProxmox, WriteStatus, Crash, ledger
  <1> QED
    BY <1>4, <1>5, <1>6

\* What anybody else does touches neither keys nor debits nor runners.
LEMMA OtherKeeps ==
    ASSUME BillInv, OtherStep
    PROVE  BillInv'
  <1>1. UNCHANGED <<hourKeys, ledger, ticks, refused, lost>>
    BY DEF OtherStep, FinishJob, FailJob, CustomerStarts, CustomerReinstalls, GraceElapses,
       Credit, HourPasses, vars, keys, history, Ask
  <1>2. TypeOK
    BY DEF BillInv
  <1>3. TypeOK'
    <2>1. CASE \E j \in queue : FinishJob(j) \/ FailJob(j)
      <3>1. PICK j \in queue : FinishJob(j) \/ FailJob(j)
        BY <2>1
      <3>2. /\ j[1] \in {"stop", "start", "reinstall", "delete"} /\ j[2] \in Vms /\ j[3] \in Hours
            /\ <<j[2], j[3]>> \in Charges
        BY <1>2 DEF TypeOK, Charges
      <3>3. stopKeys' \in [Charges -> {"none", "pending", "completed", "failed"}]
        <4>1. \/ stopKeys' = stopKeys
              \/ stopKeys' = [stopKeys EXCEPT ![<<j[2], j[3]>>] = "completed"]
              \/ stopKeys' = [stopKeys EXCEPT ![<<j[2], j[3]>>] = "failed"]
          BY <3>1 DEF FinishJob, FailJob, KeyDone
        <4> QED
          BY <1>2, <4>1 DEF TypeOK
      <3>4. status' \in [Vms -> VmStatuses] /\ power' \in [Vms -> {"running", "stopped", "gone"}]
        <4>1. /\ Outcome[j[1]] \in {"stopped", "running", "deleted"}
              /\ Left[j[1]] \in {"stopped", "running", "gone"}
          BY <3>2 DEF Outcome, Left
        <4>2. /\ status' = [status EXCEPT ![j[2]] = Outcome[j[1]]]
                 \/ status' = [status EXCEPT ![j[2]] = "error"]
              /\ power' = power \/ power' = [power EXCEPT ![j[2]] = Left[j[1]]]
          BY <3>1 DEF FinishJob, FailJob
        <4>3. status \in [Vms -> VmStatuses] /\ power \in [Vms -> {"running", "stopped", "gone"}]
          BY <1>2 DEF TypeOK
        <4>4. \A x \in {"stopped", "running", "deleted", "error"} : x \in VmStatuses
          BY DEF VmStatuses
        <4>5. PICK x \in {"stopped", "running", "deleted",
       "error"} : status' = [status EXCEPT ![j[2]] = x]
          BY <4>1, <4>2
        <4>6. status' \in [Vms -> VmStatuses]
          BY <4>3, <4>4, <4>5
        <4>7. power' = power \/ \E p \in {"stopped", "running",
       "gone"} : power' = [power EXCEPT ![j[2]] = p]
          BY <4>1, <4>2
        <4>8. power' \in [Vms -> {"running", "stopped", "gone"}]
          BY <4>3, <4>7
        <4> QED
          BY <4>6, <4>8
      <3>5. UNCHANGED <<balance, hour, overdue, hourKeys, ledger, ticks, history>> /\ queue' \subseteq queue
        BY <3>1 DEF FinishJob, FailJob
      <3> QED
        BY <1>2, <3>3, <3>4, <3>5 DEF TypeOK, ledger, ticks, history
    <2>2. CASE \E v \in Vms : CustomerStarts(v) \/ CustomerReinstalls(v) \/ GraceElapses(v)
      <3>1. PICK v \in Vms : CustomerStarts(v) \/ CustomerReinstalls(v) \/ GraceElapses(v)
        BY <2>2
      <3>2. <<"start", v, 0>> \in {"stop", "start", "reinstall", "delete"} \X Vms \X Hours
            /\ <<"reinstall", v, 0>> \in {"stop", "start", "reinstall", "delete"} \X Vms \X Hours
        BY BillingAssumption DEF Hours
      <3>3. CASE CustomerStarts(v)
        BY <1>2, <3>2, <3>3 DEF CustomerStarts, Ask, TypeOK, rows, keys, ledger, ticks, history
      <3>4. CASE CustomerReinstalls(v)
        BY <1>2, <3>2, <3>4 DEF CustomerReinstalls, Ask, TypeOK, VmStatuses, rows, keys,
       ledger, ticks, history
      <3>5. CASE GraceElapses(v)
        BY <1>2, <3>5 DEF GraceElapses, TypeOK, rows, keys, ledger, ticks, history
      <3> QED
        BY <3>1, <3>3, <3>4, <3>5
    <2>3. CASE Credit
      BY <1>2, <2>3, BillingAssumption DEF Credit, Ask, TypeOK, rows, keys, ledger, ticks, history
    <2>4. CASE HourPasses
      BY <1>2, <2>4, BillingAssumption DEF HourPasses, TypeOK, Hours, rows, keys, ledger,
       ticks, history
    <2>5. CASE UNCHANGED vars
      BY <1>2, <2>5 DEF TypeOK, vars, rows, keys, ledger, ticks, history
    <2> QED
      BY <2>1, <2>2, <2>3, <2>4, <2>5 DEF OtherStep
  <1>4. RunnersOK' /\ OneRunnerPerHour'
    BY <1>1 DEF BillInv, RunnersOK, OneRunnerPerHour, Item, ledger, ticks
  <1>5. HoursOK'
    <2>1. \A c : InDebit(c)' <=> InDebit(c)
      BY <1>1 DEF InDebit, Item, ticks
    <2> QED
      BY <1>1, <2>1 DEF BillInv, HoursOK, Count, ledger
  <1>6. InvoicesBacked'
    BY <1>1 DEF BillInv, InvoicesBacked, ledger
  <1> QED
    BY <1>3, <1>4, <1>5, <1>6 DEF BillInv

\* The invariant is inductive, ...
LEMMA InvStep == ASSUME BillInv, [Next]_vars PROVE BillInv'
  <1>1. CASE \E w \in Runners : RunnerStep(w)
    BY <1>1, TypeStep, RunnersStep, HoursStep, InvoicesStep DEF BillInv
  <1>2. CASE OtherStep
    BY <1>2, OtherKeeps
  <1> QED
    BY <1>1, <1>2 DEF Next, RunnerStep, OtherStep

\* ... and holds in every reachable state.
LEMMA Invariance == Spec => []BillInv
  <1> QED
    BY InitInv, InvStep, PTL DEF Spec

-----------------------------------------------------------------------------
(***************************************************************************)
(* What follows from it.                                                   *)
(***************************************************************************)
\* The number of runners that charge an hour is one or none.
LEMMA ChargingIsInDebit ==
    ASSUME BillInv, NEW c \in Charges
    PROVE  Charging(c) = IF InDebit(c) THEN 1 ELSE 0
  <1> DEFINE S == {w \in Runners : step[w] = "keyed" /\ Item(w) = c}
  <1>1. CASE InDebit(c)
    <2>1. PICK w \in Runners : step[w] = "keyed" /\ Item(w) = c
      BY <1>1 DEF InDebit
    <2>2. \A u \in S : u = w
      BY <2>1 DEF BillInv, OneRunnerPerHour, OnHour
    <2>3. S = {w}
      BY <2>1, <2>2
    <2>4. Cardinality({w}) = 1
      BY FS_Singleton
    <2> QED
      BY <1>1, <2>3, <2>4 DEF Charging
  <1>2. CASE ~InDebit(c)
    <2>1. S = {}
      BY <1>2 DEF InDebit
    <2> QED
      BY <1>2, <2>1, FS_EmptySet DEF Charging
  <1> QED
    BY <1>1, <1>2

\* The rows, the ledger, the queue and the runners always hold values of their
\* types; a balance is never negative.
THEOREM TypeCorrect == Spec => []TypeOK
  <1>1. BillInv => TypeOK
    BY DEF BillInv
  <1> QED
    BY <1>1, Invariance, PTL

\* An hour of a VM is charged once or not at all, and an hour whose key is stored
\* and that was not charged was refused, is being charged or was lost to a crash,
\* however many administrators' ticks run beside the consumer's.
THEOREM EveryHourIsAccountedFor == Spec => []HoursAccountedFor
  <1>1. BillInv => HoursAccountedFor
    BY ChargingIsInDebit DEF BillInv, HoursOK, HoursAccountedFor
  <1> QED
    BY <1>1, Invariance, PTL

\* An invoice has a debit behind it, and a debit that is linked to an invoice is
\* the only one and has its amount.
THEOREM InvoicesAreBacked == Spec => []InvoicesBacked
  <1>1. BillInv => InvoicesBacked
    BY DEF BillInv
  <1> QED
    BY <1>1, Invariance, PTL

=============================================================================
