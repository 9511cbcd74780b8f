--------------------------- MODULE Subscriptions ---------------------------
(***************************************************************************)
(* SubscriptionsService: the calls of customers and administrators, the    *)
(* renewal and grace-period ticks of BillingJobConsumer and the same ticks *)
(* started by an administrator's POST.                                     *)
(*                                                                         *)
(* credit and debit of WalletService are indivisible here (Wallet shows    *)
(* that they are) and commit by themselves, also when they are called from *)
(* inside another transaction.  A plan has one resource, its cores; the    *)
(* checks of memory and disk have the same form.  Coupons appear as the    *)
(* discount they leave on the renewals.                                    *)
(***************************************************************************)
EXTENDS Sums

CONSTANTS Customers, Subs, Plans, Ips,
          Owner,       \* the userId of each subscription
          Price, Cores,\* priceCredits and cpuCores of each plan
          Changes,     \* allowedUpgradePlanIds, allowedDowngradePlanIds: pairs
          Discount,    \* renewalDiscountCredits of each subscription
          MaxSubs,     \* maxSubscriptions
          Old, Spare,  \* the subscriptions, and room in the pools, at the start
          Balances,    \* what wallets may hold at the start
          Addressed,   \* the kinds of jobs whose payload has a vmid
          Handlers,    \* the calls that run concurrently
          CallsOf,     \* what each call may ask for
          Runners,     \* the BillingJobConsumer and administrators
          Consumer,    \* the first of these
          MaxPeriods, MaxBreaks, \* bounds of the exploration
          Absent

Pools == Customers \cup Subs   \* createPool names a pool after its first taker

ASSUME SubsAssumption ==
    /\ IsFiniteSet(Subs) /\ IsFiniteSet(Handlers) /\ IsFiniteSet(Runners)
    /\ Owner \in [Subs -> Customers]
    /\ Price \in [Plans -> Nat] /\ Cores \in [Plans -> Nat]
    /\ Discount \in [Subs -> Nat] /\ Spare \in Nat
    /\ Balances \subseteq Nat
    /\ Changes \subseteq Plans \X Plans
    /\ Absent \notin Pools \cup Ips \cup Handlers \cup Plans \cup Subs
    /\ CallsOf \in [Handlers -> SUBSET
         [op : {"subscribe", "cancel", "adminCancel", "changePlan", "refund", "topUp"},
          sub : Subs, plan : Plans, amount : Nat \ {0}]]
    /\ \A r, q \in Handlers : \A c \in CallsOf[r], d \in CallsOf[q] :
         c.op = "subscribe" =>      \* the id of a new row is nobody else's
            c.sub \notin Old /\ (d.op = "subscribe" /\ d.sub = c.sub => q = r)

Calls == UNION {CallsOf[r] : r \in Handlers}

VARIABLES
    balance,           \* the wallets
    status, plan,      \* the Subscription rows
    due, overdue,      \* nextRenewalAt has passed; graceStartedAt is 72 h old
    refunded,          \* adminCreditsRefundedTotal
    vm,                \* the status of the subscription's VM
    total, home, size, \* pools and the allocations in them
    poolHolder,        \* who holds the row of a pool
    addr,              \* the VM of each address
    queue,             \* the proxmox-jobs queue
    call, stage,       \* calls: what they ask for, how far they are
    pool, ip,          \* the pool and the address a subscribe works with
    former,            \* the old price or refunded total that a call read
    todo, step, cur,   \* runners: the list of a tick, where it is, at which row
    bill,              \* the price of the renewal at hand
    paid, granted, wasted, credited, breaks  \* history

rows == <<status, plan, due, overdue, refunded>>
pools == <<total, home, size, poolHolder>>
tally == <<paid, granted, wasted, credited, breaks>>
ticks == <<todo, step, cur, bill>>
locals == <<pool, ip, former>>
requests == <<call, stage, locals>>
subVars == <<balance, rows, vm, pools, addr, queue, requests, ticks, tally>>

Statuses == {"none", "active", "grace_period", "cancelled", "expired"}

SubInit ==
    /\ balance \in [Customers -> Balances]
    /\ status = [s \in Subs |-> IF s \in Old THEN "active" ELSE "none"]
    /\ plan \in [Subs -> Plans \cup {Absent}]
    /\ \A s \in Subs : plan[s] = Absent <=> status[s] = "none"
    /\ due = [s \in Subs |-> FALSE]
    /\ overdue = [s \in Subs |-> FALSE]
    /\ refunded = [s \in Subs |-> 0]
    /\ vm = [s \in Subs |-> IF status[s] = "none" THEN "none" ELSE "running"]
    /\ home = [s \in Subs |-> IF status[s] = "none" THEN Absent ELSE Owner[s]]
    /\ size = [s \in Subs |-> IF status[s] = "none" THEN 0 ELSE Cores[plan[s]]]
    /\ total = [p \in Pools |->
                 IF \E s \in Subs : home[s] = p
                 THEN SumOver(size, {s \in Subs : home[s] = p}) + Spare ELSE 0]
    /\ poolHolder = [p \in Pools |-> Absent]
    /\ addr = [i \in Ips |-> Absent]
    /\ queue = {}
    /\ call \in [Handlers -> Calls]
    /\ \A r \in Handlers : call[r] \in CallsOf[r]
    /\ stage = [r \in Handlers |-> "new"]
    /\ pool = [r \in Handlers |-> Absent]
    /\ ip = [r \in Handlers |-> Absent]
    /\ former = [r \in Handlers |-> 0]
    /\ todo = [w \in Runners |-> {}]
    /\ step = [w \in Runners |-> "idle"]
    /\ cur = [w \in Runners |-> Absent]
    /\ bill = [w \in Runners |-> 0]
    /\ paid = [s \in Subs |-> IF status[s] = "none" THEN 0 ELSE 1]
    /\ granted = paid
    /\ wasted = [s \in Subs |-> 0]
    /\ credited = [s \in Subs |-> 0]
    /\ breaks = 0

Sub(r) == call[r].sub
Payer(r) == Owner[Sub(r)]
OfUser(u) == {s \in Subs : Owner[s] = u}

UsedOf(p) == SumOver(size, {s \in Subs : home[s] = p})
Existing(u) == {p \in {u} \cup OfUser(u) : total[p] > 0}

Max0(n) == IF n > 0 THEN n ELSE 0
RenewalPrice(s) == Max0(Price[plan[s]] - Discount[s])

\* WalletService.debit refuses 0 as it refuses what the balance does not cover.
Covered(u, amount) == amount > 0 /\ balance[u] >= amount
Debit(u, amount) ==
    Covered(u, amount) /\ balance' = [balance EXCEPT ![u] = @ - amount]
Credit(u, amount) == balance' = [balance EXCEPT ![u] = @ + amount]

Add(f, s) == [f EXCEPT ![s] = @ + 1]

At(r, op, phase) == call[r].op = op /\ stage[r] = phase
Reach(r, phase) == stage' = [stage EXCEPT ![r] = phase] /\ UNCHANGED call
Fail(r) == Reach(r, "failed") /\ UNCHANGED locals
Job(s, kind, n) == [sub |-> s, kind |-> kind, cores |-> n]

(***************************************************************************)
(* subscribe: the transaction that creates the rows, around a debit and    *)
(* possibly a createPool that commit by themselves.                        *)
(***************************************************************************)
Paying == {"paid", "pooled", "locked", "admitted"}

CheckPlan(r) ==
    /\ At(r, "subscribe", "new")
    /\ status[Sub(r)] = "none"
    /\ Cardinality({s \in OfUser(Payer(r)) : status[s] = "active"}) < MaxSubs
    /\ Reach(r, "checked")
    /\ UNCHANGED <<balance, rows, vm, pools, addr, queue, locals, ticks, tally>>

PayFirstPeriod(r) ==
    /\ At(r, "subscribe", "checked")
    /\ Debit(Payer(r), Price[call[r].plan])
    /\ paid' = Add(paid, Sub(r))
    /\ Reach(r, "paid")
    /\ UNCHANGED <<rows, vm, pools, addr, queue, locals, ticks,
                   granted, wasted, credited, breaks>>

\* The plan is inactive, the coupon is not valid, the limit is reached, no node
\* is active, the balance does not cover the price: nothing has changed yet.
RefuseSubscribe(r) ==
    /\ \/ At(r, "subscribe", "new")
       \/ At(r, "subscribe", "checked") /\ ~Covered(Payer(r), Price[call[r].plan])
    /\ Fail(r)
    /\ UNCHANGED <<balance, rows, vm, pools, addr, queue, ticks, tally>>

TakePool(r) ==
    /\ At(r, "subscribe", "paid")
    /\ \/ /\ pool' \in {[pool EXCEPT ![r] = p] : p \in Existing(Payer(r))}
          /\ UNCHANGED total
       \/ /\ Existing(Payer(r)) = {}
          /\ pool' = [pool EXCEPT ![r] = Sub(r)]
          /\ total' = [total EXCEPT ![Sub(r)] = Cores[call[r].plan]]
    /\ Reach(r, "pooled")
    /\ UNCHANGED <<balance, rows, vm, home, size, poolHolder, addr, queue, ip, former,
                   ticks, tally>>

LockPool(r) ==
    /\ At(r, "subscribe", "pooled")
    /\ poolHolder[pool[r]] = Absent
    /\ poolHolder' = [poolHolder EXCEPT ![pool[r]] = r]
    /\ Reach(r, "locked")
    /\ UNCHANGED <<balance, rows, vm, total, home, size, addr, queue, locals, ticks, tally>>

Room(r) == total[pool[r]] - UsedOf(pool[r])

\* The sum and the check under the lock, the allocation, and an address that
\* findAvailableIp, which locks nothing, finds free.
Admit(r) ==
    /\ At(r, "subscribe", "locked")
    /\ Cores[call[r].plan] <= Room(r)
    /\ LET free == {i \in Ips : addr[i] = Absent}
       IN  ip' \in {[ip EXCEPT ![r] = i] : i \in IF free = {} THEN {Absent} ELSE free}
    /\ Reach(r, "admitted")
    /\ UNCHANGED <<balance, rows, vm, pools, addr, queue, pool, former, ticks, tally>>

\* The lock of the transaction that ends now.
Unlock(r) == poolHolder' = [p \in Pools |-> IF poolHolder[p] = r THEN Absent ELSE poolHolder[p]]

\* The pool has no room, or the transaction takes longer than Prisma allows,
\* or the process dies: the rows are rolled back, the debit is not.
LosePayment(r) ==
    /\ call[r].op = "subscribe" /\ stage[r] \in Paying
    /\ \/ stage[r] = "locked" /\ Cores[call[r].plan] > Room(r) /\ UNCHANGED breaks
       \/ breaks < MaxBreaks /\ breaks' = breaks + 1
    /\ wasted' = Add(wasted, Sub(r))
    /\ Unlock(r)
    /\ Fail(r)
    /\ UNCHANGED <<balance, rows, vm, total, home, size, addr, queue, ticks,
                   paid, granted, credited>>

CreateSubscription(r) ==
    /\ At(r, "subscribe", "admitted")
    /\ LET s == Sub(r) IN
         /\ status' = [status EXCEPT ![s] = "active"]
         /\ plan' = [plan EXCEPT ![s] = call[r].plan]
         /\ vm' = [vm EXCEPT ![s] = "provisioning"]
         /\ home' = [home EXCEPT ![s] = pool[r]]
         /\ size' = [size EXCEPT ![s] = Cores[call[r].plan]]
         /\ addr' = [i \in Ips |-> IF i = ip[r] THEN s ELSE addr[i]]
         /\ granted' = Add(granted, s)
    /\ Unlock(r)
    /\ Reach(r, "created")
    /\ UNCHANGED <<balance, due, overdue, refunded, total, queue, locals, ticks,
                   paid, wasted, credited, breaks>>

\* A plan without a template queues nothing.  When Redis refuses the job, the
\* status 'provisioning_failed' that the code then writes is not in the enum
\* VmStatus: that update fails too and the VM stays 'provisioning'.
QueueCreate(r) ==
    /\ At(r, "subscribe", "created")
    /\ \/ queue' = queue \cup {Job(Sub(r), "create", 0)} /\ UNCHANGED breaks
       \/ UNCHANGED <<queue, breaks>>
       \/ /\ breaks < MaxBreaks /\ breaks' = breaks + 1   \* Redis refuses it
          /\ UNCHANGED queue
    /\ Reach(r, "done")
    /\ UNCHANGED <<balance, rows, vm, pools, addr, locals, ticks,
                   paid, granted, wasted, credited>>

(***************************************************************************)
(* cancelSubscription looks before its transaction and writes whatever the *)
(* status is by then; adminCancelSubscription only needs the row.          *)
(***************************************************************************)
CheckCancel(r) ==
    /\ At(r, "cancel", "new")
    /\ Reach(r, IF status[Sub(r)] \in {"none", "cancelled", "expired"}
                THEN "failed" ELSE "found")
    /\ UNCHANGED <<balance, rows, vm, pools, addr, queue, locals, ticks, tally>>

Cancel(r) ==
    /\ \/ At(r, "cancel", "found")
       \/ At(r, "adminCancel", "new") /\ status[Sub(r)] # "none"
    /\ status' = [status EXCEPT ![Sub(r)] = "cancelled"]
    /\ Reach(r, "done")
    /\ UNCHANGED <<balance, plan, due, overdue, refunded, vm, pools, addr, queue,
                   locals, ticks, tally>>

(***************************************************************************)
(* changePlan: the difference of the two prices is debited, then the row   *)
(* is written, then a resize-vm job is queued.  The pool is not asked.     *)
(***************************************************************************)
ReadPlan(r) ==
    /\ At(r, "changePlan", "new")
    /\ LET old == plan[Sub(r)] IN
         \/ /\ status[Sub(r)] = "active"
            /\ <<old, call[r].plan>> \in Changes \/ Price[old] = Price[call[r].plan]
            /\ former' = [former EXCEPT ![r] = Price[old]]
            /\ Reach(r, "found") /\ UNCHANGED <<pool, ip>>
         \/ Fail(r)    \* also: the plan is inactive, a shrink is not confirmed
    /\ UNCHANGED <<balance, rows, vm, pools, addr, queue, ticks, tally>>

PayDifference(r) ==
    /\ At(r, "changePlan", "found")
    /\ LET diff == Price[call[r].plan] - former[r] IN
         \/ diff > 0 /\ Debit(Payer(r), diff) /\ Reach(r, "paid")
         \/ diff > 0 /\ ~Covered(Payer(r), diff) /\ Reach(r, "failed") /\ UNCHANGED balance
         \/ diff <= 0 /\ Reach(r, "paid") /\ UNCHANGED balance
    /\ UNCHANGED <<rows, vm, pools, addr, queue, locals, ticks, tally>>

WritePlan(r) ==
    /\ At(r, "changePlan", "paid")
    /\ plan' = [plan EXCEPT ![Sub(r)] = call[r].plan]
    /\ Reach(r, "written")
    /\ UNCHANGED <<balance, status, due, overdue, refunded, vm, pools, addr, queue,
                   locals, ticks, tally>>

QueueResize(r) ==
    /\ At(r, "changePlan", "written")
    /\ queue' \in {queue, queue \cup {Job(Sub(r), "resize", Cores[call[r].plan])}}
    /\ Reach(r, "done")
    /\ UNCHANGED <<balance, rows, vm, pools, addr, locals, ticks, tally>>

(***************************************************************************)
(* credit, for a top-up or inside the transaction of a refund, and the     *)
(* autoResumeSuspendedVms it ends with, whose errors are swallowed.        *)
(***************************************************************************)
ReadRefunded(r) ==
    /\ At(r, "refund", "new")
    /\ status[Sub(r)] # "none"
    /\ former' = [former EXCEPT ![r] = refunded[Sub(r)]]
    /\ Reach(r, "found")
    /\ UNCHANGED <<balance, rows, vm, pools, addr, queue, pool, ip, ticks, tally>>

CreditWallet(r) ==
    /\ At(r, "refund", "found") \/ At(r, "topUp", "new")
    /\ Credit(Payer(r), call[r].amount)
    /\ credited' = [credited EXCEPT ![Sub(r)] =
                      IF call[r].op = "refund" THEN @ + call[r].amount ELSE @]
    /\ Reach(r, "credited")
    /\ UNCHANGED <<rows, vm, pools, addr, queue, locals, ticks,
                   paid, granted, wasted, breaks>>

AutoResume(r) ==
    /\ stage[r] = "credited"
    /\ LET suspended == {s \in OfUser(Payer(r)) : vm[s] = "suspended" /\ status[s] = "grace_period"}
       IN  \/ queue' = queue \cup {Job(s, "resume", 0) : s \in suspended} /\ UNCHANGED breaks
           \/ breaks < MaxBreaks /\ breaks' = breaks + 1 /\ UNCHANGED queue
    /\ Reach(r, IF call[r].op = "refund" THEN "resumed" ELSE "done")
    /\ UNCHANGED <<balance, rows, vm, pools, addr, locals, ticks,
                   paid, granted, wasted, credited>>

\* Mutant: an error of the credit is swallowed.
WriteRefundedAnyway(r) ==
    /\ call[r].op = "refund" /\ stage[r] \in {"found", "resumed"}
    /\ refunded' = [refunded EXCEPT ![Sub(r)] = former[r] + call[r].amount]
    /\ Reach(r, "done")
    /\ UNCHANGED <<balance, status, plan, due, overdue, vm, pools, addr, queue,
                   locals, ticks, tally>>

WriteRefunded(r) ==
    /\ At(r, "refund", "resumed")
    /\ refunded' = [refunded EXCEPT ![Sub(r)] = former[r] + call[r].amount]
    /\ Reach(r, "done")
    /\ UNCHANGED <<balance, status, plan, due, overdue, vm, pools, addr, queue,
                   locals, ticks, tally>>

\* The transaction of the refund times out, or the process dies.
AbortRefund(r) ==
    /\ call[r].op = "refund" /\ stage[r] \in {"found", "credited", "resumed"}
    /\ breaks < MaxBreaks /\ breaks' = breaks + 1
    /\ Fail(r)
    /\ UNCHANGED <<balance, rows, vm, pools, addr, queue, ticks,
                   paid, granted, wasted, credited>>

(***************************************************************************)
(* The ticks: a list is read, then one row after the other is dealt with.  *)
(***************************************************************************)
StartTick(w, next, list) ==
    /\ step[w] = "idle" /\ list # {}
    /\ step' = [step EXCEPT ![w] = next]
    /\ todo' = [todo EXCEPT ![w] = list]
    /\ UNCHANGED <<balance, rows, vm, pools, addr, queue, requests, cur, bill, tally>>

\* Mutant: the status is not looked at.
IsDueAnyhow(s) == due[s]

IsDue(s) == status[s] = "active" /\ due[s]

StartRenewals(w) == StartTick(w, "renewing", {s \in Subs : IsDue(s)})
StartGrace(w) == StartTick(w, "expiring", {s \in Subs : status[s] = "grace_period"})

\* On to the next row of the list.
Drop(w, s) ==
    /\ todo' = [todo EXCEPT ![w] = @ \ {s}]
    /\ step' = [step EXCEPT ![w] =
                  IF todo[w] = {s} THEN "idle"
                  ELSE IF @ \in {"expiring", "queued"} THEN "expiring" ELSE "renewing"]
    /\ cur' = [cur EXCEPT ![w] = Absent]
    /\ bill' = [bill EXCEPT ![w] = 0]

At2(w, next, s) ==
    /\ step' = [step EXCEPT ![w] = next]
    /\ cur' = [cur EXCEPT ![w] = s]
    /\ UNCHANGED todo

\* renewSubscription reads the row again.
ReadDue(w) ==
    /\ step[w] = "renewing"
    /\ \E s \in todo[w] :
         \/ /\ IsDue(s)
            /\ At2(w, "charging", s)
            /\ bill' = [bill EXCEPT ![w] = RenewalPrice(s)]
         \/ ~IsDue(s) /\ Drop(w, s)
    /\ UNCHANGED <<balance, rows, vm, pools, addr, queue, requests, tally>>

ChargeRenewal(w) ==
    /\ step[w] = "charging"
    /\ Debit(Owner[cur[w]], bill[w])
    /\ paid' = Add(paid, cur[w])
    /\ At2(w, "charged", cur[w])
    /\ UNCHANGED <<rows, vm, pools, addr, queue, requests, bill,
                   granted, wasted, credited, breaks>>

\* Mutant: the renewal goes on without the debit.
IgnoreRefusal(w) ==
    /\ step[w] = "charging"
    /\ ~Covered(Owner[cur[w]], bill[w])
    /\ At2(w, "charged", cur[w])
    /\ UNCHANGED <<balance, rows, vm, pools, addr, queue, requests, bill, tally>>

\* Every error of debit is taken for an empty wallet.
RefuseRenewal(w) ==
    /\ step[w] = "charging"
    /\ \/ ~Covered(Owner[cur[w]], bill[w]) /\ UNCHANGED breaks
       \/ breaks < MaxBreaks /\ breaks' = breaks + 1
    /\ At2(w, "refused", cur[w])
    /\ UNCHANGED <<balance, rows, vm, pools, addr, queue, requests, bill,
                   paid, granted, wasted, credited>>

Renew(w) ==
    /\ step[w] = "charged"
    /\ LET s == cur[w] IN
         /\ due' = [due EXCEPT ![s] = FALSE]
         /\ status' = [status EXCEPT ![s] = "active"]
         /\ IF due[s] THEN granted' = Add(granted, s) /\ UNCHANGED wasted
                      ELSE wasted' = Add(wasted, s) /\ UNCHANGED granted
         /\ Drop(w, s)
    /\ UNCHANGED <<balance, plan, overdue, refunded, vm, pools, addr, queue, requests,
                   paid, credited, breaks>>

\* The VM is suspended in its row only: no stop-vm is queued.
EnterGrace(w) ==
    /\ step[w] = "refused"
    /\ LET s == cur[w] IN
         /\ status' = [status EXCEPT ![s] = "grace_period"]
         /\ overdue' = [overdue EXCEPT ![s] = FALSE]
         /\ vm' = [vm EXCEPT ![s] = "suspended"]
         /\ Drop(w, s)
    /\ UNCHANGED <<balance, plan, due, refunded, pools, addr, queue, requests, tally>>

\* delete-vm is queued inside the transaction that writes 'expired'.
QueueDelete(w) ==
    /\ step[w] = "expiring"
    /\ \E s \in todo[w] :
         \/ /\ overdue[s]
            /\ queue' = queue \cup {Job(s, "delete", 0)}
            /\ At2(w, "queued", s) /\ UNCHANGED bill
         \/ ~overdue[s] /\ Drop(w, s) /\ UNCHANGED queue
    /\ UNCHANGED <<balance, rows, vm, pools, addr, requests, tally>>

\* Mutant: 'expired' is never written.
KeepInGrace(w) ==
    /\ step[w] = "queued"
    /\ Drop(w, cur[w])
    /\ UNCHANGED <<balance, rows, vm, pools, addr, queue, requests, tally>>

Expire(w) ==
    /\ step[w] = "queued"
    /\ status' = [status EXCEPT ![cur[w]] = "expired"]
    /\ Drop(w, cur[w])
    /\ UNCHANGED <<balance, plan, due, overdue, refunded, vm, pools, addr, queue,
                   requests, tally>>

\* The process dies, or Redis or PostgreSQL fails: what is left of the list
\* waits for the next tick.
BreakTick(w) ==
    /\ step[w] # "idle"
    /\ breaks < MaxBreaks /\ breaks' = breaks + 1
    /\ wasted' = IF step[w] = "charged" THEN Add(wasted, cur[w]) ELSE wasted
    /\ step' = [step EXCEPT ![w] = "idle"]
    /\ todo' = [todo EXCEPT ![w] = {}]
    /\ cur' = [cur EXCEPT ![w] = Absent]
    /\ bill' = [bill EXCEPT ![w] = 0]
    /\ UNCHANGED <<balance, rows, vm, pools, addr, queue, requests,
                   paid, granted, credited>>

(***************************************************************************)
(* Time, in which no call and no tick is in the middle of the subscription *)
(* it passes for: they take seconds.                                       *)
(* The jobs, as far as they write what is modelled here.                   *)
(***************************************************************************)
Quiet(s) ==
    /\ \A r \in Handlers : Sub(r) = s => stage[r] \in {"new", "done", "failed"}
    /\ \A w \in Runners : cur[w] # s

PeriodEnds(s) ==
    /\ Quiet(s)
    /\ status[s] = "active" /\ ~due[s] /\ granted[s] < MaxPeriods
    /\ due' = [due EXCEPT ![s] = TRUE]
    /\ UNCHANGED <<balance, status, plan, overdue, refunded, vm, pools, addr, queue,
                   requests, ticks, tally>>

GraceElapses(s) ==
    /\ Quiet(s)
    /\ status[s] = "grace_period" /\ ~overdue[s]
    /\ overdue' = [overdue EXCEPT ![s] = TRUE]
    /\ UNCHANGED <<balance, status, plan, due, refunded, vm, pools, addr, queue,
                   requests, ticks, tally>>

\* resizeAllocation compares the growth with what the others leave over.
Resizable(j) ==
    /\ home[j.sub] # Absent
    /\ j.cores - size[j.sub] <= total[home[j.sub]] - (UsedOf(home[j.sub]) - size[j.sub])

\* The consumer waits for the lock of the pool's row.
Reachable(j) == j.kind = "resize" /\ home[j.sub] # Absent => poolHolder[home[j.sub]] = Absent

\* A payload without a vmid, a VM that is gone and a pool that is full make a
\* job fail; ProxmoxJobs has the other failures.
Doable(j) ==
    j.kind \in Addressed /\ vm[j.sub] # "deleted" /\ (j.kind = "resize" => Resizable(j))

FinishJob(j) ==
    /\ Reachable(j) /\ Doable(j)
    /\ \/ /\ j.kind \in {"create", "resume"} /\ vm' = [vm EXCEPT ![j.sub] = "running"]
          /\ UNCHANGED <<home, size>>
       \/ /\ j.kind = "resize" /\ vm' = [vm EXCEPT ![j.sub] = "running"]
          /\ size' = [size EXCEPT ![j.sub] = j.cores] /\ UNCHANGED home
       \/ /\ j.kind = "delete" /\ vm' = [vm EXCEPT ![j.sub] = "deleted"]
          /\ home' = [home EXCEPT ![j.sub] = Absent] /\ size' = [size EXCEPT ![j.sub] = 0]
    /\ queue' = queue \ {j}
    /\ UNCHANGED <<balance, rows, total, poolHolder, addr, requests, ticks, tally>>

FailJob(j) ==
    /\ Reachable(j) /\ ~Doable(j)
    /\ vm' = [vm EXCEPT ![j.sub] = "error"]
    /\ queue' = queue \ {j}
    /\ UNCHANGED <<balance, rows, pools, addr, requests, ticks, tally>>

Subscribe(r) ==
    CheckPlan(r) \/ PayFirstPeriod(r) \/ RefuseSubscribe(r) \/ TakePool(r) \/ LockPool(r)
    \/ Admit(r) \/ LosePayment(r) \/ CreateSubscription(r) \/ QueueCreate(r)

ChangePlan(r) == ReadPlan(r) \/ PayDifference(r) \/ WritePlan(r) \/ QueueResize(r)

Refund(r) ==
    ReadRefunded(r) \/ CreditWallet(r) \/ AutoResume(r) \/ WriteRefunded(r) \/ AbortRefund(r)

Tick(w) ==
    StartRenewals(w) \/ ReadDue(w) \/ ChargeRenewal(w) \/ RefuseRenewal(w) \/ Renew(w)
    \/ EnterGrace(w) \/ StartGrace(w) \/ QueueDelete(w) \/ Expire(w)

SubNext ==
    \/ \E r \in Handlers : Subscribe(r) \/ CheckCancel(r) \/ Cancel(r) \/ ChangePlan(r) \/ Refund(r)
    \/ \E w \in Runners : Tick(w) \/ BreakTick(w)
    \/ \E s \in Subs : PeriodEnds(s) \/ GraceElapses(s)
    \/ \E j \in queue : FinishJob(j) \/ FailJob(j)

SubSpec == SubInit /\ [][SubNext]_subVars

(***************************************************************************)
(* Fairness: a call or a tick that has begun goes on; the repeatable jobs  *)
(* of BillingJobConsumer come up again and again in a first-in-first-out   *)
(* queue, so neither keeps the other from its turn; time passes.           *)
(***************************************************************************)
GoOn(r) ==
    /\ stage[r] # "new"
    /\ Subscribe(r) \/ Cancel(r) \/ ChangePlan(r) \/ Refund(r)

Fairness ==
    /\ \A r \in Handlers : WF_subVars(GoOn(r))
    /\ \A w \in Runners : WF_subVars(step[w] # "idle" /\ Tick(w))
    /\ SF_subVars(StartRenewals(Consumer)) /\ SF_subVars(StartGrace(Consumer))
    /\ \A s \in Subs : SF_subVars(GraceElapses(s))

SubFairSpec == SubSpec /\ Fairness

-----------------------------------------------------------------------------
VmStatuses == {"none", "provisioning", "running", "suspended", "deleted", "error"}

\* Every variable holds a value of the column or local variable it stands for.
SubTypeOK ==
    /\ balance \in [Customers -> Nat]
    /\ status \in [Subs -> Statuses] /\ plan \in [Subs -> Plans \cup {Absent}]
    /\ due \in [Subs -> BOOLEAN] /\ overdue \in [Subs -> BOOLEAN]
    /\ refunded \in [Subs -> Nat] /\ vm \in [Subs -> VmStatuses]
    /\ total \in [Pools -> Nat] /\ home \in [Subs -> Pools \cup {Absent}]
    /\ size \in [Subs -> Nat]
    /\ poolHolder \in [Pools -> Handlers \cup {Absent}]
    /\ addr \in [Ips -> Subs \cup {Absent}]
    /\ queue \subseteq [sub : Subs, kind : {"create", "resize", "resume", "delete"}, cores : Nat]
    /\ call \in [Handlers -> Calls]
    /\ stage \in [Handlers -> {"new", "checked", "created", "found", "written", "credited",
                            "resumed", "done", "failed"} \cup Paying]
    /\ pool \in [Handlers -> Pools \cup {Absent}] /\ former \in [Handlers -> Nat]
    /\ ip \in [Handlers -> Ips \cup {Absent}]
    /\ todo \in [Runners -> SUBSET Subs]
    /\ step \in [Runners -> {"idle", "renewing", "charging", "charged", "refused",
                             "expiring", "queued"}]
    /\ cur \in [Runners -> Subs \cup {Absent}] /\ bill \in [Runners -> Nat]
    /\ paid \in [Subs -> Nat] /\ granted \in [Subs -> Nat] /\ wasted \in [Subs -> Nat]
    /\ credited \in [Subs -> Nat] /\ breaks \in Nat

\* Every charge for a period has bought the customer exactly one period, or is
\* about to, or is lost in one of the ways that 'wasted' counts (a pool that
\* refuses, a crash, two ticks at one period); no period is given for nothing.
Buying(s) ==
    Cardinality({r \in Handlers : Sub(r) = s /\ call[r].op = "subscribe" /\ stage[r] \in Paying})
    + Cardinality({w \in Runners : cur[w] = s /\ step[w] = "charged"})

ChargesAccountedFor ==
    \A s \in Subs : paid[s] = granted[s] + wasted[s] + Buying(s)

\* A VM is deleted, and its deletion is queued, only while its subscription is
\* not active: no cancellation, renewal or second tick in between brings back a
\* subscription whose VM is going.
ActiveKeepsVm ==
    \A s \in Subs : status[s] = "active" =>
        vm[s] # "deleted" /\ Job(s, "delete", 0) \notin queue

\* The recorded total of an administrator's refunds never exceeds what was
\* credited, whichever refund overwrites the other and wherever one stops.
RefundsBacked == \A s \in Subs : refunded[s] <= credited[s]

\* A period that has ended is renewed, put into grace or given up, and nobody
\* stays in grace: the subscription expires or is cancelled.
EveryPeriodSettles ==
    \A s \in Subs :
        /\ IsDue(s) ~> ~IsDue(s)
        /\ status[s] = "grace_period" ~> status[s] # "grace_period"
=============================================================================
