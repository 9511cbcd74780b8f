----------------------------- MODULE Purchases -----------------------------
(***************************************************************************)
(* What customers buy or redeem: vouchers, referral codes, resource        *)
(* packages, subscriptions at a coupon's price and add-ons of a VM.        *)
(*                                                                         *)
(* Each of these calls changes a wallet and rows.  The wallet changes in a *)
(* transaction of its own, which needs a second connection of the pool     *)
(* while the outer transaction keeps the first and its row locks.  An      *)
(* outer transaction that takes longer than Prisma allows is rolled back   *)
(* while the call goes on until its next statement.                        *)
(***************************************************************************)
EXTENDS Sums

CONSTANTS Users, Items,
          Orders,       \* the calls that run concurrently
          Kind,         \* what each item is
          Limit,        \* maxRedemptions, maxUses or serverLimit; 0 is none
          Amount,       \* what a voucher credits
          Price,        \* what is left to pay: plan_coupon, package, coupon, addon
          Asks,         \* who may ask for what
          AsksOf,       \* what each call may ask for
          Rewards,      \* settings of the referral rewards
          Balances,     \* what wallets may hold at the start
          Connections,  \* the size of the connection pool
          MaxFaults,    \* bound of the exploration
          None

Vouchers == {"credits", "plan_trial", "plan_coupon"}
Checked == {"referral", "package", "coupon"}  \* limits read before the transaction

ASSUME PurchasesAssumption ==
    /\ IsFiniteSet(Orders) /\ IsFiniteSet(Users)
    /\ Kind \in [Items -> Vouchers \cup Checked \cup {"addon"}]
    /\ Limit \in [Items -> Nat] /\ Amount \in [Items -> Nat] /\ Price \in [Items -> Nat]
    /\ \A i \in Items : Kind[i] \in Vouchers => Amount[i] > 0
    /\ Asks \subseteq [user : Users, item : Items]
    /\ AsksOf \in [Orders -> SUBSET Asks]
    /\ Rewards \subseteq [referrer : Nat, referee : Nat]
    /\ Balances \subseteq Nat /\ Connections \in Nat \ {0}
    /\ None \notin Users \cup Items \cup Orders

VARIABLES
    balance,          \* the wallets
    uses,             \* currentRedemptions of vouchers, uses of referral codes
    rows,             \* the calls whose redemption, usage or purchase is stored
    owner,            \* the user of a referral code
    closed, deleted,  \* items deactivated or expired; packages deleted
    reward,           \* the referral settings
    holder,           \* row locks: of an item, and of the usage row of a user
    open,             \* calls with an outer transaction, hence a connection
    ask, stage,          \* calls
    offer,            \* the rewards a call has read
    jobs,             \* calls that have queued a job
    got, spent,       \* history: what a call credited and debited
    faulty,           \*   calls that a fault has hit
    overlapped,       \*   items whose checks overlapped
    faults

items == <<uses, rows, owner, closed, deleted, reward>>
process == <<ask, offer, jobs>>
history == <<got, spent, faulty, overlapped, faults>>
purVars == <<balance, items, holder, open, stage, process, history>>

Wanted == {ask[c].item : c \in Orders}   \* the other items stay as they are
Codes == {i \in Items : Kind[i] = "referral"}

PurInit ==
    /\ balance \in [Users -> Balances]
    /\ uses = [i \in Items |-> 0]
    /\ rows = {}
    /\ owner \in [Items -> Users \cup {None}]
    /\ \A i \in Items : owner[i] = None   \* codes are generated below
    /\ closed = {} /\ deleted = {}
    /\ reward \in Rewards
    /\ holder = [l \in Items \cup Users |-> None]
    /\ open = {}
    /\ ask \in [Orders -> Asks] /\ \A c \in Orders : ask[c] \in AsksOf[c]
    /\ stage = [c \in Orders |-> "new"]
    /\ offer = [c \in Orders |-> reward]
    /\ jobs = {}
    /\ got = [c \in Orders |-> 0]
    /\ spent = [c \in Orders |-> 0]
    /\ faulty = {} /\ overlapped = {} /\ faults = 0

User(c) == ask[c].user
Item(c) == ask[c].item
KindOf(c) == Kind[Item(c)]
At(c, kinds, phase) == KindOf(c) \in kinds /\ stage[c] = phase
Reach(c, phase) == stage' = [stage EXCEPT ![c] = phase]
Stored(i) == {c \in rows : Item(c) = i}
StoredBy(u, i) == {c \in Stored(i) : User(c) = u}

Free == Cardinality(open) < Connections
Begin(c) == Free /\ open' = open \cup {c}

\* The end of the outer transaction of c, by a commit or a rollback.
End(c) ==
    /\ open' = open \ {c}
    /\ holder' = [l \in DOMAIN holder |-> IF holder[l] = c THEN None ELSE holder[l]]

Fail(c) == End(c) /\ Reach(c, "failed")

\* WalletService.credit and debit, which refuse an amount of 0.
CanCredit(amount) == Free /\ amount > 0
CanDebit(u, amount) == Free /\ amount > 0 /\ balance[u] >= amount
Credit(c, u, amount) ==
    /\ CanCredit(amount)
    /\ balance' = [balance EXCEPT ![u] = @ + amount]
    /\ got' = [got EXCEPT ![c] = @ + amount]
Debit(c) ==
    /\ CanDebit(User(c), Price[Item(c)])
    /\ balance' = [balance EXCEPT ![User(c)] = @ - Price[Item(c)]]
    /\ spent' = [spent EXCEPT ![c] = @ + Price[Item(c)]]

(***************************************************************************)
(* redeemVoucher                                                           *)
(***************************************************************************)
BeginRedeem(c) ==
    /\ At(c, Vouchers, "new")
    /\ Item(c) \notin closed
    /\ StoredBy(User(c), Item(c)) = {}
    /\ Begin(c)
    /\ Reach(c, "begun")
    /\ UNCHANGED <<balance, items, holder, process, history>>

\* Mutant: the update is not conditional.
TakeVoucherAnyway(c) ==
    /\ At(c, Vouchers, "begun") /\ c \in open
    /\ holder[Item(c)] = None
    /\ StoredBy(User(c), Item(c)) = {}
    /\ holder' = [holder EXCEPT ![Item(c)] = c]
    /\ Reach(c, "taken")
    /\ UNCHANGED <<balance, items, open, process, history>>

\* The conditional updateMany waits for the row of the voucher and reads it
\* again; the insert of the redemption then meets the unique (voucher, user).
TakeVoucher(c) ==
    /\ At(c, Vouchers, "begun") /\ c \in open
    /\ holder[Item(c)] = None
    /\ Item(c) \notin closed
    /\ Limit[Item(c)] > 0 => uses[Item(c)] < Limit[Item(c)]
    /\ StoredBy(User(c), Item(c)) = {}
    /\ holder' = [holder EXCEPT ![Item(c)] = c]
    /\ Reach(c, "taken")
    /\ UNCHANGED <<balance, items, open, process, history>>

CreditVoucher(c) ==
    /\ At(c, Vouchers, "taken")
    /\ Credit(c, User(c), Amount[Item(c)])
    /\ Reach(c, IF KindOf(c) = "plan_coupon" /\ Price[Item(c)] > 0 THEN "owing" ELSE "paid")
    /\ UNCHANGED <<items, holder, open, process, spent, faulty, overlapped, faults>>

\* Mutant: the plan is looked at after the credit.
RefusePlanLate(c) ==
    /\ At(c, Vouchers, "new") \/ At(c, {"plan_trial"}, "paid")
    /\ Fail(c)
    /\ UNCHANGED <<balance, items, process, history>>

\* The voucher is invalid, used up or already redeemed; or its plan is inactive.
RefuseVoucher(c) ==
    /\ \/ At(c, Vouchers, "new")
       \/ /\ At(c, Vouchers, "begun")
          /\ holder[Item(c)] = None
          /\ \/ Item(c) \in closed
             \/ Limit[Item(c)] > 0 /\ uses[Item(c)] >= Limit[Item(c)]
             \/ StoredBy(User(c), Item(c)) # {}
       \/ At(c, Vouchers \ {"credits"}, "taken")
    /\ Fail(c)
    /\ UNCHANGED <<balance, items, process, history>>

(***************************************************************************)
(* redeemReferral.  Every check comes before the transaction; in it the    *)
(* increment is unconditional, and the referred user's usage is unique.    *)
(***************************************************************************)
Checking(i) == {c \in Orders : Item(c) = i /\ stage[c] \notin {"new", "done", "failed"}}
Overlap(c) == overlapped' = IF Checking(Item(c)) = {} THEN overlapped
                                                     ELSE overlapped \cup {Item(c)}

Referred(u) == {c \in rows : KindOf(c) = "referral" /\ User(c) = u}

CheckReferral(c) ==
    /\ At(c, {"referral"}, "new")
    /\ Item(c) \notin closed
    /\ Limit[Item(c)] > 0 => uses[Item(c)] < Limit[Item(c)]
    /\ owner[Item(c)] \notin {None, User(c)}
    /\ Referred(User(c)) = {}
    /\ offer' = [offer EXCEPT ![c] = reward]
    /\ Overlap(c)
    /\ Reach(c, "checked")
    /\ UNCHANGED <<balance, items, holder, open, ask, jobs, got, spent, faulty, faults>>

BeginReferral(c) ==
    /\ At(c, {"referral"}, "checked")
    /\ Begin(c)
    /\ Reach(c, "begun")
    /\ UNCHANGED <<balance, items, holder, process, history>>

\* createUsage and the increment.
UseReferral(c) ==
    /\ At(c, {"referral"}, "begun") /\ c \in open
    /\ holder[Item(c)] = None /\ holder[User(c)] = None
    /\ Referred(User(c)) = {}
    /\ holder' = [holder EXCEPT ![Item(c)] = c, ![User(c)] = c]
    /\ Reach(c, "taken")
    /\ UNCHANGED <<balance, items, open, process, history>>

CreditReferrer(c) ==
    /\ At(c, {"referral"}, "taken")
    /\ Credit(c, owner[Item(c)], offer[c].referrer)
    /\ Reach(c, "half")
    /\ UNCHANGED <<items, holder, open, process, spent, faulty, overlapped, faults>>

CreditReferee(c) ==
    /\ At(c, {"referral"}, "half")
    /\ Credit(c, User(c), offer[c].referee)
    /\ Reach(c, "paid")
    /\ UNCHANGED <<items, holder, open, process, spent, faulty, overlapped, faults>>

\* A check fails; the user has a usage by now; a reward of 0 is no credit.
RefuseReferral(c) ==
    /\ \/ At(c, {"referral"}, "new")
       \/ At(c, {"referral"}, "begun") /\ Referred(User(c)) # {}
       \/ At(c, {"referral"}, "taken") /\ offer[c].referrer = 0
       \/ At(c, {"referral"}, "half") /\ offer[c].referee = 0
    /\ Fail(c)
    /\ UNCHANGED <<balance, items, process, history>>

(***************************************************************************)
(* purchasePackage, and subscribe with a coupon as far as its coupon and   *)
(* its price go.  A package's limit counts the purchases of its user; the  *)
(* currentUses of a coupon is read, and written by nobody.                 *)
(***************************************************************************)
Purchased(c) == IF KindOf(c) = "package" THEN Cardinality(StoredBy(User(c), Item(c)))
                                         ELSE uses[Item(c)]

CheckPurchase(c) ==
    /\ At(c, {"package", "coupon"}, "new")
    /\ Item(c) \notin closed \cup deleted
    /\ Limit[Item(c)] > 0 => Purchased(c) < Limit[Item(c)]
    /\ Overlap(c)
    /\ Reach(c, "checked")
    /\ UNCHANGED <<balance, items, holder, open, process, got, spent, faulty, faults>>

BeginPurchase(c) ==
    /\ At(c, {"package", "coupon"}, "checked")
    /\ Begin(c)
    /\ Reach(c, "owing")
    /\ UNCHANGED <<balance, items, holder, process, history>>

(***************************************************************************)
(* purchaseAddOn: the debit, the rows, the job.                            *)
(***************************************************************************)
BuyAddOn(c) ==
    /\ At(c, {"addon"}, "new")
    /\ Reach(c, "owing")
    /\ UNCHANGED <<balance, items, holder, open, process, history>>

QueueAddOn(c) ==
    /\ At(c, {"addon"}, "stored")
    /\ \/ jobs' = jobs \cup {c} /\ UNCHANGED <<faulty, faults>>
       \/ UNCHANGED <<jobs, faulty, faults>>   \* no job for an add-on of this type
       \/ /\ faults < MaxFaults /\ faults' = faults + 1   \* Redis refuses it
          /\ faulty' = faulty \cup {c} /\ UNCHANGED jobs
    /\ Reach(c, "done")
    /\ UNCHANGED <<balance, items, holder, open, ask, offer, got, spent, overlapped>>

(***************************************************************************)
(* What these calls share: the debit, the commit and the ways to fail.     *)
(***************************************************************************)
Pay(c) ==
    /\ stage[c] = "owing"
    /\ Debit(c)
    /\ Reach(c, "paid")
    /\ UNCHANGED <<items, holder, open, process, got, faulty, overlapped, faults>>

RefusePurchase(c) ==
    /\ \/ At(c, {"package", "coupon", "addon"}, "new")
       \/ stage[c] = "owing" /\ Free /\ ~CanDebit(User(c), Price[Item(c)])
    /\ Fail(c)
    /\ UNCHANGED <<balance, items, process, history>>

Commit(c) ==
    /\ stage[c] = "paid"
    /\ c \in open \/ (KindOf(c) = "addon" /\ Free)
    /\ Item(c) \notin deleted
    /\ rows' = rows \cup {c}
    /\ uses' = IF KindOf(c) \in Vouchers \cup {"referral"}
               THEN [uses EXCEPT ![Item(c)] = @ + 1] ELSE uses
    /\ End(c)
    /\ Reach(c, IF KindOf(c) = "addon" THEN "stored" ELSE "done")
    /\ UNCHANGED <<balance, owner, closed, deleted, reward, process, history>>

\* createPurchase names a package that is no longer there.
LosePackage(c) ==
    /\ stage[c] = "paid" /\ Item(c) \in deleted
    /\ Fail(c)
    /\ UNCHANGED <<balance, items, process, history>>

NeedsConnection(c) ==
    \/ At(c, Vouchers, "new")
    \/ stage[c] \in {"checked", "taken", "half", "owing"}
    \/ At(c, {"addon"}, "paid")
NeedsRow(c) ==
    /\ stage[c] = "begun"
    /\ \/ holder[Item(c)] # None
       \/ KindOf(c) = "referral" /\ holder[User(c)] # None

\* Mutant: a nested transaction waits without a limit.
GiveUpFirst(c) ==
    /\ NeedsConnection(c) /\ ~Free /\ c \notin open
    /\ Fail(c)
    /\ faulty' = faulty \cup {c}
    /\ UNCHANGED <<balance, items, process, got, spent, overlapped, faults>>

\* maxWait: no connection became free.  The error ends the call.
GiveUp(c) ==
    /\ NeedsConnection(c) /\ ~Free
    /\ Fail(c)
    /\ faulty' = faulty \cup {c}
    /\ UNCHANGED <<balance, items, process, got, spent, overlapped, faults>>

\* A transaction that has waited for a row for too long, or is slow, is rolled
\* back under the feet of its call.
Timeout(c) ==
    /\ c \in open
    /\ \/ NeedsRow(c) /\ UNCHANGED faults
       \/ faults < MaxFaults /\ faults' = faults + 1
    /\ End(c)
    /\ faulty' = faulty \cup {c}
    /\ UNCHANGED <<balance, items, stage, process, got, spent, overlapped>>

\* The next statement of a call whose transaction was rolled back.
NoticeRollback(c) ==
    /\ c \in faulty \ open
    /\ \/ stage[c] \in {"begun", "paid"}
       \/ At(c, {"plan_trial", "plan_coupon"}, "taken")
       \/ At(c, {"plan_coupon"}, "owing")
    /\ Fail(c)
    /\ UNCHANGED <<balance, items, process, history>>

(***************************************************************************)
(* Administrators, owners of codes, and time                               *)
(***************************************************************************)
\* deactivateVoucher and voidVoucher wait for the row; or the item expires.
Close(i) ==
    /\ i \notin closed /\ Kind[i] # "addon" /\ holder[i] = None
    /\ closed' = closed \cup {i}
    /\ UNCHANGED <<balance, uses, rows, owner, deleted, reward, holder, open, stage, process,
                   history>>

\* The code's own check asks for the purchases of a user with the package's id
\* and finds none; the foreign key of the purchases is what refuses.
DeletePackage(i) ==
    /\ Kind[i] = "package" /\ i \notin deleted /\ Stored(i) = {}
    /\ deleted' = deleted \cup {i}
    /\ UNCHANGED <<balance, uses, rows, owner, closed, reward, holder, open, stage, process,
                   history>>

\* One code for a user: both columns are unique.
GenerateCode(u, i) ==
    /\ i \in Codes /\ owner[i] = None
    /\ \A j \in Codes : owner[j] # u
    /\ owner' = [owner EXCEPT ![i] = u]
    /\ UNCHANGED <<balance, uses, rows, closed, deleted, reward, holder, open, stage, process,
                   history>>

UpdateSettings(new) ==
    /\ reward # new /\ Codes \cap Wanted # {}
    /\ \/ reward' = [reward EXCEPT !.referrer = new.referrer]
       \/ reward' = [reward EXCEPT !.referee = new.referee]
    /\ UNCHANGED <<balance, uses, rows, owner, closed, deleted, holder, open, stage, process,
                   history>>

PurStep(c) ==
    \/ BeginRedeem(c) \/ TakeVoucher(c) \/ CreditVoucher(c) \/ RefuseVoucher(c)
    \/ CheckReferral(c) \/ BeginReferral(c) \/ UseReferral(c) \/ CreditReferrer(c)
    \/ CreditReferee(c) \/ RefuseReferral(c) \/ CheckPurchase(c) \/ BeginPurchase(c) \/ BuyAddOn(c)
    \/ QueueAddOn(c) \/ Pay(c) \/ RefusePurchase(c) \/ Commit(c) \/ LosePackage(c)
    \/ GiveUp(c) \/ Timeout(c) \/ NoticeRollback(c)

PurNext ==
    \/ \E c \in Orders : PurStep(c)
    \/ \E i \in Wanted : Close(i) \/ DeletePackage(i)
    \/ \E u \in Users, i \in Wanted : GenerateCode(u, i)
    \/ \E new \in Rewards : UpdateSettings(new)

PurSpec == PurInit /\ [][PurNext]_purVars

\* A call goes on until it is answered, without waiting for a fault: its
\* promises settle, or Prisma's time limits settle them.
PurFairSpec == PurSpec /\ \A c \in Orders : WF_purVars(PurStep(c) /\ UNCHANGED faults)

----------------------------------------------------------------------------
(***************************************************************************)
(* Properties                                                              *)
(***************************************************************************)
Stages == {"new", "begun", "checked", "taken", "half", "owing", "paid", "stored", "done", "failed"}

\* The variables hold what the columns and locals can hold.
PurTypeOK ==
    /\ balance \in [Users -> Nat] /\ uses \in [Items -> Nat]
    /\ rows \subseteq Orders /\ open \subseteq Orders /\ jobs \subseteq Orders
    /\ owner \in [Items -> Users \cup {None}]
    /\ closed \subseteq Items /\ deleted \subseteq Items
    /\ reward \in [referrer : Nat, referee : Nat]
    /\ holder \in [Items \cup Users -> Orders \cup {None}]
    /\ ask \in [Orders -> Asks] /\ stage \in [Orders -> Stages]
    /\ offer \in [Orders -> [referrer : Nat, referee : Nat]]
    /\ got \in [Orders -> Nat] /\ spent \in [Orders -> Nat]
    /\ faulty \subseteq Orders /\ overlapped \subseteq Items /\ faults \in Nat

\* A call that failed left the wallets as they were, or one of these happened:
\* a fault hit its outer transaction after the nested one had committed, the
\* price of a plan_coupon was not covered after its credit, the referrer was
\* paid and the referee's reward is 0, or the package was deleted under it.
FailureHasCause ==
    \A c \in Orders :
        stage[c] = "failed" /\ got[c] + spent[c] > 0 =>
            \/ c \in faulty
            \/ KindOf(c) = "plan_coupon" /\ spent[c] = 0 /\ got[c] = Amount[Item(c)]
            \/ KindOf(c) = "referral" /\ got[c] = offer[c].referrer /\ offer[c].referee = 0
            \/ Item(c) \in deleted

\* However redemptions interleave, wait and time out, a voucher is redeemed at
\* most maxRedemptions times, at most once by a user, and its counter is the
\* number of its redemptions (redeemVoucher: conditional update, unique rows).
VoucherWithinLimit(i) ==
    /\ uses[i] = Cardinality(Stored(i))
    /\ Limit[i] > 0 => uses[i] <= Limit[i]
    /\ \A u \in Users : Cardinality(StoredBy(u, i)) <= 1

\* The checks of redeemReferral and purchasePackage before their transactions
\* keep the limits as long as no two of them overlap.
CheckedWithinLimit(i) ==
    i \notin overlapped /\ Limit[i] > 0 =>
        IF Kind[i] = "referral" THEN uses[i] <= Limit[i]
        ELSE \A u \in Users : Cardinality(StoredBy(u, i)) <= Limit[i]

\* Nothing is redeemed or bought more often than it may be.
LimitsHold ==
    \A i \in Items : /\ Kind[i] \in Vouchers => VoucherWithinLimit(i)
                     /\ Kind[i] \in {"referral", "package"} => CheckedWithinLimit(i)

\* No call waits forever for a row or a connection.
EveryCallEnds == \A c \in Orders : stage[c] # "new" ~> stage[c] \in {"done", "failed"}
=============================================================================
