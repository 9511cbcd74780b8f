------------------------------- MODULE Wallet -------------------------------
(***************************************************************************)
(* WalletService.credit, debit and getOrCreateWallet on PostgreSQL.        *)
(*                                                                         *)
(* Every call runs in a transaction of its own at READ COMMITTED, one      *)
(* statement per step, and is interleaved with the other calls.  A write   *)
(* stays in next, with the wallet row locked, until the    *)
(* commit publishes it; an abort (an exception, the transaction timeout, a *)
(* crash of the API process) drops it.  An UPDATE waits for the row lock   *)
(* and then works on the committed row; the unique index on Wallet.userId  *)
(* makes a second INSERT wait for the first and fail once that commits.    *)
(***************************************************************************)
EXTENDS Sums

CONSTANTS Users,      \* the owners of wallets
          Requests,   \* the concurrent calls of this service
          Calls,      \* what a call can ask for; amounts are in cents
          NoRequest   \* holder of a wallet row nobody has locked

ASSUME RequestsAssumption == IsFiniteSet(Requests) /\ NoRequest \notin Requests
ASSUME CallsAssumption ==
    Calls \subseteq [op : {"credit", "debit", "get"}, user : Users, amount : Int]

VARIABLES
    wallets,   \* the users whose Wallet row is committed
    balance,   \* the committed balance column (0 without a row)
    ledger,    \* the committed Transaction row of each request (0: no row)
    holder,    \* the transaction that holds the user's wallet row
    call,      \* what each request asks for
    pc,        \* how far each request is
    old,       \* the balance that its findByUser returned
    next,      \* the uncommitted balance of the row it holds
    after      \* the balanceAfter of its audit row

vars == <<wallets, balance, ledger, holder, call, pc, old, next, after>>

\* A request is new; has read the wallet row or its absence (found, missing);
\* has inserted, updated and recorded inside its transaction; and ends
\* committed or failed.
\* Mutant: what follows the commit can still fail the call.
InTxAndResume ==
    {"found", "missing", "created", "applied", "recorded", "committed"}

InTx == {"found", "missing", "created", "applied", "recorded"}
Phases == {"new", "committed", "failed"} \cup InTx

Init ==
    /\ wallets = {}
    /\ balance = [u \in Users |-> 0]
    /\ ledger = [r \in Requests |-> 0]
    /\ holder = [u \in Users |-> NoRequest]
    /\ call \in [Requests -> Calls]
    /\ pc = [r \in Requests |-> "new"]
    /\ old = [r \in Requests |-> 0]
    /\ next = [r \in Requests |-> 0]
    /\ after = [r \in Requests |-> 0]

Op(r) == call[r].op
User(r) == call[r].user
Amount(r) == call[r].amount

\* The signed amount of the request's ledger row.
Delta(r) == IF Op(r) = "debit" THEN -Amount(r) ELSE Amount(r)

\* Mutant: the balance that findByUser returned.
StaleBalance(r) == old[r]

\* The user's balance as the request's own statements see it.
Visible(r) == IF holder[User(r)] = r THEN next[r] ELSE balance[User(r)]

\* Mutant: the check-then-act of finding C-3.
CoveredBefore(r) == old[r] >= Amount(r)

\* where: { balance: { gte: amount } }
Covered(r) == Visible(r) >= Amount(r)

\* Mutant: computed from the balance read first.
BalanceAfterOfRead(r) ==
    IF Op(r) = "debit" THEN old[r] - Amount(r) ELSE old[r] + Amount(r)

\* The balanceAfter of the audit row: a debit reads its row again, a credit
\* adds the amount to the balance it read first.
BalanceAfter(r) ==
    IF Op(r) = "debit" THEN Visible(r) ELSE old[r] + Amount(r)

RowFree(r) == holder[User(r)] \in {NoRequest, r}

Goto(r, phase) == pc' = [pc EXCEPT ![r] = phase]

\* Mutant: the row is locked for the user instead of the transaction.
LockForUser(r) == holder' = [holder EXCEPT ![User(r)] = User(r)]

Lock(r) == holder' = [holder EXCEPT ![User(r)] = r]

\* Mutant: an aborted transaction keeps its row.
ReleaseAtCommit(r) ==
    holder' = [u \in Users |->
                  IF holder[u] = r /\ pc[r] = "recorded" THEN NoRequest
                  ELSE holder[u]]

Release(r) ==
    holder' = [u \in Users |-> IF holder[u] = r THEN NoRequest ELSE holder[u]]

committed == <<wallets, balance, ledger, call>>

-----------------------------------------------------------------------------
(* The statements of one call, in order.                                   *)

\* The transaction is rolled back: nothing it wrote was visible.
Rollback(r) ==
    /\ Goto(r, "failed")
    /\ Release(r)
    /\ UNCHANGED <<committed, old, next, after>>

RejectAmount(r) ==
    /\ pc[r] = "new" /\ Op(r) # "get" /\ Amount(r) <= 0
    /\ Rollback(r)

Find(r) ==
    /\ pc[r] = "new"
    /\ Op(r) = "get" \/ Amount(r) > 0
    /\ Goto(r, IF User(r) \in wallets THEN "found" ELSE "missing")
    /\ old' = [old EXCEPT ![r] = balance[User(r)]]
    /\ UNCHANGED <<committed, holder, next, after>>

\* The INSERT of the missing row, inside the transaction of a credit or debit.
CreateWallet(r) ==
    /\ pc[r] = "missing" /\ Op(r) # "get"
    /\ User(r) \notin wallets /\ RowFree(r)
    /\ Lock(r)
    /\ next' = [next EXCEPT ![r] = 0]
    /\ Goto(r, "created")
    /\ UNCHANGED <<committed, old, after>>

\* The same INSERT from getOrCreateWallet, which opens no transaction.
CreateAndCommit(r) ==
    /\ pc[r] = "missing" /\ Op(r) = "get"
    /\ User(r) \notin wallets /\ RowFree(r)
    /\ wallets' = wallets \cup {User(r)}
    /\ Goto(r, "committed")
    /\ UNCHANGED <<balance, ledger, call, holder, old, next, after>>

\* Somebody else's INSERT committed after Find: unique violation (P2002).
CreateConflict(r) ==
    /\ pc[r] = "missing" /\ User(r) \in wallets
    /\ Rollback(r)

GetDone(r) ==
    /\ pc[r] = "found" /\ Op(r) = "get"
    /\ Goto(r, "committed")
    /\ UNCHANGED <<committed, holder, old, next, after>>

\* balance: { increment: amount }
ApplyCredit(r) ==
    /\ pc[r] \in {"found", "created"} /\ Op(r) = "credit" /\ RowFree(r)
    /\ Lock(r)
    /\ next' = [next EXCEPT ![r] = Visible(r) + Amount(r)]
    /\ Goto(r, "applied")
    /\ UNCHANGED <<committed, old, after>>

\* updateMany where balance >= amount, with one row updated.
ApplyDebit(r) ==
    /\ pc[r] \in {"found", "created"} /\ Op(r) = "debit" /\ RowFree(r)
    /\ Covered(r)
    /\ Lock(r)
    /\ next' = [next EXCEPT ![r] = Visible(r) - Amount(r)]
    /\ Goto(r, "applied")
    /\ UNCHANGED <<committed, old, after>>

\* No row matches, so no lock is waited for: "Insufficient balance" is thrown
\* and a wallet inserted by this transaction goes with it.
DebitRefused(r) ==
    /\ pc[r] \in {"found", "created"} /\ Op(r) = "debit"
    /\ ~Covered(r)
    /\ Rollback(r)

\* The Transaction row and the audit row.
Record(r) ==
    /\ pc[r] = "applied"
    /\ after' = [after EXCEPT ![r] = BalanceAfter(r)]
    /\ Goto(r, "recorded")
    /\ UNCHANGED <<committed, holder, old, next>>

\* An answer lost after this point is the caller's crash, not the wallet's.
Commit(r) ==
    /\ pc[r] = "recorded"
    /\ wallets' = wallets \cup {User(r)}
    /\ balance' = [balance EXCEPT ![User(r)] = next[r]]
    /\ ledger' = [ledger EXCEPT ![r] = Delta(r)]
    /\ Release(r)
    /\ Goto(r, "committed")
    /\ UNCHANGED <<call, old, next, after>>

\* The transaction timeout, a lost connection or a crash between statements.
Abort(r) ==
    /\ pc[r] \in InTx
    /\ Rollback(r)

Step(r) ==
    \/ RejectAmount(r) \/ Find(r)
    \/ CreateWallet(r) \/ CreateAndCommit(r) \/ CreateConflict(r) \/ GetDone(r)
    \/ ApplyCredit(r) \/ ApplyDebit(r) \/ DebitRefused(r)
    \/ Record(r) \/ Commit(r)

Next == \E r \in Requests : Step(r) \/ Abort(r)

\* The event loop resumes every call, and the database answers every statement.
Fairness == \A r \in Requests : WF_vars(Step(r))

Spec == Init /\ [][Next]_vars

FairSpec == Spec /\ Fairness

-----------------------------------------------------------------------------
(* Properties.                                                             *)

TypeOK ==
    /\ wallets \subseteq Users
    /\ balance \in [Users -> Int]
    /\ ledger \in [Requests -> Int]
    /\ holder \in [Users -> Requests \cup {NoRequest}]
    /\ call \in [Requests -> Calls]
    /\ pc \in [Requests -> Phases]
    /\ old \in [Requests -> Int]
    /\ next \in [Requests -> Int]
    /\ after \in [Requests -> Int]

\* The user's part of each ledger row.
Share(u) == [r \in Requests |-> IF User(r) = u THEN ledger[r] ELSE 0]

\* The balance column is exactly the sum of the user's ledger rows: no update
\* is lost between two calls and no row appears without its effect.
Conservation == \A u \in Users : balance[u] = SumOver(Share(u), Requests)

\* Concurrent debits never overdraw a wallet (finding C-3 of the billing
\* security audit, fixed by the conditional updateMany).
NoOverdraft == \A u \in Users : balance[u] >= 0

\* A caller told that its credit or debit succeeded has exactly its ledger
\* row, and a caller told that it failed has none: a retry after an error
\* cannot apply twice.
OutcomeMatchesLedger ==
    \A r \in Requests :
        ledger[r] = IF pc[r] = "committed" /\ Op(r) # "get"
                    THEN Delta(r) ELSE 0

\* The balanceAfter in the audit row of a debit is the balance its commit
\* publishes, whatever ran in between.
DebitAuditExact ==
    [][\A r \in Requests :
         Commit(r) /\ Op(r) = "debit" =>
             after[r] = balance'[User(r)]]_vars

\* Every call is answered: no interleaving leaves it waiting for a row.
EveryCallAnswered ==
    \A r \in Requests : <>(pc[r] \in {"committed", "failed"})

\* The wallet implements its promise: a commit is the indivisible step, and
\* everything else stutters.
Abstract == INSTANCE AbstractWallet WITH
    Amounts <- {c.amount : c \in Calls},
    entry <- [r \in Requests |->
                IF ledger[r] # 0 THEN <<User(r), ledger[r]>> ELSE <<>>]

ImplementsAbstract == Abstract!Spec
=============================================================================
