------------------------ MODULE AccountWalletProofs ------------------------
(***************************************************************************)
(* Accounts and wallets, for every set of users and every finite set of    *)
(* concurrent calls.                                                       *)
(*                                                                         *)
(* Wallets come first.  Conservation and NoOverdraft are not inductive:    *)
(* they survive a commit only because the balance it publishes was         *)
(* computed from the committed balance and nobody changed that since.  The *)
(* row lock guarantees it, and Pending says so; the rest of Inv is what    *)
(* Pending rests on.                                                       *)
(*                                                                         *)
(* Then accounts: an administrator exists, secrets are used once and the   *)
(* last one works.  AccInv is the inductive invariant they follow from.    *)
(***************************************************************************)
EXTENDS Wallet, Accounts, SumsProofs

USE RequestsAssumption

\* Only a transaction with an uncommitted write holds a row, and its own.
HoldersWrite ==
    \A u \in Users : \A r \in Requests : holder[u] = r =>
        pc[r] \in {"created", "applied", "recorded"} /\ User(r) = u

\* The uncommitted row of a transaction is the committed one, as it still
\* is, plus the transaction's own effect, and the row is locked.
Pending ==
    \A r \in Requests :
        /\ pc[r] = "created" =>
             /\ holder[User(r)] = r
             /\ User(r) \notin wallets
             /\ next[r] = 0
        /\ pc[r] \in {"applied", "recorded"} =>
             /\ holder[User(r)] = r
             /\ next[r] = balance[User(r)] + Delta(r)
             /\ next[r] >= 0

\* Calls past validation move a positive amount; a read that found the row
\* stays true because rows are never deleted.
Validated ==
    \A r \in Requests :
        /\ pc[r] \in InTx \cup {"committed"} /\ Op(r) # "get" =>
             Amount(r) > 0
        /\ pc[r] \in {"created", "applied", "recorded"} => Op(r) # "get"
        /\ pc[r] = "recorded" /\ Op(r) = "debit" =>
             after[r] = next[r]

NoRowNoMoney == \A u \in Users : u \notin wallets => balance[u] = 0

Inv ==
    /\ TypeOK
    /\ HoldersWrite
    /\ Pending
    /\ Validated
    /\ NoRowNoMoney
    /\ OutcomeMatchesLedger
    /\ NoOverdraft
    /\ Conservation

-----------------------------------------------------------------------------
\* What a request asks for is well typed, and so is the row it sees.
LEMMA CallTypes ==
  ASSUME TypeOK, NEW r \in Requests
  PROVE  /\ Op(r) \in {"credit", "debit", "get"} /\ User(r) \in Users
         /\ Amount(r) \in Int /\ Delta(r) \in Int /\ Visible(r) \in Int
<1>1. Op(r) \in {"credit", "debit", "get"} /\ User(r) \in Users /\ Amount(r) \in Int
  BY CallsAssumption DEF TypeOK, Op, User, Amount
<1>2. Delta(r) \in Int
  BY <1>1 DEF Delta
<1>3. Visible(r) \in Int
  BY <1>1 DEF Visible, TypeOK
<1> QED BY <1>1, <1>2, <1>3

\* A request never changes what it asks for.
LEMMA CallStable ==
  ASSUME call' = call
  PROVE  \A r : /\ Op(r)' = Op(r) /\ User(r)' = User(r)
               /\ Amount(r)' = Amount(r) /\ Delta(r)' = Delta(r)
  BY DEF Op, User, Amount, Delta

\* The empty database is well typed.
LEMMA InitTypeOK == Init => TypeOK
  BY DEF Init, TypeOK, Phases, InTx

\* Every step keeps the types.
LEMMA StepTypeOK ==
  ASSUME TypeOK, [Next]_vars
  PROVE  TypeOK'
<1>1. ASSUME NEW r \in Requests, Step(r) \/ Abort(r)
      PROVE  TypeOK'
  <2> USE CallTypes
      DEF TypeOK, Phases, InTx, committed, Goto, Lock, Release, Rollback
  <2>1. CASE RejectAmount(r)       BY <2>1 DEF RejectAmount
  <2>2. CASE Find(r)               BY <2>2 DEF Find
  <2>3. CASE CreateWallet(r)       BY <2>3 DEF CreateWallet
  <2>4. CASE CreateAndCommit(r)    BY <2>4 DEF CreateAndCommit
  <2>5. CASE CreateConflict(r)     BY <2>5 DEF CreateConflict
  <2>6. CASE GetDone(r)            BY <2>6 DEF GetDone
  <2>7. CASE ApplyCredit(r)        BY <2>7 DEF ApplyCredit
  <2>8. CASE ApplyDebit(r)         BY <2>8 DEF ApplyDebit
  <2>9. CASE DebitRefused(r)       BY <2>9 DEF DebitRefused
  <2>10. CASE Record(r)            BY <2>10 DEF Record, BalanceAfter
  <2>11. CASE Commit(r)            BY <2>11 DEF Commit
  <2>12. CASE Abort(r)             BY <2>12 DEF Abort
  <2> QED BY <1>1, <2>1, <2>2, <2>3, <2>4, <2>5, <2>6, <2>7, <2>8, <2>9,
             <2>10, <2>11, <2>12 DEF Step
<1>2. CASE UNCHANGED vars
  BY <1>2 DEF vars, TypeOK
<1> QED BY <1>1, <1>2 DEF Next

\* The types of every variable hold in every reachable state.
THEOREM TypeCorrect == Spec => []TypeOK
  BY InitTypeOK, StepTypeOK, PTL DEF Spec

-----------------------------------------------------------------------------
\* The invariant holds before any call.
LEMMA InitInv == Init => Inv
<1> SUFFICES ASSUME Init PROVE Inv
  OBVIOUS
<1>1. TypeOK
  BY InitTypeOK
<1>2. Conservation
  <2> SUFFICES ASSUME NEW u \in Users PROVE balance[u] = SumOver(Share(u), Requests)
    BY DEF Conservation
  <2>1. \A r \in Requests : Share(u)[r] = 0
    BY DEF Init, Share
  <2> DEFINE zero == [r \in Requests |-> 0]
  <2>2. SumOver(Share(u), Requests) = SumOver(zero, Requests)
    BY <2>1, SumCongruence
  <2>3. SumOver(zero, Requests) = 0
    BY SumOfZeros
  <2> QED BY <2>2, <2>3 DEF Init
<1>3. HoldersWrite /\ Pending /\ Validated /\ NoRowNoMoney
  BY <1>1 DEF Init, HoldersWrite, Pending, Validated, NoRowNoMoney, InTx
<1>4. OutcomeMatchesLedger /\ NoOverdraft
  BY DEF Init, OutcomeMatchesLedger, NoOverdraft
<1> QED BY <1>1, <1>2, <1>3, <1>4 DEF Inv

\* The ledger sums move only with the ledger.
LEMMA ConservationFrame ==
  ASSUME Conservation, balance' = balance, ledger' = ledger, call' = call
  PROVE  Conservation'
  BY DEF Conservation, Share, User

\* A rollback publishes nothing and gives the row back.
LEMMA RollbackInv ==
  ASSUME Inv, NEW r \in Requests, pc[r] # "committed", Rollback(r)
  PROVE  (HoldersWrite /\ Pending /\ Validated /\ NoRowNoMoney
          /\ OutcomeMatchesLedger /\ NoOverdraft /\ Conservation)'
<1> USE DEF Inv, Rollback, Goto, Release, committed
<1>1. call' = call /\ UNCHANGED <<wallets, balance, ledger, old, next, after>>
  OBVIOUS
<1>2. \A q \in Requests : pc'[q] = IF q = r THEN "failed" ELSE pc[q]
  BY DEF TypeOK
<1>3. \A q \in Requests \ {r}, u \in Users : holder'[u] = q <=> holder[u] = q
  BY DEF TypeOK
<1>4. \A u \in Users : holder'[u] # r
  BY DEF TypeOK
<1>5. HoldersWrite'
  BY <1>1, <1>2, <1>3, <1>4, CallStable DEF HoldersWrite
<1>6. Pending'
  BY <1>1, <1>2, <1>3, CallStable, CallTypes DEF Pending
<1>7. Validated'
  BY <1>1, <1>2, CallStable DEF Validated, InTx
<1>8. OutcomeMatchesLedger'
  BY <1>1, <1>2, CallStable DEF OutcomeMatchesLedger
<1>9. NoRowNoMoney' /\ NoOverdraft'
  BY <1>1 DEF NoRowNoMoney, NoOverdraft
<1> QED BY <1>1, <1>5, <1>6, <1>7, <1>8, <1>9, ConservationFrame

\* A step of one request that publishes nothing: the row lock (if it takes
\* one) was free, and the other requests see no change.
LEMMA LocalStepInv ==
  ASSUME Inv, TypeOK', NEW r \in Requests, NEW phase \in InTx,
         UNCHANGED committed, Goto(r, phase),
         pc[r] # "committed",
         \/ UNCHANGED holder
         \/ Lock(r) /\ RowFree(r),
         \A q \in Requests \ {r} : next'[q] = next[q] /\ after'[q] = after[q],
         HoldersWrite => \A u \in Users : holder'[u] = r =>
             phase \in {"created", "applied", "recorded"} /\ User(r) = u,
         Op(r) # "get" => Amount(r) > 0,
         phase \in {"created", "applied", "recorded"} => Op(r) # "get",
         phase = "recorded" /\ Op(r) = "debit" => after'[r] = next'[r],
         phase = "created" =>
             holder'[User(r)] = r /\ User(r) \notin wallets /\ next'[r] = 0,
         phase \in {"applied", "recorded"} =>
             /\ holder'[User(r)] = r
             /\ next'[r] = balance[User(r)] + Delta(r)
             /\ next'[r] >= 0
  PROVE  (HoldersWrite /\ Pending /\ Validated /\ NoRowNoMoney
          /\ OutcomeMatchesLedger /\ NoOverdraft /\ Conservation)'
<1> USE DEF Inv, committed
<1>1. call' = call /\ UNCHANGED <<wallets, balance, ledger>>
  OBVIOUS
<1>2. \A q \in Requests : pc'[q] = IF q = r THEN phase ELSE pc[q]
  BY DEF TypeOK, Goto
<1>3. \A q \in Requests \ {r}, u \in Users : holder'[u] = q <=> holder[u] = q
  <2>1. CASE UNCHANGED holder
    BY <2>1
  <2>2. CASE Lock(r) /\ RowFree(r)
    BY <2>2, CallTypes DEF TypeOK, Lock, RowFree
  <2> QED BY <2>1, <2>2
<1>4. HoldersWrite'
  <2> SUFFICES ASSUME NEW u \in Users, NEW q \in Requests, holder'[u] = q
               PROVE  /\ pc'[q] \in {"created", "applied", "recorded"}
                      /\ User(q)' = u
    BY DEF HoldersWrite
  <2>1. CASE q = r
    BY <2>1, <1>1, <1>2, CallStable
  <2>2. CASE q # r
    BY <2>2, <1>1, <1>2, <1>3, CallStable DEF HoldersWrite
  <2> QED BY <2>1, <2>2
<1>5. Pending'
  <2> SUFFICES ASSUME NEW q \in Requests
               PROVE  /\ pc'[q] = "created" =>
                           /\ holder'[User(q)] = q
                           /\ User(q) \notin wallets
                           /\ next'[q] = 0
                      /\ pc'[q] \in {"applied", "recorded"} =>
                           /\ holder'[User(q)] = q
                           /\ next'[q] = balance[User(q)] + Delta(q)
                           /\ next'[q] >= 0
    BY <1>1, CallStable DEF Pending
  <2>1. CASE q = r
    BY <2>1, <1>2
  <2>2. CASE q # r
    <3>1. User(q) \in Users
      BY CallTypes
    <3> QED BY <2>2, <3>1, <1>2, <1>3 DEF Pending
  <2> QED BY <2>1, <2>2
<1>6. Validated'
  <2> SUFFICES ASSUME NEW q \in Requests
               PROVE  /\ pc'[q] \in InTx \cup {"committed"} /\ Op(q) # "get" =>
                           Amount(q) > 0
                      /\ pc'[q] \in {"created", "applied", "recorded"} =>
                           Op(q) # "get"
                      /\ pc'[q] = "recorded" /\ Op(q) = "debit" =>
                           after'[q] = next'[q]
    BY <1>1, CallStable DEF Validated
  <2>1. CASE q = r
    BY <2>1, <1>2
  <2>2. CASE q # r
    BY <2>2, <1>2 DEF Validated
  <2> QED BY <2>1, <2>2
<1>7. OutcomeMatchesLedger'
  BY <1>1, <1>2, CallStable DEF OutcomeMatchesLedger, InTx
<1>8. NoRowNoMoney' /\ NoOverdraft'
  BY <1>1 DEF NoRowNoMoney, NoOverdraft
<1> QED BY <1>1, <1>4, <1>5, <1>6, <1>7, <1>8, ConservationFrame

\* A commit publishes exactly the effect that its ledger row records.
LEMMA CommitInv ==
  ASSUME Inv, TypeOK', NEW r \in Requests, Commit(r)
  PROVE  (HoldersWrite /\ Pending /\ Validated /\ NoRowNoMoney
          /\ OutcomeMatchesLedger /\ NoOverdraft /\ Conservation)'
<1> DEFINE w == User(r)
<1> USE DEF Inv
<1>1. /\ call' = call /\ next' = next /\ after' = after
      /\ pc[r] = "recorded" /\ wallets' = wallets \cup {w}
  BY DEF Commit
<1>2. w \in Users /\ Delta(r) \in Int /\ next[r] \in Int
  BY CallTypes DEF TypeOK
<1>3. \A q \in Requests : pc'[q] = IF q = r THEN "committed" ELSE pc[q]
  BY DEF TypeOK, Commit, Goto
<1>4. \A q \in Requests \ {r}, u \in Users : holder'[u] = q <=> holder[u] = q
  BY DEF TypeOK, Commit, Release
<1>5. \A u \in Users : holder'[u] # r
  BY DEF TypeOK, Commit, Release
<1>6. holder[w] = r /\ next[r] = balance[w] + Delta(r) /\ next[r] >= 0
  BY <1>1 DEF Pending
<1>7. \A u \in Users : balance'[u] = IF u = w THEN next[r] ELSE balance[u]
  BY <1>2 DEF TypeOK, Commit
<1>8. \A q \in Requests : ledger'[q] = IF q = r THEN Delta(r) ELSE ledger[q]
  BY DEF TypeOK, Commit
<1>9. HoldersWrite'
  BY <1>1, <1>3, <1>4, <1>5, CallStable DEF HoldersWrite
<1>10. ASSUME NEW q \in Requests \ {r},
              pc[q] \in {"created", "applied", "recorded"}
       PROVE  User(q) # w
  <2>1. holder[User(q)] = q
    BY <1>10 DEF Pending
  <2> QED BY <2>1, <1>6, <1>10
<1>11. Pending'
  <2> SUFFICES ASSUME NEW q \in Requests \ {r},
                      pc[q] \in {"created", "applied", "recorded"}
               PROVE  /\ pc[q] = "created" =>
                           /\ holder'[User(q)] = q
                           /\ User(q) \notin wallets'
                           /\ next[q] = 0
                      /\ pc[q] \in {"applied", "recorded"} =>
                           /\ holder'[User(q)] = q
                           /\ next[q] = balance'[User(q)] + Delta(q)
                           /\ next[q] >= 0
    BY <1>1, <1>3, CallStable DEF Pending
  <2>1. User(q) \in Users /\ User(q) # w
    BY <1>10, CallTypes
  <2> QED BY <2>1, <1>1, <1>4, <1>7 DEF Pending
<1>12. Validated'
  BY <1>1, <1>3, CallStable DEF Validated, InTx
<1>13. NoRowNoMoney'
  BY <1>1, <1>7 DEF NoRowNoMoney
<1>14. OutcomeMatchesLedger'
  <2>1. Op(r) # "get"
    BY <1>1 DEF Validated
  <2> QED BY <2>1, <1>1, <1>3, <1>8, CallStable DEF OutcomeMatchesLedger
<1>15. NoOverdraft'
  BY <1>6, <1>7 DEF NoOverdraft
<1>16. Conservation'
  <2> SUFFICES ASSUME NEW u \in Users
               PROVE  balance'[u] = SumOver(Share(u)', Requests)
    BY DEF Conservation
  <2>1. \A q \in Requests :
          /\ Share(u)[q] = IF User(q) = u THEN ledger[q] ELSE 0
          /\ Share(u)'[q] = IF User(q) = u THEN ledger'[q] ELSE 0
    BY <1>1, CallStable DEF Share
  <2>2. \A q \in Requests : Share(u)[q] \in Int /\ Share(u)'[q] \in Int
    BY <2>1, <1>2, <1>8 DEF TypeOK
  <2>3. \A q \in Requests \ {r} : Share(u)[q] = Share(u)'[q]
    BY <2>1, <1>8
  <2>4. SumOver(Share(u)', Requests)
          = SumOver(Share(u), Requests) - Share(u)[r] + Share(u)'[r]
    <3> HIDE DEF Inv
    <3> QED BY <2>2, <2>3, SumUpdate
  <2>5. Share(u)[r] = 0
    BY <2>1, <1>1 DEF OutcomeMatchesLedger
  <2>6. balance[u] = SumOver(Share(u), Requests) /\ balance[u] \in Int
    BY DEF Conservation, TypeOK
  <2>7. CASE u = w
    BY <2>7, <2>1, <2>4, <2>5, <2>6, <1>2, <1>6, <1>7, <1>8
  <2>8. CASE u # w
    BY <2>8, <2>1, <2>4, <2>5, <2>6, <1>7
  <2> QED BY <2>7, <2>8
<1> QED BY <1>9, <1>11, <1>12, <1>13, <1>14, <1>15, <1>16

\* The INSERT of getOrCreateWallet adds an empty wallet nobody is writing to.
LEMMA CreateAndCommitInv ==
  ASSUME Inv, NEW r \in Requests, CreateAndCommit(r)
  PROVE  (HoldersWrite /\ Pending /\ Validated /\ NoRowNoMoney
          /\ OutcomeMatchesLedger /\ NoOverdraft /\ Conservation)'
<1> USE DEF Inv
<1>1. /\ UNCHANGED <<balance, ledger, call, holder, next, after>>
      /\ Op(r) = "get" /\ wallets' = wallets \cup {User(r)}
      /\ holder[User(r)] \in {NoRequest, r} /\ pc[r] = "missing"
  BY DEF CreateAndCommit, RowFree
<1>2. \A q \in Requests : pc'[q] = IF q = r THEN "committed" ELSE pc[q]
  BY DEF TypeOK, CreateAndCommit, Goto
<1>3. HoldersWrite'
  BY <1>1, <1>2, CallStable DEF HoldersWrite
<1>4. Pending'
  <2>1. \A q \in Requests \ {r} : pc[q] = "created" => User(q) # User(r)
    BY <1>1 DEF Pending
  <2> QED BY <2>1, <1>1, <1>2, CallStable DEF Pending
<1>5. Validated'
  BY <1>1, <1>2, CallStable DEF Validated, InTx
<1>6. OutcomeMatchesLedger'
  BY <1>1, <1>2, CallStable DEF OutcomeMatchesLedger
<1>7. NoRowNoMoney' /\ NoOverdraft'
  BY <1>1 DEF NoRowNoMoney, NoOverdraft
<1> QED BY <1>1, <1>3, <1>4, <1>5, <1>6, <1>7, ConservationFrame

\* Taking a free row lock makes the request the holder of its user's row only.
LEMMA LockTakesRow ==
  ASSUME TypeOK, HoldersWrite, NEW r \in Requests, Lock(r)
  PROVE  /\ holder'[User(r)] = r
         /\ \A u \in Users : holder'[u] = r => User(r) = u
  BY CallTypes DEF TypeOK, HoldersWrite, Lock

\* Before it updates, a request sees the committed balance.
LEMMA VisibleIsCommitted ==
  ASSUME Inv, NEW r \in Requests, pc[r] \in {"found", "created"}
  PROVE  Visible(r) = balance[User(r)] /\ Visible(r) >= 0
<1>1. User(r) \in Users
  BY CallTypes DEF Inv
<1>2. CASE holder[User(r)] = r
  <2>1. pc[r] = "created"
    BY <1>1, <1>2 DEF Inv, HoldersWrite
  <2> QED BY <2>1, <1>1, <1>2 DEF Inv, Pending, NoRowNoMoney, Visible
<1>3. CASE holder[User(r)] # r
  BY <1>1, <1>3 DEF Inv, NoOverdraft, Visible
<1> QED BY <1>2, <1>3

\* Every statement of every call keeps the invariant.
LEMMA StepInv ==
  ASSUME Inv, [Next]_vars
  PROVE  Inv'
<1>1. TypeOK'
  BY StepTypeOK DEF Inv
<1>2. ASSUME NEW r \in Requests, Step(r) \/ Abort(r)
      PROVE  (HoldersWrite /\ Pending /\ Validated /\ NoRowNoMoney
              /\ OutcomeMatchesLedger /\ NoOverdraft /\ Conservation)'
  <2>1. CASE RejectAmount(r)
    BY <2>1, RollbackInv DEF RejectAmount
  <2>2. CASE CreateConflict(r)
    BY <2>2, RollbackInv DEF CreateConflict
  <2>3. CASE DebitRefused(r)
    BY <2>3, RollbackInv DEF DebitRefused
  <2>4. CASE Abort(r)
    BY <2>4, RollbackInv DEF Abort, InTx
  <2>5. CASE CreateAndCommit(r)
    BY <2>5, CreateAndCommitInv
  <2>6. CASE Commit(r)
    BY <2>6, <1>1, CommitInv
  <2>7. CASE GetDone(r)
    <3>1. UNCHANGED <<wallets, balance, ledger, call, holder, next, after>>
      BY <2>7 DEF GetDone, committed
    <3>2. \A q \in Requests : pc'[q] = IF q = r THEN "committed" ELSE pc[q]
      BY <2>7 DEF Inv, TypeOK, GetDone, Goto
    <3>3. Op(r) = "get" /\ pc[r] = "found"
      BY <2>7 DEF GetDone
    <3>4. HoldersWrite' /\ Pending'
      BY <3>1, <3>2, <3>3, CallStable DEF Inv, HoldersWrite, Pending
    <3>5. Validated' /\ OutcomeMatchesLedger'
      BY <3>1, <3>2, <3>3, CallStable
      DEF Inv, Validated, OutcomeMatchesLedger, InTx
    <3>6. NoRowNoMoney' /\ NoOverdraft'
      BY <3>1 DEF Inv, NoRowNoMoney, NoOverdraft
    <3> QED BY <3>1, <3>4, <3>5, <3>6, ConservationFrame DEF Inv
  <2>8. CASE Find(r)
    <3> DEFINE phase == IF User(r) \in wallets THEN "found" ELSE "missing"
    <3>1. phase \in {"found", "missing"} /\ Goto(r, phase)
      BY <2>8 DEF Find
    <3>2. \A u \in Users : holder[u] # r
      BY <2>8 DEF Find, Inv, HoldersWrite
    <3>3. UNCHANGED <<committed, holder, next, after>> /\ pc[r] = "new"
          /\ (Op(r) = "get" \/ Amount(r) > 0)
      BY <2>8 DEF Find
    <3> HIDE DEF phase
    <3> QED BY <1>1, <3>1, <3>2, <3>3, LocalStepInv DEF InTx
  <2>9. CASE CreateWallet(r)
    <3>1. /\ UNCHANGED <<committed, after>> /\ Lock(r) /\ RowFree(r)
          /\ Goto(r, "created") /\ pc[r] = "missing" /\ Op(r) # "get"
          /\ User(r) \notin wallets
      BY <2>9 DEF CreateWallet
    <3>2. next' = [next EXCEPT ![r] = 0]
      BY <2>9 DEF CreateWallet
    <3>3. next'[r] = 0 /\ \A q \in Requests \ {r} : next'[q] = next[q]
      BY <3>2 DEF Inv, TypeOK
    <3>4. holder'[User(r)] = r
          /\ (HoldersWrite => \A u \in Users : holder'[u] = r => User(r) = u)
      BY <3>1, LockTakesRow DEF Inv
    <3>5. Amount(r) > 0
      BY <3>1 DEF Inv, Validated, InTx
    <3> QED BY <1>1, <3>1, <3>3, <3>4, <3>5, LocalStepInv DEF InTx
  <2>10. CASE ApplyCredit(r)
    <3>1. /\ UNCHANGED <<committed, after>> /\ Lock(r) /\ RowFree(r)
          /\ Goto(r, "applied") /\ pc[r] \in {"found", "created"}
          /\ Op(r) = "credit"
      BY <2>10 DEF ApplyCredit
    <3>2. next' = [next EXCEPT ![r] = Visible(r) + Amount(r)]
      BY <2>10 DEF ApplyCredit
    <3>3. Visible(r) = balance[User(r)] /\ Visible(r) >= 0
      BY <3>1, VisibleIsCommitted
    <3>4. Amount(r) > 0 /\ Delta(r) = Amount(r)
      BY <3>1 DEF Inv, Validated, InTx, Delta
    <3>5. /\ next'[r] = Visible(r) + Amount(r)
          /\ \A q \in Requests \ {r} : next'[q] = next[q]
      BY <3>2 DEF Inv, TypeOK
    <3>6. holder'[User(r)] = r
          /\ (HoldersWrite => \A u \in Users : holder'[u] = r => User(r) = u)
      BY <3>1, LockTakesRow DEF Inv
    <3>7. next'[r] = balance[User(r)] + Delta(r) /\ next'[r] >= 0
      BY <3>3, <3>4, <3>5, CallTypes DEF Inv
    <3> QED BY <1>1, <3>1, <3>4, <3>5, <3>6, <3>7, LocalStepInv DEF InTx
  <2>11. CASE ApplyDebit(r)
    <3>1. /\ UNCHANGED <<committed, after>> /\ Lock(r) /\ RowFree(r)
          /\ Goto(r, "applied") /\ pc[r] \in {"found", "created"}
          /\ Op(r) = "debit" /\ Visible(r) >= Amount(r)
      BY <2>11 DEF ApplyDebit, Covered
    <3>2. next' = [next EXCEPT ![r] = Visible(r) - Amount(r)]
      BY <2>11 DEF ApplyDebit
    <3>3. Visible(r) = balance[User(r)]
      BY <3>1, VisibleIsCommitted
    <3>4. Amount(r) > 0 /\ Delta(r) = -Amount(r)
      BY <3>1 DEF Inv, Validated, InTx, Delta
    <3>5. /\ next'[r] = Visible(r) - Amount(r)
          /\ \A q \in Requests \ {r} : next'[q] = next[q]
      BY <3>2 DEF Inv, TypeOK
    <3>6. holder'[User(r)] = r
          /\ (HoldersWrite => \A u \in Users : holder'[u] = r => User(r) = u)
      BY <3>1, LockTakesRow DEF Inv
    <3>7. next'[r] = balance[User(r)] + Delta(r) /\ next'[r] >= 0
      BY <3>1, <3>3, <3>4, <3>5, CallTypes DEF Inv
    <3> QED BY <1>1, <3>1, <3>4, <3>5, <3>6, <3>7, LocalStepInv DEF InTx
  <2>12. CASE Record(r)
    <3>1. /\ UNCHANGED <<committed, holder, next>> /\ Goto(r, "recorded")
          /\ pc[r] = "applied"
      BY <2>12 DEF Record
    <3>2. /\ holder[User(r)] = r /\ next[r] = balance[User(r)] + Delta(r)
          /\ next[r] >= 0 /\ Op(r) # "get" /\ Amount(r) > 0
      BY <3>1 DEF Inv, Pending, Validated, InTx
    <3>3. Op(r) = "debit" => after'[r] = next[r]
      BY <2>12, <3>2 DEF Record, BalanceAfter, Visible, Inv, TypeOK
    <3>4. \A q \in Requests \ {r} : after'[q] = after[q]
      BY <2>12 DEF Record, BalanceAfter, Inv, TypeOK
    <3>5. \A u \in Users : holder[u] = r => User(r) = u
      BY DEF Inv, HoldersWrite
    <3> QED BY <1>1, <3>1, <3>2, <3>3, <3>4, <3>5, LocalStepInv DEF InTx
  <2> QED BY <1>2, <2>1, <2>2, <2>3, <2>4, <2>5, <2>6, <2>7, <2>8, <2>9,
             <2>10, <2>11, <2>12 DEF Step
<1>3. CASE UNCHANGED vars
  <2>1. UNCHANGED <<wallets, balance, ledger, holder, call, pc, old, next, after>>
    BY <1>3 DEF vars
  <2>2. HoldersWrite' /\ Pending'
    BY <2>1, CallStable DEF Inv, HoldersWrite, Pending
  <2>3. Validated' /\ OutcomeMatchesLedger'
    BY <2>1, CallStable DEF Inv, Validated, OutcomeMatchesLedger
  <2>4. NoRowNoMoney' /\ NoOverdraft'
    BY <2>1 DEF Inv, NoRowNoMoney, NoOverdraft
  <2> QED BY <1>1, <2>1, <2>2, <2>3, <2>4, ConservationFrame DEF Inv
<1> QED BY <1>1, <1>2, <1>3 DEF Next, Inv

\* The inductive invariant holds in every reachable state.
THEOREM Invariance == Spec => []Inv
  BY InitInv, StepInv, PTL DEF Spec

\* No interleaving of calls loses an update: in every reachable state the
\* balance column is the sum of the user's ledger rows.
THEOREM ConservationHolds == Spec => []Conservation
<1>1. Inv => Conservation
  BY DEF Inv
<1> QED BY <1>1, Invariance, PTL

\* No interleaving of debits overdraws a wallet.
THEOREM NoOverdraftHolds == Spec => []NoOverdraft
<1>1. Inv => NoOverdraft
  BY DEF Inv
<1> QED BY <1>1, Invariance, PTL

\* A call has its ledger row if and only if it reported success.
THEOREM OutcomeMatchesLedgerHolds == Spec => []OutcomeMatchesLedger
<1>1. Inv => OutcomeMatchesLedger
  BY DEF Inv
<1> QED BY <1>1, Invariance, PTL

\* The balance in the audit row of a debit is the one its commit publishes.
THEOREM DebitAuditExactHolds == Spec => DebitAuditExact
<1>1. ASSUME Inv
      PROVE  \A r \in Requests : Commit(r) /\ Op(r) = "debit" =>
               after[r] = balance'[User(r)]
  <2> SUFFICES ASSUME NEW r \in Requests, Commit(r), Op(r) = "debit"
               PROVE  after[r] = balance'[User(r)]
    OBVIOUS
  <2>1. after[r] = next[r]
    BY <1>1 DEF Commit, Inv, Validated
  <2>2. balance'[User(r)] = next[r]
    BY <1>1, CallTypes DEF Commit, Inv, TypeOK
  <2> QED BY <2>1, <2>2
<1> QED BY <1>1, Invariance, PTL DEF DebitAuditExact

\* Every step of the wallet is a step of its promise or leaves it unchanged,
\* so callers may be verified against the atomic AbstractWallet.
THEOREM Refinement == Spec => ImplementsAbstract
<1> DEFINE entry == [r \in Requests |->
                       IF ledger[r] # 0 THEN <<User(r), ledger[r]>> ELSE <<>>]
<1>1. Init => Abstract!Init
  BY DEF Init, Abstract!Init, Abstract!NoEntry
<1>2. ASSUME Inv, [Next]_vars
      PROVE  [Abstract!Next]_(Abstract!vars)
  <2>1. ASSUME NEW r \in Requests, Commit(r)
        PROVE  Abstract!Next
    <3> DEFINE u == User(r)  a == Amount(r)
    <3>1. /\ u \in Users /\ a \in {c.amount : c \in Calls} /\ a \in Int /\ a > 0
          /\ Op(r) \in {"credit", "debit"} /\ Delta(r) # 0
      <4>1. u \in Users /\ a \in {c.amount : c \in Calls} /\ a \in Int
            /\ Op(r) \in {"credit", "debit", "get"}
        BY <1>2, CallTypes DEF Inv, TypeOK, Amount
      <4>2. a > 0 /\ Op(r) # "get"
        BY <1>2, <2>1 DEF Commit, Inv, Validated, InTx
      <4> QED BY <4>1, <4>2 DEF Delta
    <3>2. /\ pc[r] = "recorded" /\ next[r] = balance[u] + Delta(r)
          /\ next[r] >= 0 /\ ledger[r] = 0 /\ balance[u] \in Int
      BY <1>2, <2>1, <3>1
      DEF Commit, Inv, TypeOK, Pending, OutcomeMatchesLedger
    <3>3. balance' = [balance EXCEPT ![u] = @ + Delta(r)]
      BY <2>1, <3>2 DEF Commit
    <3>4. call' = call /\ ledger' = [ledger EXCEPT ![r] = Delta(r)]
      BY <2>1 DEF Commit
    <3>5. entry[r] = <<>>
      BY <3>2
    <3>6. entry' = [entry EXCEPT ![r] = <<u, Delta(r)>>]
      BY <1>2, <3>1, <3>4, CallStable DEF Inv, TypeOK
    <3> HIDE DEF entry
    <3>7. CASE Op(r) = "credit"
      <4>1. Delta(r) = a
        BY <3>7 DEF Delta
      <4>2. Abstract!Credit(r, u, a)
        BY <3>1, <3>3, <3>5, <3>6, <4>1
        DEF Abstract!Credit, Abstract!Post, Abstract!NoEntry, entry
      <4> QED BY <3>1, <4>2 DEF Abstract!Next
    <3>8. CASE Op(r) = "debit"
      <4>1. Delta(r) = -a
        BY <3>8 DEF Delta
      <4>2. balance[u] >= a
        BY <3>1, <3>2, <4>1
      <4>3. Abstract!Debit(r, u, a)
        BY <3>1, <3>3, <3>5, <3>6, <4>1, <4>2
        DEF Abstract!Debit, Abstract!Post, Abstract!NoEntry, entry
      <4> QED BY <3>1, <4>3 DEF Abstract!Next
    <3> QED BY <3>1, <3>7, <3>8
  <2>2. ASSUME UNCHANGED <<balance, ledger, call>>
        PROVE  UNCHANGED Abstract!vars
    BY <2>2 DEF Abstract!vars, User
  <2>3. ASSUME NEW r \in Requests, Step(r) \/ Abort(r), ~Commit(r)
        PROVE  UNCHANGED <<balance, ledger, call>>
    BY <2>3 DEF Step, Abort, Rollback, RejectAmount, Find, CreateWallet,
       CreateAndCommit, CreateConflict, GetDone, ApplyCredit, ApplyDebit,
       DebitRefused, Record, committed
  <2>4. CASE UNCHANGED vars
    BY <2>2, <2>4 DEF vars
  <2> QED BY <1>2, <2>1, <2>2, <2>3, <2>4 DEF Next
<1>3. Spec => []Inv
  BY Invariance
<1> QED BY <1>1, <1>2, <1>3, PTL DEF Spec, ImplementsAbstract, Abstract!Spec

HIDE RequestsAssumption

-----------------------------------------------------------------------------
(* Accounts.                                                               *)

\* The types of all columns, locals and histories.
AccTypes ==
    /\ AccTypeOK
    /\ stage \in [Handlers -> {"idle", "registering", "counting", "creating", "created", "mailing",
                            "forgotten", "approving", "withdrawing", "withdrawn",
                            "accepted", "stored"}]
    /\ role \in [Handlers -> Roles \cup {NoRole}] /\ first \in [Handlers -> BOOLEAN]
    /\ key \in [Handlers -> Nat]
    /\ uses \in [Secrets -> Nat] /\ overlapped \subseteq Secrets
    /\ latest \in [Slots -> [People -> 0 .. issued]] /\ excused \subseteq Slots \X People
    /\ removed \in BOOLEAN

\* Who a call is about: a user until its mail is sent, the owner of the secret it
\* has accepted.
Spending(r) == stage[r] \in {"accepted", "stored"}
CallsKnow ==
    \A r \in Handlers :
        /\ stage[r] \in {"registering", "counting", "creating", "created", "mailing", "forgotten"}
             => who[r] \in People
        /\ stage[r] \in {"approving", "withdrawing", "withdrawn"} => who[r] \in Clients
        /\ Spending(r) => secret[r] \in 1 .. issued /\ who[r] = owner[secret[r]]
        /\ stage[r] = "mailing" => secret[r] \in 1 .. issued
        /\ stage[r] = "stored" => kind[secret[r]] \in {"create", "get"}

\* Codes are a client's, the other secrets a user's; a column holds secrets of
\* its user and its kinds.
SecretsKnown ==
    /\ \A s \in 1 .. issued : IF kind[s] = "code" THEN owner[s] \in Clients ELSE owner[s] \in People
    /\ \A s \in Secrets : s > issued => uses[s] = 0
    /\ \A slot \in Slots, u \in People :
         LET s == column[slot][u] IN
         s # NoSecret =>
           /\ owner[s] = u
           /\ kind[s] \in IF slot = "mail" THEN {"verify", "reset"} ELSE {"create", "get"}

\* Secrets other than codes, and the calls that make them, are of users who have
\* an account: nobody loses one.
HaveAccounts ==
    /\ \A r \in Handlers : stage[r] \in {"created", "forgotten", "mailing"}
         => account[who[r]] # "none"
    /\ \A s \in 1 .. issued : kind[s] # "code" => account[owner[s]] # "none"

\* While nobody has an account, a registration has counted none; it has the
\* administrator's role as long as nobody renames it.
FirstRegistration ==
    \A r \in Handlers :
        /\ stage[r] \in {"counting", "creating"} =>
             role[r] \in Roles /\ (~removed => roleName[role[r]] = "admin")
        /\ stage[r] = "creating" /\ Accounts = {} => first[r]

\* A secret that was good once is in no column any more, or marked.
Spent(s) ==
    IF kind[s] = "code" THEN s \in used
    ELSE \A slot \in Slots, u \in People : column[slot][u] # s
UsedIsSpent == \A s \in Secrets : uses[s] > 0 => Spent(s)

\* Unless they overlapped, one call has accepted a secret, and it was not used.
OneSpends ==
    \A r \in Handlers : Spending(r) /\ secret[r] \notin overlapped =>
        /\ uses[secret[r]] = 0
        /\ \A q \in Handlers : Spending(q) /\ secret[q] = secret[r] => q = r

\* LastSecretWorks, with the mail that is under way in place of any call.
Kept(slot, u) ==
    \/ latest[slot][u] = NoSecret \/ <<slot, u>> \in excused
    \/ slot = "mail" /\ \E r \in Handlers : stage[r] = "mailing" /\ who[r] = u
    \/ uses[latest[slot][u]] > 0
    \/ column[slot][u] = latest[slot][u]
LastKept == \A slot \in Slots, u \in People : Kept(slot, u)

AccInv ==
    /\ AccTypes /\ CallsKnow /\ SecretsKnown /\ HaveAccounts
    /\ FirstRegistration /\ AdminExists
    /\ UsedIsSpent /\ OneSpends /\ SecretsUsedOnce
    /\ LastKept

-----------------------------------------------------------------------------
\* Writing one column of one user keeps a table of secrets one.
LEMMA TableExcept ==
    ASSUME NEW n \in Nat, NEW m \in Nat, n <= m, NEW f \in [Slots -> [People -> 0 .. n]],
           NEW slot \in Slots, NEW u, NEW x \in 0 .. m
    PROVE  /\ [f EXCEPT ![slot][u] = x] \in [Slots -> [People -> 0 .. m]]
           /\ f \in [Slots -> [People -> 0 .. m]]
  <1>1. \A t \in Slots : f[t] \in [People -> 0 .. m]
    OBVIOUS
  <1>2. [f[slot] EXCEPT ![u] = x] \in [People -> 0 .. m]
    BY <1>1
  <1> QED
    BY <1>1, <1>2

\* Secrets are only ever made, one at a time.
LEMMA Grows ==
    ASSUME AccInv, AccNext
    PROVE  issued' \in {issued, issued + 1} /\ issued' \in 0 .. MaxSecrets
           /\ (issued' # issued => issued' = issued + 1)
  <1>40. MaxSecrets \in Nat /\ issued \in 0 .. MaxSecrets
    BY AccountsAssumption DEF AccInv, AccTypes, AccTypeOK, Slots, Kinds, Secrets, Roles,
       NoSecret, NoRole
  <1> USE <1>40 DEF Slots, Kinds, Secrets, Roles, NoSecret, NoRole
  <1>1. ASSUME NEW r \in Handlers, UpsertRole(r)
       PROVE  issued' \in {issued, issued + 1} /\ issued' \in 0 .. MaxSecrets
           /\ (issued' # issued => issued' = issued + 1)
    BY <1>1 DEF UpsertRole, Reach, identity, oauth, secrets, local, history, bounds
  <1>2. ASSUME NEW r \in Handlers, CountUsers(r)
       PROVE  issued' \in {issued, issued + 1} /\ issued' \in 0 .. MaxSecrets
           /\ (issued' # issued => issued' = issued + 1)
    BY <1>2 DEF CountUsers, Reach, identity, oauth, secrets, local, history, bounds
  <1>3. ASSUME NEW r \in Handlers, CreateUser(r)
       PROVE  issued' \in {issued, issued + 1} /\ issued' \in 0 .. MaxSecrets
           /\ (issued' # issued => issued' = issued + 1)
    BY <1>3 DEF CreateUser, Reach, Finish, identity, oauth, secrets, local, history, bounds
  <1>4. ASSUME NEW r \in Handlers, StoreVerifyToken(r)
       PROVE  issued' \in {issued, issued + 1} /\ issued' \in 0 .. MaxSecrets
           /\ (issued' # issued => issued' = issued + 1)
    BY <1>4 DEF StoreVerifyToken, Reach, Finish, Make, identity, oauth, secrets, local,
       history, bounds
  <1>5. ASSUME NEW r \in Handlers, StoreResetToken(r)
       PROVE  issued' \in {issued, issued + 1} /\ issued' \in 0 .. MaxSecrets
           /\ (issued' # issued => issued' = issued + 1)
    BY <1>5 DEF StoreResetToken, Reach, Make, identity, oauth, secrets, local, history, bounds
  <1>6. ASSUME NEW r \in Handlers, Mail(r)
       PROVE  issued' \in {issued, issued + 1} /\ issued' \in 0 .. MaxSecrets
           /\ (issued' # issued => issued' = issued + 1)
    BY <1>6 DEF Mail, Reach, Finish, Deliver, identity, oauth, secrets, local, history, bounds
  <1>7. ASSUME NEW r \in Handlers, CreateCode(r)
       PROVE  issued' \in {issued, issued + 1} /\ issued' \in 0 .. MaxSecrets
           /\ (issued' # issued => issued' = issued + 1)
    BY <1>7 DEF CreateCode, Reach, Finish, Make, identity, oauth, secrets, local, history,
       bounds
  <1>8. ASSUME NEW r \in Handlers, DeleteCodes(r)
       PROVE  issued' \in {issued, issued + 1} /\ issued' \in 0 .. MaxSecrets
           /\ (issued' # issued => issued' = issued + 1)
    BY <1>8 DEF DeleteCodes, Reach, identity, oauth, secrets, local, history, bounds
  <1>9. ASSUME NEW r \in Handlers, DeleteClientRow(r)
       PROVE  issued' \in {issued, issued + 1} /\ issued' \in 0 .. MaxSecrets
           /\ (issued' # issued => issued' = issued + 1)
    BY <1>9 DEF DeleteClientRow, Reach, Finish, identity, oauth, secrets, local, history, bounds
  <1>10. ASSUME NEW r \in Handlers, VerifyEmail(r)
       PROVE  issued' \in {issued, issued + 1} /\ issued' \in 0 .. MaxSecrets
           /\ (issued' # issued => issued' = issued + 1)
    BY <1>10 DEF VerifyEmail, Reach, Finish, Answer, Empty, identity, oauth, secrets, local,
       history, bounds
  <1>11. ASSUME NEW r \in Handlers, ResetPassword(r)
       PROVE  issued' \in {issued, issued + 1} /\ issued' \in 0 .. MaxSecrets
           /\ (issued' # issued => issued' = issued + 1)
    BY <1>11 DEF ResetPassword, Reach, Finish, Answer, Empty, identity, oauth, secrets, local,
       history, bounds
  <1>12. ASSUME NEW r \in Handlers, StorePasskey(r)
       PROVE  issued' \in {issued, issued + 1} /\ issued' \in 0 .. MaxSecrets
           /\ (issued' # issued => issued' = issued + 1)
    BY <1>12 DEF StorePasskey, Reach, Finish, identity, oauth, secrets, local, history, bounds
  <1>13. ASSUME NEW r \in Handlers, UpdateCounter(r)
       PROVE  issued' \in {issued, issued + 1} /\ issued' \in 0 .. MaxSecrets
           /\ (issued' # issued => issued' = issued + 1)
    BY <1>13 DEF UpdateCounter, Reach, Finish, identity, oauth, secrets, local, history, bounds
  <1>14. ASSUME NEW r \in Handlers, ClearChallenge(r)
       PROVE  issued' \in {issued, issued + 1} /\ issued' \in 0 .. MaxSecrets
           /\ (issued' # issued => issued' = issued + 1)
    BY <1>14 DEF ClearChallenge, Reach, Finish, Answer, Empty, identity, oauth, secrets,
       local, history, bounds
  <1>15. ASSUME NEW r \in Handlers, MarkCodeUsed(r)
       PROVE  issued' \in {issued, issued + 1} /\ issued' \in 0 .. MaxSecrets
           /\ (issued' # issued => issued' = issued + 1)
    BY <1>15 DEF MarkCodeUsed, Reach, Finish, Answer, identity, oauth, secrets, local,
       history, bounds
  <1>16. ASSUME NEW r \in Handlers, Break(r)
       PROVE  issued' \in {issued, issued + 1} /\ issued' \in 0 .. MaxSecrets
           /\ (issued' # issued => issued' = issued + 1)
    BY <1>16 DEF Break, Reach, Finish, identity, oauth, secrets, local, history, bounds
  <1>17. ASSUME NEW r \in Handlers, NEW u \in People, Register(r, u)
       PROVE  issued' \in {issued, issued + 1} /\ issued' \in 0 .. MaxSecrets
           /\ (issued' # issued => issued' = issued + 1)
    BY <1>17 DEF Register, Start, Reach, identity, oauth, secrets, local, history, bounds
  <1>18. ASSUME NEW r \in Handlers, NEW u \in People, ForgotPassword(r, u)
       PROVE  issued' \in {issued, issued + 1} /\ issued' \in 0 .. MaxSecrets
           /\ (issued' # issued => issued' = issued + 1)
    BY <1>18 DEF ForgotPassword, Start, Reach, identity, oauth, secrets, local, history, bounds
  <1>19. ASSUME NEW r \in Handlers, NEW c \in Clients, ApproveConsent(r, c)
       PROVE  issued' \in {issued, issued + 1} /\ issued' \in 0 .. MaxSecrets
           /\ (issued' # issued => issued' = issued + 1)
    BY <1>19 DEF ApproveConsent, Start, Reach, identity, oauth, secrets, local, history, bounds
  <1>20. ASSUME NEW r \in Handlers, NEW c \in Clients, DeleteClient(r, c)
       PROVE  issued' \in {issued, issued + 1} /\ issued' \in 0 .. MaxSecrets
           /\ (issued' # issued => issued' = issued + 1)
    BY <1>20 DEF DeleteClient, Start, Reach, identity, oauth, secrets, local, history, bounds
  <1>21. ASSUME NEW r \in Handlers, NEW s \in Secrets, NEW p \in Secrets \cup {NoSecret},
                Present(r, s, p)
       PROVE  issued' \in {issued, issued + 1} /\ issued' \in 0 .. MaxSecrets
           /\ (issued' # issued => issued' = issued + 1)
    BY <1>21 DEF Present, Start, Reach, identity, oauth, secrets, local, history, bounds
  <1>22. ASSUME NEW u \in People, NEW k \in {"create", "get"}, GenerateOptions(u, k)
       PROVE  issued' \in {issued, issued + 1} /\ issued' \in 0 .. MaxSecrets
           /\ (issued' # issued => issued' = issued + 1)
    BY <1>22 DEF GenerateOptions, Make, Deliver, identity, oauth, secrets, local, history,
       bounds
  <1>23. ASSUME NEW u \in People, UpdateUser(u)
       PROVE  issued' \in {issued, issued + 1} /\ issued' \in 0 .. MaxSecrets
           /\ (issued' # issued => issued' = issued + 1)
    BY <1>23 DEF UpdateUser, identity, oauth, secrets, local, history, bounds
  <1>24. ASSUME NEW u \in People, AssignRole(u)
       PROVE  issued' \in {issued, issued + 1} /\ issued' \in 0 .. MaxSecrets
           /\ (issued' # issued => issued' = issued + 1)
    BY <1>24 DEF AssignRole, identity, oauth, secrets, local, history, bounds
  <1>25. ASSUME NEW u \in People, RemoveRole(u)
       PROVE  issued' \in {issued, issued + 1} /\ issued' \in 0 .. MaxSecrets
           /\ (issued' # issued => issued' = issued + 1)
    BY <1>25 DEF RemoveRole, identity, oauth, secrets, local, history, bounds
  <1>26. ASSUME NEW s \in Secrets, DeletePasskey(s)
       PROVE  issued' \in {issued, issued + 1} /\ issued' \in 0 .. MaxSecrets
           /\ (issued' # issued => issued' = issued + 1)
    BY <1>26 DEF DeletePasskey, identity, oauth, secrets, local, history, bounds
  <1>27. ASSUME NEW s \in Secrets, CodeExpires(s)
       PROVE  issued' \in {issued, issued + 1} /\ issued' \in 0 .. MaxSecrets
           /\ (issued' # issued => issued' = issued + 1)
    BY <1>27 DEF CodeExpires, identity, oauth, secrets, local, history, bounds
  <1>28. ASSUME NEW c \in Clients, RegisterClient(c)
       PROVE  issued' \in {issued, issued + 1} /\ issued' \in 0 .. MaxSecrets
           /\ (issued' # issued => issued' = issued + 1)
    BY <1>28 DEF RegisterClient, identity, oauth, secrets, local, history, bounds
  <1>29. ASSUME NEW n \in Roles, UpdateRole(n)
       PROVE  issued' \in {issued, issued + 1} /\ issued' \in 0 .. MaxSecrets
           /\ (issued' # issued => issued' = issued + 1)
    BY <1>29 DEF UpdateRole, identity, oauth, secrets, local, history, bounds
  <1> QED
    BY <1>1, <1>2, <1>3, <1>4, <1>5, <1>6, <1>7, <1>8, <1>9, <1>10, <1>11, <1>12, <1>13,
       <1>14, <1>15, <1>16, <1>17, <1>18, <1>19, <1>20, <1>21, <1>22, <1>23, <1>24, <1>25,
       <1>26, <1>27, <1>28, <1>29 DEF AccNext, Handle

\* The rows of users, roles and clients.
RowsTyped ==
    /\ account \in [People -> {"none", "unverified", "verified"}]
    /\ roleName \in [Roles -> {"none", "admin", "other"}] /\ holds \subseteq People \X Roles
    /\ client \in [Clients -> {"none", "live", "gone"}] /\ removed \in BOOLEAN

\* A step keeps the types of the rows.
LEMMA RowTypes ==
    ASSUME AccInv, AccNext
    PROVE  RowsTyped'
  <1>40. /\ account \in [People -> {"none", "unverified", "verified"}]
        /\ roleName \in [Roles -> {"none", "admin", "other"}] /\ holds \subseteq People \X Roles
        /\ client \in [Clients -> {"none", "live", "gone"}] /\ removed \in BOOLEAN
        /\ \A r \in Handlers :
             /\ stage[r] \in {"creating", "created"} => who[r] \in People
             /\ stage[r] = "creating" => role[r] \in Roles
             /\ first[r] \in BOOLEAN
    BY DEF AccInv, AccTypes, AccTypeOK, CallsKnow, FirstRegistration, Slots, Kinds, Secrets,
       Roles, NoSecret, NoRole
  <1> USE <1>40 DEF Slots, Kinds, Secrets, Roles, NoSecret, NoRole
  <1> USE DEF RowsTyped
  <1>1. ASSUME NEW r \in Handlers, UpsertRole(r)
       PROVE  RowsTyped'
    BY <1>1 DEF UpsertRole, Reach, identity, oauth, secrets, local, history, bounds
  <1>2. ASSUME NEW r \in Handlers, CountUsers(r)
       PROVE  RowsTyped'
    BY <1>2 DEF CountUsers, Reach, identity, oauth, secrets, local, history, bounds
  <1>3. ASSUME NEW r \in Handlers, CreateUser(r)
       PROVE  RowsTyped'
    BY <1>3 DEF CreateUser, Reach, Finish, identity, oauth, secrets, local, history, bounds
  <1>4. ASSUME NEW r \in Handlers, StoreVerifyToken(r)
       PROVE  RowsTyped'
    BY <1>4 DEF StoreVerifyToken, Reach, Finish, Make, identity, oauth, secrets, local,
       history, bounds
  <1>5. ASSUME NEW r \in Handlers, StoreResetToken(r)
       PROVE  RowsTyped'
    BY <1>5 DEF StoreResetToken, Reach, Make, identity, oauth, secrets, local, history, bounds
  <1>6. ASSUME NEW r \in Handlers, Mail(r)
       PROVE  RowsTyped'
    BY <1>6 DEF Mail, Reach, Finish, Deliver, identity, oauth, secrets, local, history, bounds
  <1>7. ASSUME NEW r \in Handlers, CreateCode(r)
       PROVE  RowsTyped'
    BY <1>7 DEF CreateCode, Reach, Finish, Make, identity, oauth, secrets, local, history,
       bounds
  <1>8. ASSUME NEW r \in Handlers, DeleteCodes(r)
       PROVE  RowsTyped'
    BY <1>8 DEF DeleteCodes, Reach, identity, oauth, secrets, local, history, bounds
  <1>9. ASSUME NEW r \in Handlers, DeleteClientRow(r)
       PROVE  RowsTyped'
    BY <1>9 DEF DeleteClientRow, Reach, Finish, identity, oauth, secrets, local, history, bounds
  <1>10. ASSUME NEW r \in Handlers, VerifyEmail(r)
       PROVE  RowsTyped'
    BY <1>10 DEF VerifyEmail, Reach, Finish, Answer, Empty, identity, oauth, secrets, local,
       history, bounds
  <1>11. ASSUME NEW r \in Handlers, ResetPassword(r)
       PROVE  RowsTyped'
    BY <1>11 DEF ResetPassword, Reach, Finish, Answer, Empty, identity, oauth, secrets, local,
       history, bounds
  <1>12. ASSUME NEW r \in Handlers, StorePasskey(r)
       PROVE  RowsTyped'
    BY <1>12 DEF StorePasskey, Reach, Finish, identity, oauth, secrets, local, history, bounds
  <1>13. ASSUME NEW r \in Handlers, UpdateCounter(r)
       PROVE  RowsTyped'
    BY <1>13 DEF UpdateCounter, Reach, Finish, identity, oauth, secrets, local, history, bounds
  <1>14. ASSUME NEW r \in Handlers, ClearChallenge(r)
       PROVE  RowsTyped'
    BY <1>14 DEF ClearChallenge, Reach, Finish, Answer, Empty, identity, oauth, secrets,
       local, history, bounds
  <1>15. ASSUME NEW r \in Handlers, MarkCodeUsed(r)
       PROVE  RowsTyped'
    BY <1>15 DEF MarkCodeUsed, Reach, Finish, Answer, identity, oauth, secrets, local,
       history, bounds
  <1>16. ASSUME NEW r \in Handlers, Break(r)
       PROVE  RowsTyped'
    BY <1>16 DEF Break, Reach, Finish, identity, oauth, secrets, local, history, bounds
  <1>17. ASSUME NEW r \in Handlers, NEW u \in People, Register(r, u)
       PROVE  RowsTyped'
    BY <1>17 DEF Register, Start, Reach, identity, oauth, secrets, local, history, bounds
  <1>18. ASSUME NEW r \in Handlers, NEW u \in People, ForgotPassword(r, u)
       PROVE  RowsTyped'
    BY <1>18 DEF ForgotPassword, Start, Reach, identity, oauth, secrets, local, history, bounds
  <1>19. ASSUME NEW r \in Handlers, NEW c \in Clients, ApproveConsent(r, c)
       PROVE  RowsTyped'
    BY <1>19 DEF ApproveConsent, Start, Reach, identity, oauth, secrets, local, history, bounds
  <1>20. ASSUME NEW r \in Handlers, NEW c \in Clients, DeleteClient(r, c)
       PROVE  RowsTyped'
    BY <1>20 DEF DeleteClient, Start, Reach, identity, oauth, secrets, local, history, bounds
  <1>21. ASSUME NEW r \in Handlers, NEW s \in Secrets, NEW p \in Secrets \cup {NoSecret},
                Present(r, s, p)
       PROVE  RowsTyped'
    BY <1>21 DEF Present, Start, Reach, identity, oauth, secrets, local, history, bounds
  <1>22. ASSUME NEW u \in People, NEW k \in {"create", "get"}, GenerateOptions(u, k)
       PROVE  RowsTyped'
    BY <1>22 DEF GenerateOptions, Make, Deliver, identity, oauth, secrets, local, history,
       bounds
  <1>23. ASSUME NEW u \in People, UpdateUser(u)
       PROVE  RowsTyped'
    BY <1>23 DEF UpdateUser, identity, oauth, secrets, local, history, bounds
  <1>24. ASSUME NEW u \in People, AssignRole(u)
       PROVE  RowsTyped'
    BY <1>24 DEF AssignRole, identity, oauth, secrets, local, history, bounds
  <1>25. ASSUME NEW u \in People, RemoveRole(u)
       PROVE  RowsTyped'
    BY <1>25 DEF RemoveRole, identity, oauth, secrets, local, history, bounds
  <1>26. ASSUME NEW s \in Secrets, DeletePasskey(s)
       PROVE  RowsTyped'
    BY <1>26 DEF DeletePasskey, identity, oauth, secrets, local, history, bounds
  <1>27. ASSUME NEW s \in Secrets, CodeExpires(s)
       PROVE  RowsTyped'
    BY <1>27 DEF CodeExpires, identity, oauth, secrets, local, history, bounds
  <1>28. ASSUME NEW c \in Clients, RegisterClient(c)
       PROVE  RowsTyped'
    BY <1>28 DEF RegisterClient, identity, oauth, secrets, local, history, bounds
  <1>29. ASSUME NEW n \in Roles, UpdateRole(n)
       PROVE  RowsTyped'
    BY <1>29 DEF UpdateRole, identity, oauth, secrets, local, history, bounds
  <1> QED
    BY <1>1, <1>2, <1>3, <1>4, <1>5, <1>6, <1>7, <1>8, <1>9, <1>10, <1>11, <1>12, <1>13,
       <1>14, <1>15, <1>16, <1>17, <1>18, <1>19, <1>20, <1>21, <1>22, <1>23, <1>24, <1>25,
       <1>26, <1>27, <1>28, <1>29 DEF AccNext, Handle

\* What every secret is for, and whose.
SecretsTyped ==
    /\ kind \in [Secrets -> Kinds] /\ owner \in [Secrets -> People \cup Clients \cup {None}]

\* A step keeps the types of the secrets.
LEMMA SecretTypes ==
    ASSUME AccInv, AccNext
    PROVE  SecretsTyped'
  <1>40. /\ kind \in [Secrets -> Kinds] /\ owner \in [Secrets -> People \cup Clients \cup {None}]
        /\ who \in [Handlers -> People \cup Clients \cup {None}]
    BY DEF AccInv, AccTypes, AccTypeOK, Slots, Kinds, Secrets, Roles, NoSecret, NoRole
  <1> USE <1>40 DEF Slots, Kinds, Secrets, Roles, NoSecret, NoRole
  <1> USE DEF SecretsTyped
  <1>1. ASSUME NEW r \in Handlers, UpsertRole(r)
       PROVE  SecretsTyped'
    BY <1>1 DEF UpsertRole, Reach, identity, oauth, secrets, local, history, bounds
  <1>2. ASSUME NEW r \in Handlers, CountUsers(r)
       PROVE  SecretsTyped'
    BY <1>2 DEF CountUsers, Reach, identity, oauth, secrets, local, history, bounds
  <1>3. ASSUME NEW r \in Handlers, CreateUser(r)
       PROVE  SecretsTyped'
    BY <1>3 DEF CreateUser, Reach, Finish, identity, oauth, secrets, local, history, bounds
  <1>4. ASSUME NEW r \in Handlers, StoreVerifyToken(r)
       PROVE  SecretsTyped'
    BY <1>4 DEF StoreVerifyToken, Reach, Finish, Make, identity, oauth, secrets, local,
       history, bounds
  <1>5. ASSUME NEW r \in Handlers, StoreResetToken(r)
       PROVE  SecretsTyped'
    BY <1>5 DEF StoreResetToken, Reach, Make, identity, oauth, secrets, local, history, bounds
  <1>6. ASSUME NEW r \in Handlers, Mail(r)
       PROVE  SecretsTyped'
    BY <1>6 DEF Mail, Reach, Finish, Deliver, identity, oauth, secrets, local, history, bounds
  <1>7. ASSUME NEW r \in Handlers, CreateCode(r)
       PROVE  SecretsTyped'
    BY <1>7 DEF CreateCode, Reach, Finish, Make, identity, oauth, secrets, local, history,
       bounds
  <1>8. ASSUME NEW r \in Handlers, DeleteCodes(r)
       PROVE  SecretsTyped'
    BY <1>8 DEF DeleteCodes, Reach, identity, oauth, secrets, local, history, bounds
  <1>9. ASSUME NEW r \in Handlers, DeleteClientRow(r)
       PROVE  SecretsTyped'
    BY <1>9 DEF DeleteClientRow, Reach, Finish, identity, oauth, secrets, local, history, bounds
  <1>10. ASSUME NEW r \in Handlers, VerifyEmail(r)
       PROVE  SecretsTyped'
    BY <1>10 DEF VerifyEmail, Reach, Finish, Answer, Empty, identity, oauth, secrets, local,
       history, bounds
  <1>11. ASSUME NEW r \in Handlers, ResetPassword(r)
       PROVE  SecretsTyped'
    BY <1>11 DEF ResetPassword, Reach, Finish, Answer, Empty, identity, oauth, secrets, local,
       history, bounds
  <1>12. ASSUME NEW r \in Handlers, StorePasskey(r)
       PROVE  SecretsTyped'
    BY <1>12 DEF StorePasskey, Reach, Finish, identity, oauth, secrets, local, history, bounds
  <1>13. ASSUME NEW r \in Handlers, UpdateCounter(r)
       PROVE  SecretsTyped'
    BY <1>13 DEF UpdateCounter, Reach, Finish, identity, oauth, secrets, local, history, bounds
  <1>14. ASSUME NEW r \in Handlers, ClearChallenge(r)
       PROVE  SecretsTyped'
    BY <1>14 DEF ClearChallenge, Reach, Finish, Answer, Empty, identity, oauth, secrets,
       local, history, bounds
  <1>15. ASSUME NEW r \in Handlers, MarkCodeUsed(r)
       PROVE  SecretsTyped'
    BY <1>15 DEF MarkCodeUsed, Reach, Finish, Answer, identity, oauth, secrets, local,
       history, bounds
  <1>16. ASSUME NEW r \in Handlers, Break(r)
       PROVE  SecretsTyped'
    BY <1>16 DEF Break, Reach, Finish, identity, oauth, secrets, local, history, bounds
  <1>17. ASSUME NEW r \in Handlers, NEW u \in People, Register(r, u)
       PROVE  SecretsTyped'
    BY <1>17 DEF Register, Start, Reach, identity, oauth, secrets, local, history, bounds
  <1>18. ASSUME NEW r \in Handlers, NEW u \in People, ForgotPassword(r, u)
       PROVE  SecretsTyped'
    BY <1>18 DEF ForgotPassword, Start, Reach, identity, oauth, secrets, local, history, bounds
  <1>19. ASSUME NEW r \in Handlers, NEW c \in Clients, ApproveConsent(r, c)
       PROVE  SecretsTyped'
    BY <1>19 DEF ApproveConsent, Start, Reach, identity, oauth, secrets, local, history, bounds
  <1>20. ASSUME NEW r \in Handlers, NEW c \in Clients, DeleteClient(r, c)
       PROVE  SecretsTyped'
    BY <1>20 DEF DeleteClient, Start, Reach, identity, oauth, secrets, local, history, bounds
  <1>21. ASSUME NEW r \in Handlers, NEW s \in Secrets, NEW p \in Secrets \cup {NoSecret},
                Present(r, s, p)
       PROVE  SecretsTyped'
    BY <1>21 DEF Present, Start, Reach, identity, oauth, secrets, local, history, bounds
  <1>22. ASSUME NEW u \in People, NEW k \in {"create", "get"}, GenerateOptions(u, k)
       PROVE  SecretsTyped'
    BY <1>22 DEF GenerateOptions, Make, Deliver, identity, oauth, secrets, local, history,
       bounds
  <1>23. ASSUME NEW u \in People, UpdateUser(u)
       PROVE  SecretsTyped'
    BY <1>23 DEF UpdateUser, identity, oauth, secrets, local, history, bounds
  <1>24. ASSUME NEW u \in People, AssignRole(u)
       PROVE  SecretsTyped'
    BY <1>24 DEF AssignRole, identity, oauth, secrets, local, history, bounds
  <1>25. ASSUME NEW u \in People, RemoveRole(u)
       PROVE  SecretsTyped'
    BY <1>25 DEF RemoveRole, identity, oauth, secrets, local, history, bounds
  <1>26. ASSUME NEW s \in Secrets, DeletePasskey(s)
       PROVE  SecretsTyped'
    BY <1>26 DEF DeletePasskey, identity, oauth, secrets, local, history, bounds
  <1>27. ASSUME NEW s \in Secrets, CodeExpires(s)
       PROVE  SecretsTyped'
    BY <1>27 DEF CodeExpires, identity, oauth, secrets, local, history, bounds
  <1>28. ASSUME NEW c \in Clients, RegisterClient(c)
       PROVE  SecretsTyped'
    BY <1>28 DEF RegisterClient, identity, oauth, secrets, local, history, bounds
  <1>29. ASSUME NEW n \in Roles, UpdateRole(n)
       PROVE  SecretsTyped'
    BY <1>29 DEF UpdateRole, identity, oauth, secrets, local, history, bounds
  <1> QED
    BY <1>1, <1>2, <1>3, <1>4, <1>5, <1>6, <1>7, <1>8, <1>9, <1>10, <1>11, <1>12, <1>13,
       <1>14, <1>15, <1>16, <1>17, <1>18, <1>19, <1>20, <1>21, <1>22, <1>23, <1>24, <1>25,
       <1>26, <1>27, <1>28, <1>29 DEF AccNext, Handle

\* The locals of calls.
LocalsTyped ==
    /\ stage \in [Handlers -> {"idle", "registering", "counting", "creating", "created", "mailing",
                         "forgotten", "approving", "withdrawing", "withdrawn",
                         "accepted", "stored"}]
    /\ who \in [Handlers -> People \cup Clients \cup {None}]
    /\ role \in [Handlers -> Roles \cup {NoRole}] /\ first \in [Handlers -> BOOLEAN]
    /\ key \in [Handlers -> Nat]

\* A step keeps the types of the locals of calls.
LEMMA LocalTypes ==
    ASSUME AccInv, AccNext
    PROVE  LocalsTyped'
  <1>40. /\ stage \in [Handlers -> {"idle", "registering", "counting", "creating", "created",
             "mailing",
                                "forgotten", "approving", "withdrawing", "withdrawn",
                                "accepted", "stored"}]
        /\ who \in [Handlers -> People \cup Clients \cup {None}]
        /\ role \in [Handlers -> Roles \cup {NoRole}] /\ first \in [Handlers -> BOOLEAN]
        /\ key \in [Handlers -> Nat]
        /\ owner \in [Secrets -> People \cup Clients \cup {None}]
    BY DEF AccInv, AccTypes, AccTypeOK, Slots, Kinds, Secrets, Roles, NoSecret, NoRole
  <1> USE <1>40 DEF Slots, Kinds, Secrets, Roles, NoSecret, NoRole
  <1>42. ASSUME NEW r \in Handlers, Finish(r)
        PROVE  /\ stage' \in [Handlers -> {"idle", "registering", "counting", "creating", "created",
                                       "mailing", "forgotten", "approving", "withdrawing",
                                       "withdrawn", "accepted", "stored"}]
               /\ who' \in [Handlers -> People \cup Clients \cup {None}]
               /\ role' \in [Handlers -> Roles \cup {NoRole}]
               /\ first' \in [Handlers -> BOOLEAN] /\ key' \in [Handlers -> Nat]
    BY <1>42 DEF Finish, Reach
  <1> USE DEF LocalsTyped
  <1>1. ASSUME NEW r \in Handlers, UpsertRole(r)
       PROVE  LocalsTyped'
    BY <1>1 DEF UpsertRole, Reach, identity, oauth, secrets, local, history, bounds
  <1>2. ASSUME NEW r \in Handlers, CountUsers(r)
       PROVE  LocalsTyped'
    BY <1>2 DEF CountUsers, Reach, identity, oauth, secrets, local, history, bounds
  <1>3. ASSUME NEW r \in Handlers, CreateUser(r)
       PROVE  LocalsTyped'
    <2>1. CASE account[who[r]] # "none"
      <3>1. Finish(r)
        BY <1>3, <2>1 DEF CreateUser
      <3> QED
        BY <3>1, <1>42, <1>40
    <2>2. CASE account[who[r]] = "none"
      BY <1>3, <2>2 DEF CreateUser, Reach, identity, oauth, secrets,
         local, history, bounds
    <2> QED
      BY <2>1, <2>2
  <1>4. ASSUME NEW r \in Handlers, StoreVerifyToken(r)
       PROVE  LocalsTyped'
    <2>1. CASE first[r]
      <3>1. Finish(r)
        BY <1>4, <2>1 DEF StoreVerifyToken
      <3> QED
        BY <3>1, <1>42, <1>40
    <2>2. CASE ~first[r]
      BY <1>4, <2>2 DEF StoreVerifyToken, Reach, Make, identity, oauth, secrets,
         local, history, bounds
    <2> QED
      BY <2>1, <2>2
  <1>5. ASSUME NEW r \in Handlers, StoreResetToken(r)
       PROVE  LocalsTyped'
    BY <1>5 DEF StoreResetToken, Reach, Make, identity, oauth, secrets, local, history, bounds
  <1>6. ASSUME NEW r \in Handlers, Mail(r)
       PROVE  LocalsTyped'
    BY <1>6 DEF Mail, Reach, Finish, Deliver, identity, oauth, secrets, local, history, bounds
  <1>7. ASSUME NEW r \in Handlers, CreateCode(r)
       PROVE  LocalsTyped'
    <2>1. CASE client[who[r]] = "live"
      BY <1>7, <2>1 DEF CreateCode, Reach, Finish, Make, identity, oauth, secrets,
         local, history, bounds
    <2>2. CASE client[who[r]] # "live"
      BY <1>7, <2>2 DEF CreateCode, Reach, Finish, Make, identity, oauth, secrets,
         local, history, bounds
    <2> QED
      BY <2>1, <2>2
  <1>8. ASSUME NEW r \in Handlers, DeleteCodes(r)
       PROVE  LocalsTyped'
    BY <1>8 DEF DeleteCodes, Reach, identity, oauth, secrets, local, history, bounds
  <1>9. ASSUME NEW r \in Handlers, DeleteClientRow(r)
       PROVE  LocalsTyped'
    BY <1>9 DEF DeleteClientRow, Reach, Finish, identity, oauth, secrets, local, history, bounds
  <1>10. ASSUME NEW r \in Handlers, VerifyEmail(r)
       PROVE  LocalsTyped'
    BY <1>10 DEF VerifyEmail, Reach, Finish, Answer, Empty, identity, oauth, secrets, local,
       history, bounds
  <1>11. ASSUME NEW r \in Handlers, ResetPassword(r)
       PROVE  LocalsTyped'
    BY <1>11 DEF ResetPassword, Reach, Finish, Answer, Empty, identity, oauth, secrets, local,
       history, bounds
  <1>12. ASSUME NEW r \in Handlers, StorePasskey(r)
       PROVE  LocalsTyped'
    <2>1. CASE secret[r] \in passkeys
      <3>1. Finish(r)
        BY <1>12, <2>1 DEF StorePasskey
      <3> QED
        BY <3>1, <1>42, <1>40
    <2>2. CASE secret[r] \notin passkeys
      BY <1>12, <2>2 DEF StorePasskey, Reach, identity, oauth, secrets,
         local, history, bounds
    <2> QED
      BY <2>1, <2>2
  <1>13. ASSUME NEW r \in Handlers, UpdateCounter(r)
       PROVE  LocalsTyped'
    <2>1. CASE key[r] \notin passkeys
      <3>1. Finish(r)
        BY <1>13, <2>1 DEF UpdateCounter
      <3> QED
        BY <3>1, <1>42, <1>40
    <2>2. CASE key[r] \in passkeys
      BY <1>13, <2>2 DEF UpdateCounter, Reach, identity, oauth, secrets,
         local, history, bounds
    <2> QED
      BY <2>1, <2>2
  <1>14. ASSUME NEW r \in Handlers, ClearChallenge(r)
       PROVE  LocalsTyped'
    BY <1>14 DEF ClearChallenge, Reach, Finish, Answer, Empty, identity, oauth, secrets,
       local, history, bounds
  <1>15. ASSUME NEW r \in Handlers, MarkCodeUsed(r)
       PROVE  LocalsTyped'
    <2>1. Finish(r)
      BY <1>15 DEF MarkCodeUsed, Answer
    <2> QED
      BY <2>1, <1>42, <1>40
  <1>16. ASSUME NEW r \in Handlers, Break(r)
       PROVE  LocalsTyped'
    BY <1>16 DEF Break, Reach, Finish, identity, oauth, secrets, local, history, bounds
  <1>17. ASSUME NEW r \in Handlers, NEW u \in People, Register(r, u)
       PROVE  LocalsTyped'
    BY <1>17 DEF Register, Start, Reach, identity, oauth, secrets, local, history, bounds
  <1>18. ASSUME NEW r \in Handlers, NEW u \in People, ForgotPassword(r, u)
       PROVE  LocalsTyped'
    BY <1>18 DEF ForgotPassword, Start, Reach, identity, oauth, secrets, local, history, bounds
  <1>19. ASSUME NEW r \in Handlers, NEW c \in Clients, ApproveConsent(r, c)
       PROVE  LocalsTyped'
    BY <1>19 DEF ApproveConsent, Start, Reach, identity, oauth, secrets, local, history, bounds
  <1>20. ASSUME NEW r \in Handlers, NEW c \in Clients, DeleteClient(r, c)
       PROVE  LocalsTyped'
    BY <1>20 DEF DeleteClient, Start, Reach, identity, oauth, secrets, local, history, bounds
  <1>21. ASSUME NEW r \in Handlers, NEW s \in Secrets, NEW p \in Secrets \cup {NoSecret},
                Present(r, s, p)
       PROVE  LocalsTyped'
    BY <1>21 DEF Present, Start, Reach, identity, oauth, secrets, local, history, bounds
  <1>22. ASSUME NEW u \in People, NEW k \in {"create", "get"}, GenerateOptions(u, k)
       PROVE  LocalsTyped'
    BY <1>22 DEF GenerateOptions, Make, Deliver, identity, oauth, secrets, local, history,
       bounds
  <1>23. ASSUME NEW u \in People, UpdateUser(u)
       PROVE  LocalsTyped'
    BY <1>23 DEF UpdateUser, identity, oauth, secrets, local, history, bounds
  <1>24. ASSUME NEW u \in People, AssignRole(u)
       PROVE  LocalsTyped'
    BY <1>24 DEF AssignRole, identity, oauth, secrets, local, history, bounds
  <1>25. ASSUME NEW u \in People, RemoveRole(u)
       PROVE  LocalsTyped'
    BY <1>25 DEF RemoveRole, identity, oauth, secrets, local, history, bounds
  <1>26. ASSUME NEW s \in Secrets, DeletePasskey(s)
       PROVE  LocalsTyped'
    BY <1>26 DEF DeletePasskey, identity, oauth, secrets, local, history, bounds
  <1>27. ASSUME NEW s \in Secrets, CodeExpires(s)
       PROVE  LocalsTyped'
    BY <1>27 DEF CodeExpires, identity, oauth, secrets, local, history, bounds
  <1>28. ASSUME NEW c \in Clients, RegisterClient(c)
       PROVE  LocalsTyped'
    BY <1>28 DEF RegisterClient, identity, oauth, secrets, local, history, bounds
  <1>29. ASSUME NEW n \in Roles, UpdateRole(n)
       PROVE  LocalsTyped'
    BY <1>29 DEF UpdateRole, identity, oauth, secrets, local, history, bounds
  <1> QED
    BY <1>1, <1>2, <1>3, <1>4, <1>5, <1>6, <1>7, <1>8, <1>9, <1>10, <1>11, <1>12, <1>13,
       <1>14, <1>15, <1>16, <1>17, <1>18, <1>19, <1>20, <1>21, <1>22, <1>23, <1>24, <1>25,
       <1>26, <1>27, <1>28, <1>29 DEF AccNext, Handle

\* Sets of secrets hold those that were made.
SetsMade ==
    /\ passkeys \subseteq 1 .. issued /\ codes \subseteq 1 .. issued
    /\ used \subseteq 1 .. issued /\ aged \subseteq 1 .. issued
    /\ delivered \subseteq 1 .. issued

\* Sets of secrets hold secrets that were made.
LEMMA SetTypes ==
    ASSUME AccInv, AccNext
    PROVE  SetsMade'
  <1>40. /\ passkeys \subseteq 1 .. issued /\ codes \subseteq 1 .. issued
        /\ used \subseteq 1 .. issued /\ aged \subseteq 1 .. issued
        /\ delivered \subseteq 1 .. issued /\ issued \in Nat
        /\ \A r \in Handlers : stage[r] \in {"mailing", "accepted"} => secret[r] \in 1 .. issued
    BY AccountsAssumption DEF AccInv, AccTypes, AccTypeOK, CallsKnow, Spending, Slots, Kinds,
       Secrets, Roles, NoSecret, NoRole
  <1> USE <1>40 DEF Slots, Kinds, Secrets, Roles, NoSecret, NoRole
  <1> USE DEF SetsMade
  <1>1. ASSUME NEW r \in Handlers, UpsertRole(r)
       PROVE  SetsMade'
    BY <1>1 DEF UpsertRole, Reach, identity, oauth, secrets, local, history, bounds
  <1>2. ASSUME NEW r \in Handlers, CountUsers(r)
       PROVE  SetsMade'
    BY <1>2 DEF CountUsers, Reach, identity, oauth, secrets, local, history, bounds
  <1>3. ASSUME NEW r \in Handlers, CreateUser(r)
       PROVE  SetsMade'
    BY <1>3 DEF CreateUser, Reach, Finish, identity, oauth, secrets, local, history, bounds
  <1>4. ASSUME NEW r \in Handlers, StoreVerifyToken(r)
       PROVE  SetsMade'
    BY <1>4 DEF StoreVerifyToken, Reach, Finish, Make, identity, oauth, secrets, local,
       history, bounds
  <1>5. ASSUME NEW r \in Handlers, StoreResetToken(r)
       PROVE  SetsMade'
    BY <1>5 DEF StoreResetToken, Reach, Make, identity, oauth, secrets, local, history, bounds
  <1>6. ASSUME NEW r \in Handlers, Mail(r)
       PROVE  SetsMade'
    BY <1>6 DEF Mail, Reach, Finish, Deliver, identity, oauth, secrets, local, history, bounds
  <1>7. ASSUME NEW r \in Handlers, CreateCode(r)
       PROVE  SetsMade'
    <2>1. CASE client[who[r]] = "live"
      <3>1. /\ issued' = issued + 1 /\ codes' = codes \cup {issued'}
            /\ delivered' = delivered \cup {issued'}
            /\ passkeys' = passkeys /\ used' = used /\ aged' = aged
        BY <1>7, <2>1 DEF CreateCode, Make, identity, oauth, secrets,
         local, history, bounds
      <3> QED
        BY <3>1
    <2>2. CASE client[who[r]] # "live"
      BY <1>7, <2>2 DEF CreateCode, identity, oauth, secrets,
         local, history, bounds
    <2> QED
      BY <2>1, <2>2
  <1>8. ASSUME NEW r \in Handlers, DeleteCodes(r)
       PROVE  SetsMade'
    BY <1>8 DEF DeleteCodes, Reach, identity, oauth, secrets, local, history, bounds
  <1>9. ASSUME NEW r \in Handlers, DeleteClientRow(r)
       PROVE  SetsMade'
    BY <1>9 DEF DeleteClientRow, Reach, Finish, identity, oauth, secrets, local, history, bounds
  <1>10. ASSUME NEW r \in Handlers, VerifyEmail(r)
       PROVE  SetsMade'
    BY <1>10 DEF VerifyEmail, Reach, Finish, Answer, Empty, identity, oauth, secrets, local,
       history, bounds
  <1>11. ASSUME NEW r \in Handlers, ResetPassword(r)
       PROVE  SetsMade'
    BY <1>11 DEF ResetPassword, Reach, Finish, Answer, Empty, identity, oauth, secrets, local,
       history, bounds
  <1>12. ASSUME NEW r \in Handlers, StorePasskey(r)
       PROVE  SetsMade'
    BY <1>12 DEF StorePasskey, Reach, Finish, identity, oauth, secrets, local, history, bounds
  <1>13. ASSUME NEW r \in Handlers, UpdateCounter(r)
       PROVE  SetsMade'
    BY <1>13 DEF UpdateCounter, Reach, Finish, identity, oauth, secrets, local, history, bounds
  <1>14. ASSUME NEW r \in Handlers, ClearChallenge(r)
       PROVE  SetsMade'
    BY <1>14 DEF ClearChallenge, Reach, Finish, Answer, Empty, identity, oauth, secrets,
       local, history, bounds
  <1>15. ASSUME NEW r \in Handlers, MarkCodeUsed(r)
       PROVE  SetsMade'
    BY <1>15 DEF MarkCodeUsed, Reach, Finish, Answer, identity, oauth, secrets, local,
       history, bounds
  <1>16. ASSUME NEW r \in Handlers, Break(r)
       PROVE  SetsMade'
    BY <1>16 DEF Break, Reach, Finish, identity, oauth, secrets, local, history, bounds
  <1>17. ASSUME NEW r \in Handlers, NEW u \in People, Register(r, u)
       PROVE  SetsMade'
    BY <1>17 DEF Register, Start, Reach, identity, oauth, secrets, local, history, bounds
  <1>18. ASSUME NEW r \in Handlers, NEW u \in People, ForgotPassword(r, u)
       PROVE  SetsMade'
    BY <1>18 DEF ForgotPassword, Start, Reach, identity, oauth, secrets, local, history, bounds
  <1>19. ASSUME NEW r \in Handlers, NEW c \in Clients, ApproveConsent(r, c)
       PROVE  SetsMade'
    BY <1>19 DEF ApproveConsent, Start, Reach, identity, oauth, secrets, local, history, bounds
  <1>20. ASSUME NEW r \in Handlers, NEW c \in Clients, DeleteClient(r, c)
       PROVE  SetsMade'
    BY <1>20 DEF DeleteClient, Start, Reach, identity, oauth, secrets, local, history, bounds
  <1>21. ASSUME NEW r \in Handlers, NEW s \in Secrets, NEW p \in Secrets \cup {NoSecret},
                Present(r, s, p)
       PROVE  SetsMade'
    BY <1>21 DEF Present, Start, Reach, identity, oauth, secrets, local, history, bounds
  <1>22. ASSUME NEW u \in People, NEW k \in {"create", "get"}, GenerateOptions(u, k)
       PROVE  SetsMade'
    BY <1>22 DEF GenerateOptions, Make, Deliver, identity, oauth, secrets, local, history,
       bounds
  <1>23. ASSUME NEW u \in People, UpdateUser(u)
       PROVE  SetsMade'
    BY <1>23 DEF UpdateUser, identity, oauth, secrets, local, history, bounds
  <1>24. ASSUME NEW u \in People, AssignRole(u)
       PROVE  SetsMade'
    BY <1>24 DEF AssignRole, identity, oauth, secrets, local, history, bounds
  <1>25. ASSUME NEW u \in People, RemoveRole(u)
       PROVE  SetsMade'
    BY <1>25 DEF RemoveRole, identity, oauth, secrets, local, history, bounds
  <1>26. ASSUME NEW s \in Secrets, DeletePasskey(s)
       PROVE  SetsMade'
    BY <1>26 DEF DeletePasskey, identity, oauth, secrets, local, history, bounds
  <1>27. ASSUME NEW s \in Secrets, CodeExpires(s)
       PROVE  SetsMade'
    BY <1>27 DEF CodeExpires, identity, oauth, secrets, local, history, bounds
  <1>28. ASSUME NEW c \in Clients, RegisterClient(c)
       PROVE  SetsMade'
    BY <1>28 DEF RegisterClient, identity, oauth, secrets, local, history, bounds
  <1>29. ASSUME NEW n \in Roles, UpdateRole(n)
       PROVE  SetsMade'
    BY <1>29 DEF UpdateRole, identity, oauth, secrets, local, history, bounds
  <1> QED
    BY <1>1, <1>2, <1>3, <1>4, <1>5, <1>6, <1>7, <1>8, <1>9, <1>10, <1>11, <1>12, <1>13,
       <1>14, <1>15, <1>16, <1>17, <1>18, <1>19, <1>20, <1>21, <1>22, <1>23, <1>24, <1>25,
       <1>26, <1>27, <1>28, <1>29 DEF AccNext, Handle

\* So do columns and locals.
ColumnsMade ==
    /\ column \in [Slots -> [People -> 0 .. issued]]
    /\ secret \in [Handlers -> 0 .. issued]

\* Columns and locals hold secrets that were made.
LEMMA ColumnTypes ==
    ASSUME AccInv, AccNext
    PROVE  ColumnsMade'
  <1>41. issued' = issued \/ issued' = issued + 1
    BY Grows
  <1> USE <1>41
  <1>40. /\ column \in [Slots -> [People -> 0 .. issued]]
        /\ secret \in [Handlers -> 0 .. issued] /\ issued \in Nat
        /\ delivered \subseteq 1 .. issued
    BY AccountsAssumption DEF AccInv, AccTypes, AccTypeOK, Slots, Kinds, Secrets, Roles,
       NoSecret, NoRole
  <1> USE <1>40 DEF Slots, Kinds, Secrets, Roles, NoSecret, NoRole
  <1> USE DEF ColumnsMade
  <1>1. ASSUME NEW r \in Handlers, UpsertRole(r)
       PROVE  ColumnsMade'
    BY <1>1 DEF UpsertRole, Reach, identity, oauth, secrets, local, history, bounds
  <1>2. ASSUME NEW r \in Handlers, CountUsers(r)
       PROVE  ColumnsMade'
    BY <1>2 DEF CountUsers, Reach, identity, oauth, secrets, local, history, bounds
  <1>3. ASSUME NEW r \in Handlers, CreateUser(r)
       PROVE  ColumnsMade'
    BY <1>3 DEF CreateUser, Reach, Finish, identity, oauth, secrets, local, history, bounds
  <1>4. ASSUME NEW r \in Handlers, StoreVerifyToken(r)
       PROVE  ColumnsMade'
    BY <1>4 DEF StoreVerifyToken, Reach, Finish, Make, identity, oauth, secrets, local,
       history, bounds
  <1>5. ASSUME NEW r \in Handlers, StoreResetToken(r)
       PROVE  ColumnsMade'
    <2>1. /\ column' = [column EXCEPT !["mail"][who[r]] = issued'] /\ issued' = issued + 1
          /\ secret' = [secret EXCEPT ![r] = issued']
      BY <1>5 DEF StoreResetToken, Reach, Make, identity, oauth, secrets,
         local, history, bounds
    <2>2. issued' \in 0 .. issued' /\ "mail" \in Slots /\ issued <= issued' /\ issued' \in Nat
      BY <2>1
    <2>3. column' \in [Slots -> [People -> 0 .. issued']]
      <3> HIDE <1>41 DEF Slots
      <3> QED
        BY <2>1, <2>2, <1>40, TableExcept
    <2>4. secret' \in [Handlers -> 0 .. issued']
      BY <2>1, <2>2, <1>40
    <2> QED
      BY <2>3, <2>4
  <1>6. ASSUME NEW r \in Handlers, Mail(r)
       PROVE  ColumnsMade'
    BY <1>6 DEF Mail, Reach, Finish, Deliver, identity, oauth, secrets, local, history, bounds
  <1>7. ASSUME NEW r \in Handlers, CreateCode(r)
       PROVE  ColumnsMade'
    BY <1>7 DEF CreateCode, Reach, Finish, Make, identity, oauth, secrets, local, history,
       bounds
  <1>8. ASSUME NEW r \in Handlers, DeleteCodes(r)
       PROVE  ColumnsMade'
    BY <1>8 DEF DeleteCodes, Reach, identity, oauth, secrets, local, history, bounds
  <1>9. ASSUME NEW r \in Handlers, DeleteClientRow(r)
       PROVE  ColumnsMade'
    BY <1>9 DEF DeleteClientRow, Reach, Finish, identity, oauth, secrets, local, history, bounds
  <1>10. ASSUME NEW r \in Handlers, VerifyEmail(r)
       PROVE  ColumnsMade'
    <2>1. /\ column' = [column EXCEPT !["mail"][who[r]] = NoSecret] /\ issued' = issued
          /\ secret' = [secret EXCEPT ![r] = NoSecret]
      BY <1>10 DEF VerifyEmail, Reach, Finish, Answer, Empty, identity, oauth, secrets,
         local, history, bounds
    <2>2. 0 \in 0 .. issued /\ "mail" \in Slots /\ issued <= issued
      OBVIOUS
    <2>3. column' \in [Slots -> [People -> 0 .. issued']]
      <3> HIDE DEF Slots
      <3> QED
        BY <2>1, <2>2, <1>40, TableExcept
    <2>4. secret' \in [Handlers -> 0 .. issued']
      BY <2>1, <2>2, <1>40
    <2> QED
      BY <2>3, <2>4
  <1>11. ASSUME NEW r \in Handlers, ResetPassword(r)
       PROVE  ColumnsMade'
    <2>1. /\ column' = [column EXCEPT !["mail"][who[r]] = NoSecret] /\ issued' = issued
          /\ secret' = [secret EXCEPT ![r] = NoSecret]
      BY <1>11 DEF ResetPassword, Reach, Finish, Answer, Empty, identity, oauth, secrets,
         local, history, bounds
    <2>2. 0 \in 0 .. issued /\ "mail" \in Slots /\ issued <= issued
      OBVIOUS
    <2>3. column' \in [Slots -> [People -> 0 .. issued']]
      <3> HIDE DEF Slots
      <3> QED
        BY <2>1, <2>2, <1>40, TableExcept
    <2>4. secret' \in [Handlers -> 0 .. issued']
      BY <2>1, <2>2, <1>40
    <2> QED
      BY <2>3, <2>4
  <1>12. ASSUME NEW r \in Handlers, StorePasskey(r)
       PROVE  ColumnsMade'
    BY <1>12 DEF StorePasskey, Reach, Finish, identity, oauth, secrets, local, history, bounds
  <1>13. ASSUME NEW r \in Handlers, UpdateCounter(r)
       PROVE  ColumnsMade'
    BY <1>13 DEF UpdateCounter, Reach, Finish, identity, oauth, secrets, local, history, bounds
  <1>14. ASSUME NEW r \in Handlers, ClearChallenge(r)
       PROVE  ColumnsMade'
    <2>1. /\ column' = [column EXCEPT !["challenge"][who[r]] = NoSecret] /\ issued' = issued
          /\ secret' = [secret EXCEPT ![r] = NoSecret]
      BY <1>14 DEF ClearChallenge, Reach, Finish, Answer, Empty, identity, oauth, secrets,
         local, history, bounds
    <2>2. 0 \in 0 .. issued /\ "challenge" \in Slots /\ issued <= issued
      OBVIOUS
    <2>3. column' \in [Slots -> [People -> 0 .. issued']]
      <3> HIDE DEF Slots
      <3> QED
        BY <2>1, <2>2, <1>40, TableExcept
    <2>4. secret' \in [Handlers -> 0 .. issued']
      BY <2>1, <2>2, <1>40
    <2> QED
      BY <2>3, <2>4
  <1>15. ASSUME NEW r \in Handlers, MarkCodeUsed(r)
       PROVE  ColumnsMade'
    BY <1>15 DEF MarkCodeUsed, Reach, Finish, Answer, identity, oauth, secrets, local,
       history, bounds
  <1>16. ASSUME NEW r \in Handlers, Break(r)
       PROVE  ColumnsMade'
    BY <1>16 DEF Break, Reach, Finish, identity, oauth, secrets, local, history, bounds
  <1>17. ASSUME NEW r \in Handlers, NEW u \in People, Register(r, u)
       PROVE  ColumnsMade'
    BY <1>17 DEF Register, Start, Reach, identity, oauth, secrets, local, history, bounds
  <1>18. ASSUME NEW r \in Handlers, NEW u \in People, ForgotPassword(r, u)
       PROVE  ColumnsMade'
    BY <1>18 DEF ForgotPassword, Start, Reach, identity, oauth, secrets, local, history, bounds
  <1>19. ASSUME NEW r \in Handlers, NEW c \in Clients, ApproveConsent(r, c)
       PROVE  ColumnsMade'
    BY <1>19 DEF ApproveConsent, Start, Reach, identity, oauth, secrets, local, history, bounds
  <1>20. ASSUME NEW r \in Handlers, NEW c \in Clients, DeleteClient(r, c)
       PROVE  ColumnsMade'
    BY <1>20 DEF DeleteClient, Start, Reach, identity, oauth, secrets, local, history, bounds
  <1>21. ASSUME NEW r \in Handlers, NEW s \in Secrets, NEW p \in Secrets \cup {NoSecret},
                Present(r, s, p)
       PROVE  ColumnsMade'
    BY <1>21 DEF Present, Start, Reach, identity, oauth, secrets, local, history, bounds
  <1>22. ASSUME NEW u \in People, NEW k \in {"create", "get"}, GenerateOptions(u, k)
       PROVE  ColumnsMade'
    BY <1>22 DEF GenerateOptions, Make, Deliver, identity, oauth, secrets, local, history,
       bounds
  <1>23. ASSUME NEW u \in People, UpdateUser(u)
       PROVE  ColumnsMade'
    BY <1>23 DEF UpdateUser, identity, oauth, secrets, local, history, bounds
  <1>24. ASSUME NEW u \in People, AssignRole(u)
       PROVE  ColumnsMade'
    BY <1>24 DEF AssignRole, identity, oauth, secrets, local, history, bounds
  <1>25. ASSUME NEW u \in People, RemoveRole(u)
       PROVE  ColumnsMade'
    BY <1>25 DEF RemoveRole, identity, oauth, secrets, local, history, bounds
  <1>26. ASSUME NEW s \in Secrets, DeletePasskey(s)
       PROVE  ColumnsMade'
    BY <1>26 DEF DeletePasskey, identity, oauth, secrets, local, history, bounds
  <1>27. ASSUME NEW s \in Secrets, CodeExpires(s)
       PROVE  ColumnsMade'
    BY <1>27 DEF CodeExpires, identity, oauth, secrets, local, history, bounds
  <1>28. ASSUME NEW c \in Clients, RegisterClient(c)
       PROVE  ColumnsMade'
    BY <1>28 DEF RegisterClient, identity, oauth, secrets, local, history, bounds
  <1>29. ASSUME NEW n \in Roles, UpdateRole(n)
       PROVE  ColumnsMade'
    BY <1>29 DEF UpdateRole, identity, oauth, secrets, local, history, bounds
  <1> QED
    BY <1>1, <1>2, <1>3, <1>4, <1>5, <1>6, <1>7, <1>8, <1>9, <1>10, <1>11, <1>12, <1>13,
       <1>14, <1>15, <1>16, <1>17, <1>18, <1>19, <1>20, <1>21, <1>22, <1>23, <1>24, <1>25,
       <1>26, <1>27, <1>28, <1>29 DEF AccNext, Handle

\* The histories.
HistoriesTyped ==
    /\ uses \in [Secrets -> Nat] /\ overlapped \subseteq Secrets
    /\ latest \in [Slots -> [People -> 0 .. issued]] /\ excused \subseteq Slots \X People

\* A step keeps the types of the histories.
LEMMA HistoryTypes ==
    ASSUME AccInv, AccNext
    PROVE  HistoriesTyped'
  <1>41. issued' = issued \/ issued' = issued + 1
    BY Grows
  <1> USE <1>41
  <1>40. /\ uses \in [Secrets -> Nat] /\ overlapped \subseteq Secrets
        /\ latest \in [Slots -> [People -> 0 .. issued]] /\ excused \subseteq Slots \X People
        /\ issued \in Nat
        /\ secret \in [Handlers -> 0 .. issued]
        /\ \A r \in Handlers : 
             /\ stage[r] = "mailing" => who[r] \in People
             /\ stage[r] \in {"mailing", "accepted"} => secret[r] \in 1 .. issued
             /\ stage[r] \in {"accepted", "stored"} => secret[r] \in 1 .. issued
             /\ stage[r] \in {"accepted", "stored"} /\ kind[secret[r]] # "code" => who[r] \in People
             /\ stage[r] = "stored" => kind[secret[r]] \in {"create", "get"}
        /\ 1 .. issued \subseteq Secrets
    BY AccountsAssumption DEF AccInv, AccTypes, AccTypeOK, CallsKnow, SecretsKnown, Spending,
       Slots, Kinds, Secrets, Roles, NoSecret, NoRole
  <1> USE <1>40 DEF Slots, Kinds, Secrets, Roles, NoSecret, NoRole
  <1> USE DEF HistoriesTyped
  <1>1. ASSUME NEW r \in Handlers, UpsertRole(r)
       PROVE  HistoriesTyped'
    BY <1>1 DEF UpsertRole, Reach, identity, oauth, secrets, local, history, bounds
  <1>2. ASSUME NEW r \in Handlers, CountUsers(r)
       PROVE  HistoriesTyped'
    BY <1>2 DEF CountUsers, Reach, identity, oauth, secrets, local, history, bounds
  <1>3. ASSUME NEW r \in Handlers, CreateUser(r)
       PROVE  HistoriesTyped'
    BY <1>3 DEF CreateUser, Reach, Finish, identity, oauth, secrets, local, history, bounds
  <1>4. ASSUME NEW r \in Handlers, StoreVerifyToken(r)
       PROVE  HistoriesTyped'
    BY <1>4 DEF StoreVerifyToken, Reach, Finish, Make, identity, oauth, secrets, local,
       history, bounds
  <1>5. ASSUME NEW r \in Handlers, StoreResetToken(r)
       PROVE  HistoriesTyped'
    BY <1>5 DEF StoreResetToken, Reach, Make, identity, oauth, secrets, local, history, bounds
  <1>6. ASSUME NEW r \in Handlers, Mail(r)
       PROVE  HistoriesTyped'
    BY <1>6 DEF Mail, Reach, Finish, Deliver, identity, oauth, secrets, local, history, bounds
  <1>7. ASSUME NEW r \in Handlers, CreateCode(r)
       PROVE  HistoriesTyped'
    BY <1>7 DEF CreateCode, Reach, Finish, Make, identity, oauth, secrets, local, history,
       bounds
  <1>8. ASSUME NEW r \in Handlers, DeleteCodes(r)
       PROVE  HistoriesTyped'
    BY <1>8 DEF DeleteCodes, Reach, identity, oauth, secrets, local, history, bounds
  <1>9. ASSUME NEW r \in Handlers, DeleteClientRow(r)
       PROVE  HistoriesTyped'
    BY <1>9 DEF DeleteClientRow, Reach, Finish, identity, oauth, secrets, local, history, bounds
  <1>10. ASSUME NEW r \in Handlers, VerifyEmail(r)
       PROVE  HistoriesTyped'
    <2>1. /\ uses' = [uses EXCEPT ![secret[r]] = @ + 1] /\ issued' = issued
          /\ latest' = latest /\ overlapped' = overlapped
          /\ excused' \in {excused, excused \cup {<<"mail", who[r]>>}}
      BY <1>10 DEF VerifyEmail, Reach, Finish, Answer, Empty, identity, oauth, secrets,
         local, history, bounds
    <2>2. who[r] \in People
      BY <1>10 DEF VerifyEmail
    <2>3. excused' \subseteq Slots \X People
      BY <2>1, <2>2
    <2>4. secret[r] \in Secrets /\ uses[secret[r]] + 1 \in Nat
      <3>1. secret[r] \in 1 .. issued
        BY <1>10 DEF VerifyEmail
      <3>2. secret[r] \in Secrets
        BY <3>1
      <3>3. uses[secret[r]] \in Nat
        <4> HIDE DEF Secrets
        <4> QED
          BY <3>2, <1>40
      <3> QED
        BY <3>2, <3>3
    <2>5. uses' \in [Secrets -> Nat]
      <3> HIDE DEF Secrets
      <3> QED
        BY <2>1, <2>4, <1>40
    <2> QED
      BY <2>1, <2>3, <2>5
  <1>11. ASSUME NEW r \in Handlers, ResetPassword(r)
       PROVE  HistoriesTyped'
    <2>1. /\ uses' = [uses EXCEPT ![secret[r]] = @ + 1] /\ issued' = issued
          /\ latest' = latest /\ overlapped' = overlapped
          /\ excused' \in {excused, excused \cup {<<"mail", who[r]>>}}
      BY <1>11 DEF ResetPassword, Reach, Finish, Answer, Empty, identity, oauth, secrets,
         local, history, bounds
    <2>2. who[r] \in People
      BY <1>11 DEF ResetPassword
    <2>3. excused' \subseteq Slots \X People
      BY <2>1, <2>2
    <2>4. secret[r] \in Secrets /\ uses[secret[r]] + 1 \in Nat
      <3>1. secret[r] \in 1 .. issued
        BY <1>11 DEF ResetPassword
      <3>2. secret[r] \in Secrets
        BY <3>1
      <3>3. uses[secret[r]] \in Nat
        <4> HIDE DEF Secrets
        <4> QED
          BY <3>2, <1>40
      <3> QED
        BY <3>2, <3>3
    <2>5. uses' \in [Secrets -> Nat]
      <3> HIDE DEF Secrets
      <3> QED
        BY <2>1, <2>4, <1>40
    <2> QED
      BY <2>1, <2>3, <2>5
  <1>12. ASSUME NEW r \in Handlers, StorePasskey(r)
       PROVE  HistoriesTyped'
    BY <1>12 DEF StorePasskey, Reach, Finish, identity, oauth, secrets, local, history, bounds
  <1>13. ASSUME NEW r \in Handlers, UpdateCounter(r)
       PROVE  HistoriesTyped'
    BY <1>13 DEF UpdateCounter, Reach, Finish, identity, oauth, secrets, local, history, bounds
  <1>14. ASSUME NEW r \in Handlers, ClearChallenge(r)
       PROVE  HistoriesTyped'
    <2>1. /\ uses' = [uses EXCEPT ![secret[r]] = @ + 1] /\ issued' = issued
          /\ latest' = latest /\ overlapped' = overlapped
          /\ excused' \in {excused, excused \cup {<<"challenge", who[r]>>}}
      BY <1>14 DEF ClearChallenge, Reach, Finish, Answer, Empty, identity, oauth, secrets,
         local, history, bounds
    <2>2. who[r] \in People
      BY <1>14 DEF ClearChallenge
    <2>3. excused' \subseteq Slots \X People
      BY <2>1, <2>2
    <2>4. secret[r] \in Secrets /\ uses[secret[r]] + 1 \in Nat
      <3>1. secret[r] \in 1 .. issued
        BY <1>14 DEF ClearChallenge
      <3>2. secret[r] \in Secrets
        BY <3>1
      <3>3. uses[secret[r]] \in Nat
        <4> HIDE DEF Secrets
        <4> QED
          BY <3>2, <1>40
      <3> QED
        BY <3>2, <3>3
    <2>5. uses' \in [Secrets -> Nat]
      <3> HIDE DEF Secrets
      <3> QED
        BY <2>1, <2>4, <1>40
    <2> QED
      BY <2>1, <2>3, <2>5
  <1>15. ASSUME NEW r \in Handlers, MarkCodeUsed(r)
       PROVE  HistoriesTyped'
    <2>1. /\ uses' = [uses EXCEPT ![secret[r]] = @ + 1] \/ uses' = uses
          /\ issued' = issued /\ latest' = latest /\ overlapped' = overlapped
          /\ excused' = excused
      BY <1>15 DEF MarkCodeUsed, Reach, Finish, Answer, identity, oauth, secrets,
         local, history, bounds
    <2>4. secret[r] \in Secrets /\ uses[secret[r]] + 1 \in Nat
      <3>1. secret[r] \in 1 .. issued
        BY <1>15 DEF MarkCodeUsed
      <3>2. secret[r] \in Secrets
        BY <3>1
      <3>3. uses[secret[r]] \in Nat
        <4> HIDE DEF Secrets
        <4> QED
          BY <3>2, <1>40
      <3> QED
        BY <3>2, <3>3
    <2>5. uses' \in [Secrets -> Nat]
      <3> HIDE DEF Secrets
      <3> QED
        BY <2>1, <2>4, <1>40
    <2> QED
      BY <2>1, <2>5
  <1>16. ASSUME NEW r \in Handlers, Break(r)
       PROVE  HistoriesTyped'
    BY <1>16 DEF Break, Reach, Finish, identity, oauth, secrets, local, history, bounds
  <1>17. ASSUME NEW r \in Handlers, NEW u \in People, Register(r, u)
       PROVE  HistoriesTyped'
    BY <1>17 DEF Register, Start, Reach, identity, oauth, secrets, local, history, bounds
  <1>18. ASSUME NEW r \in Handlers, NEW u \in People, ForgotPassword(r, u)
       PROVE  HistoriesTyped'
    BY <1>18 DEF ForgotPassword, Start, Reach, identity, oauth, secrets, local, history, bounds
  <1>19. ASSUME NEW r \in Handlers, NEW c \in Clients, ApproveConsent(r, c)
       PROVE  HistoriesTyped'
    BY <1>19 DEF ApproveConsent, Start, Reach, identity, oauth, secrets, local, history, bounds
  <1>20. ASSUME NEW r \in Handlers, NEW c \in Clients, DeleteClient(r, c)
       PROVE  HistoriesTyped'
    BY <1>20 DEF DeleteClient, Start, Reach, identity, oauth, secrets, local, history, bounds
  <1>21. ASSUME NEW r \in Handlers, NEW s \in Secrets, NEW p \in Secrets \cup {NoSecret},
                Present(r, s, p)
       PROVE  HistoriesTyped'
    BY <1>21 DEF Present, Start, Reach, identity, oauth, secrets, local, history, bounds
  <1>22. ASSUME NEW u \in People, NEW k \in {"create", "get"}, GenerateOptions(u, k)
       PROVE  HistoriesTyped'
    BY <1>22 DEF GenerateOptions, Make, Deliver, identity, oauth, secrets, local, history,
       bounds
  <1>23. ASSUME NEW u \in People, UpdateUser(u)
       PROVE  HistoriesTyped'
    BY <1>23 DEF UpdateUser, identity, oauth, secrets, local, history, bounds
  <1>24. ASSUME NEW u \in People, AssignRole(u)
       PROVE  HistoriesTyped'
    BY <1>24 DEF AssignRole, identity, oauth, secrets, local, history, bounds
  <1>25. ASSUME NEW u \in People, RemoveRole(u)
       PROVE  HistoriesTyped'
    BY <1>25 DEF RemoveRole, identity, oauth, secrets, local, history, bounds
  <1>26. ASSUME NEW s \in Secrets, DeletePasskey(s)
       PROVE  HistoriesTyped'
    BY <1>26 DEF DeletePasskey, identity, oauth, secrets, local, history, bounds
  <1>27. ASSUME NEW s \in Secrets, CodeExpires(s)
       PROVE  HistoriesTyped'
    BY <1>27 DEF CodeExpires, identity, oauth, secrets, local, history, bounds
  <1>28. ASSUME NEW c \in Clients, RegisterClient(c)
       PROVE  HistoriesTyped'
    BY <1>28 DEF RegisterClient, identity, oauth, secrets, local, history, bounds
  <1>29. ASSUME NEW n \in Roles, UpdateRole(n)
       PROVE  HistoriesTyped'
    BY <1>29 DEF UpdateRole, identity, oauth, secrets, local, history, bounds
  <1> QED
    BY <1>1, <1>2, <1>3, <1>4, <1>5, <1>6, <1>7, <1>8, <1>9, <1>10, <1>11, <1>12, <1>13,
       <1>14, <1>15, <1>16, <1>17, <1>18, <1>19, <1>20, <1>21, <1>22, <1>23, <1>24, <1>25,
       <1>26, <1>27, <1>28, <1>29 DEF AccNext, Handle

\* What a secret is for, and whose it is, is settled when it is made.
LEMMA SecretsStay ==
    ASSUME AccInv, AccNext
    PROVE  \A x \in 1 .. issued : kind'[x] = kind[x] /\ owner'[x] = owner[x]
  <1>40. /\ kind \in [Secrets -> Kinds] /\ owner \in [Secrets -> People \cup Clients \cup {None}]
        /\ issued \in Nat
    BY AccountsAssumption DEF AccInv, AccTypes, AccTypeOK, Slots, Kinds, Secrets, Roles,
       NoSecret, NoRole
  <1> USE <1>40 DEF Slots, Kinds, Secrets, Roles, NoSecret, NoRole
  <1>1. ASSUME NEW r \in Handlers, UpsertRole(r)
       PROVE  \A x \in 1 .. issued : kind'[x] = kind[x] /\ owner'[x] = owner[x]
    BY <1>1 DEF UpsertRole, Reach, identity, oauth, secrets, local, history, bounds
  <1>2. ASSUME NEW r \in Handlers, CountUsers(r)
       PROVE  \A x \in 1 .. issued : kind'[x] = kind[x] /\ owner'[x] = owner[x]
    BY <1>2 DEF CountUsers, Reach, identity, oauth, secrets, local, history, bounds
  <1>3. ASSUME NEW r \in Handlers, CreateUser(r)
       PROVE  \A x \in 1 .. issued : kind'[x] = kind[x] /\ owner'[x] = owner[x]
    BY <1>3 DEF CreateUser, Reach, Finish, identity, oauth, secrets, local, history, bounds
  <1>4. ASSUME NEW r \in Handlers, StoreVerifyToken(r)
       PROVE  \A x \in 1 .. issued : kind'[x] = kind[x] /\ owner'[x] = owner[x]
    <2>1. CASE first[r]
      BY <1>4, <2>1 DEF StoreVerifyToken, secrets
    <2>2. CASE ~first[r]
      <3>1. Make("verify", who[r])
        BY <1>4, <2>2 DEF StoreVerifyToken
      <3> QED
        BY <3>1 DEF Make
    <2> QED
      BY <2>1, <2>2
  <1>5. ASSUME NEW r \in Handlers, StoreResetToken(r)
       PROVE  \A x \in 1 .. issued : kind'[x] = kind[x] /\ owner'[x] = owner[x]
    BY <1>5 DEF StoreResetToken, Reach, Make, identity, oauth, secrets, local, history, bounds
  <1>6. ASSUME NEW r \in Handlers, Mail(r)
       PROVE  \A x \in 1 .. issued : kind'[x] = kind[x] /\ owner'[x] = owner[x]
    BY <1>6 DEF Mail, Reach, Finish, Deliver, identity, oauth, secrets, local, history, bounds
  <1>7. ASSUME NEW r \in Handlers, CreateCode(r)
       PROVE  \A x \in 1 .. issued : kind'[x] = kind[x] /\ owner'[x] = owner[x]
    <2>1. Make("code", who[r]) \/ (kind' = kind /\ owner' = owner)
      BY <1>7 DEF CreateCode, secrets
    <2>2. CASE Make("code", who[r])
      <3>1. PICK o : /\ issued' = issued + 1 /\ kind' = [kind EXCEPT ![issued'] = "code"]
                     /\ owner' = [owner EXCEPT ![issued'] = o]
        BY <2>2 DEF Make
      <3> QED
        BY <3>1
    <2> QED
      BY <2>1, <2>2
  <1>8. ASSUME NEW r \in Handlers, DeleteCodes(r)
       PROVE  \A x \in 1 .. issued : kind'[x] = kind[x] /\ owner'[x] = owner[x]
    BY <1>8 DEF DeleteCodes, Reach, identity, oauth, secrets, local, history, bounds
  <1>9. ASSUME NEW r \in Handlers, DeleteClientRow(r)
       PROVE  \A x \in 1 .. issued : kind'[x] = kind[x] /\ owner'[x] = owner[x]
    BY <1>9 DEF DeleteClientRow, Reach, Finish, identity, oauth, secrets, local, history, bounds
  <1>10. ASSUME NEW r \in Handlers, VerifyEmail(r)
       PROVE  \A x \in 1 .. issued : kind'[x] = kind[x] /\ owner'[x] = owner[x]
    BY <1>10 DEF VerifyEmail, Reach, Finish, Answer, Empty, identity, oauth, secrets, local,
       history, bounds
  <1>11. ASSUME NEW r \in Handlers, ResetPassword(r)
       PROVE  \A x \in 1 .. issued : kind'[x] = kind[x] /\ owner'[x] = owner[x]
    BY <1>11 DEF ResetPassword, Reach, Finish, Answer, Empty, identity, oauth, secrets, local,
       history, bounds
  <1>12. ASSUME NEW r \in Handlers, StorePasskey(r)
       PROVE  \A x \in 1 .. issued : kind'[x] = kind[x] /\ owner'[x] = owner[x]
    BY <1>12 DEF StorePasskey, Reach, Finish, identity, oauth, secrets, local, history, bounds
  <1>13. ASSUME NEW r \in Handlers, UpdateCounter(r)
       PROVE  \A x \in 1 .. issued : kind'[x] = kind[x] /\ owner'[x] = owner[x]
    BY <1>13 DEF UpdateCounter, Reach, Finish, identity, oauth, secrets, local, history, bounds
  <1>14. ASSUME NEW r \in Handlers, ClearChallenge(r)
       PROVE  \A x \in 1 .. issued : kind'[x] = kind[x] /\ owner'[x] = owner[x]
    BY <1>14 DEF ClearChallenge, Reach, Finish, Answer, Empty, identity, oauth, secrets,
       local, history, bounds
  <1>15. ASSUME NEW r \in Handlers, MarkCodeUsed(r)
       PROVE  \A x \in 1 .. issued : kind'[x] = kind[x] /\ owner'[x] = owner[x]
    BY <1>15 DEF MarkCodeUsed, Reach, Finish, Answer, identity, oauth, secrets, local,
       history, bounds
  <1>16. ASSUME NEW r \in Handlers, Break(r)
       PROVE  \A x \in 1 .. issued : kind'[x] = kind[x] /\ owner'[x] = owner[x]
    BY <1>16 DEF Break, Reach, Finish, identity, oauth, secrets, local, history, bounds
  <1>17. ASSUME NEW r \in Handlers, NEW u \in People, Register(r, u)
       PROVE  \A x \in 1 .. issued : kind'[x] = kind[x] /\ owner'[x] = owner[x]
    BY <1>17 DEF Register, Start, Reach, identity, oauth, secrets, local, history, bounds
  <1>18. ASSUME NEW r \in Handlers, NEW u \in People, ForgotPassword(r, u)
       PROVE  \A x \in 1 .. issued : kind'[x] = kind[x] /\ owner'[x] = owner[x]
    BY <1>18 DEF ForgotPassword, Start, Reach, identity, oauth, secrets, local, history, bounds
  <1>19. ASSUME NEW r \in Handlers, NEW c \in Clients, ApproveConsent(r, c)
       PROVE  \A x \in 1 .. issued : kind'[x] = kind[x] /\ owner'[x] = owner[x]
    BY <1>19 DEF ApproveConsent, Start, Reach, identity, oauth, secrets, local, history, bounds
  <1>20. ASSUME NEW r \in Handlers, NEW c \in Clients, DeleteClient(r, c)
       PROVE  \A x \in 1 .. issued : kind'[x] = kind[x] /\ owner'[x] = owner[x]
    BY <1>20 DEF DeleteClient, Start, Reach, identity, oauth, secrets, local, history, bounds
  <1>21. ASSUME NEW r \in Handlers, NEW s \in Secrets, NEW p \in Secrets \cup {NoSecret},
                Present(r, s, p)
       PROVE  \A x \in 1 .. issued : kind'[x] = kind[x] /\ owner'[x] = owner[x]
    BY <1>21 DEF Present, Start, Reach, identity, oauth, secrets, local, history, bounds
  <1>22. ASSUME NEW u \in People, NEW k \in {"create", "get"}, GenerateOptions(u, k)
       PROVE  \A x \in 1 .. issued : kind'[x] = kind[x] /\ owner'[x] = owner[x]
    BY <1>22 DEF GenerateOptions, Make, Deliver, identity, oauth, secrets, local, history,
       bounds
  <1>23. ASSUME NEW u \in People, UpdateUser(u)
       PROVE  \A x \in 1 .. issued : kind'[x] = kind[x] /\ owner'[x] = owner[x]
    BY <1>23 DEF UpdateUser, identity, oauth, secrets, local, history, bounds
  <1>24. ASSUME NEW u \in People, AssignRole(u)
       PROVE  \A x \in 1 .. issued : kind'[x] = kind[x] /\ owner'[x] = owner[x]
    BY <1>24 DEF AssignRole, identity, oauth, secrets, local, history, bounds
  <1>25. ASSUME NEW u \in People, RemoveRole(u)
       PROVE  \A x \in 1 .. issued : kind'[x] = kind[x] /\ owner'[x] = owner[x]
    BY <1>25 DEF RemoveRole, identity, oauth, secrets, local, history, bounds
  <1>26. ASSUME NEW s \in Secrets, DeletePasskey(s)
       PROVE  \A x \in 1 .. issued : kind'[x] = kind[x] /\ owner'[x] = owner[x]
    BY <1>26 DEF DeletePasskey, identity, oauth, secrets, local, history, bounds
  <1>27. ASSUME NEW s \in Secrets, CodeExpires(s)
       PROVE  \A x \in 1 .. issued : kind'[x] = kind[x] /\ owner'[x] = owner[x]
    BY <1>27 DEF CodeExpires, identity, oauth, secrets, local, history, bounds
  <1>28. ASSUME NEW c \in Clients, RegisterClient(c)
       PROVE  \A x \in 1 .. issued : kind'[x] = kind[x] /\ owner'[x] = owner[x]
    BY <1>28 DEF RegisterClient, identity, oauth, secrets, local, history, bounds
  <1>29. ASSUME NEW n \in Roles, UpdateRole(n)
       PROVE  \A x \in 1 .. issued : kind'[x] = kind[x] /\ owner'[x] = owner[x]
    BY <1>29 DEF UpdateRole, identity, oauth, secrets, local, history, bounds
  <1> QED
    BY <1>1, <1>2, <1>3, <1>4, <1>5, <1>6, <1>7, <1>8, <1>9, <1>10, <1>11, <1>12, <1>13,
       <1>14, <1>15, <1>16, <1>17, <1>18, <1>19, <1>20, <1>21, <1>22, <1>23, <1>24, <1>25,
       <1>26, <1>27, <1>28, <1>29 DEF AccNext, Handle

\* A step keeps what calls know.
LEMMA CallsStep ==
    ASSUME AccInv, AccNext
    PROVE  CallsKnow'
  <1>41. /\ issued' = issued \/ issued' = issued + 1
        /\ \A s \in 1 .. issued : kind'[s] = kind[s] /\ owner'[s] = owner[s]
    BY Grows, SecretsStay
  <1> USE <1>41
  <1>40. /\ stage \in [Handlers -> {"idle", "registering", "counting", "creating", "created",
             "mailing",
                                "forgotten", "approving", "withdrawing", "withdrawn",
                                "accepted", "stored"}]
        /\ who \in [Handlers -> People \cup Clients \cup {None}] /\ issued \in Nat
        /\ secret \in [Handlers -> 0 .. issued] /\ delivered \subseteq 1 .. issued /\ CallsKnow
    BY AccountsAssumption DEF AccInv, AccTypes, AccTypeOK, Slots, Kinds, Secrets, Roles,
       NoSecret, NoRole
  <1> USE <1>40 DEF NoRole, NoSecret, CallsKnow, Spending
  <1>1. ASSUME NEW r \in Handlers, UpsertRole(r)
       PROVE  CallsKnow'
    BY <1>1 DEF UpsertRole, Reach, identity, oauth, secrets, local, history, bounds
  <1>2. ASSUME NEW r \in Handlers, CountUsers(r)
       PROVE  CallsKnow'
    BY <1>2 DEF CountUsers, Reach, identity, oauth, secrets, local, history, bounds
  <1>3. ASSUME NEW r \in Handlers, CreateUser(r)
       PROVE  CallsKnow'
    BY <1>3 DEF CreateUser, Reach, Finish, identity, oauth, secrets, local, history, bounds
  <1>4. ASSUME NEW r \in Handlers, StoreVerifyToken(r)
       PROVE  CallsKnow'
    BY <1>4 DEF StoreVerifyToken, Reach, Finish, Make, identity, oauth, secrets, local,
       history, bounds
  <1>5. ASSUME NEW r \in Handlers, StoreResetToken(r)
       PROVE  CallsKnow'
    BY <1>5 DEF StoreResetToken, Reach, Make, identity, oauth, secrets, local, history, bounds
  <1>6. ASSUME NEW r \in Handlers, Mail(r)
       PROVE  CallsKnow'
    BY <1>6 DEF Mail, Reach, Finish, Deliver, identity, oauth, secrets, local, history, bounds
  <1>7. ASSUME NEW r \in Handlers, CreateCode(r)
       PROVE  CallsKnow'
    BY <1>7 DEF CreateCode, Reach, Finish, Make, identity, oauth, secrets, local, history,
       bounds
  <1>8. ASSUME NEW r \in Handlers, DeleteCodes(r)
       PROVE  CallsKnow'
    BY <1>8 DEF DeleteCodes, Reach, identity, oauth, secrets, local, history, bounds
  <1>9. ASSUME NEW r \in Handlers, DeleteClientRow(r)
       PROVE  CallsKnow'
    BY <1>9 DEF DeleteClientRow, Reach, Finish, identity, oauth, secrets, local, history, bounds
  <1>10. ASSUME NEW r \in Handlers, VerifyEmail(r)
       PROVE  CallsKnow'
    BY <1>10 DEF VerifyEmail, Reach, Finish, Answer, Empty, identity, oauth, secrets, local,
       history, bounds
  <1>11. ASSUME NEW r \in Handlers, ResetPassword(r)
       PROVE  CallsKnow'
    BY <1>11 DEF ResetPassword, Reach, Finish, Answer, Empty, identity, oauth, secrets, local,
       history, bounds
  <1>12. ASSUME NEW r \in Handlers, StorePasskey(r)
       PROVE  CallsKnow'
    BY <1>12 DEF StorePasskey, Reach, Finish, identity, oauth, secrets, local, history, bounds
  <1>13. ASSUME NEW r \in Handlers, UpdateCounter(r)
       PROVE  CallsKnow'
    BY <1>13 DEF UpdateCounter, Reach, Finish, identity, oauth, secrets, local, history, bounds
  <1>14. ASSUME NEW r \in Handlers, ClearChallenge(r)
       PROVE  CallsKnow'
    BY <1>14 DEF ClearChallenge, Reach, Finish, Answer, Empty, identity, oauth, secrets,
       local, history, bounds
  <1>15. ASSUME NEW r \in Handlers, MarkCodeUsed(r)
       PROVE  CallsKnow'
    BY <1>15 DEF MarkCodeUsed, Reach, Finish, Answer, identity, oauth, secrets, local,
       history, bounds
  <1>16. ASSUME NEW r \in Handlers, Break(r)
       PROVE  CallsKnow'
    BY <1>16 DEF Break, Reach, Finish, identity, oauth, secrets, local, history, bounds
  <1>17. ASSUME NEW r \in Handlers, NEW u \in People, Register(r, u)
       PROVE  CallsKnow'
    BY <1>17 DEF Register, Start, Reach, identity, oauth, secrets, local, history, bounds
  <1>18. ASSUME NEW r \in Handlers, NEW u \in People, ForgotPassword(r, u)
       PROVE  CallsKnow'
    BY <1>18 DEF ForgotPassword, Start, Reach, identity, oauth, secrets, local, history, bounds
  <1>19. ASSUME NEW r \in Handlers, NEW c \in Clients, ApproveConsent(r, c)
       PROVE  CallsKnow'
    BY <1>19 DEF ApproveConsent, Start, Reach, identity, oauth, secrets, local, history, bounds
  <1>20. ASSUME NEW r \in Handlers, NEW c \in Clients, DeleteClient(r, c)
       PROVE  CallsKnow'
    BY <1>20 DEF DeleteClient, Start, Reach, identity, oauth, secrets, local, history, bounds
  <1>21. ASSUME NEW r \in Handlers, NEW s \in Secrets, NEW p \in Secrets \cup {NoSecret},
                Present(r, s, p)
       PROVE  CallsKnow'
    BY <1>21 DEF Present, Start, Reach, identity, oauth, secrets, local, history, bounds
  <1>22. ASSUME NEW u \in People, NEW k \in {"create", "get"}, GenerateOptions(u, k)
       PROVE  CallsKnow'
    BY <1>22 DEF GenerateOptions, Make, Deliver, identity, oauth, secrets, local, history,
       bounds
  <1>23. ASSUME NEW u \in People, UpdateUser(u)
       PROVE  CallsKnow'
    BY <1>23 DEF UpdateUser, identity, oauth, secrets, local, history, bounds
  <1>24. ASSUME NEW u \in People, AssignRole(u)
       PROVE  CallsKnow'
    BY <1>24 DEF AssignRole, identity, oauth, secrets, local, history, bounds
  <1>25. ASSUME NEW u \in People, RemoveRole(u)
       PROVE  CallsKnow'
    BY <1>25 DEF RemoveRole, identity, oauth, secrets, local, history, bounds
  <1>26. ASSUME NEW s \in Secrets, DeletePasskey(s)
       PROVE  CallsKnow'
    BY <1>26 DEF DeletePasskey, identity, oauth, secrets, local, history, bounds
  <1>27. ASSUME NEW s \in Secrets, CodeExpires(s)
       PROVE  CallsKnow'
    BY <1>27 DEF CodeExpires, identity, oauth, secrets, local, history, bounds
  <1>28. ASSUME NEW c \in Clients, RegisterClient(c)
       PROVE  CallsKnow'
    BY <1>28 DEF RegisterClient, identity, oauth, secrets, local, history, bounds
  <1>29. ASSUME NEW n \in Roles, UpdateRole(n)
       PROVE  CallsKnow'
    BY <1>29 DEF UpdateRole, identity, oauth, secrets, local, history, bounds
  <1> QED
    BY <1>1, <1>2, <1>3, <1>4, <1>5, <1>6, <1>7, <1>8, <1>9, <1>10, <1>11, <1>12, <1>13,
       <1>14, <1>15, <1>16, <1>17, <1>18, <1>19, <1>20, <1>21, <1>22, <1>23, <1>24, <1>25,
       <1>26, <1>27, <1>28, <1>29 DEF AccNext, Handle

\* What the row of a secret that was just made says.
LEMMA Made ==
    ASSUME AccTypeOK, NEW k \in Kinds, NEW x \in People \cup Clients, Make(k, x)
    PROVE  issued' = issued + 1 /\ kind'[issued'] = k /\ owner'[issued'] = x
  <1>1. issued \in 0 .. MaxSecrets /\ MaxSecrets \in Nat
        /\ kind \in [Secrets -> Kinds] /\ owner \in [Secrets -> People \cup Clients \cup {None}]
    BY AccountsAssumption DEF AccTypeOK
  <1>2. issued' = issued + 1 /\ issued' \in Secrets
    BY <1>1 DEF Make, Secrets
  <1> QED
    BY <1>1, <1>2 DEF Make

\* Codes are of clients, the other secrets of users.
OwnersFit ==
    \A x \in 1 .. issued : IF kind[x] = "code" THEN owner[x] \in Clients ELSE owner[x] \in People

\* A step keeps codes with clients and other secrets with users.
LEMMA OwnersStep ==
    ASSUME AccInv, AccNext
    PROVE  OwnersFit'
  <1>41. /\ issued' = issued \/ issued' = issued + 1
        /\ \A s \in 1 .. issued : kind'[s] = kind[s] /\ owner'[s] = owner[s]
    BY Grows, SecretsStay
  <1> USE <1>41
  <1>40. /\ issued \in 0 .. MaxSecrets /\ MaxSecrets \in Nat /\ None \notin People \cup Clients
        /\ kind \in [Secrets -> Kinds] /\ owner \in [Secrets -> People \cup Clients \cup {None}]
        /\ CallsKnow
        /\ \A s \in 1 .. issued :
             IF kind[s] = "code" THEN owner[s] \in Clients ELSE owner[s] \in People
    BY AccountsAssumption DEF AccInv, AccTypes, AccTypeOK, SecretsKnown, Slots, Kinds, Secrets,
       Roles, NoSecret, NoRole
  <1> USE <1>40 DEF Slots, Kinds, Secrets, Roles, NoSecret, NoRole, CallsKnow
  <1> USE DEF OwnersFit
  <1>1. ASSUME NEW r \in Handlers, UpsertRole(r)
       PROVE  OwnersFit'
    BY <1>1 DEF UpsertRole, Reach, identity, oauth, secrets, local, history, bounds
  <1>2. ASSUME NEW r \in Handlers, CountUsers(r)
       PROVE  OwnersFit'
    BY <1>2 DEF CountUsers, Reach, identity, oauth, secrets, local, history, bounds
  <1>3. ASSUME NEW r \in Handlers, CreateUser(r)
       PROVE  OwnersFit'
    BY <1>3 DEF CreateUser, Reach, Finish, identity, oauth, secrets, local, history, bounds
  <1>4. ASSUME NEW r \in Handlers, StoreVerifyToken(r)
       PROVE  OwnersFit'
    <2>1. CASE first[r]
      BY <1>4, <2>1 DEF StoreVerifyToken, Finish, identity, oauth, secrets,
         local, history, bounds
    <2>2. CASE ~first[r]
      <3>1. Make("verify", who[r]) /\ "verify" \in Kinds /\ who[r] \in People /\ AccTypeOK
        BY <1>4, <2>2 DEF StoreVerifyToken, AccInv, AccTypes
      <3>2. /\ issued' = issued + 1 /\ kind'[issued'] = "verify" /\ owner'[issued'] = who[r]
        BY <3>1, Made
      <3> QED
        BY <3>1, <3>2, <1>40, <1>41
    <2> QED
      BY <2>1, <2>2
  <1>5. ASSUME NEW r \in Handlers, StoreResetToken(r)
       PROVE  OwnersFit'
    <2>1. Make("reset", who[r]) /\ "reset" \in Kinds /\ who[r] \in People /\ AccTypeOK
      BY <1>5 DEF StoreResetToken, AccInv, AccTypes
    <2>2. /\ issued' = issued + 1 /\ kind'[issued'] = "reset" /\ owner'[issued'] = who[r]
      BY <2>1, Made
    <2> QED
      BY <2>1, <2>2, <1>40, <1>41
  <1>6. ASSUME NEW r \in Handlers, Mail(r)
       PROVE  OwnersFit'
    BY <1>6 DEF Mail, Reach, Finish, Deliver, identity, oauth, secrets, local, history, bounds
  <1>7. ASSUME NEW r \in Handlers, CreateCode(r)
       PROVE  OwnersFit'
    <2>1. CASE client[who[r]] # "live"
      BY <1>7, <2>1 DEF CreateCode, Finish, identity, oauth, secrets,
         local, history, bounds
    <2>2. CASE client[who[r]] = "live"
      <3>1. Make("code", who[r]) /\ "code" \in Kinds /\ who[r] \in Clients /\ AccTypeOK
        BY <1>7, <2>2 DEF CreateCode, AccInv, AccTypes
      <3>2. /\ issued' = issued + 1 /\ kind'[issued'] = "code" /\ owner'[issued'] = who[r]
        BY <3>1, Made
      <3> QED
        BY <3>1, <3>2, <1>40, <1>41
    <2> QED
      BY <2>1, <2>2
  <1>8. ASSUME NEW r \in Handlers, DeleteCodes(r)
       PROVE  OwnersFit'
    BY <1>8 DEF DeleteCodes, Reach, identity, oauth, secrets, local, history, bounds
  <1>9. ASSUME NEW r \in Handlers, DeleteClientRow(r)
       PROVE  OwnersFit'
    BY <1>9 DEF DeleteClientRow, Reach, Finish, identity, oauth, secrets, local, history, bounds
  <1>10. ASSUME NEW r \in Handlers, VerifyEmail(r)
       PROVE  OwnersFit'
    BY <1>10 DEF VerifyEmail, Reach, Finish, Answer, Empty, identity, oauth, secrets, local,
       history, bounds
  <1>11. ASSUME NEW r \in Handlers, ResetPassword(r)
       PROVE  OwnersFit'
    BY <1>11 DEF ResetPassword, Reach, Finish, Answer, Empty, identity, oauth, secrets, local,
       history, bounds
  <1>12. ASSUME NEW r \in Handlers, StorePasskey(r)
       PROVE  OwnersFit'
    BY <1>12 DEF StorePasskey, Reach, Finish, identity, oauth, secrets, local, history, bounds
  <1>13. ASSUME NEW r \in Handlers, UpdateCounter(r)
       PROVE  OwnersFit'
    BY <1>13 DEF UpdateCounter, Reach, Finish, identity, oauth, secrets, local, history, bounds
  <1>14. ASSUME NEW r \in Handlers, ClearChallenge(r)
       PROVE  OwnersFit'
    BY <1>14 DEF ClearChallenge, Reach, Finish, Answer, Empty, identity, oauth, secrets,
       local, history, bounds
  <1>15. ASSUME NEW r \in Handlers, MarkCodeUsed(r)
       PROVE  OwnersFit'
    BY <1>15 DEF MarkCodeUsed, Reach, Finish, Answer, identity, oauth, secrets, local,
       history, bounds
  <1>16. ASSUME NEW r \in Handlers, Break(r)
       PROVE  OwnersFit'
    BY <1>16 DEF Break, Reach, Finish, identity, oauth, secrets, local, history, bounds
  <1>17. ASSUME NEW r \in Handlers, NEW u \in People, Register(r, u)
       PROVE  OwnersFit'
    BY <1>17 DEF Register, Start, Reach, identity, oauth, secrets, local, history, bounds
  <1>18. ASSUME NEW r \in Handlers, NEW u \in People, ForgotPassword(r, u)
       PROVE  OwnersFit'
    BY <1>18 DEF ForgotPassword, Start, Reach, identity, oauth, secrets, local, history, bounds
  <1>19. ASSUME NEW r \in Handlers, NEW c \in Clients, ApproveConsent(r, c)
       PROVE  OwnersFit'
    BY <1>19 DEF ApproveConsent, Start, Reach, identity, oauth, secrets, local, history, bounds
  <1>20. ASSUME NEW r \in Handlers, NEW c \in Clients, DeleteClient(r, c)
       PROVE  OwnersFit'
    BY <1>20 DEF DeleteClient, Start, Reach, identity, oauth, secrets, local, history, bounds
  <1>21. ASSUME NEW r \in Handlers, NEW s \in Secrets, NEW p \in Secrets \cup {NoSecret},
                Present(r, s, p)
       PROVE  OwnersFit'
    BY <1>21 DEF Present, Start, Reach, identity, oauth, secrets, local, history, bounds
  <1>22. ASSUME NEW u \in People, NEW k \in {"create", "get"}, GenerateOptions(u, k)
       PROVE  OwnersFit'
    <2>1. Make(k, u) /\ k \in Kinds /\ u \in People /\ AccTypeOK
      BY <1>22 DEF GenerateOptions, AccInv, AccTypes
    <2>2. /\ issued' = issued + 1 /\ kind'[issued'] = k /\ owner'[issued'] = u
      BY <2>1, Made
    <2> QED
      BY <2>1, <2>2, <1>40, <1>41
  <1>23. ASSUME NEW u \in People, UpdateUser(u)
       PROVE  OwnersFit'
    BY <1>23 DEF UpdateUser, identity, oauth, secrets, local, history, bounds
  <1>24. ASSUME NEW u \in People, AssignRole(u)
       PROVE  OwnersFit'
    BY <1>24 DEF AssignRole, identity, oauth, secrets, local, history, bounds
  <1>25. ASSUME NEW u \in People, RemoveRole(u)
       PROVE  OwnersFit'
    BY <1>25 DEF RemoveRole, identity, oauth, secrets, local, history, bounds
  <1>26. ASSUME NEW s \in Secrets, DeletePasskey(s)
       PROVE  OwnersFit'
    BY <1>26 DEF DeletePasskey, identity, oauth, secrets, local, history, bounds
  <1>27. ASSUME NEW s \in Secrets, CodeExpires(s)
       PROVE  OwnersFit'
    BY <1>27 DEF CodeExpires, identity, oauth, secrets, local, history, bounds
  <1>28. ASSUME NEW c \in Clients, RegisterClient(c)
       PROVE  OwnersFit'
    BY <1>28 DEF RegisterClient, identity, oauth, secrets, local, history, bounds
  <1>29. ASSUME NEW n \in Roles, UpdateRole(n)
       PROVE  OwnersFit'
    BY <1>29 DEF UpdateRole, identity, oauth, secrets, local, history, bounds
  <1> QED
    BY <1>1, <1>2, <1>3, <1>4, <1>5, <1>6, <1>7, <1>8, <1>9, <1>10, <1>11, <1>12, <1>13,
       <1>14, <1>15, <1>16, <1>17, <1>18, <1>19, <1>20, <1>21, <1>22, <1>23, <1>24, <1>25,
       <1>26, <1>27, <1>28, <1>29 DEF AccNext, Handle

\* A secret that was not made was not used.
UnmadeUnused ==
    \A x \in Secrets : x > issued => uses[x] = 0

\* A secret that was not made was not used.
LEMMA NewUnused ==
    ASSUME AccInv, AccNext
    PROVE  UnmadeUnused'
  <1>41. /\ issued' = issued \/ issued' = issued + 1
        /\ \A s \in 1 .. issued : kind'[s] = kind[s] /\ owner'[s] = owner[s]
    BY Grows, SecretsStay
  <1> USE <1>41
  <1>40. /\ issued \in 0 .. MaxSecrets /\ MaxSecrets \in Nat /\ CallsKnow
         /\ uses \in [Secrets -> Nat]
        /\ \A s \in Secrets : s > issued => uses[s] = 0
    BY AccountsAssumption DEF AccInv, AccTypes, AccTypeOK, SecretsKnown, Slots, Kinds, Secrets,
       Roles, NoSecret, NoRole
  <1> USE <1>40 DEF NoSecret, CallsKnow, Spending
  <1> USE DEF UnmadeUnused
  <1>1. ASSUME NEW r \in Handlers, UpsertRole(r)
       PROVE  UnmadeUnused'
    BY <1>1 DEF UpsertRole, Reach, identity, oauth, secrets, local, history, bounds
  <1>2. ASSUME NEW r \in Handlers, CountUsers(r)
       PROVE  UnmadeUnused'
    BY <1>2 DEF CountUsers, Reach, identity, oauth, secrets, local, history, bounds
  <1>3. ASSUME NEW r \in Handlers, CreateUser(r)
       PROVE  UnmadeUnused'
    BY <1>3 DEF CreateUser, Reach, Finish, identity, oauth, secrets, local, history, bounds
  <1>4. ASSUME NEW r \in Handlers, StoreVerifyToken(r)
       PROVE  UnmadeUnused'
    <2>1. uses' = uses
      BY <1>4 DEF StoreVerifyToken, history
    <2> QED
      BY <2>1, <1>40, <1>41 DEF Secrets
  <1>5. ASSUME NEW r \in Handlers, StoreResetToken(r)
       PROVE  UnmadeUnused'
    <2>1. uses' = uses
      BY <1>5 DEF StoreResetToken, history
    <2> QED
      BY <2>1, <1>40, <1>41 DEF Secrets
  <1>6. ASSUME NEW r \in Handlers, Mail(r)
       PROVE  UnmadeUnused'
    BY <1>6 DEF Mail, Reach, Finish, Deliver, identity, oauth, secrets, local, history, bounds
  <1>7. ASSUME NEW r \in Handlers, CreateCode(r)
       PROVE  UnmadeUnused'
    <2>1. uses' = uses
      BY <1>7 DEF CreateCode, history
    <2> QED
      BY <2>1, <1>40, <1>41 DEF Secrets
  <1>8. ASSUME NEW r \in Handlers, DeleteCodes(r)
       PROVE  UnmadeUnused'
    BY <1>8 DEF DeleteCodes, Reach, identity, oauth, secrets, local, history, bounds
  <1>9. ASSUME NEW r \in Handlers, DeleteClientRow(r)
       PROVE  UnmadeUnused'
    BY <1>9 DEF DeleteClientRow, Reach, Finish, identity, oauth, secrets, local, history, bounds
  <1>10. ASSUME NEW r \in Handlers, VerifyEmail(r)
       PROVE  UnmadeUnused'
    BY <1>10 DEF VerifyEmail, Reach, Finish, Answer, Empty, identity, oauth, secrets, local,
       history, bounds
  <1>11. ASSUME NEW r \in Handlers, ResetPassword(r)
       PROVE  UnmadeUnused'
    BY <1>11 DEF ResetPassword, Reach, Finish, Answer, Empty, identity, oauth, secrets, local,
       history, bounds
  <1>12. ASSUME NEW r \in Handlers, StorePasskey(r)
       PROVE  UnmadeUnused'
    BY <1>12 DEF StorePasskey, Reach, Finish, identity, oauth, secrets, local, history, bounds
  <1>13. ASSUME NEW r \in Handlers, UpdateCounter(r)
       PROVE  UnmadeUnused'
    BY <1>13 DEF UpdateCounter, Reach, Finish, identity, oauth, secrets, local, history, bounds
  <1>14. ASSUME NEW r \in Handlers, ClearChallenge(r)
       PROVE  UnmadeUnused'
    BY <1>14 DEF ClearChallenge, Reach, Finish, Answer, Empty, identity, oauth, secrets,
       local, history, bounds
  <1>15. ASSUME NEW r \in Handlers, MarkCodeUsed(r)
       PROVE  UnmadeUnused'
    BY <1>15 DEF MarkCodeUsed, Reach, Finish, Answer, identity, oauth, secrets, local,
       history, bounds
  <1>16. ASSUME NEW r \in Handlers, Break(r)
       PROVE  UnmadeUnused'
    BY <1>16 DEF Break, Reach, Finish, identity, oauth, secrets, local, history, bounds
  <1>17. ASSUME NEW r \in Handlers, NEW u \in People, Register(r, u)
       PROVE  UnmadeUnused'
    BY <1>17 DEF Register, Start, Reach, identity, oauth, secrets, local, history, bounds
  <1>18. ASSUME NEW r \in Handlers, NEW u \in People, ForgotPassword(r, u)
       PROVE  UnmadeUnused'
    BY <1>18 DEF ForgotPassword, Start, Reach, identity, oauth, secrets, local, history, bounds
  <1>19. ASSUME NEW r \in Handlers, NEW c \in Clients, ApproveConsent(r, c)
       PROVE  UnmadeUnused'
    BY <1>19 DEF ApproveConsent, Start, Reach, identity, oauth, secrets, local, history, bounds
  <1>20. ASSUME NEW r \in Handlers, NEW c \in Clients, DeleteClient(r, c)
       PROVE  UnmadeUnused'
    BY <1>20 DEF DeleteClient, Start, Reach, identity, oauth, secrets, local, history, bounds
  <1>21. ASSUME NEW r \in Handlers, NEW s \in Secrets, NEW p \in Secrets \cup {NoSecret},
                Present(r, s, p)
       PROVE  UnmadeUnused'
    BY <1>21 DEF Present, Start, Reach, identity, oauth, secrets, local, history, bounds
  <1>22. ASSUME NEW u \in People, NEW k \in {"create", "get"}, GenerateOptions(u, k)
       PROVE  UnmadeUnused'
    <2>1. uses' = uses
      BY <1>22 DEF GenerateOptions, history
    <2> QED
      BY <2>1, <1>40, <1>41 DEF Secrets
  <1>23. ASSUME NEW u \in People, UpdateUser(u)
       PROVE  UnmadeUnused'
    BY <1>23 DEF UpdateUser, identity, oauth, secrets, local, history, bounds
  <1>24. ASSUME NEW u \in People, AssignRole(u)
       PROVE  UnmadeUnused'
    BY <1>24 DEF AssignRole, identity, oauth, secrets, local, history, bounds
  <1>25. ASSUME NEW u \in People, RemoveRole(u)
       PROVE  UnmadeUnused'
    BY <1>25 DEF RemoveRole, identity, oauth, secrets, local, history, bounds
  <1>26. ASSUME NEW s \in Secrets, DeletePasskey(s)
       PROVE  UnmadeUnused'
    BY <1>26 DEF DeletePasskey, identity, oauth, secrets, local, history, bounds
  <1>27. ASSUME NEW s \in Secrets, CodeExpires(s)
       PROVE  UnmadeUnused'
    BY <1>27 DEF CodeExpires, identity, oauth, secrets, local, history, bounds
  <1>28. ASSUME NEW c \in Clients, RegisterClient(c)
       PROVE  UnmadeUnused'
    BY <1>28 DEF RegisterClient, identity, oauth, secrets, local, history, bounds
  <1>29. ASSUME NEW n \in Roles, UpdateRole(n)
       PROVE  UnmadeUnused'
    BY <1>29 DEF UpdateRole, identity, oauth, secrets, local, history, bounds
  <1> QED
    BY <1>1, <1>2, <1>3, <1>4, <1>5, <1>6, <1>7, <1>8, <1>9, <1>10, <1>11, <1>12, <1>13,
       <1>14, <1>15, <1>16, <1>17, <1>18, <1>19, <1>20, <1>21, <1>22, <1>23, <1>24, <1>25,
       <1>26, <1>27, <1>28, <1>29 DEF AccNext, Handle

\* Columns hold secrets of their user and kinds.
ColumnsFit ==
    \A slot \in Slots, v \in People :
      LET x == column[slot][v] IN
      x # NoSecret =>
        /\ owner[x] = v
        /\ kind[x] \in IF slot = "mail" THEN {"verify", "reset"} ELSE {"create", "get"}

\* A step keeps columns with secrets of their user and kinds.
LEMMA ColumnsStep ==
    ASSUME AccInv, AccNext
    PROVE  ColumnsFit'
  <1>41. /\ issued' = issued \/ issued' = issued + 1
        /\ \A s \in 1 .. issued : kind'[s] = kind[s] /\ owner'[s] = owner[s]
    BY Grows, SecretsStay
  <1> USE <1>41
  <1>40. /\ issued \in 0 .. MaxSecrets /\ MaxSecrets \in Nat /\ None \notin People \cup Clients
        /\ kind \in [Secrets -> Kinds] /\ owner \in [Secrets -> People \cup Clients \cup {None}]
        /\ CallsKnow
        /\ column \in [Slots -> [People -> 0 .. issued]]
        /\ \A slot \in Slots, u \in People :
             LET s == column[slot][u] IN
             s # NoSecret =>
               /\ owner[s] = u
               /\ kind[s] \in IF slot = "mail" THEN {"verify", "reset"} ELSE {"create", "get"}
    BY AccountsAssumption DEF AccInv, AccTypes, AccTypeOK, SecretsKnown, Slots, Kinds, Secrets,
       Roles, NoSecret, NoRole
  <1> USE <1>40 DEF Slots, Kinds, Secrets, Roles, NoSecret, NoRole, CallsKnow
  <1>43. ASSUME NEW t \in Slots, NEW v \in People, column' = [column EXCEPT ![t][v] = issued'],
               issued' = issued + 1, owner'[issued'] = v,
               kind'[issued'] \in IF t = "mail" THEN {"verify", "reset"} ELSE {"create", "get"}
        PROVE  \A slot \in Slots, u \in People :
                 LET s == column'[slot][u] IN
                 s # NoSecret =>
                   /\ owner'[s] = u
                   /\ kind'[s] \in IF slot = "mail" THEN {"verify", "reset"} ELSE {"create", "get"}
    <2> HIDE DEF CallsKnow
    <2> SUFFICES ASSUME NEW slot \in Slots, NEW u \in People, column'[slot][u] # 0
                 PROVE  /\ owner'[column'[slot][u]] = u
                        /\ kind'[column'[slot][u]] \in
                             IF slot = "mail" THEN {"verify", "reset"} ELSE {"create", "get"}
      OBVIOUS
    <2>1. CASE slot = t /\ u = v
      <3>1. column'[slot][u] = issued'
        BY <1>43, <2>1, <1>40
      <3> QED
        BY <1>43, <2>1, <3>1
    <2>2. CASE ~(slot = t /\ u = v)
      <3>1. column'[slot][u] = column[slot][u] /\ column[slot][u] \in 1 .. issued
        BY <1>43, <2>2, <1>40
      <3> QED
        BY <3>1, <1>40, <1>41
    <2> QED
      BY <2>1, <2>2
  <1>44. ASSUME column' = column
        PROVE  \A slot \in Slots, u \in People :
                 LET s == column'[slot][u] IN
                 s # NoSecret =>
                   /\ owner'[s] = u
                   /\ kind'[s] \in IF slot = "mail" THEN {"verify", "reset"} ELSE {"create", "get"}
    <2> HIDE DEF CallsKnow
    <2> SUFFICES ASSUME NEW slot \in Slots, NEW u \in People, column'[slot][u] # 0
                 PROVE  /\ owner'[column'[slot][u]] = u
                        /\ kind'[column'[slot][u]] \in
                             IF slot = "mail" THEN {"verify", "reset"} ELSE {"create", "get"}
      OBVIOUS
    <2>1. column'[slot][u] = column[slot][u] /\ column[slot][u] \in 1 .. issued
      BY <1>44, <1>40
    <2> QED
      BY <2>1, <1>40, <1>41
  <1> USE DEF ColumnsFit
  <1>1. ASSUME NEW r \in Handlers, UpsertRole(r)
       PROVE  ColumnsFit'
    BY <1>1 DEF UpsertRole, Reach, identity, oauth, secrets, local, history, bounds
  <1>2. ASSUME NEW r \in Handlers, CountUsers(r)
       PROVE  ColumnsFit'
    BY <1>2 DEF CountUsers, Reach, identity, oauth, secrets, local, history, bounds
  <1>3. ASSUME NEW r \in Handlers, CreateUser(r)
       PROVE  ColumnsFit'
    BY <1>3 DEF CreateUser, Reach, Finish, identity, oauth, secrets, local, history, bounds
  <1>4. ASSUME NEW r \in Handlers, StoreVerifyToken(r)
       PROVE  ColumnsFit'
    <2>1. CASE first[r]
      BY <1>4, <2>1 DEF StoreVerifyToken, Finish, identity, oauth, secrets,
         local, history, bounds
    <2>2. CASE ~first[r]
      <3>1. Make("verify", who[r]) /\ "verify" \in Kinds /\ who[r] \in People /\ AccTypeOK
        BY <1>4, <2>2 DEF StoreVerifyToken, AccInv, AccTypes
      <3>2. /\ issued' = issued + 1 /\ kind'[issued'] = "verify" /\ owner'[issued'] = who[r]
        BY <3>1, Made
      <3>3. column' = [column EXCEPT !["mail"][who[r]] = issued'] /\ issued' # 0
        BY <1>4, <2>2, <3>2 DEF StoreVerifyToken
      <3> QED
        BY <3>1, <3>2, <3>3, <1>43
    <2> QED
      BY <2>1, <2>2
  <1>5. ASSUME NEW r \in Handlers, StoreResetToken(r)
       PROVE  ColumnsFit'
    <2>1. Make("reset", who[r]) /\ "reset" \in Kinds /\ who[r] \in People /\ AccTypeOK
      BY <1>5 DEF StoreResetToken, AccInv, AccTypes
    <2>2. /\ issued' = issued + 1 /\ kind'[issued'] = "reset" /\ owner'[issued'] = who[r]
      BY <2>1, Made
    <2>3. column' = [column EXCEPT !["mail"][who[r]] = issued'] /\ issued' # 0
      BY <1>5, <2>2 DEF StoreResetToken
    <2> QED
      BY <2>1, <2>2, <2>3, <1>43
  <1>6. ASSUME NEW r \in Handlers, Mail(r)
       PROVE  ColumnsFit'
    BY <1>6 DEF Mail, Reach, Finish, Deliver, identity, oauth, secrets, local, history, bounds
  <1>7. ASSUME NEW r \in Handlers, CreateCode(r)
       PROVE  ColumnsFit'
    <2>1. column' = column
      BY <1>7 DEF CreateCode
    <2> QED
      BY <2>1, <1>44
  <1>8. ASSUME NEW r \in Handlers, DeleteCodes(r)
       PROVE  ColumnsFit'
    BY <1>8 DEF DeleteCodes, Reach, identity, oauth, secrets, local, history, bounds
  <1>9. ASSUME NEW r \in Handlers, DeleteClientRow(r)
       PROVE  ColumnsFit'
    BY <1>9 DEF DeleteClientRow, Reach, Finish, identity, oauth, secrets, local, history, bounds
  <1>10. ASSUME NEW r \in Handlers, VerifyEmail(r)
       PROVE  ColumnsFit'
    BY <1>10 DEF VerifyEmail, Reach, Finish, Answer, Empty, identity, oauth, secrets, local,
       history, bounds
  <1>11. ASSUME NEW r \in Handlers, ResetPassword(r)
       PROVE  ColumnsFit'
    BY <1>11 DEF ResetPassword, Reach, Finish, Answer, Empty, identity, oauth, secrets, local,
       history, bounds
  <1>12. ASSUME NEW r \in Handlers, StorePasskey(r)
       PROVE  ColumnsFit'
    BY <1>12 DEF StorePasskey, Reach, Finish, identity, oauth, secrets, local, history, bounds
  <1>13. ASSUME NEW r \in Handlers, UpdateCounter(r)
       PROVE  ColumnsFit'
    BY <1>13 DEF UpdateCounter, Reach, Finish, identity, oauth, secrets, local, history, bounds
  <1>14. ASSUME NEW r \in Handlers, ClearChallenge(r)
       PROVE  ColumnsFit'
    BY <1>14 DEF ClearChallenge, Reach, Finish, Answer, Empty, identity, oauth, secrets,
       local, history, bounds
  <1>15. ASSUME NEW r \in Handlers, MarkCodeUsed(r)
       PROVE  ColumnsFit'
    BY <1>15 DEF MarkCodeUsed, Reach, Finish, Answer, identity, oauth, secrets, local,
       history, bounds
  <1>16. ASSUME NEW r \in Handlers, Break(r)
       PROVE  ColumnsFit'
    BY <1>16 DEF Break, Reach, Finish, identity, oauth, secrets, local, history, bounds
  <1>17. ASSUME NEW r \in Handlers, NEW u \in People, Register(r, u)
       PROVE  ColumnsFit'
    BY <1>17 DEF Register, Start, Reach, identity, oauth, secrets, local, history, bounds
  <1>18. ASSUME NEW r \in Handlers, NEW u \in People, ForgotPassword(r, u)
       PROVE  ColumnsFit'
    BY <1>18 DEF ForgotPassword, Start, Reach, identity, oauth, secrets, local, history, bounds
  <1>19. ASSUME NEW r \in Handlers, NEW c \in Clients, ApproveConsent(r, c)
       PROVE  ColumnsFit'
    BY <1>19 DEF ApproveConsent, Start, Reach, identity, oauth, secrets, local, history, bounds
  <1>20. ASSUME NEW r \in Handlers, NEW c \in Clients, DeleteClient(r, c)
       PROVE  ColumnsFit'
    BY <1>20 DEF DeleteClient, Start, Reach, identity, oauth, secrets, local, history, bounds
  <1>21. ASSUME NEW r \in Handlers, NEW s \in Secrets, NEW p \in Secrets \cup {NoSecret},
                Present(r, s, p)
       PROVE  ColumnsFit'
    BY <1>21 DEF Present, Start, Reach, identity, oauth, secrets, local, history, bounds
  <1>22. ASSUME NEW u \in People, NEW k \in {"create", "get"}, GenerateOptions(u, k)
       PROVE  ColumnsFit'
    <2>1. Make(k, u) /\ k \in Kinds /\ u \in People /\ AccTypeOK
      BY <1>22 DEF GenerateOptions, AccInv, AccTypes
    <2>2. /\ issued' = issued + 1 /\ kind'[issued'] = k /\ owner'[issued'] = u
      BY <2>1, Made
    <2>3. column' = [column EXCEPT !["challenge"][u] = issued'] /\ issued' # 0
      BY <1>22, <2>2 DEF GenerateOptions
    <2> QED
      BY <2>1, <2>2, <2>3, <1>43
  <1>23. ASSUME NEW u \in People, UpdateUser(u)
       PROVE  ColumnsFit'
    BY <1>23 DEF UpdateUser, identity, oauth, secrets, local, history, bounds
  <1>24. ASSUME NEW u \in People, AssignRole(u)
       PROVE  ColumnsFit'
    BY <1>24 DEF AssignRole, identity, oauth, secrets, local, history, bounds
  <1>25. ASSUME NEW u \in People, RemoveRole(u)
       PROVE  ColumnsFit'
    BY <1>25 DEF RemoveRole, identity, oauth, secrets, local, history, bounds
  <1>26. ASSUME NEW s \in Secrets, DeletePasskey(s)
       PROVE  ColumnsFit'
    BY <1>26 DEF DeletePasskey, identity, oauth, secrets, local, history, bounds
  <1>27. ASSUME NEW s \in Secrets, CodeExpires(s)
       PROVE  ColumnsFit'
    BY <1>27 DEF CodeExpires, identity, oauth, secrets, local, history, bounds
  <1>28. ASSUME NEW c \in Clients, RegisterClient(c)
       PROVE  ColumnsFit'
    BY <1>28 DEF RegisterClient, identity, oauth, secrets, local, history, bounds
  <1>29. ASSUME NEW n \in Roles, UpdateRole(n)
       PROVE  ColumnsFit'
    BY <1>29 DEF UpdateRole, identity, oauth, secrets, local, history, bounds
  <1> QED
    BY <1>1, <1>2, <1>3, <1>4, <1>5, <1>6, <1>7, <1>8, <1>9, <1>10, <1>11, <1>12, <1>13,
       <1>14, <1>15, <1>16, <1>17, <1>18, <1>19, <1>20, <1>21, <1>22, <1>23, <1>24, <1>25,
       <1>26, <1>27, <1>28, <1>29 DEF AccNext, Handle

\* A step keeps what a registration has counted.
LEMMA FirstStep ==
    ASSUME AccInv, AccNext
    PROVE  FirstRegistration'
  <1>40. /\ stage \in [Handlers -> {"idle", "registering", "counting", "creating", "created",
             "mailing",
                                "forgotten", "approving", "withdrawing", "withdrawn",
                                "accepted", "stored"}]
        /\ account \in [People -> {"none", "unverified", "verified"}]
        /\ roleName \in [Roles -> {"none", "admin", "other"}] /\ removed \in BOOLEAN
        /\ role \in [Handlers -> Roles \cup {NoRole}] /\ first \in [Handlers -> BOOLEAN]
        /\ CallsKnow /\ FirstRegistration
    BY AccountsAssumption DEF AccInv, AccTypes, AccTypeOK, Slots, Kinds, Secrets, Roles,
       NoSecret, NoRole
  <1> USE <1>40 DEF NoRole, FirstRegistration, Accounts, CallsKnow
  <1>1. ASSUME NEW r \in Handlers, UpsertRole(r)
       PROVE  FirstRegistration'
    BY <1>1 DEF UpsertRole, Reach, identity, oauth, secrets, local, history, bounds
  <1>2. ASSUME NEW r \in Handlers, CountUsers(r)
       PROVE  FirstRegistration'
    <2>1. /\ first' = [first EXCEPT ![r] = Accounts = {}]
          /\ stage' = [stage EXCEPT ![r] = "creating"]
          /\ stage[r] = "counting" /\ UNCHANGED <<account, roleName, role, removed>>
      BY <1>2 DEF CountUsers, Reach, identity, history
    <2>2. \A q \in Handlers \ {r} : stage'[q] = stage[q] /\ first'[q] = first[q]
      BY <2>1
    <2>3. stage'[r] = "creating" /\ Accounts' = Accounts
      BY <2>1
    <2>4. first'[r] = (Accounts = {})
      <3> HIDE DEF Accounts, FirstRegistration, CallsKnow
      <3> QED
        BY <2>1, <1>40
    <2>5. first'[r] <=> Accounts = {}
      BY <2>4
    <2> QED
      BY <2>1, <2>2, <2>3, <2>5
  <1>3. ASSUME NEW r \in Handlers, CreateUser(r)
       PROVE  FirstRegistration'
    BY <1>3 DEF CreateUser, Reach, Finish, identity, oauth, secrets, local, history, bounds
  <1>4. ASSUME NEW r \in Handlers, StoreVerifyToken(r)
       PROVE  FirstRegistration'
    BY <1>4 DEF StoreVerifyToken, Reach, Finish, Make, identity, oauth, secrets, local,
       history, bounds
  <1>5. ASSUME NEW r \in Handlers, StoreResetToken(r)
       PROVE  FirstRegistration'
    BY <1>5 DEF StoreResetToken, Reach, Make, identity, oauth, secrets, local, history, bounds
  <1>6. ASSUME NEW r \in Handlers, Mail(r)
       PROVE  FirstRegistration'
    BY <1>6 DEF Mail, Reach, Finish, Deliver, identity, oauth, secrets, local, history, bounds
  <1>7. ASSUME NEW r \in Handlers, CreateCode(r)
       PROVE  FirstRegistration'
    BY <1>7 DEF CreateCode, Reach, Finish, Make, identity, oauth, secrets, local, history,
       bounds
  <1>8. ASSUME NEW r \in Handlers, DeleteCodes(r)
       PROVE  FirstRegistration'
    BY <1>8 DEF DeleteCodes, Reach, identity, oauth, secrets, local, history, bounds
  <1>9. ASSUME NEW r \in Handlers, DeleteClientRow(r)
       PROVE  FirstRegistration'
    BY <1>9 DEF DeleteClientRow, Reach, Finish, identity, oauth, secrets, local, history, bounds
  <1>10. ASSUME NEW r \in Handlers, VerifyEmail(r)
       PROVE  FirstRegistration'
    BY <1>10 DEF VerifyEmail, Reach, Finish, Answer, Empty, identity, oauth, secrets, local,
       history, bounds
  <1>11. ASSUME NEW r \in Handlers, ResetPassword(r)
       PROVE  FirstRegistration'
    BY <1>11 DEF ResetPassword, Reach, Finish, Answer, Empty, identity, oauth, secrets, local,
       history, bounds
  <1>12. ASSUME NEW r \in Handlers, StorePasskey(r)
       PROVE  FirstRegistration'
    BY <1>12 DEF StorePasskey, Reach, Finish, identity, oauth, secrets, local, history, bounds
  <1>13. ASSUME NEW r \in Handlers, UpdateCounter(r)
       PROVE  FirstRegistration'
    BY <1>13 DEF UpdateCounter, Reach, Finish, identity, oauth, secrets, local, history, bounds
  <1>14. ASSUME NEW r \in Handlers, ClearChallenge(r)
       PROVE  FirstRegistration'
    BY <1>14 DEF ClearChallenge, Reach, Finish, Answer, Empty, identity, oauth, secrets,
       local, history, bounds
  <1>15. ASSUME NEW r \in Handlers, MarkCodeUsed(r)
       PROVE  FirstRegistration'
    BY <1>15 DEF MarkCodeUsed, Reach, Finish, Answer, identity, oauth, secrets, local,
       history, bounds
  <1>16. ASSUME NEW r \in Handlers, Break(r)
       PROVE  FirstRegistration'
    BY <1>16 DEF Break, Reach, Finish, identity, oauth, secrets, local, history, bounds
  <1>17. ASSUME NEW r \in Handlers, NEW u \in People, Register(r, u)
       PROVE  FirstRegistration'
    BY <1>17 DEF Register, Start, Reach, identity, oauth, secrets, local, history, bounds
  <1>18. ASSUME NEW r \in Handlers, NEW u \in People, ForgotPassword(r, u)
       PROVE  FirstRegistration'
    BY <1>18 DEF ForgotPassword, Start, Reach, identity, oauth, secrets, local, history, bounds
  <1>19. ASSUME NEW r \in Handlers, NEW c \in Clients, ApproveConsent(r, c)
       PROVE  FirstRegistration'
    BY <1>19 DEF ApproveConsent, Start, Reach, identity, oauth, secrets, local, history, bounds
  <1>20. ASSUME NEW r \in Handlers, NEW c \in Clients, DeleteClient(r, c)
       PROVE  FirstRegistration'
    BY <1>20 DEF DeleteClient, Start, Reach, identity, oauth, secrets, local, history, bounds
  <1>21. ASSUME NEW r \in Handlers, NEW s \in Secrets, NEW p \in Secrets \cup {NoSecret},
                Present(r, s, p)
       PROVE  FirstRegistration'
    BY <1>21 DEF Present, Start, Reach, identity, oauth, secrets, local, history, bounds
  <1>22. ASSUME NEW u \in People, NEW k \in {"create", "get"}, GenerateOptions(u, k)
       PROVE  FirstRegistration'
    BY <1>22 DEF GenerateOptions, Make, Deliver, identity, oauth, secrets, local, history,
       bounds
  <1>23. ASSUME NEW u \in People, UpdateUser(u)
       PROVE  FirstRegistration'
    BY <1>23 DEF UpdateUser, identity, oauth, secrets, local, history, bounds
  <1>24. ASSUME NEW u \in People, AssignRole(u)
       PROVE  FirstRegistration'
    BY <1>24 DEF AssignRole, identity, oauth, secrets, local, history, bounds
  <1>25. ASSUME NEW u \in People, RemoveRole(u)
       PROVE  FirstRegistration'
    BY <1>25 DEF RemoveRole, identity, oauth, secrets, local, history, bounds
  <1>26. ASSUME NEW s \in Secrets, DeletePasskey(s)
       PROVE  FirstRegistration'
    BY <1>26 DEF DeletePasskey, identity, oauth, secrets, local, history, bounds
  <1>27. ASSUME NEW s \in Secrets, CodeExpires(s)
       PROVE  FirstRegistration'
    BY <1>27 DEF CodeExpires, identity, oauth, secrets, local, history, bounds
  <1>28. ASSUME NEW c \in Clients, RegisterClient(c)
       PROVE  FirstRegistration'
    BY <1>28 DEF RegisterClient, identity, oauth, secrets, local, history, bounds
  <1>29. ASSUME NEW n \in Roles, UpdateRole(n)
       PROVE  FirstRegistration'
    BY <1>29 DEF UpdateRole, identity, oauth, secrets, local, history, bounds
  <1> QED
    BY <1>1, <1>2, <1>3, <1>4, <1>5, <1>6, <1>7, <1>8, <1>9, <1>10, <1>11, <1>12, <1>13,
       <1>14, <1>15, <1>16, <1>17, <1>18, <1>19, <1>20, <1>21, <1>22, <1>23, <1>24, <1>25,
       <1>26, <1>27, <1>28, <1>29 DEF AccNext, Handle

\* Nobody loses an account.
LEMMA AccountsStay ==
    ASSUME AccInv, AccNext
    PROVE  \A v \in People : account[v] # "none" => account'[v] # "none"
  <1>40. account \in [People -> {"none", "unverified", "verified"}]
    BY DEF AccInv, AccTypes, AccTypeOK
  <1>1. ASSUME NEW r \in Handlers, UpsertRole(r)
       PROVE  \A v \in People : account[v] # "none" => account'[v] # "none"
    BY <1>1, <1>40 DEF UpsertRole, identity
  <1>2. ASSUME NEW r \in Handlers, CountUsers(r)
       PROVE  \A v \in People : account[v] # "none" => account'[v] # "none"
    BY <1>2, <1>40 DEF CountUsers, identity
  <1>3. ASSUME NEW r \in Handlers, CreateUser(r)
       PROVE  \A v \in People : account[v] # "none" => account'[v] # "none"
    BY <1>3, <1>40 DEF CreateUser, identity
  <1>4. ASSUME NEW r \in Handlers, StoreVerifyToken(r)
       PROVE  \A v \in People : account[v] # "none" => account'[v] # "none"
    BY <1>4, <1>40 DEF StoreVerifyToken, identity
  <1>5. ASSUME NEW r \in Handlers, StoreResetToken(r)
       PROVE  \A v \in People : account[v] # "none" => account'[v] # "none"
    BY <1>5, <1>40 DEF StoreResetToken, identity
  <1>6. ASSUME NEW r \in Handlers, Mail(r)
       PROVE  \A v \in People : account[v] # "none" => account'[v] # "none"
    BY <1>6, <1>40 DEF Mail, identity
  <1>7. ASSUME NEW r \in Handlers, CreateCode(r)
       PROVE  \A v \in People : account[v] # "none" => account'[v] # "none"
    BY <1>7, <1>40 DEF CreateCode, identity
  <1>8. ASSUME NEW r \in Handlers, DeleteCodes(r)
       PROVE  \A v \in People : account[v] # "none" => account'[v] # "none"
    BY <1>8, <1>40 DEF DeleteCodes, identity
  <1>9. ASSUME NEW r \in Handlers, DeleteClientRow(r)
       PROVE  \A v \in People : account[v] # "none" => account'[v] # "none"
    BY <1>9, <1>40 DEF DeleteClientRow, identity
  <1>10. ASSUME NEW r \in Handlers, VerifyEmail(r)
       PROVE  \A v \in People : account[v] # "none" => account'[v] # "none"
    BY <1>10, <1>40 DEF VerifyEmail, identity
  <1>11. ASSUME NEW r \in Handlers, ResetPassword(r)
       PROVE  \A v \in People : account[v] # "none" => account'[v] # "none"
    BY <1>11, <1>40 DEF ResetPassword, identity
  <1>12. ASSUME NEW r \in Handlers, StorePasskey(r)
       PROVE  \A v \in People : account[v] # "none" => account'[v] # "none"
    BY <1>12, <1>40 DEF StorePasskey, identity
  <1>13. ASSUME NEW r \in Handlers, UpdateCounter(r)
       PROVE  \A v \in People : account[v] # "none" => account'[v] # "none"
    BY <1>13, <1>40 DEF UpdateCounter, identity
  <1>14. ASSUME NEW r \in Handlers, ClearChallenge(r)
       PROVE  \A v \in People : account[v] # "none" => account'[v] # "none"
    BY <1>14, <1>40 DEF ClearChallenge, identity
  <1>15. ASSUME NEW r \in Handlers, MarkCodeUsed(r)
       PROVE  \A v \in People : account[v] # "none" => account'[v] # "none"
    BY <1>15, <1>40 DEF MarkCodeUsed, identity
  <1>16. ASSUME NEW r \in Handlers, Break(r)
       PROVE  \A v \in People : account[v] # "none" => account'[v] # "none"
    BY <1>16, <1>40 DEF Break, identity
  <1>17. ASSUME NEW r \in Handlers, NEW u \in People, Register(r, u)
       PROVE  \A v \in People : account[v] # "none" => account'[v] # "none"
    BY <1>17, <1>40 DEF Register, identity
  <1>18. ASSUME NEW r \in Handlers, NEW u \in People, ForgotPassword(r, u)
       PROVE  \A v \in People : account[v] # "none" => account'[v] # "none"
    BY <1>18, <1>40 DEF ForgotPassword, identity
  <1>19. ASSUME NEW r \in Handlers, NEW c \in Clients, ApproveConsent(r, c)
       PROVE  \A v \in People : account[v] # "none" => account'[v] # "none"
    BY <1>19, <1>40 DEF ApproveConsent, identity
  <1>20. ASSUME NEW r \in Handlers, NEW c \in Clients, DeleteClient(r, c)
       PROVE  \A v \in People : account[v] # "none" => account'[v] # "none"
    BY <1>20, <1>40 DEF DeleteClient, identity
  <1>21. ASSUME NEW r \in Handlers, NEW s \in Secrets, NEW p \in Secrets \cup {NoSecret},
                Present(r, s, p)
       PROVE  \A v \in People : account[v] # "none" => account'[v] # "none"
    BY <1>21, <1>40 DEF Present, identity
  <1>22. ASSUME NEW u \in People, NEW k \in {"create", "get"}, GenerateOptions(u, k)
       PROVE  \A v \in People : account[v] # "none" => account'[v] # "none"
    BY <1>22, <1>40 DEF GenerateOptions, identity
  <1>23. ASSUME NEW u \in People, UpdateUser(u)
       PROVE  \A v \in People : account[v] # "none" => account'[v] # "none"
    BY <1>23, <1>40 DEF UpdateUser, identity
  <1>24. ASSUME NEW u \in People, AssignRole(u)
       PROVE  \A v \in People : account[v] # "none" => account'[v] # "none"
    BY <1>24, <1>40 DEF AssignRole, identity
  <1>25. ASSUME NEW u \in People, RemoveRole(u)
       PROVE  \A v \in People : account[v] # "none" => account'[v] # "none"
    BY <1>25, <1>40 DEF RemoveRole, identity
  <1>26. ASSUME NEW s \in Secrets, DeletePasskey(s)
       PROVE  \A v \in People : account[v] # "none" => account'[v] # "none"
    BY <1>26, <1>40 DEF DeletePasskey, identity
  <1>27. ASSUME NEW s \in Secrets, CodeExpires(s)
       PROVE  \A v \in People : account[v] # "none" => account'[v] # "none"
    BY <1>27, <1>40 DEF CodeExpires, identity
  <1>28. ASSUME NEW c \in Clients, RegisterClient(c)
       PROVE  \A v \in People : account[v] # "none" => account'[v] # "none"
    BY <1>28, <1>40 DEF RegisterClient, identity
  <1>29. ASSUME NEW n \in Roles, UpdateRole(n)
       PROVE  \A v \in People : account[v] # "none" => account'[v] # "none"
    BY <1>29, <1>40 DEF UpdateRole, identity
  <1> QED
    BY <1>1, <1>2, <1>3, <1>4, <1>5, <1>6, <1>7, <1>8, <1>9, <1>10, <1>11, <1>12, <1>13,
       <1>14, <1>15, <1>16, <1>17, <1>18, <1>19, <1>20, <1>21, <1>22, <1>23, <1>24, <1>25,
       <1>26, <1>27, <1>28, <1>29 DEF AccNext, Handle

\* Who is to get a link has an account.
CallersHave ==
    \A q \in Handlers : stage[q] \in {"created", "forgotten", "mailing"} => account[who[q]] # "none"

\* A step keeps users who are to get a link among those who have an account.
LEMMA CallersHaveAccounts ==
    ASSUME AccInv, AccNext
    PROVE  CallersHave'
  <1>40. /\ account \in [People -> {"none", "unverified", "verified"}]
        /\ CallsKnow /\ HaveAccounts /\ SecretsKnown
        /\ stage \in [Handlers -> {"idle", "registering", "counting", "creating", "created",
            "mailing",
                                "forgotten", "approving", "withdrawing", "withdrawn",
                                "accepted", "stored"}]
        /\ who \in [Handlers -> People \cup Clients \cup {None}]
        /\ issued \in Nat
    BY AccountsAssumption DEF AccInv, AccTypes, AccTypeOK
  <1>41. /\ issued' = issued \/ issued' = issued + 1
         /\ \A s \in 1 .. issued : kind'[s] = kind[s] /\ owner'[s] = owner[s]
         /\ \A u \in People : account[u] # "none" => account'[u] # "none"
    BY Grows, SecretsStay, AccountsStay
  <1>50. ASSUME NEW r \in Handlers, who'[r] = who[r],
                stage'[r] \in {"created", "forgotten", "mailing"} =>
                  stage[r] \in {"created", "forgotten", "mailing"}
         PROVE  stage'[r] \in {"created", "forgotten", "mailing"} => account'[who'[r]] # "none"
    BY <1>40, <1>41, <1>50 DEF CallsKnow, HaveAccounts
  <1>51. ASSUME NEW r \in Handlers,
                \A q \in Handlers \ {r} : stage'[q] = stage[q] /\ who'[q] = who[q],
                stage'[r] \in {"created", "forgotten", "mailing"} =>
                  who'[r] \in People /\ account'[who'[r]] # "none"
         PROVE  \A q \in Handlers : stage'[q] \in {"created", "forgotten", "mailing"}
                     => account'[who'[q]] # "none"
    BY <1>50, <1>51
  <1> USE DEF CallersHave
  <1>1. ASSUME NEW r \in Handlers, UpsertRole(r)
       PROVE  CallersHave'
    <2>1. \A q \in Handlers \ {r} : stage'[q] = stage[q] /\ who'[q] = who[q]
      BY <1>1, <1>40 DEF UpsertRole, Reach, local
    <2>2. stage'[r] \in {"created", "forgotten", "mailing"}
               => who'[r] \in People /\ account'[who'[r]] # "none"
      BY <1>1, <1>40, <1>41 DEF UpsertRole, Reach, local, identity, CallsKnow, HaveAccounts
    <2> QED
      BY <2>1, <2>2, <1>51
  <1>2. ASSUME NEW r \in Handlers, CountUsers(r)
       PROVE  CallersHave'
    <2>1. \A q \in Handlers \ {r} : stage'[q] = stage[q] /\ who'[q] = who[q]
      BY <1>2, <1>40 DEF CountUsers, Reach, local
    <2>2. stage'[r] \in {"created", "forgotten", "mailing"}
               => who'[r] \in People /\ account'[who'[r]] # "none"
      BY <1>2, <1>40, <1>41 DEF CountUsers, Reach, local, identity, CallsKnow, HaveAccounts
    <2> QED
      BY <2>1, <2>2, <1>51
  <1>3. ASSUME NEW r \in Handlers, CreateUser(r)
       PROVE  CallersHave'
    <2>1. \A q \in Handlers \ {r} : stage'[q] = stage[q] /\ who'[q] = who[q]
      BY <1>3, <1>40 DEF CreateUser, Reach, Finish, local
    <2>2. stage'[r] \in {"created", "forgotten", "mailing"}
               => who'[r] \in People /\ account'[who'[r]] # "none"
      BY <1>3, <1>40, <1>41 DEF CreateUser, Reach, Finish, local, identity, CallsKnow,
         HaveAccounts
    <2> QED
      BY <2>1, <2>2, <1>51
  <1>4. ASSUME NEW r \in Handlers, StoreVerifyToken(r)
       PROVE  CallersHave'
    <2>1. \A q \in Handlers \ {r} : stage'[q] = stage[q] /\ who'[q] = who[q]
      BY <1>4, <1>40 DEF StoreVerifyToken, Reach, Finish, local
    <2>2. stage'[r] \in {"created", "forgotten", "mailing"}
               => who'[r] \in People /\ account'[who'[r]] # "none"
      BY <1>4, <1>40, <1>41 DEF StoreVerifyToken, Reach, Finish, local, identity, CallsKnow,
         HaveAccounts
    <2> QED
      BY <2>1, <2>2, <1>51
  <1>5. ASSUME NEW r \in Handlers, StoreResetToken(r)
       PROVE  CallersHave'
    <2>1. \A q \in Handlers \ {r} : stage'[q] = stage[q] /\ who'[q] = who[q]
      BY <1>5, <1>40 DEF StoreResetToken, Reach, local
    <2>2. stage'[r] \in {"created", "forgotten", "mailing"}
               => who'[r] \in People /\ account'[who'[r]] # "none"
      BY <1>5, <1>40, <1>41 DEF StoreResetToken, Reach, local, identity, CallsKnow, HaveAccounts
    <2> QED
      BY <2>1, <2>2, <1>51
  <1>6. ASSUME NEW r \in Handlers, Mail(r)
       PROVE  CallersHave'
    <2>1. \A q \in Handlers \ {r} : stage'[q] = stage[q] /\ who'[q] = who[q]
      BY <1>6, <1>40 DEF Mail, Reach, Finish, local
    <2>2. stage'[r] \in {"created", "forgotten", "mailing"}
               => who'[r] \in People /\ account'[who'[r]] # "none"
      BY <1>6, <1>40, <1>41 DEF Mail, Reach, Finish, local, identity, CallsKnow, HaveAccounts
    <2> QED
      BY <2>1, <2>2, <1>51
  <1>7. ASSUME NEW r \in Handlers, CreateCode(r)
       PROVE  CallersHave'
    <2>1. \A q \in Handlers \ {r} : stage'[q] = stage[q] /\ who'[q] = who[q]
      BY <1>7, <1>40 DEF CreateCode, Reach, Finish, local
    <2>2. stage'[r] \in {"created", "forgotten", "mailing"}
               => who'[r] \in People /\ account'[who'[r]] # "none"
      BY <1>7, <1>40, <1>41 DEF CreateCode, Reach, Finish, local, identity, CallsKnow,
         HaveAccounts
    <2> QED
      BY <2>1, <2>2, <1>51
  <1>8. ASSUME NEW r \in Handlers, DeleteCodes(r)
       PROVE  CallersHave'
    <2>1. \A q \in Handlers \ {r} : stage'[q] = stage[q] /\ who'[q] = who[q]
      BY <1>8, <1>40 DEF DeleteCodes, Reach, local
    <2>2. stage'[r] \in {"created", "forgotten", "mailing"}
               => who'[r] \in People /\ account'[who'[r]] # "none"
      BY <1>8, <1>40, <1>41 DEF DeleteCodes, Reach, local, identity, CallsKnow, HaveAccounts
    <2> QED
      BY <2>1, <2>2, <1>51
  <1>9. ASSUME NEW r \in Handlers, DeleteClientRow(r)
       PROVE  CallersHave'
    <2>1. \A q \in Handlers \ {r} : stage'[q] = stage[q] /\ who'[q] = who[q]
      BY <1>9, <1>40 DEF DeleteClientRow, Reach, Finish, local
    <2>2. stage'[r] \in {"created", "forgotten", "mailing"}
               => who'[r] \in People /\ account'[who'[r]] # "none"
      BY <1>9, <1>40, <1>41 DEF DeleteClientRow, Reach, Finish, local, identity, CallsKnow,
         HaveAccounts
    <2> QED
      BY <2>1, <2>2, <1>51
  <1>10. ASSUME NEW r \in Handlers, VerifyEmail(r)
       PROVE  CallersHave'
    <2>1. \A q \in Handlers \ {r} : stage'[q] = stage[q] /\ who'[q] = who[q]
      BY <1>10, <1>40 DEF VerifyEmail, Reach, Finish, Answer, local
    <2>2. stage'[r] \in {"created", "forgotten", "mailing"}
               => who'[r] \in People /\ account'[who'[r]] # "none"
      BY <1>10, <1>40, <1>41 DEF VerifyEmail, Reach, Finish, Answer, local, identity, CallsKnow,
         HaveAccounts
    <2> QED
      BY <2>1, <2>2, <1>51
  <1>11. ASSUME NEW r \in Handlers, ResetPassword(r)
       PROVE  CallersHave'
    <2>1. \A q \in Handlers \ {r} : stage'[q] = stage[q] /\ who'[q] = who[q]
      BY <1>11, <1>40 DEF ResetPassword, Reach, Finish, Answer, local
    <2>2. stage'[r] \in {"created", "forgotten", "mailing"}
               => who'[r] \in People /\ account'[who'[r]] # "none"
      BY <1>11, <1>40, <1>41 DEF ResetPassword, Reach, Finish, Answer, local, identity,
         CallsKnow, HaveAccounts
    <2> QED
      BY <2>1, <2>2, <1>51
  <1>12. ASSUME NEW r \in Handlers, StorePasskey(r)
       PROVE  CallersHave'
    <2>1. \A q \in Handlers \ {r} : stage'[q] = stage[q] /\ who'[q] = who[q]
      BY <1>12, <1>40 DEF StorePasskey, Reach, Finish, local
    <2>2. stage'[r] \in {"created", "forgotten", "mailing"}
               => who'[r] \in People /\ account'[who'[r]] # "none"
      BY <1>12, <1>40, <1>41 DEF StorePasskey, Reach, Finish, local, identity, CallsKnow,
         HaveAccounts
    <2> QED
      BY <2>1, <2>2, <1>51
  <1>13. ASSUME NEW r \in Handlers, UpdateCounter(r)
       PROVE  CallersHave'
    <2>1. \A q \in Handlers \ {r} : stage'[q] = stage[q] /\ who'[q] = who[q]
      BY <1>13, <1>40 DEF UpdateCounter, Reach, Finish, local
    <2>2. stage'[r] \in {"created", "forgotten", "mailing"}
               => who'[r] \in People /\ account'[who'[r]] # "none"
      BY <1>13, <1>40, <1>41 DEF UpdateCounter, Reach, Finish, local, identity, CallsKnow,
         HaveAccounts
    <2> QED
      BY <2>1, <2>2, <1>51
  <1>14. ASSUME NEW r \in Handlers, ClearChallenge(r)
       PROVE  CallersHave'
    <2>1. \A q \in Handlers \ {r} : stage'[q] = stage[q] /\ who'[q] = who[q]
      BY <1>14, <1>40 DEF ClearChallenge, Reach, Finish, Answer, local
    <2>2. stage'[r] \in {"created", "forgotten", "mailing"}
               => who'[r] \in People /\ account'[who'[r]] # "none"
      BY <1>14, <1>40, <1>41 DEF ClearChallenge, Reach, Finish, Answer, local, identity,
         CallsKnow, HaveAccounts
    <2> QED
      BY <2>1, <2>2, <1>51
  <1>15. ASSUME NEW r \in Handlers, MarkCodeUsed(r)
       PROVE  CallersHave'
    <2>1. \A q \in Handlers \ {r} : stage'[q] = stage[q] /\ who'[q] = who[q]
      BY <1>15, <1>40 DEF MarkCodeUsed, Reach, Finish, Answer, local
    <2>2. stage'[r] \in {"created", "forgotten", "mailing"}
               => who'[r] \in People /\ account'[who'[r]] # "none"
      BY <1>15, <1>40, <1>41 DEF MarkCodeUsed, Reach, Finish, Answer, local, identity,
         CallsKnow, HaveAccounts
    <2> QED
      BY <2>1, <2>2, <1>51
  <1>16. ASSUME NEW r \in Handlers, Break(r)
       PROVE  CallersHave'
    <2>1. \A q \in Handlers \ {r} : stage'[q] = stage[q] /\ who'[q] = who[q]
      BY <1>16, <1>40 DEF Break, Reach, Finish, local
    <2>2. stage'[r] \in {"created", "forgotten", "mailing"}
               => who'[r] \in People /\ account'[who'[r]] # "none"
      BY <1>16, <1>40, <1>41 DEF Break, Reach, Finish, local, identity, CallsKnow, HaveAccounts
    <2> QED
      BY <2>1, <2>2, <1>51
  <1>17. ASSUME NEW r \in Handlers, NEW u \in People, Register(r, u)
       PROVE  CallersHave'
    <2>1. \A q \in Handlers \ {r} : stage'[q] = stage[q] /\ who'[q] = who[q]
      BY <1>17, <1>40 DEF Register, Start, Reach, local
    <2>2. stage'[r] \in {"created", "forgotten", "mailing"}
               => who'[r] \in People /\ account'[who'[r]] # "none"
      BY <1>17, <1>40, <1>41 DEF Register, Start, Reach, local, identity, CallsKnow, HaveAccounts
    <2> QED
      BY <2>1, <2>2, <1>51
  <1>18. ASSUME NEW r \in Handlers, NEW u \in People, ForgotPassword(r, u)
       PROVE  CallersHave'
    <2>1. \A q \in Handlers \ {r} : stage'[q] = stage[q] /\ who'[q] = who[q]
      BY <1>18, <1>40 DEF ForgotPassword, Start, Reach, local
    <2>2. stage'[r] \in {"created", "forgotten", "mailing"}
               => who'[r] \in People /\ account'[who'[r]] # "none"
      BY <1>18, <1>40, <1>41 DEF ForgotPassword, Start, Reach, local, identity, CallsKnow,
         HaveAccounts
    <2> QED
      BY <2>1, <2>2, <1>51
  <1>19. ASSUME NEW r \in Handlers, NEW c \in Clients, ApproveConsent(r, c)
       PROVE  CallersHave'
    <2>1. \A q \in Handlers \ {r} : stage'[q] = stage[q] /\ who'[q] = who[q]
      BY <1>19, <1>40 DEF ApproveConsent, Start, Reach, local
    <2>2. stage'[r] \in {"created", "forgotten", "mailing"}
               => who'[r] \in People /\ account'[who'[r]] # "none"
      BY <1>19, <1>40, <1>41 DEF ApproveConsent, Start, Reach, local, identity, CallsKnow,
         HaveAccounts
    <2> QED
      BY <2>1, <2>2, <1>51
  <1>20. ASSUME NEW r \in Handlers, NEW c \in Clients, DeleteClient(r, c)
       PROVE  CallersHave'
    <2>1. \A q \in Handlers \ {r} : stage'[q] = stage[q] /\ who'[q] = who[q]
      BY <1>20, <1>40 DEF DeleteClient, Start, Reach, local
    <2>2. stage'[r] \in {"created", "forgotten", "mailing"}
               => who'[r] \in People /\ account'[who'[r]] # "none"
      BY <1>20, <1>40, <1>41 DEF DeleteClient, Start, Reach, local, identity, CallsKnow,
         HaveAccounts
    <2> QED
      BY <2>1, <2>2, <1>51
  <1>21. ASSUME NEW r \in Handlers, NEW s \in Secrets, NEW p \in Secrets \cup {NoSecret},
                Present(r, s, p)
       PROVE  CallersHave'
    <2>1. \A q \in Handlers \ {r} : stage'[q] = stage[q] /\ who'[q] = who[q]
      BY <1>21, <1>40 DEF Present, Start, Reach, local
    <2>2. stage'[r] \in {"created", "forgotten", "mailing"}
               => who'[r] \in People /\ account'[who'[r]] # "none"
      BY <1>21, <1>40, <1>41 DEF Present, Start, Reach, local, identity, CallsKnow, HaveAccounts
    <2> QED
      BY <2>1, <2>2, <1>51
  <1>22. ASSUME NEW u \in People, NEW k \in {"create", "get"}, GenerateOptions(u, k)
       PROVE  CallersHave'
    <2>1. stage' = stage /\ who' = who
      BY <1>22 DEF GenerateOptions, local
    <2> QED
      BY <2>1, <1>50
  <1>23. ASSUME NEW u \in People, UpdateUser(u)
       PROVE  CallersHave'
    <2>1. stage' = stage /\ who' = who
      BY <1>23 DEF UpdateUser, local
    <2> QED
      BY <2>1, <1>50
  <1>24. ASSUME NEW u \in People, AssignRole(u)
       PROVE  CallersHave'
    <2>1. stage' = stage /\ who' = who
      BY <1>24 DEF AssignRole, local
    <2> QED
      BY <2>1, <1>50
  <1>25. ASSUME NEW u \in People, RemoveRole(u)
       PROVE  CallersHave'
    <2>1. stage' = stage /\ who' = who
      BY <1>25 DEF RemoveRole, local
    <2> QED
      BY <2>1, <1>50
  <1>26. ASSUME NEW s \in Secrets, DeletePasskey(s)
       PROVE  CallersHave'
    <2>1. stage' = stage /\ who' = who
      BY <1>26 DEF DeletePasskey, local
    <2> QED
      BY <2>1, <1>50
  <1>27. ASSUME NEW s \in Secrets, CodeExpires(s)
       PROVE  CallersHave'
    <2>1. stage' = stage /\ who' = who
      BY <1>27 DEF CodeExpires, local
    <2> QED
      BY <2>1, <1>50
  <1>28. ASSUME NEW c \in Clients, RegisterClient(c)
       PROVE  CallersHave'
    <2>1. stage' = stage /\ who' = who
      BY <1>28 DEF RegisterClient, local
    <2> QED
      BY <2>1, <1>50
  <1>29. ASSUME NEW n \in Roles, UpdateRole(n)
       PROVE  CallersHave'
    <2>1. stage' = stage /\ who' = who
      BY <1>29 DEF UpdateRole, local
    <2> QED
      BY <2>1, <1>50
  <1> QED
    BY <1>1, <1>2, <1>3, <1>4, <1>5, <1>6, <1>7, <1>8, <1>9, <1>10, <1>11, <1>12, <1>13,
       <1>14, <1>15, <1>16, <1>17, <1>18, <1>19, <1>20, <1>21, <1>22, <1>23, <1>24, <1>25,
       <1>26, <1>27, <1>28, <1>29 DEF AccNext, Handle

\* Who got another secret than a code has an account.
OwnersHave ==
    \A x \in 1 .. issued : kind[x] # "code" => account[owner[x]] # "none"

\* A step keeps owners of secrets among those who have an account.
LEMMA OwnersHaveAccounts ==
    ASSUME AccInv, AccNext
    PROVE  OwnersHave'
  <1>40. /\ account \in [People -> {"none", "unverified", "verified"}]
        /\ CallsKnow /\ HaveAccounts /\ SecretsKnown
        /\ stage \in [Handlers -> {"idle", "registering", "counting", "creating", "created",
            "mailing",
                                "forgotten", "approving", "withdrawing", "withdrawn",
                                "accepted", "stored"}]
        /\ who \in [Handlers -> People \cup Clients \cup {None}]
        /\ issued \in Nat
    BY AccountsAssumption DEF AccInv, AccTypes, AccTypeOK
  <1>41. /\ issued' = issued \/ issued' = issued + 1
         /\ \A s \in 1 .. issued : kind'[s] = kind[s] /\ owner'[s] = owner[s]
         /\ \A u \in People : account[u] # "none" => account'[u] # "none"
    BY Grows, SecretsStay, AccountsStay
  <1>50. ASSUME issued' = issued
         PROVE  \A s \in 1 .. issued' : kind'[s] # "code" => account'[owner'[s]] # "none"
    BY <1>40, <1>41, <1>50 DEF SecretsKnown, HaveAccounts
  <1>51. ASSUME NEW u \in People, account[u] # "none", issued' = issued + 1, owner'[issued'] = u
         PROVE  \A s \in 1 .. issued' : kind'[s] # "code" => account'[owner'[s]] # "none"
    <2>1. \A s \in 1 .. issued' : s \in 1 .. issued \/ s = issued'
      BY <1>40, <1>51
    <2> QED
      BY <2>1, <1>40, <1>41, <1>51 DEF SecretsKnown, HaveAccounts
  <1>52. ASSUME issued' = issued + 1, kind'[issued'] = "code"
         PROVE  \A s \in 1 .. issued' : kind'[s] # "code" => account'[owner'[s]] # "none"
    <2>1. \A s \in 1 .. issued' : s \in 1 .. issued \/ s = issued'
      BY <1>40, <1>52
    <2> QED
      BY <2>1, <1>40, <1>41, <1>52 DEF SecretsKnown, HaveAccounts
  <1> USE DEF OwnersHave
  <1>1. ASSUME NEW r \in Handlers, UpsertRole(r)
       PROVE  OwnersHave'
    BY <1>1, <1>50 DEF UpsertRole, secrets
  <1>2. ASSUME NEW r \in Handlers, CountUsers(r)
       PROVE  OwnersHave'
    BY <1>2, <1>50 DEF CountUsers, secrets
  <1>3. ASSUME NEW r \in Handlers, CreateUser(r)
       PROVE  OwnersHave'
    BY <1>3, <1>50 DEF CreateUser, secrets
  <1>4. ASSUME NEW r \in Handlers, StoreVerifyToken(r)
       PROVE  OwnersHave'
    <2>1. CASE first[r]
      BY <1>4, <2>1, <1>50 DEF StoreVerifyToken, secrets
    <2>2. CASE ~first[r]
      <3>1. /\ Make("verify", who[r]) /\ AccTypeOK /\ "verify" \in Kinds
            /\ who[r] \in People /\ account[who[r]] # "none"
        BY <1>4, <2>2, <1>40 DEF StoreVerifyToken, AccInv, AccTypes, CallsKnow, HaveAccounts,
           Kinds
      <3>2. issued' = issued + 1 /\ kind'[issued'] = "verify" /\ owner'[issued'] = who[r]
        BY <3>1, Made
      <3> QED
        BY <3>1, <3>2, <1>51
    <2> QED
      BY <2>1, <2>2
  <1>5. ASSUME NEW r \in Handlers, StoreResetToken(r)
       PROVE  OwnersHave'
    <2>1. /\ Make("reset", who[r]) /\ AccTypeOK /\ "reset" \in Kinds
          /\ who[r] \in People /\ account[who[r]] # "none"
      BY <1>5, <1>40 DEF StoreResetToken, AccInv, AccTypes, CallsKnow, HaveAccounts, Kinds
    <2>2. issued' = issued + 1 /\ kind'[issued'] = "reset" /\ owner'[issued'] = who[r]
      BY <2>1, Made
    <2> QED
      BY <2>1, <2>2, <1>51
  <1>6. ASSUME NEW r \in Handlers, Mail(r)
       PROVE  OwnersHave'
    BY <1>6, <1>50 DEF Mail, secrets
  <1>7. ASSUME NEW r \in Handlers, CreateCode(r)
       PROVE  OwnersHave'
    <2>1. CASE client[who[r]] # "live"
      BY <1>7, <2>1, <1>50 DEF CreateCode, secrets
    <2>2. CASE client[who[r]] = "live"
      <3>1. /\ Make("code", who[r]) /\ AccTypeOK /\ "code" \in Kinds
            /\ who[r] \in Clients
        BY <1>7, <2>2, <1>40 DEF CreateCode, AccInv, AccTypes, CallsKnow, HaveAccounts, Kinds
      <3>2. issued' = issued + 1 /\ kind'[issued'] = "code" /\ owner'[issued'] = who[r]
        BY <3>1, Made
      <3> QED
        BY <3>1, <3>2, <1>52
    <2> QED
      BY <2>1, <2>2
  <1>8. ASSUME NEW r \in Handlers, DeleteCodes(r)
       PROVE  OwnersHave'
    BY <1>8, <1>50 DEF DeleteCodes, secrets
  <1>9. ASSUME NEW r \in Handlers, DeleteClientRow(r)
       PROVE  OwnersHave'
    BY <1>9, <1>50 DEF DeleteClientRow, secrets
  <1>10. ASSUME NEW r \in Handlers, VerifyEmail(r)
       PROVE  OwnersHave'
    BY <1>10, <1>50 DEF VerifyEmail, secrets
  <1>11. ASSUME NEW r \in Handlers, ResetPassword(r)
       PROVE  OwnersHave'
    BY <1>11, <1>50 DEF ResetPassword, secrets
  <1>12. ASSUME NEW r \in Handlers, StorePasskey(r)
       PROVE  OwnersHave'
    BY <1>12, <1>50 DEF StorePasskey, secrets
  <1>13. ASSUME NEW r \in Handlers, UpdateCounter(r)
       PROVE  OwnersHave'
    BY <1>13, <1>50 DEF UpdateCounter, secrets
  <1>14. ASSUME NEW r \in Handlers, ClearChallenge(r)
       PROVE  OwnersHave'
    BY <1>14, <1>50 DEF ClearChallenge, secrets
  <1>15. ASSUME NEW r \in Handlers, MarkCodeUsed(r)
       PROVE  OwnersHave'
    BY <1>15, <1>50 DEF MarkCodeUsed, secrets
  <1>16. ASSUME NEW r \in Handlers, Break(r)
       PROVE  OwnersHave'
    BY <1>16, <1>50 DEF Break, secrets
  <1>17. ASSUME NEW r \in Handlers, NEW u \in People, Register(r, u)
       PROVE  OwnersHave'
    BY <1>17, <1>50 DEF Register, secrets
  <1>18. ASSUME NEW r \in Handlers, NEW u \in People, ForgotPassword(r, u)
       PROVE  OwnersHave'
    BY <1>18, <1>50 DEF ForgotPassword, secrets
  <1>19. ASSUME NEW r \in Handlers, NEW c \in Clients, ApproveConsent(r, c)
       PROVE  OwnersHave'
    BY <1>19, <1>50 DEF ApproveConsent, secrets
  <1>20. ASSUME NEW r \in Handlers, NEW c \in Clients, DeleteClient(r, c)
       PROVE  OwnersHave'
    BY <1>20, <1>50 DEF DeleteClient, secrets
  <1>21. ASSUME NEW r \in Handlers, NEW s \in Secrets, NEW p \in Secrets \cup {NoSecret},
                Present(r, s, p)
       PROVE  OwnersHave'
    BY <1>21, <1>50 DEF Present, secrets
  <1>22. ASSUME NEW u \in People, NEW k \in {"create", "get"}, GenerateOptions(u, k)
       PROVE  OwnersHave'
    <2>1. /\ Make(k, u) /\ AccTypeOK /\ k \in Kinds
          /\ u \in People /\ account[u] # "none"
      BY <1>22, <1>40 DEF GenerateOptions, AccInv, AccTypes, CallsKnow, HaveAccounts, Kinds
    <2>2. issued' = issued + 1 /\ kind'[issued'] = k /\ owner'[issued'] = u
      BY <2>1, Made
    <2> QED
      BY <2>1, <2>2, <1>51
  <1>23. ASSUME NEW u \in People, UpdateUser(u)
       PROVE  OwnersHave'
    BY <1>23, <1>50 DEF UpdateUser, secrets
  <1>24. ASSUME NEW u \in People, AssignRole(u)
       PROVE  OwnersHave'
    BY <1>24, <1>50 DEF AssignRole, secrets
  <1>25. ASSUME NEW u \in People, RemoveRole(u)
       PROVE  OwnersHave'
    BY <1>25, <1>50 DEF RemoveRole, secrets
  <1>26. ASSUME NEW s \in Secrets, DeletePasskey(s)
       PROVE  OwnersHave'
    BY <1>26, <1>50 DEF DeletePasskey, secrets
  <1>27. ASSUME NEW s \in Secrets, CodeExpires(s)
       PROVE  OwnersHave'
    BY <1>27, <1>50 DEF CodeExpires, secrets
  <1>28. ASSUME NEW c \in Clients, RegisterClient(c)
       PROVE  OwnersHave'
    BY <1>28, <1>50 DEF RegisterClient, secrets
  <1>29. ASSUME NEW n \in Roles, UpdateRole(n)
       PROVE  OwnersHave'
    BY <1>29, <1>50 DEF UpdateRole, secrets
  <1> QED
    BY <1>1, <1>2, <1>3, <1>4, <1>5, <1>6, <1>7, <1>8, <1>9, <1>10, <1>11, <1>12, <1>13,
       <1>14, <1>15, <1>16, <1>17, <1>18, <1>19, <1>20, <1>21, <1>22, <1>23, <1>24, <1>25,
       <1>26, <1>27, <1>28, <1>29 DEF AccNext, Handle

\* A step keeps an administrator.
LEMMA AdminStep ==
    ASSUME AccInv, AccNext
    PROVE  AdminExists'
  <1>40. /\ account \in [People -> {"none", "unverified", "verified"}]
        /\ roleName \in [Roles -> {"none", "admin", "other"}] /\ removed \in BOOLEAN
        /\ CallsKnow /\ SecretsKnown /\ HaveAccounts /\ FirstRegistration /\ AdminExists
    BY DEF AccInv, AccTypes, AccTypeOK
  <1>50. ASSUME Accounts' = {} <=> Accounts = {}, roleName' = roleName, holds' = holds,
                removed' = removed
         PROVE  AdminExists'
    BY <1>40, <1>50 DEF AdminExists, Admins
  <1>51. ASSUME account' = account
         PROVE  Accounts' = Accounts
    BY <1>51 DEF Accounts
  <1>52. ASSUME NEW u \in People, account[u] # "none",
                NEW state \in {"verified", "unverified"}, account' = [account EXCEPT ![u] = state]
         PROVE  Accounts' = {} <=> Accounts = {}
    BY <1>40, <1>52 DEF Accounts
  <1>1. ASSUME NEW r \in Handlers, UpsertRole(r)
       PROVE  AdminExists'
    <2>1. /\ account' = account /\ holds' = holds /\ removed' = removed
          /\ \A n \in Roles : roleName[n] = "admin" => roleName'[n] = "admin"
      BY <1>1, <1>40 DEF UpsertRole, history
    <2> QED
      BY <2>1, <1>40 DEF AdminExists, Accounts, Admins
  <1>2. ASSUME NEW r \in Handlers, CountUsers(r)
       PROVE  AdminExists'
    BY <1>2, <1>50, <1>51 DEF CountUsers, identity, history
  <1>3. ASSUME NEW r \in Handlers, CreateUser(r)
       PROVE  AdminExists'
    <2>1. CASE account[who[r]] # "none"
      BY <1>3, <2>1, <1>50, <1>51 DEF CreateUser, identity, history
    <2>2. CASE account[who[r]] = "none" /\ Accounts = {}
      <3>1. who[r] \in People /\ role[r] \in Roles /\ first[r]
            /\ (~removed => roleName[role[r]] = "admin")
        BY <1>3, <2>2, <1>40 DEF CreateUser, CallsKnow, FirstRegistration
      <3>2. <<who[r], role[r]>> \in holds' /\ roleName' = roleName /\ removed' = removed
        BY <1>3, <2>2, <3>1 DEF CreateUser, history
      <3> QED
        BY <3>1, <3>2 DEF AdminExists, Admins
    <2>3. CASE account[who[r]] = "none" /\ Accounts # {}
      <3>1. holds \subseteq holds' /\ roleName' = roleName /\ removed' = removed
        BY <1>3, <2>3 DEF CreateUser, history
      <3> QED
        BY <2>3, <3>1, <1>40 DEF AdminExists, Admins
    <2> QED
      BY <2>1, <2>2, <2>3
  <1>4. ASSUME NEW r \in Handlers, StoreVerifyToken(r)
       PROVE  AdminExists'
    <2>1. who[r] \in People /\ account[who[r]] # "none"
      BY <1>4, <1>40 DEF StoreVerifyToken, CallsKnow, HaveAccounts
    <2>2. roleName' = roleName /\ holds' = holds /\ removed' = removed
      BY <1>4 DEF StoreVerifyToken, history
    <2>3. CASE first[r]
      BY <1>4, <2>1, <2>2, <2>3, <1>50, <1>52 DEF StoreVerifyToken
    <2>4. CASE ~first[r]
      BY <1>4, <2>2, <2>4, <1>50, <1>51 DEF StoreVerifyToken
    <2> QED
      BY <2>3, <2>4
  <1>5. ASSUME NEW r \in Handlers, StoreResetToken(r)
       PROVE  AdminExists'
    BY <1>5, <1>50, <1>51 DEF StoreResetToken, identity, history
  <1>6. ASSUME NEW r \in Handlers, Mail(r)
       PROVE  AdminExists'
    BY <1>6, <1>50, <1>51 DEF Mail, identity, history
  <1>7. ASSUME NEW r \in Handlers, CreateCode(r)
       PROVE  AdminExists'
    BY <1>7, <1>50, <1>51 DEF CreateCode, identity, history
  <1>8. ASSUME NEW r \in Handlers, DeleteCodes(r)
       PROVE  AdminExists'
    BY <1>8, <1>50, <1>51 DEF DeleteCodes, identity, history
  <1>9. ASSUME NEW r \in Handlers, DeleteClientRow(r)
       PROVE  AdminExists'
    BY <1>9, <1>50, <1>51 DEF DeleteClientRow, identity, history
  <1>10. ASSUME NEW r \in Handlers, VerifyEmail(r)
       PROVE  AdminExists'
    <2>1. who[r] \in People /\ account[who[r]] # "none"
      BY <1>10, <1>40 DEF VerifyEmail, CallsKnow, SecretsKnown, HaveAccounts, Spending
    <2> QED
      BY <1>10, <2>1, <1>50, <1>52 DEF VerifyEmail
  <1>11. ASSUME NEW r \in Handlers, ResetPassword(r)
       PROVE  AdminExists'
    BY <1>11, <1>50, <1>51 DEF ResetPassword, identity, history
  <1>12. ASSUME NEW r \in Handlers, StorePasskey(r)
       PROVE  AdminExists'
    BY <1>12, <1>50, <1>51 DEF StorePasskey, identity, history
  <1>13. ASSUME NEW r \in Handlers, UpdateCounter(r)
       PROVE  AdminExists'
    BY <1>13, <1>50, <1>51 DEF UpdateCounter, identity, history
  <1>14. ASSUME NEW r \in Handlers, ClearChallenge(r)
       PROVE  AdminExists'
    BY <1>14, <1>50, <1>51 DEF ClearChallenge, identity, history
  <1>15. ASSUME NEW r \in Handlers, MarkCodeUsed(r)
       PROVE  AdminExists'
    BY <1>15, <1>50, <1>51 DEF MarkCodeUsed, identity, history
  <1>16. ASSUME NEW r \in Handlers, Break(r)
       PROVE  AdminExists'
    BY <1>16, <1>50, <1>51 DEF Break, identity, history
  <1>17. ASSUME NEW r \in Handlers, NEW u \in People, Register(r, u)
       PROVE  AdminExists'
    BY <1>17, <1>50, <1>51 DEF Register, identity, history
  <1>18. ASSUME NEW r \in Handlers, NEW u \in People, ForgotPassword(r, u)
       PROVE  AdminExists'
    BY <1>18, <1>50, <1>51 DEF ForgotPassword, identity, history
  <1>19. ASSUME NEW r \in Handlers, NEW c \in Clients, ApproveConsent(r, c)
       PROVE  AdminExists'
    BY <1>19, <1>50, <1>51 DEF ApproveConsent, identity, history
  <1>20. ASSUME NEW r \in Handlers, NEW c \in Clients, DeleteClient(r, c)
       PROVE  AdminExists'
    BY <1>20, <1>50, <1>51 DEF DeleteClient, identity, history
  <1>21. ASSUME NEW r \in Handlers, NEW s \in Secrets, NEW p \in Secrets \cup {NoSecret},
                Present(r, s, p)
       PROVE  AdminExists'
    BY <1>21, <1>50, <1>51 DEF Present, identity, history
  <1>22. ASSUME NEW u \in People, NEW k \in {"create", "get"}, GenerateOptions(u, k)
       PROVE  AdminExists'
    BY <1>22, <1>50, <1>51 DEF GenerateOptions, identity, history
  <1>23. ASSUME NEW u \in People, UpdateUser(u)
       PROVE  AdminExists'
    BY <1>23, <1>50, <1>52 DEF UpdateUser, history
  <1>24. ASSUME NEW u \in People, AssignRole(u)
       PROVE  AdminExists'
    <2>1. holds \subseteq holds' /\ roleName' = roleName /\ removed' = removed
          /\ Accounts' = Accounts
      BY <1>24, <1>51 DEF AssignRole, history
    <2> QED
      BY <2>1, <1>40 DEF AdminExists, Admins
  <1>25. ASSUME NEW u \in People, RemoveRole(u)
       PROVE  AdminExists'
    BY <1>25 DEF RemoveRole, AdminExists
  <1>26. ASSUME NEW s \in Secrets, DeletePasskey(s)
       PROVE  AdminExists'
    BY <1>26, <1>50, <1>51 DEF DeletePasskey, identity, history
  <1>27. ASSUME NEW s \in Secrets, CodeExpires(s)
       PROVE  AdminExists'
    BY <1>27, <1>50, <1>51 DEF CodeExpires, identity, history
  <1>28. ASSUME NEW c \in Clients, RegisterClient(c)
       PROVE  AdminExists'
    BY <1>28, <1>50, <1>51 DEF RegisterClient, identity, history
  <1>29. ASSUME NEW n \in Roles, UpdateRole(n)
       PROVE  AdminExists'
    BY <1>29 DEF UpdateRole, AdminExists
  <1> QED
    BY <1>1, <1>2, <1>3, <1>4, <1>5, <1>6, <1>7, <1>8, <1>9, <1>10, <1>11, <1>12, <1>13,
       <1>14, <1>15, <1>16, <1>17, <1>18, <1>19, <1>20, <1>21, <1>22, <1>23, <1>24, <1>25,
       <1>26, <1>27, <1>28, <1>29 DEF AccNext, Handle

\* A step keeps secrets that were used out of the columns, or marked.
LEMMA SpentStep ==
    ASSUME AccInv, AccNext
    PROVE  UsedIsSpent'
  <1>40. /\ issued \in 0 .. MaxSecrets /\ MaxSecrets \in Nat
        /\ column \in [Slots -> [People -> 0 .. issued]] /\ uses \in [Secrets -> Nat]
        /\ kind \in [Secrets -> Kinds] /\ secret \in [Handlers -> 0 .. issued]
        /\ stage \in [Handlers -> {"idle", "registering", "counting", "creating", "created",
            "mailing",
                                "forgotten", "approving", "withdrawing", "withdrawn",
                                "accepted", "stored"}]
        /\ delivered \subseteq 1 .. issued
        /\ CallsKnow /\ SecretsKnown /\ UsedIsSpent /\ OneSpends /\ SecretsUsedOnce
    BY AccountsAssumption DEF AccInv, AccTypes, AccTypeOK
  <1>41. /\ issued' = issued \/ issued' = issued + 1
         /\ \A s \in 1 .. issued : kind'[s] = kind[s] /\ owner'[s] = owner[s]
    BY Grows, SecretsStay
  <1>50. ASSUME uses' = uses, used \subseteq used',
                \A slot \in Slots, u \in People :
                  column'[slot][u] = column[slot][u] \/ column'[slot][u] \in {0, issued + 1}
         PROVE  UsedIsSpent'
    <2> SUFFICES ASSUME NEW s \in Secrets, uses[s] > 0 PROVE Spent(s)'
      BY <1>50 DEF UsedIsSpent
    <2>1. s \in 1 .. issued
      BY <1>40 DEF SecretsKnown, Secrets
    <2>2. kind'[s] = kind[s] /\ Spent(s) /\ s # 0 /\ s # issued + 1
      BY <1>40, <1>41, <2>1 DEF UsedIsSpent
    <2> QED
      BY <1>50, <2>2 DEF Spent
  <1>51. ASSUME NEW r \in Handlers, NEW slot \in Slots, Spending(r), issued' = issued,
                kind[secret[r]] \in
                     IF slot = "mail" THEN {"verify", "reset"} ELSE {"create", "get"},
                uses' = [uses EXCEPT ![secret[r]] = @ + 1], used' = used,
                column' = [column EXCEPT ![slot][who[r]] = 0]
         PROVE  UsedIsSpent'
    <2> SUFFICES ASSUME NEW s \in Secrets, uses'[s] > 0 PROVE Spent(s)'
      BY DEF UsedIsSpent
    <2>1. secret[r] \in 1 .. issued /\ who[r] = owner[secret[r]] /\ who[r] \in People
      BY <1>40, <1>51 DEF CallsKnow, SecretsKnown
    <2>2. \A t \in Slots, u \in People : column'[t][u] =
               IF t = slot /\ u = who[r] THEN 0 ELSE column[t][u]
      BY <1>40, <1>51, <2>1
    <2>3. CASE s = secret[r]
      <3>1. kind'[s] = kind[s] /\ kind[s] # "code" /\ s # 0
        BY <1>40, <1>41, <1>51, <2>1, <2>3
      <3>2. ASSUME NEW t \in Slots, NEW u \in People, column[t][u] = s
            PROVE  t = slot /\ u = who[r]
        BY <1>40, <1>51, <2>1, <2>3, <3>1, <3>2 DEF SecretsKnown, Slots, NoSecret
      <3> QED
        BY <2>2, <3>1, <3>2 DEF Spent
    <2>4. CASE s # secret[r]
      <3>1. uses[s] > 0
        BY <1>40, <1>51, <2>4
      <3>2. s \in 1 .. issued
        BY <1>40, <3>1 DEF SecretsKnown, Secrets
      <3>3. kind'[s] = kind[s] /\ Spent(s) /\ s # 0
        BY <1>40, <1>41, <3>1, <3>2 DEF UsedIsSpent
      <3> QED
        BY <1>51, <2>2, <3>3 DEF Spent
    <2> QED
      BY <2>3, <2>4
  <1>1. ASSUME NEW r \in Handlers, UpsertRole(r)
       PROVE  UsedIsSpent'
    BY <1>1, <1>50 DEF UpsertRole, oauth, history
  <1>2. ASSUME NEW r \in Handlers, CountUsers(r)
       PROVE  UsedIsSpent'
    BY <1>2, <1>50 DEF CountUsers, oauth, history
  <1>3. ASSUME NEW r \in Handlers, CreateUser(r)
       PROVE  UsedIsSpent'
    BY <1>3, <1>50 DEF CreateUser, oauth, history
  <1>4. ASSUME NEW r \in Handlers, StoreVerifyToken(r)
       PROVE  UsedIsSpent'
    <2>1. column' = column \/ column' = [column EXCEPT !["mail"][who[r]] = issued + 1]
      BY <1>4 DEF StoreVerifyToken, Make
    <2>2. \A t \in Slots, v \in People : column'[t][v] = column[t][v]
               \/ column'[t][v] \in {0, issued + 1}
      BY <1>40, <2>1
    <2> QED
      BY <1>4, <2>2, <1>50 DEF StoreVerifyToken, oauth, history
  <1>5. ASSUME NEW r \in Handlers, StoreResetToken(r)
       PROVE  UsedIsSpent'
    <2>1. column' = column \/ column' = [column EXCEPT !["mail"][who[r]] = issued + 1]
      BY <1>5 DEF StoreResetToken, Make
    <2>2. \A t \in Slots, v \in People : column'[t][v] = column[t][v]
               \/ column'[t][v] \in {0, issued + 1}
      BY <1>40, <2>1
    <2> QED
      BY <1>5, <2>2, <1>50 DEF StoreResetToken, oauth, history
  <1>6. ASSUME NEW r \in Handlers, Mail(r)
       PROVE  UsedIsSpent'
    BY <1>6, <1>50 DEF Mail, oauth, history
  <1>7. ASSUME NEW r \in Handlers, CreateCode(r)
       PROVE  UsedIsSpent'
    BY <1>7, <1>50 DEF CreateCode, oauth, history
  <1>8. ASSUME NEW r \in Handlers, DeleteCodes(r)
       PROVE  UsedIsSpent'
    BY <1>8, <1>50 DEF DeleteCodes, oauth, history
  <1>9. ASSUME NEW r \in Handlers, DeleteClientRow(r)
       PROVE  UsedIsSpent'
    BY <1>9, <1>50 DEF DeleteClientRow, oauth, history
  <1>10. ASSUME NEW r \in Handlers, VerifyEmail(r)
       PROVE  UsedIsSpent'
    <2>1. Spending(r) /\ "mail" \in Slots
          /\ kind[secret[r]] \in IF "mail" = "mail" THEN {"verify", "reset"} ELSE {"create", "get"}
      BY <1>10, <1>40 DEF VerifyEmail, Spending, Slots, CallsKnow
    <2>2. /\ issued' = issued /\ uses' = [uses EXCEPT ![secret[r]] = @ + 1] /\ used' = used
          /\ column' = [column EXCEPT !["mail"][who[r]] = 0]
      BY <1>10 DEF VerifyEmail, Answer, Empty, oauth, secrets, NoSecret
    <2> QED
      BY <2>1, <2>2, <1>51
  <1>11. ASSUME NEW r \in Handlers, ResetPassword(r)
       PROVE  UsedIsSpent'
    <2>1. Spending(r) /\ "mail" \in Slots
          /\ kind[secret[r]] \in IF "mail" = "mail" THEN {"verify", "reset"} ELSE {"create", "get"}
      BY <1>11, <1>40 DEF ResetPassword, Spending, Slots, CallsKnow
    <2>2. /\ issued' = issued /\ uses' = [uses EXCEPT ![secret[r]] = @ + 1] /\ used' = used
          /\ column' = [column EXCEPT !["mail"][who[r]] = 0]
      BY <1>11 DEF ResetPassword, Answer, Empty, oauth, secrets, NoSecret
    <2> QED
      BY <2>1, <2>2, <1>51
  <1>12. ASSUME NEW r \in Handlers, StorePasskey(r)
       PROVE  UsedIsSpent'
    BY <1>12, <1>50 DEF StorePasskey, oauth, history
  <1>13. ASSUME NEW r \in Handlers, UpdateCounter(r)
       PROVE  UsedIsSpent'
    BY <1>13, <1>50 DEF UpdateCounter, oauth, history
  <1>14. ASSUME NEW r \in Handlers, ClearChallenge(r)
       PROVE  UsedIsSpent'
    <2>1. Spending(r) /\ "challenge" \in Slots
          /\ kind[secret[r]] \in
               IF "challenge" = "mail" THEN {"verify", "reset"} ELSE {"create", "get"}
      BY <1>14, <1>40 DEF ClearChallenge, Spending, Slots, CallsKnow
    <2>2. /\ issued' = issued /\ uses' = [uses EXCEPT ![secret[r]] = @ + 1] /\ used' = used
          /\ column' = [column EXCEPT !["challenge"][who[r]] = 0]
      BY <1>14 DEF ClearChallenge, Answer, Empty, oauth, secrets, NoSecret
    <2> QED
      BY <2>1, <2>2, <1>51
  <1>15. ASSUME NEW r \in Handlers, MarkCodeUsed(r)
       PROVE  UsedIsSpent'
    <2>1. CASE secret[r] \in codes
      <3>1. /\ used' = used \cup {secret[r]} /\ uses' = [uses EXCEPT ![secret[r]] = @ + 1]
            /\ column' = column /\ kind' = kind /\ kind[secret[r]] = "code"
        BY <1>15, <2>1 DEF MarkCodeUsed, Answer, secrets
      <3> SUFFICES ASSUME NEW s \in Secrets, uses'[s] > 0 PROVE Spent(s)'
        BY DEF UsedIsSpent
      <3>2. CASE s = secret[r]
        BY <3>1, <3>2 DEF Spent
      <3>3. CASE s # secret[r]
        BY <1>40, <3>1, <3>3 DEF Spent, UsedIsSpent
      <3> QED
        BY <3>2, <3>3
    <2>2. CASE secret[r] \notin codes
      BY <1>15, <2>2, <1>50 DEF MarkCodeUsed
    <2> QED
      BY <2>1, <2>2
  <1>16. ASSUME NEW r \in Handlers, Break(r)
       PROVE  UsedIsSpent'
    BY <1>16, <1>50 DEF Break, oauth, history
  <1>17. ASSUME NEW r \in Handlers, NEW u \in People, Register(r, u)
       PROVE  UsedIsSpent'
    BY <1>17, <1>50 DEF Register, oauth, history
  <1>18. ASSUME NEW r \in Handlers, NEW u \in People, ForgotPassword(r, u)
       PROVE  UsedIsSpent'
    BY <1>18, <1>50 DEF ForgotPassword, oauth, history
  <1>19. ASSUME NEW r \in Handlers, NEW c \in Clients, ApproveConsent(r, c)
       PROVE  UsedIsSpent'
    BY <1>19, <1>50 DEF ApproveConsent, oauth, history
  <1>20. ASSUME NEW r \in Handlers, NEW c \in Clients, DeleteClient(r, c)
       PROVE  UsedIsSpent'
    BY <1>20, <1>50 DEF DeleteClient, oauth, history
  <1>21. ASSUME NEW r \in Handlers, NEW s \in Secrets, NEW p \in Secrets \cup {NoSecret},
                Present(r, s, p)
       PROVE  UsedIsSpent'
    BY <1>21, <1>50 DEF Present, oauth, history
  <1>22. ASSUME NEW u \in People, NEW k \in {"create", "get"}, GenerateOptions(u, k)
       PROVE  UsedIsSpent'
    <2>1. column' = column \/ column' = [column EXCEPT !["challenge"][u] = issued + 1]
      BY <1>22 DEF GenerateOptions, Make
    <2>2. \A t \in Slots, v \in People : column'[t][v] = column[t][v]
               \/ column'[t][v] \in {0, issued + 1}
      BY <1>40, <2>1
    <2> QED
      BY <1>22, <2>2, <1>50 DEF GenerateOptions, oauth, history
  <1>23. ASSUME NEW u \in People, UpdateUser(u)
       PROVE  UsedIsSpent'
    BY <1>23, <1>50 DEF UpdateUser, oauth, history
  <1>24. ASSUME NEW u \in People, AssignRole(u)
       PROVE  UsedIsSpent'
    BY <1>24, <1>50 DEF AssignRole, oauth, history
  <1>25. ASSUME NEW u \in People, RemoveRole(u)
       PROVE  UsedIsSpent'
    BY <1>25, <1>50 DEF RemoveRole, oauth, history
  <1>26. ASSUME NEW s \in Secrets, DeletePasskey(s)
       PROVE  UsedIsSpent'
    BY <1>26, <1>50 DEF DeletePasskey, oauth, history
  <1>27. ASSUME NEW s \in Secrets, CodeExpires(s)
       PROVE  UsedIsSpent'
    BY <1>27, <1>50 DEF CodeExpires, oauth, history
  <1>28. ASSUME NEW c \in Clients, RegisterClient(c)
       PROVE  UsedIsSpent'
    BY <1>28, <1>50 DEF RegisterClient, oauth, history
  <1>29. ASSUME NEW n \in Roles, UpdateRole(n)
       PROVE  UsedIsSpent'
    BY <1>29, <1>50 DEF UpdateRole, oauth, history
  <1> QED
    BY <1>1, <1>2, <1>3, <1>4, <1>5, <1>6, <1>7, <1>8, <1>9, <1>10, <1>11, <1>12, <1>13,
       <1>14, <1>15, <1>16, <1>17, <1>18, <1>19, <1>20, <1>21, <1>22, <1>23, <1>24, <1>25,
       <1>26, <1>27, <1>28, <1>29 DEF AccNext, Handle

\* A step lets no secret be good twice.
LEMMA OnceStep ==
    ASSUME AccInv, AccNext
    PROVE  SecretsUsedOnce'
  <1>40. /\ issued \in 0 .. MaxSecrets /\ MaxSecrets \in Nat
        /\ column \in [Slots -> [People -> 0 .. issued]] /\ uses \in [Secrets -> Nat]
        /\ kind \in [Secrets -> Kinds] /\ secret \in [Handlers -> 0 .. issued]
        /\ stage \in [Handlers -> {"idle", "registering", "counting", "creating", "created",
            "mailing",
                                "forgotten", "approving", "withdrawing", "withdrawn",
                                "accepted", "stored"}]
        /\ delivered \subseteq 1 .. issued
        /\ CallsKnow /\ SecretsKnown /\ UsedIsSpent /\ OneSpends /\ SecretsUsedOnce
    BY AccountsAssumption DEF AccInv, AccTypes, AccTypeOK
  <1>41. /\ issued' = issued \/ issued' = issued + 1
         /\ \A s \in 1 .. issued : kind'[s] = kind[s] /\ owner'[s] = owner[s]
    BY Grows, SecretsStay
  <1>50. ASSUME uses' = uses, overlapped \subseteq overlapped'
         PROVE  SecretsUsedOnce'
    BY <1>40, <1>50 DEF SecretsUsedOnce
  <1>51. ASSUME NEW r \in Handlers, Spending(r), uses' = [uses EXCEPT ![secret[r]] = @ + 1],
                overlapped' = overlapped
         PROVE  SecretsUsedOnce'
    BY <1>40, <1>51 DEF SecretsUsedOnce, OneSpends
  <1>1. ASSUME NEW r \in Handlers, UpsertRole(r)
       PROVE  SecretsUsedOnce'
    BY <1>1, <1>50 DEF UpsertRole, history
  <1>2. ASSUME NEW r \in Handlers, CountUsers(r)
       PROVE  SecretsUsedOnce'
    BY <1>2, <1>50 DEF CountUsers, history
  <1>3. ASSUME NEW r \in Handlers, CreateUser(r)
       PROVE  SecretsUsedOnce'
    BY <1>3, <1>50 DEF CreateUser, history
  <1>4. ASSUME NEW r \in Handlers, StoreVerifyToken(r)
       PROVE  SecretsUsedOnce'
    BY <1>4, <1>50 DEF StoreVerifyToken, history
  <1>5. ASSUME NEW r \in Handlers, StoreResetToken(r)
       PROVE  SecretsUsedOnce'
    BY <1>5, <1>50 DEF StoreResetToken, history
  <1>6. ASSUME NEW r \in Handlers, Mail(r)
       PROVE  SecretsUsedOnce'
    BY <1>6, <1>50 DEF Mail, history
  <1>7. ASSUME NEW r \in Handlers, CreateCode(r)
       PROVE  SecretsUsedOnce'
    BY <1>7, <1>50 DEF CreateCode, history
  <1>8. ASSUME NEW r \in Handlers, DeleteCodes(r)
       PROVE  SecretsUsedOnce'
    BY <1>8, <1>50 DEF DeleteCodes, history
  <1>9. ASSUME NEW r \in Handlers, DeleteClientRow(r)
       PROVE  SecretsUsedOnce'
    BY <1>9, <1>50 DEF DeleteClientRow, history
  <1>10. ASSUME NEW r \in Handlers, VerifyEmail(r)
       PROVE  SecretsUsedOnce'
    BY <1>10, <1>51 DEF VerifyEmail, Answer, Spending
  <1>11. ASSUME NEW r \in Handlers, ResetPassword(r)
       PROVE  SecretsUsedOnce'
    BY <1>11, <1>51 DEF ResetPassword, Answer, Spending
  <1>12. ASSUME NEW r \in Handlers, StorePasskey(r)
       PROVE  SecretsUsedOnce'
    BY <1>12, <1>50 DEF StorePasskey, history
  <1>13. ASSUME NEW r \in Handlers, UpdateCounter(r)
       PROVE  SecretsUsedOnce'
    BY <1>13, <1>50 DEF UpdateCounter, history
  <1>14. ASSUME NEW r \in Handlers, ClearChallenge(r)
       PROVE  SecretsUsedOnce'
    BY <1>14, <1>51 DEF ClearChallenge, Answer, Spending
  <1>15. ASSUME NEW r \in Handlers, MarkCodeUsed(r)
       PROVE  SecretsUsedOnce'
    BY <1>15, <1>50, <1>51 DEF MarkCodeUsed, Answer, Spending
  <1>16. ASSUME NEW r \in Handlers, Break(r)
       PROVE  SecretsUsedOnce'
    BY <1>16, <1>50 DEF Break, history
  <1>17. ASSUME NEW r \in Handlers, NEW u \in People, Register(r, u)
       PROVE  SecretsUsedOnce'
    BY <1>17, <1>50 DEF Register, history
  <1>18. ASSUME NEW r \in Handlers, NEW u \in People, ForgotPassword(r, u)
       PROVE  SecretsUsedOnce'
    BY <1>18, <1>50 DEF ForgotPassword, history
  <1>19. ASSUME NEW r \in Handlers, NEW c \in Clients, ApproveConsent(r, c)
       PROVE  SecretsUsedOnce'
    BY <1>19, <1>50 DEF ApproveConsent, history
  <1>20. ASSUME NEW r \in Handlers, NEW c \in Clients, DeleteClient(r, c)
       PROVE  SecretsUsedOnce'
    BY <1>20, <1>50 DEF DeleteClient, history
  <1>21. ASSUME NEW r \in Handlers, NEW s \in Secrets, NEW p \in Secrets \cup {NoSecret},
                Present(r, s, p)
       PROVE  SecretsUsedOnce'
    BY <1>21, <1>50 DEF Present, history
  <1>22. ASSUME NEW u \in People, NEW k \in {"create", "get"}, GenerateOptions(u, k)
       PROVE  SecretsUsedOnce'
    BY <1>22, <1>50 DEF GenerateOptions, history
  <1>23. ASSUME NEW u \in People, UpdateUser(u)
       PROVE  SecretsUsedOnce'
    BY <1>23, <1>50 DEF UpdateUser, history
  <1>24. ASSUME NEW u \in People, AssignRole(u)
       PROVE  SecretsUsedOnce'
    BY <1>24, <1>50 DEF AssignRole, history
  <1>25. ASSUME NEW u \in People, RemoveRole(u)
       PROVE  SecretsUsedOnce'
    BY <1>25, <1>50 DEF RemoveRole, history
  <1>26. ASSUME NEW s \in Secrets, DeletePasskey(s)
       PROVE  SecretsUsedOnce'
    BY <1>26, <1>50 DEF DeletePasskey, history
  <1>27. ASSUME NEW s \in Secrets, CodeExpires(s)
       PROVE  SecretsUsedOnce'
    BY <1>27, <1>50 DEF CodeExpires, history
  <1>28. ASSUME NEW c \in Clients, RegisterClient(c)
       PROVE  SecretsUsedOnce'
    BY <1>28, <1>50 DEF RegisterClient, history
  <1>29. ASSUME NEW n \in Roles, UpdateRole(n)
       PROVE  SecretsUsedOnce'
    BY <1>29, <1>50 DEF UpdateRole, history
  <1> QED
    BY <1>1, <1>2, <1>3, <1>4, <1>5, <1>6, <1>7, <1>8, <1>9, <1>10, <1>11, <1>12, <1>13,
       <1>14, <1>15, <1>16, <1>17, <1>18, <1>19, <1>20, <1>21, <1>22, <1>23, <1>24, <1>25,
       <1>26, <1>27, <1>28, <1>29 DEF AccNext, Handle

\* A step leaves one call with a secret that did not overlap.
LEMMA OneSpendsStep ==
    ASSUME AccInv, AccNext
    PROVE  OneSpends'
  <1>40. /\ issued \in 0 .. MaxSecrets /\ MaxSecrets \in Nat
        /\ column \in [Slots -> [People -> 0 .. issued]] /\ uses \in [Secrets -> Nat]
        /\ kind \in [Secrets -> Kinds] /\ secret \in [Handlers -> 0 .. issued]
        /\ stage \in [Handlers -> {"idle", "registering", "counting", "creating", "created",
            "mailing",
                                "forgotten", "approving", "withdrawing", "withdrawn",
                                "accepted", "stored"}]
        /\ delivered \subseteq 1 .. issued
        /\ CallsKnow /\ SecretsKnown /\ UsedIsSpent /\ OneSpends /\ SecretsUsedOnce
    BY AccountsAssumption DEF AccInv, AccTypes, AccTypeOK
  <1>41. /\ issued' = issued \/ issued' = issued + 1
         /\ \A s \in 1 .. issued : kind'[s] = kind[s] /\ owner'[s] = owner[s]
    BY Grows, SecretsStay
  <1>50. ASSUME uses' = uses, overlapped' = overlapped,
                \A q \in Handlers : Spending(q)' => Spending(q) /\ secret'[q] = secret[q]
         PROVE  OneSpends'
    BY <1>40, <1>50 DEF OneSpends
  <1>51. ASSUME NEW r \in Handlers, Spending(r), uses' = [uses EXCEPT ![secret[r]] = @ + 1],
                overlapped' = overlapped, Finish(r)
         PROVE  OneSpends'
    <2>1. ~Spending(r)' /\ \A q \in Handlers \ {r} : stage'[q] = stage[q] /\ secret'[q] = secret[q]
      BY <1>40, <1>51 DEF Finish, Reach, Spending
    <2> SUFFICES ASSUME NEW q \in Handlers \ {r}, Spending(q), secret[q] \notin overlapped
                 PROVE  /\ uses'[secret[q]] = 0
                        /\ \A p \in Handlers : Spending(p)' /\ secret'[p] = secret[q] => p = q
      BY <1>51, <2>1 DEF OneSpends, Spending
    <2>2. secret[r] # secret[q] /\ uses[secret[q]] = 0
      BY <1>40, <1>51 DEF OneSpends
    <2>3. uses'[secret[q]] = 0
      BY <1>40, <1>51, <2>2
    <2> QED
      BY <1>40, <2>1, <2>3 DEF OneSpends, Spending
  <1>52. ASSUME NEW s \in delivered, Accepts(s)
         PROVE  uses[s] = 0
    <2>1. s \in Secrets /\ s \in 1 .. issued /\ uses[s] \in Nat
      BY <1>40 DEF Secrets
    <2>2. ~Spent(s)
      <3>1. kind[s] \in Kinds /\ "mail" \in Slots /\ "challenge" \in Slots
            /\ IF kind[s] = "code" THEN owner[s] \in Clients ELSE owner[s] \in People
        BY <1>40, <2>1 DEF SecretsKnown, Slots
      <3>2. CASE kind[s] = "code"
        BY <1>52, <3>2 DEF Accepts, Spent
      <3>3. CASE kind[s] # "code"
        <4>1. column["mail"][owner[s]] = s \/ column["challenge"][owner[s]] = s
          BY <1>52, <3>1, <3>3 DEF Accepts, Kinds
        <4> QED
          BY <3>1, <3>3, <4>1 DEF Spent
      <3> QED
        BY <3>2, <3>3
    <2> QED
      BY <1>40, <2>1, <2>2 DEF UsedIsSpent
  <1>1. ASSUME NEW r \in Handlers, UpsertRole(r)
       PROVE  OneSpends'
    <2>1. \A q \in Handlers : Spending(q)' => Spending(q) /\ secret'[q] = secret[q]
      BY <1>1, <1>40 DEF UpsertRole, Reach, Spending, local
    <2> QED
      BY <1>1, <2>1, <1>50 DEF UpsertRole, history
  <1>2. ASSUME NEW r \in Handlers, CountUsers(r)
       PROVE  OneSpends'
    <2>1. \A q \in Handlers : Spending(q)' => Spending(q) /\ secret'[q] = secret[q]
      BY <1>2, <1>40 DEF CountUsers, Reach, Spending, local
    <2> QED
      BY <1>2, <2>1, <1>50 DEF CountUsers, history
  <1>3. ASSUME NEW r \in Handlers, CreateUser(r)
       PROVE  OneSpends'
    <2>1. \A q \in Handlers : Spending(q)' => Spending(q) /\ secret'[q] = secret[q]
      BY <1>3, <1>40 DEF CreateUser, Reach, Finish, Spending, local
    <2> QED
      BY <1>3, <2>1, <1>50 DEF CreateUser, history
  <1>4. ASSUME NEW r \in Handlers, StoreVerifyToken(r)
       PROVE  OneSpends'
    <2>1. \A q \in Handlers : Spending(q)' => Spending(q) /\ secret'[q] = secret[q]
      BY <1>4, <1>40 DEF StoreVerifyToken, Reach, Finish, Spending, local
    <2> QED
      BY <1>4, <2>1, <1>50 DEF StoreVerifyToken, history
  <1>5. ASSUME NEW r \in Handlers, StoreResetToken(r)
       PROVE  OneSpends'
    <2>1. \A q \in Handlers : Spending(q)' => Spending(q) /\ secret'[q] = secret[q]
      BY <1>5, <1>40 DEF StoreResetToken, Reach, Spending, local
    <2> QED
      BY <1>5, <2>1, <1>50 DEF StoreResetToken, history
  <1>6. ASSUME NEW r \in Handlers, Mail(r)
       PROVE  OneSpends'
    <2>1. \A q \in Handlers : Spending(q)' => Spending(q) /\ secret'[q] = secret[q]
      BY <1>6, <1>40 DEF Mail, Reach, Finish, Spending, local
    <2> QED
      BY <1>6, <2>1, <1>50 DEF Mail, history
  <1>7. ASSUME NEW r \in Handlers, CreateCode(r)
       PROVE  OneSpends'
    <2>1. \A q \in Handlers : Spending(q)' => Spending(q) /\ secret'[q] = secret[q]
      BY <1>7, <1>40 DEF CreateCode, Reach, Finish, Spending, local
    <2> QED
      BY <1>7, <2>1, <1>50 DEF CreateCode, history
  <1>8. ASSUME NEW r \in Handlers, DeleteCodes(r)
       PROVE  OneSpends'
    <2>1. \A q \in Handlers : Spending(q)' => Spending(q) /\ secret'[q] = secret[q]
      BY <1>8, <1>40 DEF DeleteCodes, Reach, Spending, local
    <2> QED
      BY <1>8, <2>1, <1>50 DEF DeleteCodes, history
  <1>9. ASSUME NEW r \in Handlers, DeleteClientRow(r)
       PROVE  OneSpends'
    <2>1. \A q \in Handlers : Spending(q)' => Spending(q) /\ secret'[q] = secret[q]
      BY <1>9, <1>40 DEF DeleteClientRow, Reach, Finish, Spending, local
    <2> QED
      BY <1>9, <2>1, <1>50 DEF DeleteClientRow, history
  <1>10. ASSUME NEW r \in Handlers, VerifyEmail(r)
       PROVE  OneSpends'
    BY <1>10, <1>51 DEF VerifyEmail, Answer, Spending
  <1>11. ASSUME NEW r \in Handlers, ResetPassword(r)
       PROVE  OneSpends'
    BY <1>11, <1>51 DEF ResetPassword, Answer, Spending
  <1>12. ASSUME NEW r \in Handlers, StorePasskey(r)
       PROVE  OneSpends'
    <2>1. \A q \in Handlers : Spending(q)' => Spending(q) /\ secret'[q] = secret[q]
      BY <1>12, <1>40 DEF StorePasskey, Reach, Finish, Spending, local
    <2> QED
      BY <1>12, <2>1, <1>50 DEF StorePasskey, history
  <1>13. ASSUME NEW r \in Handlers, UpdateCounter(r)
       PROVE  OneSpends'
    <2>1. \A q \in Handlers : Spending(q)' => Spending(q) /\ secret'[q] = secret[q]
      BY <1>13, <1>40 DEF UpdateCounter, Reach, Finish, Spending, local
    <2> QED
      BY <1>13, <2>1, <1>50 DEF UpdateCounter, history
  <1>14. ASSUME NEW r \in Handlers, ClearChallenge(r)
       PROVE  OneSpends'
    BY <1>14, <1>51 DEF ClearChallenge, Answer, Spending
  <1>15. ASSUME NEW r \in Handlers, MarkCodeUsed(r)
       PROVE  OneSpends'
    <2>1. Finish(r) /\ Spending(r) /\ overlapped' = overlapped
      BY <1>15 DEF MarkCodeUsed, Answer, Spending
    <2>2. CASE uses' = uses
      <3>1. \A q \in Handlers : Spending(q)' => Spending(q) /\ secret'[q] = secret[q]
        BY <1>40, <2>1 DEF Finish, Reach, Spending
      <3> QED
        BY <2>1, <2>2, <3>1, <1>50
    <2>3. CASE uses' = [uses EXCEPT ![secret[r]] = @ + 1]
      BY <2>1, <2>3, <1>51
    <2> QED
      BY <1>15, <2>2, <2>3 DEF MarkCodeUsed, Answer
  <1>16. ASSUME NEW r \in Handlers, Break(r)
       PROVE  OneSpends'
    <2>1. \A q \in Handlers : Spending(q)' => Spending(q) /\ secret'[q] = secret[q]
      BY <1>16, <1>40 DEF Break, Reach, Finish, Spending, local
    <2> QED
      BY <1>16, <2>1, <1>50 DEF Break, history
  <1>17. ASSUME NEW r \in Handlers, NEW u \in People, Register(r, u)
       PROVE  OneSpends'
    <2>1. \A q \in Handlers : Spending(q)' => Spending(q) /\ secret'[q] = secret[q]
      BY <1>17, <1>40 DEF Register, Start, Reach, Spending, local
    <2> QED
      BY <1>17, <2>1, <1>50 DEF Register, history
  <1>18. ASSUME NEW r \in Handlers, NEW u \in People, ForgotPassword(r, u)
       PROVE  OneSpends'
    <2>1. \A q \in Handlers : Spending(q)' => Spending(q) /\ secret'[q] = secret[q]
      BY <1>18, <1>40 DEF ForgotPassword, Start, Reach, Spending, local
    <2> QED
      BY <1>18, <2>1, <1>50 DEF ForgotPassword, history
  <1>19. ASSUME NEW r \in Handlers, NEW c \in Clients, ApproveConsent(r, c)
       PROVE  OneSpends'
    <2>1. \A q \in Handlers : Spending(q)' => Spending(q) /\ secret'[q] = secret[q]
      BY <1>19, <1>40 DEF ApproveConsent, Start, Reach, Spending, local
    <2> QED
      BY <1>19, <2>1, <1>50 DEF ApproveConsent, history
  <1>20. ASSUME NEW r \in Handlers, NEW c \in Clients, DeleteClient(r, c)
       PROVE  OneSpends'
    <2>1. \A q \in Handlers : Spending(q)' => Spending(q) /\ secret'[q] = secret[q]
      BY <1>20, <1>40 DEF DeleteClient, Start, Reach, Spending, local
    <2> QED
      BY <1>20, <2>1, <1>50 DEF DeleteClient, history
  <1>21. ASSUME NEW r \in Handlers, NEW s \in Secrets, NEW p \in Secrets \cup {NoSecret},
                Present(r, s, p)
       PROVE  OneSpends'
    <2>1. /\ stage' = [stage EXCEPT ![r] = "accepted"] /\ secret' = [secret EXCEPT ![r] = s]
          /\ stage[r] = "idle" /\ uses' = uses /\ uses[s] = 0
          /\ overlapped' = IF \E q \in Handlers : stage[q] # "idle" /\ secret[q] = s
                           THEN overlapped \cup {s} ELSE overlapped
      BY <1>21, <1>52 DEF Present, Start, Reach
    <2>2. \A q \in Handlers \ {r} : (Spending(q)' <=> Spending(q)) /\ secret'[q] = secret[q]
      BY <1>40, <2>1 DEF Spending
    <2>3. secret'[r] = s /\ ~Spending(r)
      BY <1>40, <2>1 DEF Spending
    <2> SUFFICES ASSUME NEW q \in Handlers, Spending(q)', secret'[q] \notin overlapped'
                 PROVE  /\ uses[secret'[q]] = 0
                        /\ \A t \in Handlers : Spending(t)' /\ secret'[t] = secret'[q] => t = q
      BY <2>1 DEF OneSpends
    <2>4. CASE q = r
      <3>1. \A t \in Handlers : Spending(t) => secret[t] # s
        BY <2>1, <2>3, <2>4 DEF Spending
      <3> QED
        BY <2>1, <2>2, <2>3, <2>4, <3>1
    <2>5. CASE q # r
      <3>1. Spending(q) /\ secret[q] \notin overlapped /\ secret'[q] = secret[q] /\ secret[q] # s
        BY <2>1, <2>2, <2>5 DEF Spending
      <3> QED
        BY <1>40, <2>2, <2>3, <2>5, <3>1 DEF OneSpends
    <2> QED
      BY <2>4, <2>5
  <1>22. ASSUME NEW u \in People, NEW k \in {"create", "get"}, GenerateOptions(u, k)
       PROVE  OneSpends'
    <2>1. \A q \in Handlers : Spending(q)' => Spending(q) /\ secret'[q] = secret[q]
      BY <1>22, <1>40 DEF GenerateOptions, Spending, local
    <2> QED
      BY <1>22, <2>1, <1>50 DEF GenerateOptions, history
  <1>23. ASSUME NEW u \in People, UpdateUser(u)
       PROVE  OneSpends'
    <2>1. \A q \in Handlers : Spending(q)' => Spending(q) /\ secret'[q] = secret[q]
      BY <1>23, <1>40 DEF UpdateUser, Spending, local
    <2> QED
      BY <1>23, <2>1, <1>50 DEF UpdateUser, history
  <1>24. ASSUME NEW u \in People, AssignRole(u)
       PROVE  OneSpends'
    <2>1. \A q \in Handlers : Spending(q)' => Spending(q) /\ secret'[q] = secret[q]
      BY <1>24, <1>40 DEF AssignRole, Spending, local
    <2> QED
      BY <1>24, <2>1, <1>50 DEF AssignRole, history
  <1>25. ASSUME NEW u \in People, RemoveRole(u)
       PROVE  OneSpends'
    <2>1. \A q \in Handlers : Spending(q)' => Spending(q) /\ secret'[q] = secret[q]
      BY <1>25, <1>40 DEF RemoveRole, Spending, local
    <2> QED
      BY <1>25, <2>1, <1>50 DEF RemoveRole, history
  <1>26. ASSUME NEW s \in Secrets, DeletePasskey(s)
       PROVE  OneSpends'
    <2>1. \A q \in Handlers : Spending(q)' => Spending(q) /\ secret'[q] = secret[q]
      BY <1>26, <1>40 DEF DeletePasskey, Spending, local
    <2> QED
      BY <1>26, <2>1, <1>50 DEF DeletePasskey, history
  <1>27. ASSUME NEW s \in Secrets, CodeExpires(s)
       PROVE  OneSpends'
    <2>1. \A q \in Handlers : Spending(q)' => Spending(q) /\ secret'[q] = secret[q]
      BY <1>27, <1>40 DEF CodeExpires, Spending, local
    <2> QED
      BY <1>27, <2>1, <1>50 DEF CodeExpires, history
  <1>28. ASSUME NEW c \in Clients, RegisterClient(c)
       PROVE  OneSpends'
    <2>1. \A q \in Handlers : Spending(q)' => Spending(q) /\ secret'[q] = secret[q]
      BY <1>28, <1>40 DEF RegisterClient, Spending, local
    <2> QED
      BY <1>28, <2>1, <1>50 DEF RegisterClient, history
  <1>29. ASSUME NEW n \in Roles, UpdateRole(n)
       PROVE  OneSpends'
    <2>1. \A q \in Handlers : Spending(q)' => Spending(q) /\ secret'[q] = secret[q]
      BY <1>29, <1>40 DEF UpdateRole, Spending, local
    <2> QED
      BY <1>29, <2>1, <1>50 DEF UpdateRole, history
  <1> QED
    BY <1>1, <1>2, <1>3, <1>4, <1>5, <1>6, <1>7, <1>8, <1>9, <1>10, <1>11, <1>12, <1>13,
       <1>14, <1>15, <1>16, <1>17, <1>18, <1>19, <1>20, <1>21, <1>22, <1>23, <1>24, <1>25,
       <1>26, <1>27, <1>28, <1>29 DEF AccNext, Handle

\* A step keeps the last secret of a user.
LEMMA LastStep ==
    ASSUME AccInv, AccNext
    PROVE  LastKept'
  <1>40. /\ issued \in 0 .. MaxSecrets /\ MaxSecrets \in Nat
        /\ column \in [Slots -> [People -> 0 .. issued]] /\ uses \in [Secrets -> Nat]
        /\ latest \in [Slots -> [People -> 0 .. issued]] /\ secret \in [Handlers -> 0 .. issued]
        /\ stage \in [Handlers -> {"idle", "registering", "counting", "creating", "created",
            "mailing",
                                "forgotten", "approving", "withdrawing", "withdrawn",
                                "accepted", "stored"}]
        /\ who \in [Handlers -> People \cup Clients \cup {None}]
        /\ excused \subseteq Slots \X People
        /\ CallsKnow /\ LastKept
    BY AccountsAssumption DEF AccInv, AccTypes, AccTypeOK
  <1>50. ASSUME NEW slot \in Slots, NEW u \in People,
                latest'[slot][u] = latest[slot][u], column'[slot][u] = column[slot][u],
                <<slot, u>> \in excused => <<slot, u>> \in excused',
                \A s \in Secrets : uses[s] > 0 => uses'[s] > 0,
                slot = "mail" =>
                  \A r \in Handlers : stage[r] = "mailing" /\ who[r] = u
                       => stage'[r] = "mailing" /\ who'[r] = u
         PROVE  Kept(slot, u)'
    <2>1. Kept(slot, u) /\ latest[slot][u] \in 0 .. issued
      BY <1>40 DEF LastKept
    <2>2. latest[slot][u] = 0 \/ latest[slot][u] \in Secrets
      BY <1>40, <2>1 DEF Secrets
    <2> QED
      BY <1>50, <2>1, <2>2 DEF Kept, NoSecret
  <1>51. ASSUME NEW r \in Handlers, stage[r] # "mailing",
                \A q \in Handlers \ {r} : stage'[q] = stage[q] /\ who'[q] = who[q],
                latest' = latest, column' = column, excused \subseteq excused',
                \A s \in Secrets : uses[s] > 0 => uses'[s] > 0
         PROVE  LastKept'
    BY <1>50, <1>51 DEF LastKept
  <1>52. ASSUME stage' = stage, who' = who, latest' = latest, column' = column, excused' = excused,
                uses' = uses
         PROVE  LastKept'
    BY <1>50, <1>52 DEF LastKept
  <1>53. ASSUME NEW r \in Handlers, NEW slot \in Slots, Spending(r), latest' = latest,
                uses' = [uses EXCEPT ![secret[r]] = @ + 1], Empty(r, slot), Finish(r)
         PROVE  LastKept'
    <2>1. secret[r] \in Secrets /\ stage[r] # "mailing"
      BY <1>40, <1>53 DEF CallsKnow, Secrets, Spending
    <2>2. uses'[secret[r]] > 0 /\ \A s \in Secrets : uses[s] > 0 => uses'[s] > 0
      BY <1>40, <1>53, <2>1
    <2>3. \A q \in Handlers : stage[q] = "mailing" => stage'[q] = "mailing" /\ who'[q] = who[q]
      BY <1>40, <1>53, <2>1 DEF Finish, Reach
    <2>4. \A t \in Slots, u \in People : <<t, u>> # <<slot, who[r]>> => column'[t][u] = column[t][u]
      BY <1>40, <1>53 DEF Empty
    <2>5. excused \subseteq excused'
      BY <1>53 DEF Empty
    <2> SUFFICES ASSUME NEW t \in Slots, NEW u \in People PROVE Kept(t, u)'
      BY DEF LastKept
    <2>6. CASE <<t, u>> # <<slot, who[r]>>
      <3>1. latest'[t][u] = latest[t][u] /\ column'[t][u] = column[t][u]
        BY <1>53, <2>4, <2>6
      <3>2. <<t, u>> \in excused => <<t, u>> \in excused'
        BY <2>5
      <3>3. \A q \in Handlers : stage[q] = "mailing" /\ who[q] = u
                 => stage'[q] = "mailing" /\ who'[q] = u
        BY <2>3
      <3> HIDE <1>53
      <3> QED
        BY <1>50, <2>2, <3>1, <3>2, <3>3
    <2>7. CASE <<t, u>> = <<slot, who[r]>> /\ column[t][u] # secret[r]
      BY <1>53, <2>7 DEF Empty, Kept
    <2>8. CASE <<t, u>> = <<slot, who[r]>> /\ column[t][u] = secret[r]
      <3>1. Kept(t, u) /\ latest[t][u] \in 0 .. issued
        BY <1>40 DEF LastKept
      <3>2. latest[t][u] = 0 \/ latest[t][u] \in Secrets
        BY <1>40, <3>1 DEF Secrets
      <3> QED
        BY <1>53, <2>2, <2>3, <2>5, <2>8, <3>1, <3>2 DEF Kept, NoSecret
    <2> QED
      BY <2>6, <2>7, <2>8
  <1>1. ASSUME NEW r \in Handlers, UpsertRole(r)
       PROVE  LastKept'
    <2>1. /\ stage[r] # "mailing" /\ latest' = latest /\ column' = column /\ excused' = excused
          /\ uses' = uses /\ \A q \in Handlers \ {r} : stage'[q] = stage[q] /\ who'[q] = who[q]
      BY <1>1, <1>40 DEF UpsertRole, Reach, local, history
    <2> QED
      BY <2>1, <1>51
  <1>2. ASSUME NEW r \in Handlers, CountUsers(r)
       PROVE  LastKept'
    <2>1. /\ stage[r] # "mailing" /\ latest' = latest /\ column' = column /\ excused' = excused
          /\ uses' = uses /\ \A q \in Handlers \ {r} : stage'[q] = stage[q] /\ who'[q] = who[q]
      BY <1>2, <1>40 DEF CountUsers, Reach, local, history
    <2> QED
      BY <2>1, <1>51
  <1>3. ASSUME NEW r \in Handlers, CreateUser(r)
       PROVE  LastKept'
    <2>1. /\ stage[r] # "mailing" /\ latest' = latest /\ column' = column /\ excused' = excused
          /\ uses' = uses /\ \A q \in Handlers \ {r} : stage'[q] = stage[q] /\ who'[q] = who[q]
      BY <1>3, <1>40 DEF CreateUser, Reach, Finish, local, history
    <2> QED
      BY <2>1, <1>51
  <1>4. ASSUME NEW r \in Handlers, StoreVerifyToken(r)
       PROVE  LastKept'
    <2>1. CASE first[r]
      <3>1. /\ latest' = latest /\ column' = column /\ excused' = excused /\ uses' = uses
            /\ stage[r] # "mailing"
            /\ \A q \in Handlers \ {r} : stage'[q] = stage[q] /\ who'[q] = who[q]
        BY <1>4, <2>1, <1>40 DEF StoreVerifyToken, Finish, Reach, history
      <3> QED
        BY <3>1, <1>51
    <2>2. CASE ~first[r]
      <3>1. /\ column' = [column EXCEPT !["mail"][who[r]] = issued'] /\ latest' = latest
            /\ excused' = excused /\ uses' = uses /\ stage[r] # "mailing"
            /\ stage' = [stage EXCEPT ![r] = "mailing"] /\ who' = who /\ "mail" \in Slots
        BY <1>4, <2>2 DEF StoreVerifyToken, Reach, history, Slots
      <3> SUFFICES ASSUME NEW slot \in Slots, NEW u \in People PROVE Kept(slot, u)'
        BY DEF LastKept
      <3>2. stage'[r] = "mailing" /\ \A q \in Handlers : stage[q] = "mailing"
                 => stage'[q] = "mailing"
        BY <1>40, <3>1
      <3>3. CASE slot = "mail" /\ u = who[r]
        BY <3>1, <3>2, <3>3 DEF Kept
      <3>4. CASE ~(slot = "mail" /\ u = who[r])
        <4>1. column'[slot][u] = column[slot][u]
          BY <1>40, <3>1, <3>4
        <4> QED
          BY <1>50, <3>1, <3>2, <4>1
      <3> QED
        BY <3>3, <3>4
    <2> QED
      BY <2>1, <2>2
  <1>5. ASSUME NEW r \in Handlers, StoreResetToken(r)
       PROVE  LastKept'
    <2>1. /\ column' = [column EXCEPT !["mail"][who[r]] = issued'] /\ latest' = latest
          /\ excused' = excused /\ uses' = uses /\ stage[r] # "mailing"
          /\ stage' = [stage EXCEPT ![r] = "mailing"] /\ who' = who /\ "mail" \in Slots
      BY <1>5 DEF StoreResetToken, Reach, history, Slots
    <2> SUFFICES ASSUME NEW slot \in Slots, NEW u \in People PROVE Kept(slot, u)'
      BY DEF LastKept
    <2>2. stage'[r] = "mailing" /\ \A q \in Handlers : stage[q] = "mailing" => stage'[q] = "mailing"
      BY <1>40, <2>1
    <2>3. CASE slot = "mail" /\ u = who[r]
      BY <2>1, <2>2, <2>3 DEF Kept
    <2>4. CASE ~(slot = "mail" /\ u = who[r])
      <3>1. column'[slot][u] = column[slot][u]
        BY <1>40, <2>1, <2>4
      <3> QED
        BY <1>50, <2>1, <2>2, <3>1
    <2> QED
      BY <2>3, <2>4
  <1>6. ASSUME NEW r \in Handlers, Mail(r)
       PROVE  LastKept'
    <2>1. /\ stage[r] = "mailing" /\ column' = column /\ uses' = uses /\ "mail" \in Slots
          /\ latest' = [latest EXCEPT !["mail"][who[r]] = secret[r]]
          /\ excused' = IF column'["mail"][who[r]] = secret[r] THEN excused \ {<<"mail", who[r]>>}
                        ELSE excused \cup {<<"mail", who[r]>>}
      BY <1>6 DEF Mail, Deliver, Slots
    <2>2. \A q \in Handlers \ {r} : stage'[q] = stage[q] /\ who'[q] = who[q]
      BY <1>6, <1>40 DEF Mail, Finish, Reach
    <2>3. who[r] \in People
      BY <1>40, <2>1 DEF CallsKnow
    <2> SUFFICES ASSUME NEW slot \in Slots, NEW u \in People PROVE Kept(slot, u)'
      BY DEF LastKept
    <2>4. CASE slot = "mail" /\ u = who[r]
      <3>1. latest'[slot][u] = secret[r]
        BY <1>40, <2>1, <2>3, <2>4
      <3> QED
        BY <2>1, <2>4, <3>1 DEF Kept
    <2>5. CASE ~(slot = "mail" /\ u = who[r])
      <3>1. latest'[slot][u] = latest[slot][u]
        BY <1>40, <2>1, <2>5
      <3>2. <<slot, u>> \in excused => <<slot, u>> \in excused'
        BY <2>1, <2>5
      <3> QED
        BY <1>50, <2>1, <2>2, <2>5, <3>1, <3>2
    <2> QED
      BY <2>4, <2>5
  <1>7. ASSUME NEW r \in Handlers, CreateCode(r)
       PROVE  LastKept'
    <2>1. /\ stage[r] # "mailing" /\ latest' = latest /\ column' = column /\ excused' = excused
          /\ uses' = uses /\ \A q \in Handlers \ {r} : stage'[q] = stage[q] /\ who'[q] = who[q]
      BY <1>7, <1>40 DEF CreateCode, Reach, Finish, local, history
    <2> QED
      BY <2>1, <1>51
  <1>8. ASSUME NEW r \in Handlers, DeleteCodes(r)
       PROVE  LastKept'
    <2>1. /\ stage[r] # "mailing" /\ latest' = latest /\ column' = column /\ excused' = excused
          /\ uses' = uses /\ \A q \in Handlers \ {r} : stage'[q] = stage[q] /\ who'[q] = who[q]
      BY <1>8, <1>40 DEF DeleteCodes, Reach, local, history
    <2> QED
      BY <2>1, <1>51
  <1>9. ASSUME NEW r \in Handlers, DeleteClientRow(r)
       PROVE  LastKept'
    <2>1. /\ stage[r] # "mailing" /\ latest' = latest /\ column' = column /\ excused' = excused
          /\ uses' = uses /\ \A q \in Handlers \ {r} : stage'[q] = stage[q] /\ who'[q] = who[q]
      BY <1>9, <1>40 DEF DeleteClientRow, Reach, Finish, local, history
    <2> QED
      BY <2>1, <1>51
  <1>10. ASSUME NEW r \in Handlers, VerifyEmail(r)
       PROVE  LastKept'
    <2>1. Spending(r) /\ "mail" \in Slots /\ latest' = latest /\ Empty(r, "mail") /\ Finish(r)
          /\ uses' = [uses EXCEPT ![secret[r]] = @ + 1]
      BY <1>10 DEF VerifyEmail, Answer, Spending, Slots
    <2> QED
      BY <2>1, <1>53
  <1>11. ASSUME NEW r \in Handlers, ResetPassword(r)
       PROVE  LastKept'
    <2>1. Spending(r) /\ "mail" \in Slots /\ latest' = latest /\ Empty(r, "mail") /\ Finish(r)
          /\ uses' = [uses EXCEPT ![secret[r]] = @ + 1]
      BY <1>11 DEF ResetPassword, Answer, Spending, Slots
    <2> QED
      BY <2>1, <1>53
  <1>12. ASSUME NEW r \in Handlers, StorePasskey(r)
       PROVE  LastKept'
    <2>1. /\ stage[r] # "mailing" /\ latest' = latest /\ column' = column /\ excused' = excused
          /\ uses' = uses /\ \A q \in Handlers \ {r} : stage'[q] = stage[q] /\ who'[q] = who[q]
      BY <1>12, <1>40 DEF StorePasskey, Reach, Finish, local, history
    <2> QED
      BY <2>1, <1>51
  <1>13. ASSUME NEW r \in Handlers, UpdateCounter(r)
       PROVE  LastKept'
    <2>1. /\ stage[r] # "mailing" /\ latest' = latest /\ column' = column /\ excused' = excused
          /\ uses' = uses /\ \A q \in Handlers \ {r} : stage'[q] = stage[q] /\ who'[q] = who[q]
      BY <1>13, <1>40 DEF UpdateCounter, Reach, Finish, local, history
    <2> QED
      BY <2>1, <1>51
  <1>14. ASSUME NEW r \in Handlers, ClearChallenge(r)
       PROVE  LastKept'
    <2>1. Spending(r) /\ "challenge" \in Slots /\ latest' = latest /\ Empty(r, "challenge")
          /\ Finish(r)
          /\ uses' = [uses EXCEPT ![secret[r]] = @ + 1]
      BY <1>14 DEF ClearChallenge, Answer, Spending, Slots
    <2> QED
      BY <2>1, <1>53
  <1>15. ASSUME NEW r \in Handlers, MarkCodeUsed(r)
       PROVE  LastKept'
    <2>1. /\ stage[r] # "mailing" /\ latest' = latest /\ column' = column /\ excused' = excused
          /\ \A q \in Handlers \ {r} : stage'[q] = stage[q] /\ who'[q] = who[q]
      BY <1>15, <1>40 DEF MarkCodeUsed, Answer, Finish, Reach
    <2>2. uses' = uses \/ uses' = [uses EXCEPT ![secret[r]] = @ + 1]
      BY <1>15 DEF MarkCodeUsed, Answer
    <2>3. \A s \in Secrets : uses[s] > 0 => uses'[s] > 0
      BY <1>40, <2>2
    <2> QED
      BY <2>1, <2>3, <1>51
  <1>16. ASSUME NEW r \in Handlers, Break(r)
       PROVE  LastKept'
    <2>1. /\ latest' = latest /\ column' = column /\ uses' = uses /\ excused \subseteq excused'
          /\ stage[r] = "mailing" => <<"mail", who[r]>> \in excused'
          /\ \A q \in Handlers \ {r} : stage'[q] = stage[q] /\ who'[q] = who[q]
      BY <1>16, <1>40 DEF Break, Finish, Reach
    <2> SUFFICES ASSUME NEW slot \in Slots, NEW u \in People PROVE Kept(slot, u)'
      BY DEF LastKept
    <2>2. CASE slot = "mail" /\ stage[r] = "mailing" /\ who[r] = u
      BY <2>1, <2>2 DEF Kept
    <2>3. CASE ~(slot = "mail" /\ stage[r] = "mailing" /\ who[r] = u)
      BY <1>50, <2>1, <2>3
    <2> QED
      BY <2>2, <2>3
  <1>17. ASSUME NEW r \in Handlers, NEW u \in People, Register(r, u)
       PROVE  LastKept'
    <2>1. /\ stage[r] # "mailing" /\ latest' = latest /\ column' = column /\ excused' = excused
          /\ uses' = uses /\ \A q \in Handlers \ {r} : stage'[q] = stage[q] /\ who'[q] = who[q]
      BY <1>17, <1>40 DEF Register, Start, Reach, local, history
    <2> QED
      BY <2>1, <1>51
  <1>18. ASSUME NEW r \in Handlers, NEW u \in People, ForgotPassword(r, u)
       PROVE  LastKept'
    <2>1. /\ stage[r] # "mailing" /\ latest' = latest /\ column' = column /\ excused' = excused
          /\ uses' = uses /\ \A q \in Handlers \ {r} : stage'[q] = stage[q] /\ who'[q] = who[q]
      BY <1>18, <1>40 DEF ForgotPassword, Start, Reach, local, history
    <2> QED
      BY <2>1, <1>51
  <1>19. ASSUME NEW r \in Handlers, NEW c \in Clients, ApproveConsent(r, c)
       PROVE  LastKept'
    <2>1. /\ stage[r] # "mailing" /\ latest' = latest /\ column' = column /\ excused' = excused
          /\ uses' = uses /\ \A q \in Handlers \ {r} : stage'[q] = stage[q] /\ who'[q] = who[q]
      BY <1>19, <1>40 DEF ApproveConsent, Start, Reach, local, history
    <2> QED
      BY <2>1, <1>51
  <1>20. ASSUME NEW r \in Handlers, NEW c \in Clients, DeleteClient(r, c)
       PROVE  LastKept'
    <2>1. /\ stage[r] # "mailing" /\ latest' = latest /\ column' = column /\ excused' = excused
          /\ uses' = uses /\ \A q \in Handlers \ {r} : stage'[q] = stage[q] /\ who'[q] = who[q]
      BY <1>20, <1>40 DEF DeleteClient, Start, Reach, local, history
    <2> QED
      BY <2>1, <1>51
  <1>21. ASSUME NEW r \in Handlers, NEW s \in Secrets, NEW p \in Secrets \cup {NoSecret},
                Present(r, s, p)
       PROVE  LastKept'
    <2>1. /\ stage[r] # "mailing" /\ latest' = latest /\ column' = column /\ excused' = excused
          /\ uses' = uses /\ \A q \in Handlers \ {r} : stage'[q] = stage[q] /\ who'[q] = who[q]
      BY <1>21, <1>40 DEF Present, Start, Reach, local, history
    <2> QED
      BY <2>1, <1>51
  <1>22. ASSUME NEW u \in People, NEW k \in {"create", "get"}, GenerateOptions(u, k)
       PROVE  LastKept'
    <2>1. /\ column' = [column EXCEPT !["challenge"][u] = issued'] /\ uses' = uses
          /\ latest' = [latest EXCEPT !["challenge"][u] = issued'] /\ "challenge" \in Slots
          /\ excused' = IF column'["challenge"][u] = issued' THEN excused \ {<<"challenge", u>>}
                        ELSE excused \cup {<<"challenge", u>>}
          /\ stage' = stage /\ who' = who
      BY <1>22 DEF GenerateOptions, Deliver, Slots, local
    <2> SUFFICES ASSUME NEW slot \in Slots, NEW v \in People PROVE Kept(slot, v)'
      BY DEF LastKept
    <2>4. CASE slot = "challenge" /\ v = u
      <3>1. latest'[slot][v] = issued' /\ column'[slot][v] = issued'
        BY <1>40, <2>1, <2>4
      <3> QED
        BY <3>1 DEF Kept
    <2>5. CASE ~(slot = "challenge" /\ v = u)
      <3>1. latest'[slot][v] = latest[slot][v] /\ column'[slot][v] = column[slot][v]
        BY <1>40, <2>1, <2>5
      <3>2. <<slot, v>> \in excused => <<slot, v>> \in excused'
        BY <2>1, <2>5
      <3> QED
        BY <1>50, <2>1, <3>1, <3>2
    <2> QED
      BY <2>4, <2>5
  <1>23. ASSUME NEW u \in People, UpdateUser(u)
       PROVE  LastKept'
    BY <1>23, <1>52 DEF UpdateUser, local, history
  <1>24. ASSUME NEW u \in People, AssignRole(u)
       PROVE  LastKept'
    BY <1>24, <1>52 DEF AssignRole, local, history
  <1>25. ASSUME NEW u \in People, RemoveRole(u)
       PROVE  LastKept'
    BY <1>25, <1>52 DEF RemoveRole, local, history
  <1>26. ASSUME NEW s \in Secrets, DeletePasskey(s)
       PROVE  LastKept'
    BY <1>26, <1>52 DEF DeletePasskey, local, history
  <1>27. ASSUME NEW s \in Secrets, CodeExpires(s)
       PROVE  LastKept'
    BY <1>27, <1>52 DEF CodeExpires, local, history
  <1>28. ASSUME NEW c \in Clients, RegisterClient(c)
       PROVE  LastKept'
    BY <1>28, <1>52 DEF RegisterClient, local, history
  <1>29. ASSUME NEW n \in Roles, UpdateRole(n)
       PROVE  LastKept'
    BY <1>29, <1>52 DEF UpdateRole, local, history
  <1> QED
    BY <1>1, <1>2, <1>3, <1>4, <1>5, <1>6, <1>7, <1>8, <1>9, <1>10, <1>11, <1>12, <1>13,
       <1>14, <1>15, <1>16, <1>17, <1>18, <1>19, <1>20, <1>21, <1>22, <1>23, <1>24, <1>25,
       <1>26, <1>27, <1>28, <1>29 DEF AccNext, Handle

\* The types together, and what is known of secrets.
LEMMA TypesStep ==
    ASSUME AccInv, AccNext
    PROVE  AccTypes' /\ SecretsKnown' /\ HaveAccounts'
  <1>1. AccTypes'
    BY Grows, RowTypes, SecretTypes, LocalTypes, SetTypes, ColumnTypes, HistoryTypes
       DEF AccTypes, AccTypeOK, RowsTyped, SecretsTyped, LocalsTyped, SetsMade, ColumnsMade,
           HistoriesTyped
  <1>2. SecretsKnown'
    BY OwnersStep, NewUnused, ColumnsStep DEF SecretsKnown, OwnersFit, UnmadeUnused, ColumnsFit
  <1>3. HaveAccounts'
    BY CallersHaveAccounts, OwnersHaveAccounts DEF HaveAccounts, CallersHave, OwnersHave
  <1> QED
    BY <1>1, <1>2, <1>3

\* The initial state satisfies AccInv.
LEMMA AccInitInv == ASSUME AccInit PROVE AccInv
  <1> USE DEF AccInit, NoSecret, NoRole
  <1>1. AccTypes
    <2>1. MaxSecrets \in Nat /\ MaxRoles \in Nat \ {0}
      BY AccountsAssumption
    <2>2. /\ column \in [Slots -> [People -> 0 .. issued]]
          /\ latest \in [Slots -> [People -> 0 .. issued]]
          /\ issued \in 0 .. MaxSecrets /\ uses \in [Secrets -> Nat]
      BY <2>1
    <2>3. /\ account \in [People -> {"none", "unverified", "verified"}]
          /\ roleName \in [Roles -> {"none", "admin", "other"}]
          /\ client \in [Clients -> {"none", "live", "gone"}]
          /\ kind \in [Secrets -> Kinds] /\ owner \in [Secrets -> People \cup Clients \cup {None}]
      BY DEF Kinds
    <2>4. /\ stage \in [Handlers -> {"idle"}]
          /\ who \in [Handlers -> People \cup Clients \cup {None}]
          /\ secret \in [Handlers -> 0 .. issued] /\ role \in [Handlers -> Roles \cup {NoRole}]
          /\ first \in [Handlers -> BOOLEAN] /\ key \in [Handlers -> Nat]
      OBVIOUS
    <2>5. /\ holds = {} /\ passkeys = {} /\ codes = {} /\ used = {} /\ aged = {} /\ delivered = {}
          /\ overlapped = {} /\ excused = {} /\ removed \in BOOLEAN
      OBVIOUS
    <2>6. stage \in [Handlers -> {"idle", "registering", "counting", "creating", "created",
              "mailing",
                               "forgotten", "approving", "withdrawing", "withdrawn",
                               "accepted", "stored"}]
      BY <2>4
    <2> HIDE DEF AccInit
    <2> QED
      BY <2>2, <2>3, <2>4, <2>5, <2>6 DEF AccTypes, AccTypeOK
  <1>2. CallsKnow /\ SecretsKnown /\ HaveAccounts
    BY AccountsAssumption DEF CallsKnow, SecretsKnown, HaveAccounts, Spending, Slots
  <1>3. FirstRegistration /\ AdminExists
    BY DEF FirstRegistration, AdminExists, Accounts
  <1>4. UsedIsSpent /\ OneSpends /\ SecretsUsedOnce
    BY DEF UsedIsSpent, OneSpends, SecretsUsedOnce, Spending
  <1>5. LastKept
    BY DEF LastKept, Kept
  <1> QED
    BY <1>1, <1>2, <1>3, <1>4, <1>5 DEF AccInv

\* Nothing that AccInv speaks of changes when no variable does.
LEMMA AccStutterInv == ASSUME AccInv, UNCHANGED accVars PROVE AccInv'
  <1> USE DEF accVars, identity, oauth, secrets, local, history, bounds
  <1>1. AccTypes'
    BY DEF AccInv, AccTypes, AccTypeOK
  <1>2. CallsKnow' /\ SecretsKnown' /\ HaveAccounts'
    BY DEF AccInv, CallsKnow, SecretsKnown, HaveAccounts, Spending
  <1>3. FirstRegistration' /\ AdminExists'
    BY DEF AccInv, FirstRegistration, AdminExists, Accounts, Admins
  <1>4. UsedIsSpent' /\ OneSpends' /\ SecretsUsedOnce'
    BY DEF AccInv, UsedIsSpent, OneSpends, SecretsUsedOnce, Spending, Spent
  <1>5. LastKept'
    BY DEF AccInv, LastKept, Kept
  <1> QED
    BY <1>1, <1>2, <1>3, <1>4, <1>5 DEF AccInv

\* AccInv holds throughout.
LEMMA AccInvStep == AccInv /\ [AccNext]_accVars => AccInv'
  <1> SUFFICES ASSUME AccInv, [AccNext]_accVars PROVE AccInv'
    OBVIOUS
  <1>1. CASE AccNext
    BY <1>1, TypesStep, CallsStep, FirstStep, AdminStep, SpentStep, OneSpendsStep, OnceStep,
       LastStep
       DEF AccInv
  <1>2. CASE UNCHANGED accVars
    BY <1>2, AccStutterInv
  <1> QED
    BY <1>1, <1>2

\* LastSecretWorks counts any call about the user, LastKept the mail alone.
LEMMA KeptWorks == AccInv => LastSecretWorks
  BY DEF AccInv, LastKept, Kept, LastSecretWorks

\* The variables of Accounts hold what the columns can hold.
THEOREM AccountsTypes == AccSpec => []AccTypeOK
  <1>1. AccInit => AccInv
    BY AccInitInv
  <1>2. AccInv /\ [AccNext]_accVars => AccInv'
    BY AccInvStep
  <1>3. AccInv => AccTypeOK
    BY DEF AccInv, AccTypes
  <1> QED
    BY <1>1, <1>2, <1>3, PTL DEF AccSpec

\* register: when there are accounts one of them is an administrator's, unless an
\* administrator took the role away or renamed it.
THEOREM AccountsAdminExists == AccSpec => []AdminExists
  <1>1. AccInit => AccInv
    BY AccInitInv
  <1>2. AccInv /\ [AccNext]_accVars => AccInv'
    BY AccInvStep
  <1>3. AccInv => AdminExists
    BY DEF AccInv
  <1> QED
    BY <1>1, <1>2, <1>3, PTL DEF AccSpec

\* verifyEmail, resetPassword, the verifications of passkeys and token: a secret
\* is good once, unless two calls had read it before either spent it.
THEOREM AccountsSecretsUsedOnce == AccSpec => []SecretsUsedOnce
  <1>1. AccInit => AccInv
    BY AccInitInv
  <1>2. AccInv /\ [AccNext]_accVars => AccInv'
    BY AccInvStep
  <1>3. AccInv => SecretsUsedOnce
    BY DEF AccInv
  <1> QED
    BY <1>1, <1>2, <1>3, PTL DEF AccSpec

\* The last secret that reached a user works until it is used, or lost in a way
\* the history records.
THEOREM AccountsLastSecretWorks == AccSpec => []LastSecretWorks
  <1>1. AccInit => AccInv
    BY AccInitInv
  <1>2. AccInv /\ [AccNext]_accVars => AccInv'
    BY AccInvStep
  <1>3. AccInv => LastSecretWorks
    BY KeptWorks
  <1> QED
    BY <1>1, <1>2, <1>3, PTL DEF AccSpec
=============================================================================
