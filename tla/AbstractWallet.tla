--------------------------- MODULE AbstractWallet ---------------------------
(***************************************************************************)
(* What the wallet promises its callers (vouchers, referrals, renewals,    *)
(* hourly billing, refunds): a credit or a debit is one indivisible step,  *)
(* happens at most once for each call, and a debit happens only when the   *)
(* balance covers it.                                                      *)
(***************************************************************************)
EXTENDS Integers

CONSTANTS Users,     \* the owners of wallets
          Requests,  \* the calls of credit and debit
          Amounts    \* the amounts, in cents, that callers pass

VARIABLES balance,   \* [Users -> Int]
          entry      \* [Requests -> Users \X Int or <<>>]: the ledger

vars == <<balance, entry>>

NoEntry == <<>>

Init ==
    /\ balance = [u \in Users |-> 0]
    /\ entry = [r \in Requests |-> NoEntry]

Post(r, u, delta) ==
    /\ entry[r] = NoEntry
    /\ entry' = [entry EXCEPT ![r] = <<u, delta>>]
    /\ balance' = [balance EXCEPT ![u] = @ + delta]

Credit(r, u, a) == a > 0 /\ Post(r, u, a)

Debit(r, u, a) == a > 0 /\ balance[u] >= a /\ Post(r, u, -a)

Next ==
    \E r \in Requests, u \in Users, a \in Amounts :
        Credit(r, u, a) \/ Debit(r, u, a)

Spec == Init /\ [][Next]_vars
=============================================================================
