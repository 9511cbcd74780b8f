------------------------------ MODULE MCWallet ------------------------------
EXTENDS Wallet

CONSTANTS u1, u2

\* An amount to cover exactly and one to overdraw with, an invalid one, and a
\* getOrCreateWallet, which takes none.
MCCalls ==
    [op : {"credit", "debit"}, user : Users, amount : {1, 2}]
        \cup [op : {"credit"}, user : {u1}, amount : {0}]
        \cup [op : {"get"}, user : {u1}, amount : {0}]
=============================================================================
