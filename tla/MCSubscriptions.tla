-------------------------- MODULE MCSubscriptions --------------------------
EXTENDS Subscriptions

CONSTANTS u1, u2, r1, r2, s1, s2, s3

\* s1 exists at the start; s2 and s3 belong to a user who has no pool yet.
\* The renewals of s2 and s3 are free.
MCOwner == [s \in Subs |-> IF s = s1 THEN u1 ELSE u2]
MCDiscount == [s \in Subs |-> IF s = s1 THEN 0 ELSE 1]

MCPlans == {"small", "large"}
MCPrice == [p \in Plans |-> IF p = "small" THEN 1 ELSE 2]
MCCores == MCPrice
MCChanges == {<<"small", "large">>, <<"large", "small">>}

A(op, s, p) == [op |-> op, sub |-> s, plan |-> p, amount |-> 1]

\* Each pair of calls that can meet at one row, pool or wallet.
MCCallsOf ==
    [r \in Handlers |->
        IF r = r1 THEN {A("subscribe", s2, "small"), A("changePlan", s1, "large"),
                        A("cancel", s1, "small"), A("refund", s1, "small")}
        ELSE {A("subscribe", s3, "small"), A("topUp", s1, "small"),
              A("adminCancel", s1, "small"), A("refund", s1, "small")}]

\* What may happen to a subscription while two ticks deal with it.
OneSubCallsOf ==
    [r \in Handlers |-> {A("changePlan", s1, "large"), A("cancel", s1, "small"),
                         A("topUp", s1, "small")}]
=============================================================================
