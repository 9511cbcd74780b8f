---------------------------- MODULE MCPurchases ----------------------------
EXTENDS Purchases

KindDef == [i \in Items |-> i]   \* an item of each kind, named for it
LimitDef == [i \in Items |-> IF i = "plan_trial" THEN 0 ELSE 1]
AmountDef == [i \in Items |-> IF i \in Vouchers THEN 1 ELSE 0]
PriceDef == [i \in Items |-> IF i = "plan_coupon" THEN 3
                             ELSE IF i \in Checked \cup {"addon"} THEN 1 ELSE 0]
CONSTANTS u1, u3, c1
AsksDef == [user : Users \ {u3}, item : Items]   \* u3 may own a code
Contested == {"credits", "plan_coupon", "referral", "package"}   \* what both calls may want
AsksOfDef == [c \in Orders |->
    IF c = c1 THEN {a \in AsksDef : a.user = u1 /\ a.item \in Contested} ELSE AsksDef]
RewardsDef == {[referrer |-> 1, referee |-> 1], [referrer |-> 1, referee |-> 0]}
=============================================================================
