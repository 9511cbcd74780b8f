CONSTANTS
    Users = {u1, u2, u3}
    Items = {"credits", "plan_trial", "plan_coupon", "referral", "package", "coupon", "addon"}
    Orders = {c1, c2}
    Kind <- KindDef
    Limit <- LimitDef
    Amount <- AmountDef
    Price <- PriceDef
    Asks <- AsksDef
    AsksOf <- AsksOfDef
    Rewards <- RewardsDef
    Balances = {2}
    Connections = 2
    MaxFaults = 1
    None = None
    u1 = u1
    u3 = u3
    c1 = c1
SPECIFICATION PurFairSpec
INVARIANTS LimitsHold 
PROPERTIES EveryCallEnds
CHECK_DEADLOCK FALSE
