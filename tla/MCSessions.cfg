CONSTANTS
    u1 = u1
    b1 = b1
    t1 = t1
    t2 = t2
    r1 = r1
    Users = {u1}
    Browsers = {b1}
    Tabs = {t1, t2}
    Requests = {r1, r2}
    UserOf <- UserOfDef
    BrowserOf <- BrowserOfDef
    TabOf <- TabOfDef
    TotpUsers = {u1}
    MaxCalls = 3
    MaxResets = 1
    MaxFaults = 1
    None = None
SPECIFICATION FairSpec
INVARIANTS OneSessionPerToken  StaysSignedIn
PROPERTIES EveryCallSettles
CHECK_DEADLOCK FALSE
