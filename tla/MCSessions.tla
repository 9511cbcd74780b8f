----------------------------- MODULE MCSessions -----------------------------
EXTENDS Sessions

CONSTANTS u1, b1, t1, t2, r1

UserOfDef == [b \in Browsers |-> u1]
BrowserOfDef == [t \in Tabs |-> b1]
TabOfDef == [r \in Requests |-> IF r # r1 THEN t2 ELSE t1]
=============================================================================
