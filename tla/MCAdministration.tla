-------------------------- MODULE MCAdministration --------------------------
EXTENDS Administration

HasName == Unique \cup {"category", "template"}

\* The rows of present are there, each named by its place among those of its
\* table.
Scene(tables, present, refs, n, s, w) ==
    [table |-> [x \in Rows |-> tables[x]],
     live  |-> present,
     name  |-> [x \in Rows |-> IF x \in present /\ tables[x] \in HasName
                               THEN Cardinality({y \in 1..x : tables[y] = tables[x]})
                               ELSE 0],
     link  |-> refs, calls |-> n, saves |-> s, walks |-> w,
     visits |-> 0, changes |-> 0, opens |-> 0]

MCRows == 1..5
MCNames == 1..3

Empty == Scene(<<"vm", "vm", "vm", "vm", "vm">>, {}, {}, 0, 0, 0)

MCScenes == {
    Scene(<<"category", "category", "plan", "plan", "template">>, {1, 3, 5},
          {<<3, 1>>, <<3, 5>>}, 3, 0, 0),
    Scene(<<"plan", "coupon", "coupon", "subscription", "vm">>, {1, 2, 5},
          {<<2, 1>>}, 3, 0, 0),
    Scene(<<"package", "package", "purchase", "voucher", "voucher">>, {1, 3, 4},
          {<<3, 1>>}, 3, 0, 0),
    Scene(<<"user", "referralCode", "referralCode", "profile", "profile">>, {1},
          {}, 3, 0, 0),
    Scene(<<"user", "preference", "preference", "notification", "notification">>, {1},
          {}, 3, 0, 0),
    Scene(<<"location", "location", "node", "node", "vm">>, {1, 3}, {<<3, 1>>}, 3, 0, 0),
    Scene(<<"ipPool", "ipPool", "address", "address", "vm">>, {1, 3, 5},
          {<<3, 1>>}, 3, 0, 0),
    Scene(<<"role", "role", "role", "user", "userRole">>, {1, 2, 4}, {}, 3, 0, 0),
    Scene(<<"role", "permission", "grant", "grant", "role">>, {1, 2}, {}, 3, 0, 0),
    Scene(<<"ticket", "message", "message", "attachment", "ticket">>, {1, 2},
          {<<2, 1>>}, 3, 0, 0),
    Scene(<<"topic", "topic", "article", "article", "article">>, {1, 3}, {<<3, 1>>}, 3, 0, 0),
    Scene(<<"user", "sshKey", "sshKey", "apiKey", "apiKey">>, {1, 2, 4},
          {<<2, 1>>, <<4, 1>>}, 3, 0, 0),
    Scene(<<"vm", "user", "subuser", "subuser", "user">>, {1, 2, 5}, {}, 3, 0, 0),
    Scene(<<"user", "user", "notification", "notification", "notification">>, {1, 2, 3},
          {<<3, 1>>}, 3, 0, 0),
    Scene(<<"template", "template", "template", "template", "vm">>, {1, 2, 3, 5},
          {<<5, 2>>}, 2, 0, 1),
    Scene(<<"vm", "vm", "vm", "vm", "vm">>, {1, 2, 3}, {}, 2, 0, 1),
    Scene(<<"voucher", "voucher", "voucher", "voucher", "redemption">>, {1, 2, 3, 5},
          {<<5, 1>>}, 2, 0, 1),
    Scene(<<"auditLog", "auditLog", "transaction", "transaction", "user">>, {1, 3, 5},
          {}, 2, 0, 1),
    Scene(<<"user", "user", "user", "user", "user">>, {}, {}, 0, 3, 0),
    [Empty EXCEPT !.visits = 1, !.changes = 2],
    [Empty EXCEPT !.opens = 2]}

MCForms == {<<"host", "token">>, <<"token">>, <<"price", "host">>, <<"price">>}
=============================================================================
