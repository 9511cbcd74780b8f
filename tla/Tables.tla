------------------------------- MODULE Tables -------------------------------
(***************************************************************************)
(* A few rows of the database and the calls that write them, for the       *)
(* services whose handlers are alike: check what was read, then write in   *)
(* one transaction what the check allowed.  Between the two other calls    *)
(* write; PostgreSQL has the last word, with its foreign keys and unique   *)
(* indexes.  What the reads before the transaction saw is one step: only   *)
(* the last of them is closer to the write, and a row that is gone by then *)
(* fails the write as well.                                                *)
(*                                                                         *)
(* A scene says in which table each row is, or will be when it is created. *)
(***************************************************************************)
EXTENDS Naturals, Sequences, FiniteSets

CONSTANTS
    Rows,      \* some natural numbers
    Scenes,    \* see SceneOK
    Names,     \* the values of a name, a code, a slug or an address; 0 is none
    Requests   \* calls that may be under way at the same time

SceneOK(s) ==
    /\ DOMAIN s.table = Rows /\ s.live \subseteq Rows
    /\ s.name \in [Rows -> Names \cup {0}]
    /\ s.link \subseteq s.live \X s.live
    /\ {s.calls, s.saves, s.walks, s.visits, s.opens, s.changes} \subseteq Nat   \* bounds of the exploration

ASSUME TablesAssumption ==
    /\ Rows \subseteq Nat /\ IsFiniteSet(Rows)
    /\ Names \subseteq Nat /\ 0 \notin Names
    /\ \A s \in Scenes : SceneOK(s)

VARIABLES
    tableOf,   \* never changes
    live,      \* the rows
    made,      \* the rows in the order of createdAt, deleted ones among them
    off,       \* isActive is false, deletedAt is set, closed, read
    name,
    link,      \* <<child, parent>>: a column of child names parent
    pc, op,    \* requests
    items,     \*   the rows to write
    to,        \*   the references to write
    word,      \*   the name to write
    calls,     \* how many more may begin
    sawOff,    \* history: off, when the request checked
    knew,      \*   the rows of its table when a row's creation checked
    renamed,   \*   rows given a name by an update
    torn       \*   references a deletion cut though they were there at its check

rows == <<live, made, off, name, link>>
requests == <<pc, op, items, to, word>>
history == <<sawOff, knew, renamed, torn>>
tableVars == <<tableOf, rows, requests, calls, history>>

InitTables(s) ==
    /\ tableOf = s.table /\ live = s.live /\ name = s.name /\ link = s.link
    /\ made = [i \in 1..Cardinality(s.live) |->
                  CHOOSE x \in s.live : Cardinality({y \in s.live : y <= x}) = i]
    /\ off = {}
    /\ pc = [r \in Requests |-> "idle"] /\ op = [r \in Requests |-> "none"]
    /\ items = [r \in Requests |-> {}] /\ to = [r \in Requests |-> {}]
    /\ word = [r \in Requests |-> 0]
    /\ calls = s.calls
    /\ sawOff = [r \in Requests |-> {}]
    /\ knew = [x \in Rows |-> {}] /\ renamed = {} /\ torn = {}

(***************************************************************************)
(* The schema                                                              *)
(***************************************************************************)
\* <<child, parent>>: references that a child cannot be without; the deletion
\* of the parent is refused.
Required == {
    <<"coupon", "plan">>, <<"subscription", "plan">>, <<"grant", "role">>,
    <<"grant", "permission">>, <<"userRole", "role">>, <<"purchase", "package">>,
    <<"redemption", "voucher">>, <<"address", "ipPool">>, <<"article", "topic">>,
    <<"message", "ticket">>, <<"attachment", "message">>, <<"subuser", "vm">>,
    <<"subuser", "user">>, <<"userRole", "user">>, <<"sshKey", "user">>,
    <<"apiKey", "user">>, <<"notification", "user">>, <<"profile", "user">>,
    <<"preference", "user">>, <<"referralCode", "user">>}

\* The others become null with the deletion of the parent.
Optional == {
    <<"plan", "category">>, <<"plan", "template">>, <<"node", "location">>,
    <<"vm", "node">>, <<"vm", "template">>, <<"subscription", "coupon">>,
    <<"subscription", "vm">>, <<"address", "vm">>}

\* Tables with a unique name, code, slug or address.
Unique == {"role", "node", "voucher", "coupon", "article", "topic", "address",
           "referralCode"}
\* Tables with one row for the rows it refers to.
OneFor == {"grant", "userRole", "subuser", "profile", "preference", "referralCode"}

Targets(x, refs) == {e[2] : e \in {f \in refs : f[1] = x}}

\* The database satisfies its constraints when a scene begins.
ASSUME SchemaAssumption ==
    \A s \in Scenes :
        /\ \A e \in s.link : <<s.table[e[1]], s.table[e[2]]>> \in Required \cup Optional
        /\ \A x \in s.live : \A t \in Required : t[1] = s.table[x] =>
              \E p \in Targets(x, s.link) : s.table[p] = t[2]
        /\ \A x \in Rows \ s.live : s.name[x] = 0
        /\ \A x, y \in s.live : x # y /\ s.table[x] = s.table[y] =>
              /\ s.table[x] \in Unique /\ s.name[x] # 0 => s.name[x] # s.name[y]
              /\ s.table[x] \in OneFor => Targets(x, s.link) # Targets(y, s.link)

Live(t) == {x \in live : tableOf[x] = t}
Children(x) == {y \in live : <<y, x>> \in link}
Needing(x) == {y \in Children(x) : <<tableOf[y], tableOf[x]>> \in Required}
Taken(t, w) == \E x \in Live(t) : name[x] = w

(***************************************************************************)
(* A handler checks ...                                                    *)
(***************************************************************************)
Begin(r, what, xs, refs, w) ==
    /\ pc[r] = "idle" /\ calls > 0
    /\ calls' = calls - 1
    /\ pc' = [pc EXCEPT ![r] = "checked"] /\ op' = [op EXCEPT ![r] = what]
    /\ items' = [items EXCEPT ![r] = xs] /\ to' = [to EXCEPT ![r] = refs]
    /\ word' = [word EXCEPT ![r] = w]
    /\ sawOff' = [sawOff EXCEPT ![r] = off]
    /\ knew' = [x \in Rows |-> IF what = "create" /\ x \in xs THEN Live(tableOf[x])
                               ELSE knew[x]]
    /\ UNCHANGED <<tableOf, rows, renamed, torn>>

\* Rows of t that no call has created or is about to create.
New(t) == {x \in Rows : /\ tableOf[x] = t
                        /\ \A i \in DOMAIN made : made[i] # x
                        /\ \A r \in Requests : x \notin items[r]}
NextNew(t) == {x \in New(t) : \A y \in New(t) : x <= y}

\* References from a row to at most one live row of each of the tables.
Choices(ts) == {ps \in SUBSET {p \in live : tableOf[p] \in ts} :
                   \A p, q \in ps : tableOf[p] = tableOf[q] => p = q}

Create(r, t, ps, w) == \E x \in NextNew(t) : Begin(r, "create", {x}, {x} \X ps, w)
Change(r, x, ps, w) == Begin(r, "update", {x}, {x} \X ps, w)
Delete(r, x) == Begin(r, "delete", {x}, link, 0)
Close(r, x) == Begin(r, "close", {x}, {}, 0)
Open(r, x) == Begin(r, "open", {x}, {}, 0)
Switch(r, x) == Close(r, x) \/ Open(r, x)

(***************************************************************************)
(* ... and its repository writes.                                          *)
(***************************************************************************)
At(r, ts) == pc[r] = "checked" /\ \E x \in items[r] : tableOf[x] \in ts

\* The foreign keys and unique indexes; a row that is gone is not found.
Parents(r) == {e[2] : e \in to[r]}
Clash(r) ==
    \E x \in items[r] : \E y \in Live(tableOf[x]) \ {x} :
        \/ tableOf[x] \in Unique /\ word[r] # 0 /\ name[y] = word[r]
        \/ tableOf[x] \in OneFor /\ op[r] = "create" /\ Targets(x, to[r]) = Targets(y, link)
Possible(r) ==
    CASE op[r] \in {"create", "reply"} -> Parents(r) \subseteq live /\ ~Clash(r)
      [] op[r] = "update" -> items[r] \cup Parents(r) \subseteq live /\ ~Clash(r)
      [] op[r] = "delete" -> items[r] \subseteq live
                             /\ \A x \in items[r] : Needing(x) = {}
      [] OTHER -> items[r] \subseteq live

\* The call is over.
Return(r) ==
    /\ pc' = [pc EXCEPT ![r] = "idle"] /\ op' = [op EXCEPT ![r] = "none"]
    /\ items' = [items EXCEPT ![r] = {}] /\ to' = [to EXCEPT ![r] = {}]
    /\ word' = [word EXCEPT ![r] = 0]
    /\ sawOff' = [sawOff EXCEPT ![r] = {}]
    /\ UNCHANGED <<tableOf, calls>>

Write(r, what) == pc[r] = "checked" /\ op[r] = what /\ Possible(r) /\ Return(r)

Named(r) == [x \in Rows |-> IF x \in items[r] /\ word[r] # 0 THEN word[r] ELSE name[x]]

Add(r) ==
    /\ live' = live \cup items[r]
    /\ \E f \in [1..Cardinality(items[r]) -> items[r]] :
          /\ \A x \in items[r] : \E i \in DOMAIN f : f[i] = x
          /\ made' = made \o f
    /\ name' = Named(r) /\ link' = link \cup to[r]
    /\ UNCHANGED <<knew, renamed, torn>>
Insert(r) == Write(r, "create") /\ Add(r) /\ UNCHANGED off

\* The references given replace those to rows of the same tables.
Update(r) ==
    /\ Write(r, "update")
    /\ name' = Named(r)
    /\ link' = {e \in link : \A f \in to[r] : e[1] = f[1] => tableOf[e[2]] # tableOf[f[2]]}
               \cup to[r]
    /\ renamed' = renamed \cup {x \in items[r] : word[r] # 0}
    /\ UNCHANGED <<live, made, off, knew, torn>>

\* References that are not required become null.
Remove(r) ==
    /\ Write(r, "delete")
    /\ live' = live \ items[r] /\ off' = off \ items[r]
    /\ link' = {e \in link : e[1] \notin items[r] /\ e[2] \notin items[r]}
    /\ torn' = torn \cup {e \in link \cap to[r] : e[2] \in items[r]}
    /\ UNCHANGED <<made, name, knew, renamed>>

SetOff(r) ==
    /\ Write(r, "close")
    /\ off' = off \cup items[r]
    /\ UNCHANGED <<live, made, name, link, knew, renamed, torn>>
SetOn(r) ==
    /\ Write(r, "open")
    /\ off' = off \ items[r]
    /\ UNCHANGED <<live, made, name, link, knew, renamed, torn>>

\* The write fails and the transaction is rolled back.
Refused(r) ==
    /\ pc[r] = "checked" /\ ~Possible(r)
    /\ Return(r)
    /\ UNCHANGED <<rows, knew, renamed, torn>>
=============================================================================
