------------------------------- MODULE Lists -------------------------------
(***************************************************************************)
(* A page of the web client that goes through a list of the server, page   *)
(* by page.  The server answers a page with two statements, in any order:  *)
(* the rows of the page and the number of rows there are, from which the   *)
(* client knows whether there is a next page.                              *)
(***************************************************************************)
EXTENDS Tables

CONSTANT Limit       \* rows of a page
ASSUME LimitAssumption == Limit \in Nat \ {0}

VARIABLES
    listing,    \* the table, the filter, what is read of the page
    page, total, shown,
    atStart,    \* history: the rows there were when the first page was asked for
    disturbed,  \*   the order of the rows before the reader's changed
    walks       \* bound: lists that may be opened

listVars == <<listing, page, total, shown, atStart, disturbed, walks>>

Closed == [table |-> "none", active |-> FALSE, done |-> {"count", "rows"}]
InitLists(s) ==
    /\ listing = Closed /\ page = 0 /\ total = 0 /\ shown = {}
    /\ atStart = {} /\ disturbed = FALSE /\ walks = s.walks

Listed == {x \in Live(listing.table) : listing.active => x \notin off}
CreatedAt(x) == CHOOSE i \in DOMAIN made : made[i] = x
\* Templates by name; the others by createdAt, the newest first.
Before(x, y) ==
    IF listing.table = "template"
    THEN name[x] < name[y] \/ (name[x] = name[y] /\ CreatedAt(x) < CreatedAt(y))
    ELSE CreatedAt(x) > CreatedAt(y)
Position(x) == Cardinality({y \in Listed : Before(y, x)})

ReadFrom(t, active) ==
    /\ listing = Closed /\ walks > 0 /\ walks' = walks - 1 /\ Live(t) # {}
    /\ listing' = [table |-> t, active |-> active, done |-> {}]
    /\ atStart' = {x \in Live(t) : active => x \notin off}
    /\ page' = 1 /\ total' = 0 /\ shown' = {} /\ disturbed' = FALSE
ListUsers == ReadFrom("user", FALSE)
ListAllVms == ReadFrom("vm", FALSE)
ListTemplates == ReadFrom("template", FALSE)
ListVouchers == \E a \in BOOLEAN : ReadFrom("voucher", a)
ListTransactions == ReadFrom("transaction", FALSE)
GetAuditLogs == ReadFrom("auditLog", FALSE)
GetActivities == ReadFrom("auditLog", FALSE)   \* those of one VM
OpenList ==
    \/ ListUsers \/ ListAllVms \/ ListTemplates \/ ListVouchers
    \/ ListTransactions \/ GetAuditLogs \/ GetActivities

Read(what) ==
    /\ what \notin listing.done
    /\ listing' = [listing EXCEPT !.done = @ \cup {what}]
CountRows ==
    /\ Read("count") /\ total' = Cardinality(Listed)
    /\ UNCHANGED <<page, shown, atStart, disturbed, walks>>
\* Mutant: the page is counted from 1.
SkipPage == page * Limit
Skip == (page - 1) * Limit
FindRows ==
    /\ Read("rows")
    /\ shown' = shown \cup {x \in Listed : Position(x) \in Skip..(Skip + Limit - 1)}
    /\ UNCHANGED <<page, total, atStart, disturbed, walks>>

TotalPages == (total + Limit - 1) \div Limit
Answered == listing # Closed /\ listing.done = {"count", "rows"}
\* Next is disabled on the last page.
NextPage ==
    /\ Answered /\ page < TotalPages
    /\ page' = page + 1 /\ listing' = [listing EXCEPT !.done = {}]
    /\ UNCHANGED <<total, shown, atStart, disturbed, walks>>
Leave ==
    /\ Answered /\ page >= TotalPages
    /\ listing' = Closed /\ page' = 0 /\ total' = 0 /\ shown' = {} /\ atStart' = {}
    /\ disturbed' = FALSE
    /\ UNCHANGED walks

ListsNext == OpenList \/ CountRows \/ FindRows \/ NextPage \/ Leave

\* What a write of another call does to a reader: a row that leaves the list
\* moves those behind it to an earlier page, and so does a new name; a new row
\* between the count and the rows moves one to a page not counted.
Moved == \E x, y \in Listed \cap Listed' : Before(x, y) # Before(x, y)'
Disturbs ==
    /\ listing # Closed
    /\ \/ Listed \ Listed' # {} \/ Moved
       \/ listing.done = {"count"} /\ Listed' # Listed
Disturb ==
    /\ UNCHANGED <<listing, page, total, shown, atStart, walks>>
    /\ disturbed' = (disturbed \/ Disturbs)

\* A reader who goes through all pages sees every row that was there all the
\* while, whatever is created meanwhile.
PagesMissNothing ==
    Answered /\ page >= TotalPages /\ ~disturbed =>
        atStart \cap Listed \subseteq shown
=============================================================================
