------------------------------ MODULE Listings ------------------------------
(***************************************************************************)
(* Reading a list page by page while it changes.  Every list of the server *)
(* is cut by offset out of a live query, and a page's rows and the total   *)
(* it is answered with are two queries made at once.  Five lists stand for *)
(* all of them: the audit log, which only grows; the inbox, which its      *)
(* owner clears; and three that select rows by a status that changes: the  *)
(* open cases of a firm, the marketplace of approved professionals, and    *)
(* the queue of pending ones, which alone is read oldest first.  Rows are  *)
(* created at distinct times.  The client is external: it asks for one     *)
(* page after another while the answer says that there is a next.          *)
(***************************************************************************)
EXTENDS Naturals, FiniteSets

CONSTANTS
    MaxRows,   \* bound: rows ever created
    PageSize

ASSUME PagesAssumption == MaxRows \in Nat /\ PageSize \in Nat \ {0}

VARIABLES
    list,     \* which of the five is read
    listed,   \* the rows the query selects, numbered in order of creation
    created,  \* number of rows ever created
    page,     \* the call for the next page
    \* History variables.
    before,   \* rows listed when the walk began
    got,      \* rows received
    left,     \* a row left during the walk
    slid      \* between the two queries of a page a row came ahead of others

listVars == <<list, listed, created, page, before, got, left, slid>>

Selecting == {"cases", "market", "queue"}
Lists == {"log", "inbox"} \union Selecting

\* A page's two queries, and what the call holds of their results.
Queries == {"items", "total"}
Page ==
    [pc : {"idle", "over"}]
    \union [pc : {"asked"}, number : Nat \ {0}, answered : SUBSET Queries,
            items : SUBSET (1 .. MaxRows), total : 0 .. MaxRows]

\* The state is well typed.
ListTypeOK ==
    /\ list \in Lists
    /\ created \in 0 .. MaxRows /\ listed \subseteq 1 .. created
    /\ page \in Page /\ (page.pc = "asked" => page.items \subseteq 1 .. created)
    /\ before \subseteq 1 .. created /\ got \subseteq 1 .. created
    /\ left \in BOOLEAN /\ slid \in BOOLEAN

ListInit ==
    /\ list \in Lists
    /\ listed = {} /\ created = 0 /\ page = [pc |-> "idle"]
    /\ before = {} /\ got = {}
    /\ left = FALSE /\ slid = FALSE

Walking == page.pc = "asked"
Halfway == Walking /\ page.answered \notin {{}, Queries}

-----------------------------------------------------------------------------
(* How the lists change.                                                   *)

\* Row n comes into the list; ahead says that others are read after it.
Comes(n, ahead) ==
    /\ listed' = listed \union {n}
    /\ slid' = (slid \/ (Halfway /\ ahead))
    /\ UNCHANGED <<list, page, before, got, left>>

Goes(rows) ==
    /\ listed' = listed \ rows
    /\ left' = (left \/ Walking)
    /\ UNCHANGED <<list, created, page, before, got, slid>>

\* A row is created: an audit entry, a notification, a case, an application.
\* A new professional is pending, and not in the marketplace yet.
Arrive ==
    /\ created < MaxRows
    /\ created' = created + 1
    /\ IF list = "market" THEN UNCHANGED <<list, listed, page, before, got, left, slid>>
       ELSE Comes(created', list # "queue")

\* A row gets the status that is listed: a case is reopened, a professional
\* approved, or set to pending again.
Gains(n) ==
    /\ list \in Selecting /\ n \in (1 .. created) \ listed
    /\ Comes(n, TRUE)
    /\ UNCHANGED created

\* A row loses the status that is listed.
Loses(n) ==
    /\ list \in Selecting /\ n \in listed
    /\ Goes({n})

\* clearAll deletes the inbox.
ClearAll ==
    /\ list = "inbox" /\ listed # {}
    /\ Goes(listed)

-----------------------------------------------------------------------------
(* Reading a page.                                                         *)

Ask(n) == [pc |-> "asked", number |-> n, answered |-> {}, items |-> {}, total |-> 0]

\* A client starts over at the first page.
StartWalk ==
    /\ ~Walking
    /\ page' = Ask(1)
    /\ before' = listed /\ got' = {}
    /\ left' = FALSE /\ slid' = FALSE
    /\ UNCHANGED <<list, listed, created>>

\* The place of row x as the query orders the rows, by createdAt.
Place(x) ==
    Cardinality({y \in listed : IF list = "queue" THEN y <= x ELSE y >= x})

\* getPaginationParams and findMany: skip (page - 1) * limit rows, take limit.
Items(n) == {x \in listed : (n - 1) * PageSize < Place(x) /\ Place(x) <= n * PageSize}

\* The two queries of Promise.all reach the database in either order.
FindMany ==
    /\ Walking /\ "items" \notin page.answered
    /\ page' = [page EXCEPT !.answered = @ \union {"items"}, !.items = Items(page.number)]
    /\ UNCHANGED <<list, listed, created, before, got, left, slid>>

CountRows ==
    /\ Walking /\ "total" \notin page.answered
    /\ page' = [page EXCEPT !.answered = @ \union {"total"}, !.total = Cardinality(listed)]
    /\ UNCHANGED <<list, listed, created, before, got, left, slid>>

\* Mutant: the last page is not counted when it is not full.
HasNextFloor(n, total) == n < total \div PageSize

\* buildPaginatedResponse.
HasNext(n, total) == n < (total + PageSize - 1) \div PageSize

\* The answer: the client keeps the rows and asks for the next page, if any.
Answer ==
    /\ Walking /\ page.answered = Queries
    /\ got' = got \union page.items
    /\ page' = IF HasNext(page.number, page.total) THEN Ask(page.number + 1)
               ELSE [pc |-> "over"]
    /\ UNCHANGED <<list, listed, created, before, left, slid>>

ListNext ==
    \/ Arrive \/ ClearAll \/ \E n \in 1 .. MaxRows : Gains(n) \/ Loses(n)
    \/ StartWalk \/ FindMany \/ CountRows \/ Answer

ListSpec == ListInit /\ [][ListNext]_listVars

-----------------------------------------------------------------------------
(* Properties.                                                             *)

\* A walk to the last page has brought every row that was listed when it began,
\* though rows came meanwhile: they push others to later pages, which repeats
\* rows and loses none.  Not so when a row left, or when one came ahead of
\* others between the count and the rows of a page (the count then ends the
\* walk a page early).
WalkMissesNothing == page.pc = "over" /\ ~left /\ ~slid => before \subseteq got

=============================================================================
