------------------------------ MODULE Listing -------------------------------
(***************************************************************************)
(* A client walks through a list page by page while the table changes.     *)
(* Every list of the server is one of a few kinds: a WHERE clause, columns *)
(* to sort by, LIMIT and OFFSET (or a cursor), perhaps a COUNT before the  *)
(* page and a query for the children of its rows after it.  The statements *)
(* of one answer and the answers of one walk each see the table of their   *)
(* own moment.  One operator per endpoint says which kind it is.           *)
(*                                                                         *)
(* A filter on columns that never change (dates, search words) only makes  *)
(* the table smaller and is left out, except where it breaks the query.    *)
(***************************************************************************)
EXTENDS Naturals, Sequences, FiniteSets, SequencesExt

CONSTANTS
    Ids,          \* ids a row can have
    Me,           \* the user who walks
    Others,       \* other owners of rows
    Tables,       \* the tables that are looked at
    InitialRows,  \* the contents a table starts with
    Stamps,       \* moments, in microseconds
    Tick,         \* microseconds in one millisecond
    Ranks,        \* values of a second column to sort by
    Limit,        \* rows on a page
    MaxChanges    \* how often the table changes during the walk

ASSUME ListingAssumption ==
    /\ Ids \subseteq Nat /\ Stamps \subseteq Nat /\ Ranks \subseteq Nat
    /\ Limit \in Nat \ {0} /\ Tick \in Nat \ {0} /\ MaxChanges \in Nat
    /\ IsFiniteSet(Ids)

\* "hidden" stands for every status a filter can ask for other than "shown";
\* a deleted row is "gone", a row yet to come is "absent".
Row == [status : {"shown", "hidden", "gone", "absent"}, owner : {Me} \cup Others,
        made : Stamps, rank : Ranks, version : Nat]

ASSUME RowsAssumption == InitialRows \subseteq [Ids -> Row]

VARIABLES
    view,    \* the list that is walked through
    rows,    \* its table
    walk,    \* where the client is and what it has seen
    changes, \* how often the table has changed
    ghost    \* what happened to the rows of the list meanwhile

vars == <<view, rows, walk, changes, ghost>>

-----------------------------------------------------------------------------
(* The endpoints *)

\* What the client asks for: statuses, a column to sort by and its direction, dates.
Query == [shows : {{"shown"}, {"shown", "hidden"}}, by : {"made", "rank"},
          asc : BOOLEAN, dated : BOOLEAN]
Unfiltered == {"shown", "hidden"}

Column(name, asc) == [name |-> name, asc |-> asc]
ByAge(asc) == <<Column("made", asc), Column("id", FALSE)>>
ByRank(asc) == <<Column("rank", asc), Column("id", FALSE)>>
ByChoice(q) == IF q.by = "rank" THEN ByRank(q.asc) ELSE ByAge(q.asc)

\* A list of everything, newest first.
Plain(table) ==
    [table |-> table, mine |-> FALSE, shows |-> Unfiltered, order |-> ByAge(FALSE),
     counts |-> FALSE, attaches |-> FALSE, paged |-> TRUE, cursor |-> FALSE, fails |-> FALSE]

\* created_at is a column of product_ratings too: a filter by date is ambiguous.
ListProducts(q) == [Plain("products") EXCEPT
    !.shows = q.shows, !.order = ByChoice(q), !.attaches = TRUE, !.fails = q.dated]
ListCart(q) == [Plain("cart") EXCEPT !.mine = TRUE, !.attaches = TRUE, !.paged = FALSE]
ListMyOrders(q) == [Plain("orders") EXCEPT
    !.mine = TRUE, !.shows = q.shows, !.order = ByAge(q.asc), !.attaches = TRUE]
AdminListOrders(q) == [Plain("orders") EXCEPT
    !.shows = q.shows, !.order = ByAge(q.asc), !.counts = TRUE, !.attaches = TRUE]

BuildFaultOrderClause(q) ==
    IF q.by = "rank"
    THEN <<Column("rank", q.asc), Column("made", FALSE), Column("id", FALSE)>>
    ELSE ByAge(q.asc)
ListMyFaults(q) == [Plain("faults") EXCEPT
    !.mine = TRUE, !.shows = q.shows, !.order = BuildFaultOrderClause(q), !.attaches = TRUE]
AdminListFaults(q) == [Plain("faults") EXCEPT
    !.shows = q.shows, !.order = BuildFaultOrderClause(q), !.counts = TRUE, !.attaches = TRUE]

PublicListServices(q) == [Plain("services") EXCEPT
    !.shows = q.shows, !.order = ByAge(q.asc), !.counts = TRUE]
AdminListServices(q) == PublicListServices(q)
ListMyServices(q) == [PublicListServices(q) EXCEPT !.mine = TRUE]

ListFollowupSteps(q) == [Plain("steps") EXCEPT
    !.order = <<Column("rank", TRUE), Column("id", TRUE)>>, !.counts = TRUE]
ListFollowupMessages(q) == [Plain("talk") EXCEPT
    !.order = <<Column("made", TRUE)>>, !.paged = FALSE]
GetItemReviews(q) == [Plain("reviews") EXCEPT !.counts = TRUE]

AdminListGallery(q) == [Plain("gallery") EXCEPT !.counts = TRUE, !.attaches = TRUE]
ListGallery(q) == [AdminListGallery(q) EXCEPT !.shows = {"shown"}]

\* Without an id among the columns, rows of one moment come in any order.
ListUsers(q) == [Plain("users") EXCEPT !.shows = q.shows, !.order = <<Column("made", FALSE)>>]
ListAdmins(q) == [ListUsers(q) EXCEPT !.shows = {"shown"}]
ListUserListings(q) == [ListUsers(q) EXCEPT !.table = "listings"]
GetPublicProfile(q) == [ListUserListings(q) EXCEPT !.shows = {"shown"}]
SearchProducts(q) == [Plain("listings") EXCEPT !.shows = {"shown"}, !.order = ByChoice(q)]
ListMyProducts(q) == [Plain("listings") EXCEPT
    !.mine = TRUE, !.shows = q.shows, !.order = ByChoice(q)]

\* The latest message of a conversation, or its creation, is its rank; it is "hidden"
\* from a scope ("buy", "sell") when the product it is about is not one of that side.
ListConversations(q) == [Plain("conversations") EXCEPT
    !.mine = TRUE, !.shows = q.shows, !.order = <<Column("rank", FALSE)>>]
\* GET .../messages?before=<sent_at of the oldest message seen>
ListMessages(q) == [Plain("messages") EXCEPT
    !.order = <<Column("made", FALSE)>>, !.cursor = TRUE]

Views == UNION {
    {ListProducts(q), ListCart(q), ListMyOrders(q), AdminListOrders(q), ListMyFaults(q),
     AdminListFaults(q), ListMyServices(q), PublicListServices(q), AdminListServices(q),
     ListFollowupSteps(q), ListFollowupMessages(q), GetItemReviews(q), ListGallery(q),
     AdminListGallery(q), ListUsers(q), ListAdmins(q), ListUserListings(q),
     GetPublicProfile(q), SearchProducts(q), ListMyProducts(q), ListConversations(q),
     ListMessages(q)} : q \in Query}

-----------------------------------------------------------------------------
(* One answer, statement by statement *)

\* What the ORDER BY sees of a row.
Place(table, r) == [k \in 1..Len(view.order) |->
    IF view.order[k].name = "id" THEN r ELSE table[r][view.order[k].name]]

\* The place p is before q: the first column in which they differ decides.
Precedes(p, q) == \E k \in DOMAIN p :
    /\ \A j \in 1..(k - 1) : p[j] = q[j]
    /\ IF view.order[k].asc THEN p[k] < q[k] ELSE q[k] < p[k]

MatchingIn(table) == {r \in Ids :
    table[r].status \in view.shows /\ (view.mine => table[r].owner = Me)}
Matching == MatchingIn(rows)

\* Wrong variant, for checking the properties: rounded up.
RoundedTimestamp(stamp) == stamp - (stamp % Tick) + Tick
\* new Date(sent_at).toISOString(): milliseconds, the rest cut off.
NormalizeTimestamp(stamp) == stamp - (stamp % Tick)

\* The rows the statement sorts: with a cursor, those strictly before it.
Asked == {r \in Matching : walk.before # <<>> => rows[r].made < walk.before[1]}

Tied(table) == \E r, s \in MatchingIn(table) : r # s /\ Place(table, r) = Place(table, s)

Above(r, set) == {s \in set : Precedes(Place(rows, s), Place(rows, r))}

\* Everything the ORDER BY allows: one sequence, or several when rows are tied.
Sorted(set) ==
    IF Tied(rows)
    THEN {q \in SetToSeqs(set) : \A i, j \in 1..Len(q) : i < j => q[j] \notin Above(q[i], set)}
    ELSE {[i \in 1..Cardinality(set) |-> CHOOSE r \in set : Cardinality(Above(r, set)) = i - 1]}

PageSize == IF view.paged THEN Limit ELSE Cardinality(Ids) + 1
\* Wrong variant, for checking the properties: pages counted from 0.
ResolveFromZero(page) == [limit |-> PageSize, offset |-> page * PageSize]
ResolveOffsetPagination(page) == [limit |-> PageSize, offset |-> (page - 1) * PageSize]

Cut(s, p) == SubSeq(s, p.offset + 1,
    IF p.offset + p.limit < Len(s) THEN p.offset + p.limit ELSE Len(s))

First == IF view.counts THEN "count" ELSE "page"

Count ==
    /\ walk.at = "count"
    /\ walk' = [walk EXCEPT !.at = "page", !.total = Cardinality(Matching)]

\* The client asks for the next page until one is not full.
Answered(w, entries) ==
    [w EXCEPT !.at = IF Len(entries) < PageSize THEN "done" ELSE First,
              !.page = @ + 1,
              !.seen = @ \o entries,
              !.rows = <<>>,
              !.before = IF view.cursor /\ entries # <<>>
                         THEN <<NormalizeTimestamp(rows[entries[Len(entries)].id].made)>>
                         ELSE @]

SelectPage ==
    /\ walk.at = "page" /\ ~view.fails
    /\ \E s \in Sorted(Asked) :
         LET p == IF view.cursor THEN [limit |-> PageSize, offset |-> 0]
                                 ELSE ResolveOffsetPagination(walk.page)
             cut == Cut(s, p)
             found == [i \in 1..Len(cut) |->
                         [id |-> cut[i], version |-> rows[cut[i]].version, kids |-> 0]]
         IN  walk' = IF view.attaches /\ found # <<>>
                     THEN [walk EXCEPT !.at = "attach", !.rows = found]
                     ELSE Answered(walk, found)

SelectFails ==
    /\ walk.at = "page" /\ view.fails
    /\ walk' = [walk EXCEPT !.at = "failed"]

\* Wrong variant, for checking the properties: the children before the last edit.
CachedKidsOf(r) == IF rows[r].version = 0 THEN 0 ELSE rows[r].version - 1
\* The children of the rows of the page, each put under its own row.
KidsOf(r) == rows[r].version

Attach ==
    /\ walk.at = "attach"
    /\ walk' = Answered(walk, [i \in DOMAIN walk.rows |->
                                 [walk.rows[i] EXCEPT !.kids = KidsOf(walk.rows[i].id)]])

List == (Count \/ SelectPage \/ SelectFails \/ Attach) /\ UNCHANGED <<view, rows, changes, ghost>>

-----------------------------------------------------------------------------
(* What happens to the table meanwhile *)

\* stayed: the rows that matched all the time and kept their place in the order.
\* came, left, moved: how often a row entered, left or changed its place.
\* tied: some rows were in no order.
Becomes(table) ==
    LET before == Matching
        after == MatchingIn(table)
        shifted == {r \in before \cap after : Place(rows, r) # Place(table, r)}
    IN  /\ walk.at \notin {"done", "failed"} /\ changes < MaxChanges
        /\ changes' = changes + 1
        /\ rows' = table
        /\ ghost' = [stayed |-> (ghost.stayed \cap after) \ shifted,
                     came |-> ghost.came + Cardinality(after \ before),
                     left |-> ghost.left + Cardinality(before \ after),
                     moved |-> ghost.moved + Cardinality(shifted),
                     tied |-> ghost.tied \/ Tied(table)]
        /\ UNCHANGED <<view, walk>>

Here(r) == rows[r].status \in {"shown", "hidden"}

\* created_at is the start of the transaction: a row may appear with any past moment.
Insert(r) ==
    /\ rows[r].status = "absent"
    /\ \E made \in Stamps, rank \in Ranks, owner \in {Me} \cup Others :
         Becomes([rows EXCEPT ![r] = [status |-> "shown", owner |-> owner,
                                      made |-> made, rank |-> rank, version |-> 0]])

\* An order's progress, a product or gallery item taken out of the catalogue or put back;
\* a conversation that is opened about another product, or whose product is deleted.
ChangeStatus(r) ==
    /\ view.table \in {"orders", "products", "faults", "services", "gallery", "users",
                      "listings", "conversations"}
    /\ Here(r)
    /\ \E status \in {"shown", "hidden"} \ {rows[r].status} :
         Becomes([rows EXCEPT ![r].status = status])

Delete(r) ==
    /\ view.table \in {"products", "cart", "steps", "gallery", "users", "listings"}
    /\ Here(r)
    /\ Becomes([rows EXCEPT ![r].status = "gone"])

\* A price, a severity, a step's position; a message makes its conversation the latest.
Move(r) ==
    /\ view.table \in {"products", "faults", "steps", "conversations", "listings"}
    /\ Here(r)
    /\ \E rank \in Ranks \ {rows[r].rank} : Becomes([rows EXCEPT ![r].rank = rank])

\* A row and its children are written in one transaction.
Edit(r) ==
    /\ view.table \in {"products", "cart", "faults", "gallery"}
    /\ Here(r)
    /\ Becomes([rows EXCEPT ![r].version = @ + 1])

Change == \E r \in Ids : Insert(r) \/ ChangeStatus(r) \/ Delete(r) \/ Move(r) \/ Edit(r)

Init ==
    /\ view \in {v \in Views : v.table \in Tables}
    /\ rows \in InitialRows
    /\ walk = [at |-> First, page |-> 1, before |-> <<>>, total |-> 0, rows |-> <<>>, seen |-> <<>>]
    /\ changes = 0
    /\ ghost = [stayed |-> Matching, came |-> 0, left |-> 0, moved |-> 0, tied |-> Tied(rows)]

Next == List \/ Change

Spec == Init /\ [][Next]_vars

-----------------------------------------------------------------------------
(* Properties *)

Times(r) == Cardinality({i \in DOMAIN walk.seen : walk.seen[i].id = r})
Missed == {r \in ghost.stayed : Times(r) = 0}
Repeats == {i \in DOMAIN walk.seen :
    walk.seen[i].id \in ghost.stayed /\ \E j \in 1..(i - 1) : walk.seen[j].id = walk.seen[i].id}

\* Each row that leaves the list or changes its place costs a walk by LIMIT and
\* OFFSET at most one of the other rows, each that comes or changes its place
\* repeats at most one, and the total is off by as much; new rows hide nothing,
\* and a walk without changes sees every row once, with the right total.
\* Where rows are in no order (no id in ORDER BY, one moment), this is not so.
WalksMissOnlyWhatMoved ==
    walk.at = "done" /\ ~view.cursor /\ ~ghost.tied =>
        /\ Cardinality(Missed) <= ghost.left + ghost.moved
        /\ Cardinality(Repeats) <= ghost.came + ghost.moved
        /\ view.counts =>
             /\ walk.total <= Len(walk.seen) + ghost.left + ghost.moved + ghost.came
             /\ Len(walk.seen) <= walk.total + ghost.left + ghost.moved + ghost.came

\* A walk through messages by "before" shows none twice, and misses only
\* messages that share their millisecond with one that it shows: the cursor
\* that the client has is cut to milliseconds, sent_at < before is not.
CursorMissesOneMillisecond ==
    view.cursor =>
        /\ \A r \in Ids : Times(r) <= 1
        /\ walk.at = "done" => \A r \in Missed : \E i \in DOMAIN walk.seen :
             rows[walk.seen[i].id].made \div Tick = rows[r].made \div Tick

\* Images and items are read after the rows they belong to, and written with
\* them: an answer may show new children under old fields, never old ones
\* under new fields.
ChildrenAreNotOlder ==
    view.attaches => \A i \in DOMAIN walk.seen : walk.seen[i].version <= walk.seen[i].kids
=============================================================================
