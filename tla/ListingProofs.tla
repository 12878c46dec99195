---------------------------- MODULE ListingProofs ----------------------------
(***************************************************************************)
(* Theorems about Listing: what a walk by LIMIT and OFFSET misses, repeats *)
(* and counts, what a cursor misses, and how old children are.             *)
(***************************************************************************)
EXTENDS Listing, FiniteSetTheorems, SequenceTheorems, TLAPS

-----------------------------------------------------------------------------
(* The lists *)

Orders == UNION {{ByAge(asc), ByRank(asc),
                  <<Column("rank", asc), Column("made", FALSE), Column("id", FALSE)>>,
                  <<Column("rank", TRUE), Column("id", TRUE)>>,
                  <<Column("made", asc)>>, <<Column("rank", asc)>>} : asc \in BOOLEAN}
TableNames == {"products", "cart", "orders", "faults", "services", "steps", "talk", "reviews",
               "gallery", "users", "listings", "conversations", "messages"}
Columns == [name : {"made", "rank", "id"}, asc : BOOLEAN]
View == [table : TableNames, mine : BOOLEAN, shows : {{"shown"}, {"shown", "hidden"}}, order : Orders,
         counts : BOOLEAN, attaches : BOOLEAN, paged : BOOLEAN, cursor : BOOLEAN, fails : BOOLEAN]

\* The walk through messages is the only one by cursor.
Messages == [Plain("messages") EXCEPT !.order = <<Column("made", FALSE)>>, !.cursor = TRUE]

LEMMA PlainIsView ==
    ASSUME NEW table \in TableNames
    PROVE  Plain(table) \in View /\ Plain(table).cursor = FALSE
<1>1. ByAge(FALSE) \in Orders
  BY DEF Orders
<1> QED  BY <1>1, ZenonT(60) DEF Plain, View, Unfiltered

LEMMA ListsAreViews ==
    ASSUME NEW v \in Views
    PROVE  v \in View /\ (v.cursor => v = Messages)
<1>1. PICK q \in Query :
        v \in {ListProducts(q), ListCart(q), ListMyOrders(q), AdminListOrders(q), ListMyFaults(q),
               AdminListFaults(q), ListMyServices(q), PublicListServices(q), AdminListServices(q),
               ListFollowupSteps(q), ListFollowupMessages(q), GetItemReviews(q), ListGallery(q),
               AdminListGallery(q), ListUsers(q), ListAdmins(q), ListUserListings(q),
               GetPublicProfile(q), SearchProducts(q), ListMyProducts(q), ListConversations(q),
               ListMessages(q)}
  BY DEF Views
<1>2. q.shows \in {{"shown"}, {"shown", "hidden"}} /\ q.dated \in BOOLEAN /\ q.asc \in BOOLEAN
  BY DEF Query
<1>3. /\ ByAge(q.asc) \in Orders /\ ByChoice(q) \in Orders /\ BuildFaultOrderClause(q) \in Orders
      /\ <<Column("rank", TRUE), Column("id", TRUE)>> \in Orders
      /\ <<Column("made", TRUE)>> \in Orders /\ <<Column("made", FALSE)>> \in Orders
      /\ <<Column("rank", FALSE)>> \in Orders
  <2>1. \A asc \in BOOLEAN : ByAge(asc) \in Orders /\ ByRank(asc) \in Orders
          /\ <<Column("rank", asc), Column("made", FALSE), Column("id", FALSE)>> \in Orders
          /\ <<Column("made", asc)>> \in Orders /\ <<Column("rank", asc)>> \in Orders
          /\ <<Column("rank", TRUE), Column("id", TRUE)>> \in Orders
    BY ZenonT(60) DEF Orders
  <2> QED  BY <1>2, <2>1, Zenon DEF ByChoice, BuildFaultOrderClause
<1>4. \A table \in TableNames : Plain(table) \in View /\ Plain(table).cursor = FALSE
  BY PlainIsView
<1> DEFINE Fine(w) == w \in View /\ (w.cursor => w = Messages)
<1>5. Fine(ListProducts(q)) /\ Fine(ListCart(q)) /\ Fine(ListMyOrders(q)) /\ Fine(AdminListOrders(q))
  <2>1. Plain("products") \in View /\ Plain("cart") \in View /\ Plain("orders") \in View
        /\ Plain("products").cursor = FALSE /\ Plain("cart").cursor = FALSE /\ Plain("orders").cursor = FALSE
    BY <1>4 DEF TableNames
  <2> QED  BY <1>2, <1>3, <2>1 DEF ListProducts, ListCart, ListMyOrders, AdminListOrders, View
<1>6. Fine(ListMyFaults(q)) /\ Fine(AdminListFaults(q))
  <2>1. Plain("faults") \in View /\ Plain("faults").cursor = FALSE
    BY <1>4 DEF TableNames
  <2> QED  BY <1>2, <1>3, <2>1 DEF ListMyFaults, AdminListFaults, View
<1>7. Fine(PublicListServices(q)) /\ Fine(AdminListServices(q)) /\ Fine(ListMyServices(q))
  <2>1. Plain("services") \in View /\ Plain("services").cursor = FALSE
    BY <1>4 DEF TableNames
  <2>2. PublicListServices(q) \in View /\ PublicListServices(q).cursor = FALSE
    BY <1>2, <1>3, <2>1 DEF PublicListServices, View
  <2> HIDE DEF Fine
  <2>3. ListMyServices(q) \in View /\ ListMyServices(q).cursor = FALSE
    BY <2>2 DEF ListMyServices, View
  <2> QED  BY <2>2, <2>3 DEF AdminListServices, Fine
<1>8. Fine(ListFollowupSteps(q)) /\ Fine(ListFollowupMessages(q)) /\ Fine(GetItemReviews(q))
  <2>1. Plain("steps") \in View /\ Plain("talk") \in View /\ Plain("reviews") \in View
        /\ Plain("steps").cursor = FALSE /\ Plain("talk").cursor = FALSE /\ Plain("reviews").cursor = FALSE
    BY <1>4 DEF TableNames
  <2> QED  BY <1>2, <1>3, <2>1 DEF ListFollowupSteps, ListFollowupMessages, GetItemReviews, View
<1>9. Fine(AdminListGallery(q)) /\ Fine(ListGallery(q))
  <2>1. Plain("gallery") \in View /\ Plain("gallery").cursor = FALSE
    BY <1>4 DEF TableNames
  <2>2. AdminListGallery(q) \in View /\ AdminListGallery(q).cursor = FALSE
    BY <2>1 DEF AdminListGallery, View
  <2> QED  BY <2>2 DEF ListGallery, View
<1>10. Fine(ListUsers(q)) /\ Fine(ListAdmins(q)) /\ Fine(ListUserListings(q)) /\ Fine(GetPublicProfile(q))
  <2>1. Plain("users") \in View /\ Plain("users").cursor = FALSE
    BY <1>4 DEF TableNames
  <2>2. ListUsers(q) \in View /\ ListUsers(q).cursor = FALSE
    BY <1>2, <1>3, <2>1 DEF ListUsers, View
  <2>3. ListUserListings(q) \in View /\ ListUserListings(q).cursor = FALSE
    BY <2>2 DEF ListUserListings, View, TableNames
  <2> QED  BY <2>2, <2>3 DEF ListAdmins, GetPublicProfile, View
<1>11. Fine(SearchProducts(q)) /\ Fine(ListMyProducts(q))
  <2>1. Plain("listings") \in View /\ Plain("listings").cursor = FALSE
    BY <1>4 DEF TableNames
  <2> QED  BY <1>2, <1>3, <2>1 DEF SearchProducts, ListMyProducts, View
<1>12. Fine(ListConversations(q)) /\ Fine(ListMessages(q))
  <2>1. Plain("conversations") \in View /\ Plain("conversations").cursor = FALSE /\ Plain("messages") \in View
    BY <1>4 DEF TableNames
  <2>2. ListConversations(q) \in View /\ ListConversations(q).cursor = FALSE
    BY <1>2, <1>3, <2>1 DEF ListConversations, View
  <2>3. Messages \in View
    BY <1>3, <2>1 DEF Messages, View
  <2> QED  BY <2>2, <2>3 DEF ListMessages, Messages
<1> HIDE DEF Fine
<1>13. Fine(v)
  BY <1>1, <1>5, <1>6, <1>7, <1>8, <1>9, <1>10, <1>11, <1>12, Zenon
<1> QED  BY <1>13 DEF Fine

\* What a sequence of columns to sort by is like.
LEMMA OrderFacts ==
    ASSUME NEW o \in Orders
    PROVE  /\ DOMAIN o = 1 .. Len(o) /\ Len(o) \in 1 .. 3
           /\ \A k \in DOMAIN o : o[k].name \in {"made", "rank", "id"} /\ o[k].asc \in BOOLEAN
<1>1. PICK asc \in BOOLEAN :
        o \in {ByAge(asc), ByRank(asc),
               <<Column("rank", asc), Column("made", FALSE), Column("id", FALSE)>>,
               <<Column("rank", TRUE), Column("id", TRUE)>>,
               <<Column("made", asc)>>, <<Column("rank", asc)>>}
  BY DEF Orders
<1>2. \A n \in {"made", "rank", "id"}, a \in BOOLEAN : Column(n, a) \in Columns
  BY DEF Column, Columns
<1>3. \E c, d, e \in Columns : o = <<c>> \/ o = <<c, d>> \/ o = <<c, d, e>>
  <2>1. /\ Column("made", asc) \in Columns /\ Column("rank", asc) \in Columns
        /\ Column("rank", TRUE) \in Columns /\ Column("made", FALSE) \in Columns
        /\ Column("id", TRUE) \in Columns /\ Column("id", FALSE) \in Columns
    BY <1>2
  <2> QED  BY <1>1, <2>1, Zenon DEF ByAge, ByRank
<1> DEFINE Long(s, n) == DOMAIN s = 1 .. n /\ Len(s) = n /\ \A k \in 1 .. n : s[k] \in Columns
<1>4. ASSUME NEW c \in Columns, NEW d \in Columns, NEW e \in Columns
      PROVE  Long(<<c>>, 1) /\ Long(<<c, d>>, 2) /\ Long(<<c, d, e>>, 3)
  OBVIOUS
<1>5. PICK c \in Columns, d \in Columns, e \in Columns : o = <<c>> \/ o = <<c, d>> \/ o = <<c, d, e>>
  BY <1>3
<1>6. \E n \in 1 .. 3 : Long(o, n)
  <2> HIDE DEF Long
  <2>1. Long(o, 1) \/ Long(o, 2) \/ Long(o, 3)
    BY <1>4, <1>5, Zenon
  <2> QED  BY <2>1
<1> QED  BY <1>6 DEF Columns

LEMMA MessagesFacts ==
    /\ Messages.table = "messages" /\ Messages.order = <<Column("made", FALSE)>> /\ Messages.paged
    /\ ~Messages.mine /\ ~Messages.counts /\ ~Messages.attaches /\ ~Messages.fails
    /\ Messages.shows = {"shown", "hidden"}
BY DEF Messages, Plain, Unfiltered

-----------------------------------------------------------------------------
(* The order of the rows *)

Places == [1 .. Len(view.order) -> Nat]
Typed == view \in Views /\ rows \in [Ids -> Row]

LEMMA PlaceType ==
    ASSUME view \in Views, NEW table \in [Ids -> Row], NEW r \in Ids
    PROVE  /\ Place(table, r) \in Places /\ table[r] \in Row
           /\ \A k \in 1 .. Len(view.order) : view.order[k].asc \in BOOLEAN
           /\ Len(view.order) \in 1 .. 3
<1>1. view.order \in Orders
  BY ListsAreViews DEF View
<1>2. /\ DOMAIN view.order = 1 .. Len(view.order) /\ Len(view.order) \in 1 .. 3
      /\ \A k \in DOMAIN view.order :
            view.order[k].name \in {"made", "rank", "id"} /\ view.order[k].asc \in BOOLEAN
  BY <1>1, OrderFacts
<1>3. r \in Nat /\ table[r].made \in Nat /\ table[r].rank \in Nat /\ table[r] \in Row
  BY ListingAssumption DEF Row
<1>4. ASSUME NEW k \in 1 .. Len(view.order)
      PROVE  (IF view.order[k].name = "id" THEN r ELSE table[r][view.order[k].name]) \in Nat
  <2>1. view.order[k].name \in {"made", "rank", "id"}
    BY <1>2
  <2>2. view.order[k].name = "made" => table[r][view.order[k].name] \in Nat
    BY <1>3
  <2>3. view.order[k].name = "rank" => table[r][view.order[k].name] \in Nat
    BY <1>3
  <2> QED  BY <1>3, <2>1, <2>2, <2>3
<1>5. Place(table, r) \in Places
  BY <1>4 DEF Place, Places
<1> QED  BY <1>2, <1>3, <1>5

\* ORDER BY compares column by column: a strict order of the places ...
LEMMA PrecedesOrders ==
    ASSUME view \in Views, NEW p \in Places, NEW q \in Places, NEW o \in Places
    PROVE  /\ ~Precedes(p, p)
           /\ Precedes(p, q) /\ Precedes(q, o) => Precedes(p, o)
<1>1. \A x \in Places : DOMAIN x = 1 .. Len(view.order) /\ \A k \in DOMAIN x : x[k] \in Nat
  BY DEF Places
<1>2. view.order \in Orders /\ Len(view.order) \in 1 .. 3
  BY ListsAreViews, OrderFacts DEF View
<1>3. ~Precedes(p, p)
  BY <1>1 DEF Precedes
<1>4. ASSUME Precedes(p, q), Precedes(q, o) PROVE Precedes(p, o)
  <2>1. PICK k \in 1 .. Len(view.order) :
           /\ \A j \in 1 .. (k - 1) : p[j] = q[j]
           /\ IF view.order[k].asc THEN p[k] < q[k] ELSE q[k] < p[k]
    BY <1>1, <1>4 DEF Precedes
  <2>2. PICK m \in 1 .. Len(view.order) :
           /\ \A j \in 1 .. (m - 1) : q[j] = o[j]
           /\ IF view.order[m].asc THEN q[m] < o[m] ELSE o[m] < q[m]
    BY <1>1, <1>4 DEF Precedes
  <2>3. k \in Nat /\ m \in Nat /\ p[k] \in Nat /\ q[k] \in Nat /\ o[k] \in Nat
        /\ p[m] \in Nat /\ q[m] \in Nat /\ o[m] \in Nat
    BY <1>1, <1>2
  <2>4. CASE k < m
    <3>1. q[k] = o[k] /\ \A j \in 1 .. (k - 1) : p[j] = o[j]
      BY <2>1, <2>2, <2>3, <2>4
    <3> QED  BY <1>1, <2>1, <3>1 DEF Precedes
  <2>5. CASE m < k
    <3>1. p[m] = q[m] /\ \A j \in 1 .. (m - 1) : p[j] = o[j]
      BY <2>1, <2>2, <2>3, <2>5
    <3> QED  BY <1>1, <2>2, <3>1 DEF Precedes
  <2>6. CASE k = m
    <3>1. \A j \in 1 .. (k - 1) : p[j] = o[j]
      BY <2>1, <2>2, <2>6
    <3>2. IF view.order[k].asc THEN p[k] < o[k] ELSE o[k] < p[k]
      BY <2>1, <2>2, <2>3, <2>6
    <3> QED  BY <1>1, <3>1, <3>2 DEF Precedes
  <2> QED  BY <2>3, <2>4, <2>5, <2>6
<1> QED  BY <1>3, <1>4

\* ... in which two that differ are one before the other.
LEMMA PrecedesIsTotal ==
    ASSUME view \in Views, NEW p \in Places, NEW q \in Places, p # q
    PROVE  Precedes(p, q) \/ Precedes(q, p)
<1>1. /\ DOMAIN p = 1 .. Len(view.order) /\ DOMAIN q = DOMAIN p
      /\ \A k \in DOMAIN p : p[k] \in Nat /\ q[k] \in Nat
  BY DEF Places
<1>2. Len(view.order) \in 1 .. 3
  BY ListsAreViews, OrderFacts DEF View
<1>3. PICK n \in DOMAIN p : p[n] # q[n]
  BY DEF Places
<1>4. \E k \in DOMAIN p : p[k] # q[k] /\ \A j \in 1 .. (k - 1) : p[j] = q[j]
  <2>1. n \in 1 .. 3 /\ \A j \in 1 .. n : j \in DOMAIN p
    <3>1. \A len \in 1 .. 3 : \A m \in 1 .. len : m \in 1 .. 3 /\ \A j \in 1 .. m : j \in 1 .. len
      OBVIOUS
    <3>2. n \in 1 .. Len(view.order) /\ DOMAIN p = 1 .. Len(view.order)
      BY <1>1
    <3> QED  BY <1>2, <3>1, <3>2, Zenon
  <2>2. CASE p[1] # q[1]
    <3>1. 1 \in DOMAIN p /\ 1 .. (1 - 1) = {}
      BY <2>1
    <3> QED  BY <2>2, <3>1
  <2>3. CASE p[1] = q[1] /\ n = 2
    <3>1. 1 .. (2 - 1) = {1}
      OBVIOUS
    <3> QED  BY <1>3, <2>3, <3>1
  <2>4. CASE p[1] = q[1] /\ n = 3
    <3>1. 1 .. (2 - 1) = {1} /\ 1 .. (3 - 1) = {1, 2} /\ 2 \in DOMAIN p
      BY <2>1, <2>4
    <3>2. CASE p[2] = q[2]
      BY <1>3, <2>4, <3>1, <3>2
    <3>3. CASE p[2] # q[2]
      BY <2>4, <3>1, <3>3
    <3> QED  BY <3>2, <3>3
  <2> QED  BY <1>3, <2>1, <2>2, <2>3, <2>4
<1>5. PICK k \in DOMAIN p : p[k] # q[k] /\ \A j \in 1 .. (k - 1) : p[j] = q[j]
  BY <1>4
<1>6. (p[k] < q[k] \/ q[k] < p[k])
  BY <1>1, <1>5
<1> QED  BY <1>1, <1>5, <1>6 DEF Precedes

-----------------------------------------------------------------------------
(* The rows in order *)

LEMMA RowsAreFew ==
    /\ IsFiniteSet(Ids) /\ Cardinality(Ids) \in Nat
    /\ \A set \in SUBSET Ids : IsFiniteSet(set) /\ Cardinality(set) \in Nat
                               /\ Cardinality(set) <= Cardinality(Ids)
<1>1. IsFiniteSet(Ids)
  BY ListingAssumption
<1>2. ASSUME NEW set \in SUBSET Ids
      PROVE  IsFiniteSet(set) /\ Cardinality(set) <= Cardinality(Ids)
  BY <1>1, FS_Subset
<1> QED  BY <1>1, <1>2, FS_CardinalityType

\* How many of a set of rows come first tells the rows apart.
LEMMA RanksDiffer ==
    ASSUME Typed, NEW set \in SUBSET Matching, NEW r \in set, NEW s \in set,
           Precedes(Place(rows, r), Place(rows, s))
    PROVE  /\ r # s /\ Above(r, set) \subseteq Above(s, set)
           /\ Cardinality(Above(r, set)) \in Nat /\ Cardinality(Above(s, set)) \in Nat
           /\ Cardinality(Above(r, set)) < Cardinality(Above(s, set))
<1>1. set \in SUBSET Ids /\ r \in Ids /\ s \in Ids /\ view \in Views
  BY DEF Typed, Matching, MatchingIn
<1>2. \A t \in set : Place(rows, t) \in Places
  BY <1>1, PlaceType DEF Typed
<1>3. \A t \in set : ~Precedes(Place(rows, t), Place(rows, t))
  BY <1>1, <1>2, PrecedesOrders
<1>4. \A t \in set : Precedes(Place(rows, t), Place(rows, r)) => Precedes(Place(rows, t), Place(rows, s))
  BY <1>1, <1>2, PrecedesOrders
<1>5. Above(r, set) \subseteq Above(s, set) /\ r \in Above(s, set) /\ r \notin Above(r, set)
  BY <1>3, <1>4 DEF Above
<1>6. /\ IsFiniteSet(Above(s, set)) /\ Cardinality(Above(s, set)) \in Nat
      /\ Cardinality(Above(r, set)) \in Nat
  <2>1. Above(s, set) \in SUBSET Ids /\ Above(r, set) \in SUBSET Ids
    BY <1>1 DEF Above
  <2> QED  BY <2>1, RowsAreFew
<1>7. /\ Cardinality(Above(r, set)) <= Cardinality(Above(s, set))
      /\ Cardinality(Above(r, set)) # Cardinality(Above(s, set))
  BY <1>5, <1>6, FS_Subset
<1> QED  BY <1>3, <1>5, <1>6, <1>7

LEMMA RanksAreAll ==
    ASSUME Typed, NEW set \in SUBSET Matching, ~Tied(rows)
    PROVE  /\ \A r \in set : Cardinality(Above(r, set)) \in 0 .. (Cardinality(set) - 1)
           /\ \A r, s \in set : Cardinality(Above(r, set)) = Cardinality(Above(s, set)) => r = s
           /\ \A i \in 0 .. (Cardinality(set) - 1) : \E r \in set : Cardinality(Above(r, set)) = i
<1> DEFINE f == [r \in set |-> Cardinality(Above(r, set))]
           n == Cardinality(set)
<1>1. set \in SUBSET Ids /\ view \in Views /\ IsFiniteSet(set) /\ n \in Nat
  BY RowsAreFew DEF Typed, Matching, MatchingIn
<1>2. ASSUME NEW r \in set PROVE Cardinality(Above(r, set)) \in 0 .. (n - 1)
  <2>1. Place(rows, r) \in Places
    BY <1>1, PlaceType DEF Typed
  <2>2. Above(r, set) \subseteq set \ {r}
    BY <1>1, <2>1, PrecedesOrders DEF Above
  <2>3. IsFiniteSet(set \ {r}) /\ Cardinality(set \ {r}) = n - 1
    BY <1>1, FS_RemoveElement
  <2>4. IsFiniteSet(Above(r, set)) /\ Cardinality(Above(r, set)) <= n - 1
    BY <2>2, <2>3, FS_Subset
  <2>5. Cardinality(Above(r, set)) \in Nat
    BY <2>4, FS_CardinalityType
  <2> QED  BY <1>1, <2>4, <2>5
<1>3. ASSUME NEW r \in set, NEW s \in set, Cardinality(Above(r, set)) = Cardinality(Above(s, set))
      PROVE  r = s
  <2> SUFFICES ASSUME r # s PROVE FALSE
    OBVIOUS
  <2>1. Place(rows, r) # Place(rows, s)
    BY DEF Tied, Matching
  <2>2. Place(rows, r) \in Places /\ Place(rows, s) \in Places
    BY <1>1, PlaceType DEF Typed
  <2>3. Precedes(Place(rows, r), Place(rows, s)) \/ Precedes(Place(rows, s), Place(rows, r))
    BY <1>1, <2>1, <2>2, PrecedesIsTotal
  <2> QED  BY <1>3, <2>3, RanksDiffer
<1>4. f \in Injection(set, 0 .. (n - 1))
  BY <1>2, <1>3 DEF Injection, IsInjective
<1>5. IsFiniteSet(0 .. (n - 1)) /\ Cardinality(0 .. (n - 1)) = n
  <2>1. 0 \in Int /\ n - 1 \in Int
    BY <1>1
  <2> QED  BY <1>1, <2>1, FS_Interval
<1>6. f \in Surjection(set, 0 .. (n - 1))
  <2> HIDE DEF f
  <2> QED  BY <1>4, <1>5, FS_Injection
<1> QED  BY <1>2, <1>3, <1>6 DEF Surjection

\* A statement with ORDER BY answers its rows, each once and in order.
LEMMA SortedRows ==
    ASSUME Typed, NEW set \in SUBSET Matching, NEW s \in Sorted(set)
    PROVE  /\ s \in Seq(set) /\ Len(s) = Cardinality(set) /\ Cardinality(set) \in Nat
           /\ DOMAIN s = 1 .. Cardinality(set)
           /\ \A r \in set : \E i \in DOMAIN s : s[i] = r
           /\ \A i, j \in DOMAIN s : s[i] = s[j] => i = j
           /\ \A i, j \in DOMAIN s : i < j => ~Precedes(Place(rows, s[j]), Place(rows, s[i]))
           /\ ~Tied(rows) => \A i \in DOMAIN s : Cardinality(Above(s[i], set)) = i - 1
<1> DEFINE n == Cardinality(set)
<1>1. set \in SUBSET Ids /\ IsFiniteSet(set) /\ n \in Nat
  BY RowsAreFew DEF Typed, Matching, MatchingIn
<1>2. CASE Tied(rows)
  <2>1. /\ s \in [1 .. n -> set] /\ \A i, j \in 1 .. n : i # j => s[i] # s[j]
        /\ \A i, j \in 1 .. Len(s) : i < j => s[j] \notin Above(s[i], set)
    BY <1>2 DEF Sorted, SetToSeqs
  <2>2. s \in Seq(set) /\ Len(s) = n /\ DOMAIN s = 1 .. n
    BY <1>1, <2>1
  <2>3. s \in Injection(1 .. n, set)
    BY <2>1 DEF Injection, IsInjective
  <2>4. IsFiniteSet(1 .. n) /\ Cardinality(1 .. n) = n
    <3>1. 1 \in Int /\ n \in Int
      BY <1>1
    <3> QED  BY <1>1, <3>1, FS_Interval
  <2>5. s \in Surjection(1 .. n, set)
    BY <1>1, <2>3, <2>4, FS_Injection
  <2>6. \A i, j \in DOMAIN s : i < j => ~Precedes(Place(rows, s[j]), Place(rows, s[i]))
    BY <2>1, <2>2 DEF Above
  <2> QED  BY <1>1, <1>2, <2>1, <2>2, <2>5, <2>6 DEF Surjection
<1>3. CASE ~Tied(rows)
  <2>1. /\ \A i \in 0 .. (n - 1) : \E r \in set : Cardinality(Above(r, set)) = i
        /\ \A r \in set : Cardinality(Above(r, set)) \in 0 .. (n - 1)
        /\ \A r, t \in set : Cardinality(Above(r, set)) = Cardinality(Above(t, set)) => r = t
    BY <1>3, RanksAreAll
  <2>2. s = [i \in 1 .. n |-> CHOOSE r \in set : Cardinality(Above(r, set)) = i - 1]
    BY <1>3 DEF Sorted
  <2>3. ASSUME NEW i \in 1 .. n PROVE s[i] \in set /\ Cardinality(Above(s[i], set)) = i - 1
    <3>1. i - 1 \in 0 .. (n - 1)
      BY <1>1
    <3>2. \E r \in set : Cardinality(Above(r, set)) = i - 1
      BY <2>1, <3>1
    <3>3. s[i] = CHOOSE r \in set : Cardinality(Above(r, set)) = i - 1
      BY <2>2
    <3> QED  BY <3>2, <3>3, Zenon
  <2>4. s \in [1 .. n -> set]
    BY <2>2, <2>3
  <2>5. s \in Seq(set) /\ Len(s) = n /\ DOMAIN s = 1 .. n
    BY <1>1, <2>4
  <2>6. ASSUME NEW r \in set PROVE \E i \in 1 .. n : s[i] = r
    <3>1. PICK i \in 1 .. n : Cardinality(Above(r, set)) = i - 1
      <4>1. Cardinality(Above(r, set)) \in 0 .. (n - 1)
        BY <2>1
      <4>2. Cardinality(Above(r, set)) + 1 \in 1 .. n /\ Cardinality(Above(r, set)) = (Cardinality(Above(r, set)) + 1) - 1
        BY <1>1, <4>1
      <4> QED  BY <4>2
    <3>2. Cardinality(Above(s[i], set)) = Cardinality(Above(r, set)) /\ s[i] \in set
      BY <2>3, <3>1
    <3> QED  BY <2>1, <3>2
  <2>7. ASSUME NEW i \in 1 .. n, NEW j \in 1 .. n, s[i] = s[j] PROVE i = j
    <3>1. i - 1 = j - 1
      BY <2>3, <2>7
    <3> QED  BY <3>1
  <2>8. ASSUME NEW i \in 1 .. n, NEW j \in 1 .. n, i < j,
               Precedes(Place(rows, s[j]), Place(rows, s[i]))
        PROVE  FALSE
    <3>1. Cardinality(Above(s[j], set)) < Cardinality(Above(s[i], set))
      BY <2>3, <2>8, RanksDiffer
    <3>2. j - 1 < i - 1
      BY <2>3, <3>1
    <3> QED  BY <2>8, <3>2
  <2> QED  BY <1>1, <2>3, <2>5, <2>6, <2>7, <2>8
<1> QED  BY <1>2, <1>3

-----------------------------------------------------------------------------
(* The invariant *)

Entry == [id : Ids, version : Nat, kids : Nat]
Walk == [at : {"count", "page", "attach", "done", "failed"}, page : Nat \ {0},
         before : Seq(Nat), total : Nat, rows : Seq(Entry), seen : Seq(Entry)]
ListTypeOK ==
    /\ view \in Views
    /\ rows \in [Ids -> Row]
    /\ walk \in Walk
    /\ changes \in Nat
    /\ ghost \in [stayed : SUBSET Ids, came : Nat, left : Nat, moved : Nat, tied : BOOLEAN]

\* All that was read, the page that waits for its children included.
Got == walk.seen \o walk.rows
Shown(r) == \E i \in DOMAIN Got : Got[i].id = r
\* No page will be asked for any more.
Closing == walk.at = "done" \/ (walk.at = "attach" /\ Len(walk.rows) < PageSize)

Shape ==
    /\ walk.at # "attach" => walk.rows = <<>>
    /\ walk.at = "attach" => view.attaches /\ walk.rows # <<>> /\ Len(walk.rows) <= PageSize
    /\ ~view.cursor => walk.before = <<>>
    /\ ~view.cursor /\ walk.at # "done" => Len(walk.seen) = (walk.page - 1) * PageSize
    /\ ghost.stayed \subseteq Matching
    /\ ~ghost.tied => ~Tied(rows)

\* Rows that wait for their children are there and do not get older.
Waiting ==
    /\ \A i \in DOMAIN walk.rows :
          /\ rows[walk.rows[i].id].status # "absent"
          /\ walk.rows[i].version <= rows[walk.rows[i].id].version
    /\ view.attaches => \A i \in DOMAIN walk.seen : walk.seen[i].version <= walk.seen[i].kids

\* The walk is past the place of a row.
Pos(r) == Cardinality(Above(r, Matching))
Passed(r) == Closing \/ Pos(r) < Len(Got)
\* Rows that will not be seen, rows that will be seen again, and where rows were seen again.
Lost == {r \in ghost.stayed : ~Shown(r) /\ Passed(r)}
Due == {r \in ghost.stayed : Shown(r) /\ ~Passed(r)}
Again == {i \in DOMAIN Got :
    Got[i].id \in ghost.stayed /\ \E j \in 1 .. (i - 1) : Got[j].id = Got[i].id}

Paging == ~view.cursor /\ ~ghost.tied =>
    /\ Cardinality(Lost) <= ghost.left + ghost.moved
    /\ Cardinality(Again) + Cardinality(Due) <= ghost.came + ghost.moved

Counting == ~view.cursor =>
    /\ Len(Got) <= Cardinality(Matching) + ghost.left
    /\ view.counts /\ walk.at = "page" =>
          /\ walk.total <= Cardinality(Matching) + ghost.left
          /\ Cardinality(Matching) <= walk.total + ghost.came
    /\ view.counts /\ Closing =>
          /\ walk.total <= Len(Got) + ghost.left + ghost.came
          /\ Len(Got) <= walk.total + ghost.left + ghost.came

\* A row of the same millisecond was seen.
Neighbour(r) == \E i \in DOMAIN walk.seen :
    rows[walk.seen[i].id].made \div Tick = rows[r].made \div Tick
AtTheCursor == view.cursor =>
    /\ \A i \in DOMAIN walk.seen :
          /\ rows[walk.seen[i].id].status # "absent" /\ walk.before # <<>>
          /\ walk.before[1] <= rows[walk.seen[i].id].made
    /\ \A i, j \in DOMAIN walk.seen : walk.seen[i].id = walk.seen[j].id => i = j
    /\ \A r \in ghost.stayed : Shown(r) \/ Neighbour(r) \/ (walk.at # "done" /\ r \in Asked)

ListInv == ListTypeOK /\ Shape /\ Waiting /\ Paging /\ Counting /\ AtTheCursor

LEMMA TypesHold == ASSUME ListTypeOK PROVE Typed
BY DEF ListTypeOK, Typed

LEMMA PageSizes ==
    ASSUME view \in Views
    PROVE  PageSize \in Nat \ {0} /\ (~view.cursor \/ view = Messages)
<1>1. Cardinality(Ids) + 1 \in Nat \ {0}
  BY RowsAreFew
<1> QED  BY <1>1, ListsAreViews, ListingAssumption DEF PageSize

\* What is read is what was answered and what waits.
LEMMA GotFacts ==
    ASSUME NEW seen \in Seq(Entry), NEW page \in Seq(Entry)
    PROVE  /\ seen \o page \in Seq(Entry) /\ Len(seen \o page) = Len(seen) + Len(page)
           /\ Len(seen) \in Nat /\ Len(page) \in Nat
           /\ DOMAIN (seen \o page) = 1 .. (Len(seen) + Len(page))
           /\ DOMAIN seen = 1 .. Len(seen) /\ DOMAIN page = 1 .. Len(page)
           /\ \A i \in 1 .. Len(seen) : (seen \o page)[i] = seen[i]
           /\ \A i \in 1 .. Len(page) : (seen \o page)[Len(seen) + i] = page[i]
           /\ \A i \in 1 .. (Len(seen) + Len(page)) :
                 i \in 1 .. Len(seen) \/ (i - Len(seen) \in 1 .. Len(page) /\ (seen \o page)[i] = page[i - Len(seen)])
OBVIOUS

LEMMA NothingWaits ==
    ASSUME ListTypeOK, walk.rows = <<>>
    PROVE  Got = walk.seen /\ walk.seen \in Seq(Entry) /\ Len(walk.seen) \in Nat
           /\ DOMAIN walk.seen = 1 .. Len(walk.seen)
BY DEF ListTypeOK, Walk, Got

-----------------------------------------------------------------------------
(* What a change does *)

Below(table, r) == {s \in MatchingIn(table) : Precedes(Place(table, s), Place(table, r))}

\* An INSERT makes a new row; a row that is there stays known and gets no older.
LEMMA ChangesOneRow ==
    ASSUME ListTypeOK, Change
    PROVE  \E r \in Ids, row \in Row :
             /\ Becomes([rows EXCEPT ![r] = row])
             /\ \/ rows[r].status = "absent"
                \/ row.status # "absent" /\ rows[r].version <= row.version
             /\ view.table = "messages" => rows[r].status = "absent"
<1>1. PICK r \in Ids : Insert(r) \/ ChangeStatus(r) \/ Delete(r) \/ Move(r) \/ Edit(r)
  BY DEF Change
<1>2. rows[r] \in Row /\ rows \in [Ids -> Row] /\ rows[r].version \in Nat
  BY DEF ListTypeOK, Row
<1>3. CASE Insert(r)
  <2>1. PICK made \in Stamps, rank \in Ranks, owner \in {Me} \cup Others :
          Becomes([rows EXCEPT ![r] = [status |-> "shown", owner |-> owner,
                                       made |-> made, rank |-> rank, version |-> 0]])
    BY <1>3 DEF Insert
  <2>2. [status |-> "shown", owner |-> owner, made |-> made, rank |-> rank, version |-> 0] \in Row
    BY DEF Row
  <2> QED  BY <1>3, <2>1, <2>2 DEF Insert
<1>4. CASE ChangeStatus(r)
  <2>1. PICK status \in {"shown", "hidden"} : Becomes([rows EXCEPT ![r].status = status])
    BY <1>4 DEF ChangeStatus
  <2> DEFINE row == [rows[r] EXCEPT !.status = status]
  <2>2. row \in Row /\ row.status # "absent" /\ rows[r].version <= row.version
    BY <1>2 DEF Row
  <2>3. [rows EXCEPT ![r].status = status] = [rows EXCEPT ![r] = row]
    OBVIOUS
  <2>4. view.table # "messages"
    BY <1>4 DEF ChangeStatus
  <2> QED  BY <2>1, <2>2, <2>3, <2>4
<1>5. CASE Delete(r)
  <2> DEFINE row == [rows[r] EXCEPT !.status = "gone"]
  <2>1. row \in Row /\ row.status # "absent" /\ rows[r].version <= row.version
    BY <1>2 DEF Row
  <2>2. [rows EXCEPT ![r].status = "gone"] = [rows EXCEPT ![r] = row]
    OBVIOUS
  <2>3. view.table # "messages" /\ Becomes([rows EXCEPT ![r].status = "gone"])
    BY <1>5 DEF Delete
  <2> QED  BY <2>1, <2>2, <2>3
<1>6. CASE Move(r)
  <2>1. PICK rank \in Ranks : Becomes([rows EXCEPT ![r].rank = rank])
    BY <1>6 DEF Move
  <2> DEFINE row == [rows[r] EXCEPT !.rank = rank]
  <2>2. row \in Row /\ row.status # "absent" /\ rows[r].version <= row.version
    BY <1>2, <1>6 DEF Row, Move, Here
  <2>3. [rows EXCEPT ![r].rank = rank] = [rows EXCEPT ![r] = row]
    OBVIOUS
  <2>4. view.table # "messages"
    BY <1>6 DEF Move
  <2> QED  BY <2>1, <2>2, <2>3, <2>4
<1>7. CASE Edit(r)
  <2> DEFINE row == [rows[r] EXCEPT !.version = @ + 1]
  <2>1. row \in Row /\ row.status # "absent" /\ rows[r].version <= row.version
    BY <1>2, <1>7 DEF Row, Edit, Here
  <2>2. [rows EXCEPT ![r].version = @ + 1] = [rows EXCEPT ![r] = row]
    OBVIOUS
  <2>3. view.table # "messages" /\ Becomes([rows EXCEPT ![r].version = @ + 1])
    BY <1>7 DEF Edit
  <2> QED  BY <2>1, <2>2, <2>3
<1> QED  BY <1>1, <1>3, <1>4, <1>5, <1>6, <1>7

\* After a change rows match, are tied and are counted as in the new table.
LEMMA TheNewTable ==
    ASSUME UNCHANGED view
    PROVE  /\ Matching = MatchingIn(rows) /\ Matching' = MatchingIn(rows')
           /\ Tied(rows)' = Tied(rows')
           /\ \A r : Pos(r) = Cardinality(Below(rows, r)) /\ Pos(r)' = Cardinality(Below(rows', r))
<1>1. /\ Matching = MatchingIn(rows) /\ Matching' = MatchingIn(rows')
      /\ Tied(rows)' = Tied(rows')
  BY DEF Matching, MatchingIn, Tied, Place
<1>2. ASSUME NEW r PROVE Pos(r) = Cardinality(Below(rows, r))
  <2>1. Above(r, Matching) = Below(rows, r)
    BY <1>1 DEF Above, Below
  <2> QED  BY <2>1 DEF Pos
<1>3. ASSUME NEW r PROVE Pos(r)' = Cardinality(Below(rows', r))
  <2>1. {s \in Matching : Precedes(Place(rows, s), Place(rows, r))}' = Below(rows', r)
    BY <1>1 DEF Below, Precedes, Place
  <2> QED  BY <2>1 DEF Pos, Above
<1> QED  BY <1>1, <1>2, <1>3

\* Two sets of rows that differ by one row at most.
LEMMA OneRowApart ==
    ASSUME NEW A \in SUBSET Ids, NEW B \in SUBSET Ids, NEW r, A \ {r} = B \ {r}
    PROVE  /\ Cardinality(A) \in Nat /\ Cardinality(B) \in Nat
           /\ Cardinality(A) < Cardinality(B) => Cardinality(A) + 1 = Cardinality(B) /\ r \in B \ A
<1>1. IsFiniteSet(A) /\ IsFiniteSet(B) /\ Cardinality(A) \in Nat /\ Cardinality(B) \in Nat
  BY RowsAreFew
<1>2. /\ Cardinality(A \ {r}) = IF r \in A THEN Cardinality(A) - 1 ELSE Cardinality(A)
      /\ Cardinality(B \ {r}) = IF r \in B THEN Cardinality(B) - 1 ELSE Cardinality(B)
  BY <1>1, FS_RemoveElement
<1> QED  BY <1>1, <1>2

\* A set that one row at most is in.
LEMMA AtMostOneRow ==
    ASSUME NEW A, NEW r, A \subseteq {r}
    PROVE  IsFiniteSet(A) /\ Cardinality(A) = IF r \in A THEN 1 ELSE 0
<1>1. CASE r \in A
  <2>1. A = {r}
    BY <1>1
  <2> QED  BY <2>1, <1>1, FS_Singleton
<1>2. CASE r \notin A
  <2>1. A = {}
    BY <1>2
  <2> QED  BY <2>1, <1>2, FS_EmptySet
<1> QED  BY <1>1, <1>2

Came == Matching' \ Matching
Left == Matching \ Matching'
Shifted == {r \in Matching \cap Matching' : Place(rows, r) # Place(rows', r)}

\* A change moves one row; the others step aside for it.
LEMMA ChangeIsSmall ==
    ASSUME ListTypeOK, NEW r \in Ids, NEW row \in Row, Becomes([rows EXCEPT ![r] = row])
    PROVE  /\ Typed' /\ rows' = [rows EXCEPT ![r] = row] /\ UNCHANGED <<view, walk>>
           /\ changes' = changes + 1 /\ walk.at \notin {"done", "failed"}
           /\ Matching \in SUBSET Ids /\ Matching' \in SUBSET Ids
           /\ Matching' \ {r} = Matching \ {r}
           /\ \A s \in Ids \ {r} : Place(rows', s) = Place(rows, s) /\ rows'[s] = rows[s]
           /\ ghost' = [stayed |-> (ghost.stayed \cap Matching') \ Shifted,
                        came |-> ghost.came + Cardinality(Came),
                        left |-> ghost.left + Cardinality(Left),
                        moved |-> ghost.moved + Cardinality(Shifted),
                        tied |-> ghost.tied \/ Tied(rows)']
           /\ Came \subseteq {r} /\ Left \subseteq {r} /\ Shifted \subseteq {r}
<1>1. /\ view \in Views /\ rows \in [Ids -> Row] /\ rows' = [rows EXCEPT ![r] = row]
      /\ UNCHANGED <<view, walk>> /\ changes' = changes + 1 /\ walk.at \notin {"done", "failed"}
  BY DEF ListTypeOK, Becomes
<1>2. rows' \in [Ids -> Row] /\ \A s \in Ids \ {r} : rows'[s] = rows[s]
  BY <1>1
<1>3. /\ Matching = MatchingIn(rows) /\ Matching' = MatchingIn(rows') /\ Tied(rows)' = Tied(rows')
  BY <1>1, TheNewTable
<1>4. Matching \in SUBSET Ids /\ Matching' \in SUBSET Ids /\ Matching' \ {r} = Matching \ {r}
  BY <1>2, <1>3 DEF MatchingIn
<1>5. \A s \in Ids \ {r} : Place(rows', s) = Place(rows, s)
  BY <1>2 DEF Place
<1>6. Came \subseteq {r} /\ Left \subseteq {r} /\ Shifted \subseteq {r}
  BY <1>4, <1>5 DEF Came, Left, Shifted
<1>7. ghost' = [stayed |-> (ghost.stayed \cap Matching') \ Shifted,
                came |-> ghost.came + Cardinality(Came),
                left |-> ghost.left + Cardinality(Left),
                moved |-> ghost.moved + Cardinality(Shifted),
                tied |-> ghost.tied \/ Tied(rows)']
  BY <1>1, <1>3 DEF Becomes, Came, Left, Shifted
<1> QED  BY <1>1, <1>2, <1>4, <1>5, <1>6, <1>7 DEF Typed

\* What it costs.
LEMMA ChangeCounts ==
    ASSUME ListTypeOK, NEW r \in Ids, NEW row \in Row, Becomes([rows EXCEPT ![r] = row])
    PROVE  /\ Cardinality(Came) = (IF r \in Came THEN 1 ELSE 0)
           /\ Cardinality(Left) = (IF r \in Left THEN 1 ELSE 0)
           /\ Cardinality(Shifted) = (IF r \in Shifted THEN 1 ELSE 0)
           /\ ghost'.came = ghost.came + Cardinality(Came)
           /\ ghost'.left = ghost.left + Cardinality(Left)
           /\ ghost'.moved = ghost.moved + Cardinality(Shifted)
           /\ ghost.came \in Nat /\ ghost.left \in Nat /\ ghost.moved \in Nat
           /\ Cardinality(Matching) \in Nat /\ Cardinality(Matching') \in Nat
           /\ Cardinality(Matching') = Cardinality(Matching) + Cardinality(Came) - Cardinality(Left)
<1>1. /\ Matching \in SUBSET Ids /\ Matching' \in SUBSET Ids /\ Matching' \ {r} = Matching \ {r}
      /\ ghost' = [stayed |-> (ghost.stayed \cap Matching') \ Shifted,
                   came |-> ghost.came + Cardinality(Came),
                   left |-> ghost.left + Cardinality(Left),
                   moved |-> ghost.moved + Cardinality(Shifted),
                   tied |-> ghost.tied \/ Tied(rows)']
      /\ Came \subseteq {r} /\ Left \subseteq {r} /\ Shifted \subseteq {r}
  BY ChangeIsSmall
<1>2. /\ Cardinality(Came) = (IF r \in Came THEN 1 ELSE 0)
      /\ Cardinality(Left) = (IF r \in Left THEN 1 ELSE 0)
      /\ Cardinality(Shifted) = (IF r \in Shifted THEN 1 ELSE 0)
  BY <1>1, AtMostOneRow
<1>3. /\ Cardinality(Matching) \in Nat /\ Cardinality(Matching') \in Nat
      /\ Cardinality(Matching) < Cardinality(Matching') =>
            Cardinality(Matching) + 1 = Cardinality(Matching') /\ r \in Matching' \ Matching
      /\ Cardinality(Matching') < Cardinality(Matching) =>
            Cardinality(Matching') + 1 = Cardinality(Matching) /\ r \in Matching \ Matching'
  BY <1>1, OneRowApart
<1>4. /\ Cardinality(Matching \ {r}) = IF r \in Matching THEN Cardinality(Matching) - 1 ELSE Cardinality(Matching)
      /\ Cardinality(Matching' \ {r}) = IF r \in Matching' THEN Cardinality(Matching') - 1 ELSE Cardinality(Matching')
  BY <1>1, RowsAreFew, FS_RemoveElement
<1>5. Cardinality(Matching') = Cardinality(Matching) + Cardinality(Came) - Cardinality(Left)
  <2>1. Cardinality(Matching' \ {r}) = Cardinality(Matching \ {r})
    BY <1>1
  <2>2. /\ r \in Came <=> r \in Matching' /\ r \notin Matching
        /\ r \in Left <=> r \in Matching /\ r \notin Matching'
    BY DEF Came, Left
  <2> QED  BY <1>2, <1>3, <1>4, <2>1, <2>2
<1>6. ghost.came \in Nat /\ ghost.left \in Nat /\ ghost.moved \in Nat
  BY DEF ListTypeOK
<1> QED  BY <1>1, <1>2, <1>3, <1>5, <1>6

\* A row that stays moves by one place at most, and only if another made room.
LEMMA ChangeMovesByOne ==
    ASSUME ListTypeOK, NEW r \in Ids, NEW row \in Row, Becomes([rows EXCEPT ![r] = row]),
           NEW s \in Matching \cap Matching', s \notin Shifted
    PROVE  /\ Pos(s) \in Nat /\ Pos(s)' \in Nat
           /\ Pos(s)' < Pos(s) => Pos(s)' + 1 = Pos(s) /\ r \in Left \cup Shifted
           /\ Pos(s) < Pos(s)' => Pos(s) + 1 = Pos(s)' /\ r \in Came \cup Shifted
<1>1. /\ Typed /\ Typed' /\ UNCHANGED view
      /\ Matching \in SUBSET Ids /\ Matching' \in SUBSET Ids /\ Matching' \ {r} = Matching \ {r}
      /\ \A t \in Ids \ {r} : Place(rows', t) = Place(rows, t)
  BY ChangeIsSmall, TypesHold
<1>2. /\ Matching = MatchingIn(rows) /\ Matching' = MatchingIn(rows')
      /\ Pos(s) = Cardinality(Below(rows, s)) /\ Pos(s)' = Cardinality(Below(rows', s))
  BY <1>1, TheNewTable
<1>3. Place(rows', s) = Place(rows, s)
  BY DEF Shifted
<1>4. /\ Below(rows, s) \in SUBSET Ids /\ Below(rows', s) \in SUBSET Ids
      /\ Below(rows, s) \ {r} = Below(rows', s) \ {r}
  BY <1>1, <1>2, <1>3 DEF Below, MatchingIn
<1>5. r \in Below(rows, s) \ Below(rows', s) => r \in Left \cup Shifted
  BY <1>2, <1>3 DEF Below, Left, Shifted
<1>6. r \in Below(rows', s) \ Below(rows, s) => r \in Came \cup Shifted
  BY <1>2, <1>3 DEF Below, Came, Shifted
<1> HIDE DEF Pos
<1>7. /\ Pos(s) \in Nat /\ Pos(s)' \in Nat
      /\ Pos(s)' < Pos(s) => Pos(s)' + 1 = Pos(s) /\ r \in Below(rows, s) \ Below(rows', s)
      /\ Pos(s) < Pos(s)' => Pos(s) + 1 = Pos(s)' /\ r \in Below(rows', s) \ Below(rows, s)
  BY <1>2, <1>4, OneRowApart
<1> QED  BY <1>5, <1>6, <1>7

LEMMA AgainIsFinite ==
    ASSUME ListTypeOK PROVE IsFiniteSet(Again) /\ Cardinality(Again) \in Nat
<1>1. DOMAIN Got = 1 .. Len(Got) /\ Len(Got) \in Nat
  BY GotFacts DEF Got, ListTypeOK, Walk
<1>2. IsFiniteSet(1 .. Len(Got))
  BY <1>1, FS_Interval
<1> QED  BY <1>1, <1>2, FS_Subset, FS_CardinalityType DEF Again

LEMMA ChangeShape ==
    ASSUME ListInv, NEW r \in Ids, NEW row \in Row, Becomes([rows EXCEPT ![r] = row])
    PROVE  ListTypeOK' /\ Shape'
<1>1. /\ Typed' /\ rows' = [rows EXCEPT ![r] = row] /\ UNCHANGED <<view, walk>>
      /\ changes' = changes + 1
      /\ Matching \in SUBSET Ids /\ Matching' \in SUBSET Ids
      /\ ghost' = [stayed |-> (ghost.stayed \cap Matching') \ Shifted,
                   came |-> ghost.came + Cardinality(Came),
                   left |-> ghost.left + Cardinality(Left),
                   moved |-> ghost.moved + Cardinality(Shifted),
                   tied |-> ghost.tied \/ Tied(rows)']
  BY ChangeIsSmall DEF ListInv
<1>2. /\ Cardinality(Came) \in Nat /\ Cardinality(Left) \in Nat /\ Cardinality(Shifted) \in Nat
  BY ChangeCounts DEF ListInv
<1>3. ghost.tied \in BOOLEAN /\ Tied(rows)' \in BOOLEAN
  BY DEF ListInv, ListTypeOK, Tied
<1>4. ListTypeOK'
  <2>1. ghost' \in [stayed : SUBSET Ids, came : Nat, left : Nat, moved : Nat, tied : BOOLEAN]
    <3>1. /\ (ghost.stayed \cap Matching') \ Shifted \in SUBSET Ids
          /\ ghost.came + Cardinality(Came) \in Nat /\ ghost.left + Cardinality(Left) \in Nat
          /\ ghost.moved + Cardinality(Shifted) \in Nat /\ (ghost.tied \/ Tied(rows)') \in BOOLEAN
      BY <1>1, <1>2, <1>3 DEF ListInv, ListTypeOK
    <3> QED  BY <1>1, <3>1, Zenon
  <2> QED  BY <1>1, <2>1 DEF ListInv, ListTypeOK, Typed
<1>5. PageSize' = PageSize
  BY <1>1 DEF PageSize
<1>6. ghost'.stayed \subseteq Matching' /\ (~ghost'.tied => ~Tied(rows)')
  BY <1>1, <1>3
<1> QED  BY <1>1, <1>4, <1>5, <1>6 DEF ListInv, Shape

LEMMA ChangeWaiting ==
    ASSUME ListInv, Change PROVE Waiting'
<1>1. PICK r \in Ids, row \in Row :
         /\ Becomes([rows EXCEPT ![r] = row])
         /\ \/ rows[r].status = "absent"
            \/ row.status # "absent" /\ rows[r].version <= row.version
  BY ChangesOneRow DEF ListInv
<1>2. rows' = [rows EXCEPT ![r] = row] /\ UNCHANGED <<view, walk>>
  BY <1>1, ChangeIsSmall DEF ListInv
<1>3. /\ walk.rows \in Seq(Entry) /\ rows \in [Ids -> Row]
      /\ \A i \in DOMAIN walk.rows : walk.rows[i].id \in Ids /\ walk.rows[i].version \in Nat
      /\ \A s \in Ids : rows[s].version \in Nat
      /\ row.version \in Nat
  <2>1. walk.rows \in Seq(Entry) /\ rows \in [Ids -> Row]
    BY DEF ListInv, ListTypeOK, Walk
  <2>2. \A i \in DOMAIN walk.rows : walk.rows[i] \in Entry
    BY <2>1
  <2> QED  BY <2>1, <2>2 DEF Entry, Row
<1>4. ASSUME NEW i \in DOMAIN walk.rows
      PROVE  /\ rows'[walk.rows[i].id].status # "absent"
             /\ walk.rows[i].version <= rows'[walk.rows[i].id].version
  <2>1. rows[walk.rows[i].id].status # "absent" /\ walk.rows[i].version <= rows[walk.rows[i].id].version
    BY DEF ListInv, Waiting
  <2>2. CASE walk.rows[i].id = r
    BY <1>1, <1>2, <1>3, <2>1, <2>2
  <2>3. CASE walk.rows[i].id # r
    BY <1>2, <1>3, <2>1, <2>3
  <2> QED  BY <2>2, <2>3
<1> QED  BY <1>2, <1>4 DEF ListInv, Waiting

LEMMA ChangePaging ==
    ASSUME ListInv, NEW r \in Ids, NEW row \in Row, Becomes([rows EXCEPT ![r] = row])
    PROVE  Paging'
<1> SUFFICES ASSUME ~view'.cursor, ~ghost'.tied
             PROVE  /\ Cardinality(Lost') <= ghost'.left + ghost'.moved
                    /\ Cardinality(Again') + Cardinality(Due') <= ghost'.came + ghost'.moved
  BY DEF Paging
<1>1. /\ Typed /\ rows' = [rows EXCEPT ![r] = row] /\ UNCHANGED <<view, walk>>
      /\ Matching \in SUBSET Ids /\ Matching' \in SUBSET Ids
      /\ ghost'.stayed = (ghost.stayed \cap Matching') \ Shifted
      /\ ghost'.tied = (ghost.tied \/ Tied(rows)')
  BY ChangeIsSmall, TypesHold DEF ListInv
<1>2. /\ ghost.came \in Nat /\ ghost.left \in Nat /\ ghost.moved \in Nat
      /\ ghost'.came \in Nat /\ ghost'.left \in Nat /\ ghost'.moved \in Nat
      /\ ghost.came <= ghost'.came /\ ghost.left <= ghost'.left /\ ghost.moved <= ghost'.moved
      /\ r \in Left \cup Shifted => ghost.left + ghost.moved + 1 <= ghost'.left + ghost'.moved
      /\ r \in Came \cup Shifted => ghost.came + ghost.moved + 1 <= ghost'.came + ghost'.moved
  BY ChangeCounts DEF ListInv
<1>3. ~view.cursor /\ ~ghost.tied /\ ~Tied(rows) /\ ghost.stayed \subseteq Matching
  BY <1>1 DEF ListInv, Shape
<1>4. /\ Got' = Got /\ (Closing' <=> Closing) /\ Len(Got) \in Nat
      /\ \A s : Shown(s)' <=> Shown(s)
  <2>1. Got' = Got /\ (Closing' <=> Closing)
    BY <1>1 DEF Got, Closing, PageSize
  <2>2. Len(Got) \in Nat
    BY GotFacts DEF Got, ListInv, ListTypeOK, Walk
  <2> QED  BY <2>1, <2>2 DEF Shown
<1>5. ASSUME NEW s \in ghost'.stayed
      PROVE  /\ s \in ghost.stayed /\ s \in Matching /\ Pos(s) \in Nat /\ Pos(s)' \in Nat
             /\ Pos(s)' < Pos(s) => Pos(s)' + 1 = Pos(s) /\ r \in Left \cup Shifted
             /\ Pos(s) < Pos(s)' => Pos(s) + 1 = Pos(s)' /\ r \in Came \cup Shifted
  <2>1. s \in ghost.stayed /\ s \in Matching \cap Matching' /\ s \notin Shifted
    BY <1>1, <1>3
  <2> QED  BY <2>1, ChangeMovesByOne DEF ListInv
<1>6. \A s, t \in Matching : Pos(s) = Pos(t) => s = t
  BY <1>1, <1>3, RanksAreAll DEF Pos
<1>7. \A s \in ghost.stayed : Passed(s) <=> (Closing \/ Pos(s) < Len(Got))
  BY DEF Passed
<1>8. \A s : Passed(s)' <=> (Closing \/ Pos(s)' < Len(Got))
  BY <1>4 DEF Passed
<1>9. /\ Lost \in SUBSET Ids /\ Lost' \in SUBSET Ids /\ Due \in SUBSET Ids /\ Due' \in SUBSET Ids
  BY <1>1, <1>3 DEF Lost, Due
<1>10. Cardinality(Lost') <= ghost'.left + ghost'.moved
  <2>1. \A s \in Lost' \ Lost : Pos(s) = Len(Got) /\ s \in Matching /\ r \in Left \cup Shifted
    <3> SUFFICES ASSUME NEW s \in Lost', s \notin Lost
                 PROVE  Pos(s) = Len(Got) /\ s \in Matching /\ r \in Left \cup Shifted
      OBVIOUS
    <3>1. s \in ghost'.stayed /\ ~Shown(s) /\ (Closing \/ Pos(s)' < Len(Got))
      BY <1>4, <1>8 DEF Lost
    <3>2. ~Closing /\ ~(Pos(s) < Len(Got))
      BY <1>5, <1>7, <3>1 DEF Lost
    <3> QED  BY <1>4, <1>5, <3>1, <3>2
  <2>2. IsFiniteSet(Lost) /\ Cardinality(Lost) \in Nat /\ Cardinality(Lost') \in Nat
    BY <1>9, RowsAreFew
  <2>3. Cardinality(Lost) <= ghost.left + ghost.moved
    BY <1>3 DEF ListInv, Paging
  <2>4. CASE Lost' \subseteq Lost
    <3>1. Cardinality(Lost') <= Cardinality(Lost)
      BY <2>2, <2>4, FS_Subset
    <3> QED  BY <1>2, <2>2, <2>3, <3>1
  <2>5. CASE ~(Lost' \subseteq Lost)
    <3>1. PICK s \in Lost' : s \notin Lost
      BY <2>5
    <3>2. Lost' \subseteq Lost \cup {s} /\ r \in Left \cup Shifted
      BY <1>6, <2>1, <3>1
    <3>3. IsFiniteSet(Lost \cup {s}) /\ Cardinality(Lost \cup {s}) = Cardinality(Lost) + 1
      BY <2>2, <3>1, FS_AddElement
    <3>4. Cardinality(Lost') <= Cardinality(Lost) + 1
      BY <3>2, <3>3, FS_Subset
    <3> QED  BY <1>2, <2>2, <2>3, <3>2, <3>4
  <2> QED  BY <2>4, <2>5
<1>11. IsFiniteSet(Again) /\ Cardinality(Again) \in Nat /\ Cardinality(Again') \in Nat
       /\ Cardinality(Again') <= Cardinality(Again)
  <2>1. Again' \subseteq Again
    BY <1>1, <1>4 DEF Again
  <2>2. IsFiniteSet(Again)
    BY AgainIsFinite DEF ListInv
  <2> QED  BY <2>1, <2>2, FS_Subset, FS_CardinalityType
<1>12. Cardinality(Again') + Cardinality(Due') <= ghost'.came + ghost'.moved
  <2>1. \A s \in Due' \ Due : Pos(s) + 1 = Len(Got) /\ s \in Matching /\ r \in Came \cup Shifted
    <3> SUFFICES ASSUME NEW s \in Due', s \notin Due
                 PROVE  Pos(s) + 1 = Len(Got) /\ s \in Matching /\ r \in Came \cup Shifted
      OBVIOUS
    <3>1. s \in ghost'.stayed /\ Shown(s) /\ ~Closing /\ ~(Pos(s)' < Len(Got))
      BY <1>4, <1>8 DEF Due
    <3>2. Pos(s) < Len(Got)
      BY <1>5, <1>7, <3>1 DEF Due
    <3> QED  BY <1>4, <1>5, <3>1, <3>2
  <2>2. IsFiniteSet(Due) /\ Cardinality(Due) \in Nat /\ Cardinality(Due') \in Nat
    BY <1>9, RowsAreFew
  <2>3. Cardinality(Again) + Cardinality(Due) <= ghost.came + ghost.moved
    BY <1>3 DEF ListInv, Paging
  <2>4. CASE Due' \subseteq Due
    <3>1. Cardinality(Due') <= Cardinality(Due)
      BY <2>2, <2>4, FS_Subset
    <3> QED  BY <1>2, <1>11, <2>2, <2>3, <3>1
  <2>5. CASE ~(Due' \subseteq Due)
    <3>1. PICK s \in Due' : s \notin Due
      BY <2>5
    <3>2. Due' \subseteq Due \cup {s} /\ r \in Came \cup Shifted
      <4>1. ASSUME NEW t \in Due', t \notin Due PROVE t = s
        <5>1. Pos(t) + 1 = Pos(s) + 1 /\ t \in Matching /\ s \in Matching
              /\ t \in ghost'.stayed /\ s \in ghost'.stayed
          BY <2>1, <3>1, <4>1 DEF Due
        <5>2. Pos(t) = Pos(s)
          BY <1>5, <5>1
        <5> QED  BY <1>6, <5>1, <5>2
      <4> QED  BY <2>1, <3>1, <4>1
    <3>3. IsFiniteSet(Due \cup {s}) /\ Cardinality(Due \cup {s}) = Cardinality(Due) + 1
      BY <2>2, <3>1, FS_AddElement
    <3>4. Cardinality(Due') <= Cardinality(Due) + 1
      BY <3>2, <3>3, FS_Subset
    <3> QED  BY <1>2, <1>11, <2>2, <2>3, <3>2, <3>4
  <2> QED  BY <2>4, <2>5
<1> QED  BY <1>10, <1>12

LEMMA ChangeCounting ==
    ASSUME ListInv, NEW r \in Ids, NEW row \in Row, Becomes([rows EXCEPT ![r] = row])
    PROVE  Counting'
<1>1. UNCHANGED <<view, walk>>
  BY ChangeIsSmall DEF ListInv
<1>2. /\ ghost.came \in Nat /\ ghost.left \in Nat
      /\ ghost'.came = ghost.came + Cardinality(Came) /\ ghost'.left = ghost.left + Cardinality(Left)
      /\ Cardinality(Came) \in Nat /\ Cardinality(Left) \in Nat
      /\ Cardinality(Matching) \in Nat /\ Cardinality(Matching') \in Nat
      /\ Cardinality(Matching') = Cardinality(Matching) + Cardinality(Came) - Cardinality(Left)
  BY ChangeCounts DEF ListInv
<1>3. /\ Got' = Got /\ (Closing' <=> Closing) /\ Len(Got) \in Nat /\ walk.total \in Nat
  <2>1. Got' = Got /\ (Closing' <=> Closing)
    BY <1>1 DEF Got, Closing, PageSize
  <2>2. Len(Got) \in Nat /\ walk.total \in Nat
    BY GotFacts DEF Got, ListInv, ListTypeOK, Walk
  <2> QED  BY <2>1, <2>2
<1> SUFFICES ASSUME ~view.cursor
             PROVE  /\ Len(Got) <= Cardinality(Matching') + ghost'.left
                    /\ view.counts /\ walk.at = "page" =>
                          /\ walk.total <= Cardinality(Matching') + ghost'.left
                          /\ Cardinality(Matching') <= walk.total + ghost'.came
                    /\ view.counts /\ Closing =>
                          /\ walk.total <= Len(Got) + ghost'.left + ghost'.came
                          /\ Len(Got) <= walk.total + ghost'.left + ghost'.came
  BY <1>1, <1>3 DEF Counting
<1>4. /\ Len(Got) <= Cardinality(Matching) + ghost.left
      /\ view.counts /\ walk.at = "page" =>
            /\ walk.total <= Cardinality(Matching) + ghost.left
            /\ Cardinality(Matching) <= walk.total + ghost.came
      /\ view.counts /\ Closing =>
            /\ walk.total <= Len(Got) + ghost.left + ghost.came
            /\ Len(Got) <= walk.total + ghost.left + ghost.came
  BY DEF ListInv, Counting
<1> DEFINE G == Len(Got)
           m == Cardinality(Matching)
           total == walk.total
<1> HIDE DEF G, m, total
<1>5. /\ G \in Nat /\ total \in Nat /\ m \in Nat
      /\ Cardinality(Matching') = m + Cardinality(Came) - Cardinality(Left)
  BY <1>2, <1>3 DEF G, m, total
<1>6. /\ G <= m + ghost.left => G <= Cardinality(Matching') + ghost'.left
      /\ total <= m + ghost.left => total <= Cardinality(Matching') + ghost'.left
      /\ m <= total + ghost.came => Cardinality(Matching') <= total + ghost'.came
      /\ total <= G + ghost.left + ghost.came => total <= G + ghost'.left + ghost'.came
      /\ G <= total + ghost.left + ghost.came => G <= total + ghost'.left + ghost'.came
  BY <1>2, <1>5
<1> QED  BY <1>4, <1>6 DEF G, m, total

\* Messages are only sent, never changed.
LEMMA ChangeAtTheCursor ==
    ASSUME ListInv, Change PROVE AtTheCursor'
<1>1. PICK r \in Ids, row \in Row :
         /\ Becomes([rows EXCEPT ![r] = row])
         /\ view.table = "messages" => rows[r].status = "absent"
  BY ChangesOneRow DEF ListInv
<1>2. /\ rows' = [rows EXCEPT ![r] = row] /\ UNCHANGED <<view, walk>>
      /\ ghost'.stayed = (ghost.stayed \cap Matching') \ Shifted
      /\ \A s \in Ids \ {r} : rows'[s] = rows[s]
  BY <1>1, ChangeIsSmall DEF ListInv
<1> SUFFICES ASSUME view.cursor PROVE AtTheCursor'
  BY <1>2 DEF AtTheCursor
<1>3. view = Messages /\ rows[r].status = "absent"
  BY <1>1, PageSizes, MessagesFacts DEF ListInv, ListTypeOK
<1>4. r \notin Matching /\ Matching \subseteq Ids /\ ghost.stayed \subseteq Matching
  BY <1>3, MessagesFacts DEF Matching, MatchingIn, ListInv, Shape
<1>5. \A i \in DOMAIN walk.seen : walk.seen[i].id \in Ids
  <2>1. walk.seen \in Seq(Entry)
    BY DEF ListInv, ListTypeOK, Walk
  <2>2. \A i \in DOMAIN walk.seen : walk.seen[i] \in Entry
    BY <2>1
  <2> QED  BY <2>2 DEF Entry
<1>6. ASSUME NEW i \in DOMAIN walk.seen
      PROVE  /\ rows[walk.seen[i].id].status # "absent" /\ walk.before # <<>>
             /\ walk.before[1] <= rows[walk.seen[i].id].made
             /\ rows'[walk.seen[i].id] = rows[walk.seen[i].id]
  <2>1. /\ rows[walk.seen[i].id].status # "absent" /\ walk.before # <<>>
        /\ walk.before[1] <= rows[walk.seen[i].id].made
    BY DEF ListInv, AtTheCursor
  <2>2. walk.seen[i].id \in Ids \ {r}
    BY <1>3, <1>5, <2>1
  <2> QED  BY <1>2, <2>1, <2>2
<1>7. ASSUME NEW s \in ghost'.stayed
      PROVE  Shown(s)' \/ Neighbour(s)' \/ (walk'.at # "done" /\ s \in Asked')
  <2>1. s \in ghost.stayed /\ s \in Matching /\ s \in Matching' /\ s # r /\ s \in Ids
    BY <1>2, <1>4
  <2>2. rows'[s] = rows[s]
    BY <1>2, <2>1
  <2>3. Shown(s) \/ Neighbour(s) \/ (walk.at # "done" /\ s \in Asked)
    BY <2>1 DEF ListInv, AtTheCursor
  <2>4. Shown(s) => Shown(s)'
    BY <1>2 DEF Shown, Got
  <2>5. Neighbour(s) => Neighbour(s)'
    BY <1>2, <1>6, <2>2 DEF Neighbour
  <2>6. walk.at # "done" /\ s \in Asked => walk'.at # "done" /\ s \in Asked'
    BY <1>2, <2>1, <2>2 DEF Asked
  <2> QED  BY <2>3, <2>4, <2>5, <2>6
<1>8. \A i, j \in DOMAIN walk.seen : walk.seen[i].id = walk.seen[j].id => i = j
  BY DEF ListInv, AtTheCursor
<1> QED  BY <1>2, <1>6, <1>7, <1>8 DEF AtTheCursor

LEMMA ChangeKeeps ==
    ASSUME ListInv, Change PROVE ListInv'
<1>1. PICK r \in Ids, row \in Row : Becomes([rows EXCEPT ![r] = row])
  BY ChangesOneRow DEF ListInv
<1>2. ListTypeOK' /\ Shape' /\ Paging' /\ Counting'
  BY <1>1, ChangeShape, ChangePaging, ChangeCounting
<1> QED  BY <1>2, ChangeWaiting, ChangeAtTheCursor DEF ListInv

-----------------------------------------------------------------------------
(* What an answer does *)

\* LIMIT and OFFSET cut a piece out of a sequence: all of it, or what is left.
LEMMA CutFacts ==
    ASSUME NEW set, NEW s \in Seq(set), NEW off \in Nat, NEW lim \in Nat \ {0}, NEW c,
           c = Cut(s, [limit |-> lim, offset |-> off])
    PROVE  /\ c \in Seq(set) /\ Len(c) \in Nat /\ Len(c) <= lim /\ DOMAIN c = 1 .. Len(c)
           /\ \A i \in 1 .. Len(c) : off + i \in 1 .. Len(s) /\ c[i] = s[off + i]
           /\ \A k \in 1 .. Len(s) : off < k /\ (k <= off + Len(c) \/ Len(c) < lim) => k - off \in 1 .. Len(c)
           /\ Len(c) > 0 => off + Len(c) <= Len(s)
           /\ Len(c) < lim => (off <= Len(s) /\ off + Len(c) = Len(s)) \/ (Len(s) < off /\ Len(c) = 0)
<1> DEFINE last == IF off + lim < Len(s) THEN off + lim ELSE Len(s)
<1>1. Len(s) \in Nat /\ last \in Nat /\ last <= Len(s) /\ off + 1 \in Int /\ last \in Int
      /\ \A i \in 1 .. Len(s) : s[i] \in set
  OBVIOUS
<1>2. c = SubSeq(s, off + 1, last)
  BY DEF Cut
<1>3. \A i \in (off + 1) .. last : s[i] \in set
  BY <1>1
<1>4. /\ c \in Seq(set) /\ Len(c) = (IF off + 1 <= last THEN last - (off + 1) + 1 ELSE 0)
      /\ \A i \in 1 .. (last - (off + 1) + 1) : c[i] = s[off + 1 + i - 1]
  <2> HIDE DEF last
  <2> DEFINE m == off + 1
  <2>1. m \in Int /\ last \in Int /\ \A i \in m .. last : s[i] \in set
    BY <1>1, <1>3
  <2> HIDE DEF m
  <2>2. /\ SubSeq(s, m, last) \in Seq(set)
        /\ Len(SubSeq(s, m, last)) = (IF m <= last THEN last - m + 1 ELSE 0)
        /\ \A i \in 1 .. (last - m + 1) : SubSeq(s, m, last)[i] = s[m + i - 1]
    BY <2>1, SubSeqProperties
  <2> QED  BY <1>2, <2>2 DEF m
<1>5. Len(c) = IF off < last THEN last - off ELSE 0
  <2> HIDE DEF last
  <2> QED  BY <1>1, <1>4
<1>6. \A i \in 1 .. Len(c) : off + i \in 1 .. Len(s) /\ c[i] = s[off + i]
  <2> SUFFICES ASSUME NEW i \in 1 .. Len(c) PROVE off + i \in 1 .. Len(s) /\ c[i] = s[off + i]
    OBVIOUS
  <2> HIDE DEF last
  <2>1. i \in 1 .. (last - (off + 1) + 1) /\ off + 1 + i - 1 = off + i /\ off + i \in 1 .. Len(s)
    BY <1>1, <1>5
  <2> QED  BY <1>4, <2>1
<1>7. Len(c) \in Nat /\ DOMAIN c = 1 .. Len(c)
  BY <1>4
<1>8. Len(c) <= lim
  BY <1>1, <1>5
<1>9. \A k \in 1 .. Len(s) : off < k /\ (k <= off + Len(c) \/ Len(c) < lim) => k - off \in 1 .. Len(c)
  BY <1>1, <1>5
<1>10. Len(c) > 0 => off + Len(c) <= Len(s)
  BY <1>1, <1>5
<1>11. Len(c) < lim => (off <= Len(s) /\ off + Len(c) = Len(s)) \/ (Len(s) < off /\ Len(c) = 0)
  BY <1>1, <1>5
<1> QED  BY <1>4, <1>6, <1>7, <1>8, <1>9, <1>10, <1>11

LEMMA Rounding ==
    ASSUME NEW stamp \in Nat
    PROVE  /\ NormalizeTimestamp(stamp) \in Nat /\ NormalizeTimestamp(stamp) <= stamp
           /\ \A other \in Nat : NormalizeTimestamp(stamp) <= other /\ other <= stamp
                 => stamp \div Tick = other \div Tick
BY ListingAssumption DEF NormalizeTimestamp

LEMMA AnsweredFacts ==
    ASSUME ListTypeOK, NEW entries \in Seq(Entry), walk' = Answered(walk, entries)
    PROVE  /\ walk' \in Walk
           /\ walk'.at = (IF Len(entries) < PageSize THEN "done" ELSE First)
           /\ walk'.page = walk.page + 1 /\ walk'.seen = walk.seen \o entries /\ walk'.rows = <<>>
           /\ walk'.total = walk.total
           /\ walk'.before = IF view.cursor /\ entries # <<>>
                             THEN <<NormalizeTimestamp(rows[entries[Len(entries)].id].made)>>
                             ELSE walk.before
<1>1. /\ walk \in Walk /\ walk.page \in Nat \ {0} /\ walk.seen \in Seq(Entry) /\ walk.before \in Seq(Nat)
      /\ rows \in [Ids -> Row]
  BY DEF ListTypeOK, Walk
<1>2. walk.seen \o entries \in Seq(Entry) /\ <<>> \in Seq(Entry) /\ walk.page + 1 \in Nat \ {0}
  BY <1>1
<1>3. entries # <<>> => <<NormalizeTimestamp(rows[entries[Len(entries)].id].made)>> \in Seq(Nat)
  <2> SUFFICES ASSUME entries # <<>>
               PROVE  <<NormalizeTimestamp(rows[entries[Len(entries)].id].made)>> \in Seq(Nat)
    OBVIOUS
  <2>1. entries[Len(entries)] \in Entry
    OBVIOUS
  <2>2. rows[entries[Len(entries)].id].made \in Nat
    BY <1>1, <2>1, ListingAssumption DEF Entry, Row
  <2>3. NormalizeTimestamp(rows[entries[Len(entries)].id].made) \in Nat
    BY <2>2, Rounding
  <2> QED  BY <2>3
<1>4. First \in {"count", "page"}
  BY DEF First
<1>5. /\ walk'.at = (IF Len(entries) < PageSize THEN "done" ELSE First)
      /\ walk'.page = walk.page + 1 /\ walk'.seen = walk.seen \o entries /\ walk'.rows = <<>>
      /\ walk'.total = walk.total
      /\ walk'.before = IF view.cursor /\ entries # <<>>
                        THEN <<NormalizeTimestamp(rows[entries[Len(entries)].id].made)>>
                        ELSE walk.before
  BY <1>1 DEF Answered, Walk
<1>6. walk' \in Walk
  <2> DEFINE at == IF Len(entries) < PageSize THEN "done" ELSE First
             before == IF view.cursor /\ entries # <<>>
                       THEN <<NormalizeTimestamp(rows[entries[Len(entries)].id].made)>>
                       ELSE walk.before
  <2>1. at \in {"count", "page", "done"} /\ before \in Seq(Nat)
    BY <1>1, <1>3, <1>4
  <2>2. walk' = [walk EXCEPT !.at = at, !.page = @ + 1, !.seen = @ \o entries, !.rows = <<>>, !.before = before]
    BY DEF Answered
  <2> HIDE DEF at, before
  <2> QED  BY <1>1, <1>2, <2>1, <2>2 DEF Walk
<1> QED  BY <1>5, <1>6

\* A page is the piece of the sorted rows that comes next.
Off == IF view.cursor THEN 0 ELSE Len(walk.seen)
PageOf(s, found) ==
    /\ Len(found) \in Nat /\ Len(found) <= PageSize
    /\ \A i \in 1 .. Len(found) :
          /\ Off + i \in 1 .. Cardinality(Asked) /\ found[i].id = s[Off + i]
          /\ found[i].id \in Asked /\ found[i].version = rows[found[i].id].version
    /\ \A k \in 1 .. Cardinality(Asked) :
          Off < k /\ (k <= Off + Len(found) \/ Len(found) < PageSize) => k - Off \in 1 .. Len(found)
    /\ Len(found) > 0 => Off + Len(found) <= Cardinality(Asked)
    /\ Len(found) < PageSize =>
          \/ Off <= Cardinality(Asked) /\ Off + Len(found) = Cardinality(Asked)
          \/ Cardinality(Asked) < Off /\ Len(found) = 0
Waits(found) == view.attaches /\ found # <<>> /\ walk' = [walk EXCEPT !.at = "attach", !.rows = found]
Answers(found) == (view.attaches => found = <<>>) /\ walk' = Answered(walk, found)

LEMMA AskedRows ==
    ASSUME ListInv
    PROVE  /\ Asked \in SUBSET Matching /\ (~view.cursor => Asked = Matching)
           /\ Matching \in SUBSET Ids
           /\ Off \in Nat /\ PageSize \in Nat \ {0} /\ rows \in [Ids -> Row] /\ view \in Views
BY PageSizes DEF ListInv, ListTypeOK, Walk, Shape, Asked, Off, Matching, MatchingIn

LEMMA PageIsRead ==
    ASSUME ListInv, SelectPage
    PROVE  \E s \in Sorted(Asked), found \in Seq(Entry) :
              PageOf(s, found) /\ (Waits(found) \/ Answers(found))
<1>1. /\ Asked \in SUBSET Matching /\ Off \in Nat /\ PageSize \in Nat \ {0}
      /\ rows \in [Ids -> Row] /\ Matching \in SUBSET Ids
  BY AskedRows
<1>2. walk.at = "page"
  BY DEF SelectPage
<1> DEFINE p == IF view.cursor THEN [limit |-> PageSize, offset |-> 0]
                               ELSE ResolveOffsetPagination(walk.page)
<1>3. p = [limit |-> PageSize, offset |-> Off]
  BY <1>2, SMTT(40) DEF ResolveOffsetPagination, Off, ListInv, Shape
<1>4. PICK s \in Sorted(Asked) :
        LET cut == Cut(s, p)
            found == [i \in 1 .. Len(cut) |-> [id |-> cut[i], version |-> rows[cut[i]].version, kids |-> 0]]
        IN  walk' = IF view.attaches /\ found # <<>>
                    THEN [walk EXCEPT !.at = "attach", !.rows = found]
                    ELSE Answered(walk, found)
  BY DEF SelectPage
<1> DEFINE cut == Cut(s, p)
           found == [i \in 1 .. Len(cut) |-> [id |-> cut[i], version |-> rows[cut[i]].version, kids |-> 0]]
<1>5. s \in Seq(Asked) /\ Len(s) = Cardinality(Asked) /\ Cardinality(Asked) \in Nat
  BY <1>1, SortedRows, TypesHold DEF ListInv
<1>6. /\ cut \in Seq(Asked) /\ Len(cut) \in Nat /\ Len(cut) <= PageSize /\ DOMAIN cut = 1 .. Len(cut)
      /\ \A i \in 1 .. Len(cut) : Off + i \in 1 .. Len(s) /\ cut[i] = s[Off + i]
      /\ \A k \in 1 .. Len(s) : Off < k /\ (k <= Off + Len(cut) \/ Len(cut) < PageSize) => k - Off \in 1 .. Len(cut)
      /\ Len(cut) > 0 => Off + Len(cut) <= Len(s)
      /\ Len(cut) < PageSize => (Off <= Len(s) /\ Off + Len(cut) = Len(s)) \/ (Len(s) < Off /\ Len(cut) = 0)
  <2>1. cut = Cut(s, [limit |-> PageSize, offset |-> Off])
    BY <1>3
  <2> HIDE DEF cut
  <2> QED  BY <1>1, <1>5, <2>1, CutFacts, SMTT(30)
<1>7. (view.attaches /\ found # <<>> /\ walk' = [walk EXCEPT !.at = "attach", !.rows = found])
      \/ (~(view.attaches /\ found # <<>>) /\ walk' = Answered(walk, found))
  BY <1>4
<1> HIDE DEF p, cut
<1>8. \A i \in 1 .. Len(cut) : cut[i] \in Asked /\ cut[i] \in Ids /\ rows[cut[i]].version \in Nat
  <2>1. \A i \in 1 .. Len(cut) : cut[i] \in Asked
    BY <1>6
  <2> QED  BY <1>1, <2>1 DEF Row
<1>9. found \in Seq(Entry) /\ Len(found) = Len(cut)
  <2>1. found \in [1 .. Len(cut) -> Entry]
    BY <1>8 DEF Entry
  <2> QED  BY <1>6, <2>1
<1>10. \A i \in 1 .. Len(cut) : found[i].id = cut[i] /\ found[i].version = rows[cut[i]].version
  OBVIOUS
<1> HIDE DEF found
<1>11. PageOf(s, found)
  BY <1>5, <1>6, <1>8, <1>9, <1>10 DEF PageOf
<1>12. Waits(found) \/ Answers(found)
  BY <1>7 DEF Waits, Answers
<1> QED  BY <1>4, <1>9, <1>11, <1>12

\* What was read then.
LEMMA PageIsGot ==
    ASSUME ListInv, SelectPage, NEW found \in Seq(Entry), Len(found) <= PageSize,
           Waits(found) \/ Answers(found), UNCHANGED <<view, rows>>
    PROVE  /\ walk' \in Walk /\ Got = walk.seen /\ Got' = walk.seen \o found /\ ~Closing
           /\ walk.seen \in Seq(Entry) /\ walk.rows = <<>> /\ walk.at = "page"
           /\ Closing' <=> Len(found) < PageSize
           /\ walk'.total = walk.total
           /\ Waits(found) => /\ walk'.at = "attach" /\ walk'.rows = found /\ walk'.seen = walk.seen
                              /\ walk'.page = walk.page /\ walk'.before = walk.before
<1>1. walk.at = "page" /\ walk.rows = <<>> /\ walk \in Walk /\ PageSize' = PageSize
  BY DEF SelectPage, ListInv, ListTypeOK, Shape, PageSize
<1>2. Got = walk.seen /\ ~Closing /\ walk.seen \in Seq(Entry)
  BY <1>1, NothingWaits DEF ListInv, Closing
<1>3. CASE Waits(found)
  <2>1. /\ walk' \in Walk /\ walk'.at = "attach" /\ walk'.rows = found /\ walk'.seen = walk.seen
        /\ walk'.page = walk.page /\ walk'.total = walk.total /\ walk'.before = walk.before
    BY <1>1, <1>3 DEF Waits, Walk
  <2> QED  BY <1>1, <1>2, <2>1 DEF Got, Closing
<1>4. CASE Answers(found) /\ ~Waits(found)
  <2>1. /\ walk' \in Walk /\ walk'.at = (IF Len(found) < PageSize THEN "done" ELSE First)
        /\ walk'.seen = walk.seen \o found /\ walk'.rows = <<>> /\ walk'.total = walk.total
    BY <1>4, AnsweredFacts DEF ListInv, Answers
  <2>2. Got' = walk.seen \o found
    <3>1. walk.seen \o found \in Seq(Entry)
      BY <1>2
    <3>2. Got' = (walk.seen \o found) \o <<>>
      BY <2>1 DEF Got
    <3> QED  BY <3>1, <3>2
  <2>3. Closing' <=> Len(found) < PageSize
    BY <1>1, <2>1 DEF Closing, First
  <2> QED  BY <1>1, <1>2, <1>4, <2>1, <2>2, <2>3
<1> QED  BY <1>3, <1>4

LEMMA NextPage ==
    ASSUME NEW page \in Nat \ {0}, NEW next, next = page + 1, NEW size \in Nat
    PROVE  (next - 1) * size = (page - 1) * size + size
<1>1. page - 1 \in Nat /\ next - 1 = (page - 1) + 1
  OBVIOUS
<1>2. \A n \in Nat : (n + 1) * size = n * size + size
  OBVIOUS
<1>3. \A n, k : n = k => n * size = k * size
  BY Zenon
<1>4. (next - 1) * size = ((page - 1) + 1) * size
  BY <1>1, <1>3, Zenon
<1>5. ((page - 1) + 1) * size = (page - 1) * size + size
  BY <1>1, <1>2, Zenon
<1> QED  BY <1>4, <1>5, Zenon

\* An answered page counts as one page.
LEMMA AnswerShape ==
    ASSUME ListInv, NEW entries \in Seq(Entry), walk' = Answered(walk, entries),
           Len(entries) <= PageSize, walk.at \in {"page", "attach"},
           UNCHANGED <<view, rows, changes, ghost>>
    PROVE  ListTypeOK' /\ Shape'
<1>1. /\ walk' \in Walk
      /\ walk'.at = (IF Len(entries) < PageSize THEN "done" ELSE First)
      /\ walk'.page = walk.page + 1 /\ walk'.seen = walk.seen \o entries /\ walk'.rows = <<>>
      /\ walk'.before = IF view.cursor /\ entries # <<>>
                        THEN <<NormalizeTimestamp(rows[entries[Len(entries)].id].made)>>
                        ELSE walk.before
  BY AnsweredFacts DEF ListInv
<1>2. ListTypeOK'
  BY <1>1 DEF ListInv, ListTypeOK
<1>3. PageSize' = PageSize /\ PageSize \in Nat \ {0} /\ Matching' = Matching /\ (Tied(rows)' <=> Tied(rows))
  <2>1. PageSize' = PageSize /\ Matching' = Matching /\ (Tied(rows)' <=> Tied(rows))
    BY DEF PageSize, Matching, MatchingIn, Tied, Place
  <2> QED  BY <2>1, PageSizes DEF ListInv, ListTypeOK
<1>4. walk'.at # "attach"
  BY <1>1 DEF First
<1>5. ~view.cursor /\ walk'.at # "done" => Len(walk'.seen) = (walk'.page - 1) * PageSize
  <2> SUFFICES ASSUME ~view.cursor, walk'.at # "done"
               PROVE  Len(walk'.seen) = (walk'.page - 1) * PageSize
    OBVIOUS
  <2>1. walk.page \in Nat \ {0} /\ walk.seen \in Seq(Entry) /\ Len(entries) \in Nat
    BY DEF ListInv, ListTypeOK, Walk
  <2>2. Len(entries) = PageSize
    BY <1>1, <1>3, <2>1
  <2>3. Len(walk.seen) = (walk.page - 1) * PageSize
    BY DEF ListInv, Shape
  <2>4. Len(walk'.seen) = Len(walk.seen) + Len(entries)
    BY <1>1, <2>1
  <2>5. (walk'.page - 1) * PageSize = (walk.page - 1) * PageSize + PageSize
    <3>1. walk'.page = walk.page + 1
      BY <1>1
    <3>2. walk.page \in Nat \ {0} /\ PageSize \in Nat
      BY <1>3, <2>1
    <3> QED  BY <3>1, <3>2, NextPage, ZenonT(60)
  <2> QED  BY <2>2, <2>3, <2>4, <2>5, Zenon
<1> QED  BY <1>1, <1>2, <1>3, <1>4, <1>5 DEF ListInv, Shape

LEMMA PageShape ==
    ASSUME ListInv, SelectPage, UNCHANGED <<view, rows, changes, ghost>>
    PROVE  ListTypeOK' /\ Shape'
<1>1. PICK s \in Sorted(Asked), found \in Seq(Entry) : PageOf(s, found) /\ (Waits(found) \/ Answers(found))
  BY PageIsRead, ZenonT(30)
<1>2. CASE Answers(found)
  BY <1>1, <1>2, AnswerShape DEF Answers, PageOf, SelectPage
<1>3. CASE Waits(found)
  <2>1. /\ walk' \in Walk /\ walk'.at = "attach" /\ walk'.rows = found /\ walk'.seen = walk.seen
        /\ walk'.page = walk.page /\ walk'.before = walk.before /\ walk.at = "page"
    BY <1>1, <1>3, PageIsGot DEF PageOf
  <2>2. PageSize' = PageSize /\ Matching' = Matching /\ (Tied(rows)' <=> Tied(rows))
    BY DEF PageSize, Matching, MatchingIn, Tied, Place
  <2> QED  BY <1>1, <1>3, <2>1, <2>2 DEF ListInv, ListTypeOK, Shape, Waits, PageOf
<1> QED  BY <1>1, <1>2, <1>3

\* What was read a moment ago is as old as its row.
LEMMA PageWaiting ==
    ASSUME ListInv, SelectPage, UNCHANGED <<view, rows, changes, ghost>>
    PROVE  Waiting'
<1>1. PICK s \in Sorted(Asked), found \in Seq(Entry) : PageOf(s, found) /\ (Waits(found) \/ Answers(found))
  BY PageIsRead, ZenonT(30)
<1>2. CASE Waits(found)
  <2>1. walk'.rows = found /\ walk'.seen = walk.seen
    BY <1>1, <1>2, PageIsGot DEF PageOf
  <2>2. ASSUME NEW i \in 1 .. Len(found)
        PROVE  rows[found[i].id].status # "absent" /\ found[i].version <= rows[found[i].id].version
    <3>1. found[i].id \in Matching /\ found[i].version = rows[found[i].id].version
      BY <1>1, AskedRows DEF PageOf
    <3>2. rows[found[i].id] \in Row /\ rows[found[i].id].status \in view.shows
      BY <3>1 DEF Matching, MatchingIn, ListInv, ListTypeOK
    <3>3. view.shows \subseteq {"shown", "hidden"}
      BY ListsAreViews DEF View, ListInv, ListTypeOK
    <3> QED  BY <3>1, <3>2, <3>3 DEF Row
  <2> QED  BY <2>1, <2>2 DEF Waiting, ListInv
<1>3. CASE Answers(found)
  <2>1. walk'.seen = walk.seen \o found /\ walk'.rows = <<>> /\ walk.seen \in Seq(Entry)
    BY <1>3, AnsweredFacts DEF Answers, ListInv, ListTypeOK, Walk
  <2>2. view.attaches => walk'.seen = walk.seen
    BY <1>3, <2>1 DEF Answers
  <2> QED  BY <2>1, <2>2 DEF Waiting, ListInv
<1> QED  BY <1>1, <1>2, <1>3

LEMMA PageCounting ==
    ASSUME ListInv, SelectPage, UNCHANGED <<view, rows, changes, ghost>>
    PROVE  Counting'
<1> SUFFICES ASSUME ~view.cursor PROVE Counting'
  BY DEF Counting
<1>1. PICK s \in Sorted(Asked), found \in Seq(Entry) : PageOf(s, found) /\ (Waits(found) \/ Answers(found))
  BY PageIsRead, ZenonT(30)
<1>2. /\ Got = walk.seen /\ Got' = walk.seen \o found /\ walk.seen \in Seq(Entry) /\ walk'.total = walk.total
      /\ Closing' <=> Len(found) < PageSize
      /\ walk.at = "page" /\ (Waits(found) => walk'.at = "attach")
  BY <1>1, PageIsGot DEF PageOf
<1>3. Matching' = Matching /\ Asked = Matching /\ Cardinality(Matching) \in Nat
  BY AskedRows, RowsAreFew DEF Matching, MatchingIn
<1> DEFINE G == Len(walk.seen)
           m == Cardinality(Matching)
           n == Len(found)
<1>4. G \in Nat /\ m \in Nat /\ n \in Nat /\ Len(Got') = G + n /\ Len(Got) = G /\ Off = G
      /\ walk.total \in Nat /\ ghost.left \in Nat /\ ghost.came \in Nat
  BY <1>2, <1>3 DEF Off, ListInv, ListTypeOK, Walk
<1>5. /\ n > 0 => G + n <= m
      /\ n < PageSize => (G <= m /\ G + n = m) \/ (m < G /\ n = 0)
  BY <1>1, <1>3, <1>4 DEF PageOf
<1>6. /\ G <= m + ghost.left
      /\ view.counts => walk.total <= m + ghost.left /\ m <= walk.total + ghost.came
  BY <1>2, <1>4 DEF ListInv, Counting
<1>7. walk'.at # "page" \/ ~view.counts
  BY <1>1, <1>2, AnsweredFacts DEF Answers, First, ListInv
<1> HIDE DEF G, m, n
<1>8. G + n <= m + ghost.left
  BY <1>4, <1>5, <1>6
<1>9. view.counts /\ n < PageSize =>
         /\ walk.total <= G + n + ghost.left + ghost.came
         /\ G + n <= walk.total + ghost.left + ghost.came
  <2> SUFFICES ASSUME view.counts, n < PageSize
               PROVE  /\ walk.total <= G + n + ghost.left + ghost.came
                      /\ G + n <= walk.total + ghost.left + ghost.came
    OBVIOUS
  <2>1. walk.total <= m + ghost.left /\ m <= walk.total + ghost.came
    BY <1>6
  <2> QED  BY <1>4, <1>5, <1>6, <2>1, SMTT(30)
<1> QED  BY <1>2, <1>3, <1>4, <1>7, <1>8, <1>9 DEF Counting, m, n

\* The rows that a page passes are on it, and its row k is the row at place k of the list.
LEMMA PagePlaces ==
    ASSUME ListInv, NEW s \in Sorted(Asked), ~view.cursor, ~ghost.tied
    PROVE  /\ Asked = Matching /\ Off = Len(walk.seen) /\ DOMAIN s = 1 .. Cardinality(Matching)
           /\ Cardinality(Matching) \in Nat
           /\ \A k \in 1 .. Cardinality(Matching) : s[k] \in Matching /\ Pos(s[k]) = k - 1
           /\ \A r \in Matching : \E k \in 1 .. Cardinality(Matching) : s[k] = r
<1>1. Asked = Matching /\ Typed /\ ~Tied(rows) /\ Matching \in SUBSET Matching
  BY AskedRows, TypesHold DEF ListInv, Shape
<1>2. /\ s \in Seq(Matching) /\ Cardinality(Matching) \in Nat /\ DOMAIN s = 1 .. Cardinality(Matching)
      /\ \A r \in Matching : \E i \in DOMAIN s : s[i] = r
      /\ \A i \in DOMAIN s : Cardinality(Above(s[i], Matching)) = i - 1
  BY <1>1, SortedRows
<1>3. \A i \in DOMAIN s : s[i] \in Matching
  BY <1>2
<1> QED  BY <1>1, <1>2, <1>3 DEF Pos, Off

LEMMA SamePlaces ==
    ASSUME UNCHANGED <<view, rows>>
    PROVE  Matching' = Matching /\ \A r : Pos(r)' = Pos(r)
<1>1. \A r : Pos(r) = Cardinality(Below(rows, r)) /\ Pos(r)' = Cardinality(Below(rows', r))
  BY TheNewTable
<1> QED  BY <1>1, TheNewTable

\* A page shows what the walk passes with it, and again only what has slipped behind it.
LEMMA PagePaging ==
    ASSUME ListInv, SelectPage, UNCHANGED <<view, rows, changes, ghost>>
    PROVE  Paging'
<1> SUFFICES ASSUME ~view.cursor, ~ghost.tied
             PROVE  /\ Cardinality(Lost') <= ghost.left + ghost.moved
                    /\ Cardinality(Again') + Cardinality(Due') <= ghost.came + ghost.moved
  BY DEF Paging
<1>1. PICK s \in Sorted(Asked), found \in Seq(Entry) : PageOf(s, found) /\ (Waits(found) \/ Answers(found))
  BY PageIsRead, ZenonT(30)
<1> DEFINE G == Len(walk.seen)
           n == Len(found)
           m == Cardinality(Matching)
<1>2. /\ Asked = Matching /\ Off = G /\ DOMAIN s = 1 .. m /\ m \in Nat
      /\ \A k \in 1 .. m : s[k] \in Matching /\ Pos(s[k]) = k - 1
      /\ \A r \in Matching : \E k \in 1 .. m : s[k] = r
  BY PagePlaces
<1>3. /\ Got = walk.seen /\ Got' = walk.seen \o found /\ ~Closing /\ walk.seen \in Seq(Entry)
      /\ Closing' <=> n < PageSize
  BY <1>1, PageIsGot DEF PageOf
<1>4. /\ G \in Nat /\ n \in Nat /\ n <= PageSize /\ Len(Got) = G /\ Len(Got') = G + n
      /\ DOMAIN Got = 1 .. G /\ DOMAIN Got' = 1 .. (G + n)
      /\ \A i \in 1 .. G : Got'[i] = Got[i]
      /\ \A i \in 1 .. n : Got'[G + i] = found[i]
      /\ \A i \in 1 .. (G + n) : i \in 1 .. G \/ (i - G \in 1 .. n /\ Got'[i] = found[i - G])
  BY <1>1, <1>3, GotFacts DEF PageOf
<1>5. /\ \A i \in 1 .. n : G + i \in 1 .. m /\ found[i].id = s[G + i]
      /\ \A k \in 1 .. m : G < k /\ (k <= G + n \/ n < PageSize) => k - G \in 1 .. n
  BY <1>1, <1>2 DEF PageOf
<1>6. ghost.stayed \subseteq Matching /\ (\A r : Pos(r)' = Pos(r)) /\ PageSize \in Nat
  BY SamePlaces, AskedRows DEF ListInv, Shape
<1>7. ASSUME NEW r
      PROVE  /\ Passed(r) <=> Pos(r) < G
             /\ Passed(r)' <=> n < PageSize \/ Pos(r) < G + n
  BY <1>3, <1>4, <1>6 DEF Passed
<1> HIDE DEF G, n, m
<1>8. \A r : Shown(r) => Shown(r)'
  <2>1. \A i \in DOMAIN Got : i \in DOMAIN Got' /\ Got'[i] = Got[i]
    BY <1>4
  <2> QED  BY <2>1 DEF Shown
<1>9. ASSUME NEW k \in 1 .. m, G < k, k <= G + n \/ n < PageSize
      PROVE  Shown(s[k])'
  <2>1. k - G \in 1 .. n /\ G + (k - G) = k
    BY <1>4, <1>5, <1>9
  <2>2. Got'[k] = found[k - G] /\ found[k - G].id = s[k] /\ k \in DOMAIN Got'
    BY <1>4, <1>5, <2>1
  <2> QED  BY <2>2 DEF Shown
<1>10. Lost' \subseteq Lost
  <2> SUFFICES ASSUME NEW r \in Lost' PROVE r \in Lost
    OBVIOUS
  <2>1. r \in ghost.stayed /\ ~Shown(r)' /\ Passed(r)'
    BY DEF Lost
  <2>2. PICK k \in 1 .. m : s[k] = r
    BY <1>2, <1>6, <2>1
  <2>3. Pos(r) = k - 1
    BY <1>2, <2>2
  <2>4. ~(G < k /\ (k <= G + n \/ n < PageSize))
    BY <1>9, <2>1, <2>2
  <2>5. Pos(r) < G
    BY <1>2, <1>4, <1>6, <1>7, <2>1, <2>3, <2>4
  <2> QED  BY <1>7, <1>8, <2>1, <2>5 DEF Lost
<1>11. ASSUME NEW r \in Matching, Shown(r)', ~Shown(r)
       PROVE  Passed(r)'
  <2>1. PICK i \in 1 .. (G + n) : Got'[i].id = r
    BY <1>4, <1>11 DEF Shown
  <2>2. i \notin 1 .. G
    BY <1>4, <1>11, <2>1 DEF Shown
  <2>3. i - G \in 1 .. n /\ found[i - G].id = r /\ G + (i - G) = i
    BY <1>4, <2>1, <2>2
  <2>4. Pos(r) = i - 1
    BY <1>2, <1>5, <2>3
  <2> QED  BY <1>4, <1>7, <2>4
<1>12. Due' \subseteq Due
  <2> SUFFICES ASSUME NEW r \in Due' PROVE r \in Due
    OBVIOUS
  <2>1. r \in ghost.stayed /\ r \in Matching /\ Shown(r)' /\ ~Passed(r)'
    BY <1>6 DEF Due
  <2>2. Shown(r)
    BY <1>11, <2>1
  <2>3. Pos(r) \in Nat
    BY <1>2, <2>1
  <2> QED  BY <1>4, <1>7, <2>1, <2>2, <2>3 DEF Due
<1> DEFINE New == Again' \ Again
           f == [i \in New |-> Got'[i].id]
<1>13. ASSUME NEW i \in New
       PROVE  /\ i - G \in 1 .. n /\ Got'[i].id = s[i] /\ i \in 1 .. m
              /\ Got'[i].id \in Due \ Due'
  <2>1. i \in 1 .. (G + n) /\ Got'[i].id \in ghost.stayed
        /\ \E j \in 1 .. (i - 1) : Got'[j].id = Got'[i].id
    BY <1>4 DEF Again
  <2>2. i \notin 1 .. G
    <3> SUFFICES ASSUME i \in 1 .. G PROVE i \in Again
      OBVIOUS
    <3>1. \A j \in 1 .. (i - 1) : j \in 1 .. G
      BY <1>4
    <3> QED  BY <1>4, <2>1, <3>1 DEF Again
  <2>3. i - G \in 1 .. n /\ Got'[i] = found[i - G] /\ G + (i - G) = i
    BY <1>4, <2>1, <2>2
  <2>4. Got'[i].id = s[i] /\ i \in 1 .. m /\ Pos(s[i]) = i - 1
    BY <1>2, <1>5, <2>3
  <2>5. PICK j \in 1 .. (i - 1) : Got'[j].id = Got'[i].id
    BY <2>1
  <2>6. j \in 1 .. G
    <3> SUFFICES ASSUME j \notin 1 .. G PROVE FALSE
      OBVIOUS
    <3>1. j \in 1 .. (G + n)
      BY <1>4, <2>1
    <3>2. j - G \in 1 .. n /\ Got'[j] = found[j - G] /\ G + (j - G) = j
      BY <1>4, <3>1
    <3>3. s[j] = s[i] /\ j \in 1 .. m
      BY <1>5, <2>4, <2>5, <3>2
    <3>4. j - 1 = i - 1
      BY <1>2, <2>4, <3>3
    <3> QED  BY <2>1, <3>1, <3>4
  <2>7. Shown(s[i])
    BY <1>4, <2>4, <2>5, <2>6 DEF Shown
  <2>8. ~Passed(s[i]) /\ Passed(s[i])'
    BY <1>4, <1>7, <2>1, <2>2, <2>4
  <2> QED  BY <2>1, <2>3, <2>4, <2>7, <2>8 DEF Due
<1>14. f \in Injection(New, Due \ Due')
  <2>1. f \in [New -> Due \ Due']
    BY <1>13
  <2>2. ASSUME NEW i \in New, NEW j \in New, f[i] = f[j] PROVE i = j
    <3>1. s[i] = s[j] /\ i \in 1 .. m /\ j \in 1 .. m
      BY <1>13, <2>2
    <3>2. i - 1 = j - 1
      BY <1>2, <3>1
    <3> QED  BY <3>1, <3>2
  <2> HIDE DEF f, New
  <2> QED  BY <2>1, <2>2 DEF Injection, IsInjective
<1> HIDE DEF f
<1>15. /\ IsFiniteSet(Lost) /\ Cardinality(Lost) \in Nat
       /\ IsFiniteSet(Due) /\ Cardinality(Due) \in Nat /\ IsFiniteSet(Due') /\ Cardinality(Due') \in Nat
  <2>1. Matching \in SUBSET Ids
    BY AskedRows
  <2>2. Lost \in SUBSET Ids /\ Due \in SUBSET Ids /\ Due' \in SUBSET Ids
    BY <1>6, <1>12, <2>1 DEF Lost, Due
  <2> QED  BY <2>2, RowsAreFew
<1>16. Cardinality(Lost') <= Cardinality(Lost) /\ Cardinality(Lost') \in Nat
  BY <1>10, <1>15, FS_Subset, FS_CardinalityType
<1>17. Cardinality(Again') + Cardinality(Due') <= Cardinality(Again) + Cardinality(Due)
       /\ Cardinality(Again) \in Nat /\ Cardinality(Again') \in Nat
  <2>1. IsFiniteSet(Again) /\ Cardinality(Again) \in Nat
    BY AgainIsFinite DEF ListInv
  <2>2. IsFiniteSet(Due \ Due') /\ Cardinality(Due \ Due') = Cardinality(Due) - Cardinality(Due \cap Due')
    BY <1>15, FS_Difference
  <2>3. Cardinality(Due \cap Due') = Cardinality(Due')
    <3>1. Due \cap Due' = Due'
      BY <1>12
    <3> QED  BY <3>1
  <2>4. IsFiniteSet(New) /\ Cardinality(New) <= Cardinality(Due \ Due')
    BY <1>14, <2>2, FS_Injection
  <2>5. IsFiniteSet(Again \cup New) /\ Cardinality(New) \in Nat /\ Cardinality(Again \cap New) \in Nat
        /\ Cardinality(Again \cup New) = Cardinality(Again) + Cardinality(New) - Cardinality(Again \cap New)
    <3>1. IsFiniteSet(Again \cap New)
      BY <2>1, FS_Intersection
    <3> QED  BY <2>1, <2>4, <3>1, FS_Union, FS_CardinalityType
  <2>6. Again' \subseteq Again \cup New
    OBVIOUS
  <2>7. Cardinality(Again') <= Cardinality(Again \cup New) /\ Cardinality(Again') \in Nat
    BY <2>5, <2>6, FS_Subset, FS_CardinalityType
  <2> HIDE DEF New
  <2> QED  BY <1>15, <2>1, <2>2, <2>3, <2>4, <2>5, <2>7
<1>18. /\ Cardinality(Lost) <= ghost.left + ghost.moved
       /\ Cardinality(Again) + Cardinality(Due) <= ghost.came + ghost.moved
       /\ ghost.left \in Nat /\ ghost.moved \in Nat /\ ghost.came \in Nat
  BY DEF ListInv, Paging, ListTypeOK
<1>19. Cardinality(Lost') <= ghost.left + ghost.moved
  BY <1>15, <1>16, <1>18
<1>20. Cardinality(Again') + Cardinality(Due') <= ghost.came + ghost.moved
  BY <1>15, <1>17, <1>18
<1> QED  BY <1>19, <1>20

\* Messages are sorted by the moment they were sent at, the latest first.
LEMMA MessagesOrder ==
    ASSUME ListTypeOK, view.cursor, NEW r \in Ids, NEW t \in Ids
    PROVE  /\ rows[r].made \in Nat /\ rows[t].made \in Nat
           /\ Precedes(Place(rows, r), Place(rows, t)) <=> rows[t].made < rows[r].made
<1>1. view = Messages /\ rows[r].made \in Nat /\ rows[t].made \in Nat
  BY PageSizes, ListingAssumption DEF ListTypeOK, Row
<1>2. view.order = <<Column("made", FALSE)>>
  BY <1>1, MessagesFacts
<1>3. Len(view.order) = 1 /\ view.order[1].name = "made" /\ view.order[1].asc = FALSE
  BY <1>2 DEF Column
<1>4. /\ DOMAIN Place(rows, r) = {1} /\ Place(rows, r)[1] = rows[r].made
      /\ DOMAIN Place(rows, t) = {1} /\ Place(rows, t)[1] = rows[t].made
  BY <1>3 DEF Place
<1>5. 1 .. (1 - 1) = {}
  OBVIOUS
<1> QED  BY <1>1, <1>3, <1>4, <1>5 DEF Precedes

\* A page of messages goes on from the cursor, and what stays behind it shares
\* its millisecond with the last message of the page.
LEMMA PageAtTheCursor ==
    ASSUME ListInv, SelectPage, UNCHANGED <<view, rows, changes, ghost>>
    PROVE  AtTheCursor'
<1> SUFFICES ASSUME view.cursor PROVE AtTheCursor'
  BY DEF AtTheCursor
<1>1. PICK s \in Sorted(Asked), found \in Seq(Entry) : PageOf(s, found) /\ (Waits(found) \/ Answers(found))
  BY PageIsRead, ZenonT(30)
<1> DEFINE G == Len(walk.seen)
           n == Len(found)
           m == Cardinality(Asked)
           made(r) == rows[r].made
<1>2. ListTypeOK /\ view = Messages /\ ~view.attaches /\ view.shows = {"shown", "hidden"}
  BY PageSizes, MessagesFacts DEF ListInv, ListTypeOK
<1>3. /\ walk'.at = (IF n < PageSize THEN "done" ELSE First)
      /\ walk'.seen = walk.seen \o found /\ walk.seen \in Seq(Entry)
      /\ walk'.before = IF found # <<>> THEN <<NormalizeTimestamp(made(found[n].id))>> ELSE walk.before
  BY <1>1, <1>2, AnsweredFacts DEF Waits, Answers, ListTypeOK, Walk
<1>4. /\ Asked \in SUBSET Matching /\ Asked \in SUBSET Ids /\ Off = 0 /\ PageSize \in Nat \ {0}
      /\ Typed /\ Matching' = Matching /\ rows \in [Ids -> Row]
  BY AskedRows, TypesHold DEF ListInv, Off, Matching, MatchingIn
<1>5. /\ m \in Nat /\ DOMAIN s = 1 .. m
      /\ \A r \in Asked : \E i \in 1 .. m : s[i] = r
      /\ \A i, j \in 1 .. m : s[i] = s[j] => i = j
      /\ \A i, j \in 1 .. m : i < j => ~Precedes(Place(rows, s[j]), Place(rows, s[i]))
      /\ s \in Seq(Asked)
  BY <1>4, SortedRows
<1>6. \A i \in 1 .. m : s[i] \in Asked /\ s[i] \in Ids /\ made(s[i]) \in Nat
  <2>1. \A i \in 1 .. m : s[i] \in Asked
    BY <1>5
  <2> QED  BY <1>4, <2>1, ListingAssumption DEF Row
<1>7. ASSUME NEW i \in 1 .. m, NEW j \in 1 .. m, i <= j
      PROVE  made(s[j]) <= made(s[i])
  <2>1. i < j => ~(made(s[i]) < made(s[j]))
    BY <1>2, <1>5, <1>6, MessagesOrder
  <2>2. made(s[i]) \in Nat /\ made(s[j]) \in Nat /\ (i = j => made(s[i]) = made(s[j]))
    BY <1>6
  <2> HIDE DEF made
  <2> QED  BY <1>7, <2>1, <2>2
<1>8. /\ n \in Nat /\ G \in Nat /\ n <= PageSize
      /\ \A i \in 1 .. n : i \in 1 .. m /\ found[i].id = s[i]
      /\ n < PageSize => n = m
  <2>1. /\ n \in Nat /\ n <= PageSize
        /\ \A i \in 1 .. n : Off + i \in 1 .. m /\ found[i].id = s[Off + i]
        /\ n < PageSize => \/ Off <= m /\ Off + n = m
                           \/ m < Off /\ n = 0
    BY <1>1 DEF PageOf
  <2>2. \A i \in 1 .. n : Off + i = i
    BY <1>4
  <2>3. n < PageSize => n = m
    BY <1>4, <1>5, <2>1
  <2> QED  BY <1>3, <2>1, <2>2, <2>3
<1>9. /\ DOMAIN walk.seen = 1 .. G /\ DOMAIN walk'.seen = 1 .. (G + n) /\ DOMAIN found = 1 .. n
      /\ \A i \in 1 .. G : walk'.seen[i] = walk.seen[i]
      /\ \A i \in 1 .. n : walk'.seen[G + i] = found[i]
      /\ \A i \in 1 .. (G + n) : i \in 1 .. G \/ (i - G \in 1 .. n /\ walk'.seen[i] = found[i - G])
      /\ n = 0 => found = <<>>
      /\ n # 0 => found # <<>>
  BY <1>3, <1>8, GotFacts
<1>10. ASSUME NEW i \in 1 .. G
       PROVE  /\ walk.seen[i].id \in Ids /\ made(walk.seen[i].id) \in Nat
              /\ rows[walk.seen[i].id].status # "absent" /\ walk.before # <<>>
              /\ walk.before[1] <= made(walk.seen[i].id)
  <2>1. walk.seen[i] \in Entry
    BY <1>3
  <2>2. walk.seen[i].id \in Ids
    BY <2>1 DEF Entry
  <2> QED  BY <1>4, <1>9, <2>2, ListingAssumption DEF ListInv, AtTheCursor, Row
<1>11. ASSUME NEW r \in Asked, walk.before # <<>> PROVE made(r) < walk.before[1] /\ walk.before[1] \in Nat
  <2>1. walk.before \in Seq(Nat)
    BY <1>2 DEF ListTypeOK, Walk
  <2> QED  BY <1>11, <2>1 DEF Asked
<1> HIDE DEF G, n, m
<1>12. ASSUME n # 0
       PROVE  /\ n \in 1 .. m /\ found[n].id = s[n] /\ made(s[n]) \in Nat
              /\ walk'.before # <<>> /\ walk'.before[1] = NormalizeTimestamp(made(s[n]))
              /\ walk'.before[1] \in Nat /\ walk'.before[1] <= made(s[n])
              /\ \A other \in Nat : walk'.before[1] <= other /\ other <= made(s[n])
                    => made(s[n]) \div Tick = other \div Tick
  <2>1. n \in 1 .. m /\ found[n].id = s[n]
    BY <1>8, <1>12
  <2>2. made(s[n]) \in Nat
    BY <1>6, <2>1
  <2>3. walk'.before = <<NormalizeTimestamp(made(s[n]))>>
    BY <1>3, <1>9, <1>12, <2>1
  <2>4. walk'.before # <<>> /\ walk'.before[1] = NormalizeTimestamp(made(s[n]))
    BY <2>3
  <2> HIDE DEF made
  <2> QED  BY <2>1, <2>2, <2>4, Rounding
<1>13. \A i \in 1 .. (G + n) :
          /\ rows[walk'.seen[i].id].status # "absent" /\ walk'.before # <<>>
          /\ walk'.before[1] <= made(walk'.seen[i].id)
  <2> SUFFICES ASSUME NEW i \in 1 .. (G + n)
               PROVE  /\ rows[walk'.seen[i].id].status # "absent" /\ walk'.before # <<>>
                      /\ walk'.before[1] <= made(walk'.seen[i].id)
    OBVIOUS
  <2>1. CASE i \in 1 .. G /\ n = 0
    BY <1>3, <1>9, <1>10, <2>1
  <2>2. CASE i \in 1 .. G /\ n # 0
    <3>1. walk'.seen[i] = walk.seen[i]
      BY <1>9, <2>2
    <3>2. /\ rows[walk.seen[i].id].status # "absent" /\ walk.before # <<>>
          /\ walk.before[1] <= made(walk.seen[i].id) /\ made(walk.seen[i].id) \in Nat
      BY <1>10, <2>2
    <3>3. made(s[n]) < walk.before[1] /\ walk.before[1] \in Nat /\ s[n] \in Asked
      BY <1>6, <1>11, <1>12, <2>2, <3>2
    <3>4. /\ walk'.before # <<>> /\ walk'.before[1] \in Nat /\ walk'.before[1] <= made(s[n])
          /\ made(s[n]) \in Nat
      BY <1>12, <2>2
    <3> HIDE DEF made
    <3>5. walk'.before[1] <= made(walk.seen[i].id)
      BY <3>2, <3>3, <3>4
    <3> QED  BY <3>1, <3>2, <3>4, <3>5
  <2>3. CASE i \notin 1 .. G
    <3>1. i - G \in 1 .. n /\ walk'.seen[i] = found[i - G]
      BY <1>9, <2>3
    <3>2. found[i - G].id = s[i - G] /\ i - G \in 1 .. m /\ i - G <= n /\ n # 0
      BY <1>8, <3>1
    <3>3. made(s[n]) <= made(s[i - G]) /\ made(s[i - G]) \in Nat /\ s[i - G] \in Asked
      BY <1>6, <1>7, <1>12, <3>2
    <3>4. rows[s[i - G]].status # "absent"
      BY <1>2, <1>4, <3>3 DEF Matching, MatchingIn
    <3>5. walk'.before # <<>> /\ walk'.before[1] \in Nat /\ walk'.before[1] <= made(s[n]) /\ made(s[n]) \in Nat
      BY <1>12, <3>2
    <3> HIDE DEF made
    <3>6. walk'.before[1] <= made(s[i - G])
      BY <3>3, <3>5
    <3> QED  BY <3>1, <3>2, <3>4, <3>5, <3>6 DEF made
  <2> QED  BY <2>1, <2>2, <2>3
<1>14. ASSUME NEW i \in 1 .. (G + n), NEW j \in 1 .. (G + n), walk'.seen[i].id = walk'.seen[j].id, i < j
       PROVE  FALSE
  <2>1. CASE j \in 1 .. G
    <3>1. i \in 1 .. G /\ walk'.seen[i] = walk.seen[i] /\ walk'.seen[j] = walk.seen[j]
      BY <1>8, <1>9, <1>14, <2>1
    <3>2. i = j
      BY <1>9, <1>14, <2>1, <3>1 DEF ListInv, AtTheCursor
    <3> QED  BY <1>8, <1>14, <3>2
  <2>2. CASE j \notin 1 .. G
    <3>1. j - G \in 1 .. n /\ walk'.seen[j].id = s[j - G] /\ j - G \in 1 .. m
      BY <1>8, <1>9, <2>2
    <3>2. CASE i \in 1 .. G
      <4>1. walk.seen[i].id = s[j - G] /\ s[j - G] \in Asked
        BY <1>6, <1>9, <1>14, <3>1, <3>2
      <4>2. made(s[j - G]) < walk.before[1] /\ walk.before[1] <= made(s[j - G])
            /\ walk.before[1] \in Nat /\ made(s[j - G]) \in Nat
        BY <1>10, <1>11, <3>2, <4>1
      <4> HIDE DEF made
      <4> QED  BY <4>2
    <3>3. CASE i \notin 1 .. G
      <4>1. walk'.seen[i].id = s[i - G] /\ i - G \in 1 .. m
        BY <1>8, <1>9, <3>3
      <4>2. i - G = j - G
        BY <1>5, <1>14, <3>1, <4>1
      <4> QED  BY <1>8, <1>14, <4>2
    <3> QED  BY <3>2, <3>3
  <2> QED  BY <2>1, <2>2
<1>15. \A i, j \in 1 .. (G + n) : walk'.seen[i].id = walk'.seen[j].id => i = j
  <2> SUFFICES ASSUME NEW i \in 1 .. (G + n), NEW j \in 1 .. (G + n), walk'.seen[i].id = walk'.seen[j].id
               PROVE  ~(i < j) /\ ~(j < i)
    BY <1>8
  <2> QED  BY <1>14

<1>16. ASSUME NEW r \in ghost.stayed
       PROVE  Shown(r)' \/ Neighbour(r)' \/ (walk'.at # "done" /\ r \in Asked')
  <2>1. Shown(r) \/ Neighbour(r) \/ r \in Asked
    BY DEF ListInv, AtTheCursor
  <2>2. \A i \in 1 .. G : i \in DOMAIN walk'.seen /\ walk'.seen[i] = walk.seen[i]
    BY <1>8, <1>9
  <2>3. Got = walk.seen /\ Got' = walk'.seen
    BY <1>1, <1>3, PageIsGot DEF PageOf
  <2>4. CASE Shown(r)
    BY <1>9, <2>2, <2>3, <2>4 DEF Shown
  <2>5. CASE Neighbour(r)
    BY <1>9, <2>2, <2>5 DEF Neighbour
  <2>6. CASE r \in Asked
    <3>1. PICK k \in 1 .. m : s[k] = r
      BY <1>5, <2>6
    <3>2. CASE k <= n
      <4>1. k \in 1 .. n /\ G + k \in DOMAIN walk'.seen /\ walk'.seen[G + k] = found[k] /\ found[k].id = r
        BY <1>5, <1>8, <1>9, <3>1, <3>2
      <4> QED  BY <2>3, <4>1 DEF Shown
    <3>3. CASE ~(k <= n)
      <4>1. ~(n < PageSize) /\ n # 0 /\ n <= k /\ n \in 1 .. m
        BY <1>4, <1>5, <1>8, <3>3
      <4>2. walk'.at # "done"
        BY <1>3, <4>1 DEF First, n
      <4>3. made(r) <= made(s[n]) /\ made(r) \in Nat
        BY <1>6, <1>7, <3>1, <4>1
      <4>4. CASE made(r) < walk'.before[1]
        <5>1. r \in Matching'
          BY <1>4, <2>6
        <5> QED  BY <4>2, <4>4, <5>1 DEF Asked
      <4>5. CASE ~(made(r) < walk'.before[1])
        <5>1. walk'.before[1] \in Nat
          BY <1>12, <4>1
        <5>2. walk'.before[1] <= made(r)
          <6> HIDE DEF made
          <6> QED  BY <4>3, <4>5, <5>1
        <5>3. made(s[n]) \div Tick = made(r) \div Tick
          <6> HIDE DEF made
          <6> QED  BY <1>12, <4>1, <4>3, <5>2
        <5>4. G + n \in DOMAIN walk'.seen /\ walk'.seen[G + n].id = s[n]
          BY <1>8, <1>9, <4>1
        <5> QED  BY <5>3, <5>4 DEF Neighbour
      <4> QED  BY <4>4, <4>5
    <3> QED  BY <3>2, <3>3
  <2> QED  BY <2>1, <2>4, <2>5, <2>6
<1> QED  BY <1>9, <1>13, <1>15, <1>16 DEF AtTheCursor

LEMMA PageKeeps ==
    ASSUME ListInv, SelectPage, UNCHANGED <<view, rows, changes, ghost>> PROVE ListInv'
BY PageShape, PageWaiting, PagePaging, PageCounting, PageAtTheCursor DEF ListInv

\* Where the same ids were read, the same rows are lost, due and repeated.
LEMMA SameIdsRead ==
    ASSUME UNCHANGED <<view, rows, ghost>>, Closing' <=> Closing, Len(Got') = Len(Got),
           DOMAIN Got' = DOMAIN Got, DOMAIN Got = 1 .. Len(Got), Len(Got) \in Nat,
           \A i \in DOMAIN Got : Got'[i].id = Got[i].id
    PROVE  Lost' = Lost /\ Due' = Due /\ Again' = Again
<1>1. \A r : Shown(r)' <=> Shown(r)
  BY DEF Shown
<1>2. \A r : Passed(r)' <=> Passed(r)
  BY SamePlaces DEF Passed
<1>3. \A i \in DOMAIN Got : \A j \in 1 .. (i - 1) : j \in DOMAIN Got
  OBVIOUS
<1>4. Lost' = Lost /\ Due' = Due
  BY <1>1, <1>2 DEF Lost, Due
<1>5. Again' = Again
  BY <1>3 DEF Again
<1> QED  BY <1>4, <1>5

\* The children come to the rows they belong to; nothing else changes.
LEMMA AttachKeeps ==
    ASSUME ListInv, Attach, UNCHANGED <<view, rows, changes, ghost>> PROVE ListInv'
<1> DEFINE entries == [i \in DOMAIN walk.rows |-> [walk.rows[i] EXCEPT !.kids = KidsOf(walk.rows[i].id)]]
           G == Len(walk.seen)
           n == Len(walk.rows)
<1>1. /\ walk.at = "attach" /\ walk' = Answered(walk, entries) /\ walk.seen \in Seq(Entry)
      /\ walk.rows \in Seq(Entry) /\ view.attaches /\ walk.rows # <<>> /\ n <= PageSize
      /\ rows \in [Ids -> Row] /\ ListTypeOK
  BY DEF Attach, ListInv, ListTypeOK, Walk, Shape
<1>2. \A i \in 1 .. n : walk.rows[i] \in Entry /\ rows[walk.rows[i].id].version \in Nat
  <2>1. \A i \in 1 .. n : walk.rows[i] \in Entry
    BY <1>1
  <2> QED  BY <1>1, <2>1 DEF Entry, Row
<1>3. /\ entries \in Seq(Entry) /\ Len(entries) = n
      /\ \A i \in 1 .. n : /\ entries[i].id = walk.rows[i].id /\ entries[i].version = walk.rows[i].version
                           /\ entries[i].kids = rows[walk.rows[i].id].version
  <2>1. DOMAIN walk.rows = 1 .. n /\ n \in Nat
    BY <1>1
  <2>2. \A i \in 1 .. n : /\ entries[i] \in Entry
                          /\ entries[i].id = walk.rows[i].id /\ entries[i].version = walk.rows[i].version
                          /\ entries[i].kids = rows[walk.rows[i].id].version
    BY <1>2, <2>1 DEF KidsOf, Entry
  <2>3. entries \in [1 .. n -> Entry]
    BY <2>1, <2>2
  <2> HIDE DEF entries, n
  <2> QED  BY <2>1, <2>2, <2>3
<1> HIDE DEF entries
<1>4. ListTypeOK' /\ Shape'
  BY <1>1, <1>3, AnswerShape
<1>5. /\ walk'.at = (IF n < PageSize THEN "done" ELSE First) /\ walk'.seen = walk.seen \o entries
      /\ walk'.rows = <<>> /\ walk'.total = walk.total
  BY <1>1, <1>3, AnsweredFacts
<1>6. /\ G \in Nat /\ n \in Nat /\ DOMAIN walk.seen = 1 .. G /\ DOMAIN walk.rows = 1 .. n
      /\ DOMAIN walk'.seen = 1 .. (G + n) /\ Len(walk'.seen) = G + n /\ walk'.seen \in Seq(Entry)
      /\ Len(Got) = G + n /\ DOMAIN Got = 1 .. (G + n)
      /\ \A i \in 1 .. G : walk'.seen[i] = walk.seen[i] /\ Got[i] = walk.seen[i]
      /\ \A i \in 1 .. (G + n) : i \in 1 .. G \/
            (i - G \in 1 .. n /\ walk'.seen[i] = entries[i - G] /\ Got[i] = walk.rows[i - G])
  <2>1. G \in Nat /\ n \in Nat /\ DOMAIN walk.seen = 1 .. G /\ DOMAIN walk.rows = 1 .. n
    BY <1>1
  <2>2. /\ Len(Got) = G + n /\ DOMAIN Got = 1 .. (G + n)
        /\ \A i \in 1 .. G : Got[i] = walk.seen[i]
        /\ \A i \in 1 .. (G + n) : i \in 1 .. G \/ (i - G \in 1 .. n /\ Got[i] = walk.rows[i - G])
    <3>1. Got = walk.seen \o walk.rows /\ walk.seen \in Seq(Entry) /\ walk.rows \in Seq(Entry)
      BY <1>1 DEF Got
    <3> HIDE DEF Got
    <3> QED  BY <3>1, GotFacts, ZenonT(60)
  <2>3. /\ DOMAIN walk'.seen = 1 .. (G + n) /\ Len(walk'.seen) = G + n /\ walk'.seen \in Seq(Entry)
        /\ \A i \in 1 .. G : walk'.seen[i] = walk.seen[i]
        /\ \A i \in 1 .. (G + n) : i \in 1 .. G \/ (i - G \in 1 .. n /\ walk'.seen[i] = entries[i - G])
    <3>1. walk'.seen = walk.seen \o entries /\ walk.seen \in Seq(Entry) /\ entries \in Seq(Entry)
      BY <1>1, <1>3, <1>5
    <3> DEFINE k == Len(entries)
    <3>2. /\ DOMAIN walk'.seen = 1 .. (G + k) /\ Len(walk'.seen) = G + k /\ walk'.seen \in Seq(Entry)
          /\ \A i \in 1 .. G : walk'.seen[i] = walk.seen[i]
          /\ \A i \in 1 .. (G + k) : i \in 1 .. G \/ (i - G \in 1 .. k /\ walk'.seen[i] = entries[i - G])
      BY <3>1, GotFacts
    <3>3. k = n
      BY <1>3
    <3> HIDE DEF k, G, n
    <3> QED  BY <3>2, <3>3
  <2> QED  BY <2>1, <2>2, <2>3
<1>7. Got' = walk'.seen
  <2>1. Got' = walk'.seen \o <<>>
    BY <1>5 DEF Got
  <2> QED  BY <1>6, <2>1
<1> HIDE DEF G, n
<1>8. \A i \in DOMAIN Got : Got'[i].id = Got[i].id
  <2> SUFFICES ASSUME NEW i \in 1 .. (G + n) PROVE walk'.seen[i].id = Got[i].id
    BY <1>6, <1>7
  <2>1. CASE i \in 1 .. G
    BY <1>6, <2>1
  <2>2. CASE i \notin 1 .. G
    <3>1. i - G \in 1 .. n /\ walk'.seen[i] = entries[i - G] /\ Got[i] = walk.rows[i - G]
      BY <1>6, <2>2
    <3> QED  BY <1>3, <3>1
  <2> QED  BY <2>1, <2>2
<1>9. Closing' <=> Closing
  BY <1>1, <1>5 DEF Closing, PageSize, First, n
<1>10. Lost' = Lost /\ Due' = Due /\ Again' = Again
  BY <1>6, <1>7, <1>8, <1>9, SameIdsRead
<1>11. Paging'
  BY <1>10 DEF ListInv, Paging
<1>12. Waiting'
  <2>1. ASSUME NEW i \in 1 .. (G + n) PROVE walk'.seen[i].version <= walk'.seen[i].kids
    <3>1. CASE i \in 1 .. G
      BY <1>1, <1>6, <3>1 DEF ListInv, Waiting
    <3>2. CASE i \notin 1 .. G
      <4>1. i - G \in 1 .. n /\ walk'.seen[i] = entries[i - G]
        BY <1>6, <3>2
      <4>2. walk.rows[i - G].version <= rows[walk.rows[i - G].id].version
        BY <1>6, <4>1 DEF ListInv, Waiting
      <4> QED  BY <1>3, <4>1, <4>2
    <3> QED  BY <3>1, <3>2
  <2> QED  BY <1>5, <1>6, <2>1, SMTT(30) DEF Waiting
<1>13. Counting'
  <2>1. Len(Got') = Len(Got) /\ Matching' = Matching
    BY <1>6, <1>7, SamePlaces
  <2>2. ~(view.counts /\ walk'.at = "page")
    BY <1>5 DEF First
  <2> QED  BY <1>5, <1>9, <2>1, <2>2 DEF ListInv, Counting
<1>14. AtTheCursor'
  <2>1. ~view.cursor
    BY <1>1, PageSizes, MessagesFacts DEF ListTypeOK
  <2> QED  BY <2>1 DEF AtTheCursor
<1> QED  BY <1>4, <1>11, <1>12, <1>13, <1>14 DEF ListInv

\* Counting, and a query that fails, leave what was read alone.
LEMMA NothingReadKeeps ==
    ASSUME ListInv, Count \/ SelectFails, UNCHANGED <<view, rows, changes, ghost>> PROVE ListInv'
<1>1. /\ walk \in Walk /\ walk.at \in {"count", "page"} /\ walk.rows = <<>> /\ ListTypeOK
      /\ Cardinality(Matching) \in Nat /\ ghost.left \in Nat /\ ghost.came \in Nat
  <2>1. Matching \in SUBSET Ids
    BY AskedRows
  <2> QED  BY <2>1, RowsAreFew DEF ListInv, ListTypeOK, Shape, Count, SelectFails
<1>2. /\ walk' \in Walk /\ walk'.at \in {"page", "failed"} /\ walk'.rows = <<>> /\ walk'.seen = walk.seen
      /\ walk'.page = walk.page /\ walk'.before = walk.before
      /\ walk'.at = "page" => walk'.total = Cardinality(Matching)
  <2>1. CASE Count
    BY <1>1, <2>1 DEF Count, Walk
  <2>2. CASE SelectFails
    BY <1>1, <2>2 DEF SelectFails, Walk
  <2> QED  BY <2>1, <2>2
<1>3. PageSize' = PageSize /\ Matching' = Matching /\ (Tied(rows)' <=> Tied(rows))
  BY DEF PageSize, Matching, MatchingIn, Tied, Place
<1>4. /\ Got' = Got /\ (Closing' <=> Closing) /\ ~Closing'
      /\ DOMAIN Got = 1 .. Len(Got) /\ Len(Got) \in Nat
  <2>1. DOMAIN Got = 1 .. Len(Got) /\ Len(Got) \in Nat
    BY <1>1, NothingWaits
  <2> QED  BY <1>1, <1>2, <2>1 DEF Got, Closing
<1>5. Lost' = Lost /\ Due' = Due /\ Again' = Again
  BY <1>4, SameIdsRead
<1>6. ListTypeOK' /\ Shape'
  BY <1>1, <1>2, <1>3 DEF ListInv, ListTypeOK, Shape
<1>7. Waiting' /\ Paging'
  BY <1>2, <1>5 DEF ListInv, Waiting, Paging
<1>8. Counting'
  BY <1>1, <1>2, <1>3, <1>4 DEF ListInv, Counting
<1>9. AtTheCursor'
  <2>1. /\ Asked' = Asked /\ (\A r : Shown(r)' <=> Shown(r)) /\ (\A r : Neighbour(r)' <=> Neighbour(r))
        /\ walk.at # "done" /\ walk'.at # "done"
    BY <1>1, <1>2, <1>3, <1>4 DEF Asked, Shown, Neighbour
  <2> QED  BY <1>2, <2>1 DEF ListInv, AtTheCursor
<1> QED  BY <1>6, <1>7, <1>8, <1>9 DEF ListInv

LEMMA StutterKeeps ==
    ASSUME ListInv, UNCHANGED vars PROVE ListInv'
<1>1. /\ view' = view /\ rows' = rows /\ walk' = walk /\ changes' = changes /\ ghost' = ghost
  BY DEF vars
<1>2. /\ PageSize' = PageSize /\ Matching' = Matching /\ (Tied(rows)' <=> Tied(rows))
      /\ Got' = Got
  BY <1>1 DEF PageSize, Tied, MatchingIn, Place, Got, Matching
<1>3. /\ Closing' <=> Closing
      /\ Asked' = Asked
      /\ (\A r : Shown(r)' <=> Shown(r)) /\ (\A r : Neighbour(r)' <=> Neighbour(r))
  BY <1>1, <1>2 DEF Closing, Asked, Shown, Neighbour
<1>4. Lost' = Lost /\ Due' = Due /\ Again' = Again
  <2>1. DOMAIN Got = 1 .. Len(Got) /\ Len(Got) \in Nat
    BY GotFacts DEF Got, ListInv, ListTypeOK, Walk
  <2> QED  BY <1>1, <1>2, <1>3, <2>1, SameIdsRead
<1>5. ListTypeOK' /\ Shape' /\ Waiting'
  BY <1>1, <1>2 DEF ListInv, ListTypeOK, Shape, Waiting
<1>6. Paging'
  BY <1>1, <1>4 DEF ListInv, Paging
<1>7. Counting'
  BY <1>1, <1>2, <1>3 DEF ListInv, Counting
<1>8. AtTheCursor'
  BY <1>1, <1>3, Zenon DEF ListInv, AtTheCursor
<1> QED  BY <1>5, <1>6, <1>7, <1>8 DEF ListInv

-----------------------------------------------------------------------------
(* The theorems *)

LEMMA FreshWalk ==
    ASSUME Init PROVE ListInv
<1>1. /\ view \in Views /\ rows \in [Ids -> Row]
      /\ walk = [at |-> First, page |-> 1, before |-> <<>>, total |-> 0, rows |-> <<>>, seen |-> <<>>]
      /\ changes = 0
      /\ ghost = [stayed |-> Matching, came |-> 0, left |-> 0, moved |-> 0, tied |-> Tied(rows)]
  BY RowsAssumption DEF Init
<1>2. /\ First \in {"count", "page"} /\ (view.counts => First = "count")
      /\ Matching \in SUBSET Ids /\ PageSize \in Nat \ {0}
  BY <1>1, PageSizes DEF First, Matching, MatchingIn
<1>3. ListTypeOK
  <2>1. <<>> \in Seq(Nat) /\ <<>> \in Seq(Entry)
    OBVIOUS
  <2>2. Tied(rows) \in BOOLEAN
    BY DEF Tied
  <2> QED  BY <1>1, <1>2, <2>1, <2>2 DEF ListTypeOK, Walk
<1>4. Got = <<>> /\ Len(Got) = 0 /\ DOMAIN Got = {} /\ walk.seen = <<>> /\ DOMAIN walk.seen = {}
      /\ walk.rows = <<>> /\ DOMAIN walk.rows = {}
  BY <1>1 DEF Got
<1>5. Shape
  <2>1. (1 - 1) * PageSize = 0
    BY <1>2
  <2>2. Len(walk.seen) = 0 /\ walk.page = 1
    BY <1>1, <1>4
  <2> QED  BY <1>1, <1>2, <2>1, <2>2 DEF Shape
<1>6. Waiting
  BY <1>4 DEF Waiting
<1>7. ~Closing /\ (\A r : ~Shown(r)) /\ \A r \in Matching : ~Passed(r)
  <2>1. ~Closing
    BY <1>1, <1>2 DEF Closing
  <2>2. ASSUME NEW r \in Matching PROVE ~(Pos(r) < Len(Got))
    <3>1. Above(r, Matching) \in SUBSET Ids
      BY <1>2 DEF Above
    <3>2. Pos(r) \in Nat
      BY <3>1, RowsAreFew DEF Pos
    <3> QED  BY <1>4, <3>2
  <2> QED  BY <1>4, <2>1, <2>2 DEF Shown, Passed
<1>8. Lost = {} /\ Due = {} /\ Again = {}
  BY <1>1, <1>4, <1>7 DEF Lost, Due, Again
<1>9. Paging
  BY <1>1, <1>8, FS_EmptySet DEF Paging
<1>10. Counting
  <2>1. Cardinality(Matching) \in Nat
    BY <1>2, RowsAreFew
  <2> QED  BY <1>1, <1>2, <1>4, <1>7, <2>1 DEF Counting
<1>11. AtTheCursor
  BY <1>1, <1>2, <1>4 DEF AtTheCursor, Asked
<1> QED  BY <1>3, <1>5, <1>6, <1>9, <1>10, <1>11 DEF ListInv

\* Whatever the table goes through, the walk keeps its bearings: it is at the
\* offset that its page number says, no more rows are behind it unseen than left
\* or moved, none are due to be seen again but those that others pushed on, the
\* count is off by what came and left, and nothing behind a cursor is unseen.
THEOREM ListingInvariant == Spec => []ListInv
<1>1. Init => ListInv
  BY FreshWalk
<1>2. ListInv /\ [Next]_vars => ListInv'
  <2> SUFFICES ASSUME ListInv, [Next]_vars PROVE ListInv'
    OBVIOUS
  <2>1. CASE List
    <3>1. UNCHANGED <<view, rows, changes, ghost>> /\ (Count \/ SelectPage \/ SelectFails \/ Attach)
      BY <2>1 DEF List
    <3>2. CASE Count \/ SelectFails
      BY <3>1, <3>2, NothingReadKeeps
    <3>3. CASE SelectPage
      BY <3>1, <3>3, PageKeeps
    <3>4. CASE Attach
      BY <3>1, <3>4, AttachKeeps
    <3> QED  BY <3>1, <3>2, <3>3, <3>4
  <2>2. CASE Change
    BY <2>2, ChangeKeeps
  <2>3. CASE UNCHANGED vars
    BY <2>3, StutterKeeps
  <2> QED  BY <2>1, <2>2, <2>3 DEF Next
<1> QED  BY <1>1, <1>2, PTL DEF Spec

LEMMA AnswerIsComplete ==
    ASSUME ListInv PROVE WalksMissOnlyWhatMoved
<1> SUFFICES ASSUME walk.at = "done", ~view.cursor, ~ghost.tied
             PROVE  /\ Cardinality(Missed) <= ghost.left + ghost.moved
                    /\ Cardinality(Repeats) <= ghost.came + ghost.moved
                    /\ view.counts =>
                         /\ walk.total <= Len(walk.seen) + ghost.left + ghost.moved + ghost.came
                         /\ Len(walk.seen) <= walk.total + ghost.left + ghost.moved + ghost.came
  BY DEF WalksMissOnlyWhatMoved
<1>1. /\ ListTypeOK /\ walk.rows = <<>> /\ Closing /\ walk.total \in Nat
      /\ ghost.came \in Nat /\ ghost.left \in Nat /\ ghost.moved \in Nat
      /\ ghost.stayed \subseteq Matching /\ Matching \in SUBSET Ids
  BY AskedRows DEF ListInv, ListTypeOK, Walk, Shape, Closing
<1>2. Got = walk.seen /\ Len(walk.seen) \in Nat /\ DOMAIN walk.seen = 1 .. Len(walk.seen)
  BY <1>1, NothingWaits
<1>3. Missed \subseteq Lost
  <2> SUFFICES ASSUME NEW r \in Missed PROVE r \in Lost
    OBVIOUS
  <2>1. r \in ghost.stayed /\ Cardinality({i \in DOMAIN walk.seen : walk.seen[i].id = r}) = 0
    BY DEF Missed, Times
  <2>2. IsFiniteSet({i \in DOMAIN walk.seen : walk.seen[i].id = r})
    <3>1. IsFiniteSet(1 .. Len(walk.seen))
      BY <1>2, FS_Interval
    <3> QED  BY <1>2, <3>1, FS_Subset
  <2>3. {i \in DOMAIN walk.seen : walk.seen[i].id = r} = {}
    BY <2>1, <2>2, FS_EmptySet
  <2>4. ~Shown(r)
    BY <1>2, <2>3 DEF Shown
  <2> QED  BY <1>1, <2>1, <2>4 DEF Lost, Passed
<1>4. Repeats = Again
  BY <1>2 DEF Repeats, Again
<1>5. /\ IsFiniteSet(Lost) /\ Cardinality(Lost) \in Nat /\ IsFiniteSet(Due) /\ Cardinality(Due) \in Nat
      /\ Cardinality(Again) \in Nat
  <2>1. Lost \in SUBSET Ids /\ Due \in SUBSET Ids
    BY <1>1 DEF Lost, Due
  <2> QED  BY <1>1, <2>1, RowsAreFew, AgainIsFinite
<1>6. Cardinality(Missed) <= Cardinality(Lost) /\ Cardinality(Missed) \in Nat
  BY <1>3, <1>5, FS_Subset, FS_CardinalityType
<1>7. /\ Cardinality(Lost) <= ghost.left + ghost.moved
      /\ Cardinality(Again) + Cardinality(Due) <= ghost.came + ghost.moved
  BY DEF ListInv, Paging
<1>8. view.counts => /\ walk.total <= Len(walk.seen) + ghost.left + ghost.came
                     /\ Len(walk.seen) <= walk.total + ghost.left + ghost.came
  BY <1>1, <1>2 DEF ListInv, Counting
<1>9. Cardinality(Missed) <= ghost.left + ghost.moved
  BY <1>1, <1>5, <1>6, <1>7
<1>10. Cardinality(Repeats) <= ghost.came + ghost.moved
  BY <1>1, <1>4, <1>5, <1>7
<1>11. view.counts =>
         /\ walk.total <= Len(walk.seen) + ghost.left + ghost.moved + ghost.came
         /\ Len(walk.seen) <= walk.total + ghost.left + ghost.moved + ghost.came
  <2> SUFFICES ASSUME view.counts
               PROVE  /\ walk.total <= Len(walk.seen) + ghost.left + ghost.moved + ghost.came
                      /\ Len(walk.seen) <= walk.total + ghost.left + ghost.moved + ghost.came
    OBVIOUS
  <2> DEFINE k == Len(walk.seen)
             t == walk.total
             l == ghost.left
             v == ghost.moved
             c == ghost.came
  <2>1. t <= k + l + c /\ k <= t + l + c
    BY <1>8
  <2>2. t \in Nat /\ k \in Nat /\ l \in Nat /\ v \in Nat /\ c \in Nat
    BY <1>1, <1>2
  <2> HIDE DEF k, t, l, v, c
  <2>3. t <= k + l + v + c /\ k <= t + l + v + c
    BY <2>1, <2>2
  <2> QED  BY <2>3 DEF k, t, l, v, c
<1> QED  BY <1>9, <1>10, <1>11

LEMMA CursorIsComplete ==
    ASSUME ListInv PROVE CursorMissesOneMillisecond
<1> SUFFICES ASSUME view.cursor
             PROVE  /\ \A r \in Ids : Times(r) <= 1
                    /\ walk.at = "done" => \A r \in Missed : Neighbour(r)
  BY DEF CursorMissesOneMillisecond, Neighbour
<1>1. ListTypeOK /\ walk.seen \in Seq(Entry) /\ DOMAIN walk.seen = 1 .. Len(walk.seen) /\ Len(walk.seen) \in Nat
  BY DEF ListInv, ListTypeOK, Walk
<1> DEFINE At(r) == {i \in DOMAIN walk.seen : walk.seen[i].id = r}
<1>2. ASSUME NEW r PROVE Cardinality(At(r)) <= 1 /\ (Cardinality(At(r)) = 0 => At(r) = {})
  <2>1. \A i, j \in At(r) : i = j
    BY DEF ListInv, AtTheCursor
  <2>2. CASE At(r) = {}
    <3>1. Cardinality(At(r)) = 0
      BY <2>2, FS_EmptySet
    <3> QED  BY <2>2, <3>1
  <2>3. CASE At(r) # {}
    <3>1. PICK i \in At(r) : TRUE
      BY <2>3
    <3>2. At(r) = {i}
      BY <2>1, <3>1
    <3>3. Cardinality(At(r)) = 1
      BY <3>2, FS_Singleton
    <3> QED  BY <3>3
  <2> QED  BY <2>2, <2>3
<1>3. \A r : Times(r) = Cardinality(At(r))
  BY DEF Times
<1>4. ASSUME walk.at = "done", NEW r \in Missed PROVE Neighbour(r)
  <2>1. r \in ghost.stayed /\ At(r) = {}
    BY <1>2, <1>3 DEF Missed
  <2>2. Got = walk.seen
    BY <1>1, <1>4, NothingWaits DEF ListInv, Shape
  <2>3. ~Shown(r)
    BY <2>1, <2>2 DEF Shown
  <2> QED  BY <1>4, <2>1, <2>3 DEF ListInv, AtTheCursor
<1> HIDE DEF At
<1> QED  BY <1>2, <1>3, <1>4

\* A walk by LIMIT and OFFSET over a list of any length and through any number of
\* changes: each row that leaves or moves costs it at most one other row, each
\* that comes or moves shows it at most one again, and the total is off by as much.
THEOREM WalksMissLittle == Spec => []WalksMissOnlyWhatMoved
<1>1. ListInv => WalksMissOnlyWhatMoved
  BY AnswerIsComplete
<1> QED  BY <1>1, ListingInvariant, PTL

\* A walk through a conversation of any length by "before" shows no message twice,
\* and each message it misses shares its millisecond with one that it shows.
THEOREM CursorMissesLittle == Spec => []CursorMissesOneMillisecond
<1>1. ListInv => CursorMissesOneMillisecond
  BY CursorIsComplete
<1> QED  BY <1>1, ListingInvariant, PTL

\* An answer never shows the fields of an edit with the children from before it.
THEOREM ChildrenAreFresh == Spec => []ChildrenAreNotOlder
<1>1. ListInv => ChildrenAreNotOlder
  BY DEF ListInv, Waiting, ChildrenAreNotOlder
<1> QED  BY <1>1, ListingInvariant, PTL
=============================================================================
