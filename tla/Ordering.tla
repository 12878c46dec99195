------------------------------ MODULE Ordering ------------------------------
(***************************************************************************)
(* Catalogue stock, carts and order placement of KayanService, at the      *)
(* granularity of SQL statements on a READ COMMITTED PostgreSQL database.  *)
(*                                                                         *)
(* A request is one HTTP call; every await of a statement is a point where *)
(* any other request may run.  Statements that only touch rows private to  *)
(* their transaction (the INSERTs of the order, its items and its history) *)
(* are part of the neighbouring step, because nobody sees them before the  *)
(* COMMIT.  FOR UPDATE and UPDATE take a row lock kept until the end of    *)
(* the transaction; a statement that needs a row locked by another         *)
(* transaction waits, and sees the newest committed version when it goes   *)
(* on.  PostgreSQL aborts one transaction of a waiting cycle.              *)
(***************************************************************************)
EXTENDS Integers, Sequences, FiniteSets

CONSTANTS
    Users,          \* customers
    Products,       \* ids of catalog_products, created or not yet created
    OrderReqs,      \* calls of POST /orders
    CheckoutReqs,   \* calls of POST /cart/checkout
    CartReqs,       \* calls that add, change or delete a cart line
    AdminReqs,      \* calls that create, change or delete a product
    UserOf,         \* the authenticated customer of each customer's call
    Quantities,     \* quantities a client sends (IsInt, Min(1))
    Amounts,        \* stock amounts an admin sends (IsInt, Min(0))
    Prices,         \* prices an admin sends
    MaxItems,       \* bound: items of a direct order
    Worlds          \* catalog_products and cart_items before the first call,
                    \* and the calls that clients make from there

Buyers == OrderReqs \cup CheckoutReqs
Reqs == Buyers \cup CartReqs \cup AdminReqs

ProductRow == [status : {"none", "live", "deleted"}, active : BOOLEAN,
               amount : Nat, price : Prices]
CartRow == [user : Users, product : Products, qty : Nat \ {0}]
Line == [product : Products, qty : Nat \ {0}]

ASSUME ReqsAssumption ==
    /\ OrderReqs \cap (CheckoutReqs \cup CartReqs \cup AdminReqs) = {}
    /\ CheckoutReqs \cap (CartReqs \cup AdminReqs) = {}
    /\ CartReqs \cap AdminReqs = {}
    /\ UserOf \in [Buyers \cup CartReqs -> Users]

ASSUME InputAssumption ==
    /\ Quantities \subseteq Nat \ {0}
    /\ Amounts \subseteq Nat
    /\ Prices \subseteq Nat
    /\ MaxItems \in Nat

\* UNIQUE(user_id, product_id) and the id sequence hold of an initial cart.
ASSUME InitialAssumption ==
    \A w \in Worlds :
        /\ w.catalog \in [Products -> ProductRow]
        /\ w.cart \in Seq(CartRow)
        /\ \A i, j \in DOMAIN w.cart :
              /\ w.cart[i].user = w.cart[j].user
              /\ w.cart[i].product = w.cart[j].product
              => i = j

VARIABLES
    catalog,   \* committed version of each product row
    draft,     \* newest version of each product row, committed or not
    cart,      \* cart_items: row id -> row
    nextRow,   \* next id of cart_items
    orders,    \* committed product_orders with their order_items, by request
    pc,        \* where each request is
    held,      \* product rows each transaction has locked
    tx         \* local variables of each request

vars == <<catalog, draft, cart, nextRow, orders, pc, held, tx>>

\* items: lines still to order or to write; next: index of the current item;
\* taken, paid: order_items inserted so far, per product; seen: cart rows the
\* SELECT found; rows: cart rows locked FOR UPDATE; gone: cart rows the DELETE took.
NoItems == [p \in Products |-> 0]
Idle == [items |-> <<>>, next |-> 1, taken |-> NoItems, paid |-> NoItems,
         seen |-> {}, rows |-> {}, gone |-> {}]

\* What one order says: quantity and unit price per product, and the cart
\* rows it was made of (none for a direct order).
Order == [bought : [Products -> Nat], unitPrice : [Products -> Prices \cup {0}],
          rows : SUBSET (Nat \ {0})]

Locals == [items : Seq(Line), next : Nat \ {0},
           taken : [Products -> Nat], paid : [Products -> Prices \cup {0}],
           seen : SUBSET (Nat \ {0}), rows : SUBSET (Nat \ {0}), gone : SUBSET (Nat \ {0})]

Init ==
    /\ \E w \in Worlds :
          /\ catalog = w.catalog
          /\ draft = w.catalog
          /\ cart = w.cart
          /\ nextRow = Len(w.cart) + 1
          /\ pc = [r \in Reqs |-> IF r \in w.calls THEN "new" ELSE "unmade"]
    /\ orders = [r \in {} |-> Idle]
    /\ held = [r \in Reqs |-> {}]
    /\ tx = [r \in Reqs |-> Idle]

-----------------------------------------------------------------------------
(* Rows, locks and transactions *)

Item(r) == tx[r].items[tx[r].next]
\* Sellable without the is_active check.
SellableIfLive(row) == row.status = "live"
Sellable(row) == row.status = "live" /\ row.active
Covers(row, n) == row.amount >= n
RowsOf(u) == {id \in DOMAIN cart : cart[id].user = u}
InIdOrder(S) ==
    {s \in [1 .. Cardinality(S) -> S] :
        \A i, j \in DOMAIN s : i < j => s[i] < s[j]}
Extend(f, x, v) == [y \in DOMAIN f \cup {x} |-> IF y = x THEN v ELSE f[y]]
Keep(f, S) == [x \in DOMAIN f \cap S |-> f[x]]

\* Free without the FOR UPDATE of createOrderRecord.
FreeUnlocked(r, p) == TRUE
Free(r, p) == \A q \in Reqs \ {r} : p \notin held[q]
\* CartRowFree without the FOR UPDATE of checkoutCart.
CartRowFreeUnlocked(r, id) == TRUE
\* The cart rows checkout c has locked: by its SELECT and by its DELETE.
Claimed(c) == tx[c].rows \cup tx[c].gone
CartRowFree(r, id) == \A c \in CheckoutReqs \ {r} : id \notin Claimed(c)

\* withTransaction's COMMIT: the newest versions become the committed ones.
\* PublishedAll publishes the versions of every open transaction.
PublishedAll(r) == draft
Published(r) == [p \in Products |-> IF p \in held[r] THEN draft[p] ELSE catalog[p]]

\* Ends without giving the transaction's locks back.
EndsHolding(r, end) ==
    /\ pc' = [pc EXCEPT ![r] = end]
    /\ tx' = [tx EXCEPT ![r] = Idle]
    /\ UNCHANGED held
Ends(r, end) ==
    /\ pc' = [pc EXCEPT ![r] = end]
    /\ held' = [held EXCEPT ![r] = {}]
    /\ tx' = [tx EXCEPT ![r] = Idle]

\* withTransaction's catch: ROLLBACK drops the transaction's versions.
\* RollbackKeepsDraft leaves them: the ROLLBACK is missing.
RollbackKeepsDraft(r) ==
    /\ Ends(r, "failed")
    /\ UNCHANGED <<catalog, draft, cart, nextRow, orders>>
Rollback(r) ==
    /\ Ends(r, "failed")
    /\ draft' = [p \in Products |-> IF p \in held[r] THEN catalog[p] ELSE draft[p]]
    /\ UNCHANGED <<catalog, cart, nextRow, orders>>

-----------------------------------------------------------------------------
(* createOrder, checkoutCart and createOrderRecord *)

ItemLists == UNION {[1 .. n -> [product : Products, qty : Quantities]] : n \in 0 .. MaxItems}

CreateOrder(r) ==
    /\ pc[r] = "new"
    /\ \E items \in ItemLists :
          IF items = <<>>
          THEN Rollback(r)
          ELSE /\ tx' = [tx EXCEPT ![r].items = items]
               /\ pc' = [pc EXCEPT ![r] = "lock"]
               /\ UNCHANGED <<catalog, draft, cart, nextRow, orders, held>>

\* SELECT ... FROM cart_items ... FOR UPDATE: the statement's snapshot ...
CheckoutCart(c) ==
    /\ pc[c] = "new"
    /\ tx' = [tx EXCEPT ![c].seen = RowsOf(UserOf[c])]
    /\ pc' = [pc EXCEPT ![c] = "lock_rows"]
    /\ UNCHANGED <<catalog, draft, cart, nextRow, orders, held>>

\* ... and the locks: it waits for rows another checkout holds, drops those
\* deleted meanwhile and reads the others again.
LockCartRows(c) ==
    /\ pc[c] = "lock_rows"
    /\ \A id \in tx[c].seen : CartRowFree(c, id)
    /\ LET rows == tx[c].seen \cap DOMAIN cart
       IN  IF rows = {}
           THEN Rollback(c)
           ELSE \E s \in InIdOrder(rows) :
                  /\ tx' = [tx EXCEPT
                        ![c].rows = rows,
                        ![c].items = [i \in DOMAIN s |->
                            [product |-> cart[s[i]].product, qty |-> cart[s[i]].qty]]]
                  /\ pc' = [pc EXCEPT ![c] = "lock"]
                  /\ UNCHANGED <<catalog, draft, cart, nextRow, orders, held>>

\* SELECT ... FROM catalog_products ... FOR UPDATE and its checks.
LockProduct(r) ==
    LET p == Item(r).product
        row == draft[p]
    IN  /\ pc[r] = "lock"
        /\ Free(r, p)
        /\ IF Sellable(row) /\ Covers(row, Item(r).qty)
           THEN /\ held' = [held EXCEPT ![r] = @ \cup {p}]
                /\ tx' = [tx EXCEPT ![r].paid[p] = row.price]
                /\ pc' = [pc EXCEPT ![r] = "take"]
                /\ UNCHANGED <<catalog, draft, cart, nextRow, orders>>
           ELSE Rollback(r)

\* What follows createOrderRecord: checkoutCart's DELETE, or the COMMIT.
AfterItems(r) == IF r \in CheckoutReqs THEN "clear" ELSE "commit"

\* INSERT INTO order_items and UPDATE amount = amount - quantity, which the
\* CHECK (amount >= 0) of the table would refuse below zero.
TakeStock(r) ==
    LET p == Item(r).product
        n == Item(r).qty
    IN  /\ pc[r] = "take"
        /\ IF Covers(draft[p], n)
           THEN /\ draft' = [draft EXCEPT ![p].amount = @ - n]
                /\ tx' = [tx EXCEPT ![r].taken[p] = @ + n, ![r].next = @ + 1]
                /\ pc' = [pc EXCEPT ![r] =
                            IF tx[r].next = Len(tx[r].items) THEN AfterItems(r) ELSE "lock"]
                /\ UNCHANGED <<catalog, cart, nextRow, orders, held>>
           ELSE Rollback(r)

PlacedOrder(r) == [bought |-> tx[r].taken, unitPrice |-> tx[r].paid, rows |-> tx[r].rows]

CommitOrder(r) ==
    /\ pc[r] = "commit"
    /\ catalog' = Published(r)
    /\ orders' = Extend(orders, r, PlacedOrder(r))
    /\ Ends(r, "done")
    /\ UNCHANGED <<draft, cart, nextRow>>

\* DELETE FROM cart_items WHERE user_id: every row the statement sees, also those
\* inserted after the SELECT.  Others see the rows, locked, until the COMMIT.
ClearCart(c) ==
    /\ pc[c] = "clear"
    /\ \A id \in RowsOf(UserOf[c]) : CartRowFree(c, id)
    /\ tx' = [tx EXCEPT ![c].gone = RowsOf(UserOf[c])]
    /\ pc' = [pc EXCEPT ![c] = "commit"]
    /\ UNCHANGED <<catalog, draft, cart, nextRow, orders, held>>

\* A row that was inserted after the DELETE stays in the cart.
CommitCheckout(c) ==
    /\ pc[c] = "commit"
    /\ cart' = Keep(cart, DOMAIN cart \ tx[c].gone)
    /\ catalog' = Published(c)
    /\ orders' = Extend(orders, c, PlacedOrder(c))
    /\ Ends(c, "done")
    /\ UNCHANGED <<draft, nextRow>>

\* The deadlock detector of PostgreSQL: a set of transactions that wait for
\* nobody but each other loses a member.
Waits(r) == pc[r] = "lock" /\ ~Free(r, Item(r).product)
Blockers(r) == {q \in Reqs \ {r} : Item(r).product \in held[q]}
InDeadlock(r) ==
    \E D \in SUBSET Buyers :
        /\ r \in D
        /\ \A q \in D : Waits(q)
        /\ UNION {Blockers(q) : q \in D} = D
DeadlockVictim(r) == InDeadlock(r) /\ Rollback(r)

-----------------------------------------------------------------------------
(* addCartItem, updateCartItem, deleteCartItem: no transaction *)

Fails(k) ==
    /\ Ends(k, "failed")
    /\ UNCHANGED <<catalog, draft, cart, nextRow, orders>>

AddCartItem(k) ==
    /\ pc[k] = "new"
    /\ \E p \in Products, n \in Quantities :
          tx' = [tx EXCEPT ![k].items = <<[product |-> p, qty |-> n]>>]
    /\ pc' = [pc EXCEPT ![k] = "check"]
    /\ UNCHANGED <<catalog, draft, cart, nextRow, orders, held>>

\* SELECT product_id FROM cart_items WHERE id AND user_id.
UpdateCartItem(k) ==
    /\ pc[k] = "new"
    /\ \E id \in 1 .. nextRow, n \in Quantities :
          IF id \in RowsOf(UserOf[k])
          THEN /\ tx' = [tx EXCEPT
                     ![k].items = <<[product |-> cart[id].product, qty |-> n]>>,
                     ![k].seen = {id}]
               /\ pc' = [pc EXCEPT ![k] = "check"]
               /\ UNCHANGED <<catalog, draft, cart, nextRow, orders, held>>
          ELSE Fails(k)

\* assertCartProductState reads the committed row and takes no lock.
AssertCartProductState(k) ==
    LET row == catalog[Item(k).product]
    IN  /\ pc[k] = "check"
        /\ IF Sellable(row) /\ Covers(row, Item(k).qty)
           THEN /\ pc' = [pc EXCEPT ![k] = "write"]
                /\ UNCHANGED <<catalog, draft, cart, nextRow, orders, held, tx>>
           ELSE Fails(k)

\* INSERT ... ON CONFLICT(user_id, product_id) DO UPDATE quantity + EXCLUDED.
\* A new row's foreign key check waits for a FOR UPDATE lock on the product.
UpsertCartItem(k) ==
    LET p == Item(k).product
        same == {id \in RowsOf(UserOf[k]) : cart[id].product = p}
    IN  /\ pc[k] = "write" /\ tx[k].seen = {}
        /\ \A id \in same : CartRowFree(k, id)
        /\ IF same # {}
           THEN /\ cart' = [id \in DOMAIN cart |->
                              IF id \in same
                              THEN [cart[id] EXCEPT !.qty = @ + Item(k).qty]
                              ELSE cart[id]]
                /\ UNCHANGED nextRow
           ELSE /\ \A b \in Buyers : p \notin held[b]
                /\ cart' = Extend(cart, nextRow,
                             [user |-> UserOf[k], product |-> p, qty |-> Item(k).qty])
                /\ nextRow' = nextRow + 1
        /\ Ends(k, "done")
        /\ UNCHANGED <<catalog, draft, orders>>

\* UPDATE cart_items SET quantity WHERE id: no row, no effect, no error.
WriteCartQuantity(k) ==
    /\ pc[k] = "write" /\ tx[k].seen # {}
    /\ \A id \in tx[k].seen : CartRowFree(k, id)
    /\ cart' = [id \in DOMAIN cart |->
                  IF id \in tx[k].seen THEN [cart[id] EXCEPT !.qty = Item(k).qty]
                                       ELSE cart[id]]
    /\ Ends(k, "done")
    /\ UNCHANGED <<catalog, draft, nextRow, orders>>

DeleteCartItem(k) ==
    /\ pc[k] = "new"
    /\ \E id \in 1 .. nextRow :
          IF id \in RowsOf(UserOf[k])
          THEN /\ CartRowFree(k, id)
               /\ cart' = Keep(cart, DOMAIN cart \ {id})
               /\ Ends(k, "done")
               /\ UNCHANGED <<catalog, draft, nextRow, orders>>
          ELSE Fails(k)

-----------------------------------------------------------------------------
(* adminCreateProduct, adminUpdateProduct, adminDeleteProduct *)

\* Nobody sees the new row before the COMMIT: one step.
AdminCreateProduct(a) ==
    /\ pc[a] = "new"
    /\ \E p \in Products, n \in Amounts, price \in Prices :
          /\ catalog[p].status = "none"
          /\ LET row == [status |-> "live", active |-> TRUE, amount |-> n, price |-> price]
             IN  /\ catalog' = [catalog EXCEPT ![p] = row]
                 /\ draft' = [draft EXCEPT ![p] = row]
    /\ Ends(a, "done")
    /\ UNCHANGED <<cart, nextRow, orders>>

\* UPDATE ... SET amount = COALESCE($3, amount), ...: a field is set or kept.
AdminUpdateProduct(a) ==
    /\ pc[a] = "new"
    /\ \E p \in Products :
          /\ Free(a, p)
          /\ IF draft[p].status = "live"
             THEN /\ \E n \in Amounts \cup {draft[p].amount},
                        price \in Prices \cup {draft[p].price}, active \in BOOLEAN :
                        draft' = [draft EXCEPT ![p].amount = n, ![p].price = price,
                                               ![p].active = active]
                  /\ held' = [held EXCEPT ![a] = {p}]
                  /\ pc' = [pc EXCEPT ![a] = "commit"]
                  /\ UNCHANGED <<catalog, cart, nextRow, orders, tx>>
             ELSE Rollback(a)

CommitProduct(a) ==
    /\ pc[a] = "commit"
    /\ catalog' = Published(a)
    /\ Ends(a, "done")
    /\ UNCHANGED <<draft, cart, nextRow, orders>>

AdminDeleteProduct(a) ==
    /\ pc[a] = "new"
    /\ \E p \in Products :
          /\ Free(a, p)
          /\ IF draft[p].status = "live"
             THEN /\ draft' = [draft EXCEPT ![p].status = "deleted"]
                  /\ catalog' = [catalog EXCEPT ![p].status = "deleted"]
                  /\ Ends(a, "done")
                  /\ UNCHANGED <<cart, nextRow, orders>>
             ELSE Rollback(a)

-----------------------------------------------------------------------------
\* A statement fails (the connection, the process, a foreign key of an asset).
StatementFails(r) ==
    /\ pc[r] \notin {"unmade", "new", "done", "failed"}
    /\ Rollback(r)

OrderStep(r) == LockProduct(r) \/ TakeStock(r) \/ DeadlockVictim(r)

Next ==
    \/ \E r \in OrderReqs : CreateOrder(r) \/ OrderStep(r) \/ CommitOrder(r)
    \/ \E c \in CheckoutReqs :
          \/ CheckoutCart(c) \/ LockCartRows(c) \/ OrderStep(c)
          \/ ClearCart(c) \/ CommitCheckout(c)
    \/ \E k \in CartReqs :
          \/ AddCartItem(k) \/ UpdateCartItem(k) \/ DeleteCartItem(k)
          \/ AssertCartProductState(k) \/ UpsertCartItem(k) \/ WriteCartQuantity(k)
    \/ \E a \in AdminReqs :
          AdminCreateProduct(a) \/ AdminUpdateProduct(a) \/ CommitProduct(a)
          \/ AdminDeleteProduct(a)
    \/ \E r \in Reqs : StatementFails(r)

Spec == Init /\ [][Next]_vars

\* Node runs every continuation whose statement answered, and PostgreSQL
\* serves every statement it does not have to hold back; whether a client
\* calls, and whether a statement fails, is up to the outside.
Fairness ==
    /\ \A r \in OrderReqs : WF_vars(OrderStep(r) \/ CommitOrder(r))
    /\ \A c \in CheckoutReqs :
          WF_vars(LockCartRows(c) \/ OrderStep(c) \/ ClearCart(c) \/ CommitCheckout(c))
    /\ \A k \in CartReqs :
          WF_vars(AssertCartProductState(k) \/ UpsertCartItem(k) \/ WriteCartQuantity(k))
    /\ \A a \in AdminReqs : WF_vars(CommitProduct(a))

FairSpec == Spec /\ Fairness
-----------------------------------------------------------------------------
(* Properties *)

PC == {"unmade", "new", "lock_rows", "lock", "take", "clear", "commit", "check", "write",
       "done", "failed"}

\* The shape of the state: rows, locks and the locals of every request.
TypeOK ==
    /\ catalog \in [Products -> ProductRow]
    /\ draft \in [Products -> ProductRow]
    /\ cart \in [DOMAIN cart -> CartRow]
    /\ nextRow \in Nat \ {0}
    /\ DOMAIN cart \subseteq 1 .. nextRow - 1
    /\ orders \in [DOMAIN orders -> Order]
    /\ DOMAIN orders \subseteq Buyers
    /\ pc \in [Reqs -> PC]
    /\ held \in [Reqs -> SUBSET Products]
    /\ tx \in [Reqs -> Locals]

\* createOrderRecord decides on the row it read FOR UPDATE and subtracts later:
\* when it subtracts, the row is still sellable and still holds the quantity,
\* so the table's CHECK (amount >= 0) never has to save it.
StockCheckHolds ==
    \A r \in Buyers :
        pc[r] = "take" =>
            /\ Sellable(draft[Item(r).product])
            /\ draft[Item(r).product].amount >= Item(r).qty

\* While an order is being built, each product it took from is, committed,
\* exactly the row it checked: on sale, at the price the order pays, and with
\* the stock it took still in; and a row nobody holds has one version only.
OpenOrderAccounts ==
    /\ \A r \in Buyers, p \in Products :
          tx[r].taken[p] > 0 =>
              /\ p \in held[r]
              /\ Sellable(catalog[p])
              /\ catalog[p].price = tx[r].paid[p]
              /\ catalog[p].amount = draft[p].amount + tx[r].taken[p]
    /\ \A p \in Products : (\A r \in Reqs : p \notin held[r]) => draft[p] = catalog[p]

\* Why the two above hold, as an inductive invariant.  A request looks at an item
\* only while there is one ...
Cursor ==
    \A r \in Reqs :
        /\ pc[r] \in {"unmade", "new", "lock_rows"} => tx[r].next = 1
        /\ pc[r] \in {"lock", "take", "check", "write"} =>
              tx[r].next \in DOMAIN tx[r].items

\* ... each kind of call keeps to its own steps, and only an open transaction of
\* an order or an administrator holds locks or has taken stock ...
Stages ==
    /\ \A r \in Reqs : pc[r] \in {"unmade", "new", "lock_rows", "check", "write", "done", "failed"} =>
          held[r] = {} /\ tx[r].taken = NoItems
    /\ \A k \in CartReqs : pc[k] \in {"unmade", "new", "check", "write", "done", "failed"}
    /\ \A a \in AdminReqs : pc[a] \in {"unmade", "new", "commit", "done", "failed"}
    /\ \A b \in Buyers : pc[b] \notin {"check", "write"}
    /\ \A b \in DOMAIN orders : pc[b] = "done"

\* ... no row is locked twice, and a row nobody locked has one version ...
Locks ==
    /\ \A q, r \in Reqs : q # r => held[q] \cap held[r] = {}
    /\ \A p \in Products : (\A r \in Reqs : p \notin held[r]) => draft[p] = catalog[p]
    /\ \A r \in Reqs, p \in Products :
          p \in held[r] => catalog[p].status = "live" /\ draft[p].status = "live"

\* ... and the two versions of a row an order locked differ by what it took.
Accounts ==
    \A b \in Buyers, p \in Products :
        /\ tx[b].taken[p] > 0 => p \in held[b]
        /\ p \in held[b] =>
              /\ Sellable(catalog[p]) /\ draft[p].active
              /\ tx[b].paid[p] = catalog[p].price /\ draft[p].price = catalog[p].price
              /\ catalog[p].amount = draft[p].amount + tx[b].taken[p]

TakesWhatItChecked ==
    \A b \in Buyers : pc[b] = "take" =>
        /\ Item(b).product \in held[b]
        /\ draft[Item(b).product].amount >= Item(b).qty

StockInv == TypeOK /\ Cursor /\ Stages /\ Locks /\ Accounts /\ TakesWhatItChecked

\* A committed order removes from the committed stock what its order_items say,
\* of products on sale at the moment of the COMMIT, at the price then committed;
\* no other step but an administrator's changes an amount.
TakesItsStock ==
    /\ \A r \in DOMAIN orders' \ DOMAIN orders : \A p \in Products :
          /\ catalog'[p].amount = catalog[p].amount - orders'[r].bought[p]
          /\ orders'[r].bought[p] > 0 =>
                /\ Sellable(catalog[p])
                /\ orders'[r].unitPrice[p] = catalog[p].price
    /\ (\E p \in Products : catalog'[p].amount # catalog[p].amount) =>
          \/ DOMAIN orders' # DOMAIN orders
          \/ \E a \in AdminReqs : pc[a] # "done" /\ pc'[a] = "done"
    /\ \A r \in DOMAIN orders : r \in DOMAIN orders' /\ orders'[r] = orders[r]
OrdersTakeTheirStock == [][TakesItsStock]_vars

\* Two checkouts of one cart, concurrent or one the retry of the other, never
\* order the same cart row, and an ordered row is gone from the cart.
NoRowOrderedTwice ==
    \A r \in DOMAIN orders :
        /\ orders[r].rows \cap DOMAIN cart = {}
        /\ \A q \in DOMAIN orders \ {r} : orders[r].rows \cap orders[q].rows = {}
        /\ \A c \in CheckoutReqs : orders[r].rows \cap tx[c].rows = {}

\* Why: a row is in the cart, where one checkout at most has it locked, or in one
\* order; an id is never used again, what a checkout saw is its customer's, and it
\* commits only when its DELETE took the rows it orders.
RowsHaveOneFate ==
    /\ \A r \in DOMAIN orders :
          /\ orders[r].rows \subseteq 1 .. nextRow - 1
          /\ orders[r].rows \cap DOMAIN cart = {}
          /\ \A q \in DOMAIN orders \ {r} : orders[r].rows \cap orders[q].rows = {}
    /\ \A r \in OrderReqs : tx[r].rows = {}
    /\ \A c \in CheckoutReqs :
          /\ Claimed(c) \subseteq RowsOf(UserOf[c])
          /\ tx[c].seen \subseteq 1 .. nextRow - 1
          /\ tx[c].seen \cap DOMAIN cart \subseteq RowsOf(UserOf[c])
          /\ \A d \in CheckoutReqs \ {c} : Claimed(c) \cap Claimed(d) = {}
          /\ pc[c] = "commit" => tx[c].rows \subseteq tx[c].gone

\* A checkout orders the rows of its own customer, each in the quantity the row
\* has when it is deleted: no addCartItem or updateCartItem that answered is
\* dropped from them; a row it deletes without ordering it was inserted after
\* its SELECT.
CheckoutBuysTheCart ==
    [][\A c \in (DOMAIN orders' \ DOMAIN orders) \cap CheckoutReqs :
          /\ \A id \in orders'[c].rows :
                /\ id \in RowsOf(UserOf[c])
                /\ orders'[c].bought[cart[id].product] = cart[id].qty
          /\ \A id \in DOMAIN cart \ DOMAIN cart' :
                id \in orders'[c].rows \/ id \notin tx[c].seen]_vars

\* Every call that started is answered: opposite lock orders of two orders and
\* two checkouts of one cart never block each other for ever.
EveryRequestAnswered ==
    \A r \in Reqs : pc[r] \notin {"unmade", "new"} ~> pc[r] \in {"done", "failed"}

\* The statements of all requests together look like the atomic shop: orders,
\* cart changes and catalogue changes, each in one step.
Shop == INSTANCE AtomicOrdering WITH catalog <- catalog, cart <- cart, orders <- orders
ImplementsAtomicOrdering == Shop!Spec
=============================================================================
