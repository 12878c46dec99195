--------------------------- MODULE OrderingProofs ---------------------------
(***************************************************************************)
(* Proofs about Ordering for any number of customers, products and calls:  *)
(* the state keeps its shape, a stock check made under the row lock still  *)
(* holds when the stock is taken, an open order accounts for the           *)
(* difference between the two versions of a row, and a committed order     *)
(* takes exactly its items out of the committed stock.  No cart row is     *)
(* ordered twice, a checkout buys what the cart says when it commits, and  *)
(* the statements of all calls look like the atomic shop.                  *)
(***************************************************************************)
EXTENDS Ordering, FiniteSetTheorems, SequenceTheorems, TLAPS

TypeInv == TypeOK /\ Cursor

-----------------------------------------------------------------------------
(* Operators *)

\* Item of a request that has one is a line of a cart or an order.
LEMMA ItemType ==
    ASSUME TypeInv, NEW r \in Reqs, pc[r] \in {"lock", "take", "check", "write"}
    PROVE  /\ Item(r) \in Line
           /\ tx[r].next \in 1 .. Len(tx[r].items)
  <1>1. /\ tx[r] \in Locals
        /\ tx[r].items \in Seq(Line)
    BY DEF TypeInv, TypeOK, Locals
  <1>2. tx[r].next \in DOMAIN tx[r].items
    BY DEF TypeInv, Cursor
  <1> QED
    BY <1>1, <1>2 DEF Item

\* Idle is a value of a request's locals.
LEMMA IdleType == Idle \in Locals
  <1>1. <<>> \in Seq(Line)
    OBVIOUS
  <1> QED
    BY <1>1 DEF Idle, Locals, NoItems

\* Keep(f, S) is a function into the same set.
LEMMA KeepType ==
    ASSUME NEW T, NEW f, f \in [DOMAIN f -> T], NEW S
    PROVE  /\ Keep(f, S) \in [DOMAIN Keep(f, S) -> T]
           /\ DOMAIN Keep(f, S) = DOMAIN f \cap S
  BY DEF Keep

\* Publishing and rolling back keep the shape of the product table.
LEMMA PublishedType ==
    ASSUME TypeInv, NEW r
    PROVE  Published(r) \in [Products -> ProductRow]
  BY DEF TypeInv, TypeOK, Published

\* The two ways a request ends keep the shape of its control state.
LEMMA EndsType ==
    ASSUME TypeInv, NEW r \in Reqs, NEW end \in {"done", "failed"}, Ends(r, end)
    PROVE  /\ pc' \in [Reqs -> PC]
           /\ held' \in [Reqs -> SUBSET Products]
           /\ tx' \in [Reqs -> Locals]
           /\ Cursor'
  <1>1. /\ pc' \in [Reqs -> PC]
        /\ held' \in [Reqs -> SUBSET Products]
    BY DEF TypeInv, TypeOK, Ends, PC
  <1>2. tx' \in [Reqs -> Locals]
    BY IdleType DEF TypeInv, TypeOK, Ends
  <1>3. Cursor'
    BY DEF TypeInv, TypeOK, Cursor, Ends
  <1> QED
    BY <1>1, <1>2, <1>3

\* A ROLLBACK puts committed rows back: the shape stays.
LEMMA RollbackType ==
    ASSUME TypeInv, NEW r \in Reqs, Rollback(r)
    PROVE  TypeInv'
  <1>1. Ends(r, "failed")
    BY DEF Rollback
  <1>2. draft' \in [Products -> ProductRow]
    BY DEF TypeInv, TypeOK, Rollback
  <1>3. UNCHANGED <<catalog, cart, nextRow, orders>>
    BY DEF Rollback
  <1> QED
    BY <1>1, <1>2, <1>3, EndsType DEF TypeInv, TypeOK

-----------------------------------------------------------------------------
(* Type correctness *)

\* The initial state has the shape, the cursor and the stages.
LEMMA InitType == Init => TypeInv
  <1> SUFFICES ASSUME Init PROVE TypeInv
    OBVIOUS
  <1>1. /\ catalog \in [Products -> ProductRow]
        /\ draft \in [Products -> ProductRow]
    BY InitialAssumption DEF Init
  <1>2. /\ cart \in [DOMAIN cart -> CartRow]
        /\ nextRow \in Nat \ {0}
        /\ DOMAIN cart \subseteq 1 .. nextRow - 1
    BY InitialAssumption DEF Init
  <1>3. orders \in [DOMAIN orders -> Order] /\ DOMAIN orders \subseteq Buyers
    BY DEF Init
  <1>4. pc \in [Reqs -> PC] /\ held \in [Reqs -> SUBSET Products] /\ Cursor
    BY DEF Init, PC, Cursor, Idle
  <1>5. tx \in [Reqs -> Locals]
    BY IdleType DEF Init
  <1> QED
    BY <1>1, <1>2, <1>3, <1>4, <1>5 DEF TypeInv, TypeOK

\* A step that only moves r on and changes its locals.
LocalStep(r) ==
    /\ UNCHANGED <<catalog, draft, cart, nextRow, orders, held>>
    /\ pc' = [pc EXCEPT ![r] = pc'[r]]
    /\ tx' = [tx EXCEPT ![r] = tx'[r]]

\* A step that only moves one request and its locals keeps the shape.
LEMMA LocalStepType ==
    ASSUME TypeInv, NEW r \in Reqs, LocalStep(r),
           pc'[r] \in PC \ {"unmade", "new", "lock_rows"}, tx'[r] \in Locals,
           tx'[r].next \in DOMAIN tx'[r].items
    PROVE  TypeInv'
  <1>1. pc' \in [Reqs -> PC] /\ tx' \in [Reqs -> Locals]
    BY DEF TypeInv, TypeOK, LocalStep
  <1>2. Cursor'
    BY DEF TypeInv, TypeOK, Cursor, LocalStep
  <1> QED
    BY <1>1, <1>2 DEF TypeInv, TypeOK, LocalStep

\* createOrder starts with the list of items the client sent.
LEMMA CreateOrderType ==
    ASSUME TypeInv, NEW r \in OrderReqs, CreateOrder(r)
    PROVE  TypeInv'
  <1>1. r \in Reqs
    BY DEF Reqs, Buyers
  <1>2. PICK items \in ItemLists :
           IF items = <<>>
           THEN Rollback(r)
           ELSE /\ tx' = [tx EXCEPT ![r].items = items]
                /\ pc' = [pc EXCEPT ![r] = "lock"]
                /\ UNCHANGED <<catalog, draft, cart, nextRow, orders, held>>
    BY DEF CreateOrder
  <1>3. CASE items = <<>>
    BY <1>1, <1>2, <1>3, RollbackType
  <1>4. CASE items # <<>>
    <2>1. PICK n \in 0 .. MaxItems :
             items \in [1 .. n -> [product : Products, qty : Quantities]]
      BY DEF ItemLists
    <2>2. n \in Nat /\ n # 0
      BY <1>4, <2>1, InputAssumption
    <2>3. items \in Seq(Line) /\ 1 \in DOMAIN items
      <3>1. items \in [1 .. n -> Line]
        BY <2>1, InputAssumption DEF Line
      <3> QED
        BY <2>2, <3>1, SeqDef
    <2>4. tx'[r] \in Locals /\ tx'[r].items = items /\ tx'[r].next = 1
      <3>1. tx'[r] = [tx[r] EXCEPT !.items = items]
        BY <1>1, <1>2, <1>4 DEF TypeInv, TypeOK
      <3>2. tx[r] \in Locals /\ tx[r].next = 1
        BY <1>1 DEF TypeInv, TypeOK, Cursor, CreateOrder
      <3> QED
        BY <2>3, <3>1, <3>2 DEF Locals
    <2>5. LocalStep(r) /\ pc'[r] = "lock"
      BY <1>1, <1>2, <1>4 DEF LocalStep, TypeInv, TypeOK
    <2> QED
      BY <1>1, <2>3, <2>4, <2>5, LocalStepType DEF PC
  <1> QED
    BY <1>3, <1>4

\* The SELECT of checkoutCart only notes the rows it saw.
LEMMA CheckoutCartType ==
    ASSUME TypeInv, NEW c \in CheckoutReqs, CheckoutCart(c)
    PROVE  TypeInv'
  <1>1. c \in Reqs
    BY DEF Reqs, Buyers
  <1>2. RowsOf(UserOf[c]) \subseteq Nat \ {0}
    BY DEF RowsOf, TypeInv, TypeOK
  <1>3. tx' \in [Reqs -> Locals] /\ pc' \in [Reqs -> PC]
    BY <1>1, <1>2, ZenonT(60) DEF CheckoutCart, TypeInv, TypeOK, Locals, PC
  <1>4. Cursor'
    BY <1>1 DEF CheckoutCart, TypeInv, TypeOK, Cursor
  <1> QED
    BY <1>3, <1>4 DEF CheckoutCart, TypeInv, TypeOK

\* The locked cart rows become the lines to order.
LEMMA LockCartRowsType ==
    ASSUME TypeInv, NEW c \in CheckoutReqs, LockCartRows(c)
    PROVE  TypeInv'
  <1>1. c \in Reqs
    BY DEF Reqs, Buyers
  <1> DEFINE rows == tx[c].seen \cap DOMAIN cart
  <1>2. CASE rows = {}
    BY <1>1, <1>2, RollbackType DEF LockCartRows
  <1>3. CASE rows # {}
    <2>1. PICK s \in InIdOrder(rows) :
             /\ tx' = [tx EXCEPT
                   ![c].rows = rows,
                   ![c].items = [i \in DOMAIN s |->
                       [product |-> cart[s[i]].product, qty |-> cart[s[i]].qty]]]
             /\ pc' = [pc EXCEPT ![c] = "lock"]
             /\ UNCHANGED <<catalog, draft, cart, nextRow, orders, held>>
      BY <1>3 DEF LockCartRows
    <2> DEFINE items == [i \in DOMAIN s |->
                  [product |-> cart[s[i]].product, qty |-> cart[s[i]].qty]]
    <2>2. IsFiniteSet(rows)
      <3>1. nextRow - 1 \in Int /\ rows \subseteq 1 .. nextRow - 1
        BY DEF TypeInv, TypeOK
      <3> QED
        BY <3>1, FS_Interval, FS_Subset
    <2>3. Cardinality(rows) \in Nat /\ Cardinality(rows) # 0
      BY <1>3, <2>2, FS_CardinalityType, FS_EmptySet
    <2>4. s \in [1 .. Cardinality(rows) -> rows]
      BY DEF InIdOrder
    <2>5. items \in Seq(Line) /\ 1 \in DOMAIN items
      <3>1. \A i \in DOMAIN s : s[i] \in DOMAIN cart /\ cart[s[i]] \in CartRow
        BY <2>4 DEF TypeInv, TypeOK
      <3>2. items \in [1 .. Cardinality(rows) -> Line]
        BY <2>4, <3>1 DEF CartRow, Line
      <3> HIDE DEF items, rows
      <3> QED
        BY <2>3, <3>2, SeqDef
    <2>6. rows \subseteq Nat \ {0}
      BY DEF TypeInv, TypeOK
    <2> HIDE DEF items, rows
    <2>7. tx'[c] \in Locals /\ tx'[c].items = items /\ tx'[c].next = 1
      <3>1. tx'[c] = [tx[c] EXCEPT !.rows = rows, !.items = items]
        BY <1>1, <2>1 DEF TypeInv, TypeOK, items
      <3>2. tx[c] \in Locals /\ tx[c].next = 1
        BY <1>1 DEF TypeInv, TypeOK, Cursor, LockCartRows
      <3> QED
        BY <2>5, <2>6, <3>1, <3>2 DEF Locals
    <2>8. LocalStep(c) /\ pc'[c] = "lock"
      BY <1>1, <2>1 DEF LocalStep, TypeInv, TypeOK
    <2> QED
      BY <1>1, <2>5, <2>7, <2>8, LocalStepType DEF PC
  <1> QED
    BY <1>2, <1>3

\* The FOR UPDATE read of a product notes its price.
LEMMA LockProductType ==
    ASSUME TypeInv, NEW r \in Buyers, LockProduct(r)
    PROVE  TypeInv'
  <1> DEFINE p == Item(r).product
             row == draft[p]
  <1>1. r \in Reqs /\ pc[r] = "lock"
    BY DEF Reqs, LockProduct
  <1>2. p \in Products /\ row.price \in Prices
    BY <1>1, ItemType DEF Line, TypeInv, TypeOK, ProductRow
  <1>3. CASE Sellable(row) /\ Covers(row, Item(r).qty)
    <2>1. /\ held' = [held EXCEPT ![r] = @ \cup {p}]
          /\ tx' = [tx EXCEPT ![r].paid[p] = row.price]
          /\ pc' = [pc EXCEPT ![r] = "take"]
          /\ UNCHANGED <<catalog, draft, cart, nextRow, orders>>
      BY <1>3 DEF LockProduct
    <2> HIDE DEF p, row
    <2>2. held' \in [Reqs -> SUBSET Products] /\ pc' \in [Reqs -> PC]
      BY <1>1, <1>2, <2>1 DEF TypeInv, TypeOK, PC
    <2>3. tx'[r] = [tx[r] EXCEPT !.paid = [tx[r].paid EXCEPT ![p] = row.price]]
      BY <1>1, <2>1 DEF TypeInv, TypeOK
    <2>4. tx[r] \in Locals
      BY <1>1 DEF TypeInv, TypeOK
    <2>5. /\ tx'[r] \in Locals
          /\ tx'[r].items = tx[r].items
          /\ tx'[r].next = tx[r].next
      BY <1>2, <2>3, <2>4, ZenonT(60) DEF Locals
    <2>6. tx' \in [Reqs -> Locals]
      BY <1>1, <2>1, <2>5 DEF TypeInv, TypeOK
    <2>7. Cursor'
      BY <1>1, <2>1, <2>5 DEF TypeInv, TypeOK, Cursor
    <2> QED
      BY <2>1, <2>2, <2>6, <2>7 DEF TypeInv, TypeOK
  <1>4. CASE ~(Sellable(row) /\ Covers(row, Item(r).qty))
    BY <1>1, <1>4, RollbackType DEF LockProduct
  <1> QED
    BY <1>3, <1>4

\* Taking a line leaves a natural amount: the row covers the line.
LEMMA TakeStockType ==
    ASSUME TypeInv, NEW r \in Buyers, TakeStock(r)
    PROVE  TypeInv'
  <1> DEFINE p == Item(r).product
             n == Item(r).qty
  <1>1. r \in Reqs /\ pc[r] = "take"
    BY DEF Reqs, TakeStock
  <1>2. p \in Products /\ n \in Nat /\ draft[p] \in ProductRow
    BY <1>1, ItemType DEF Line, TypeInv, TypeOK
  <1>3. CASE Covers(draft[p], n)
    <2>1. /\ draft' = [draft EXCEPT ![p].amount = @ - n]
          /\ tx' = [tx EXCEPT ![r].taken[p] = @ + n, ![r].next = @ + 1]
          /\ pc' = [pc EXCEPT ![r] =
                        IF tx[r].next = Len(tx[r].items) THEN AfterItems(r) ELSE "lock"]
          /\ UNCHANGED <<catalog, cart, nextRow, orders, held>>
      BY <1>3 DEF TakeStock
    <2>2. tx[r].next \in 1 .. Len(tx[r].items)
      BY <1>1, ItemType
    <2> HIDE DEF p, n
    <2>3. pc' \in [Reqs -> PC]
      BY <2>1 DEF TypeInv, TypeOK, PC, AfterItems
    <2>4. tx[r] \in Locals
      BY <1>1 DEF TypeInv, TypeOK
    <2>5. tx'[r] = [tx[r] EXCEPT !.taken = [tx[r].taken EXCEPT ![p] = @ + n],
                                 !.next = @ + 1]
      BY <1>1, <2>1, <2>4 DEF TypeInv, TypeOK
    <2>6. /\ tx'[r] \in Locals
          /\ tx'[r].items = tx[r].items
          /\ tx'[r].next = tx[r].next + 1
      <3>1. [tx[r].taken EXCEPT ![p] = @ + n] \in [Products -> Nat]
        BY <1>2, <2>4 DEF Locals
      <3>2. tx[r].next + 1 \in Nat \ {0}
        BY <2>4 DEF Locals
      <3> QED
        BY <2>4, <2>5, <3>1, <3>2 DEF Locals
    <2>7. tx' \in [Reqs -> Locals]
      BY <1>1, <2>1, <2>6 DEF TypeInv, TypeOK
    <2>8. draft' \in [Products -> ProductRow]
      <3>1. draft[p].amount - n \in Nat
        BY <1>2, <1>3 DEF ProductRow, Covers
      <3>2. [draft[p] EXCEPT !.amount = @ - n] \in ProductRow
        BY <1>2, <3>1 DEF ProductRow
      <3> QED
        BY <1>2, <2>1, <3>2 DEF TypeInv, TypeOK
    <2>9. Cursor'
      <3>1. pc'[r] = "lock" => tx'[r].next \in DOMAIN tx'[r].items
        <4>1. tx[r].items \in Seq(Line) /\ Len(tx[r].items) \in Nat
          BY <2>4 DEF Locals
        <4> QED
          BY <1>1, <2>1, <2>2, <2>6, <4>1 DEF TypeInv, TypeOK, AfterItems
      <3>2. pc'[r] \in {"lock", "clear", "commit"}
        BY <1>1, <2>1 DEF TypeInv, TypeOK, AfterItems
      <3>3. \A q \in Reqs \ {r} : pc'[q] = pc[q] /\ tx'[q] = tx[q]
        BY <2>1 DEF TypeInv, TypeOK
      <3> QED
        BY <3>1, <3>2, <3>3 DEF TypeInv, Cursor
    <2> QED
      BY <2>1, <2>3, <2>7, <2>8, <2>9 DEF TypeInv, TypeOK
  <1>4. CASE ~Covers(draft[p], n)
    BY <1>1, <1>4, RollbackType DEF TakeStock
  <1> QED
    BY <1>3, <1>4

\* The end of a buyer's transaction.
LEMMA PlacedOrderType ==
    ASSUME TypeInv, NEW r \in Buyers
    PROVE  /\ Extend(orders, r, PlacedOrder(r)) \in
                 [DOMAIN Extend(orders, r, PlacedOrder(r)) -> Order]
           /\ DOMAIN Extend(orders, r, PlacedOrder(r)) \subseteq Buyers
  <1>1. PlacedOrder(r) \in Order
    BY DEF PlacedOrder, TypeInv, TypeOK, Locals, Order, Reqs
  <1>2. orders \in [DOMAIN orders -> Order] /\ DOMAIN orders \subseteq Buyers
    BY DEF TypeInv, TypeOK
  <1>3. /\ Extend(orders, r, PlacedOrder(r)) \in
              [DOMAIN Extend(orders, r, PlacedOrder(r)) -> Order]
        /\ DOMAIN Extend(orders, r, PlacedOrder(r)) = DOMAIN orders \cup {r}
    BY <1>1, <1>2 DEF Extend
  <1> QED
    BY <1>2, <1>3

\* The COMMIT of a direct order adds one well-formed order.
LEMMA CommitOrderType ==
    ASSUME TypeInv, NEW r \in OrderReqs, CommitOrder(r)
    PROVE  TypeInv'
  <1>1. r \in Buyers /\ r \in Reqs
    BY DEF Reqs, Buyers
  <1>2. Ends(r, "done")
    BY DEF CommitOrder
  <1>3. catalog' \in [Products -> ProductRow]
    BY PublishedType DEF CommitOrder
  <1>4. orders' \in [DOMAIN orders' -> Order] /\ DOMAIN orders' \subseteq Buyers
    BY <1>1, PlacedOrderType DEF CommitOrder
  <1> QED
    BY <1>1, <1>2, <1>3, <1>4, EndsType DEF CommitOrder, TypeInv, TypeOK

\* The DELETE of a checkout records the rows it took.
LEMMA ClearCartType ==
    ASSUME TypeInv, NEW c \in CheckoutReqs, ClearCart(c)
    PROVE  TypeInv'
  <1>1. c \in Reqs /\ tx[c] \in Locals
    BY DEF Reqs, Buyers, TypeInv, TypeOK
  <1>2. RowsOf(UserOf[c]) \in SUBSET (Nat \ {0})
    <2>1. DOMAIN cart \subseteq 1 .. nextRow - 1 /\ nextRow \in Nat
      BY DEF TypeInv, TypeOK
    <2> QED
      BY <2>1 DEF RowsOf
  <1>3. /\ tx' = [tx EXCEPT ![c].gone = RowsOf(UserOf[c])]
        /\ pc' = [pc EXCEPT ![c] = "commit"]
        /\ UNCHANGED <<catalog, draft, cart, nextRow, orders, held>>
    BY DEF ClearCart
  <1>4. tx'[c] \in Locals
    BY <1>1, <1>2, <1>3 DEF Locals, TypeInv, TypeOK
  <1>5. tx' \in [Reqs -> Locals] /\ pc' \in [Reqs -> PC]
    BY <1>1, <1>3, <1>4 DEF TypeInv, TypeOK, PC
  <1>6. Cursor'
    BY <1>1, <1>3 DEF Cursor, TypeInv, TypeOK
  <1> QED
    BY <1>3, <1>5, <1>6 DEF TypeInv, TypeOK

\* The COMMIT of a checkout adds one order and removes cart rows.
LEMMA CommitCheckoutType ==
    ASSUME TypeInv, NEW c \in CheckoutReqs, CommitCheckout(c)
    PROVE  TypeInv'
  <1>1. c \in Buyers /\ c \in Reqs
    BY DEF Reqs, Buyers
  <1>2. Ends(c, "done")
    BY DEF CommitCheckout
  <1>3. catalog' \in [Products -> ProductRow]
    BY PublishedType DEF CommitCheckout
  <1>4. orders' \in [DOMAIN orders' -> Order] /\ DOMAIN orders' \subseteq Buyers
    BY <1>1, PlacedOrderType DEF CommitCheckout
  <1>5. /\ cart' \in [DOMAIN cart' -> CartRow]
        /\ DOMAIN cart' \subseteq DOMAIN cart
    <2>1. cart \in [DOMAIN cart -> CartRow]
      BY DEF TypeInv, TypeOK
    <2> DEFINE S == DOMAIN cart \ tx[c].gone
    <2>2. cart' = Keep(cart, S)
      BY DEF CommitCheckout
    <2> HIDE DEF S
    <2>3. Keep(cart, S) \in [DOMAIN Keep(cart, S) -> CartRow] /\ DOMAIN Keep(cart, S) = DOMAIN cart \cap S
      BY <2>1, KeepType, Zenon
    <2> QED
      BY <2>2, <2>3
  <1>6. UNCHANGED <<draft, nextRow>>
    BY DEF CommitCheckout
  <1> QED
    BY <1>1, <1>2, <1>3, <1>4, <1>5, <1>6, EndsType DEF TypeInv, TypeOK

\* A refused cart call ends and changes nothing else.
LEMMA FailsType ==
    ASSUME TypeInv, NEW k \in CartReqs, Fails(k)
    PROVE  TypeInv'
  <1>1. k \in Reqs /\ Ends(k, "failed")
    BY DEF Reqs, Fails
  <1> QED
    BY <1>1, EndsType DEF Fails, TypeInv, TypeOK

\* One line of a quantity a client may send.
LEMMA OneLine ==
    ASSUME NEW p \in Products, NEW n \in Quantities
    PROVE  /\ <<[product |-> p, qty |-> n]>> \in Seq(Line)
           /\ 1 \in DOMAIN <<[product |-> p, qty |-> n]>>
  <1>1. [product |-> p, qty |-> n] \in Line
    BY InputAssumption DEF Line
  <1> QED
    BY <1>1

\* addCartItem starts with one line.
LEMMA AddCartItemType ==
    ASSUME TypeInv, NEW k \in CartReqs, AddCartItem(k)
    PROVE  TypeInv'
  <1>1. PICK p \in Products, n \in Quantities :
           tx' = [tx EXCEPT ![k].items = <<[product |-> p, qty |-> n]>>]
    BY DEF AddCartItem
  <1>2. k \in Reqs
    BY DEF Reqs
  <1> DEFINE items == <<[product |-> p, qty |-> n]>>
  <1>3. items \in Seq(Line) /\ 1 \in DOMAIN items
    BY OneLine
  <1>4. tx'[k] = [tx[k] EXCEPT !.items = items]
    BY <1>1, <1>2 DEF TypeInv, TypeOK
  <1> HIDE DEF items
  <1>5. tx[k] \in Locals /\ tx[k].next = 1
    BY <1>2 DEF AddCartItem, TypeInv, TypeOK, Cursor
  <1>6. tx'[k] \in Locals /\ tx'[k].next \in DOMAIN tx'[k].items
    BY <1>3, <1>4, <1>5 DEF Locals
  <1>7. LocalStep(k) /\ pc'[k] = "check"
    BY <1>1, <1>2 DEF AddCartItem, LocalStep, TypeInv, TypeOK
  <1> QED
    BY <1>2, <1>6, <1>7, LocalStepType DEF PC

\* updateCartItem reads the product of its row.
LEMMA UpdateCartItemType ==
    ASSUME TypeInv, NEW k \in CartReqs, UpdateCartItem(k)
    PROVE  TypeInv'
  <1>1. PICK id \in 1 .. nextRow, n \in Quantities :
           IF id \in RowsOf(UserOf[k])
           THEN /\ tx' = [tx EXCEPT
                      ![k].items = <<[product |-> cart[id].product, qty |-> n]>>,
                      ![k].seen = {id}]
                /\ pc' = [pc EXCEPT ![k] = "check"]
                /\ UNCHANGED <<catalog, draft, cart, nextRow, orders, held>>
           ELSE Fails(k)
    BY DEF UpdateCartItem
  <1>2. k \in Reqs
    BY DEF Reqs
  <1>3. CASE id \in RowsOf(UserOf[k])
    <2> DEFINE items == <<[product |-> cart[id].product, qty |-> n]>>
    <2>1. id \in Nat \ {0} /\ cart[id].product \in Products
      BY <1>3 DEF RowsOf, CartRow, TypeInv, TypeOK
    <2>2. items \in Seq(Line) /\ 1 \in DOMAIN items
      BY <2>1, OneLine
    <2>3. tx'[k] = [tx[k] EXCEPT !.items = items, !.seen = {id}]
      BY <1>1, <1>2, <1>3 DEF TypeInv, TypeOK
    <2>4. LocalStep(k) /\ pc'[k] = "check"
      BY <1>1, <1>2, <1>3 DEF LocalStep, TypeInv, TypeOK
    <2> HIDE DEF items
    <2>5. tx[k] \in Locals /\ tx[k].next = 1
      BY <1>2 DEF UpdateCartItem, TypeInv, TypeOK, Cursor
    <2>6. tx'[k] \in Locals /\ tx'[k].next \in DOMAIN tx'[k].items
      <3>1. {id} \in SUBSET (Nat \ {0})
        BY <2>1
      <3>2. /\ tx'[k].items = items /\ tx'[k].next = 1
            /\ tx'[k] \in Locals
        BY <2>2, <2>3, <2>5, <3>1 DEF Locals
      <3> QED
        BY <2>2, <3>2
    <2> QED
      BY <1>2, <2>4, <2>6, LocalStepType DEF PC
  <1>4. CASE id \notin RowsOf(UserOf[k])
    BY <1>1, <1>4, FailsType
  <1> QED
    BY <1>3, <1>4

\* assertCartProductState only lets the call go on or refuses it.
LEMMA AssertCartProductStateType ==
    ASSUME TypeInv, NEW k \in CartReqs, AssertCartProductState(k)
    PROVE  TypeInv'
  <1> DEFINE row == catalog[Item(k).product]
  <1>1. k \in Reqs /\ pc[k] = "check"
    BY DEF Reqs, AssertCartProductState
  <1>2. CASE Sellable(row) /\ Covers(row, Item(k).qty)
    <2>1. /\ pc' = [pc EXCEPT ![k] = "write"]
          /\ UNCHANGED <<catalog, draft, cart, nextRow, orders, held, tx>>
      BY <1>2 DEF AssertCartProductState
    <2>2. pc' \in [Reqs -> PC] /\ Cursor'
      BY <1>1, <2>1 DEF TypeInv, TypeOK, PC, Cursor
    <2> QED
      BY <2>1, <2>2 DEF TypeInv, TypeOK
  <1>3. CASE ~(Sellable(row) /\ Covers(row, Item(k).qty))
    BY <1>3, FailsType DEF AssertCartProductState
  <1> QED
    BY <1>2, <1>3

\* The upsert adds to a line or inserts a row under the next id.
LEMMA UpsertCartItemType ==
    ASSUME TypeInv, NEW k \in CartReqs, UpsertCartItem(k)
    PROVE  TypeInv'
  <1> DEFINE p == Item(k).product
             n == Item(k).qty
             same == {id \in RowsOf(UserOf[k]) : cart[id].product = p}
  <1>1. k \in Reqs /\ pc[k] = "write" /\ UserOf[k] \in Users
    BY ReqsAssumption DEF Reqs, UpsertCartItem
  <1>2. p \in Products /\ n \in Nat \ {0}
    BY <1>1, ItemType DEF Line
  <1>3. Ends(k, "done") /\ UNCHANGED <<catalog, draft, orders>>
    BY DEF UpsertCartItem
  <1>4. /\ cart' \in [DOMAIN cart' -> CartRow]
        /\ nextRow' \in Nat \ {0}
        /\ DOMAIN cart' \subseteq 1 .. nextRow' - 1
    <2>1. CASE same # {}
      <3>1. /\ cart' = [id \in DOMAIN cart |->
                          IF id \in same THEN [cart[id] EXCEPT !.qty = @ + n]
                                         ELSE cart[id]]
            /\ UNCHANGED nextRow
        BY <2>1 DEF UpsertCartItem
      <3> HIDE DEF p, n, same
      <3>2. \A id \in DOMAIN cart : cart[id] \in CartRow
        BY DEF TypeInv, TypeOK
      <3>3. \A id \in DOMAIN cart : [cart[id] EXCEPT !.qty = @ + n] \in CartRow
        BY <1>2, <3>2 DEF CartRow
      <3> QED
        BY <3>1, <3>2, <3>3 DEF TypeInv, TypeOK
    <2>2. CASE same = {}
      <3>1. /\ cart' = Extend(cart, nextRow,
                          [user |-> UserOf[k], product |-> p, qty |-> n])
            /\ nextRow' = nextRow + 1
        BY <2>2 DEF UpsertCartItem
      <3>2. [user |-> UserOf[k], product |-> p, qty |-> n] \in CartRow
        BY <1>1, <1>2 DEF CartRow
      <3> HIDE DEF p, n, same
      <3>3. /\ cart \in [DOMAIN cart -> CartRow] /\ nextRow \in Nat \ {0}
            /\ DOMAIN cart \subseteq 1 .. nextRow - 1
        BY DEF TypeInv, TypeOK
      <3>4. /\ cart' \in [DOMAIN cart' -> CartRow]
            /\ DOMAIN cart' = DOMAIN cart \cup {nextRow}
        BY <3>1, <3>2, <3>3 DEF Extend
      <3> QED
        BY <3>1, <3>3, <3>4
    <2> QED
      BY <2>1, <2>2
  <1> QED
    BY <1>1, <1>3, <1>4, EndsType DEF TypeInv, TypeOK

\* The UPDATE of updateCartItem keeps the set of rows.
LEMMA WriteCartQuantityType ==
    ASSUME TypeInv, NEW k \in CartReqs, WriteCartQuantity(k)
    PROVE  TypeInv'
  <1> DEFINE n == Item(k).qty
  <1>1. k \in Reqs /\ pc[k] = "write"
    BY DEF Reqs, WriteCartQuantity
  <1>2. n \in Nat \ {0}
    BY <1>1, ItemType DEF Line
  <1>3. cart' = [id \in DOMAIN cart |->
                  IF id \in tx[k].seen THEN [cart[id] EXCEPT !.qty = n] ELSE cart[id]]
    BY DEF WriteCartQuantity
  <1>4. Ends(k, "done") /\ UNCHANGED <<catalog, draft, nextRow, orders>>
    BY DEF WriteCartQuantity
  <1> HIDE DEF n
  <1>5. \A id \in DOMAIN cart : cart[id] \in CartRow
    BY DEF TypeInv, TypeOK
  <1>6. \A id \in DOMAIN cart : [cart[id] EXCEPT !.qty = n] \in CartRow
    BY <1>2, <1>5 DEF CartRow
  <1>7. cart' \in [DOMAIN cart' -> CartRow] /\ DOMAIN cart' = DOMAIN cart
    BY <1>3, <1>5, <1>6
  <1> QED
    BY <1>1, <1>4, <1>7, EndsType DEF TypeInv, TypeOK

\* deleteCartItem removes one row.
LEMMA DeleteCartItemType ==
    ASSUME TypeInv, NEW k \in CartReqs, DeleteCartItem(k)
    PROVE  TypeInv'
  <1>1. PICK id \in 1 .. nextRow :
           IF id \in RowsOf(UserOf[k])
           THEN /\ CartRowFree(k, id)
                /\ cart' = Keep(cart, DOMAIN cart \ {id})
                /\ Ends(k, "done")
                /\ UNCHANGED <<catalog, draft, nextRow, orders>>
           ELSE Fails(k)
    BY DEF DeleteCartItem
  <1>2. CASE id \in RowsOf(UserOf[k])
    <2>1. k \in Reqs /\ Ends(k, "done")
      BY <1>1, <1>2 DEF Reqs
    <2>2. cart' \in [DOMAIN cart' -> CartRow] /\ DOMAIN cart' \subseteq DOMAIN cart
      BY <1>1, <1>2 DEF Keep, TypeInv, TypeOK
    <2>3. UNCHANGED <<catalog, draft, nextRow, orders>>
      BY <1>1, <1>2
    <2> QED
      BY <2>1, <2>2, <2>3, EndsType DEF TypeInv, TypeOK
  <1>3. CASE id \notin RowsOf(UserOf[k])
    BY <1>1, <1>3, FailsType
  <1> QED
    BY <1>2, <1>3

\* adminCreateProduct writes one well-formed row.
LEMMA AdminCreateProductType ==
    ASSUME TypeInv, NEW a \in AdminReqs, AdminCreateProduct(a)
    PROVE  TypeInv'
  <1>1. a \in Reqs /\ Ends(a, "done") /\ UNCHANGED <<cart, nextRow, orders>>
    BY DEF Reqs, AdminCreateProduct
  <1>2. PICK p \in Products, n \in Amounts, price \in Prices :
           LET row == [status |-> "live", active |-> TRUE, amount |-> n, price |-> price]
           IN  /\ catalog' = [catalog EXCEPT ![p] = row]
               /\ draft' = [draft EXCEPT ![p] = row]
    BY DEF AdminCreateProduct
  <1>3. [status |-> "live", active |-> TRUE, amount |-> n, price |-> price] \in ProductRow
    BY InputAssumption DEF ProductRow
  <1>4. catalog' \in [Products -> ProductRow] /\ draft' \in [Products -> ProductRow]
    BY <1>2, <1>3 DEF TypeInv, TypeOK
  <1> QED
    BY <1>1, <1>4, EndsType DEF TypeInv, TypeOK

\* adminUpdateProduct writes an uncommitted, well-formed row and locks it.
LEMMA AdminUpdateProductType ==
    ASSUME TypeInv, NEW a \in AdminReqs, AdminUpdateProduct(a)
    PROVE  TypeInv'
  <1>1. a \in Reqs /\ pc[a] = "new"
    BY DEF Reqs, AdminUpdateProduct
  <1>2. PICK p \in Products :
           IF draft[p].status = "live"
           THEN /\ \E n \in Amounts \cup {draft[p].amount},
                      price \in Prices \cup {draft[p].price}, active \in BOOLEAN :
                      draft' = [draft EXCEPT ![p].amount = n, ![p].price = price,
                                             ![p].active = active]
                /\ held' = [held EXCEPT ![a] = {p}]
                /\ pc' = [pc EXCEPT ![a] = "commit"]
                /\ UNCHANGED <<catalog, cart, nextRow, orders, tx>>
           ELSE Rollback(a)
    BY DEF AdminUpdateProduct
  <1>3. CASE draft[p].status = "live"
    <2>1. PICK n \in Amounts \cup {draft[p].amount},
               price \in Prices \cup {draft[p].price}, active \in BOOLEAN :
               draft' = [draft EXCEPT ![p].amount = n, ![p].price = price,
                                      ![p].active = active]
      BY <1>2, <1>3
    <2>2. draft[p] \in ProductRow
      BY DEF TypeInv, TypeOK
    <2>3. n \in Nat /\ price \in Prices
      BY <2>2, InputAssumption DEF ProductRow
    <2>4. [draft[p] EXCEPT !.amount = n, !.price = price, !.active = active] \in ProductRow
      BY <2>2, <2>3 DEF ProductRow
    <2>5. draft' \in [Products -> ProductRow]
      BY <2>1, <2>4 DEF TypeInv, TypeOK
    <2>6. /\ held' = [held EXCEPT ![a] = {p}]
          /\ pc' = [pc EXCEPT ![a] = "commit"]
          /\ UNCHANGED <<catalog, cart, nextRow, orders, tx>>
      BY <1>2, <1>3
    <2>7. /\ held' \in [Reqs -> SUBSET Products]
          /\ pc' \in [Reqs -> PC] /\ Cursor'
      BY <1>1, <2>6 DEF TypeInv, TypeOK, PC, Cursor
    <2> QED
      BY <2>5, <2>6, <2>7 DEF TypeInv, TypeOK
  <1>4. CASE draft[p].status # "live"
    BY <1>1, <1>2, <1>4, RollbackType
  <1> QED
    BY <1>3, <1>4

\* The COMMIT of adminUpdateProduct publishes its row.
LEMMA CommitProductType ==
    ASSUME TypeInv, NEW a \in AdminReqs, CommitProduct(a)
    PROVE  TypeInv'
  <1>1. a \in Reqs /\ Ends(a, "done") /\ UNCHANGED <<draft, cart, nextRow, orders>>
    BY DEF Reqs, CommitProduct
  <1>2. catalog' \in [Products -> ProductRow]
    BY PublishedType DEF CommitProduct
  <1> QED
    BY <1>1, <1>2, EndsType DEF TypeInv, TypeOK

\* adminDeleteProduct only changes the status of a row.
LEMMA AdminDeleteProductType ==
    ASSUME TypeInv, NEW a \in AdminReqs, AdminDeleteProduct(a)
    PROVE  TypeInv'
  <1>1. a \in Reqs
    BY DEF Reqs
  <1>2. PICK p \in Products :
           IF draft[p].status = "live"
           THEN /\ draft' = [draft EXCEPT ![p].status = "deleted"]
                /\ catalog' = [catalog EXCEPT ![p].status = "deleted"]
                /\ Ends(a, "done")
                /\ UNCHANGED <<cart, nextRow, orders>>
           ELSE Rollback(a)
    BY DEF AdminDeleteProduct
  <1>3. CASE draft[p].status = "live"
    <2>1. draft[p] \in ProductRow /\ catalog[p] \in ProductRow
      BY DEF TypeInv, TypeOK
    <2>2. /\ [draft[p] EXCEPT !.status = "deleted"] \in ProductRow
          /\ [catalog[p] EXCEPT !.status = "deleted"] \in ProductRow
      BY <2>1 DEF ProductRow
    <2>3. catalog' \in [Products -> ProductRow] /\ draft' \in [Products -> ProductRow]
      BY <1>2, <1>3, <2>2 DEF TypeInv, TypeOK
    <2> QED
      BY <1>1, <1>2, <1>3, <2>3, EndsType DEF TypeInv, TypeOK
  <1>4. CASE draft[p].status # "live"
    BY <1>1, <1>2, <1>4, RollbackType
  <1> QED
    BY <1>3, <1>4

\* The invariant of the shape is kept by every step.
LEMMA StepType == TypeInv /\ [Next]_vars => TypeInv'
  <1> SUFFICES ASSUME TypeInv, [Next]_vars PROVE TypeInv'
    OBVIOUS
  <1>1. ASSUME NEW r \in Reqs, Rollback(r) PROVE TypeInv'
    BY <1>1, RollbackType
  <1>2. ASSUME NEW r \in Buyers, OrderStep(r) PROVE TypeInv'
    BY <1>1, <1>2, LockProductType, TakeStockType DEF OrderStep, DeadlockVictim, Reqs
  <1>3. ASSUME NEW r \in OrderReqs, CreateOrder(r) \/ OrderStep(r) \/ CommitOrder(r)
        PROVE  TypeInv'
    BY <1>2, <1>3, CreateOrderType, CommitOrderType DEF Buyers
  <1>4. ASSUME NEW c \in CheckoutReqs,
               \/ CheckoutCart(c) \/ LockCartRows(c) \/ OrderStep(c)
               \/ ClearCart(c) \/ CommitCheckout(c)
        PROVE  TypeInv'
    BY <1>2, <1>4, CheckoutCartType, LockCartRowsType, ClearCartType,
       CommitCheckoutType DEF Buyers
  <1>5. ASSUME NEW k \in CartReqs,
               \/ AddCartItem(k) \/ UpdateCartItem(k) \/ DeleteCartItem(k)
               \/ AssertCartProductState(k) \/ UpsertCartItem(k) \/ WriteCartQuantity(k)
        PROVE  TypeInv'
    BY <1>5, AddCartItemType, UpdateCartItemType, DeleteCartItemType,
       AssertCartProductStateType, UpsertCartItemType, WriteCartQuantityType
  <1>6. ASSUME NEW a \in AdminReqs,
               AdminCreateProduct(a) \/ AdminUpdateProduct(a) \/ CommitProduct(a)
               \/ AdminDeleteProduct(a)
        PROVE  TypeInv'
    BY <1>6, AdminCreateProductType, AdminUpdateProductType, CommitProductType,
       AdminDeleteProductType
  <1>7. CASE UNCHANGED vars
    BY <1>7 DEF vars, TypeInv, TypeOK, Cursor
  <1> QED
    BY <1>1, <1>3, <1>4, <1>5, <1>6, <1>7 DEF Next, StatementFails

\* Every state of Ordering has the shape TypeOK describes: rows, versions,
\* locks, orders and the locals of every call.
THEOREM TypeCorrect == Spec => []TypeOK
  <1>1. TypeInv => TypeOK
    BY DEF TypeInv
  <1> QED
    BY InitType, StepType, <1>1, PTL DEF Spec

-----------------------------------------------------------------------------
(* Locks, versions and accounts *)

LockInv == Stages /\ Locks /\ Accounts /\ TakesWhatItChecked

\* StockInv splits into the part about shapes and the part about locks.
LEMMA StockInvParts == StockInv <=> TypeInv /\ LockInv
  BY DEF StockInv, TypeInv, LockInv

\* The stages a call of r's kind goes through.
RightStage(r, stage) ==
    /\ r \in CartReqs => stage \in {"unmade", "new", "check", "write", "done", "failed"}
    /\ r \in AdminReqs => stage \in {"unmade", "new", "commit", "done", "failed"}
    /\ r \in Buyers => stage \notin {"check", "write"}

\* Initially nobody holds a lock and every row has one version.
LEMMA InitLocks == Init => LockInv
  <1> SUFFICES ASSUME Init PROVE LockInv
    OBVIOUS
  <1>1. \A r \in Reqs : pc[r] \in {"unmade", "new"} /\ held[r] = {} /\ tx[r].taken = NoItems
    BY DEF Init, Idle
  <1>2. catalog = draft /\ DOMAIN orders = {}
    BY DEF Init
  <1>3. Stages
    BY <1>1, <1>2 DEF Stages, Reqs
  <1>4. Locks
    BY <1>1, <1>2 DEF Locks
  <1>5. Accounts /\ TakesWhatItChecked
    BY <1>1 DEF Accounts, TakesWhatItChecked, NoItems, Reqs
  <1> QED
    BY <1>3, <1>4, <1>5 DEF LockInv

\* A step of r that touches no product row and no lock, when r holds none.
LEMMA QuietStep ==
    ASSUME StockInv, NEW r \in Reqs,
           UNCHANGED <<catalog, draft, held>>,
           pc' = [pc EXCEPT ![r] = pc'[r]],
           tx' = [tx EXCEPT ![r] = tx'[r]],
           held[r] = {}, tx'[r].taken = NoItems, pc'[r] # "take",
           RightStage(r, pc'[r]), UNCHANGED orders, pc[r] # "done"
    PROVE  LockInv'
  <1>1. /\ pc \in [Reqs -> PC] /\ tx \in [Reqs -> Locals]
        /\ held \in [Reqs -> SUBSET Products] /\ DOMAIN orders \subseteq Buyers
    BY DEF StockInv, TypeOK
  <1>2. \A q \in Reqs \ {r} : pc'[q] = pc[q] /\ tx'[q] = tx[q]
    BY <1>1
  <1>3. Stages'
    BY <1>1, <1>2 DEF StockInv, Stages, RightStage, Reqs
  <1>4. Locks'
    BY DEF StockInv, Locks
  <1>5. Accounts'
    BY <1>2 DEF StockInv, Accounts, NoItems, Reqs
  <1>6. TakesWhatItChecked'
    BY <1>1, <1>2 DEF StockInv, TakesWhatItChecked, Item, Reqs
  <1> QED
    BY <1>3, <1>4, <1>5, <1>6 DEF LockInv

\* A call that holds nothing ends without touching a product row.
LEMMA QuietEnd ==
    ASSUME StockInv, NEW r \in Reqs, NEW end \in {"done", "failed"}, Ends(r, end),
           UNCHANGED <<catalog, draft, orders>>, held[r] = {}, pc[r] # "done"
    PROVE  LockInv'
  <1>1. /\ pc \in [Reqs -> PC] /\ tx \in [Reqs -> Locals]
        /\ held \in [Reqs -> SUBSET Products]
    BY DEF StockInv, TypeOK
  <1>2. /\ held' = held
        /\ pc' = [pc EXCEPT ![r] = pc'[r]] /\ pc'[r] = end
        /\ tx' = [tx EXCEPT ![r] = tx'[r]] /\ tx'[r].taken = NoItems
    BY <1>1 DEF Ends, Idle
  <1>3. RightStage(r, pc'[r])
    BY <1>2 DEF RightStage
  <1> QED
    BY <1>2, <1>3, QuietStep

\* ROLLBACK makes the versions of the rows r held equal again.
LEMMA RollbackLocks ==
    ASSUME StockInv, NEW r \in Reqs, Rollback(r), pc[r] # "done"
    PROVE  LockInv'
  <1>1. /\ pc \in [Reqs -> PC] /\ tx \in [Reqs -> Locals]
        /\ held \in [Reqs -> SUBSET Products]
        /\ draft \in [Products -> ProductRow] /\ DOMAIN orders \subseteq Buyers
    BY DEF StockInv, TypeOK
  <1>2. /\ pc'[r] = "failed" /\ held'[r] = {} /\ tx'[r].taken = NoItems
        /\ \A q \in Reqs \ {r} : pc'[q] = pc[q] /\ tx'[q] = tx[q] /\ held'[q] = held[q]
    BY <1>1 DEF Rollback, Ends, Idle
  <1>3. /\ \A p \in Products : draft'[p] = IF p \in held[r] THEN catalog[p] ELSE draft[p]
        /\ UNCHANGED <<catalog, orders>>
    BY DEF Rollback
  <1>4. Stages'
    BY <1>1, <1>2, <1>3 DEF StockInv, Stages, Reqs
  <1>5. \A q \in Reqs \ {r}, p \in Products : p \in held[q] => draft'[p] = draft[p]
    BY <1>3 DEF StockInv, Locks
  <1>6. Locks'
    <2>1. \A p \in Products : (\A q \in Reqs : p \notin held'[q]) => draft'[p] = catalog'[p]
      BY <1>2, <1>3 DEF StockInv, Locks
    <2>2. \A q, s \in Reqs : q # s => held'[q] \cap held'[s] = {}
      BY <1>2 DEF StockInv, Locks
    <2>3. \A q \in Reqs, p \in Products : p \in held'[q] =>
             catalog'[p].status = "live" /\ draft'[p].status = "live"
      BY <1>2, <1>3, <1>5 DEF StockInv, Locks
    <2> QED
      BY <2>1, <2>2, <2>3 DEF Locks
  <1>7. Accounts'
    BY <1>2, <1>3, <1>5 DEF StockInv, Accounts, NoItems, Reqs
  <1>8. TakesWhatItChecked'
    <2> SUFFICES ASSUME NEW b \in Buyers, pc'[b] = "take"
                 PROVE  /\ Item(b)'.product \in held'[b]
                        /\ draft'[Item(b)'.product].amount >= Item(b)'.qty
      BY DEF TakesWhatItChecked
    <2>1. b \in Reqs \ {r} /\ pc[b] = "take" /\ Item(b)' = Item(b)
      BY <1>2 DEF Reqs, Item
    <2>2. Item(b).product \in held[b] /\ Item(b).product \in Products
      BY <1>1, <2>1 DEF StockInv, TakesWhatItChecked
    <2> QED
      BY <1>2, <1>5, <2>1, <2>2 DEF StockInv, TakesWhatItChecked
  <1> QED
    BY <1>4, <1>6, <1>7, <1>8 DEF LockInv

\* Locking a free, sellable row keeps locks exclusive and the accounts right.
LEMMA LockProductLocks ==
    ASSUME StockInv, NEW r \in Buyers, LockProduct(r)
    PROVE  LockInv'
  <1> DEFINE p == Item(r).product
             row == draft[p]
  <1>1. r \in Reqs /\ pc[r] = "lock" /\ Free(r, p)
    BY DEF Reqs, LockProduct
  <1>2. p \in Products /\ Item(r).qty \in Nat /\ row \in ProductRow
    BY <1>1, ItemType DEF StockInv, TypeInv, TypeOK, Line
  <1>3. CASE Sellable(row) /\ Covers(row, Item(r).qty)
    <2>1. /\ held' = [held EXCEPT ![r] = @ \cup {p}]
          /\ tx' = [tx EXCEPT ![r].paid[p] = row.price]
          /\ pc' = [pc EXCEPT ![r] = "take"]
          /\ UNCHANGED <<catalog, draft, cart, nextRow, orders>>
      BY <1>3 DEF LockProduct
    <2>2. /\ pc \in [Reqs -> PC] /\ tx \in [Reqs -> Locals]
          /\ held \in [Reqs -> SUBSET Products] /\ DOMAIN orders \subseteq Buyers
      BY DEF StockInv, TypeOK
    <2>3. /\ \A q \in Reqs \ {r} : pc'[q] = pc[q] /\ tx'[q] = tx[q] /\ held'[q] = held[q]
          /\ pc'[r] = "take" /\ held'[r] = held[r] \cup {p}
      BY <1>1, <2>1, <2>2
    <2>4. /\ tx'[r].taken = tx[r].taken
          /\ Item(r)' = Item(r)
          /\ \A s \in Products : tx'[r].paid[s] = IF s = p THEN row.price ELSE tx[r].paid[s]
      <3>1. tx'[r] = [tx[r] EXCEPT !.paid = [tx[r].paid EXCEPT ![p] = row.price]]
        BY <1>1, <2>1, <2>2
      <3>2. tx[r] \in Locals
        BY <1>1, <2>2
      <3> HIDE DEF p, row
      <3> QED
        BY <3>1, <3>2 DEF Locals, Item
    \* A row nobody else holds is r's already or has one version.
    <2>5. p \notin held[r] => row = catalog[p] /\ tx[r].taken[p] = 0
      <3>1. p \notin held[r] => \A q \in Reqs : p \notin held[q]
        BY <1>1 DEF Free
      <3>2. tx[r].taken[p] \in Nat
        BY <1>1, <1>2, <2>2 DEF Locals
      <3> QED
        BY <1>2, <3>1, <3>2 DEF StockInv, Locks, Accounts
    <2> HIDE DEF p, row
    <2>6. Stages'
      BY <1>1, <2>1, <2>2, <2>3 DEF StockInv, Stages, Reqs
    <2>7. Locks'
      <3>1. \A q, s \in Reqs : q # s => held'[q] \cap held'[s] = {}
        BY <1>1, <2>3 DEF StockInv, Locks, Free
      <3>2. \A s \in Products : (\A q \in Reqs : s \notin held'[q]) => draft'[s] = catalog'[s]
        BY <1>1, <2>1, <2>3 DEF StockInv, Locks
      <3>3. draft[p].status = "live" /\ catalog[p].status = "live"
        BY <1>1, <1>2, <1>3, <2>5 DEF StockInv, Locks, Sellable, row
      <3>4. \A q \in Reqs, s \in Products : s \in held'[q] =>
               catalog'[s].status = "live" /\ draft'[s].status = "live"
        BY <2>1, <2>3, <3>3 DEF StockInv, Locks
      <3> QED
        BY <3>1, <3>2, <3>4 DEF Locks
    <2>8. Accounts'
      <3> SUFFICES ASSUME NEW b \in Buyers, NEW s \in Products
                   PROVE  /\ tx'[b].taken[s] > 0 => s \in held'[b]
                          /\ s \in held'[b] =>
                                /\ Sellable(catalog'[s]) /\ draft'[s].active
                                /\ tx'[b].paid[s] = catalog'[s].price
                                /\ draft'[s].price = catalog'[s].price
                                /\ catalog'[s].amount = draft'[s].amount + tx'[b].taken[s]
        BY DEF Accounts, Sellable
      <3>1. CASE b # r
        BY <2>1, <2>3, <3>1 DEF StockInv, Accounts, Reqs
      <3>2. CASE b = r /\ s # p
        BY <2>1, <2>3, <2>4, <3>2 DEF StockInv, Accounts, Reqs
      <3>3. CASE b = r /\ s = p /\ p \in held[r]
        BY <2>1, <2>3, <2>4, <3>3 DEF StockInv, Accounts, Reqs, row
      <3>4. CASE b = r /\ s = p /\ p \notin held[r]
        <4>1. /\ Sellable(catalog[p]) /\ draft[p].active
              /\ draft[p].price = catalog[p].price
              /\ tx'[r].paid[p] = catalog[p].price
          BY <1>2, <1>3, <2>4, <2>5, <3>4 DEF Sellable, row
        <4>2. catalog[p].amount = draft[p].amount + tx'[r].taken[p]
          BY <1>2, <2>4, <2>5, <3>4 DEF row, ProductRow
        <4> QED
          BY <2>1, <2>3, <3>4, <4>1, <4>2
      <3> QED
        BY <3>1, <3>2, <3>3, <3>4
    <2>9. TakesWhatItChecked'
      <3>1. \A b \in Buyers \ {r} : Item(b)' = Item(b)
        BY <2>3 DEF Item, Reqs
      <3>2. Item(r)'.product \in held'[r] /\ draft'[Item(r)'.product].amount >= Item(r)'.qty
        BY <1>2, <1>3, <2>1, <2>3, <2>4 DEF Covers, p, row
      <3> QED
        BY <2>1, <2>3, <3>1, <3>2 DEF StockInv, TakesWhatItChecked, Reqs
    <2> QED
      BY <2>6, <2>7, <2>8, <2>9 DEF LockInv
  <1>4. CASE ~(Sellable(row) /\ Covers(row, Item(r).qty))
    BY <1>1, <1>4, RollbackLocks DEF LockProduct
  <1> QED
    BY <1>3, <1>4

\* Taking a line moves the same number from the row to the account.
LEMMA TakeStockLocks ==
    ASSUME StockInv, NEW r \in Buyers, TakeStock(r)
    PROVE  LockInv'
  <1> DEFINE p == Item(r).product
             n == Item(r).qty
  <1>1. r \in Reqs /\ pc[r] = "take"
    BY DEF Reqs, TakeStock
  <1>2. /\ p \in Products /\ n \in Nat /\ draft[p] \in ProductRow
        /\ p \in held[r] /\ draft[p].amount >= n
    BY <1>1, ItemType DEF StockInv, TypeInv, TypeOK, Line, TakesWhatItChecked
  <1>3. /\ draft' = [draft EXCEPT ![p].amount = @ - n]
        /\ tx' = [tx EXCEPT ![r].taken[p] = @ + n, ![r].next = @ + 1]
        /\ pc' = [pc EXCEPT ![r] =
                      IF tx[r].next = Len(tx[r].items) THEN AfterItems(r) ELSE "lock"]
        /\ UNCHANGED <<catalog, cart, nextRow, orders, held>>
    BY <1>2 DEF TakeStock, Covers
  <1> HIDE DEF p, n
  <1>4. /\ pc \in [Reqs -> PC] /\ tx \in [Reqs -> Locals]
        /\ held \in [Reqs -> SUBSET Products] /\ DOMAIN orders \subseteq Buyers
        /\ draft \in [Products -> ProductRow] /\ catalog \in [Products -> ProductRow]
    BY DEF StockInv, TypeOK
  <1>5. /\ \A q \in Reqs \ {r} : pc'[q] = pc[q] /\ tx'[q] = tx[q]
        /\ pc'[r] \in {"commit", "clear", "lock"}
    BY <1>1, <1>3, <1>4 DEF AfterItems
  <1>6. /\ tx'[r].paid = tx[r].paid
        /\ \A s \in Products : tx'[r].taken[s] = tx[r].taken[s] + IF s = p THEN n ELSE 0
    <2>1. tx[r] \in Locals
      BY <1>1, <1>4
    <2>2. tx'[r] = [tx[r] EXCEPT !.taken = [tx[r].taken EXCEPT ![p] = @ + n],
                                 !.next = @ + 1]
      BY <1>1, <1>3, <1>4
    <2>3. /\ tx'[r].paid = tx[r].paid
          /\ tx'[r].taken = [tx[r].taken EXCEPT ![p] = @ + n]
      BY <2>1, <2>2 DEF Locals
    <2>4. tx[r].taken \in [Products -> Nat]
      BY <2>1 DEF Locals
    <2> QED
      BY <1>2, <2>3, <2>4
  <1>7. /\ \A s \in Products : s # p => draft'[s] = draft[s]
        /\ draft'[p] = [draft[p] EXCEPT !.amount = @ - n]
    BY <1>2, <1>3, <1>4
  <1>8. /\ draft'[p].status = draft[p].status /\ draft'[p].active = draft[p].active
        /\ draft'[p].price = draft[p].price /\ draft'[p].amount = draft[p].amount - n
    BY <1>2, <1>7 DEF ProductRow
  <1>9. \A b \in Buyers \ {r} : p \notin held[b]
    BY <1>1, <1>2 DEF StockInv, Locks, Reqs
  <1>10. Stages'
    BY <1>1, <1>3, <1>4, <1>5 DEF StockInv, Stages, Reqs
  <1>11. Locks'
    <2>1. \A s \in Products : (\A q \in Reqs : s \notin held'[q]) => draft'[s] = catalog'[s]
      BY <1>1, <1>2, <1>3, <1>7 DEF StockInv, Locks
    <2>2. \A q \in Reqs, s \in Products : s \in held'[q] =>
             catalog'[s].status = "live" /\ draft'[s].status = "live"
      BY <1>3, <1>7, <1>8 DEF StockInv, Locks
    <2>3. \A q, s \in Reqs : q # s => held'[q] \cap held'[s] = {}
      BY <1>3 DEF StockInv, Locks
    <2> QED
      BY <2>1, <2>2, <2>3 DEF Locks
  <1>12. Accounts'
    <2> SUFFICES ASSUME NEW b \in Buyers, NEW s \in Products
                 PROVE  /\ tx'[b].taken[s] > 0 => s \in held'[b]
                        /\ s \in held'[b] =>
                              /\ Sellable(catalog'[s]) /\ draft'[s].active
                              /\ tx'[b].paid[s] = catalog'[s].price
                              /\ draft'[s].price = catalog'[s].price
                              /\ catalog'[s].amount = draft'[s].amount + tx'[b].taken[s]
      BY DEF Accounts, Sellable
    <2>1. CASE b # r
      <3>1. tx'[b] = tx[b] /\ held'[b] = held[b] /\ catalog' = catalog
        BY <1>3, <1>5, <2>1 DEF Reqs
      <3>2. s \in held[b] => draft'[s] = draft[s]
        BY <1>7, <1>9, <2>1
      <3>3. /\ tx[b].taken[s] > 0 => s \in held[b]
            /\ s \in held[b] =>
                  /\ Sellable(catalog[s]) /\ draft[s].active
                  /\ tx[b].paid[s] = catalog[s].price
                  /\ draft[s].price = catalog[s].price
                  /\ catalog[s].amount = draft[s].amount + tx[b].taken[s]
        BY DEF StockInv, Accounts
      <3> QED
        BY <3>1, <3>2, <3>3
    <2>2. CASE b = r /\ s # p
      <3>1. tx[r].taken[s] \in Nat
        BY <1>1, <1>4 DEF Locals
      <3>2. tx'[r].taken[s] = tx[r].taken[s]
        BY <1>6, <2>2, <3>1
      <3>3. /\ tx[r].taken[s] > 0 => s \in held[r]
            /\ s \in held[r] =>
                  /\ Sellable(catalog[s]) /\ draft[s].active
                  /\ tx[r].paid[s] = catalog[s].price
                  /\ draft[s].price = catalog[s].price
                  /\ catalog[s].amount = draft[s].amount + tx[r].taken[s]
        BY DEF StockInv, Accounts
      <3>4. draft'[s] = draft[s] /\ held' = held /\ catalog' = catalog
        BY <1>3, <1>7, <2>2
      <3> QED
        BY <1>6, <2>2, <3>2, <3>3, <3>4
    <2>3. CASE b = r /\ s = p
      <3>1. /\ Sellable(catalog[p]) /\ draft[p].active
            /\ tx[r].paid[p] = catalog[p].price
            /\ draft[p].price = catalog[p].price
            /\ catalog[p].amount = draft[p].amount + tx[r].taken[p]
        BY <1>2 DEF StockInv, Accounts
      <3>2. tx[r].taken[p] \in Nat /\ draft[p].amount \in Nat
        BY <1>1, <1>2, <1>4 DEF Locals, ProductRow
      <3>3. catalog[p].amount = draft'[p].amount + tx'[r].taken[p]
        BY <1>2, <1>6, <1>8, <3>1, <3>2
      <3> QED
        BY <1>2, <1>3, <1>6, <1>8, <2>3, <3>1, <3>3
    <2> QED
      BY <2>1, <2>2, <2>3
  <1>13. TakesWhatItChecked'
    <2> SUFFICES ASSUME NEW b \in Buyers, pc'[b] = "take"
                 PROVE  /\ Item(b)'.product \in held'[b]
                        /\ draft'[Item(b)'.product].amount >= Item(b)'.qty
      BY DEF TakesWhatItChecked
    <2>1. b \in Reqs \ {r} /\ pc[b] = "take" /\ Item(b)' = Item(b)
      BY <1>5 DEF Reqs, Item
    <2>2. Item(b).product \in held[b] /\ Item(b).product \in Products
      BY <1>4, <2>1 DEF StockInv, TakesWhatItChecked
    <2>3. Item(b).product # p
      BY <1>9, <2>1, <2>2
    <2> QED
      BY <1>3, <1>7, <2>1, <2>2, <2>3 DEF StockInv, TakesWhatItChecked
  <1> QED
    BY <1>10, <1>11, <1>12, <1>13 DEF LockInv

\* COMMIT makes the versions of the rows r held equal, the newest one.
LEMMA CommitLocks ==
    ASSUME StockInv, NEW r \in Reqs, pc[r] = "commit",
           catalog' = Published(r), Ends(r, "done"), UNCHANGED draft,
           DOMAIN orders' \subseteq DOMAIN orders \cup {r}
    PROVE  LockInv'
  <1>1. /\ pc \in [Reqs -> PC] /\ tx \in [Reqs -> Locals]
        /\ held \in [Reqs -> SUBSET Products]
        /\ catalog \in [Products -> ProductRow] /\ DOMAIN orders \subseteq Buyers
    BY DEF StockInv, TypeOK
  <1>2. /\ pc'[r] = "done" /\ held'[r] = {} /\ tx'[r].taken = NoItems
        /\ \A q \in Reqs \ {r} : pc'[q] = pc[q] /\ tx'[q] = tx[q] /\ held'[q] = held[q]
    BY <1>1 DEF Ends, Idle
  <1>3. \A p \in Products : catalog'[p] = IF p \in held[r] THEN draft[p] ELSE catalog[p]
    BY DEF Published
  <1>4. \A q \in Reqs \ {r}, p \in Products : p \in held[q] => catalog'[p] = catalog[p]
    BY <1>3 DEF StockInv, Locks
  <1>5. Stages'
    BY <1>1, <1>2 DEF StockInv, Stages, Reqs
  <1>6. Locks'
    <2>1. \A p \in Products : (\A q \in Reqs : p \notin held'[q]) => draft'[p] = catalog'[p]
      BY <1>2, <1>3 DEF StockInv, Locks
    <2>2. \A q, s \in Reqs : q # s => held'[q] \cap held'[s] = {}
      BY <1>2 DEF StockInv, Locks
    <2>3. \A q \in Reqs, p \in Products : p \in held'[q] =>
             catalog'[p].status = "live" /\ draft'[p].status = "live"
      BY <1>2, <1>4 DEF StockInv, Locks
    <2> QED
      BY <2>1, <2>2, <2>3 DEF Locks
  <1>7. Accounts'
    <2>1. \A p \in Products : tx'[r].taken[p] = 0
      BY <1>2 DEF NoItems
    <2> QED
      BY <1>2, <1>4, <2>1 DEF StockInv, Accounts, Reqs
  <1>8. TakesWhatItChecked'
    <2>1. \A b \in Buyers \ {r} : Item(b)' = Item(b)
      BY <1>2 DEF Item, Reqs
    <2> QED
      BY <1>2, <2>1 DEF StockInv, TakesWhatItChecked, Reqs
  <1> QED
    BY <1>5, <1>6, <1>7, <1>8 DEF LockInv

\* An administrator's call starts on a row nobody holds.
LEMMA FreeRow ==
    ASSUME StockInv, NEW a \in AdminReqs, pc[a] = "new", NEW p \in Products, Free(a, p)
    PROVE  /\ a \in Reqs /\ held[a] = {} /\ tx[a].taken = NoItems
           /\ \A q \in Reqs : p \notin held[q]
           /\ draft[p] = catalog[p]
  <1>1. a \in Reqs /\ held[a] = {} /\ tx[a].taken = NoItems
    BY DEF Reqs, StockInv, Stages
  <1>2. \A q \in Reqs : p \notin held[q]
    BY <1>1 DEF Free
  <1> QED
    BY <1>1, <1>2 DEF StockInv, Locks

\* A committed change of one row that nobody holds.
LEMMA CommittedChange ==
    ASSUME StockInv, NEW a \in AdminReqs, pc[a] = "new", NEW p \in Products,
           \A q \in Reqs : p \notin held[q],
           catalog'[p] = draft'[p],
           \A s \in Products : s # p => catalog'[s] = catalog[s] /\ draft'[s] = draft[s],
           Ends(a, "done"), UNCHANGED orders
    PROVE  LockInv'
  <1>1. /\ pc \in [Reqs -> PC] /\ tx \in [Reqs -> Locals]
        /\ held \in [Reqs -> SUBSET Products] /\ DOMAIN orders \subseteq Buyers
        /\ a \in Reqs \ Buyers /\ held[a] = {}
    BY ReqsAssumption DEF StockInv, TypeOK, Stages, Reqs, Buyers
  <1>2. /\ held' = held /\ pc'[a] = "done" /\ tx'[a].taken = NoItems
        /\ \A q \in Reqs \ {a} : pc'[q] = pc[q] /\ tx'[q] = tx[q]
    BY <1>1 DEF Ends, Idle
  <1>3. \A q \in Reqs, s \in Products :
           s \in held[q] => catalog'[s] = catalog[s] /\ draft'[s] = draft[s]
    OBVIOUS
  <1>4. Stages'
    BY <1>1, <1>2 DEF StockInv, Stages, Reqs
  <1>5. Locks'
    BY <1>2, <1>3 DEF StockInv, Locks
  <1>6. Accounts'
    BY <1>1, <1>2, <1>3 DEF StockInv, Accounts, Reqs
  <1>7. TakesWhatItChecked'
    <2> SUFFICES ASSUME NEW b \in Buyers, pc'[b] = "take"
                 PROVE  /\ Item(b)'.product \in held'[b]
                        /\ draft'[Item(b)'.product].amount >= Item(b)'.qty
      BY DEF TakesWhatItChecked
    <2>1. b \in Reqs \ {a} /\ pc[b] = "take" /\ Item(b)' = Item(b)
      BY <1>1, <1>2 DEF Reqs, Item
    <2>2. Item(b).product \in held[b] /\ Item(b).product \in Products
      BY <1>1, <2>1 DEF StockInv, TakesWhatItChecked
    <2> QED
      BY <1>2, <1>3, <2>1, <2>2 DEF StockInv, TakesWhatItChecked
  <1> QED
    BY <1>4, <1>5, <1>6, <1>7 DEF LockInv

\* A row that did not exist was held by nobody.
LEMMA AdminCreateProductLocks ==
    ASSUME StockInv, NEW a \in AdminReqs, AdminCreateProduct(a)
    PROVE  LockInv'
  <1>1. pc[a] = "new" /\ Ends(a, "done") /\ UNCHANGED orders
    BY DEF AdminCreateProduct
  <1>2. PICK p \in Products, n \in Amounts, price \in Prices :
           /\ catalog[p].status = "none"
           /\ LET row == [status |-> "live", active |-> TRUE, amount |-> n, price |-> price]
              IN  /\ catalog' = [catalog EXCEPT ![p] = row]
                  /\ draft' = [draft EXCEPT ![p] = row]
    BY DEF AdminCreateProduct
  <1>3. \A q \in Reqs : p \notin held[q]
    BY <1>2 DEF StockInv, Locks
  <1>4. /\ catalog'[p] = draft'[p]
        /\ \A s \in Products : s # p => catalog'[s] = catalog[s] /\ draft'[s] = draft[s]
    BY <1>2 DEF StockInv, TypeOK
  <1> QED
    BY <1>1, <1>3, <1>4, CommittedChange

\* Only a row nobody holds is deleted, in both versions.
LEMMA AdminDeleteProductLocks ==
    ASSUME StockInv, NEW a \in AdminReqs, AdminDeleteProduct(a)
    PROVE  LockInv'
  <1>1. pc[a] = "new" /\ a \in Reqs
    BY DEF AdminDeleteProduct, Reqs
  <1>2. PICK p \in Products :
           /\ Free(a, p)
           /\ IF draft[p].status = "live"
              THEN /\ draft' = [draft EXCEPT ![p].status = "deleted"]
                   /\ catalog' = [catalog EXCEPT ![p].status = "deleted"]
                   /\ Ends(a, "done")
                   /\ UNCHANGED <<cart, nextRow, orders>>
              ELSE Rollback(a)
    BY DEF AdminDeleteProduct
  <1>3. CASE draft[p].status = "live"
    <2>1. (\A q \in Reqs : p \notin held[q]) /\ draft[p] = catalog[p]
      BY <1>1, <1>2, FreeRow
    <2>2. /\ catalog'[p] = draft'[p]
          /\ \A s \in Products : s # p => catalog'[s] = catalog[s] /\ draft'[s] = draft[s]
      BY <1>2, <1>3, <2>1 DEF StockInv, TypeOK
    <2> QED
      BY <1>1, <1>2, <1>3, <2>1, <2>2, CommittedChange
  <1>4. CASE draft[p].status # "live"
    BY <1>1, <1>2, <1>4, RollbackLocks
  <1> QED
    BY <1>3, <1>4

\* The administrator locks a free row; no order has taken from it.
LEMMA AdminUpdateProductLocks ==
    ASSUME StockInv, NEW a \in AdminReqs, AdminUpdateProduct(a)
    PROVE  LockInv'
  <1>1. pc[a] = "new" /\ a \in Reqs \ (Buyers \cup CartReqs)
    BY ReqsAssumption DEF AdminUpdateProduct, Reqs, Buyers
  <1>2. PICK p \in Products :
           /\ Free(a, p)
           /\ IF draft[p].status = "live"
              THEN /\ \E n \in Amounts \cup {draft[p].amount},
                         price \in Prices \cup {draft[p].price}, active \in BOOLEAN :
                         draft' = [draft EXCEPT ![p].amount = n, ![p].price = price,
                                                ![p].active = active]
                   /\ held' = [held EXCEPT ![a] = {p}]
                   /\ pc' = [pc EXCEPT ![a] = "commit"]
                   /\ UNCHANGED <<catalog, cart, nextRow, orders, tx>>
              ELSE Rollback(a)
    BY DEF AdminUpdateProduct
  <1>3. CASE draft[p].status = "live"
    <2>1. /\ \A q \in Reqs : p \notin held[q]
          /\ draft[p] = catalog[p] /\ held[a] = {}
      BY <1>1, <1>2, FreeRow
    <2>2. /\ pc \in [Reqs -> PC] /\ held \in [Reqs -> SUBSET Products]
          /\ DOMAIN orders \subseteq Buyers /\ draft \in [Products -> ProductRow]
      BY DEF StockInv, TypeOK
    <2>3. /\ \A s \in Products : s # p => draft'[s] = draft[s]
          /\ draft'[p].status = "live"
      <3>1. PICK n \in Amounts \cup {draft[p].amount},
                 price \in Prices \cup {draft[p].price}, active \in BOOLEAN :
                 draft' = [draft EXCEPT ![p].amount = n, ![p].price = price,
                                        ![p].active = active]
        BY <1>2, <1>3
      <3>2. /\ draft'[p] = [draft[p] EXCEPT !.amount = n, !.price = price, !.active = active]
            /\ \A s \in Products : s # p => draft'[s] = draft[s]
        BY <2>2, <3>1
      <3>3. draft[p] \in ProductRow
        BY <2>2
      <3> QED
        BY <1>3, <3>2, <3>3, SMTT(30) DEF ProductRow
    <2>4. /\ held' = [held EXCEPT ![a] = {p}]
          /\ pc' = [pc EXCEPT ![a] = "commit"]
          /\ UNCHANGED <<catalog, orders, tx>>
      BY <1>2, <1>3
    <2>5. /\ pc'[a] = "commit" /\ held'[a] = {p}
          /\ \A q \in Reqs \ {a} : pc'[q] = pc[q] /\ held'[q] = held[q]
      BY <1>1, <2>2, <2>4
    <2>6. Stages'
      BY <1>1, <2>2, <2>4, <2>5 DEF StockInv, Stages, Reqs
    <2>7. Locks'
      <3>1. \A q, s \in Reqs : q # s => held'[q] \cap held'[s] = {}
        BY <2>1, <2>5 DEF StockInv, Locks
      <3>2. \A s \in Products : (\A q \in Reqs : s \notin held'[q]) => draft'[s] = catalog'[s]
        BY <1>1, <2>1, <2>3, <2>4, <2>5 DEF StockInv, Locks
      <3>3. \A q \in Reqs, s \in Products : s \in held'[q] =>
               catalog'[s].status = "live" /\ draft'[s].status = "live"
        BY <1>3, <2>1, <2>3, <2>4, <2>5 DEF StockInv, Locks
      <3> QED
        BY <3>1, <3>2, <3>3 DEF Locks
    <2>8. \A b \in Buyers : held'[b] = held[b] /\ p \notin held[b] /\ pc'[b] = pc[b]
      BY <1>1, <2>1, <2>5 DEF Reqs
    <2>9. Accounts'
      BY <2>3, <2>4, <2>8 DEF StockInv, Accounts
    <2>10. TakesWhatItChecked'
      <3> SUFFICES ASSUME NEW b \in Buyers, pc'[b] = "take"
                   PROVE  /\ Item(b)'.product \in held'[b]
                          /\ draft'[Item(b)'.product].amount >= Item(b)'.qty
        BY DEF TakesWhatItChecked
      <3>1. b \in Reqs /\ pc[b] = "take" /\ Item(b)' = Item(b)
        BY <2>4, <2>8 DEF Reqs, Item
      <3>2. Item(b).product \in held[b] /\ Item(b).product \in Products
        BY <2>2, <3>1 DEF StockInv, TakesWhatItChecked
      <3> QED
        BY <2>3, <2>8, <3>1, <3>2 DEF StockInv, TakesWhatItChecked
    <2> QED
      BY <2>6, <2>7, <2>9, <2>10 DEF LockInv
  <1>4. CASE draft[p].status # "live"
    BY <1>1, <1>2, <1>4, RollbackLocks
  <1> QED
    BY <1>3, <1>4

\* createOrder touches no row.
LEMMA CreateOrderLocks ==
    ASSUME StockInv, NEW r \in OrderReqs, CreateOrder(r)
    PROVE  LockInv'
  <1>1. /\ r \in Reqs /\ r \in Buyers /\ pc[r] = "new"
        /\ r \notin CartReqs \cup AdminReqs
    BY ReqsAssumption DEF Reqs, Buyers, CreateOrder
  <1>2. /\ pc \in [Reqs -> PC] /\ tx \in [Reqs -> Locals]
        /\ held[r] = {} /\ tx[r].taken = NoItems
    BY <1>1 DEF StockInv, TypeOK, Stages
  <1>3. PICK items \in ItemLists :
           IF items = <<>>
           THEN Rollback(r)
           ELSE /\ tx' = [tx EXCEPT ![r].items = items]
                /\ pc' = [pc EXCEPT ![r] = "lock"]
                /\ UNCHANGED <<catalog, draft, cart, nextRow, orders, held>>
    BY DEF CreateOrder
  <1>4. CASE items = <<>>
    BY <1>1, <1>3, <1>4, RollbackLocks
  <1>5. CASE items # <<>>
    <2>1. /\ UNCHANGED <<catalog, draft, held, orders>>
          /\ pc' = [pc EXCEPT ![r] = pc'[r]] /\ pc'[r] = "lock"
          /\ tx' = [tx EXCEPT ![r] = tx'[r]]
          /\ tx'[r] = [tx[r] EXCEPT !.items = items]
      BY <1>1, <1>2, <1>3, <1>5
    <2>2. tx'[r].taken = NoItems
      BY <1>1, <1>2, <2>1 DEF Locals
    <2>3. RightStage(r, pc'[r])
      BY <1>1, <2>1 DEF RightStage
    <2> QED
      BY <1>1, <1>2, <2>1, <2>2, <2>3, QuietStep
  <1> QED
    BY <1>4, <1>5

\* The SELECT of checkoutCart touches no product row.
LEMMA CheckoutCartLocks ==
    ASSUME StockInv, NEW c \in CheckoutReqs, CheckoutCart(c)
    PROVE  LockInv'
  <1>1. /\ c \in Reqs /\ pc[c] = "new" /\ c \notin CartReqs \cup AdminReqs
    BY ReqsAssumption DEF Reqs, Buyers, CheckoutCart
  <1>2. /\ pc \in [Reqs -> PC] /\ tx \in [Reqs -> Locals]
        /\ held[c] = {} /\ tx[c].taken = NoItems
    BY <1>1 DEF StockInv, TypeOK, Stages
  <1>3. /\ UNCHANGED <<catalog, draft, held, orders>>
        /\ pc' = [pc EXCEPT ![c] = pc'[c]] /\ pc'[c] = "lock_rows"
        /\ tx' = [tx EXCEPT ![c] = tx'[c]]
        /\ tx'[c] = [tx[c] EXCEPT !.seen = RowsOf(UserOf[c])]
    BY <1>1, <1>2 DEF CheckoutCart
  <1>4. tx'[c].taken = NoItems
    BY <1>1, <1>2, <1>3 DEF Locals
  <1>5. RightStage(c, pc'[c])
    BY <1>1, <1>3 DEF RightStage
  <1> QED
    BY <1>1, <1>2, <1>3, <1>4, <1>5, QuietStep

\* Locking cart rows touches no product row.
LEMMA LockCartRowsLocks ==
    ASSUME StockInv, NEW c \in CheckoutReqs, LockCartRows(c)
    PROVE  LockInv'
  <1> DEFINE rows == tx[c].seen \cap DOMAIN cart
  <1>1. /\ c \in Reqs /\ pc[c] = "lock_rows" /\ c \notin CartReqs \cup AdminReqs
    BY ReqsAssumption DEF Reqs, Buyers, LockCartRows
  <1>2. /\ pc \in [Reqs -> PC] /\ tx \in [Reqs -> Locals]
        /\ held[c] = {} /\ tx[c].taken = NoItems
    BY <1>1 DEF StockInv, TypeOK, Stages
  <1>3. CASE rows = {}
    BY <1>1, <1>3, RollbackLocks DEF LockCartRows
  <1>4. CASE rows # {}
    <2>1. PICK s \in InIdOrder(rows) :
             /\ tx' = [tx EXCEPT
                   ![c].rows = rows,
                   ![c].items = [i \in DOMAIN s |->
                       [product |-> cart[s[i]].product, qty |-> cart[s[i]].qty]]]
             /\ pc' = [pc EXCEPT ![c] = "lock"]
             /\ UNCHANGED <<catalog, draft, cart, nextRow, orders, held>>
      BY <1>4 DEF LockCartRows
    <2> DEFINE items == [i \in DOMAIN s |->
                  [product |-> cart[s[i]].product, qty |-> cart[s[i]].qty]]
    <2>2. /\ UNCHANGED <<catalog, draft, held, orders>>
          /\ pc' = [pc EXCEPT ![c] = pc'[c]] /\ pc'[c] = "lock"
          /\ tx' = [tx EXCEPT ![c] = tx'[c]]
          /\ tx'[c] = [tx[c] EXCEPT !.rows = rows, !.items = items]
      BY <1>1, <1>2, <2>1
    <2> HIDE DEF items, rows
    <2>3. tx'[c].taken = NoItems
      BY <1>1, <1>2, <2>2 DEF Locals
    <2>4. RightStage(c, pc'[c])
      BY <1>1, <2>2 DEF RightStage
    <2> QED
      BY <1>1, <1>2, <2>2, <2>3, <2>4, QuietStep
  <1> QED
    BY <1>3, <1>4

\* The DELETE of a checkout touches no product row: what it holds, it holds still.
LEMMA ClearCartLocks ==
    ASSUME StockInv, NEW c \in CheckoutReqs, ClearCart(c)
    PROVE  LockInv'
  <1>1. /\ c \in Reqs /\ pc[c] = "clear" /\ c \notin CartReqs \cup AdminReqs
        /\ c \notin DOMAIN orders
    BY ReqsAssumption DEF Reqs, Buyers, ClearCart, StockInv, Stages
  <1>2. pc \in [Reqs -> PC] /\ tx \in [Reqs -> Locals] /\ Buyers \subseteq Reqs
    BY DEF StockInv, TypeOK, Reqs
  <1>3. /\ UNCHANGED <<catalog, draft, held, orders>> /\ pc'[c] = "commit"
        /\ \A q \in Reqs \ {c} : pc'[q] = pc[q] /\ tx'[q] = tx[q]
        /\ tx'[c] = [tx[c] EXCEPT !.gone = RowsOf(UserOf[c])]
    BY <1>1, <1>2 DEF ClearCart
  <1>4. \A q \in Reqs : tx'[q].taken = tx[q].taken /\ tx'[q].paid = tx[q].paid
    <2>1. tx[c] \in Locals
      BY <1>1, <1>2
    <2>2. tx'[c].taken = tx[c].taken /\ tx'[c].paid = tx[c].paid
      BY <1>3, <2>1 DEF Locals
    <2> QED
      BY <1>3, <2>2
  <1>5. Stages'
    <2>1. CartReqs \subseteq Reqs /\ AdminReqs \subseteq Reqs /\ Buyers \subseteq Reqs
      BY DEF Reqs
    <2>2. c \in Buyers /\ DOMAIN orders \subseteq Buyers
      BY DEF Buyers, StockInv, TypeOK
    <2> QED
      BY <1>1, <1>3, <1>4, <2>1, <2>2 DEF StockInv, Stages
  <1>6. Locks'
    BY <1>3 DEF StockInv, Locks
  <1>7. Accounts'
    BY <1>2, <1>3, <1>4 DEF StockInv, Accounts, Sellable
  <1>8. TakesWhatItChecked'
    <2>1. \A b \in Buyers \ {c} : Item(b)' = Item(b)
      BY <1>2, <1>3 DEF Item
    <2> QED
      BY <1>2, <1>3, <2>1 DEF StockInv, TakesWhatItChecked
  <1> QED
    BY <1>5, <1>6, <1>7, <1>8 DEF LockInv

\* The calls that change a cart line hold no product and touch no product row.
LEMMA CartLocks ==
    ASSUME StockInv, NEW k \in CartReqs,
           \/ AddCartItem(k) \/ UpdateCartItem(k) \/ DeleteCartItem(k)
           \/ AssertCartProductState(k) \/ UpsertCartItem(k) \/ WriteCartQuantity(k)
    PROVE  LockInv'
  <1>1. /\ k \in Reqs /\ k \notin Buyers \cup AdminReqs
        /\ pc[k] \in {"new", "check", "write"}
    BY ReqsAssumption DEF Reqs, Buyers, AddCartItem, UpdateCartItem, DeleteCartItem,
       AssertCartProductState, UpsertCartItem, WriteCartQuantity
  <1>2. /\ pc \in [Reqs -> PC] /\ tx \in [Reqs -> Locals]
        /\ held[k] = {} /\ tx[k].taken = NoItems
    BY <1>1 DEF StockInv, TypeOK, Stages
  <1>3. CASE \E end \in {"done", "failed"} :
               Ends(k, end) /\ UNCHANGED <<catalog, draft, orders>>
    BY <1>1, <1>2, <1>3, QuietEnd
  <1>4. CASE /\ UNCHANGED <<catalog, draft, held, orders>>
             /\ pc' = [pc EXCEPT ![k] = pc'[k]] /\ pc'[k] \in {"check", "write"}
             /\ tx' = [tx EXCEPT ![k] = tx'[k]] /\ tx'[k].taken = NoItems
    <2>1. RightStage(k, pc'[k])
      BY <1>1, <1>4 DEF RightStage
    <2> QED
      BY <1>1, <1>2, <1>4, <2>1, QuietStep
  <1>5. ASSUME AddCartItem(k) PROVE LockInv'
    <2>1. PICK p \in Products, n \in Quantities :
             tx' = [tx EXCEPT ![k].items = <<[product |-> p, qty |-> n]>>]
      BY <1>5 DEF AddCartItem
    <2> DEFINE items == <<[product |-> p, qty |-> n]>>
    <2>2. tx'[k] = [tx[k] EXCEPT !.items = items] /\ tx' = [tx EXCEPT ![k] = tx'[k]]
      BY <1>1, <1>2, <2>1
    <2> HIDE DEF items
    <2>3. tx'[k].taken = NoItems
      BY <1>1, <1>2, <2>2 DEF Locals
    <2> QED
      BY <1>1, <1>2, <1>4, <1>5, <2>2, <2>3 DEF AddCartItem
  <1>6. ASSUME UpdateCartItem(k) PROVE LockInv'
    <2>1. PICK id \in 1 .. nextRow, n \in Quantities :
             IF id \in RowsOf(UserOf[k])
             THEN /\ tx' = [tx EXCEPT
                        ![k].items = <<[product |-> cart[id].product, qty |-> n]>>,
                        ![k].seen = {id}]
                  /\ pc' = [pc EXCEPT ![k] = "check"]
                  /\ UNCHANGED <<catalog, draft, cart, nextRow, orders, held>>
             ELSE Fails(k)
      BY <1>6 DEF UpdateCartItem
    <2>2. CASE id \in RowsOf(UserOf[k])
      <3> DEFINE items == <<[product |-> cart[id].product, qty |-> n]>>
      <3>1. /\ tx'[k] = [tx[k] EXCEPT !.items = items, !.seen = {id}]
            /\ tx' = [tx EXCEPT ![k] = tx'[k]]
        BY <1>1, <1>2, <2>1, <2>2
      <3> HIDE DEF items
      <3>2. tx'[k].taken = NoItems
        BY <1>1, <1>2, <3>1 DEF Locals
      <3> QED
        BY <1>1, <1>2, <1>4, <2>1, <2>2, <3>1, <3>2
    <2>3. CASE id \notin RowsOf(UserOf[k])
      BY <1>3, <2>1, <2>3 DEF Fails
    <2> QED
      BY <2>2, <2>3
  <1>7. ASSUME AssertCartProductState(k) PROVE LockInv'
    <2>1. CASE Fails(k)
      BY <1>3, <2>1 DEF Fails
    <2>2. CASE /\ pc' = [pc EXCEPT ![k] = "write"]
               /\ UNCHANGED <<catalog, draft, cart, nextRow, orders, held, tx>>
      BY <1>1, <1>2, <1>4, <2>2
    <2> QED
      BY <1>7, <2>1, <2>2 DEF AssertCartProductState
  <1>8. ASSUME UpsertCartItem(k) \/ WriteCartQuantity(k) PROVE LockInv'
    BY <1>3, <1>8 DEF UpsertCartItem, WriteCartQuantity
  <1>9. ASSUME DeleteCartItem(k) PROVE LockInv'
    BY <1>3, <1>9 DEF DeleteCartItem, Fails
  <1> QED
    BY <1>5, <1>6, <1>7, <1>8, <1>9

\* Every step keeps locks exclusive and the accounts right.
LEMMA StepLocks == StockInv /\ [Next]_vars => LockInv'
  <1> SUFFICES ASSUME StockInv, [Next]_vars PROVE LockInv'
    OBVIOUS
  <1>1. ASSUME NEW r \in Buyers, OrderStep(r) PROVE LockInv'
    <2>1. ASSUME DeadlockVictim(r) PROVE LockInv'
      <3>1. pc[r] = "lock" /\ Rollback(r) /\ r \in Reqs
        BY <2>1 DEF DeadlockVictim, InDeadlock, Waits, Reqs
      <3> QED
        BY <3>1, RollbackLocks
    <2> QED
      BY <1>1, <2>1, LockProductLocks, TakeStockLocks DEF OrderStep
  <1>2. ASSUME NEW r \in OrderReqs, CommitOrder(r) PROVE LockInv'
    <2>1. /\ r \in Reqs /\ pc[r] = "commit" /\ catalog' = Published(r)
          /\ Ends(r, "done") /\ UNCHANGED draft
          /\ DOMAIN orders' = DOMAIN orders \cup {r}
      BY <1>2 DEF CommitOrder, Extend, Reqs, Buyers
    <2> QED
      BY <2>1, CommitLocks
  <1>3. ASSUME NEW c \in CheckoutReqs, CommitCheckout(c) PROVE LockInv'
    <2>1. /\ c \in Reqs /\ pc[c] = "commit" /\ catalog' = Published(c)
          /\ Ends(c, "done") /\ UNCHANGED draft
          /\ DOMAIN orders' = DOMAIN orders \cup {c}
      BY <1>3 DEF CommitCheckout, Extend, Reqs, Buyers
    <2> QED
      BY <2>1, CommitLocks
  <1>4. ASSUME NEW a \in AdminReqs, CommitProduct(a) PROVE LockInv'
    <2>1. /\ a \in Reqs /\ pc[a] = "commit" /\ catalog' = Published(a)
          /\ Ends(a, "done") /\ UNCHANGED <<draft, orders>>
      BY <1>4 DEF CommitProduct, Reqs
    <2> QED
      BY <2>1, CommitLocks
  <1>5. ASSUME NEW r \in OrderReqs, CreateOrder(r) \/ OrderStep(r) \/ CommitOrder(r)
        PROVE  LockInv'
    BY <1>1, <1>2, <1>5, CreateOrderLocks DEF Buyers
  <1>6. ASSUME NEW c \in CheckoutReqs,
               \/ CheckoutCart(c) \/ LockCartRows(c) \/ OrderStep(c)
               \/ ClearCart(c) \/ CommitCheckout(c)
        PROVE  LockInv'
    BY <1>1, <1>3, <1>6, CheckoutCartLocks, LockCartRowsLocks, ClearCartLocks DEF Buyers
  <1>7. ASSUME NEW a \in AdminReqs,
               AdminCreateProduct(a) \/ AdminUpdateProduct(a) \/ CommitProduct(a)
               \/ AdminDeleteProduct(a)
        PROVE  LockInv'
    BY <1>4, <1>7, AdminCreateProductLocks, AdminUpdateProductLocks, AdminDeleteProductLocks
  <1>8. ASSUME NEW r \in Reqs, StatementFails(r) PROVE LockInv'
    BY <1>8, RollbackLocks DEF StatementFails
  <1>9. CASE UNCHANGED vars
    BY <1>9 DEF vars, StockInv, LockInv, Stages, Locks, Accounts, TakesWhatItChecked, Item
  <1> QED
    BY <1>5, <1>6, <1>7, <1>8, <1>9, CartLocks DEF Next

\* The inductive invariant of the stock: its shape, the stages of a call, the
\* exclusive row locks and the accounts between a row's two versions.
THEOREM StockInvariant == Spec => []StockInv
  <1>1. Init => StockInv
    BY InitType, InitLocks, StockInvParts
  <1>2. StockInv /\ [Next]_vars => StockInv'
    <2> SUFFICES ASSUME StockInv, [Next]_vars PROVE StockInv'
      OBVIOUS
    <2>1. TypeInv' /\ LockInv'
      BY StockInvParts, StepType, StepLocks
    <2> QED
      BY <2>1 DEF StockInv, TypeInv, LockInv
  <1> QED
    BY <1>1, <1>2, PTL DEF Spec

\* createOrderRecord's check, made on the row it read FOR UPDATE, still holds
\* at the UPDATE that takes the stock.
THEOREM StockCheck == Spec => []StockCheckHolds
  <1>1. StockInv => StockCheckHolds
    <2> SUFFICES ASSUME StockInv, NEW r \in Buyers, pc[r] = "take"
                 PROVE  /\ Sellable(draft[Item(r).product])
                        /\ draft[Item(r).product].amount >= Item(r).qty
      BY DEF StockCheckHolds
    <2>1. /\ Item(r).product \in held[r]
          /\ draft[Item(r).product].amount >= Item(r).qty
      BY DEF StockInv, TakesWhatItChecked
    <2>2. Item(r).product \in Products /\ r \in Reqs
      BY <2>1 DEF StockInv, TypeOK, Reqs
    <2>3. draft[Item(r).product].status = "live" /\ draft[Item(r).product].active
      BY <2>1, <2>2 DEF StockInv, Locks, Accounts
    <2> QED
      BY <2>1, <2>3 DEF Sellable
  <1> QED
    BY <1>1, StockInvariant, PTL

\* While createOrderRecord runs, what it took is the difference between the
\* committed row and its own version, and the order pays the committed price.
THEOREM OpenOrders == Spec => []OpenOrderAccounts
  <1>1. StockInv => OpenOrderAccounts
    BY DEF StockInv, OpenOrderAccounts, Accounts, Locks
  <1> QED
    BY <1>1, StockInvariant, PTL

-----------------------------------------------------------------------------
(* What a committed order did *)

\* The COMMIT of an order moves the committed stock by what the order took.
LEMMA CommitTakesItsStock ==
    ASSUME StockInv, NEW r \in Buyers, pc[r] = "commit",
           catalog' = Published(r), orders' = Extend(orders, r, PlacedOrder(r))
    PROVE  TakesItsStock
  <1>1. /\ tx[r] \in Locals /\ catalog \in [Products -> ProductRow]
        /\ draft \in [Products -> ProductRow] /\ r \in Reqs
    BY DEF StockInv, TypeOK, Reqs
  <1>2. r \notin DOMAIN orders
    BY DEF StockInv, Stages
  <1>3. /\ DOMAIN orders' = DOMAIN orders \cup {r}
        /\ orders'[r] = PlacedOrder(r)
        /\ \A q \in DOMAIN orders : orders'[q] = orders[q]
    BY <1>2 DEF Extend
  <1>4. orders'[r].bought = tx[r].taken /\ orders'[r].unitPrice = tx[r].paid
    BY <1>3 DEF PlacedOrder
  <1>5. ASSUME NEW p \in Products
        PROVE  /\ catalog'[p].amount = catalog[p].amount - tx[r].taken[p]
               /\ tx[r].taken[p] > 0 => Sellable(catalog[p]) /\ tx[r].paid[p] = catalog[p].price
    <2>1. catalog'[p] = IF p \in held[r] THEN draft[p] ELSE catalog[p]
      BY DEF Published
    <2>2. /\ tx[r].taken[p] \in Nat
          /\ catalog[p].amount \in Nat /\ draft[p].amount \in Nat
      BY <1>1 DEF Locals, ProductRow
    <2>3. CASE p \in held[r]
      <3>1. /\ Sellable(catalog[p]) /\ tx[r].paid[p] = catalog[p].price
            /\ catalog[p].amount = draft[p].amount + tx[r].taken[p]
        BY <2>3 DEF StockInv, Accounts
      <3> QED
        BY <2>1, <2>2, <2>3, <3>1
    <2>4. CASE p \notin held[r]
      <3>1. tx[r].taken[p] = 0
        BY <2>2, <2>4 DEF StockInv, Accounts
      <3> QED
        BY <2>1, <2>2, <2>4, <3>1
    <2> QED
      BY <2>3, <2>4
  <1> QED
    BY <1>2, <1>3, <1>4, <1>5 DEF TakesItsStock

\* A step that commits no order takes no stock, unless it ends an
\* administrator's call.
LEMMA OthersTakeNoStock ==
    ASSUME UNCHANGED orders,
           UNCHANGED catalog \/ \E a \in AdminReqs : pc[a] # "done" /\ pc'[a] = "done"
    PROVE  TakesItsStock
  BY DEF TakesItsStock

\* A call of an administrator that ends is seen to end.
LEMMA AdminEnds ==
    ASSUME StockInv, NEW a \in AdminReqs, Ends(a, "done"), UNCHANGED orders,
           pc[a] \in {"new", "commit"}
    PROVE  TakesItsStock
  <1>1. a \in Reqs /\ pc \in [Reqs -> PC]
    BY DEF StockInv, TypeOK, Reqs
  <1>2. pc[a] # "done" /\ pc'[a] = "done"
    BY <1>1 DEF Ends
  <1> QED
    BY <1>2, OthersTakeNoStock

\* A ROLLBACK leaves the committed rows and the orders alone.
LEMMA RollbackTakesNoStock ==
    ASSUME NEW r, Rollback(r)
    PROVE  TakesItsStock
  BY OthersTakeNoStock DEF Rollback

\* Every step accounts for the committed stock it moves.
LEMMA StepTakesItsStock == StockInv /\ [Next]_vars => [TakesItsStock]_vars
  <1> SUFFICES ASSUME StockInv, Next PROVE TakesItsStock
    OBVIOUS
  <1>1. ASSUME NEW r \in Buyers, OrderStep(r) PROVE TakesItsStock
    BY <1>1, OthersTakeNoStock, RollbackTakesNoStock
       DEF OrderStep, LockProduct, TakeStock, DeadlockVictim
  <1>2. ASSUME NEW r \in OrderReqs, CreateOrder(r) \/ OrderStep(r) \/ CommitOrder(r)
        PROVE  TakesItsStock
    <2>1. CASE CreateOrder(r)
      BY <2>1, OthersTakeNoStock, RollbackTakesNoStock DEF CreateOrder
    <2>2. CASE CommitOrder(r)
      BY <2>2, CommitTakesItsStock DEF CommitOrder, Buyers
    <2> QED
      BY <1>1, <1>2, <2>1, <2>2 DEF Buyers
  <1>3. ASSUME NEW c \in CheckoutReqs,
               \/ CheckoutCart(c) \/ LockCartRows(c) \/ OrderStep(c)
               \/ ClearCart(c) \/ CommitCheckout(c)
        PROVE  TakesItsStock
    <2>1. CASE CheckoutCart(c)
      BY <2>1, OthersTakeNoStock DEF CheckoutCart
    <2>2. CASE LockCartRows(c)
      BY <2>2, OthersTakeNoStock, RollbackTakesNoStock DEF LockCartRows
    <2>3. CASE ClearCart(c)
      BY <2>3, OthersTakeNoStock DEF ClearCart
    <2>4. CASE CommitCheckout(c)
      BY <2>4, CommitTakesItsStock DEF CommitCheckout, Buyers
    <2> QED
      BY <1>1, <1>3, <2>1, <2>2, <2>3, <2>4 DEF Buyers
  <1>4. ASSUME NEW k \in CartReqs,
               \/ AddCartItem(k) \/ UpdateCartItem(k) \/ DeleteCartItem(k)
               \/ AssertCartProductState(k) \/ UpsertCartItem(k) \/ WriteCartQuantity(k)
        PROVE  UNCHANGED <<catalog, orders>>
    BY <1>4 DEF AddCartItem, UpdateCartItem, DeleteCartItem, AssertCartProductState,
       UpsertCartItem, WriteCartQuantity, Fails
  <1>5. ASSUME NEW a \in AdminReqs,
               AdminCreateProduct(a) \/ AdminUpdateProduct(a) \/ CommitProduct(a)
               \/ AdminDeleteProduct(a)
        PROVE  TakesItsStock
    <2>1. CASE AdminCreateProduct(a)
      BY <2>1, AdminEnds DEF AdminCreateProduct
    <2>2. CASE AdminUpdateProduct(a)
      BY <2>2, OthersTakeNoStock, RollbackTakesNoStock DEF AdminUpdateProduct
    <2>3. CASE CommitProduct(a)
      BY <2>3, AdminEnds DEF CommitProduct
    <2>4. CASE AdminDeleteProduct(a)
      BY <2>4, AdminEnds, RollbackTakesNoStock DEF AdminDeleteProduct
    <2> QED
      BY <1>5, <2>1, <2>2, <2>3, <2>4
  <1>6. ASSUME NEW r \in Reqs, StatementFails(r) PROVE TakesItsStock
    BY <1>6, RollbackTakesNoStock DEF StatementFails
  <1> QED
    BY <1>2, <1>3, <1>4, <1>5, <1>6, OthersTakeNoStock DEF Next

\* A committed order removes exactly its order_items from the committed stock,
\* at the committed price, and nothing but an order or an administrator moves it.
THEOREM OrdersStock == Spec => OrdersTakeTheirStock
  BY StockInvariant, StepTakesItsStock, PTL DEF Spec, OrdersTakeTheirStock

-----------------------------------------------------------------------------
(* The cart, and the refinement of AtomicOrdering.  Of every action only its *)
(* effect on the cart, the orders and the rows its call has seen or locked   *)
(* matters: it leaves them alone, locks rows, deletes them, places an order, *)
(* or changes the lines of one customer.                                     *)

\* Nothing happens to the cart; the call of the step may look at its customer's
\* rows or give rows back.
Looks(r) ==
    /\ UNCHANGED <<cart, nextRow, orders>>
    /\ \A q \in Reqs : q # r => tx'[q] = tx[q]
    /\ Claimed(r)' \subseteq Claimed(r) /\ tx'[r].rows \subseteq tx[r].rows
    /\ \A c \in CheckoutReqs : pc'[c] = "commit" => c # r /\ pc[c] = "commit"
    /\ r \in CheckoutReqs => tx'[r].seen \subseteq RowsOf(UserOf[r]) \cup tx[r].seen
\* checkoutCart locks what it saw and is still there.
LocksRows(c) ==
    /\ UNCHANGED <<cart, nextRow, orders>>
    /\ \A q \in Reqs : q # c => tx'[q] = tx[q] /\ pc'[q] = pc[q]
    /\ \A id \in tx[c].seen : CartRowFree(c, id)
    /\ tx'[c].rows = tx[c].seen \cap DOMAIN cart /\ tx'[c].seen = tx[c].seen
    /\ tx'[c].gone = tx[c].gone /\ pc'[c] = "lock"
\* checkoutCart deletes the rows of its customer, for itself.
DeletesRows(c) ==
    /\ UNCHANGED <<cart, nextRow, orders>>
    /\ \A q \in Reqs : q # c => tx'[q] = tx[q] /\ pc'[q] = pc[q]
    /\ \A id \in RowsOf(UserOf[c]) : CartRowFree(c, id)
    /\ tx'[c].rows = tx[c].rows /\ tx'[c].seen = tx[c].seen
    /\ tx'[c].gone = RowsOf(UserOf[c])
\* COMMIT of an order: it has the rows of its call, and what a checkout deleted goes.
PlacesOrder(b) ==
    /\ UNCHANGED nextRow
    /\ DOMAIN orders' = DOMAIN orders \cup {b} /\ b \notin DOMAIN orders
    /\ orders'[b].rows = tx[b].rows
    /\ \A q \in DOMAIN orders : orders'[q] = orders[q]
    /\ \A q \in Reqs : q # b => tx'[q] = tx[q] /\ pc'[q] = pc[q]
    /\ tx'[b].rows = {} /\ tx'[b].seen = {} /\ tx'[b].gone = {}
    /\ pc[b] = "commit"
    /\ \/ b \in OrderReqs /\ UNCHANGED cart
       \/ b \in CheckoutReqs /\ cart' = Keep(cart, DOMAIN cart \ tx[b].gone)
\* A cart call adds a row with a new id, changes quantities, or deletes a free row.
ChangesCart(k) ==
    /\ UNCHANGED orders
    /\ \A q \in Reqs : q # k => tx'[q] = tx[q] /\ pc'[q] = pc[q]
    /\ nextRow' \in {nextRow, nextRow + 1}
    /\ DOMAIN cart' \subseteq DOMAIN cart \cup {nextRow}
    /\ nextRow \in DOMAIN cart' => nextRow' = nextRow + 1
    /\ \A id \in DOMAIN cart \ DOMAIN cart' : CartRowFree(k, id)
    /\ \A id \in DOMAIN cart \cap DOMAIN cart' : cart'[id].user = cart[id].user

LEMMA KindsOfBuyers ==
    /\ OrderReqs \subseteq Reqs /\ CheckoutReqs \subseteq Reqs /\ CartReqs \subseteq Reqs
    /\ AdminReqs \subseteq Reqs /\ Buyers \subseteq Reqs
    /\ OrderReqs \cap CheckoutReqs = {} /\ CartReqs \cap Buyers = {} /\ AdminReqs \cap Buyers = {}
BY ReqsAssumption DEF Reqs, Buyers

\* Whoever ends drops what he has seen, locked and deleted.
LEMMA EndsLooks ==
    ASSUME TypeInv, NEW r \in Reqs, NEW end, Ends(r, end)
    PROVE  /\ tx'[r].rows = {} /\ tx'[r].seen = {} /\ tx'[r].gone = {} /\ pc'[r] = end
           /\ \A q \in Reqs : q # r => tx'[q] = tx[q] /\ pc'[q] = pc[q]
<1>1. /\ tx'[r] = Idle /\ pc'[r] = end
      /\ \A q \in Reqs : q # r => tx'[q] = tx[q] /\ pc'[q] = pc[q]
  BY DEF TypeInv, TypeOK, Ends
<1>2. Idle.rows = {} /\ Idle.seen = {} /\ Idle.gone = {}
  BY DEF Idle
<1> QED
  BY <1>1, <1>2

\* A step that leaves cart and orders alone and claims no row only looks.
LEMMA ClaimsNothing ==
    ASSUME TypeInv, NEW r \in Reqs, UNCHANGED <<cart, nextRow, orders>>,
           \A q \in Reqs : q # r => tx'[q] = tx[q] /\ pc'[q] = pc[q],
           tx'[r].rows \subseteq tx[r].rows, tx'[r].gone \subseteq tx[r].gone,
           r \in CheckoutReqs => /\ tx'[r].seen \subseteq RowsOf(UserOf[r]) \cup tx[r].seen
                                /\ pc'[r] # "commit"
    PROVE  Looks(r)
<1>1. Claimed(r)' \subseteq Claimed(r)
  BY DEF Claimed
<1>2. \A c \in CheckoutReqs : pc'[c] = "commit" => c # r /\ pc[c] = "commit"
  BY KindsOfBuyers
<1> QED
  BY <1>1, <1>2 DEF Looks

LEMMA RollbackLooks ==
    ASSUME TypeInv, NEW r \in Reqs, Rollback(r) \/ Fails(r)
    PROVE  Looks(r)
<1>1. Ends(r, "failed") /\ UNCHANGED <<cart, nextRow, orders>>
  BY DEF Rollback, Fails
<1>2. /\ tx'[r].rows = {} /\ tx'[r].seen = {} /\ tx'[r].gone = {} /\ pc'[r] = "failed"
      /\ \A q \in Reqs : q # r => tx'[q] = tx[q] /\ pc'[q] = pc[q]
  BY <1>1, EndsLooks
<1> QED
  BY <1>1, <1>2, ClaimsNothing

\* The statements of orders.
LEMMA OrderLooks ==
    ASSUME TypeInv, NEW r \in Buyers,
           \/ OrderStep(r)
           \/ r \in OrderReqs /\ CreateOrder(r)
           \/ r \in CheckoutReqs /\ CheckoutCart(r)
    PROVE  Looks(r)
<1>0. /\ r \in Reqs /\ tx \in [Reqs -> Locals] /\ pc \in [Reqs -> PC]
      /\ r \in OrderReqs => r \notin CheckoutReqs
  BY KindsOfBuyers DEF TypeInv, TypeOK
<1>1. CASE Rollback(r)
  BY <1>0, <1>1, RollbackLooks
<1>2. CASE r \in OrderReqs /\ CreateOrder(r)
  <2>1. ASSUME NEW items, tx' = [tx EXCEPT ![r].items = items], pc' = [pc EXCEPT ![r] = "lock"],
               UNCHANGED <<cart, nextRow, orders>>
        PROVE  Looks(r)
    <3>1. /\ tx'[r].rows = tx[r].rows /\ tx'[r].gone = tx[r].gone
          /\ \A q \in Reqs : q # r => tx'[q] = tx[q] /\ pc'[q] = pc[q]
      BY <1>0, <2>1 DEF Locals
    <3> QED
      BY <1>0, <1>2, <2>1, <3>1, ClaimsNothing
  <2> QED
    BY <1>1, <1>2, <2>1 DEF CreateOrder
<1>3. CASE r \in CheckoutReqs /\ CheckoutCart(r)
  <2>1. /\ tx'[r].rows = tx[r].rows /\ tx'[r].seen = RowsOf(UserOf[r])
        /\ tx'[r].gone = tx[r].gone /\ pc'[r] = "lock_rows"
        /\ \A q \in Reqs : q # r => tx'[q] = tx[q] /\ pc'[q] = pc[q]
    BY <1>0, <1>3 DEF CheckoutCart, Locals
  <2>2. UNCHANGED <<cart, nextRow, orders>>
    BY <1>3 DEF CheckoutCart
  <2> QED
    BY <1>0, <2>1, <2>2, ClaimsNothing
<1>4. CASE LockProduct(r)
  <2>1. CASE /\ tx' = [tx EXCEPT ![r].paid[Item(r).product] = draft[Item(r).product].price]
             /\ pc' = [pc EXCEPT ![r] = "take"] /\ UNCHANGED <<cart, nextRow, orders>>
    <3>1. /\ tx'[r].rows = tx[r].rows /\ tx'[r].seen = tx[r].seen /\ tx'[r].gone = tx[r].gone
          /\ pc'[r] = "take"
          /\ \A q \in Reqs : q # r => tx'[q] = tx[q] /\ pc'[q] = pc[q]
      BY <1>0, <2>1 DEF Locals
    <3> QED
      BY <1>0, <2>1, <3>1, ClaimsNothing
  <2> QED
    BY <1>1, <1>4, <2>1 DEF LockProduct
<1>5. CASE TakeStock(r)
  <2>1. CASE /\ tx' = [tx EXCEPT ![r].taken[Item(r).product] = @ + Item(r).qty, ![r].next = @ + 1]
             /\ pc' = [pc EXCEPT ![r] =
                         IF tx[r].next = Len(tx[r].items) THEN AfterItems(r) ELSE "lock"]
             /\ UNCHANGED <<cart, nextRow, orders>>
    <3>1. /\ tx'[r].rows = tx[r].rows /\ tx'[r].seen = tx[r].seen /\ tx'[r].gone = tx[r].gone
          /\ \A q \in Reqs : q # r => tx'[q] = tx[q] /\ pc'[q] = pc[q]
      BY <1>0, <2>1 DEF Locals
    <3>2. r \in CheckoutReqs => pc'[r] # "commit"
      BY <1>0, <2>1 DEF AfterItems
    <3> QED
      BY <1>0, <2>1, <3>1, <3>2, ClaimsNothing
  <2> QED
    BY <1>1, <1>5, <2>1 DEF TakeStock
<1>6. DeadlockVictim(r) => Rollback(r)
  BY DEF DeadlockVictim
<1> QED
  BY <1>1, <1>2, <1>3, <1>4, <1>5, <1>6 DEF OrderStep

\* The locks of checkoutCart ...
LEMMA CheckoutLocks ==
    ASSUME TypeInv, NEW c \in CheckoutReqs, LockCartRows(c)
    PROVE  Looks(c) \/ LocksRows(c)
<1>0. c \in Reqs /\ tx \in [Reqs -> Locals] /\ pc \in [Reqs -> PC]
  BY KindsOfBuyers DEF TypeInv, TypeOK
<1> DEFINE rows == tx[c].seen \cap DOMAIN cart
<1>1. CASE Rollback(c)
  BY <1>0, <1>1, RollbackLooks
<1>2. ASSUME NEW lines, tx' = [tx EXCEPT ![c].rows = rows, ![c].items = lines],
             pc' = [pc EXCEPT ![c] = "lock"], UNCHANGED <<cart, nextRow, orders>>
      PROVE  LocksRows(c)
  <2>1. /\ tx'[c].rows = rows /\ tx'[c].seen = tx[c].seen /\ tx'[c].gone = tx[c].gone
        /\ pc'[c] = "lock" /\ \A q \in Reqs : q # c => tx'[q] = tx[q] /\ pc'[q] = pc[q]
    BY <1>0, <1>2 DEF Locals
  <2> QED
    BY <1>2, <2>1 DEF LocksRows, LockCartRows
<1> QED
  BY <1>1, <1>2 DEF LockCartRows

\* ... and its DELETE.
LEMMA ClearCartDeletes ==
    ASSUME TypeInv, NEW c \in CheckoutReqs, ClearCart(c)
    PROVE  DeletesRows(c)
<1>0. c \in Reqs /\ tx \in [Reqs -> Locals] /\ pc \in [Reqs -> PC]
  BY KindsOfBuyers DEF TypeInv, TypeOK
<1>1. /\ tx'[c].rows = tx[c].rows /\ tx'[c].seen = tx[c].seen /\ tx'[c].gone = RowsOf(UserOf[c])
      /\ \A q \in Reqs : q # c => tx'[q] = tx[q] /\ pc'[q] = pc[q]
  BY <1>0 DEF ClearCart, Locals
<1> QED
  BY <1>1 DEF DeletesRows, ClearCart

\* The COMMITs of orders; nobody commits twice.
LEMMA CommitPlaces ==
    ASSUME StockInv, NEW b \in Buyers,
           (b \in OrderReqs /\ CommitOrder(b)) \/ (b \in CheckoutReqs /\ CommitCheckout(b))
    PROVE  PlacesOrder(b)
<1>0. b \in Reqs /\ TypeInv
  BY KindsOfBuyers DEF StockInv, TypeInv
<1>1. Ends(b, "done") /\ UNCHANGED nextRow /\ orders' = Extend(orders, b, PlacedOrder(b)) /\ pc[b] = "commit"
  BY DEF CommitOrder, CommitCheckout
<1>2. b \notin DOMAIN orders
  BY <1>1 DEF StockInv, Stages
<1>3. /\ DOMAIN orders' = DOMAIN orders \cup {b} /\ orders'[b] = PlacedOrder(b)
      /\ \A q \in DOMAIN orders : orders'[q] = orders[q]
  BY <1>1, <1>2 DEF Extend
<1>4. orders'[b].rows = tx[b].rows
  BY <1>3 DEF PlacedOrder
<1>5. \/ b \in OrderReqs /\ UNCHANGED cart
      \/ b \in CheckoutReqs /\ cart' = Keep(cart, DOMAIN cart \ tx[b].gone)
  BY DEF CommitOrder, CommitCheckout
<1> QED
  BY <1>0, <1>1, <1>2, <1>3, <1>4, <1>5, EndsLooks DEF PlacesOrder

\* addCartItem, updateCartItem, deleteCartItem: up to the write ...
LEMMA CartLooks ==
    ASSUME TypeInv, NEW k \in CartReqs,
           AddCartItem(k) \/ UpdateCartItem(k) \/ AssertCartProductState(k)
    PROVE  Looks(k)
<1>0. k \in Reqs /\ k \notin CheckoutReqs /\ tx \in [Reqs -> Locals] /\ pc \in [Reqs -> PC]
  BY KindsOfBuyers DEF TypeInv, TypeOK, Buyers
<1>1. CASE Fails(k)
  BY <1>0, <1>1, RollbackLooks
<1>2. ASSUME NEW items, NEW seen, NEW at, UNCHANGED <<cart, nextRow, orders>>,
             pc' = [pc EXCEPT ![k] = at],
             \/ tx' = tx \/ tx' = [tx EXCEPT ![k].items = items]
             \/ tx' = [tx EXCEPT ![k].items = items, ![k].seen = seen]
      PROVE  Looks(k)
  <2>1. /\ tx'[k].rows = tx[k].rows /\ tx'[k].gone = tx[k].gone
        /\ \A q \in Reqs : q # k => tx'[q] = tx[q] /\ pc'[q] = pc[q]
    BY <1>0, <1>2 DEF Locals
  <2> QED
    BY <1>0, <1>2, <2>1, ClaimsNothing
<1>3. CASE AddCartItem(k)
  BY <1>2, <1>3 DEF AddCartItem
<1>4. CASE UpdateCartItem(k)
  BY <1>1, <1>2, <1>4 DEF UpdateCartItem
<1>5. CASE AssertCartProductState(k)
  BY <1>1, <1>2, <1>5 DEF AssertCartProductState
<1> QED
  BY <1>3, <1>4, <1>5

\* ... and the write.
LEMMA CartWrites ==
    ASSUME TypeInv, NEW k \in CartReqs,
           UpsertCartItem(k) \/ WriteCartQuantity(k) \/ DeleteCartItem(k)
    PROVE  Looks(k) \/ ChangesCart(k)
<1>0. k \in Reqs /\ cart \in [DOMAIN cart -> CartRow] /\ nextRow \notin DOMAIN cart
      /\ nextRow \in Nat
  BY KindsOfBuyers DEF TypeInv, TypeOK
<1>1. CASE UpsertCartItem(k)
  <2> DEFINE p == Item(k).product
             n == Item(k).qty
             same == {id \in RowsOf(UserOf[k]) : cart[id].product = p}
             new == [user |-> UserOf[k], product |-> p, qty |-> n]
  <2>1. Ends(k, "done") /\ UNCHANGED orders
    BY <1>1 DEF UpsertCartItem
  <2>2. CASE same # {}
    <3>1. UNCHANGED nextRow /\ cart' = [id \in DOMAIN cart |->
             IF id \in same THEN [cart[id] EXCEPT !.qty = @ + n] ELSE cart[id]]
      BY <1>1, <2>2 DEF UpsertCartItem
    <3>2. \A id \in DOMAIN cart : [cart[id] EXCEPT !.qty = @ + n].user = cart[id].user
      BY <1>0 DEF CartRow
    <3> HIDE DEF same, n, p
    <3>3. DOMAIN cart' = DOMAIN cart /\ \A id \in DOMAIN cart : cart'[id].user = cart[id].user
      BY <3>1, <3>2
    <3> QED
      BY <1>0, <2>1, <3>1, <3>3, EndsLooks DEF ChangesCart
  <2>3. CASE same = {}
    <3>1. nextRow' = nextRow + 1 /\ cart' = Extend(cart, nextRow, new)
      BY <1>1, <2>3 DEF UpsertCartItem
    <3> HIDE DEF same, n, p, new
    <3>2. DOMAIN cart' = DOMAIN cart \cup {nextRow} /\ \A id \in DOMAIN cart : cart'[id] = cart[id]
      BY <1>0, <3>1 DEF Extend
    <3> QED
      BY <1>0, <2>1, <3>1, <3>2, EndsLooks DEF ChangesCart
  <2> QED
    BY <2>2, <2>3
<1>2. CASE WriteCartQuantity(k)
  <2> DEFINE n == Item(k).qty
  <2>1. Ends(k, "done") /\ UNCHANGED <<nextRow, orders>>
    BY <1>2 DEF WriteCartQuantity
  <2>2. cart' = [id \in DOMAIN cart |->
                   IF id \in tx[k].seen THEN [cart[id] EXCEPT !.qty = n] ELSE cart[id]]
    BY <1>2 DEF WriteCartQuantity
  <2>3. \A id \in DOMAIN cart : [cart[id] EXCEPT !.qty = n].user = cart[id].user
    BY <1>0 DEF CartRow
  <2> HIDE DEF n
  <2>4. DOMAIN cart' = DOMAIN cart /\ \A id \in DOMAIN cart : cart'[id].user = cart[id].user
    BY <2>2, <2>3
  <2> QED
    BY <1>0, <2>1, <2>4, EndsLooks DEF ChangesCart
<1>3. CASE DeleteCartItem(k)
  <2>1. CASE Fails(k)
    BY <1>0, <2>1, RollbackLooks
  <2>2. ASSUME NEW id, CartRowFree(k, id), cart' = Keep(cart, DOMAIN cart \ {id}),
               Ends(k, "done"), UNCHANGED <<nextRow, orders>>
        PROVE  ChangesCart(k)
    <3>1. DOMAIN cart' = DOMAIN cart \ {id} /\ \A i \in DOMAIN cart' : cart'[i] = cart[i]
      BY <2>2 DEF Keep
    <3> QED
      BY <1>0, <2>2, <3>1, EndsLooks DEF ChangesCart
  <2> QED
    BY <1>3, <2>1, <2>2 DEF DeleteCartItem
<1> QED
  BY <1>1, <1>2, <1>3

\* Administrators do not touch carts.
LEMMA AdminLooks ==
    ASSUME TypeInv, NEW a \in AdminReqs,
           \/ AdminCreateProduct(a) \/ AdminUpdateProduct(a)
           \/ CommitProduct(a) \/ AdminDeleteProduct(a)
    PROVE  Looks(a)
<1>0. a \in Reqs /\ a \notin CheckoutReqs
  BY KindsOfBuyers DEF Buyers
<1>1. CASE Rollback(a)
  BY <1>0, <1>1, RollbackLooks
<1>2. CASE Ends(a, "done") /\ UNCHANGED <<cart, nextRow, orders>>
  <2>1. /\ tx'[a].rows = {} /\ tx'[a].gone = {}
        /\ \A q \in Reqs : q # a => tx'[q] = tx[q] /\ pc'[q] = pc[q]
    BY <1>0, <1>2, EndsLooks
  <2> QED
    BY <1>0, <1>2, <2>1, ClaimsNothing
<1>3. CASE pc' = [pc EXCEPT ![a] = "commit"] /\ UNCHANGED <<cart, nextRow, orders, tx>>
  <2>1. \A q \in Reqs : q # a => pc'[q] = pc[q]
    BY <1>0, <1>3 DEF TypeInv, TypeOK
  <2> QED
    BY <1>0, <1>3, <2>1, ClaimsNothing
<1> QED
  BY <1>1, <1>2, <1>3
  DEF AdminCreateProduct, AdminUpdateProduct, CommitProduct, AdminDeleteProduct

\* The disjuncts of Next, by what they do to the cart.
LEMMA NextByEffect ==
    ASSUME StockInv, Next
    PROVE  \/ \E r \in Reqs : Looks(r)
           \/ \E c \in CheckoutReqs : LocksRows(c) \/ DeletesRows(c)
           \/ \E b \in Buyers : PlacesOrder(b)
           \/ \E k \in CartReqs : ChangesCart(k)
<1>0. TypeInv /\ OrderReqs \subseteq Buyers /\ CheckoutReqs \subseteq Buyers
  BY DEF StockInv, TypeInv, Buyers
<1>1. ASSUME NEW r \in OrderReqs, CreateOrder(r) \/ OrderStep(r) PROVE Looks(r)
  BY <1>0, <1>1, OrderLooks
<1>2. ASSUME NEW r \in OrderReqs, CommitOrder(r) PROVE PlacesOrder(r)
  BY <1>0, <1>2, CommitPlaces
<1>3. ASSUME NEW c \in CheckoutReqs, CheckoutCart(c) \/ OrderStep(c) PROVE Looks(c)
  BY <1>0, <1>3, OrderLooks
<1>4. ASSUME NEW c \in CheckoutReqs, LockCartRows(c) PROVE Looks(c) \/ LocksRows(c)
  BY <1>0, <1>4, CheckoutLocks
<1>5. /\ \A c \in CheckoutReqs : ClearCart(c) => DeletesRows(c)
      /\ \A c \in CheckoutReqs : CommitCheckout(c) => PlacesOrder(c)
  BY <1>0, ClearCartDeletes, CommitPlaces
<1>6. ASSUME NEW k \in CartReqs,
             \/ AddCartItem(k) \/ UpdateCartItem(k) \/ DeleteCartItem(k)
             \/ AssertCartProductState(k) \/ UpsertCartItem(k) \/ WriteCartQuantity(k)
      PROVE  Looks(k) \/ ChangesCart(k)
  BY <1>0, <1>6, CartLooks, CartWrites
<1>7. ASSUME NEW a \in AdminReqs,
             \/ AdminCreateProduct(a) \/ AdminUpdateProduct(a)
             \/ CommitProduct(a) \/ AdminDeleteProduct(a)
      PROVE  Looks(a)
  BY <1>0, <1>7, AdminLooks
<1>8. ASSUME NEW r \in Reqs, StatementFails(r) PROVE Looks(r)
  BY <1>0, <1>8, RollbackLooks DEF StatementFails
<1> QED
  BY <1>0, <1>1, <1>2, <1>3, <1>4, <1>5, <1>6, <1>7, <1>8, KindsOfBuyers DEF Next
-----------------------------------------------------------------------------
\* The invariant, one lemma per effect.
LEMMA LooksKeeps ==
    ASSUME TypeInv, RowsHaveOneFate, NEW r \in Reqs, Looks(r)
    PROVE  RowsHaveOneFate'
<1>0. DOMAIN cart \subseteq 1 .. nextRow - 1
  BY DEF TypeInv, TypeOK
<1>1. UNCHANGED <<cart, nextRow, orders>> /\ \A u : RowsOf(u)' = RowsOf(u)
  BY DEF Looks, RowsOf
<1>2. \A q \in Reqs : tx'[q].rows \subseteq tx[q].rows /\ Claimed(q)' \subseteq Claimed(q)
  BY DEF Looks, Claimed
<1>3. \A c \in CheckoutReqs : tx'[c].seen \subseteq RowsOf(UserOf[c]) \cup tx[c].seen
  BY KindsOfBuyers DEF Looks
<1>4. \A u : RowsOf(u) \subseteq DOMAIN cart
  BY DEF RowsOf
<1>5. \A q \in OrderReqs : tx'[q].rows = {}
  BY <1>2, KindsOfBuyers DEF RowsHaveOneFate
<1>6. ASSUME NEW c \in CheckoutReqs
      PROVE  /\ Claimed(c)' \subseteq RowsOf(UserOf[c])
             /\ tx'[c].seen \subseteq 1 .. nextRow - 1
             /\ tx'[c].seen \cap DOMAIN cart \subseteq RowsOf(UserOf[c])
             /\ \A d \in CheckoutReqs \ {c} : Claimed(c)' \cap Claimed(d)' = {}
  BY <1>0, <1>2, <1>3, <1>4, KindsOfBuyers DEF RowsHaveOneFate
<1>7. \A c \in CheckoutReqs : pc'[c] = "commit" => tx'[c].rows \subseteq tx'[c].gone
  BY KindsOfBuyers DEF Looks, RowsHaveOneFate
<1> QED
  BY <1>1, <1>5, <1>6, <1>7 DEF RowsHaveOneFate

\* A checkout claims rows of its customer that no other has claimed.
LEMMA ClaimsKeep ==
    ASSUME TypeInv, RowsHaveOneFate, NEW c \in CheckoutReqs, UNCHANGED <<cart, nextRow, orders>>,
           \A q \in Reqs : q # c => tx'[q] = tx[q] /\ pc'[q] = pc[q],
           NEW S, S \subseteq RowsOf(UserOf[c]), \A id \in S : CartRowFree(c, id),
           Claimed(c)' \subseteq Claimed(c) \cup S, tx'[c].seen = tx[c].seen,
           pc'[c] = "commit" => tx'[c].rows \subseteq tx'[c].gone
    PROVE  RowsHaveOneFate'
<1>1. \A u : RowsOf(u)' = RowsOf(u)
  BY DEF RowsOf
<1>2. \A q \in OrderReqs \cup CheckoutReqs : q # c => tx'[q] = tx[q] /\ pc'[q] = pc[q]
  BY KindsOfBuyers
<1>3. \A d \in CheckoutReqs \ {c} : Claimed(d)' = Claimed(d) /\ S \cap Claimed(d) = {}
  BY <1>2 DEF CartRowFree, Claimed
<1>4. \A q \in OrderReqs : tx'[q].rows = {}
  BY <1>2, KindsOfBuyers DEF RowsHaveOneFate
<1>5. \A d \in CheckoutReqs \ {c} : Claimed(c)' \cap Claimed(d) = {}
  BY <1>3 DEF RowsHaveOneFate
<1>6. ASSUME NEW b \in CheckoutReqs
      PROVE  /\ Claimed(b)' \subseteq RowsOf(UserOf[b])
             /\ tx'[b].seen \subseteq 1 .. nextRow - 1
             /\ tx'[b].seen \cap DOMAIN cart \subseteq RowsOf(UserOf[b])
             /\ \A d \in CheckoutReqs \ {b} : Claimed(b)' \cap Claimed(d)' = {}
             /\ pc'[b] = "commit" => tx'[b].rows \subseteq tx'[b].gone
  <2>1. CASE b = c
    BY <1>3, <1>5, <2>1 DEF RowsHaveOneFate
  <2>2. CASE b # c
    BY <1>2, <1>3, <1>5, <2>2 DEF RowsHaveOneFate
  <2> QED
    BY <2>1, <2>2
<1> QED
  BY <1>1, <1>4, <1>6 DEF RowsHaveOneFate

LEMMA LocksRowsKeeps ==
    ASSUME TypeInv, RowsHaveOneFate, NEW c \in CheckoutReqs, LocksRows(c)
    PROVE  RowsHaveOneFate'
<1> DEFINE S == tx[c].seen \cap DOMAIN cart
<1>1. S \subseteq RowsOf(UserOf[c]) /\ \A id \in S : CartRowFree(c, id)
  BY DEF RowsHaveOneFate, LocksRows
<1>2. Claimed(c)' \subseteq Claimed(c) \cup S
  BY DEF LocksRows, Claimed
<1>3. /\ UNCHANGED <<cart, nextRow, orders>> /\ tx'[c].seen = tx[c].seen /\ pc'[c] # "commit"
      /\ \A q \in Reqs : q # c => tx'[q] = tx[q] /\ pc'[q] = pc[q]
  BY DEF LocksRows
<1> HIDE DEF S
<1> QED
  BY <1>1, <1>2, <1>3, ClaimsKeep

LEMMA DeletesRowsKeeps ==
    ASSUME TypeInv, RowsHaveOneFate, NEW c \in CheckoutReqs, DeletesRows(c)
    PROVE  RowsHaveOneFate'
<1> DEFINE S == RowsOf(UserOf[c])
<1>1. S \subseteq RowsOf(UserOf[c]) /\ \A id \in S : CartRowFree(c, id)
  BY DEF DeletesRows
<1>2. Claimed(c)' \subseteq Claimed(c) \cup S
  BY DEF DeletesRows, Claimed
<1>3. /\ UNCHANGED <<cart, nextRow, orders>> /\ tx'[c].seen = tx[c].seen
      /\ \A q \in Reqs : q # c => tx'[q] = tx[q] /\ pc'[q] = pc[q]
  BY DEF DeletesRows
<1>4. tx'[c].rows \subseteq tx'[c].gone
  BY DEF DeletesRows, RowsHaveOneFate, Claimed
<1> HIDE DEF S
<1> QED
  BY <1>1, <1>2, <1>3, <1>4, ClaimsKeep

LEMMA PlacesOrderKeeps ==
    ASSUME TypeInv, RowsHaveOneFate, NEW b \in Buyers, PlacesOrder(b)
    PROVE  RowsHaveOneFate'
<1>0. /\ DOMAIN cart \subseteq 1 .. nextRow - 1 /\ nextRow' = nextRow
      /\ b \in OrderReqs => b \notin CheckoutReqs
  BY KindsOfBuyers DEF TypeInv, TypeOK, PlacesOrder
<1>1. /\ tx'[b].rows = {} /\ tx'[b].seen = {} /\ Claimed(b)' = {}
      /\ \A q \in OrderReqs \cup CheckoutReqs : q # b =>
            tx'[q] = tx[q] /\ pc'[q] = pc[q] /\ Claimed(q)' = Claimed(q)
  BY KindsOfBuyers DEF PlacesOrder, Claimed
<1>2. /\ DOMAIN cart' \subseteq DOMAIN cart /\ \A id \in DOMAIN cart' : cart'[id] = cart[id]
      /\ tx[b].rows \cap DOMAIN cart' = {} /\ tx[b].rows \subseteq DOMAIN cart
      /\ \A d \in CheckoutReqs \ {b} : Claimed(d) \subseteq DOMAIN cart'
  <2>1. CASE b \in OrderReqs /\ UNCHANGED cart
    BY <2>1 DEF RowsHaveOneFate, RowsOf
  <2>2. CASE b \in CheckoutReqs /\ cart' = Keep(cart, DOMAIN cart \ tx[b].gone)
    <3>1. /\ DOMAIN cart' = DOMAIN cart \ tx[b].gone
          /\ \A id \in DOMAIN cart' : cart'[id] = cart[id]
      BY <2>2 DEF Keep
    <3>2. tx[b].rows \subseteq tx[b].gone /\ tx[b].gone \subseteq DOMAIN cart
      BY <2>2 DEF RowsHaveOneFate, RowsOf, Claimed, PlacesOrder
    <3>3. \A d \in CheckoutReqs \ {b} :
             Claimed(d) \subseteq DOMAIN cart /\ Claimed(d) \cap tx[b].gone = {}
      <4>1. tx[b].gone \subseteq Claimed(b)
        BY DEF Claimed
      <4> QED
        BY <2>2, <4>1 DEF RowsHaveOneFate, RowsOf
    <3> QED
      BY <3>1, <3>2, <3>3
  <2> QED
    BY <2>1, <2>2 DEF PlacesOrder
<1>3. \A u : RowsOf(u)' = RowsOf(u) \cap DOMAIN cart'
  BY <1>2 DEF RowsOf
<1>4. ASSUME NEW r \in DOMAIN orders'
      PROVE  /\ orders'[r].rows \subseteq 1 .. nextRow' - 1
             /\ orders'[r].rows \cap DOMAIN cart' = {}
             /\ \A q \in DOMAIN orders' \ {r} : orders'[r].rows \cap orders'[q].rows = {}
  <2>1. /\ DOMAIN orders' = DOMAIN orders \cup {b} /\ b \notin DOMAIN orders
        /\ orders'[b].rows = tx[b].rows
        /\ \A q \in DOMAIN orders : orders'[q] = orders[q]
    BY DEF PlacesOrder
  <2>2. \A q \in DOMAIN orders : /\ orders[q].rows \cap DOMAIN cart = {}
                                 /\ orders[q].rows \subseteq 1 .. nextRow - 1
                                 /\ \A p \in DOMAIN orders \ {q} : orders[q].rows \cap orders[p].rows = {}
    BY DEF RowsHaveOneFate
  <2>3. \A q \in DOMAIN orders : orders[q].rows \cap tx[b].rows = {}
    BY <1>2, <2>2
  <2>4. CASE r = b
    BY <1>0, <1>2, <2>1, <2>3, <2>4
  <2>5. CASE r # b
    BY <1>0, <1>2, <2>1, <2>2, <2>3, <2>5
  <2> QED
    BY <2>4, <2>5
<1>5. \A q \in OrderReqs : tx'[q].rows = {}
  BY <1>1 DEF RowsHaveOneFate
<1>6. ASSUME NEW c \in CheckoutReqs
      PROVE  /\ Claimed(c)' \subseteq RowsOf(UserOf[c])'
             /\ tx'[c].seen \subseteq 1 .. nextRow' - 1
             /\ tx'[c].seen \cap DOMAIN cart' \subseteq RowsOf(UserOf[c])'
             /\ \A d \in CheckoutReqs \ {c} : Claimed(c)' \cap Claimed(d)' = {}
             /\ pc'[c] = "commit" => tx'[c].rows \subseteq tx'[c].gone
  <2>1. CASE c = b
    BY <1>1, <2>1
  <2>2. CASE c # b
    <3>1. Claimed(c)' \subseteq RowsOf(UserOf[c])'
      BY <1>1, <1>2, <1>3, <2>2 DEF RowsHaveOneFate
    <3> QED
      BY <1>0, <1>1, <1>2, <1>3, <2>2, <3>1 DEF RowsHaveOneFate
  <2> QED
    BY <2>1, <2>2
<1> QED
  BY <1>4, <1>5, <1>6 DEF RowsHaveOneFate

LEMMA IdsBelow ==
    ASSUME NEW m \in Nat, NEW n \in Nat, m <= n
    PROVE  m \notin 1 .. m - 1 /\ 1 .. m - 1 \subseteq 1 .. n - 1
OBVIOUS

LEMMA ChangesCartKeeps ==
    ASSUME TypeInv, RowsHaveOneFate, NEW k \in CartReqs, ChangesCart(k)
    PROVE  RowsHaveOneFate'
<1>0. /\ DOMAIN cart \subseteq 1 .. nextRow - 1 /\ nextRow \in Nat
      /\ nextRow' \in {nextRow, nextRow + 1} /\ UNCHANGED orders
      /\ DOMAIN cart' \subseteq DOMAIN cart \cup {nextRow}
  BY DEF TypeInv, TypeOK, ChangesCart
<1>1. \A q \in OrderReqs \cup CheckoutReqs :
         tx'[q] = tx[q] /\ pc'[q] = pc[q] /\ Claimed(q)' = Claimed(q)
  BY KindsOfBuyers DEF ChangesCart, Buyers, Claimed
<1>2. /\ nextRow \notin DOMAIN cart /\ nextRow \notin 1 .. nextRow - 1
      /\ 1 .. nextRow - 1 \subseteq 1 .. nextRow' - 1
  <2>1. nextRow' \in Nat /\ nextRow' >= nextRow
    BY <1>0
  <2> QED
    BY <1>0, <2>1, IdsBelow
<1>3. \A c \in CheckoutReqs : Claimed(c) \subseteq DOMAIN cart'
  <2>1. \A c \in CheckoutReqs : Claimed(c) \subseteq DOMAIN cart
    BY DEF RowsHaveOneFate, RowsOf
  <2>2. \A id \in DOMAIN cart \ DOMAIN cart' : \A c \in CheckoutReqs : id \notin Claimed(c)
    BY KindsOfBuyers DEF ChangesCart, CartRowFree, Buyers
  <2> QED
    BY <2>1, <2>2
<1>4. \A u : \A id \in RowsOf(u) : id \in DOMAIN cart' => id \in RowsOf(u)'
  BY DEF ChangesCart, RowsOf
<1>5. \A r \in DOMAIN orders :
         orders[r].rows \subseteq 1 .. nextRow' - 1 /\ orders[r].rows \cap DOMAIN cart' = {}
  BY <1>0, <1>2 DEF RowsHaveOneFate
<1>6. ASSUME NEW c \in CheckoutReqs
      PROVE  /\ Claimed(c)' \subseteq RowsOf(UserOf[c])'
             /\ tx'[c].seen \subseteq 1 .. nextRow' - 1
             /\ tx'[c].seen \cap DOMAIN cart' \subseteq RowsOf(UserOf[c])'
             /\ \A d \in CheckoutReqs \ {c} : Claimed(c)' \cap Claimed(d)' = {}
             /\ pc'[c] = "commit" => tx'[c].rows \subseteq tx'[c].gone
  BY <1>0, <1>1, <1>2, <1>3, <1>4 DEF RowsHaveOneFate
<1> QED
  BY <1>0, <1>1, <1>5, <1>6 DEF RowsHaveOneFate

LEMMA InitFate == Init => RowsHaveOneFate
<1> SUFFICES ASSUME Init PROVE RowsHaveOneFate
  OBVIOUS
<1>1. /\ DOMAIN orders = {}
      /\ \A r \in Reqs : tx[r].rows = {} /\ tx[r].seen = {} /\ Claimed(r) = {}
  BY DEF Init, Idle, Claimed
<1> QED
  BY <1>1, KindsOfBuyers DEF RowsHaveOneFate

LEMMA NextFate == StockInv /\ RowsHaveOneFate /\ [Next]_vars => RowsHaveOneFate'
<1> SUFFICES ASSUME StockInv, RowsHaveOneFate, [Next]_vars PROVE RowsHaveOneFate'
  OBVIOUS
<1>1. TypeInv
  BY DEF StockInv, TypeInv
<1>2. CASE Next
  BY <1>1, <1>2, NextByEffect, LooksKeeps, LocksRowsKeeps, DeletesRowsKeeps,
     PlacesOrderKeeps, ChangesCartKeeps
<1>3. CASE UNCHANGED vars
  BY <1>3 DEF vars, RowsHaveOneFate, RowsOf, Claimed
<1> QED
  BY <1>2, <1>3

\* Every cart row is in the cart or in one order, and locked by one checkout at most.
THEOREM OneFate == Spec => []RowsHaveOneFate
BY InitFate, NextFate, StockInvariant, PTL DEF Spec

\* checkoutCart: two checkouts, concurrent or one the retry of the other, never order
\* the same cart row.
THEOREM RowsOrderedOnce == Spec => []NoRowOrderedTwice
<1>1. RowsHaveOneFate => NoRowOrderedTwice
  BY DEF RowsHaveOneFate, NoRowOrderedTwice, RowsOf, Claimed
<1> QED
  BY <1>1, OneFate, PTL

-----------------------------------------------------------------------------
(* What a checkout buys *)

\* What was taken for the lines before the next one.
TakenSoFar(t) ==
    /\ \A i, j \in DOMAIN t.items : t.items[i].product = t.items[j].product => i = j
    /\ \A i \in DOMAIN t.items :
          t.taken[t.items[i].product] = IF i < t.next THEN t.items[i].qty ELSE 0
    /\ \A p \in Products : t.taken[p] > 0 => \E i \in DOMAIN t.items : t.items[i].product = p

\* The lines a checkout orders are its locked rows, as they are; what it saw and
\* did not lock is gone.
Shows(line, id) == line.product = cart[id].product /\ line.qty = cart[id].qty
LinesAreRows(t) ==
    /\ t.rows # {} /\ t.seen \cap DOMAIN cart \subseteq t.rows
    /\ \A i \in DOMAIN t.items : \E id \in t.rows : Shows(t.items[i], id)
    /\ \A id \in t.rows : \E i \in DOMAIN t.items : Shows(t.items[i], id)

\* UNIQUE(user_id, product_id) of cart_items.
UniqueLines ==
    \A i, j \in DOMAIN cart : cart[i].user = cart[j].user /\ cart[i].product = cart[j].product
                                 => i = j
OneRowEach ==
    /\ \A k \in CartReqs : \A i, j \in tx[k].seen : i = j
    /\ \A a \in AdminReqs : \A p, q \in held[a] : p = q
BuysItsRows ==
    \A c \in CheckoutReqs : pc[c] \in {"lock", "take", "clear", "commit"} =>
        /\ TakenSoFar(tx[c]) /\ LinesAreRows(tx[c])
        /\ pc[c] \in {"clear", "commit"} => \A i \in DOMAIN tx[c].items : i < tx[c].next
LinesInv == UniqueLines /\ OneRowEach /\ BuysItsRows

\* One step of call r.
StepOf(r) ==
    \/ r \in OrderReqs /\ (CreateOrder(r) \/ OrderStep(r) \/ CommitOrder(r))
    \/ r \in CheckoutReqs /\ (CheckoutCart(r) \/ LockCartRows(r) \/ OrderStep(r)
                              \/ ClearCart(r) \/ CommitCheckout(r))
    \/ r \in CartReqs /\ (\/ AddCartItem(r) \/ UpdateCartItem(r) \/ DeleteCartItem(r)
                          \/ AssertCartProductState(r) \/ UpsertCartItem(r)
                          \/ WriteCartQuantity(r))
    \/ r \in AdminReqs /\ (\/ AdminCreateProduct(r) \/ AdminUpdateProduct(r)
                           \/ CommitProduct(r) \/ AdminDeleteProduct(r))
    \/ StatementFails(r)

LEMMA NextIsStepOf ==
    ASSUME Next
    PROVE  \E r \in Reqs : StepOf(r)
BY KindsOfBuyers DEF Next, StepOf

\* A call moves itself only.
LEMMA OwnStep ==
    ASSUME TypeInv, NEW r \in Reqs, StepOf(r)
    PROVE  \A q \in Reqs : q # r => tx'[q] = tx[q] /\ pc'[q] = pc[q] /\ held'[q] = held[q]
<1>0. tx \in [Reqs -> Locals] /\ pc \in [Reqs -> PC] /\ held \in [Reqs -> SUBSET Products]
  BY DEF TypeInv, TypeOK
<1>1. ASSUME NEW end, Ends(r, end)
      PROVE  \A q \in Reqs : q # r => tx'[q] = tx[q] /\ pc'[q] = pc[q] /\ held'[q] = held[q]
  BY <1>0, <1>1 DEF Ends
<1>2. ASSUME Rollback(r) \/ Fails(r)
      PROVE  \A q \in Reqs : q # r => tx'[q] = tx[q] /\ pc'[q] = pc[q] /\ held'[q] = held[q]
  BY <1>1, <1>2 DEF Rollback, Fails
<1>3. CASE CreateOrder(r) \/ OrderStep(r) \/ CommitOrder(r)
  BY <1>0, <1>1, <1>2, <1>3 DEF CreateOrder, OrderStep, CommitOrder, LockProduct, TakeStock, DeadlockVictim
<1>4. CASE CheckoutCart(r) \/ LockCartRows(r) \/ ClearCart(r) \/ CommitCheckout(r)
  BY <1>0, <1>1, <1>2, <1>4 DEF CheckoutCart, LockCartRows, ClearCart, CommitCheckout
<1>5. CASE AddCartItem(r) \/ UpdateCartItem(r) \/ DeleteCartItem(r)
  BY <1>0, <1>1, <1>2, <1>5 DEF AddCartItem, UpdateCartItem, DeleteCartItem
<1>6. CASE AssertCartProductState(r) \/ UpsertCartItem(r) \/ WriteCartQuantity(r)
  BY <1>0, <1>1, <1>2, <1>6 DEF AssertCartProductState, UpsertCartItem, WriteCartQuantity
<1>7. CASE AdminCreateProduct(r) \/ AdminUpdateProduct(r) \/ CommitProduct(r) \/ AdminDeleteProduct(r)
  BY <1>0, <1>1, <1>2, <1>7
     DEF AdminCreateProduct, AdminUpdateProduct, CommitProduct, AdminDeleteProduct
<1>8. CASE StatementFails(r)
  BY <1>2, <1>8 DEF StatementFails
<1> QED
  BY <1>3, <1>4, <1>5, <1>6, <1>7, <1>8 DEF StepOf

\* A write of a cart call is one line added, changed or dropped.
AddsLine(u, p, n) ==
    /\ u \in Users /\ p \in Products /\ n \in Nat \ {0}
    /\ \A id \in RowsOf(u) : cart[id].product # p
    /\ cart' = Extend(cart, nextRow, [user |-> u, product |-> p, qty |-> n])
SetsLine(k, id, n) ==
    /\ id \in DOMAIN cart /\ CartRowFree(k, id) /\ n \in Nat \ {0}
    /\ cart' = [cart EXCEPT ![id].qty = n]
DropsLine(k, id) ==
    /\ id \in DOMAIN cart /\ CartRowFree(k, id)
    /\ cart' = Keep(cart, DOMAIN cart \ {id})
WritesLine(k) ==
    \/ UNCHANGED cart
    \/ \E u \in Users, p \in Products, n \in Nat \ {0} : AddsLine(u, p, n)
    \/ \E id \in DOMAIN cart, n \in Nat \ {0} : SetsLine(k, id, n)
    \/ \E id \in DOMAIN cart : DropsLine(k, id)

LEMMA UpsertWrites ==
    ASSUME TypeInv, LinesInv, NEW k \in CartReqs, UpsertCartItem(k)
    PROVE  WritesLine(k)
<1> DEFINE p == Item(k).product
           n == Item(k).qty
           same == {id \in RowsOf(UserOf[k]) : cart[id].product = p}
<1>0. k \in Reqs /\ UserOf[k] \in Users /\ pc[k] = "write"
  BY ReqsAssumption, KindsOfBuyers DEF UpsertCartItem
<1>1. p \in Products /\ n \in Nat \ {0}
  BY <1>0, ItemType DEF Line
<1>2. cart \in [DOMAIN cart -> CartRow]
  BY DEF TypeInv, TypeOK
<1>3. CASE same # {}
  <2>1. cart' = [id \in DOMAIN cart |->
                   IF id \in same THEN [cart[id] EXCEPT !.qty = @ + n] ELSE cart[id]]
    BY <1>3 DEF UpsertCartItem
  <2>2. PICK one \in same : TRUE
    BY <1>3
  <2>3. one \in DOMAIN cart /\ CartRowFree(k, one)
    BY <2>2 DEF UpsertCartItem, RowsOf
  <2>4. \A id \in same : id = one
    BY <2>2 DEF LinesInv, UniqueLines, RowsOf
  <2>5. cart[one] \in CartRow /\ cart[one].qty + n \in Nat \ {0}
    BY <1>1, <1>2, <2>3 DEF CartRow
  <2>6. \A id \in DOMAIN cart : id \in same <=> id = one
    BY <2>2, <2>4
  <2> HIDE DEF same, n, p
  <2>7. cart' = [cart EXCEPT ![one].qty = cart[one].qty + n]
    BY <1>2, <2>1, <2>3, <2>6
  <2> QED
    BY <2>3, <2>5, <2>7 DEF WritesLine, SetsLine
<1>4. CASE same = {}
  <2>1. cart' = Extend(cart, nextRow, [user |-> UserOf[k], product |-> p, qty |-> n])
    BY <1>4 DEF UpsertCartItem
  <2>2. \A id \in RowsOf(UserOf[k]) : cart[id].product # p
    BY <1>4
  <2> HIDE DEF same, n, p
  <2> QED
    BY <1>0, <1>1, <2>1, <2>2 DEF WritesLine, AddsLine
<1> QED
  BY <1>3, <1>4

LEMMA QuantityWrites ==
    ASSUME TypeInv, LinesInv, NEW k \in CartReqs, WriteCartQuantity(k)
    PROVE  WritesLine(k)
<1> DEFINE n == Item(k).qty
<1>0. k \in Reqs /\ pc[k] = "write"
  BY KindsOfBuyers DEF WriteCartQuantity
<1>1. n \in Nat \ {0}
  BY <1>0, ItemType DEF Line
<1>2. cart \in [DOMAIN cart -> CartRow]
  BY DEF TypeInv, TypeOK
<1>3. PICK one \in tx[k].seen : TRUE
  BY DEF WriteCartQuantity
<1>4. \A id \in tx[k].seen : id = one
  BY <1>3 DEF LinesInv, OneRowEach
<1>5. CartRowFree(k, one)
  BY <1>3 DEF WriteCartQuantity
<1>6. cart' = [id \in DOMAIN cart |->
                  IF id \in tx[k].seen THEN [cart[id] EXCEPT !.qty = n] ELSE cart[id]]
  BY DEF WriteCartQuantity
<1> HIDE DEF n
<1>7. cart' = [id \in DOMAIN cart |-> IF id = one THEN [cart[id] EXCEPT !.qty = n] ELSE cart[id]]
  BY <1>3, <1>4, <1>6
<1>8. CASE one \in DOMAIN cart
  <2>1. cart' = [cart EXCEPT ![one].qty = n]
    BY <1>2, <1>7, <1>8
  <2> QED
    BY <1>1, <1>5, <1>8, <2>1 DEF WritesLine, SetsLine
<1>9. CASE one \notin DOMAIN cart
  <2>1. cart' = cart
    BY <1>2, <1>7, <1>9
  <2> QED
    BY <2>1 DEF WritesLine
<1> QED
  BY <1>8, <1>9

\* addCartItem, updateCartItem, deleteCartItem write one line at most.
LEMMA CartCallWrites ==
    ASSUME TypeInv, LinesInv, NEW k \in CartReqs,
           \/ AddCartItem(k) \/ UpdateCartItem(k) \/ DeleteCartItem(k)
           \/ AssertCartProductState(k) \/ UpsertCartItem(k) \/ WriteCartQuantity(k)
    PROVE  WritesLine(k) /\ UNCHANGED <<catalog, orders>>
<1>1. CASE AddCartItem(k) \/ UpdateCartItem(k) \/ AssertCartProductState(k)
  BY <1>1 DEF AddCartItem, UpdateCartItem, AssertCartProductState, Fails, WritesLine
<1>2. CASE DeleteCartItem(k)
  <2>1. ASSUME NEW id, id \in RowsOf(UserOf[k]), CartRowFree(k, id),
               cart' = Keep(cart, DOMAIN cart \ {id})
        PROVE  WritesLine(k)
    BY <2>1 DEF RowsOf, WritesLine, DropsLine
  <2>2. CASE Fails(k)
    BY <2>2 DEF Fails, WritesLine
  <2> QED
    BY <1>2, <2>1, <2>2 DEF DeleteCartItem, Fails
<1>3. CASE UpsertCartItem(k)
  BY <1>3, UpsertWrites DEF UpsertCartItem
<1>4. CASE WriteCartQuantity(k)
  BY <1>4, QuantityWrites DEF WriteCartQuantity
<1> QED
  BY <1>1, <1>2, <1>3, <1>4

\* What a step does to the cart.
LEMMA CartStep ==
    ASSUME TypeInv, LinesInv, NEW r \in Reqs, StepOf(r)
    PROVE  WritesLine(r) \/ (r \in CheckoutReqs /\ CommitCheckout(r))
<1>1. ASSUME UNCHANGED cart PROVE WritesLine(r)
  BY <1>1 DEF WritesLine
<1>2. Rollback(r) => UNCHANGED cart
  BY DEF Rollback
<1>3. CASE \/ CreateOrder(r) \/ OrderStep(r) \/ CommitOrder(r)
           \/ CheckoutCart(r) \/ LockCartRows(r) \/ ClearCart(r)
  BY <1>1, <1>2, <1>3
     DEF CreateOrder, OrderStep, CommitOrder, LockProduct, TakeStock, DeadlockVictim, CheckoutCart,
         LockCartRows, ClearCart
<1>4. CASE AdminCreateProduct(r) \/ AdminUpdateProduct(r) \/ CommitProduct(r) \/ AdminDeleteProduct(r)
  BY <1>1, <1>2, <1>4
     DEF AdminCreateProduct, AdminUpdateProduct, CommitProduct, AdminDeleteProduct
<1>5. CASE StatementFails(r)
  BY <1>1, <1>2, <1>5 DEF StatementFails
<1> QED
  BY <1>3, <1>4, <1>5, CartCallWrites DEF StepOf

\* The constraint stays: a row is added only where there is none.
LEMMA UniqueLinesStep ==
    ASSUME TypeInv, LinesInv, NEW r \in Reqs, StepOf(r)
    PROVE  UniqueLines'
<1>0. /\ cart \in [DOMAIN cart -> CartRow] /\ nextRow \notin DOMAIN cart
      /\ UniqueLines
  <2>1. DOMAIN cart \subseteq 1 .. nextRow - 1 /\ nextRow \in Nat
    BY DEF TypeInv, TypeOK
  <2> QED
    BY <2>1 DEF TypeInv, TypeOK, LinesInv
<1>1. CASE UNCHANGED cart
  BY <1>0, <1>1 DEF UniqueLines
<1>2. ASSUME NEW u \in Users, NEW p \in Products, NEW n \in Nat \ {0}, AddsLine(u, p, n)
      PROVE  UniqueLines'
  <2> DEFINE row == [user |-> u, product |-> p, qty |-> n]
  <2>1. row.user = u /\ row.product = p
    OBVIOUS
  <2>2. cart' = Extend(cart, nextRow, row)
    BY <1>2 DEF AddsLine
  <2> HIDE DEF row
  <2>3. /\ DOMAIN cart' = DOMAIN cart \cup {nextRow}
        /\ cart'[nextRow] = row /\ \A id \in DOMAIN cart : cart'[id] = cart[id]
    BY <1>0, <2>2 DEF Extend
  <2>4. \A id \in DOMAIN cart : cart[id].user = u => cart[id].product # p
    BY <1>2 DEF AddsLine, RowsOf
  <2> QED
    BY <1>0, <2>1, <2>3, <2>4 DEF UniqueLines
<1>3. ASSUME NEW id \in DOMAIN cart, NEW n \in Nat \ {0}, SetsLine(r, id, n)
      PROVE  UniqueLines'
  <2>1. /\ DOMAIN cart' = DOMAIN cart
        /\ \A i \in DOMAIN cart : cart'[i].user = cart[i].user /\ cart'[i].product = cart[i].product
    <3>1. cart[id] \in CartRow
      BY <1>0
    <3>2. cart' = [cart EXCEPT ![id].qty = n]
      BY <1>3 DEF SetsLine
    <3> QED
      BY <1>0, <3>1, <3>2 DEF CartRow
  <2> QED
    BY <1>0, <2>1 DEF UniqueLines
<1>4. ASSUME NEW S, cart' = Keep(cart, S) PROVE UniqueLines'
  <2>1. DOMAIN cart' \subseteq DOMAIN cart /\ \A id \in DOMAIN cart' : cart'[id] = cart[id]
    BY <1>4 DEF Keep
  <2> QED
    BY <1>0, <2>1 DEF UniqueLines
<1>5. CommitCheckout(r) => UniqueLines'
  BY <1>4 DEF CommitCheckout
<1>6. \A id \in DOMAIN cart : DropsLine(r, id) => UniqueLines'
  BY <1>4 DEF DropsLine
<1> QED
  BY <1>1, <1>2, <1>3, <1>5, <1>6, CartStep DEF WritesLine

\* A cart call is about one row and an administrator's about one product.
LEMMA OneRowEachStep ==
    ASSUME TypeInv, LinesInv, NEW r \in Reqs, StepOf(r)
    PROVE  OneRowEach'
<1>0. tx \in [Reqs -> Locals] /\ held \in [Reqs -> SUBSET Products] /\ OneRowEach
  BY DEF TypeInv, TypeOK, LinesInv
<1>1. ASSUME NEW end, Ends(r, end) PROVE tx'[r].seen = {} /\ held'[r] = {}
  <2>1. Idle.seen = {}
    BY DEF Idle
  <2> QED
    BY <1>0, <1>1, <2>1 DEF Ends
<1>2. Rollback(r) \/ Fails(r) => tx'[r].seen = {} /\ held'[r] = {}
  BY <1>1 DEF Rollback, Fails
<1>3. ASSUME r \in CartReqs PROVE \A i, j \in tx'[r].seen : i = j
  <2>1. CASE AddCartItem(r)
    <3>1. PICK items : tx' = [tx EXCEPT ![r].items = items]
      BY <2>1 DEF AddCartItem
    <3>2. tx'[r].seen = tx[r].seen
      BY <1>0, <3>1 DEF Locals
    <3> QED
      BY <1>0, <1>3, <3>2 DEF OneRowEach
  <2>2. CASE UpdateCartItem(r)
    <3>1. ASSUME NEW items, NEW id, tx' = [tx EXCEPT ![r].items = items, ![r].seen = {id}]
          PROVE  tx'[r].seen = {id}
      BY <1>0, <3>1 DEF Locals
    <3> QED
      BY <1>2, <2>2, <3>1 DEF UpdateCartItem
  <2>3. CASE DeleteCartItem(r) \/ AssertCartProductState(r) \/ UpsertCartItem(r) \/ WriteCartQuantity(r)
    <3>1. UNCHANGED tx => \A i, j \in tx'[r].seen : i = j
      BY <1>0, <1>3 DEF OneRowEach
    <3> QED
      BY <1>1, <1>2, <2>3, <3>1
         DEF DeleteCartItem, AssertCartProductState, UpsertCartItem, WriteCartQuantity
  <2>4. CASE StatementFails(r)
    BY <1>2, <2>4 DEF StatementFails
  <2> QED
    BY <1>3, <2>1, <2>2, <2>3, <2>4, KindsOfBuyers, ReqsAssumption DEF StepOf, Buyers
<1>4. ASSUME r \in AdminReqs PROVE \A p, q \in held'[r] : p = q
  <2>1. CASE AdminUpdateProduct(r)
    <3>1. ASSUME NEW p, held' = [held EXCEPT ![r] = {p}] PROVE held'[r] = {p}
      BY <1>0, <3>1
    <3> QED
      BY <1>2, <2>1, <3>1 DEF AdminUpdateProduct
  <2>2. CASE AdminCreateProduct(r) \/ CommitProduct(r) \/ AdminDeleteProduct(r)
    BY <1>1, <1>2, <2>2 DEF AdminCreateProduct, CommitProduct, AdminDeleteProduct
  <2>3. CASE StatementFails(r)
    BY <1>2, <2>3 DEF StatementFails
  <2> QED
    BY <1>4, <2>1, <2>2, <2>3, KindsOfBuyers, ReqsAssumption DEF StepOf, Buyers
<1> QED
  BY <1>0, <1>3, <1>4, OwnStep, KindsOfBuyers DEF OneRowEach

\* Rows that another checkout has locked stand as they are, and what comes is new.
LEMMA LockedRowsStand ==
    ASSUME StockInv, RowsHaveOneFate, LinesInv, NEW r \in Reqs, StepOf(r)
    PROVE  /\ DOMAIN cart' \subseteq DOMAIN cart \cup {nextRow}
           /\ \A c \in CheckoutReqs \ {r} : \A id \in Claimed(c) :
                 id \in DOMAIN cart /\ id \in DOMAIN cart' /\ cart'[id] = cart[id]
<1>0. /\ TypeInv /\ cart \in [DOMAIN cart -> CartRow] /\ nextRow \notin DOMAIN cart
  <2>1. DOMAIN cart \subseteq 1 .. nextRow - 1 /\ nextRow \in Nat
    BY DEF StockInv, TypeOK
  <2> QED
    BY <2>1 DEF TypeInv, StockInv, TypeOK
<1>1. \A c \in CheckoutReqs : \A id \in Claimed(c) : id \in DOMAIN cart
  BY DEF RowsHaveOneFate, RowsOf
<1>2. CASE UNCHANGED cart
  BY <1>1, <1>2
<1>3. ASSUME NEW u \in Users, NEW p \in Products, NEW n \in Nat \ {0}, AddsLine(u, p, n)
      PROVE  /\ DOMAIN cart' = DOMAIN cart \cup {nextRow}
             /\ \A id \in DOMAIN cart : cart'[id] = cart[id]
  BY <1>0, <1>3 DEF AddsLine, Extend
<1>4. ASSUME NEW i \in DOMAIN cart, NEW n \in Nat \ {0}, SetsLine(r, i, n)
      PROVE  /\ DOMAIN cart' = DOMAIN cart
             /\ \A id \in DOMAIN cart : id # i => cart'[id] = cart[id]
             /\ \A c \in CheckoutReqs \ {r} : i \notin Claimed(c)
  BY <1>0, <1>4 DEF SetsLine, CartRowFree
<1>5. ASSUME NEW i \in DOMAIN cart, DropsLine(r, i)
      PROVE  /\ DOMAIN cart' = DOMAIN cart \ {i}
             /\ \A id \in DOMAIN cart' : cart'[id] = cart[id]
             /\ \A c \in CheckoutReqs \ {r} : i \notin Claimed(c)
  BY <1>0, <1>5 DEF DropsLine, CartRowFree, Keep
<1>6. ASSUME r \in CheckoutReqs, CommitCheckout(r)
      PROVE  /\ DOMAIN cart' = DOMAIN cart \ tx[r].gone
             /\ \A id \in DOMAIN cart' : cart'[id] = cart[id]
             /\ \A id \in tx[r].gone : \A c \in CheckoutReqs \ {r} : id \notin Claimed(c)
  <2>1. cart' = Keep(cart, DOMAIN cart \ tx[r].gone)
    BY <1>6 DEF CommitCheckout
  <2>2. tx[r].gone \subseteq Claimed(r)
    BY DEF Claimed
  <2> QED
    BY <1>0, <1>6, <2>1, <2>2 DEF RowsHaveOneFate, Keep
<1> QED
  <2>1. CASE WritesLine(r)
    BY <1>1, <1>2, <1>3, <1>4, <1>5, <2>1 DEF WritesLine
  <2>2. CASE r \in CheckoutReqs /\ CommitCheckout(r)
    BY <1>1, <1>6, <2>2
  <2> QED
    BY <1>0, <2>1, <2>2, CartStep

\* What holds of the locals holds of what they say alone.
LEMMA SameRows ==
    ASSUME NEW t, NEW v, v.items = t.items, v.seen = t.seen, v.rows = t.rows, LinesAreRows(t)
    PROVE  LinesAreRows(v)
BY Zenon DEF LinesAreRows

LEMMA SameLines ==
    ASSUME NEW t, NEW v, v.items = t.items, v.next = t.next, v.taken = t.taken,
           v.seen = t.seen, v.rows = t.rows
    PROVE  /\ TakenSoFar(t) => TakenSoFar(v)
           /\ LinesAreRows(t) => LinesAreRows(v)
<1>1. TakenSoFar(t) => TakenSoFar(v)
  BY DEF TakenSoFar
<1>2. LinesAreRows(t) => LinesAreRows(v)
  BY SameRows, ZenonT(60)
<1> QED
  BY <1>1, <1>2

\* TakeStock takes the next line, whose product no other line names.
LEMMA TakesNext ==
    ASSUME NEW t \in Locals, NEW v \in Locals, TakenSoFar(t), t.next \in DOMAIN t.items,
           v.items = t.items, v.next = t.next + 1,
           v.taken = [t.taken EXCEPT ![t.items[t.next].product] = @ + t.items[t.next].qty]
    PROVE  TakenSoFar(v)
<1> DEFINE line == t.items[t.next]
<1>1. /\ t.items \in Seq(Line) /\ DOMAIN t.items = 1 .. Len(t.items) /\ Len(t.items) \in Nat
      /\ t.next \in Nat /\ t.taken \in [Products -> Nat]
      /\ \A i \in DOMAIN t.items : t.items[i] \in Line
  BY DEF Locals
<1>2. line.product \in Products /\ line.qty \in Nat \ {0}
  BY <1>1 DEF Line
<1>3. t.taken[line.product] = 0
  <2>1. ~(t.next < t.next)
    BY <1>1
  <2> QED
    BY <2>1 DEF TakenSoFar
<1>4. v.taken[line.product] = line.qty /\ \A p \in Products : p # line.product => v.taken[p] = t.taken[p]
  <2>1. t.taken[line.product] + line.qty = line.qty
    BY <1>2, <1>3
  <2> QED
    BY <1>1, <1>2, <2>1
<1>5. ASSUME NEW i \in DOMAIN t.items
      PROVE  v.taken[t.items[i].product] = IF i < t.next + 1 THEN t.items[i].qty ELSE 0
  <2>1. CASE i = t.next
    <3>1. i < t.next + 1
      BY <1>1, <2>1
    <3> QED
      BY <1>4, <2>1, <3>1
  <2>2. CASE i # t.next
    <3>1. t.items[i].product # line.product /\ t.items[i].product \in Products
      BY <1>1, <2>2 DEF TakenSoFar, Line
    <3>2. i < t.next + 1 <=> i < t.next
      BY <1>1, <2>2
    <3>3. v.taken[t.items[i].product] = t.taken[t.items[i].product]
      BY <1>4, <3>1
    <3>4. t.taken[t.items[i].product] = IF i < t.next THEN t.items[i].qty ELSE 0
      BY DEF TakenSoFar
    <3> QED
      BY <3>2, <3>3, <3>4
  <2> QED
    BY <2>1, <2>2
<1>6. ASSUME NEW p \in Products, v.taken[p] > 0
      PROVE  \E i \in DOMAIN t.items : t.items[i].product = p
  <2>1. p = line.product \/ t.taken[p] > 0
    BY <1>4, <1>6
  <2> QED
    BY <2>1 DEF TakenSoFar
<1> QED
  BY <1>5, <1>6 DEF TakenSoFar

\* A strictly ordered list of all of a finite set of ids names each once.
LEMMA InIdOrderLists ==
    ASSUME NEW S \in SUBSET Nat, IsFiniteSet(S), NEW s \in InIdOrder(S)
    PROVE  /\ \A i, j \in DOMAIN s : s[i] = s[j] => i = j
           /\ \A id \in S : \E i \in DOMAIN s : s[i] = id
           /\ \A i \in DOMAIN s : s[i] \in S
           /\ DOMAIN s = 1 .. Cardinality(S) /\ Cardinality(S) \in Nat
<1>1. Cardinality(S) \in Nat
  BY FS_CardinalityType
<1>2. s \in [1 .. Cardinality(S) -> S] /\ \A i, j \in DOMAIN s : i < j => s[i] < s[j]
  BY DEF InIdOrder
<1>3. \A i, j \in DOMAIN s : s[i] = s[j] => i = j
  <2> SUFFICES ASSUME NEW i \in DOMAIN s, NEW j \in DOMAIN s, s[i] = s[j], i # j PROVE FALSE
    OBVIOUS
  <2>0. DOMAIN s = 1 .. Cardinality(S) /\ \A n \in DOMAIN s : s[n] \in Nat
    BY <1>2
  <2>1. i \in Nat /\ j \in Nat /\ s[i] \in Nat /\ s[j] \in Nat
    BY <1>1, <2>0
  <2>2. s[i] < s[j] \/ s[j] < s[i]
    BY <1>2, <2>1
  <2> QED
    BY <2>1, <2>2
<1>4. Cardinality(1 .. Cardinality(S)) = Cardinality(S)
  BY <1>1, FS_Interval
<1>5. s \in Injection(1 .. Cardinality(S), S)
  BY <1>2, <1>3 DEF Injection, IsInjective
<1>6. s \in Surjection(1 .. Cardinality(S), S)
  BY <1>4, <1>5, FS_Injection
<1> QED
  BY <1>1, <1>2, <1>3, <1>6 DEF Surjection

\* checkoutCart: the lines to order are the rows it locked, each once.
LEMMA LocksItsRows ==
    ASSUME StockInv, RowsHaveOneFate, LinesInv, NEW c \in CheckoutReqs, LockCartRows(c),
           pc'[c] = "lock"
    PROVE  TakenSoFar(tx'[c]) /\ LinesAreRows(tx'[c]) /\ UNCHANGED cart
<1>0. /\ c \in Reqs /\ TypeInv /\ pc[c] = "lock_rows" /\ tx \in [Reqs -> Locals]
      /\ tx[c].next = 1 /\ tx[c].taken = NoItems
      /\ cart \in [DOMAIN cart -> CartRow]
  BY KindsOfBuyers DEF StockInv, TypeInv, TypeOK, Cursor, Stages, LockCartRows
<1> DEFINE rows == tx[c].seen \cap DOMAIN cart
<1>1. rows # {}
  <2>1. Rollback(c) => pc'[c] = "failed"
    BY <1>0 DEF StockInv, TypeOK, Rollback, Ends
  <2> QED
    BY <2>1 DEF LockCartRows
<1>2. PICK s \in InIdOrder(rows) :
         /\ tx' = [tx EXCEPT
               ![c].rows = rows,
               ![c].items = [i \in DOMAIN s |->
                   [product |-> cart[s[i]].product, qty |-> cart[s[i]].qty]]]
         /\ UNCHANGED cart
  BY <1>1 DEF LockCartRows
<1> DEFINE items == [i \in DOMAIN s |-> [product |-> cart[s[i]].product, qty |-> cart[s[i]].qty]]
<1>3. IsFiniteSet(rows) /\ rows \in SUBSET Nat
  <2>1. nextRow - 1 \in Int /\ rows \subseteq 1 .. nextRow - 1 /\ 1 .. nextRow - 1 \subseteq Nat
    BY DEF StockInv, TypeOK
  <2> QED
    BY <2>1, FS_Interval, FS_Subset
<1>4. /\ \A i, j \in DOMAIN s : s[i] = s[j] => i = j
      /\ \A id \in rows : \E i \in DOMAIN s : s[i] = id
      /\ \A i \in DOMAIN s : s[i] \in rows
      /\ DOMAIN s = 1 .. Cardinality(rows) /\ Cardinality(rows) \in Nat
  <2> HIDE DEF rows
  <2> QED
    BY <1>3, InIdOrderLists
<1>5. /\ DOMAIN items = DOMAIN s
      /\ \A i \in DOMAIN s : items[i].product = cart[s[i]].product /\ items[i].qty = cart[s[i]].qty
  OBVIOUS
<1>6. rows \subseteq RowsOf(UserOf[c])
  BY DEF RowsHaveOneFate
<1> HIDE DEF items
<1>7. \A i, j \in DOMAIN s : items[i].product = items[j].product => i = j
  <2>1. \A i \in DOMAIN s : s[i] \in DOMAIN cart /\ cart[s[i]].user = UserOf[c]
    BY <1>4, <1>6 DEF RowsOf
  <2>2. ASSUME NEW i \in DOMAIN s, NEW j \in DOMAIN s, items[i].product = items[j].product
        PROVE  s[i] = s[j]
    <3>1. cart[s[i]].product = cart[s[j]].product
      BY <1>5, <2>2
    <3> QED
      BY <2>1, <3>1 DEF LinesInv, UniqueLines
  <2> QED
    BY <1>4, <2>2
<1> HIDE DEF rows
<1>8. /\ tx'[c].rows = rows /\ tx'[c].items = items /\ tx'[c].next = 1
      /\ tx'[c].taken = NoItems /\ tx'[c].seen = tx[c].seen
  BY <1>0, <1>2 DEF Locals, items
<1>9. TakenSoFar(tx'[c])
  <2>1. \A i \in DOMAIN items : items[i].product \in Products /\ ~(i < 1)
    <3>1. \A i \in DOMAIN s : cart[s[i]] \in CartRow
      BY <1>0, <1>4 DEF rows
    <3>2. \A i \in DOMAIN s : i \in Nat /\ i >= 1
      BY <1>4
    <3> QED
      BY <1>5, <3>1, <3>2 DEF CartRow
  <2>2. \A p \in Products : NoItems[p] = 0
    BY DEF NoItems
  <2> QED
    BY <1>5, <1>7, <1>8, <2>1, <2>2 DEF TakenSoFar
<1>10. LinesAreRows(tx'[c])
  <2>1. \A i \in DOMAIN items : s[i] \in rows /\ Shows(items[i], s[i])
    BY <1>4, <1>5 DEF Shows
  <2>2. \A id \in rows : \E i \in DOMAIN items : Shows(items[i], id)
    BY <1>4, <1>5, <2>1
  <2>3. rows # {} /\ tx[c].seen \cap DOMAIN cart \subseteq rows
    BY <1>1 DEF rows
  <2> QED
    BY <1>8, <2>1, <2>2, <2>3 DEF LinesAreRows
<1> QED
  BY <1>2, <1>9, <1>10

\* The step of the checkout itself ...
LEMMA OwnLines ==
    ASSUME StockInv, RowsHaveOneFate, LinesInv, NEW c \in CheckoutReqs, StepOf(c),
           pc'[c] \in {"lock", "take", "clear", "commit"}
    PROVE  /\ UNCHANGED cart
           /\ TakenSoFar(tx'[c]) /\ LinesAreRows(tx'[c])
           /\ pc'[c] \in {"clear", "commit"} => \A i \in DOMAIN tx'[c].items : i < tx'[c].next
<1>0. /\ c \in Reqs /\ c \in Buyers /\ TypeInv /\ tx \in [Reqs -> Locals] /\ pc \in [Reqs -> PC]
      /\ pc[c] \in {"lock", "take", "clear", "commit"} => TakenSoFar(tx[c]) /\ LinesAreRows(tx[c])
      /\ c \notin OrderReqs /\ c \notin CartReqs /\ c \notin AdminReqs
  BY KindsOfBuyers DEF StockInv, TypeInv, TypeOK, LinesInv, BuysItsRows, Buyers
<1>1. ~Rollback(c)
  BY <1>0 DEF Rollback, Ends
<1>2. CASE LockCartRows(c)
  <2>1. pc'[c] = "lock"
    BY <1>0, <1>1, <1>2 DEF LockCartRows
  <2> QED
    BY <1>2, <2>1, LocksItsRows
<1>3. CASE LockProduct(c)
  <2>1. /\ UNCHANGED cart /\ pc[c] = "lock" /\ pc'[c] = "take"
        /\ tx' = [tx EXCEPT ![c].paid[Item(c).product] = draft[Item(c).product].price]
    BY <1>0, <1>1, <1>3 DEF LockProduct
  <2>2. /\ tx'[c].items = tx[c].items /\ tx'[c].next = tx[c].next
        /\ tx'[c].taken = tx[c].taken /\ tx'[c].seen = tx[c].seen /\ tx'[c].rows = tx[c].rows
    BY <1>0, <2>1 DEF Locals
  <2> QED
    BY <1>0, <2>1, <2>2, SameLines
<1>4. CASE TakeStock(c)
  <2>1. /\ UNCHANGED cart /\ pc[c] = "take"
        /\ tx' = [tx EXCEPT ![c].taken[Item(c).product] = @ + Item(c).qty, ![c].next = @ + 1]
        /\ pc' = [pc EXCEPT ![c] = IF tx[c].next = Len(tx[c].items) THEN AfterItems(c) ELSE "lock"]
    BY <1>1, <1>4 DEF TakeStock
  <2>2. /\ tx'[c].items = tx[c].items /\ tx'[c].next = tx[c].next + 1
        /\ tx'[c].taken = [tx[c].taken EXCEPT ![Item(c).product] = @ + Item(c).qty]
        /\ tx'[c].seen = tx[c].seen /\ tx'[c].rows = tx[c].rows
    BY <1>0, <2>1 DEF Locals
  <2>3. tx'[c] \in Locals
    <3>1. TypeInv'
      BY <1>0, <1>4, TakeStockType
    <3> QED
      BY <1>0, <3>1 DEF TypeInv, TypeOK
  <2>4. tx[c].next \in DOMAIN tx[c].items /\ tx[c] \in Locals
    BY <1>0, <2>1 DEF TypeInv, Cursor
  <2>5. TakenSoFar(tx'[c])
    <3>1. TakenSoFar(tx[c])
      BY <1>0, <2>1
    <3>2. tx'[c].taken =
            [tx[c].taken EXCEPT ![tx[c].items[tx[c].next].product] = @ + tx[c].items[tx[c].next].qty]
      BY <2>2, Zenon DEF Item
    <3> QED
      BY <2>2, <2>3, <2>4, <3>1, <3>2, TakesNext, Zenon
  <2>6. LinesAreRows(tx'[c])
    <3>1. LinesAreRows(tx[c])
      BY <1>0, <2>1
    <3> QED
      BY <2>2, <3>1, SameRows, Zenon
  <2>7. pc'[c] \in {"clear", "commit"} => \A i \in DOMAIN tx'[c].items : i < tx'[c].next
    <3>1. tx[c].items \in Seq(Line)
      BY <2>4 DEF Locals
    <3>2. DOMAIN tx[c].items = 1 .. Len(tx[c].items) /\ Len(tx[c].items) \in Nat
      BY <3>1
    <3>3. pc'[c] \in {"clear", "commit"} => tx[c].next = Len(tx[c].items)
      BY <1>0, <2>1
    <3> QED
      BY <2>2, <3>2, <3>3
  <2> QED
    BY <2>1, <2>5, <2>6, <2>7
<1>5. CASE ClearCart(c)
  <2>1. /\ UNCHANGED cart /\ pc[c] = "clear"
        /\ tx' = [tx EXCEPT ![c].gone = RowsOf(UserOf[c])]
    BY <1>5 DEF ClearCart
  <2>2. /\ tx'[c].items = tx[c].items /\ tx'[c].next = tx[c].next
        /\ tx'[c].taken = tx[c].taken /\ tx'[c].seen = tx[c].seen /\ tx'[c].rows = tx[c].rows
    BY <1>0, <2>1 DEF Locals
  <2>3. \A i \in DOMAIN tx[c].items : i < tx[c].next
    BY <2>1 DEF LinesInv, BuysItsRows
  <2> QED
    BY <1>0, <2>1, <2>2, <2>3, SameLines
<1>6. ~CheckoutCart(c) /\ ~CommitCheckout(c) /\ ~DeadlockVictim(c) /\ ~StatementFails(c)
  BY <1>0, <1>1 DEF CheckoutCart, CommitCheckout, Ends, DeadlockVictim, StatementFails
<1> QED
  BY <1>0, <1>2, <1>3, <1>4, <1>5, <1>6 DEF StepOf, OrderStep

\* ... and those of others.
LEMMA BuysItsRowsStep ==
    ASSUME StockInv, RowsHaveOneFate, LinesInv, NEW r \in Reqs, StepOf(r)
    PROVE  BuysItsRows'
<1> SUFFICES ASSUME NEW c \in CheckoutReqs, pc'[c] \in {"lock", "take", "clear", "commit"}
             PROVE  /\ TakenSoFar(tx'[c]) /\ LinesAreRows(tx[c])'
                    /\ pc'[c] \in {"clear", "commit"} => \A i \in DOMAIN tx'[c].items : i < tx'[c].next
  BY DEF BuysItsRows, TakenSoFar
<1>1. CASE c = r
  BY <1>1, OwnLines DEF LinesAreRows, Shows
<1>2. CASE c # r
  <2>1. c \in Reqs /\ TypeInv /\ tx'[c] = tx[c] /\ pc'[c] = pc[c]
    BY <1>2, OwnStep, KindsOfBuyers DEF StockInv, TypeInv
  <2>2. /\ TakenSoFar(tx[c]) /\ LinesAreRows(tx[c])
        /\ pc[c] \in {"clear", "commit"} => \A i \in DOMAIN tx[c].items : i < tx[c].next
    BY <2>1 DEF LinesInv, BuysItsRows
  <2>3. \A id \in tx[c].rows : cart'[id] = cart[id]
    BY <1>2, LockedRowsStand DEF Claimed
  <2>4. tx[c].seen \cap DOMAIN cart' \subseteq tx[c].rows
    <3>1. nextRow \notin tx[c].seen
      <4>1. tx[c].seen \subseteq 1 .. nextRow - 1 /\ nextRow \in Nat
        BY DEF RowsHaveOneFate, StockInv, TypeOK
      <4> QED
        BY <4>1
    <3> QED
      BY <2>2, <3>1, LockedRowsStand DEF LinesAreRows
  <2>5. LinesAreRows(tx[c])'
    BY <2>1, <2>2, <2>3, <2>4 DEF LinesAreRows, Shows
  <2> QED
    BY <2>1, <2>2, <2>5
<1> QED
  BY <1>1, <1>2

LEMMA InitLines == Init => LinesInv
<1> SUFFICES ASSUME Init PROVE LinesInv
  OBVIOUS
<1>1. PICK w \in Worlds : cart = w.cart
  BY DEF Init
<1>2. UniqueLines
  BY <1>1, InitialAssumption DEF UniqueLines
<1>3. \A r \in Reqs : tx[r].seen = {} /\ held[r] = {} /\ pc[r] \in {"new", "unmade"}
  BY DEF Init, Idle
<1> QED
  BY <1>2, <1>3, KindsOfBuyers DEF LinesInv, OneRowEach, BuysItsRows

LEMMA NextLines == StockInv /\ RowsHaveOneFate /\ LinesInv /\ [Next]_vars => LinesInv'
<1> SUFFICES ASSUME StockInv, RowsHaveOneFate, LinesInv, [Next]_vars PROVE LinesInv'
  OBVIOUS
<1>1. TypeInv
  BY DEF StockInv, TypeInv
<1>2. CASE Next
  BY <1>1, <1>2, NextIsStepOf, UniqueLinesStep, OneRowEachStep, BuysItsRowsStep DEF LinesInv
<1>3. CASE UNCHANGED vars
  BY <1>3 DEF vars, LinesInv, UniqueLines, OneRowEach, BuysItsRows, TakenSoFar, LinesAreRows, Shows
<1> QED
  BY <1>2, <1>3

\* The invariant of what carts and checkouts hold.
LEMMA Lines == Spec => []LinesInv
BY InitLines, NextLines, StockInvariant, OneFate, PTL DEF Spec

\* What the COMMIT of a checkout buys.
LEMMA CommitBuys ==
    ASSUME StockInv, RowsHaveOneFate, LinesInv, NEW c \in CheckoutReqs, CommitCheckout(c)
    PROVE  /\ orders'[c].rows = tx[c].rows /\ orders'[c].bought = tx[c].taken
           /\ orders'[c].unitPrice = tx[c].paid
           /\ tx[c].rows # {} /\ tx[c].rows \subseteq RowsOf(UserOf[c])
           /\ \A id \in tx[c].rows : tx[c].taken[cart[id].product] = cart[id].qty
           /\ \A p \in Products : tx[c].taken[p] > 0 => \E id \in tx[c].rows : cart[id].product = p
           /\ DOMAIN cart \ DOMAIN cart' \subseteq RowsOf(UserOf[c])
           /\ tx[c].rows \cap DOMAIN cart' = {}
           /\ tx[c].seen \cap DOMAIN cart \subseteq tx[c].rows
<1>1. /\ TakenSoFar(tx[c]) /\ LinesAreRows(tx[c])
      /\ \A i \in DOMAIN tx[c].items : i < tx[c].next
  BY DEF CommitCheckout, LinesInv, BuysItsRows
<1>2. /\ orders'[c].rows = tx[c].rows /\ orders'[c].bought = tx[c].taken
      /\ orders'[c].unitPrice = tx[c].paid
  BY DEF CommitCheckout, Extend, PlacedOrder
<1>3. /\ DOMAIN cart \ DOMAIN cart' \subseteq RowsOf(UserOf[c])
      /\ tx[c].rows \cap DOMAIN cart' = {}
  <2>1. DOMAIN cart' = DOMAIN cart \ tx[c].gone
    BY DEF CommitCheckout, Keep
  <2>2. tx[c].gone \subseteq RowsOf(UserOf[c]) /\ tx[c].rows \subseteq tx[c].gone
    BY DEF CommitCheckout, RowsHaveOneFate, Claimed
  <2> QED
    BY <2>1, <2>2
<1>4. tx[c].rows # {} /\ tx[c].rows \subseteq RowsOf(UserOf[c]) /\ tx[c].seen \cap DOMAIN cart \subseteq tx[c].rows
  BY <1>1 DEF LinesAreRows, RowsHaveOneFate, Claimed
<1>5. ASSUME NEW id \in tx[c].rows PROVE tx[c].taken[cart[id].product] = cart[id].qty
  <2>1. PICK i \in DOMAIN tx[c].items : Shows(tx[c].items[i], id)
    BY <1>1 DEF LinesAreRows
  <2> QED
    BY <1>1, <2>1 DEF TakenSoFar, Shows
<1>6. ASSUME NEW p \in Products, tx[c].taken[p] > 0
      PROVE  \E id \in tx[c].rows : cart[id].product = p
  BY <1>1, <1>6 DEF TakenSoFar, LinesAreRows, Shows
<1> QED
  BY <1>2, <1>3, <1>4, <1>5, <1>6

\* checkoutCart: the order is the customer's rows as they stand when they are deleted,
\* and what is deleted without being ordered came after the SELECT.
THEOREM CheckoutsBuyCarts == Spec => CheckoutBuysTheCart
<1> DEFINE Buys == \A c \in (DOMAIN orders' \ DOMAIN orders) \cap CheckoutReqs :
                      /\ \A id \in orders'[c].rows :
                            /\ id \in RowsOf(UserOf[c])
                            /\ orders'[c].bought[cart[id].product] = cart[id].qty
                      /\ \A id \in DOMAIN cart \ DOMAIN cart' :
                            id \in orders'[c].rows \/ id \notin tx[c].seen
<1>1. StockInv /\ RowsHaveOneFate /\ LinesInv /\ [Next]_vars => [Buys]_vars
  <2> SUFFICES ASSUME StockInv, RowsHaveOneFate, LinesInv, Next,
                      NEW c \in CheckoutReqs, c \in DOMAIN orders', c \notin DOMAIN orders
               PROVE  /\ \A id \in orders'[c].rows :
                            /\ id \in RowsOf(UserOf[c])
                            /\ orders'[c].bought[cart[id].product] = cart[id].qty
                      /\ \A id \in DOMAIN cart \ DOMAIN cart' :
                            id \in orders'[c].rows \/ id \notin tx[c].seen
    OBVIOUS
  <2>1. CommitCheckout(c)
    <3>1. PICK r \in Reqs : StepOf(r)
      BY NextIsStepOf
    <3>2. ~UNCHANGED orders
      BY Zenon
    <3>3. (r \in OrderReqs /\ CommitOrder(r)) \/ (r \in CheckoutReqs /\ CommitCheckout(r))
      <4>1. Rollback(r) \/ Fails(r) => UNCHANGED orders
        BY DEF Rollback, Fails
      <4> QED
        BY <3>1, <3>2, <4>1, Zenon
           DEF StepOf, CreateOrder, OrderStep, LockProduct, TakeStock, DeadlockVictim, CheckoutCart,
               LockCartRows, ClearCart, AddCartItem, UpdateCartItem, DeleteCartItem, AssertCartProductState,
               UpsertCartItem, WriteCartQuantity, AdminCreateProduct, AdminUpdateProduct,
               CommitProduct, AdminDeleteProduct, StatementFails
    <3>4. orders' = Extend(orders, r, PlacedOrder(r))
      BY <3>3 DEF CommitOrder, CommitCheckout
    <3>5. c = r
      BY <3>4 DEF Extend
    <3> QED
      BY <3>3, <3>5, KindsOfBuyers
  <2> QED
    BY <2>1, CommitBuys
<1> QED
  BY <1>1, StockInvariant, OneFate, Lines, PTL DEF Spec, CheckoutBuysTheCart

-----------------------------------------------------------------------------
(* The atomic shop *)

\* Two versions of a product row that differ by stock.
LEMMA OtherAmount ==
    ASSUME NEW a \in ProductRow, NEW b \in ProductRow,
           a.status = b.status, a.active = b.active, a.price = b.price
    PROVE  b = [a EXCEPT !.amount = b.amount]
BY DEF ProductRow

LEMMA SameAmount ==
    ASSUME NEW a \in ProductRow
    PROVE  a = [a EXCEPT !.amount = a.amount]
BY DEF ProductRow

\* A function that was extended is the old one where that was defined.
LEMMA OnlyTheOld ==
    ASSUME NEW T, NEW f, f \in [DOMAIN f -> T], NEW g, DOMAIN f \subseteq DOMAIN g,
           \A x \in DOMAIN f : g[x] = f[x]
    PROVE  Shop!Only(g, DOMAIN f) = f
BY DEF Shop!Only

\* The COMMIT of an order places it, at once.
LEMMA CommitIsPlace ==
    ASSUME StockInv, NEW r \in Buyers, pc[r] = "commit",
           catalog' = Published(r), orders' = Extend(orders, r, PlacedOrder(r))
    PROVE  Shop!Place(r)
<1>1. /\ tx[r] \in Locals /\ catalog \in [Products -> ProductRow]
      /\ draft \in [Products -> ProductRow] /\ r \in Reqs /\ r \notin DOMAIN orders
      /\ orders \in [DOMAIN orders -> Order]
  BY KindsOfBuyers DEF StockInv, TypeOK, Stages
<1>2. /\ DOMAIN orders' = DOMAIN orders \cup {r}
      /\ orders'[r] = PlacedOrder(r)
      /\ \A q \in DOMAIN orders : orders'[q] = orders[q]
  BY <1>1 DEF Extend
<1>3. orders'[r].bought = tx[r].taken /\ orders'[r].unitPrice = tx[r].paid
  BY <1>2 DEF PlacedOrder
<1>4. Shop!Only(orders', DOMAIN orders) = orders
  BY <1>1, <1>2, OnlyTheOld
<1>5. ASSUME NEW p \in Products
      PROVE  /\ tx[r].taken[p] > 0 =>
                   /\ catalog[p].status = "live" /\ catalog[p].active
                   /\ catalog[p].amount >= tx[r].taken[p]
                   /\ catalog[p].price = tx[r].paid[p]
             /\ catalog'[p] = [catalog[p] EXCEPT !.amount = @ - tx[r].taken[p]]
  <2>1. catalog'[p] = IF p \in held[r] THEN draft[p] ELSE catalog[p]
    BY DEF Published
  <2>2. /\ catalog[p] \in ProductRow /\ draft[p] \in ProductRow
        /\ tx[r].taken[p] \in Nat /\ catalog[p].amount \in Nat /\ draft[p].amount \in Nat
        /\ catalog[p].active \in BOOLEAN /\ draft[p].active \in BOOLEAN
    BY <1>1 DEF Locals, ProductRow
  <2>3. CASE p \in held[r]
    <3>1. /\ Sellable(catalog[p]) /\ tx[r].paid[p] = catalog[p].price
          /\ draft[p].price = catalog[p].price /\ draft[p].active
          /\ catalog[p].amount = draft[p].amount + tx[r].taken[p]
          /\ draft[p].status = "live"
      BY <1>1, <2>3 DEF StockInv, Accounts, Locks
    <3>2. draft[p].amount = catalog[p].amount - tx[r].taken[p] /\ catalog[p].amount >= tx[r].taken[p]
      BY <2>2, <3>1
    <3>3. catalog[p].active = draft[p].active
      <4>1. catalog[p].active
        BY <3>1 DEF Sellable
      <4> QED
        BY <2>2, <3>1, <4>1
    <3>4. catalog[p].status = draft[p].status
      BY <3>1 DEF Sellable
    <3>5. draft[p] = [catalog[p] EXCEPT !.amount = draft[p].amount]
      BY <2>2, <3>1, <3>3, <3>4, OtherAmount
    <3>6. draft[p] = [catalog[p] EXCEPT !.amount = @ - tx[r].taken[p]]
      BY <3>2, <3>5
    <3> QED
      BY <2>1, <2>3, <3>1, <3>2, <3>6 DEF Sellable
  <2>4. CASE p \notin held[r]
    <3>1. tx[r].taken[p] = 0
      BY <2>2, <2>4 DEF StockInv, Accounts
    <3>2. catalog[p].amount - tx[r].taken[p] = catalog[p].amount
      BY <2>2, <3>1
    <3>3. catalog[p] = [catalog[p] EXCEPT !.amount = @ - tx[r].taken[p]]
      BY <2>2, <3>2, SameAmount
    <3> QED
      BY <2>1, <2>4, <3>1, <3>3
  <2> QED
    BY <2>3, <2>4
<1>6. catalog' = [p \in Products |-> [catalog[p] EXCEPT !.amount = @ - orders'[r].bought[p]]]
  <2>1. catalog' = [p \in Products |-> catalog'[p]]
    BY DEF Published
  <2>2. \A p \in Products : catalog'[p] = [catalog[p] EXCEPT !.amount = @ - orders'[r].bought[p]]
    BY <1>3, <1>5
  <2> QED
    BY <2>1, <2>2
<1> QED
  BY <1>1, <1>2, <1>3, <1>4, <1>5, <1>6 DEF Shop!Place

LEMMA OrderIsDirect ==
    ASSUME StockInv, RowsHaveOneFate, NEW r \in OrderReqs, CommitOrder(r)
    PROVE  Shop!Next
<1>1. Shop!Place(r) /\ UNCHANGED cart
  BY CommitIsPlace, KindsOfBuyers DEF CommitOrder, Buyers
<1>2. orders'[r].rows = {} /\ r \in DOMAIN orders'
  BY DEF CommitOrder, Extend, PlacedOrder, RowsHaveOneFate
<1> QED
  BY <1>1, <1>2 DEF Shop!Next, Shop!DirectOrder

LEMMA CheckoutIsCheckout ==
    ASSUME StockInv, RowsHaveOneFate, LinesInv, NEW c \in CheckoutReqs, CommitCheckout(c)
    PROVE  Shop!Next
<1>1. Shop!Place(c)
  BY CommitIsPlace, KindsOfBuyers DEF CommitCheckout, Buyers
<1>2. UserOf[c] \in Users /\ c \in DOMAIN orders'
  BY ReqsAssumption DEF Buyers, CommitCheckout, Extend
<1>3. /\ cart' = Shop!Only(cart, DOMAIN cart')
      /\ orders'[c].rows \cap DOMAIN cart' = {}
      /\ \A id \in DOMAIN cart \ DOMAIN cart' : cart[id].user = UserOf[c]
  <2>1. cart' = Shop!Only(cart, DOMAIN cart')
    <3>1. cart' = [x \in DOMAIN cart \cap (DOMAIN cart \ tx[c].gone) |-> cart[x]]
      BY DEF CommitCheckout, Keep
    <3>2. DOMAIN cart' = DOMAIN cart \cap (DOMAIN cart \ tx[c].gone)
      BY <3>1
    <3>3. DOMAIN cart \cap DOMAIN cart' = DOMAIN cart \cap (DOMAIN cart \ tx[c].gone)
      BY <3>2
    <3> QED
      BY <3>1, <3>3 DEF Shop!Only
  <2> QED
    BY <2>1, CommitBuys DEF RowsOf
<1>4. /\ orders'[c].rows # {}
      /\ orders'[c].rows \subseteq {id \in DOMAIN cart : cart[id].user = UserOf[c]}
      /\ \A id \in orders'[c].rows : orders'[c].bought[cart[id].product] = cart[id].qty
      /\ \A p \in Products :
            orders'[c].bought[p] > 0 => \E id \in orders'[c].rows : cart[id].product = p
  BY CommitBuys DEF RowsOf
<1>5. Shop!Checkout(c, UserOf[c])
  BY <1>1, <1>3, <1>4 DEF Shop!Checkout
<1> QED
  BY <1>2, <1>5 DEF Shop!Next

\* A cart call that writes is one change of one line.
LEMMA WriteIsOneLine ==
    ASSUME TypeInv, NEW k, WritesLine(k), UNCHANGED <<catalog, orders>>
    PROVE  [Shop!Next]_Shop!vars
<1>0. cart \in [DOMAIN cart -> CartRow] /\ nextRow \notin DOMAIN cart
  <2>1. DOMAIN cart \subseteq 1 .. nextRow - 1 /\ nextRow \in Nat
    BY DEF TypeInv, TypeOK
  <2> QED
    BY <2>1 DEF TypeInv, TypeOK
<1>1. CASE UNCHANGED cart
  BY <1>1 DEF Shop!vars
<1>2. ASSUME NEW u \in Users, NEW p \in Products, NEW n \in Nat \ {0}, AddsLine(u, p, n)
      PROVE  Shop!Next
  <2> DEFINE row == [user |-> u, product |-> p, qty |-> n]
  <2>1. row.user = u /\ row.product = p
    OBVIOUS
  <2>2. cart' = Extend(cart, nextRow, row)
    BY <1>2 DEF AddsLine
  <2> HIDE DEF row
  <2>3. /\ DOMAIN cart' = DOMAIN cart \cup {nextRow}
        /\ cart'[nextRow] = row /\ \A id \in DOMAIN cart : cart'[id] = cart[id]
    BY <1>0, <2>2 DEF Extend
  <2>4. Shop!Only(cart', DOMAIN cart) = cart
    BY <1>0, <2>3, OnlyTheOld
  <2>5. Shop!AddLine(nextRow, u)
    BY <1>0, <1>2, <2>1, <2>3, <2>4 DEF Shop!AddLine, AddsLine, RowsOf
  <2> QED
    BY <2>3, <2>5 DEF Shop!Next
<1>3. ASSUME NEW id \in DOMAIN cart, NEW n \in Nat \ {0}, SetsLine(k, id, n)
      PROVE  Shop!Next
  <2>1. cart' = [cart EXCEPT ![id].qty = n] /\ cart[id] \in CartRow
    BY <1>0, <1>3 DEF SetsLine
  <2>2. cart'[id].qty = n /\ id \in DOMAIN cart'
    BY <1>0, <2>1 DEF CartRow
  <2>3. n > 0 /\ cart' = [cart EXCEPT ![id].qty = cart'[id].qty]
    <3>1. n > 0
      OBVIOUS
    <3>2. cart' = [cart EXCEPT ![id].qty = cart'[id].qty]
      <4>1. n = cart'[id].qty
        BY <2>2
      <4> QED
        BY <2>1, <4>1, Zenon
    <3> QED
      BY <3>1, <3>2
  <2>4. Shop!ChangeLine(id)
    BY <2>2, <2>3 DEF Shop!ChangeLine
  <2> QED
    BY <2>4 DEF Shop!Next
<1>4. ASSUME NEW id \in DOMAIN cart, DropsLine(k, id) PROVE Shop!Next
  <2>1. Shop!RemoveLine(id)
    BY <1>4 DEF DropsLine, Keep, Shop!RemoveLine, Shop!Only
  <2> QED
    BY <2>1 DEF Shop!Next
<1> QED
  BY <1>1, <1>2, <1>3, <1>4 DEF WritesLine

\* An administrator's COMMIT is one change of one product.
LEMMA ChangeIsAdminister ==
    ASSUME StockInv, NEW p \in Products, catalog[p].status # "deleted",
           catalog'[p] \in ProductRow, catalog'[p].status # "none",
           catalog' = [catalog EXCEPT ![p] = catalog'[p]], UNCHANGED <<cart, orders>>
    PROVE  Shop!Next
<1>1. Shop!ProductRow = ProductRow
  BY DEF Shop!ProductRow, ProductRow
<1> QED
  BY <1>1 DEF Shop!Next, Shop!Administer

LEMMA AdminIsAdminister ==
    ASSUME StockInv, LinesInv, NEW a \in AdminReqs,
           \/ AdminCreateProduct(a) \/ AdminUpdateProduct(a)
           \/ CommitProduct(a) \/ AdminDeleteProduct(a)
    PROVE  [Shop!Next]_Shop!vars
<1>0. /\ catalog \in [Products -> ProductRow] /\ draft \in [Products -> ProductRow]
      /\ held \in [Reqs -> SUBSET Products] /\ a \in Reqs
  BY KindsOfBuyers DEF StockInv, TypeOK
<1>1. CASE UNCHANGED <<catalog, cart, orders>>
  BY <1>1 DEF Shop!vars
<1>2. Rollback(a) => UNCHANGED <<catalog, cart, orders>>
  BY DEF Rollback
<1>3. CASE AdminCreateProduct(a)
  <2>1. PICK p \in Products, n \in Amounts, price \in Prices :
           /\ catalog[p].status = "none"
           /\ catalog' = [catalog EXCEPT ![p] =
                [status |-> "live", active |-> TRUE, amount |-> n, price |-> price]]
    BY <1>3 DEF AdminCreateProduct
  <2> DEFINE row == [status |-> "live", active |-> TRUE, amount |-> n, price |-> price]
  <2>2. row \in ProductRow /\ row.status = "live"
    BY InputAssumption DEF ProductRow
  <2> HIDE DEF row
  <2>3. catalog' = [catalog EXCEPT ![p] = row]
    BY <2>1 DEF row
  <2>4. catalog'[p] = row
    BY <1>0, <2>3
  <2>5. UNCHANGED <<cart, orders>>
    BY <1>3, ZenonT(60) DEF AdminCreateProduct
  <2> QED
    BY <2>1, <2>2, <2>3, <2>4, <2>5, ChangeIsAdminister
<1>4. CASE AdminUpdateProduct(a)
  BY <1>1, <1>2, <1>4 DEF AdminUpdateProduct
<1>5. CASE CommitProduct(a)
  <2>1. catalog' = Published(a) /\ UNCHANGED <<cart, orders>>
    BY <1>5 DEF CommitProduct
  <2>2. CASE held[a] = {}
    <3>1. catalog' = [p \in Products |-> catalog[p]]
      BY <2>1, <2>2 DEF Published
    <3> QED
      BY <1>0, <1>1, <2>1, <3>1
  <2>3. CASE held[a] # {}
    <3>1. PICK p \in held[a] : TRUE
      BY <2>3
    <3>2. held[a] = {p} /\ p \in Products
      BY <1>0, <3>1 DEF LinesInv, OneRowEach
    <3>3. catalog[p].status = "live" /\ draft[p].status = "live"
      BY <1>0, <3>2 DEF StockInv, Locks
    <3>4. catalog' = [s \in Products |-> IF s = p THEN draft[s] ELSE catalog[s]]
      BY <2>1, <3>2 DEF Published
    <3>5. catalog'[p] = draft[p] /\ catalog' = [catalog EXCEPT ![p] = draft[p]]
      BY <1>0, <3>2, <3>4
    <3> QED
      BY <1>0, <2>1, <3>2, <3>3, <3>5, ChangeIsAdminister
  <2> QED
    BY <2>2, <2>3
<1>6. CASE AdminDeleteProduct(a)
  <2>1. PICK p \in Products :
           /\ Free(a, p)
           /\ IF draft[p].status = "live"
              THEN /\ catalog' = [catalog EXCEPT ![p].status = "deleted"]
                   /\ UNCHANGED <<cart, orders>>
              ELSE Rollback(a)
    BY <1>6 DEF AdminDeleteProduct
  <2>2. CASE draft[p].status # "live"
    BY <1>1, <1>2, <2>1, <2>2
  <2>3. CASE draft[p].status = "live"
    <3>1. draft[p] = catalog[p]
      BY <1>6, <2>1, FreeRow DEF AdminDeleteProduct
    <3>2. [catalog[p] EXCEPT !.status = "deleted"] \in ProductRow
          /\ [catalog[p] EXCEPT !.status = "deleted"].status = "deleted"
      BY <1>0 DEF ProductRow
    <3>3. catalog'[p] = [catalog[p] EXCEPT !.status = "deleted"]
          /\ catalog' = [catalog EXCEPT ![p] = catalog'[p]]
      BY <1>0, <2>1, <2>3
    <3> QED
      BY <2>1, <2>3, <3>1, <3>2, <3>3, ChangeIsAdminister
  <2> QED
    BY <2>2, <2>3
<1> QED
  BY <1>3, <1>4, <1>5, <1>6

\* Until its COMMIT an order changes nothing that the shop shows.
LEMMA NothingToSee ==
    ASSUME NEW r,
           \/ CreateOrder(r) \/ OrderStep(r) \/ CheckoutCart(r) \/ LockCartRows(r)
           \/ ClearCart(r) \/ StatementFails(r)
    PROVE  UNCHANGED Shop!vars
<1>1. Rollback(r) => UNCHANGED <<catalog, cart, orders>>
  BY DEF Rollback
<1> QED
  BY <1>1 DEF CreateOrder, OrderStep, LockProduct, TakeStock, DeadlockVictim, CheckoutCart,
              LockCartRows, ClearCart, StatementFails, Shop!vars

LEMMA InitIsShopInit == Init => Shop!Init
<1> SUFFICES ASSUME Init PROVE Shop!Init
  OBVIOUS
<1>1. [r \in {} |-> Idle] = [r \in {} |-> {}]
  OBVIOUS
<1> QED
  BY <1>1 DEF Init, Shop!Init

LEMMA NextIsShopNext ==
    StockInv /\ RowsHaveOneFate /\ LinesInv /\ [Next]_vars => [Shop!Next]_Shop!vars
<1> SUFFICES ASSUME StockInv, RowsHaveOneFate, LinesInv, [Next]_vars
             PROVE  [Shop!Next]_Shop!vars
  OBVIOUS
<1>1. TypeInv
  BY DEF StockInv, TypeInv
<1>2. CASE Next
  <2>1. PICK r \in Reqs : StepOf(r)
    BY <1>2, NextIsStepOf
  <2>2. CASE r \in OrderReqs /\ CommitOrder(r)
    BY <2>2, OrderIsDirect
  <2>3. CASE r \in CheckoutReqs /\ CommitCheckout(r)
    BY <2>3, CheckoutIsCheckout
  <2>4. CASE r \in CartReqs /\ (\/ AddCartItem(r) \/ UpdateCartItem(r) \/ DeleteCartItem(r)
                                \/ AssertCartProductState(r) \/ UpsertCartItem(r)
                                \/ WriteCartQuantity(r))
    BY <1>1, <2>4, CartCallWrites, WriteIsOneLine
  <2>5. CASE r \in AdminReqs /\ (\/ AdminCreateProduct(r) \/ AdminUpdateProduct(r)
                                 \/ CommitProduct(r) \/ AdminDeleteProduct(r))
    BY <2>5, AdminIsAdminister
  <2>6. CASE \/ CreateOrder(r) \/ OrderStep(r) \/ CheckoutCart(r) \/ LockCartRows(r)
             \/ ClearCart(r) \/ StatementFails(r)
    BY <2>6, NothingToSee
  <2> QED
    BY <2>1, <2>2, <2>3, <2>4, <2>5, <2>6 DEF StepOf
<1>3. CASE UNCHANGED vars
  BY <1>3 DEF vars, Shop!vars
<1> QED
  BY <1>2, <1>3

\* Statement by statement, with row locks, waits, deadlocks and failures, the calls
\* look like a shop where every order, every change of a cart and every change of
\* the catalogue is one step.
THEOREM ImplementsTheShop == Spec => ImplementsAtomicOrdering
BY InitIsShopInit, NextIsShopNext, StockInvariant, OneFate, Lines, PTL
   DEF Spec, ImplementsAtomicOrdering, Shop!Spec
=============================================================================
