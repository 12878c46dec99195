--------------------------- MODULE AtomicOrdering ---------------------------
(***************************************************************************)
(* What the shop promises its customers and its administrators: orders,    *)
(* cart changes and catalogue changes happen one at a time, each in one    *)
(* step.  An order takes sellable stock at the price of the moment; a      *)
(* checkout orders lines of one cart as they are and takes them out of it. *)
(* Ordering implements it with transactions of many statements.            *)
(***************************************************************************)
EXTENDS Integers

CONSTANTS Users, Products, Prices, Worlds

VARIABLES catalog, cart, orders

vars == <<catalog, cart, orders>>

ProductRow == [status : {"none", "live", "deleted"}, active : BOOLEAN,
               amount : Nat, price : Prices]

Init ==
    /\ \E w \in Worlds : catalog = w.catalog /\ cart = w.cart
    /\ orders = [r \in {} |-> {}]

Only(f, S) == [x \in DOMAIN f \cap S |-> f[x]]

\* Order r joins the others; its stock is there, on sale, and leaves the catalogue.
Place(r) ==
    /\ DOMAIN orders' = DOMAIN orders \cup {r}
    /\ r \notin DOMAIN orders
    /\ Only(orders', DOMAIN orders) = orders
    /\ \A p \in Products :
          orders'[r].bought[p] > 0 =>
              /\ catalog[p].status = "live" /\ catalog[p].active
              /\ catalog[p].amount >= orders'[r].bought[p]
              /\ catalog[p].price = orders'[r].unitPrice[p]
    /\ catalog' = [p \in Products |->
                     [catalog[p] EXCEPT !.amount = @ - orders'[r].bought[p]]]

DirectOrder(r) ==
    /\ Place(r)
    /\ orders'[r].rows = {}
    /\ UNCHANGED cart

\* The ordered rows are lines of one customer's cart, in the quantities shown, and
\* leave it.  A line put into that cart while the checkout runs goes with them or
\* stays; no line of another customer goes.
Checkout(r, u) ==
    LET rows == orders'[r].rows
    IN  /\ Place(r)
        /\ rows # {} /\ rows \subseteq {id \in DOMAIN cart : cart[id].user = u}
        /\ \A id \in rows : orders'[r].bought[cart[id].product] = cart[id].qty
        /\ \A p \in Products :
              orders'[r].bought[p] > 0 => \E id \in rows : cart[id].product = p
        /\ cart' = Only(cart, DOMAIN cart')
        /\ rows \cap DOMAIN cart' = {}
        /\ \A id \in DOMAIN cart \ DOMAIN cart' : cart[id].user = u

\* One line is added to a cart, with an id no line of the cart has.
AddLine(id, u) ==
    /\ id \notin DOMAIN cart
    /\ DOMAIN cart' = DOMAIN cart \cup {id}
    /\ Only(cart', DOMAIN cart) = cart
    /\ cart'[id].user = u
    /\ \A other \in DOMAIN cart :
          cart[other].user = u => cart[other].product # cart'[id].product
    /\ UNCHANGED <<catalog, orders>>

\* One line gets another quantity or goes.
ChangeLine(id) ==
    /\ id \in DOMAIN cart' /\ cart'[id].qty > 0
    /\ cart' = [cart EXCEPT ![id].qty = cart'[id].qty]
    /\ UNCHANGED <<catalog, orders>>

RemoveLine(id) ==
    /\ cart' = Only(cart, DOMAIN cart \ {id})
    /\ UNCHANGED <<catalog, orders>>

\* An administrator creates, changes or deletes one product; a deleted product
\* stays deleted.
Administer(p) ==
    /\ catalog[p].status # "deleted"
    /\ catalog'[p] \in ProductRow /\ catalog'[p].status # "none"
    /\ catalog' = [catalog EXCEPT ![p] = catalog'[p]]
    /\ UNCHANGED <<cart, orders>>

Next ==
    \/ \E r \in DOMAIN orders' : DirectOrder(r) \/ \E u \in Users : Checkout(r, u)
    \/ \E id \in DOMAIN cart', u \in Users : AddLine(id, u)
    \/ \E id \in DOMAIN cart : ChangeLine(id) \/ RemoveLine(id)
    \/ \E p \in Products : Administer(p)

Spec == Init /\ [][Next]_vars
=============================================================================
