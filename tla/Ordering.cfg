\* Direct orders against administrators: stock and prices.
\* Two checkouts of one cart against calls that change its lines.
SPECIFICATION Spec
CONSTANTS
    u1 = u1  u2 = u2  p1 = p1  p2 = p2
    o1 = o1  o2 = o2  o3 = o3  c1 = c1  c2 = c2
    k1 = k1  k2 = k2  k3 = k3  a1 = a1  a2 = a2
    Users = {u1, u2}
    Products = {p1, p2}
    OrderReqs = {o1, o2}
    CheckoutReqs = {c1, c2}
    CartReqs = {k1, k2, k3}
    AdminReqs = {a1, a2}
    UserOf <- AllOfU1
    Quantities = {1, 2}
    Amounts = {0, 2}
    Prices = {1, 2}
    MaxItems = 2
    Worlds <- OrdersAndCarts
INVARIANTS
    StockCheckHolds OpenOrderAccounts NoRowOrderedTwice
PROPERTIES OrdersTakeTheirStock CheckoutBuysTheCart ImplementsAtomicOrdering
CHECK_DEADLOCK FALSE
