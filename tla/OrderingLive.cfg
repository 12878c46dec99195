\* Opposite lock orders and waiting checkouts: every call is answered.
SPECIFICATION FairSpec
CONSTANTS
    u1 = u1  u2 = u2  p1 = p1  p2 = p2
    o1 = o1  o2 = o2  o3 = o3  c1 = c1  c2 = c2
    k1 = k1  k2 = k2  k3 = k3  a1 = a1  a2 = a2
    Users = {u1, u2}
    Products = {p1, p2}
    OrderReqs = {o1}
    CheckoutReqs = {c1, c2}
    CartReqs = {}
    AdminReqs = {a1}
    UserOf <- AllOfU1
    Quantities = {1}
    Amounts = {2}
    Prices = {1}
    MaxItems = 2
    Worlds <- Locking
PROPERTIES EveryRequestAnswered
CHECK_DEADLOCK FALSE
