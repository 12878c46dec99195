\* A cancellation and an administrator on one order.
SPECIFICATION Spec
CONSTANTS
    None = None  o = o  f = f  s = s  alice = alice  bob = bob  admin = admin
    p1 = p1  p2 = p2  f1 = f1  f2 = f2  n1 = n1  e1 = e1  e2 = e2
    x1 = x1  a1 = a1  a2 = a2  g1 = g1  g2 = g2  g4 = g4  g5 = g5
    Orders = {o}
    Faults = {}
    Services = {s}
    CreateReqs = {}
    EditReqs = {}
    CancelReqs = {x1}
    StatusReqs = {a1}
    RatingReqs = {}
    Caller <- Callers
    Owner <- OfAlice
    OrderItems <- ContainsP1
    Rated <- RatedProducts
    Files = {f1, f2}
    GoodFiles = {f1}
    Worlds <- NewOrder
PROPERTY CancelledOnlyBeforeProcessing
CHECK_DEADLOCK FALSE
