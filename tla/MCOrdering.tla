----------------------------- MODULE MCOrdering -----------------------------
(* Constants of the Ordering runs. *)
EXTENDS Ordering, TLC

CONSTANTS u1, u2, p1, p2, o1, o2, o3, c1, c2, k1, k2, k3, a1, a2

Live(n) == [status |-> "live", active |-> TRUE, amount |-> n, price |-> 1]
Stocked == [p \in Products |-> IF p = p1 THEN Live(2) ELSE Live(1)]
OneToCreate == [p \in Products |->
                  IF p = p1 THEN Live(2) ELSE [Live(0) EXCEPT !.status = "none"]]

TwoLines == <<[user |-> u1, product |-> p1, qty |-> 1],
              [user |-> u1, product |-> p2, qty |-> 1]>>
TwoCustomers == <<[user |-> u1, product |-> p1, qty |-> 1],
                  [user |-> u2, product |-> p2, qty |-> 1]>>

\* Direct orders against administrators.
OrdersWorld == [catalog |-> OneToCreate, cart |-> <<>>, calls |-> {o1, o2, a1, a2}]
\* Two checkouts of one cart against calls that change its lines.
CartWorld == [catalog |-> Stocked, cart |-> TwoCustomers, calls |-> {c1, c2, k1, k2, k3}]
\* Opposite lock orders and waiting checkouts.
LocksWorld == [catalog |-> Stocked, cart |-> TwoLines, calls |-> {o1, c1, c2, a1}]

OrdersAndCarts == {OrdersWorld, CartWorld}
Locking == {LocksWorld}

AllOfU1 == [r \in Buyers \cup CartReqs |-> u1]
=============================================================================
