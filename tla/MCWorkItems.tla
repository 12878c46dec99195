----------------------------- MODULE MCWorkItems -----------------------------
(* Constants of the WorkItems runs. *)
EXTENDS WorkItems

CONSTANTS o, f, s, alice, bob, admin, p1, p2, f1, f2,
          n1, e1, e2, x1, a1, a2, g1, g2, g4, g5

OfAlice == [i \in Items |-> alice]
ContainsP1 == [i \in Orders |-> {p1}]

\* Every request is alice's, except a stranger's rating g4 and the administrators';
\* g1 and g2 rate the same, g5 a product the order does not contain.
Callers == [r \in Reqs |-> IF r \in StatusReqs THEN admin
                           ELSE IF r = g4 THEN bob ELSE alice]
RatedProducts == [r \in RatingReqs |-> IF r = g5 THEN p2 ELSE p1]

World(item, past, calls) == [item |-> item, past |-> past, calls |-> calls]

\* A fault still to be created, with concurrent edits; a fault on its way, with two
\* administrators and a rating; an order with its ratings; a service still to be created.
AllWorlds ==
    {World(f, <<>>, {n1, e1, e2, x1, a1}),
     World(f, <<"received", "assigned", "on_the_way">>, {e1, x1, a1, a2, g1}),
     World(o, <<"received">>, {e1, x1, a1, g1, g2, g4, g5}),
     World(s, <<>>, {n1, e1, x1, a1, g1, g2})}

\* An item no administrator has looked at yet.
NewOrder == {World(o, <<"received">>, Reqs)}
=============================================================================
