----------------------------- MODULE MCListing ------------------------------
(* Constants of the Listing run. *)
EXTENDS Listing

Kept(made, rank, status, owner) ==
    [status |-> status, owner |-> owner, made |-> made, rank |-> rank, version |-> 0]
Absent == Kept(0, 0, "absent", 1)

\* Four rows of mine and one to come; rows of one moment and of others; three owners' rows.
SomeRows == {
    <<Kept(1, 0, "shown", 1), Kept(1, 1, "shown", 1), Kept(2, 1, "shown", 1),
      Kept(3, 0, "shown", 1), Absent>>,
    <<Kept(0, 1, "shown", 1), Kept(2, 0, "shown", 2), Kept(1, 0, "hidden", 1),
      Kept(3, 1, "shown", 1), Absent>>}
AllTables == {"orders", "products", "cart", "faults", "services", "steps", "talk", "reviews",
              "gallery", "users", "listings", "conversations", "messages"}
=============================================================================
