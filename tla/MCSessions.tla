----------------------------- MODULE MCSessions -----------------------------
(* Constants of the Sessions runs. *)
EXTENDS Sessions

CONSTANTS boss, ann, zoe, tb, ta, g1, l1, w1, f1, f2, x1, v1, m1, d1, s1, k1, k2, z1

Person(admin) == [state |-> "live", active |-> TRUE, admin |-> admin, version |-> 0]

\* An administrator, a customer, and somebody not yet registered.
Accounts == [u \in Users |-> IF u = zoe THEN [Person(FALSE) EXCEPT !.state = "none"]
                             ELSE Person(u = boss)]
HeldTokens == [t \in OldTokens |-> [user |-> IF t = tb THEN boss ELSE ann,
                                    admin |-> t = tb, version |-> 0]]

\* Ann signs in and refreshes while her role is changed, and acts on it; sessions
\* are registered, reset, exchanged, logged out, paused, deleted, seeded.
BothRounds == {{l1, f1, m1, d1, k1, k2, v1}, {g1, w1, f1, f2, x1, v1, s1, z1}}
AllMade == {Reqs}

\* Ann is promoted, demoted, paused, deleted or seeded; she may sign in meanwhile
\* and, an administrator, delete the other one or try to demote herself.
Named == [r \in Reqs |-> IF r \in {g1} THEN zoe ELSE IF r \in {k2} THEN boss ELSE ann]
Sessions == [r \in Reqs |-> CASE r \in {m1, s1, k1} -> {tb}
                              [] r \in {d1} -> {tb, l1} \cap Tokens
                              [] r \in {k2} -> {l1} \cap Tokens
                              [] OTHER -> {ta, l1, w1, f1} \cap Tokens]
=============================================================================
