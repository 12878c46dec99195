------------------------------ MODULE MCTools -------------------------------
(* Constants of the Tools run. *)
EXTENDS Tools

CONSTANTS u1, u2, c1, p1, p2, b1, f1, g1, t1, m1, m2, r1, w2

T(kind, key, by, want) == [kind |-> kind, key |-> key, by |-> by, want |-> want]

\* Two users and one definition of each kind, two where lists or order matter; a
\* product that is sold, a report under review, and a user who is banned at the end.
SomeTasks ==
    <<T("user", u1, u1, "active"), T("user", u2, u2, "active"), T("category", c1, u1, "new"),
      T("product", p1, u1, "sold"), T("product", p2, u1, "new"), T("block", b1, u2, "new"),
      T("favorite", f1, u2, "new"), T("rating", g1, u1, "new"), T("talk", t1, u1, "new"),
      T("message", m1, u1, "new"), T("message", m2, u2, "new"), T("report", r1, u1, "reviewing"),
      T("moderate", w2, u2, "banned")>>

\* A file in a transaction that does not repeat (0001), one without that does (0022), and
\* one that does not: 0023 adds its columns without IF NOT EXISTS.
SomeSchemas ==
    {<<[atomic |-> TRUE, repeats |-> <<FALSE>>], [atomic |-> FALSE, repeats |-> <<TRUE, TRUE>>],
       [atomic |-> FALSE, repeats |-> <<FALSE, TRUE>>]>>}
=============================================================================
