------------------------------- MODULE MCChat -------------------------------
(* Constants of the Chat run. *)
EXTENDS Chat

CONSTANTS ann, bob, eve, sa, sb, se, p1, p2, o1, o2, j1, j2, m1, m2, m3, m4, k1, k2, k3, k4

TokenOf == [s \in Sockets |-> CASE s = sa -> ann [] s = sb -> bob [] s = se -> eve]

\* Everything is about the conversation of ann and bob; ann's messages are m1 and m3,
\* bob's m2.  Eve tries to join it, to send m4 and to read.
AnnAndBob == [r \in OpenReqs \cup JoinReqs \cup SendReqs |-> {ann, bob}]
OneEach == [r \in OpenReqs |-> IF r = o1 THEN p1 ELSE p2]
SocketOf == [r \in SocketReqs |-> IF r \in {m1, m3, k4} THEN sa
                                  ELSE IF r \in {j2, m4, k2} THEN se ELSE sb]
MarksM1 == [r \in ReadReqs |-> m1]

\* Two openings and a message; three messages; reading.
ChatRounds == {{o1, o2, m1}, {m1, m2, m3}, {m1, m4, j1, k1, k2}, {j2, m1, k1, k3, k4}}
=============================================================================
