------------------------------- MODULE MCOtp --------------------------------
(* Constants of the Otp runs. *)
EXTENDS Otp

CONSTANTS ann, bob, dan, p1, p2, p3, g1, g2, g3, n1, v1, v2, v3, w1, w2, r1, r2, r3, r4, r5

\* Ann registers twice, with either phone, and bob once, with one of them.  Dan has an
\* account and forgot his password; so did ann, once she has one.
EmailOf == [r \in Reqs |-> IF r \in {g3, v3} THEN bob
                           ELSE IF r \in {w1, r1, r2, r3, r4} THEN dan ELSE ann]
PhoneOf == [r \in RegisterReqs \cup OldAccounts |->
              IF r = dan THEN p3 ELSE IF r \in {g2, g3} THEN p2 ELSE p1]

\* Two people after one phone; one person in a hurry, with a
\* second registration or another code; a new account's password
\* reset; wrong codes.
AllRounds == {{g2, g3, v1, v3}, {g1, g2, v1, v2}, {g1, n1, v1, v2}, {g1, v1, v2, w2, r5},
              {w1, r1, r2, r3, r4}}
Lockout == {{w1, r1, r2, r3}}
=============================================================================
