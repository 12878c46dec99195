--------------------------- MODULE SessionsProofs ---------------------------
(***************************************************************************)
(* Theorems about Sessions, for all sets of users, tokens and calls.       *)
(*                                                                         *)
(* The argument rests on one relation, AccountMoves: an account that       *)
(* exists keeps its version or raises it, and with the same version it     *)
(* neither is deleted nor loses the administrator's role.  Every step      *)
(* satisfies it, and it carries over to later states whatever a call read  *)
(* about an account some statements ago.                                   *)
(***************************************************************************)
EXTENDS Sessions, TLAPS

\* One step of call r, by statement.
Step(r) ==
    \/ r \in RegisterReqs /\ VerifyRegistrationOtp(r)
    \/ r \in SignInReqs /\ SelectAccount(r)
    \/ r \in Issuers /\ SaveRefreshToken(r)
    \/ r \in RefreshReqs /\ ConsumeRefreshTokenJti(r)
    \/ r \in RefreshReqs /\ SelectSession(r)
    \/ r \in BearerReqs /\ Validate(r)
    \/ r \in AdminReqs /\ CanActivate(r)
    \/ r \in LogoutReqs /\ Logout(r)
    \/ r \in AdminReqs /\ \E admin \in BOOLEAN : SelectBefore(r, admin)
    \/ /\ r \in AdminReqs /\ r \in PromoteReqs \cup DemoteReqs
       /\ \E admin \in BOOLEAN : SetRole(r, admin)
    \/ r \in AdminReqs /\ (LogAdminAction(r) \/ SetStatus(r))
    \/ r \in AdminReqs /\ SetDeleted(r, Target[r], "audit")
    \/ r \in LeaveReqs /\ \E t \in shown[r] : SetDeleted(r, token[t].user, "done")
    \/ r \in SeedReqs /\ SeedAdminUser(r)
    \/ pc[r] # "new" /\ pc[r] # "done" /\ Refused(r)

\* What a step may do to an account.
MovesTo(a, b) ==
    a.state # "none" =>
        /\ b.state # "none"
        /\ b.version >= a.version
        /\ b.version = a.version => b.state = a.state /\ (a.admin => b.admin)
AccountMoves == \A u \in Users : MovesTo(account[u], account'[u])

\* The disjuncts of Next, regrouped by statement.
LEMMA NextIsAStep ==
    ASSUME Next
    PROVE  \E r \in Reqs : Step(r)
<1>1. ASSUME NEW r \in RegisterReqs, VerifyRegistrationOtp(r) PROVE \E q \in Reqs : Step(q)
  BY <1>1 DEF Step, Reqs, Issuers
<1>2. ASSUME NEW r \in LoginReqs, Login(r) PROVE \E q \in Reqs : Step(q)
  BY <1>2 DEF Step, Reqs, Issuers, SignInReqs, Login
<1>3. ASSUME NEW r \in ResetReqs, ResetPassword(r) PROVE \E q \in Reqs : Step(q)
  BY <1>3 DEF Step, Reqs, Issuers, SignInReqs, ResetPassword
<1>4. ASSUME NEW r \in RefreshReqs, Refresh(r) PROVE \E q \in Reqs : Step(q)
  BY <1>4 DEF Step, Reqs, Issuers, Refresh
<1>5. ASSUME NEW r \in BearerReqs, Validate(r) PROVE \E q \in Reqs : Step(q)
  BY <1>5 DEF Step, Reqs
<1>6. ASSUME NEW r \in AdminReqs, CanActivate(r) PROVE \E q \in Reqs : Step(q)
  BY <1>6 DEF Step, Reqs, BearerReqs
<1>7. ASSUME NEW r \in LogoutReqs, Logout(r) PROVE \E q \in Reqs : Step(q)
  BY <1>7 DEF Step, Reqs, BearerReqs
<1>8. ASSUME NEW r \in PromoteReqs, PromoteAdmin(r) PROVE \E q \in Reqs : Step(q)
  <2>1. r \in Reqs /\ r \in AdminReqs
    BY DEF Reqs, BearerReqs, AdminReqs
  <2> QED
    BY <1>8, <2>1 DEF Step, PromoteAdmin
<1>9. ASSUME NEW r \in DemoteReqs, DemoteAdmin(r) PROVE \E q \in Reqs : Step(q)
  <2>1. r \in Reqs /\ r \in AdminReqs
    BY DEF Reqs, BearerReqs, AdminReqs
  <2>2. pc[r] = "before" /\ Refused(r) => Step(r)
    BY DEF Step
  <2> QED
    BY <1>9, <2>1, <2>2 DEF Step, DemoteAdmin
<1>10. ASSUME NEW r \in StatusReqs, UpdateUserStatus(r) PROVE \E q \in Reqs : Step(q)
  <2>1. r \in Reqs /\ r \in AdminReqs
    BY DEF Reqs, BearerReqs, AdminReqs
  <2> QED
    BY <1>10, <2>1 DEF Step, UpdateUserStatus
<1>11. ASSUME NEW r \in DeleteReqs, DeleteUser(r) PROVE \E q \in Reqs : Step(q)
  <2>1. r \in Reqs /\ r \in AdminReqs
    BY DEF Reqs, BearerReqs, AdminReqs
  <2> QED
    BY <1>11, <2>1 DEF Step, DeleteUser
<1>12. ASSUME NEW r \in LeaveReqs, DeleteMe(r) PROVE \E q \in Reqs : Step(q)
  BY <1>12 DEF Step, Reqs, BearerReqs, DeleteMe
<1>13. ASSUME NEW r \in SeedReqs, SeedAdminUser(r) PROVE \E q \in Reqs : Step(q)
  BY <1>13 DEF Step, Reqs
<1>14. ASSUME NEW r \in Reqs, StatementFails(r) PROVE \E q \in Reqs : Step(q)
  BY <1>14 DEF Step, StatementFails
<1> QED
  BY <1>1, <1>2, <1>3, <1>4, <1>5, <1>6, <1>7, <1>8, <1>9, <1>10, <1>11, <1>12, <1>13, <1>14
  DEF Next
-----------------------------------------------------------------------------
\* What generateTokens does to the shape of tokens and rows.
LEMMA IssuesType ==
    ASSUME TypeOK, NEW r \in Issuers, NEW c \in Claims, Issues(r, c)
    PROVE  /\ token' \in [DOMAIN token' -> Claims]
           /\ DOMAIN token' = DOMAIN token \cup {r}
           /\ DOMAIN token' \subseteq Tokens
           /\ row' \in [DOMAIN token' -> {"valid", "revoked", "consumed"}]
           /\ pc' \in [Reqs -> PC]
           /\ shown \in [Reqs -> SUBSET DOMAIN token']
BY DEF TypeOK, Issues, Extend, Goes, Tokens, PC

\* What the server read of an existing user is a claim.
LEMMA ReadType ==
    ASSUME TypeOK, NEW u \in Users
    PROVE  Read(u) \in Claims
BY DEF TypeOK, Read, Claims, Account

\* An account that is not written moves as well.
LEMMA MovesToItself ==
    ASSUME NEW a \in Account
    PROVE  MovesTo(a, a)
BY DEF MovesTo, Account

\* UPDATE users SET deleted_at, token_version + 1.
LEMMA DeletedRow ==
    ASSUME NEW a \in Account
    PROVE  LET b == [a EXCEPT !.state = "deleted", !.version = a.version + 1]
           IN  b \in Account /\ MovesTo(a, b)
<1>1. a.version + 1 \in Nat /\ a.version \in Nat
  BY DEF Account
<1>2. ASSUME NEW n \in Nat PROVE [a EXCEPT !.state = "deleted", !.version = n] \in Account
  BY DEF Account
<1> DEFINE b == [a EXCEPT !.state = "deleted", !.version = a.version + 1]
<1>3. b.state = "deleted" /\ b.version = a.version + 1
  BY DEF Account
<1>4. b \in Account
  BY <1>1, <1>2
<1> HIDE DEF b
<1>5. MovesTo(a, b)
  BY <1>1, <1>3 DEF MovesTo
<1> QED
  BY <1>4, <1>5 DEF b

\* UPDATE users SET is_admin, token_version + 1.
LEMMA RoleRow ==
    ASSUME NEW a \in Account, NEW admin \in BOOLEAN
    PROVE  LET b == [a EXCEPT !.admin = admin, !.version = a.version + 1]
           IN  b \in Account /\ MovesTo(a, b)
<1>1. a.version + 1 \in Nat /\ a.version \in Nat
  BY DEF Account
<1>2. ASSUME NEW n \in Nat PROVE [a EXCEPT !.admin = admin, !.version = n] \in Account
  BY DEF Account
<1> DEFINE b == [a EXCEPT !.admin = admin, !.version = a.version + 1]
<1>3. b.state = a.state /\ b.version = a.version + 1
  BY DEF Account
<1>4. b \in Account
  BY <1>1, <1>2
<1> HIDE DEF b
<1>5. MovesTo(a, b)
  BY <1>1, <1>3 DEF MovesTo
<1> QED
  BY <1>4, <1>5 DEF b

\* UPDATE users SET status.
LEMMA StatusRow ==
    ASSUME NEW a \in Account, NEW active \in BOOLEAN
    PROVE  LET b == [a EXCEPT !.active = active]
           IN  b \in Account /\ MovesTo(a, b)
<1>1. a.version \in Nat
  BY DEF Account
<1> DEFINE b == [a EXCEPT !.active = active]
<1>2. b.state = a.state /\ b.version = a.version /\ b.admin = a.admin
  BY DEF Account
<1>3. b \in Account
  BY DEF Account
<1> HIDE DEF b
<1>4. MovesTo(a, b)
  BY <1>1, <1>2 DEF MovesTo
<1> QED
  BY <1>3, <1>4 DEF b

\* UPDATE users SET status = 'active', is_admin = true.
LEMMA SeededRow ==
    ASSUME NEW a \in Account
    PROVE  LET b == [a EXCEPT !.active = TRUE, !.admin = TRUE]
           IN  b \in Account /\ MovesTo(a, b)
<1>1. a.version \in Nat
  BY DEF Account
<1> DEFINE b == [a EXCEPT !.active = TRUE, !.admin = TRUE]
<1>2. b.state = a.state /\ b.version = a.version /\ b.admin
  BY DEF Account
<1>3. b \in Account
  BY DEF Account
<1> HIDE DEF b
<1>4. MovesTo(a, b)
  BY <1>1, <1>2 DEF MovesTo
<1> QED
  BY <1>3, <1>4 DEF b

\* Writing one user's row, the others keep theirs.
LEMMA OneRow ==
    ASSUME TypeOK, NEW u \in Users, NEW b \in Account, MovesTo(account[u], b),
           account' = [account EXCEPT ![u] = b]
    PROVE  account' \in [Users -> Account] /\ AccountMoves
<1>1. account' \in [Users -> Account]
  BY DEF TypeOK
<1>2. ASSUME NEW v \in Users PROVE MovesTo(account[v], account'[v])
  <2>1. CASE v = u
    BY <2>1 DEF TypeOK
  <2>2. CASE v # u
    BY <2>2, MovesToItself DEF TypeOK
  <2> QED
    BY <2>1, <2>2
<1> QED
  BY <1>1, <1>2 DEF AccountMoves

\* A step that leaves the accounts alone.
LEMMA NoRow ==
    ASSUME TypeOK, account' = account
    PROVE  account' \in [Users -> Account] /\ AccountMoves
BY MovesToItself DEF TypeOK, AccountMoves

\* deleteUser, deleteMe.
LEMMA SetDeletedMoves ==
    ASSUME TypeOK, NEW r \in Reqs, NEW u \in Users, NEW next, SetDeleted(r, u, next)
    PROVE  account' \in [Users -> Account] /\ AccountMoves
<1>1. CASE Live(u)
  <2> DEFINE b == [account[u] EXCEPT !.state = "deleted", !.version = account[u].version + 1]
  <2>1. account[u] \in Account
    BY DEF TypeOK
  <2>2. b \in Account /\ MovesTo(account[u], b)
    BY <2>1, DeletedRow
  <2>3. account' = [account EXCEPT ![u] = b]
    BY <1>1 DEF SetDeleted, NextVersion
  <2> HIDE DEF b
  <2> QED
    BY <2>2, <2>3, OneRow
<1>2. CASE ~Live(u)
  BY <1>2, NoRow DEF SetDeleted, Refused
<1> QED
  BY <1>1, <1>2

\* promoteAdmin, demoteAdmin.
LEMMA SetRoleMoves ==
    ASSUME TypeOK, NEW r \in Reqs, NEW admin \in BOOLEAN, SetRole(r, admin)
    PROVE  account' \in [Users -> Account] /\ AccountMoves
<1> DEFINE u == Target[r]
           b == [account[u] EXCEPT !.admin = admin, !.version = account[u].version + 1]
<1>1. u \in Users
  BY ReqsAssumption
<1>2. account[u] \in Account
  BY <1>1 DEF TypeOK
<1>3. b \in Account /\ MovesTo(account[u], b)
  BY <1>2, RoleRow
<1>4. CASE Live(u)
  <2>1. account' = [account EXCEPT ![u] = b]
    BY <1>4 DEF SetRole, NextVersion
  <2> HIDE DEF b, u
  <2> QED
    BY <2>1, <1>1, <1>3, OneRow
<1>5. CASE ~Live(u)
  BY <1>5, NoRow DEF SetRole
<1> QED
  BY <1>4, <1>5

\* updateUserStatus.
LEMMA SetStatusMoves ==
    ASSUME TypeOK, NEW r \in Reqs, SetStatus(r)
    PROVE  account' \in [Users -> Account] /\ AccountMoves
<1> DEFINE u == Target[r]
           b(x) == [account[u] EXCEPT !.active = x]
<1>1. u \in Users
  BY ReqsAssumption
<1>2. account[u] \in Account
  BY <1>1 DEF TypeOK
<1>3. \A x \in BOOLEAN : b(x) \in Account /\ MovesTo(account[u], b(x))
  BY <1>2, StatusRow
<1>4. CASE Live(u)
  <2>1. PICK x \in BOOLEAN : account' = [account EXCEPT ![u] = b(x)]
    BY <1>4 DEF SetStatus
  <2>2. b(x) \in Account /\ MovesTo(account[u], b(x))
    BY <1>3
  <2> HIDE DEF b, u
  <2> QED
    BY <2>1, <2>2, <1>1, OneRow
<1>5. CASE ~Live(u)
  BY <1>5, NoRow DEF SetStatus, Refused
<1> QED
  BY <1>4, <1>5

\* verifyRegistrationOtp, seedAdminUser: also somebody who was not there.
LEMMA NewAccountMoves ==
    ASSUME TypeOK, NEW r \in Reqs, VerifyRegistrationOtp(r) \/ SeedAdminUser(r)
    PROVE  account' \in [Users -> Account] /\ AccountMoves
<1> DEFINE u == Target[r]
<1>1. u \in Users
  BY ReqsAssumption
<1>2. account[u] \in Account
  BY <1>1 DEF TypeOK
<1>3. ASSUME NEW b \in Account, MovesTo(account[u], b), account' = [account EXCEPT ![u] = b]
      PROVE  account' \in [Users -> Account] /\ AccountMoves
  BY <1>1, <1>3, OneRow
<1>4. CASE VerifyRegistrationOtp(r)
  <2> DEFINE b == [state |-> "live", active |-> TRUE, admin |-> FALSE, version |-> 0]
  <2>1. b \in Account /\ MovesTo(account[u], b) /\ account' = [account EXCEPT ![u] = b]
    BY <1>4 DEF VerifyRegistrationOtp, Account, MovesTo
  <2> HIDE DEF b, u
  <2> QED
    BY <2>1, <1>3
<1>5. CASE SeedAdminUser(r)
  <2> DEFINE b == IF account[u].state = "none"
                  THEN [state |-> "live", active |-> TRUE, admin |-> TRUE, version |-> 0]
                  ELSE [account[u] EXCEPT !.active = TRUE, !.admin = TRUE]
  <2>1. b \in Account /\ MovesTo(account[u], b)
    <3>1. CASE account[u].state = "none"
      BY <3>1 DEF Account, MovesTo
    <3>2. CASE account[u].state # "none"
      BY <3>2, <1>2, SeededRow
    <3> QED
      BY <3>1, <3>2
  <2>2. account' = [account EXCEPT ![u] = b]
    BY <1>5 DEF SeedAdminUser
  <2> HIDE DEF b, u
  <2> QED
    BY <2>1, <2>2, <1>3
<1> QED
  BY <1>4, <1>5

\* Every step moves the accounts forward.
LEMMA StepMoves ==
    ASSUME TypeOK, NEW r \in Reqs, Step(r)
    PROVE  account' \in [Users -> Account] /\ AccountMoves
<1>1. CASE VerifyRegistrationOtp(r) \/ SeedAdminUser(r)
  BY <1>1, NewAccountMoves
<1>2. CASE \E admin \in BOOLEAN : SetRole(r, admin)
  BY <1>2, SetRoleMoves
<1>3. CASE SetStatus(r)
  BY <1>3, SetStatusMoves
<1>4. Target[r] \in Users /\ \A t \in shown[r] : token[t].user \in Users
  BY ReqsAssumption DEF TypeOK, Claims
<1>5. CASE SetDeleted(r, Target[r], "audit")
  BY <1>4, <1>5, SetDeletedMoves
<1>6. CASE \E t \in shown[r] : SetDeleted(r, token[t].user, "done")
  BY <1>4, <1>6, SetDeletedMoves
<1>7. CASE UNCHANGED account
  BY <1>7, NoRow
<1>8. SelectAccount(r) => UNCHANGED account
  BY DEF SelectAccount
<1>9. SaveRefreshToken(r) => UNCHANGED account
  BY DEF SaveRefreshToken
<1>10. ConsumeRefreshTokenJti(r) \/ Validate(r) \/ Logout(r) \/ LogAdminAction(r) \/ Refused(r)
       => UNCHANGED account
  BY DEF ConsumeRefreshTokenJti, Validate, Logout, LogAdminAction, Refused
<1>11. SelectSession(r) => UNCHANGED account
  BY DEF SelectSession, Refused
<1>12. CanActivate(r) => UNCHANGED account
  BY DEF CanActivate, Refused
<1>13. (\E admin \in BOOLEAN : SelectBefore(r, admin)) => UNCHANGED account
  BY DEF SelectBefore, Refused
<1> QED
  BY <1>1, <1>2, <1>3, <1>5, <1>6, <1>7, <1>8, <1>9, <1>10, <1>11, <1>12, <1>13 DEF Step
-----------------------------------------------------------------------------
\* The calls of different operations are different calls.
LEMMA KindsOfCalls ==
    /\ \A r \in AdminReqs \cup LeaveReqs \cup LogoutReqs \cup SeedReqs : r \notin Issuers
    /\ \A r \in RefreshReqs : r \in Issuers /\ r \notin SignInReqs /\ r \notin RegisterReqs
    /\ \A r \in SignInReqs : r \in Issuers /\ r \notin RegisterReqs
    /\ \A r \in BearerReqs : r \notin Issuers
    /\ \A r \in AdminReqs : r \in BearerReqs /\ r \notin LogoutReqs /\ r \notin LeaveReqs
    /\ \A r \in Issuers : r \in Reqs /\ r \notin OldTokens /\ r \in Tokens
    /\ \A r \in RegisterReqs : r \in Issuers
    /\ BearerReqs \subseteq Reqs
BY ReqsAssumption DEF AdminReqs, BearerReqs, Issuers, SignInReqs, Reqs, Tokens

\* The state keeps its shape, the accounts apart.
LEMMA TypeStep ==
    ASSUME TypeOK, NEW r \in Reqs, Step(r)
    PROVE  TypeOK'
<1>1. account' \in [Users -> Account]
  BY StepMoves
<1>2. ASSUME NEW here \in PC, Goes(r, here) PROVE pc' \in [Reqs -> PC]
  BY <1>2 DEF TypeOK, Goes
<1>3. {"new", "save", "select", "guard", "before", "run", "audit", "revoke", "done", "failed"} \subseteq PC
  BY DEF PC
<1>4. ASSUME Refused(r) PROVE TypeOK'
  BY <1>1, <1>2, <1>3, <1>4 DEF TypeOK, Refused
<1>5. Target[r] \in Users /\ \A t \in shown[r] : token[t].user \in Users
  BY ReqsAssumption DEF TypeOK, Claims
<1>6. ASSUME NEW c \in Claims, r \in Issuers, Issues(r, c), UNCHANGED <<audit, seen, shown>>
      PROVE  TypeOK'
  BY <1>1, <1>6, IssuesType DEF TypeOK
<1>7. CASE r \in RegisterReqs /\ VerifyRegistrationOtp(r)
  <2>1. [user |-> Target[r], admin |-> FALSE, version |-> 0] \in Claims
    BY <1>5 DEF Claims
  <2> QED
    BY <2>1, <1>6, <1>7, KindsOfCalls DEF VerifyRegistrationOtp
<1>8. CASE r \in SignInReqs /\ SelectAccount(r)
  <2>1. Read(Target[r]) \in Claims
    BY <1>5, ReadType
  <2>2. pc' \in [Reqs -> PC]
    BY <1>2, <1>3, <1>8 DEF SelectAccount
  <2> QED
    BY <2>1, <2>2, <1>1, <1>8 DEF TypeOK, SelectAccount
<1>9. CASE r \in Issuers /\ SaveRefreshToken(r)
  <2>1. PICK c \in seen[r] : Issues(r, c)
    BY <1>9 DEF SaveRefreshToken
  <2>2. c \in Claims
    BY <2>1 DEF TypeOK
  <2> QED
    BY <2>1, <2>2, <1>6, <1>9 DEF SaveRefreshToken
<1>10. CASE r \in RefreshReqs /\ ConsumeRefreshTokenJti(r)
  <2>1. pc' \in [Reqs -> PC]
    BY <1>2, <1>3, <1>10 DEF ConsumeRefreshTokenJti
  <2> QED
    BY <2>1, <1>1, <1>10 DEF TypeOK, ConsumeRefreshTokenJti
<1>11. CASE r \in RefreshReqs /\ SelectSession(r)
  <2>1. PICK t \in shown[r] :
           \/ /\ seen' = [seen EXCEPT ![r] = {Read(token[t].user)}]
              /\ Goes(r, "save") /\ UNCHANGED <<account, token, row, audit, shown>>
           \/ Refused(r)
    BY <1>11 DEF SelectSession
  <2>2. Read(token[t].user) \in Claims
    BY <1>5, ReadType
  <2>3. Goes(r, "save") => pc' \in [Reqs -> PC]
    BY <1>2, <1>3
  <2> QED
    BY <2>1, <2>2, <2>3, <1>1, <1>4 DEF TypeOK
<1>12. CASE r \in BearerReqs /\ Validate(r)
  <2>1. pc' \in [Reqs -> PC]
    BY <1>2, <1>3, <1>12 DEF Validate
  <2> QED
    BY <2>1, <1>1, <1>12 DEF TypeOK, Validate
<1>13. CASE r \in AdminReqs /\ CanActivate(r)
  <2>1. CASE Refused(r)
    BY <2>1, <1>4
  <2>2. CASE /\ Goes(r, IF r \in PromoteReqs \cup DemoteReqs THEN "before" ELSE "run")
             /\ UNCHANGED <<account, token, row, audit, seen, shown>>
    <3>1. pc' \in [Reqs -> PC]
      BY <1>2, <1>3, <2>2
    <3> QED
      BY <3>1, <2>2, <1>1 DEF TypeOK
  <2> QED
    BY <1>13, <2>1, <2>2 DEF CanActivate
<1>14. CASE r \in LogoutReqs /\ Logout(r)
  <2>1. pc' \in [Reqs -> PC]
    BY <1>2, <1>3, <1>14 DEF Logout
  <2> QED
    BY <2>1, <1>1, <1>14 DEF TypeOK, Logout
<1>15. ASSUME NEW admin \in BOOLEAN, SelectBefore(r, admin) PROVE TypeOK'
  <2>1. CASE Goes(r, "run") /\ UNCHANGED <<account, token, row, audit, seen, shown>>
    <3>1. pc' \in [Reqs -> PC]
      BY <1>2, <1>3, <2>1
    <3> QED
      BY <3>1, <2>1, <1>1 DEF TypeOK
  <2> QED
    BY <1>15, <2>1, <1>4 DEF SelectBefore
<1>16. ASSUME NEW u \in Users, NEW here \in PC, Goes(r, here), UNCHANGED <<token, row, audit, shown>>,
              seen' = seen \/ seen' = [seen EXCEPT ![r] = {Read(u)}]
       PROVE  TypeOK'
  <2>1. Read(u) \in Claims /\ pc' \in [Reqs -> PC]
    BY <1>2, <1>16, ReadType
  <2> QED
    BY <2>1, <1>1, <1>16 DEF TypeOK
<1>17. ASSUME NEW admin \in BOOLEAN, SetRole(r, admin) PROVE TypeOK'
  BY <1>3, <1>5, <1>16, <1>17 DEF SetRole
<1>18. CASE SetStatus(r)
  BY <1>3, <1>4, <1>5, <1>16, <1>18 DEF SetStatus
<1>19. ASSUME NEW u \in Users, NEW next \in PC, SetDeleted(r, u, next) PROVE TypeOK'
  BY <1>4, <1>16, <1>19 DEF SetDeleted
<1>20. CASE r \in AdminReqs /\ LogAdminAction(r)
  <2>1. pc' \in [Reqs -> PC]
    BY <1>2, <1>3, <1>20 DEF LogAdminAction
  <2> QED
    BY <2>1, <1>1, <1>20 DEF TypeOK, LogAdminAction
<1>21. CASE SeedAdminUser(r)
  <2>1. pc' \in [Reqs -> PC]
    BY <1>2, <1>3, <1>21 DEF SeedAdminUser
  <2> QED
    BY <2>1, <1>1, <1>21 DEF TypeOK, SeedAdminUser
<1> QED
  BY <1>3, <1>4, <1>5, <1>7, <1>8, <1>9, <1>10, <1>11, <1>12, <1>13, <1>14, <1>15, <1>17, <1>18,
     <1>19, <1>20, <1>21 DEF Step
-----------------------------------------------------------------------------
\* A claim stays true while accounts move forward.
LEMMA TrueStays ==
    ASSUME TypeOK, TypeOK', AccountMoves, NEW c \in Claims, TrueOf(c, account)
    PROVE  TrueOf(c, account')
<1>1. c.user \in Users /\ c.version \in Nat
  BY DEF Claims
<1>2. account[c.user].version \in Nat /\ account'[c.user].version \in Nat
  BY <1>1 DEF TypeOK, Account
<1>3. MovesTo(account[c.user], account'[c.user])
  BY <1>1 DEF AccountMoves
<1> QED
  BY <1>1, <1>2, <1>3 DEF TrueOf, MovesTo

\* What is read of a live account is true of it.
LEMMA ReadIsTrue ==
    ASSUME TypeOK, NEW u \in Users, Live(u)
    PROVE  TrueOf(Read(u), account)
<1>1. account[u].version \in Nat
  BY DEF TypeOK, Account
<1> QED
  BY <1>1 DEF Read, Live, TrueOf

\* Only generateTokens adds tokens.
LEMMA TokenStep ==
    ASSUME TypeOK, NEW r \in Reqs, Step(r)
    PROVE  \/ token' = token
           \/ /\ r \in Issuers /\ pc[r] = "save" /\ UNCHANGED <<account, seen, shown>>
              /\ \E c \in seen[r] : Issues(r, c)
           \/ /\ r \in RegisterReqs /\ VerifyRegistrationOtp(r)
<1>1. SelectAccount(r) \/ ConsumeRefreshTokenJti(r) \/ Validate(r) \/ Logout(r)
      \/ LogAdminAction(r) \/ SeedAdminUser(r) \/ Refused(r) => token' = token
  BY DEF SelectAccount, ConsumeRefreshTokenJti, Validate, Logout, LogAdminAction, SeedAdminUser,
         Refused
<1>2. SelectSession(r) => token' = token
  BY DEF SelectSession, Refused
<1>3. CanActivate(r) => token' = token
  BY DEF CanActivate, Refused
<1>4. (\E admin \in BOOLEAN : SelectBefore(r, admin) \/ SetRole(r, admin)) => token' = token
  BY DEF SelectBefore, SetRole, Refused
<1>5. SetStatus(r) => token' = token
  BY DEF SetStatus, Refused
<1>6. \A u, next : SetDeleted(r, u, next) => token' = token
  BY DEF SetDeleted, Refused
<1>7. SaveRefreshToken(r) =>
      /\ pc[r] = "save" /\ UNCHANGED <<account, seen, shown>> /\ \E c \in seen[r] : Issues(r, c)
  BY DEF SaveRefreshToken
<1> QED
  BY <1>1, <1>2, <1>3, <1>4, <1>5, <1>6, <1>7 DEF Step
-----------------------------------------------------------------------------
\* Only a SELECT of a live account changes what an issuing call has seen.
LEMMA SeenStep ==
    ASSUME TypeOK, NEW r \in Reqs, Step(r), NEW q \in Issuers
    PROVE  \/ seen'[q] = seen[q]
           \/ /\ q = r /\ r \in SignInReqs /\ account' = account
              /\ Live(Target[r]) /\ seen'[q] = {Read(Target[r])}
           \/ /\ q = r /\ r \in RefreshReqs /\ account' = account
              /\ \E t \in shown[r] : StillCurrent(t) /\ seen'[q] = {Read(token[t].user)}
<1>0. q \in Reqs
  BY KindsOfCalls
<1>1. CASE r \in RegisterReqs /\ VerifyRegistrationOtp(r)
  BY <1>1 DEF VerifyRegistrationOtp
<1>2. CASE r \in SignInReqs /\ SelectAccount(r)
  BY <1>0, <1>2 DEF SelectAccount, TypeOK
<1>3. CASE r \in Issuers /\ SaveRefreshToken(r)
  BY <1>3 DEF SaveRefreshToken
<1>4. CASE ConsumeRefreshTokenJti(r) \/ Validate(r) \/ Logout(r) \/ LogAdminAction(r)
           \/ SeedAdminUser(r) \/ Refused(r)
  BY <1>4 DEF ConsumeRefreshTokenJti, Validate, Logout, LogAdminAction, SeedAdminUser, Refused
<1>5. CASE r \in RefreshReqs /\ SelectSession(r)
  BY <1>0, <1>5 DEF SelectSession, Refused, TypeOK
<1>6. CASE CanActivate(r)
  BY <1>6 DEF CanActivate, Refused
<1>7. ASSUME r \in AdminReqs \cup LeaveReqs,
             seen' = seen \/ \E v : seen' = [seen EXCEPT ![r] = v]
      PROVE  seen'[q] = seen[q]
  BY <1>0, <1>7, KindsOfCalls DEF TypeOK
<1>8. ASSUME NEW admin \in BOOLEAN, r \in AdminReqs, SelectBefore(r, admin) \/ SetRole(r, admin)
      PROVE  seen'[q] = seen[q]
  BY <1>7, <1>8 DEF SelectBefore, SetRole, Refused
<1>9. CASE r \in AdminReqs /\ SetStatus(r)
  BY <1>7, <1>9 DEF SetStatus, Refused
<1>10. ASSUME NEW u, NEW next, r \in AdminReqs \cup LeaveReqs, SetDeleted(r, u, next)
       PROVE  seen'[q] = seen[q]
  BY <1>7, <1>10 DEF SetDeleted, Refused
<1> QED
  BY <1>1, <1>2, <1>3, <1>4, <1>5, <1>6, <1>8, <1>9, <1>10 DEF Step

\* What a call read stays true until it signs.
LEMMA SeenIsTrueStep ==
    ASSUME TypeOK, TypeOK', SeenIsTrue, NEW r \in Reqs, Step(r)
    PROVE  SeenIsTrue'
<1>1. AccountMoves
  BY StepMoves
<1>2. SUFFICES ASSUME NEW q \in Issuers, NEW c \in seen'[q] PROVE TrueOf(c, account')
  BY DEF SeenIsTrue
<1>3. q \in Reqs /\ Target[r] \in Users /\ \A t \in shown[r] : token[t].user \in Users
  BY KindsOfCalls, ReqsAssumption DEF TypeOK, Claims
<1>4. CASE seen'[q] = seen[q]
  <2>1. c \in Claims /\ TrueOf(c, account)
    BY <1>2, <1>3, <1>4 DEF TypeOK, SeenIsTrue
  <2> QED
    BY <2>1, <1>1, TrueStays
<1>5. ASSUME NEW u \in Users, Live(u), account' = account, seen'[q] = {Read(u)}
      PROVE  TrueOf(c, account')
  BY <1>2, <1>5, ReadIsTrue
<1> QED
  BY <1>3, <1>4, <1>5, SeenStep DEF StillCurrent

\* generateTokens signs what is true.
LEMMA FreshTokensStep ==
    ASSUME TypeOK, TypeOK', SeenIsTrue, FreshTokensAreTrue, NEW r \in Reqs, Step(r)
    PROVE  FreshTokensAreTrue'
<1>1. AccountMoves
  BY StepMoves
<1>2. ASSUME NEW t \in DOMAIN token PROVE TrueOf(token[t], account')
  <2>1. token[t] \in Claims /\ TrueOf(token[t], account)
    BY DEF TypeOK, FreshTokensAreTrue
  <2> QED
    BY <2>1, <1>1, TrueStays
<1>3. CASE token' = token
  BY <1>2, <1>3 DEF FreshTokensAreTrue
<1>4. ASSUME NEW c, Issues(r, c), TrueOf(c, account') PROVE FreshTokensAreTrue'
  BY <1>2, <1>4 DEF FreshTokensAreTrue, Issues, Extend
<1>5. CASE r \in Issuers /\ UNCHANGED account /\ \E c \in seen[r] : Issues(r, c)
  BY <1>4, <1>5 DEF SeenIsTrue
<1>6. CASE r \in RegisterReqs /\ VerifyRegistrationOtp(r)
  <2> DEFINE u == Target[r]
             c == [user |-> u, admin |-> FALSE, version |-> 0]
  <2>1. u \in Users
    BY ReqsAssumption
  <2>2. account'[u].state = "live" /\ account'[u].version = 0
    BY <1>6, <2>1 DEF VerifyRegistrationOtp, TypeOK
  <2>3. c.user = u /\ c.version = 0 /\ c.admin = FALSE
    OBVIOUS
  <2>4. Issues(r, c)
    BY <1>6 DEF VerifyRegistrationOtp
  <2> HIDE DEF c, u
  <2>5. TrueOf(c, account')
    BY <2>2, <2>3 DEF TrueOf
  <2> QED
    BY <2>4, <2>5, <1>4
<1> QED
  BY <1>3, <1>5, <1>6, TokenStep

\* The tokens there are keep their payload; a new one is of a call that ends.
LEMMA TokensStay ==
    ASSUME TypeOK, SignsOnce, NEW r \in Reqs, Step(r)
    PROVE  /\ DOMAIN token \subseteq DOMAIN token'
           /\ \A t \in DOMAIN token : token'[t] = token[t]
           /\ \A t \in DOMAIN token' \ DOMAIN token : t = r /\ pc'[r] = "done"
<1>1. r \in Issuers /\ pc[r] \in {"new", "save"} => r \notin DOMAIN token
  BY DEF SignsOnce
<1>2. ASSUME r \in Issuers, pc[r] \in {"new", "save"}, NEW c, Issues(r, c)
      PROVE  /\ DOMAIN token \subseteq DOMAIN token'
             /\ \A t \in DOMAIN token : token'[t] = token[t]
             /\ \A t \in DOMAIN token' \ DOMAIN token : t = r /\ pc'[r] = "done"
  BY <1>1, <1>2 DEF Issues, Extend, Goes, TypeOK
<1>3. VerifyRegistrationOtp(r) => pc[r] = "new" /\ \E c : Issues(r, c)
  BY DEF VerifyRegistrationOtp
<1> QED
  BY <1>2, <1>3, TokenStep, KindsOfCalls

\* A step is of a call that has not ended, and leaves the others alone.
LEMMA Footprint ==
    ASSUME TypeOK, NEW r \in Reqs, Step(r)
    PROVE  /\ pc[r] # "done" /\ \E here \in PC \ {"new"} : Goes(r, here)
           /\ \/ shown' = shown
              \/ r \in RefreshReqs /\ ConsumeRefreshTokenJti(r)
              \/ r \in BearerReqs /\ Validate(r)
              \/ r \in LogoutReqs /\ Logout(r)
           /\ \/ row' = row
              \/ \E c : Issues(r, c) /\ r \in Issuers /\ pc[r] \in {"new", "save"}
              \/ r \in RefreshReqs /\ ConsumeRefreshTokenJti(r)
              \/ r \in LogoutReqs /\ Logout(r)
<1> DEFINE Quiet == /\ pc[r] # "done" /\ \E here \in PC \ {"new"} : Goes(r, here)
                    /\ shown' = shown /\ row' = row
<1>1. pc[r] # "done" /\ Refused(r) => Quiet
  BY DEF Refused, PC
<1>2. CASE r \in RegisterReqs /\ VerifyRegistrationOtp(r)
  <2>1. (\E c : Issues(r, c)) /\ pc[r] = "new" /\ UNCHANGED shown
    BY <1>2 DEF VerifyRegistrationOtp
  <2> QED
    BY <2>1, <1>2, KindsOfCalls DEF Issues, PC
<1>3. SelectAccount(r) => Quiet
  BY DEF SelectAccount, PC
<1>4. CASE r \in Issuers /\ SaveRefreshToken(r)
  <2>1. (\E c : Issues(r, c)) /\ pc[r] = "save" /\ UNCHANGED shown
    BY <1>4 DEF SaveRefreshToken
  <2> QED
    BY <2>1, <1>4 DEF Issues, PC
<1>5. CASE r \in RefreshReqs /\ ConsumeRefreshTokenJti(r)
  <2>1. pc[r] = "new" /\ Goes(r, "select")
    BY <1>5 DEF ConsumeRefreshTokenJti
  <2> QED
    BY <2>1, <1>5 DEF PC
<1>6. SelectSession(r) => Quiet
  BY <1>1 DEF SelectSession, PC
<1>7. CASE r \in BearerReqs /\ Validate(r)
  <2>1. pc[r] = "new" /\ (\E here \in PC \ {"new"} : Goes(r, here)) /\ UNCHANGED row
    BY <1>7 DEF Validate, PC
  <2> QED
    BY <2>1, <1>7 DEF PC
<1>8. CanActivate(r) => Quiet
  BY <1>1 DEF CanActivate, PC
<1>9. CASE r \in LogoutReqs /\ Logout(r)
  <2>1. pc[r] = "revoke" /\ Goes(r, "done")
    BY <1>9 DEF Logout
  <2> QED
    BY <2>1, <1>9 DEF PC
<1>10. (\E admin \in BOOLEAN : SelectBefore(r, admin) \/ SetRole(r, admin)) => Quiet
  BY <1>1 DEF SelectBefore, SetRole, PC
<1>11. SetStatus(r) => Quiet
  BY <1>1 DEF SetStatus, PC
<1>12. (\E u, next : next \in {"audit", "done"} /\ SetDeleted(r, u, next)) => Quiet
  BY <1>1 DEF SetDeleted, PC
<1>13. LogAdminAction(r) => Quiet
  BY DEF LogAdminAction, PC
<1>14. SeedAdminUser(r) => Quiet
  BY DEF SeedAdminUser, PC
<1> QED
  BY <1>1, <1>2, <1>3, <1>4, <1>5, <1>6, <1>7, <1>8, <1>9, <1>10, <1>11, <1>12, <1>13, <1>14 DEF Step

\* A call signs once.
LEMMA SignsOnceStep ==
    ASSUME TypeOK, SignsOnce, NEW r \in Reqs, Step(r)
    PROVE  SignsOnce'
<1>1. SUFFICES ASSUME NEW q \in Issuers, q \in DOMAIN token' PROVE pc'[q] = "done"
  BY DEF SignsOnce
<1>2. CASE q \in DOMAIN token
  <2>1. q \in Reqs /\ pc[q] = "done"
    BY <1>2, KindsOfCalls DEF SignsOnce
  <2> QED
    BY <2>1, Footprint DEF TypeOK, Goes
<1>3. CASE q \notin DOMAIN token
  BY <1>1, <1>3, TokensStay
<1> QED
  BY <1>2, <1>3

\* A row that is gone or revoked stays so.
LEMMA DeadRowsStep ==
    ASSUME TypeOK, SignsOnce, NEW r \in Reqs, Step(r), NEW t \in DOMAIN row, row[t] # "valid"
    PROVE  row'[t] = row[t]
<1>1. t \in DOMAIN token
  BY DEF TypeOK
<1>2. CASE \E c : Issues(r, c) /\ r \in Issuers /\ pc[r] \in {"new", "save"}
  <2>1. r # t
    BY <1>1, <1>2 DEF SignsOnce
  <2> QED
    BY <1>2, <2>1 DEF Issues, Extend
<1>3. CASE ConsumeRefreshTokenJti(r)
  BY <1>3 DEF ConsumeRefreshTokenJti, Consumable, TypeOK
<1>4. CASE Logout(r)
  BY <1>4 DEF Logout, TypeOK
<1> QED
  BY <1>2, <1>3, <1>4, Footprint

\* Only consumeRefreshTokenJti sets what a refresh shows; only validate what an
\* administrator's call shows.
LEMMA ShownStep ==
    ASSUME TypeOK, NEW r \in Reqs, Step(r)
    PROVE  /\ \A q \in RefreshReqs : shown'[q] = shown[q] \/ (q = r /\ ConsumeRefreshTokenJti(r))
           /\ \A q \in AdminReqs : shown'[q] = shown[q] \/ (q = r /\ Validate(r))
<1>1. \A q \in RefreshReqs : q \in Reqs /\ q \notin BearerReqs /\ q \notin AdminReqs
  BY KindsOfCalls
<1>2. \A q \in AdminReqs : q \in Reqs /\ q \notin LogoutReqs
  BY KindsOfCalls
<1>3. LogoutReqs \subseteq BearerReqs
  BY DEF BearerReqs
<1>4. ASSUME NEW q \in Reqs, q # r PROVE shown'[q] = shown[q]
  <2>1. shown' = shown \/ \E v : shown' = [shown EXCEPT ![r] = v]
    BY Footprint DEF ConsumeRefreshTokenJti, Validate, Logout
  <2> QED
    BY <2>1, <1>4 DEF TypeOK
<1>5. ASSUME NEW q \in RefreshReqs PROVE shown'[q] = shown[q] \/ (q = r /\ ConsumeRefreshTokenJti(r))
  <2>1. CASE q # r
    BY <2>1, <1>1, <1>4
  <2>2. CASE q = r
    <3>1. r \notin BearerReqs /\ r \notin LogoutReqs
      BY <2>2, <1>1, <1>3
    <3> QED
      BY <2>2, <3>1, Footprint
  <2> QED
    BY <2>1, <2>2
<1>6. ASSUME NEW q \in AdminReqs PROVE shown'[q] = shown[q] \/ (q = r /\ Validate(r))
  <2>1. CASE q # r
    BY <2>1, <1>2, <1>4
  <2>2. CASE q = r
    <3>1. r \notin RefreshReqs /\ r \notin LogoutReqs
      BY <2>2, <1>1, <1>2
    <3> QED
      BY <2>2, <3>1, Footprint
  <2> QED
    BY <2>1, <2>2
<1> QED
  BY <1>5, <1>6

\* What consumeRefreshTokenJti does to the rows and to what its call shows.
LEMMA ConsumeEffect ==
    ASSUME TypeOK, NEW r \in Reqs, ConsumeRefreshTokenJti(r)
    PROVE  \E t \in DOMAIN token : /\ row[t] = "valid" /\ row'[t] = "consumed"
                                   /\ shown'[r] = {t} /\ pc'[r] = "select"
BY DEF TypeOK, ConsumeRefreshTokenJti, Consumable, Goes

\* A call presents one token pair.
LEMMA PresentsOneStep ==
    ASSUME TypeOK, PresentsOne, NEW r \in Reqs, Step(r)
    PROVE  PresentsOne'
<1>1. shown' = shown \/ \E t : shown' = [shown EXCEPT ![r] = {t}]
  BY Footprint DEF ConsumeRefreshTokenJti, Validate, Logout
<1> QED
  BY <1>1 DEF PresentsOne, TypeOK

\* A row is consumed by the call that shows it.
LEMMA ConsumedStep ==
    ASSUME TypeOK, SignsOnce, ConsumedByItsCall, NEW r \in Reqs, Step(r)
    PROVE  ConsumedByItsCall'
<1>1. ASSUME NEW q \in RefreshReqs
      PROVE  (pc'[q] = "new" => shown'[q] = {}) /\ \A t \in shown'[q] : row'[t] = "consumed"
  <2>0. q \in Reqs
    BY KindsOfCalls
  <2>1. CASE shown'[q] = shown[q]
    <3>1. pc'[q] = "new" => pc[q] = "new"
      BY <2>0, Footprint DEF TypeOK, Goes
    <3>2. ASSUME NEW t \in shown[q] PROVE row'[t] = "consumed"
      <4>1. t \in DOMAIN row /\ row[t] = "consumed"
        BY <2>0, <3>2 DEF TypeOK, ConsumedByItsCall
      <4> QED
        BY <4>1, DeadRowsStep
    <3> QED
      BY <2>1, <3>1, <3>2 DEF ConsumedByItsCall
  <2>2. CASE q = r /\ ConsumeRefreshTokenJti(r)
    BY <2>2, ConsumeEffect
  <2> QED
    BY <2>1, <2>2, ShownStep
<1> QED
  BY <1>1 DEF ConsumedByItsCall

\* One call exchanges a refresh token.
LEMMA ExchangedOnceStep ==
    ASSUME TypeOK, ConsumedByItsCall, ExchangedOnce, NEW r \in Reqs, Step(r)
    PROVE  ExchangedOnce'
<1>1. CASE \A q \in RefreshReqs : shown'[q] = shown[q]
  BY <1>1 DEF ExchangedOnce
<1>2. CASE ConsumeRefreshTokenJti(r)
  <2>1. PICK t \in DOMAIN token : row[t] = "valid" /\ shown'[r] = {t}
    BY <1>2, ConsumeEffect
  <2>2. \A q \in RefreshReqs : t \notin shown[q]
    BY <2>1 DEF ConsumedByItsCall
  <2>3. \A q \in RefreshReqs : q # r => shown'[q] = shown[q]
    BY ShownStep
  <2> QED
    BY <2>1, <2>2, <2>3 DEF ExchangedOnce
<1> QED
  BY <1>1, <1>2, ShownStep

\* A refresh that may sign has read the account of the token it consumed.
LEMMA SignsForItsSessionStep ==
    ASSUME TypeOK, SignsOnce, PresentsOne, ConsumedByItsCall, SignsForItsSession,
           NEW r \in Reqs, Step(r)
    PROVE  SignsForItsSession'
<1>1. SUFFICES ASSUME NEW q \in RefreshReqs, pc'[q] = "save",
                      NEW t \in shown'[q], NEW c \in seen'[q]
               PROVE  c.user = token'[t].user /\ c.version = token'[t].version
  BY DEF SignsForItsSession
<1>2. q \in Reqs /\ q \in Issuers /\ q \notin SignInReqs
  BY KindsOfCalls
<1>3. shown'[q] = shown[q]
  BY <1>1, <1>2, ConsumeEffect, ShownStep
<1>4. t \in DOMAIN token /\ token'[t] = token[t]
  BY <1>1, <1>2, <1>3, TokensStay DEF TypeOK
<1>5. CASE q # r
  <2>1. pc'[q] = pc[q]
    BY <1>2, <1>5, Footprint DEF TypeOK, Goes
  <2>2. seen'[q] = seen[q]
    BY <1>2, <1>5, SeenStep
  <2> QED
    BY <1>1, <1>3, <1>4, <2>1, <2>2 DEF SignsForItsSession
<1>6. CASE q = r
  <2>1. r \notin RegisterReqs /\ r \notin BearerReqs /\ r \notin AdminReqs /\ r \notin LogoutReqs
        /\ r \notin LeaveReqs /\ r \notin SeedReqs
    BY <1>6, KindsOfCalls
  <2>2. ~Refused(r) /\ ~SaveRefreshToken(r) /\ ~ConsumeRefreshTokenJti(r)
    BY <1>1, <1>2, <1>6 DEF Refused, SaveRefreshToken, ConsumeRefreshTokenJti, Issues, Goes, TypeOK
  <2>3. SelectSession(r)
    BY <1>2, <1>6, <2>1, <2>2 DEF Step
  <2>4. PICK u \in shown[r] : StillCurrent(u) /\ seen' = [seen EXCEPT ![r] = {Read(token[u].user)}]
    BY <2>2, <2>3 DEF SelectSession
  <2>5. c = Read(token[t].user) /\ StillCurrent(t)
    BY <1>1, <1>2, <1>3, <1>6, <2>4 DEF PresentsOne, TypeOK
  <2> QED
    BY <1>4, <2>5 DEF Read, StillCurrent
<1> QED
  BY <1>5, <1>6

\* A refreshed pair is of the user and the version of the one it replaces.
LEMMA SessionKeepsStep ==
    ASSUME TypeOK, SignsOnce, SignsForItsSession, SessionKeepsItsVersion, NEW r \in Reqs, Step(r)
    PROVE  SessionKeepsItsVersion'
<1>1. SUFFICES ASSUME NEW q \in RefreshReqs, q \in DOMAIN token', NEW t \in shown'[q]
               PROVE  token'[q].user = token'[t].user /\ token'[q].version = token'[t].version
  BY DEF SessionKeepsItsVersion
<1>2. q \in Reqs /\ q \in Issuers /\ q \notin RegisterReqs
  BY KindsOfCalls
<1>3. CASE q \in DOMAIN token
  <2>1. q # r
    BY <1>2, <1>3, Footprint DEF SignsOnce
  <2>2. shown'[q] = shown[q]
    BY <2>1, ShownStep
  <2>3. t \in DOMAIN token
    BY <1>1, <1>2, <2>2 DEF TypeOK
  <2>4. token'[q] = token[q] /\ token'[t] = token[t]
    BY <1>3, <2>3, TokensStay
  <2> QED
    BY <1>1, <1>3, <2>2, <2>4 DEF SessionKeepsItsVersion
<1>4. CASE q \notin DOMAIN token
  <2>1. q = r /\ token' # token
    BY <1>1, <1>4, TokensStay
  <2>2. pc[r] = "save" /\ UNCHANGED shown /\ \E c \in seen[r] : Issues(r, c)
    BY <1>2, <2>1, TokenStep
  <2>3. PICK c \in seen[r] : Issues(r, c)
    BY <2>2
  <2>4. token'[q] = c
    BY <2>1, <2>3 DEF Issues, Extend
  <2>5. t \in shown[r] /\ t \in DOMAIN token
    BY <1>1, <1>2, <2>1, <2>2 DEF TypeOK
  <2>6. token'[t] = token[t]
    BY <2>5, TokensStay
  <2> QED
    BY <1>1, <2>1, <2>2, <2>3, <2>4, <2>5, <2>6 DEF SignsForItsSession
<1> QED
  BY <1>3, <1>4
-----------------------------------------------------------------------------
\* The caller of a token that passed validate, and one that passed AdminGuard.
Current(t) == Live(token[t].user) \/ account[token[t].user].version > token[t].version
Acting(t) ==
    \/ account[token[t].user].admin /\ account[token[t].user].state = "live"
    \/ account[token[t].user].version > token[t].version

\* Both last while the accounts move forward.
LEMMA CallersLast ==
    ASSUME TypeOK, TypeOK', FreshTokensAreTrue, AccountMoves,
           NEW t \in DOMAIN token, t \in DOMAIN token', token'[t] = token[t]
    PROVE  (Current(t) => Current(t)') /\ (Acting(t) => Acting(t)')
<1> DEFINE a == account[token[t].user]
           b == account'[token[t].user]
<1>1. token[t].user \in Users /\ token[t].version \in Nat
  BY DEF TypeOK, Claims
<1>2. a.version \in Nat /\ b.version \in Nat
  BY <1>1 DEF TypeOK, Account
<1>3. MovesTo(a, b) /\ a.state # "none" /\ token[t].version <= a.version
  BY <1>1 DEF AccountMoves, FreshTokensAreTrue, TrueOf
<1>4. Current(t) <=> a.state = "live" \/ a.version > token[t].version
  BY DEF Current, Live
<1>5. Current(t)' <=> b.state = "live" \/ b.version > token[t].version
  BY DEF Current, Live
<1>6. Acting(t) <=> (a.admin /\ a.state = "live") \/ a.version > token[t].version
  BY DEF Acting
<1>7. Acting(t)' <=> (b.admin /\ b.state = "live") \/ b.version > token[t].version
  BY DEF Acting
<1> HIDE DEF a, b
<1> QED
  BY <1>1, <1>2, <1>3, <1>4, <1>5, <1>6, <1>7 DEF MovesTo

\* The statements of an administrator's call: the strategy, the guard, the service.
LEMMA AdminStep ==
    ASSUME TypeOK, NEW r \in AdminReqs, Step(r)
    PROVE  \/ Validate(r) /\ pc'[r] = "guard"
           \/ CanActivate(r) /\ UNCHANGED <<account, token, shown>>
           \/ /\ pc[r] \in {"before", "run", "audit"} /\ UNCHANGED <<token, shown>>
              /\ pc'[r] # "guard"
           \/ pc'[r] = "failed"
<1>1. /\ r \in Reqs /\ r \notin Issuers /\ r \notin LogoutReqs /\ r \notin LeaveReqs
      /\ r \notin SeedReqs
  BY ReqsAssumption, KindsOfCalls DEF AdminReqs, BearerReqs
<1>2. Refused(r) => pc'[r] = "failed"
  BY <1>1 DEF Refused, Goes, TypeOK
<1>3. CASE Validate(r)
  BY <1>1, <1>3 DEF Validate, Goes, TypeOK
<1>4. CASE CanActivate(r)
  BY <1>2, <1>4 DEF CanActivate
<1>5. ASSUME NEW admin \in BOOLEAN, SelectBefore(r, admin) \/ SetRole(r, admin)
      PROVE  \/ pc'[r] = "failed"
             \/ /\ pc[r] \in {"before", "run", "audit"} /\ UNCHANGED <<token, shown>>
                /\ pc'[r] # "guard"
  BY <1>1, <1>2, <1>5 DEF SelectBefore, SetRole, Goes, TypeOK
<1>6. CASE LogAdminAction(r)
  BY <1>1, <1>6 DEF LogAdminAction, Goes, TypeOK
<1>7. CASE SetStatus(r)
  BY <1>1, <1>2, <1>7 DEF SetStatus, Goes, TypeOK
<1>8. CASE SetDeleted(r, Target[r], "audit")
  BY <1>1, <1>2, <1>8 DEF SetDeleted, Goes, TypeOK
<1>9. r \notin RegisterReqs /\ r \notin SignInReqs /\ r \notin RefreshReqs
  BY <1>1 DEF Issuers
<1> QED
  BY <1>1, <1>2, <1>3, <1>4, <1>5, <1>6, <1>7, <1>8, <1>9 DEF Step

\* AdminGuard sees a caller who is there, and lets only administrators act.
LEMMA CallersStep ==
    ASSUME TypeOK, TypeOK', SignsOnce, PresentsOne, FreshTokensAreTrue, GuardSeesACaller,
           AdministratorsAct, NEW r \in Reqs, Step(r)
    PROVE  GuardSeesACaller' /\ AdministratorsAct'
<1>1. AccountMoves
  BY StepMoves
<1>2. ASSUME NEW q \in AdminReqs, NEW t \in shown[q]
      PROVE  (Current(t) => Current(t)') /\ (Acting(t) => Acting(t)')
  <2>1. t \in DOMAIN token
    BY <1>2, KindsOfCalls DEF TypeOK
  <2>2. t \in DOMAIN token' /\ token'[t] = token[t]
    BY <2>1, TokensStay
  <2> QED
    BY <1>1, <2>1, <2>2, CallersLast
<1>3. ASSUME NEW q \in AdminReqs
      PROVE  /\ pc'[q] = "guard" => \E t \in shown'[q] : Current(t)'
             /\ pc'[q] \in {"before", "run", "audit"} => \E t \in shown'[q] : Acting(t)'
  <2>0. q \in Reqs
    BY KindsOfCalls
  <2>1. pc[q] = "guard" => \E t \in shown[q] : Current(t)
    BY DEF GuardSeesACaller, Current
  <2>2. pc[q] \in {"before", "run", "audit"} => \E t \in shown[q] : Acting(t)
    BY DEF AdministratorsAct, Acting
  <2>3. CASE q # r
    <3>1. pc'[q] = pc[q] /\ shown'[q] = shown[q]
      BY <2>0, <2>3, Footprint, ShownStep DEF TypeOK, Goes
    <3> QED
      BY <3>1, <2>1, <2>2, <1>2
  <2>4. CASE q = r /\ Validate(r) /\ pc'[r] = "guard"
    <3>1. PICK t \in DOMAIN token : /\ Live(token[t].user) /\ shown'[r] = {t}
                                    /\ UNCHANGED <<account, token>>
      BY <2>4 DEF Validate, TypeOK
    <3>2. Current(t)'
      BY <3>1 DEF Current, Live
    <3> QED
      BY <2>4, <3>1, <3>2
  <2>5. CASE q = r /\ CanActivate(r) /\ UNCHANGED <<account, token, shown>>
    <3>1. PICK t \in shown[r] : (IsAdmin(t) \/ pc'[r] = "failed") /\ pc[r] = "guard"
      BY <2>0, <2>5 DEF CanActivate, Refused, Goes, TypeOK
    <3>2. Current(t)
      BY <2>1, <2>5, <3>1 DEF PresentsOne
    <3>3. IsAdmin(t) => Acting(t)
      BY <3>2 DEF IsAdmin, Acting, Current, Live
    <3>4. pc'[r] # "guard"
      BY <2>0, <2>5 DEF CanActivate, Refused, Goes, TypeOK
    <3> QED
      BY <2>5, <3>1, <3>3, <3>4, <1>2
  <2>6. CASE /\ q = r /\ pc[r] \in {"before", "run", "audit"} /\ UNCHANGED <<token, shown>>
             /\ pc'[r] # "guard"
    BY <2>2, <2>6, <1>2
  <2>7. CASE q = r /\ pc'[r] = "failed"
    BY <2>7
  <2> QED
    BY <2>3, <2>4, <2>5, <2>6, <2>7, AdminStep
<1> QED
  BY <1>3 DEF GuardSeesACaller, AdministratorsAct, Current, Acting
-----------------------------------------------------------------------------
\* Nothing has happened yet.
LEMMA InitInv ==
    ASSUME Init
    PROVE  SessionsInv
<1>1. OldTokens \cap Issuers = {}
  BY KindsOfCalls
<1>2. TypeOK
  BY InitialAssumption DEF Init, TypeOK, PC, Tokens
<1>3. FreshTokensAreTrue
  BY InitialAssumption DEF Init, FreshTokensAreTrue
<1>4. /\ SeenIsTrue /\ SignsForItsSession /\ PresentsOne /\ ConsumedByItsCall /\ ExchangedOnce
      /\ GuardSeesACaller /\ AdministratorsAct
  BY KindsOfCalls
  DEF Init, SeenIsTrue, SignsForItsSession, PresentsOne, ConsumedByItsCall, ExchangedOnce,
      GuardSeesACaller, AdministratorsAct
<1>5. SignsOnce
  BY <1>1, InitialAssumption DEF Init, SignsOnce
<1>6. SessionKeepsItsVersion
  BY KindsOfCalls DEF Init, SessionKeepsItsVersion
<1> QED
  BY <1>2, <1>3, <1>4, <1>5, <1>6 DEF SessionsInv

\* Every step keeps the invariant.
LEMMA NextInv ==
    ASSUME SessionsInv, [Next]_vars
    PROVE  SessionsInv'
<1>1. CASE Next
  <2>1. PICK r \in Reqs : Step(r)
    BY <1>1, NextIsAStep
  <2>2. TypeOK'
    BY <2>1, TypeStep DEF SessionsInv
  <2>3. FreshTokensAreTrue' /\ SeenIsTrue'
    BY <2>1, <2>2, FreshTokensStep, SeenIsTrueStep DEF SessionsInv
  <2>4. SignsOnce' /\ SignsForItsSession' /\ SessionKeepsItsVersion'
    BY <2>1, SignsOnceStep, SignsForItsSessionStep, SessionKeepsStep DEF SessionsInv
  <2>5. PresentsOne' /\ ConsumedByItsCall' /\ ExchangedOnce'
    BY <2>1, PresentsOneStep, ConsumedStep, ExchangedOnceStep DEF SessionsInv
  <2>6. GuardSeesACaller' /\ AdministratorsAct'
    BY <2>1, <2>2, CallersStep DEF SessionsInv
  <2> QED
    BY <2>2, <2>3, <2>4, <2>5, <2>6 DEF SessionsInv
<1>2. CASE UNCHANGED vars
  BY <1>2
  DEF vars, SessionsInv, TypeOK, FreshTokensAreTrue, SeenIsTrue, TrueOf, SignsOnce,
      SignsForItsSession, SessionKeepsItsVersion, PresentsOne, ConsumedByItsCall, ExchangedOnce,
      GuardSeesACaller, AdministratorsAct, Live
<1> QED
  BY <1>1, <1>2

\* The inductive invariant of accounts, tokens and calls.
THEOREM SessionsInvariant == Spec => []SessionsInv
BY InitInv, NextInv, PTL DEF Spec

\* token_version: a pair with the account's version says nothing wrong about it,
\* however roles change between the SELECT and the signature.
THEOREM TokensAreTrue == Spec => []FreshTokensAreTrue
<1>1. SessionsInv => FreshTokensAreTrue
  BY DEF SessionsInv
<1> QED
  BY <1>1, SessionsInvariant, PTL

\* AdminGuard: who acts as an administrator is one, or lost the version of the
\* token while the call ran.
THEOREM OnlyAdministratorsAct == Spec => []AdministratorsAct
<1>1. SessionsInv => AdministratorsAct
  BY DEF SessionsInv
<1> QED
  BY <1>1, SessionsInvariant, PTL

\* consumeRefreshTokenJti: one call exchanges a refresh token.
THEOREM OneExchange == Spec => []ExchangedOnce
<1>1. SessionsInv => ExchangedOnce
  BY DEF SessionsInv
<1> QED
  BY <1>1, SessionsInvariant, PTL

\* refresh: a session keeps its user and its version.
THEOREM SessionsKeepVersion == Spec => []SessionKeepsItsVersion
<1>1. SessionsInv => SessionKeepsItsVersion
  BY DEF SessionsInv
<1> QED
  BY <1>1, SessionsInvariant, PTL

\* A refresh token that was consumed or revoked never comes back.
THEOREM DeadTokens == Spec => DeadTokensStayDead
<1>1. ASSUME SessionsInv, [Next]_vars
      PROVE  [\A t \in DOMAIN row : row[t] # "valid" => row'[t] = row[t]]_vars
  <2>1. CASE Next
    <3>1. PICK r \in Reqs : Step(r)
      BY <2>1, NextIsAStep
    <3> QED
      BY <1>1, <3>1, DeadRowsStep DEF SessionsInv
  <2> QED
    BY <1>1, <2>1
<1> QED
  BY <1>1, SessionsInvariant, PTL DEF Spec, DeadTokensStayDead

-----------------------------------------------------------------------------
\* The audit log: a call that is to be told has written, or came after a deletion; and a
\* call past its SELECT names a user who was there.
RoleReqs == PromoteReqs \cup DemoteReqs
Caused(r) == seen[r] # {} \/ (r \in RoleReqs /\ account[Target[r]].state = "deleted")
AuditInv ==
    /\ \A r \in AdminReqs : r \in audit \/ pc[r] = "audit" => Caused(r)
    /\ \A r \in RoleReqs : pc[r] = "run" => account[Target[r]].state # "none"

\* Nobody comes back.
LEMMA DeletedStays ==
    ASSUME TypeOK, NEW r \in Reqs, Step(r), NEW u \in Users, account[u].state = "deleted"
    PROVE  account'[u].state = "deleted"
<1>0. account \in [Users -> Account] /\ Target[r] \in Users
  BY ReqsAssumption DEF TypeOK
<1>1. CASE UNCHANGED account
  BY <1>1
<1>2. CASE \E admin \in BOOLEAN : SetRole(r, admin)
  <2>1. PICK admin \in BOOLEAN : SetRole(r, admin)
    BY <1>2
  <2>2. CASE Target[r] = u
    BY <2>1, <2>2 DEF SetRole, Live
  <2>3. CASE Target[r] # u
    BY <1>0, <2>1, <2>3 DEF SetRole
  <2> QED  BY <2>2, <2>3
<1>3. CASE SetStatus(r)
  <2>1. CASE Target[r] = u
    BY <1>3, <2>1 DEF SetStatus, Live, Refused
  <2>2. CASE Target[r] # u
    BY <1>0, <1>3, <2>2 DEF SetStatus, Refused
  <2> QED  BY <2>1, <2>2
<1>4. ASSUME NEW v \in Users, NEW next, SetDeleted(r, v, next) PROVE account'[u].state = "deleted"
  <2>1. CASE v = u
    BY <1>4, <2>1 DEF SetDeleted, Live, Refused
  <2>2. CASE v # u
    BY <1>0, <1>4, <2>2 DEF SetDeleted, Refused
  <2> QED  BY <2>1, <2>2
<1>5. CASE VerifyRegistrationOtp(r)
  <2>1. Target[r] # u
    BY <1>5 DEF VerifyRegistrationOtp
  <2> QED  BY <1>0, <1>5, <2>1 DEF VerifyRegistrationOtp
<1>6. CASE SeedAdminUser(r)
  <2>1. CASE Target[r] = u
    <3>1. account'[u] = [account[u] EXCEPT !.active = TRUE, !.admin = TRUE]
      BY <1>0, <1>6, <2>1 DEF SeedAdminUser
    <3>2. [account[u] EXCEPT !.active = TRUE, !.admin = TRUE].state = account[u].state
      BY <1>0 DEF Account
    <3> QED  BY <3>1, <3>2
  <2>2. CASE Target[r] # u
    BY <1>0, <1>6, <2>2 DEF SeedAdminUser
  <2> QED  BY <2>1, <2>2
<1>7. \A t \in shown[r] : token[t].user \in Users
  BY DEF TypeOK, Claims
<1> QED  BY <1>0, <1>1, <1>2, <1>3, <1>4, <1>5, <1>6, <1>7
         DEF Step, SelectAccount, SaveRefreshToken, ConsumeRefreshTokenJti, SelectSession, Validate,
             CanActivate, Logout, SelectBefore, LogAdminAction, Refused

\* What a call saw is never forgotten, and the log grows by the call that writes to it.
LEMMA SeenStays ==
    ASSUME TypeOK, NEW r \in Reqs, Step(r)
    PROVE  /\ \A q \in Reqs : seen[q] # {} => seen'[q] # {}
           /\ audit' = audit \/ (pc[r] = "audit" /\ audit' = audit \cup {r})
<1>0. seen \in [Reqs -> SUBSET Claims]
  BY SMTT(30) DEF TypeOK
<1>1. \/ seen' = seen \/ \E c : seen' = [seen EXCEPT ![r] = {c}]
  BY DEF Step, VerifyRegistrationOtp, SelectAccount, SaveRefreshToken, ConsumeRefreshTokenJti,
         SelectSession, Validate, CanActivate, Logout, SelectBefore, SetRole, LogAdminAction,
         SetStatus, SetDeleted, SeedAdminUser, Refused
<1>2. audit' = audit \/ (pc[r] = "audit" /\ audit' = audit \cup {r})
  BY DEF Step, VerifyRegistrationOtp, SelectAccount, SaveRefreshToken, ConsumeRefreshTokenJti,
         SelectSession, Validate, CanActivate, Logout, SelectBefore, SetRole, LogAdminAction,
         SetStatus, SetDeleted, SeedAdminUser, Refused
<1> QED  BY <1>0, <1>1, <1>2

\* An administrator's call comes to the log through its UPDATE.
LEMMA ToTheLog ==
    ASSUME TypeOK, AuditInv, NEW r \in AdminReqs, Step(r)
    PROVE  /\ pc'[r] = "audit" => Caused(r)'
           /\ r \in RoleReqs /\ pc'[r] = "run" => account'[Target[r]].state # "none"
<1>0. /\ r \in Reqs /\ Target[r] \in Users /\ pc \in [Reqs -> PC] /\ seen \in [Reqs -> SUBSET Claims]
      /\ account \in [Users -> Account] /\ RoleReqs \subseteq AdminReqs
      /\ r \notin Issuers /\ r \notin LogoutReqs /\ r \notin LeaveReqs /\ r \notin SeedReqs
  BY KindsOfCalls, ReqsAssumption DEF TypeOK, RoleReqs, AdminReqs, BearerReqs
<1>1. CASE r \in RoleReqs /\ \E admin \in BOOLEAN : SetRole(r, admin)
  <2>1. pc'[r] = "audit" /\ pc[r] = "run"
    BY <1>0, <1>1 DEF SetRole, Goes
  <2>2. CASE Live(Target[r])
    BY <1>0, <1>1, <2>1, <2>2 DEF SetRole, Caused
  <2>3. CASE ~Live(Target[r])
    <3>1. account[Target[r]].state = "deleted" /\ account' = account
      BY <1>0, <1>1, <2>1, <2>3 DEF SetRole, AuditInv, Live, Account
    <3> QED  BY <1>1, <2>1, <3>1 DEF Caused
  <2> QED  BY <2>2, <2>3
<1>2. CASE SetStatus(r) \/ SetDeleted(r, Target[r], "audit")
  <2>1. pc'[r] \in {"audit", "failed"}
    BY <1>0, <1>2 DEF SetStatus, SetDeleted, Goes, Refused
  <2>2. pc'[r] = "audit" => seen'[r] # {}
    BY <1>0, <1>2 DEF SetStatus, SetDeleted, Goes, Refused
  <2> QED  BY <2>1, <2>2 DEF Caused
<1>3. CASE \E admin \in BOOLEAN : SelectBefore(r, admin)
  BY <1>0, <1>3 DEF SelectBefore, Found, Live, Goes, Refused
<1>4. CASE CanActivate(r)
  <2>1. pc'[r] # "audit" /\ (pc'[r] = "run" => r \notin RoleReqs)
    BY <1>0, <1>4 DEF CanActivate, Goes, Refused, RoleReqs
  <2> QED  BY <2>1
<1>5. CASE Validate(r) \/ LogAdminAction(r) \/ Refused(r)
  <2>1. pc'[r] \in {"guard", "done", "failed"}
    BY <1>0, <1>5 DEF Validate, LogAdminAction, Goes, Refused
  <2> QED  BY <2>1
<1> QED  BY <1>0, <1>1, <1>2, <1>3, <1>4, <1>5, KindsOfCalls DEF Step, RoleReqs

LEMMA AuditStep == ASSUME TypeOK, AuditInv, NEW r \in Reqs, Step(r) PROVE AuditInv'
<1>0. /\ AdminReqs \subseteq Reqs /\ RoleReqs \subseteq AdminReqs /\ pc \in [Reqs -> PC]
      /\ \A q \in Reqs : Target[q] \in Users
  BY KindsOfCalls, ReqsAssumption DEF TypeOK, RoleReqs, AdminReqs
<1>1. \A q \in Reqs \ {r} : pc'[q] = pc[q]
  BY <1>0, Footprint DEF Goes
<1>2. ASSUME NEW q \in AdminReqs, Caused(q) PROVE Caused(q)'
  BY <1>0, <1>2, SeenStays, DeletedStays DEF Caused
<1>3. ASSUME NEW q \in AdminReqs, q \in audit' \/ pc'[q] = "audit" PROVE Caused(q)'
  <2>1. CASE q \in audit \/ pc[q] = "audit"
    BY <1>2, <2>1 DEF AuditInv
  <2>2. CASE ~(q \in audit \/ pc[q] = "audit")
    <3>1. q = r /\ pc'[q] = "audit"
      BY <1>0, <1>1, <1>3, <2>2, SeenStays
    <3> QED  BY <3>1, ToTheLog
  <2> QED  BY <2>1, <2>2
<1>4. ASSUME NEW q \in RoleReqs, pc'[q] = "run" PROVE account'[Target[q]].state # "none"
  <2>1. CASE q = r
    BY <1>0, <1>4, <2>1, ToTheLog
  <2>2. CASE q # r
    <3>1. account[Target[q]].state # "none"
      BY <1>0, <1>1, <1>4, <2>2 DEF AuditInv
    <3> QED  BY <1>0, <3>1, StepMoves DEF AccountMoves, MovesTo
  <2> QED  BY <2>1, <2>2
<1> QED  BY <1>3, <1>4 DEF AuditInv

\* logAdminAction: what the audit log tells has happened, or its user was deleted first.
THEOREM AuditedCallsHappened == Spec => []AuditHasACause
<1>1. Init => AuditInv
  BY DEF Init, AuditInv, RoleReqs, AdminReqs, BearerReqs, Reqs
<1>2. SessionsInv /\ AuditInv /\ [Next]_vars => AuditInv'
  <2> SUFFICES ASSUME SessionsInv, AuditInv, [Next]_vars PROVE AuditInv'
    OBVIOUS
  <2>1. CASE Next
    BY <2>1, NextIsAStep, AuditStep DEF SessionsInv
  <2>2. CASE UNCHANGED vars
    BY <2>2 DEF vars, AuditInv, Caused
  <2> QED  BY <2>1, <2>2
<1>3. SessionsInv /\ AuditInv => AuditHasACause
  BY DEF SessionsInv, TypeOK, AuditInv, Caused, AuditHasACause, RoleReqs
<1> QED  BY <1>1, <1>2, <1>3, SessionsInvariant, PTL DEF Spec
=============================================================================
