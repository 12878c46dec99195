------------------------------ MODULE Sessions ------------------------------
(***************************************************************************)
(* Accounts, roles and refresh tokens: AuthService with AuthStateStore,    *)
(* JwtStrategy, AdminGuard, AdminService, deleteMe and seedAdminUser, one  *)
(* action per SQL statement.                                               *)
(*                                                                         *)
(* A token pair carries what the server read when it signed it: the user,  *)
(* is_admin and token_version.  The access token is checked against the    *)
(* account at every request, the refresh token once, when it is exchanged  *)
(* for a new pair.  Passwords, one-time passwords and the expiry of tokens *)
(* only decide whether a call goes on: a call refused before its first     *)
(* write is a call not made, and no step.  The keys that Redis keeps       *)
(* beside the rows of auth_refresh_tokens are never read.                  *)
(***************************************************************************)
EXTENDS Naturals, FiniteSets

CONSTANTS
    Users,          \* ids of users, registered or not yet registered
    OldTokens,      \* token pairs issued before the first call
    RegisterReqs,   \* POST /auth/register/verify
    LoginReqs,      \* POST /auth/login
    ResetReqs,      \* POST /auth/password/reset
    RefreshReqs,    \* POST /auth/refresh
    LogoutReqs,     \* POST /auth/logout
    LeaveReqs,      \* DELETE /users/me
    PromoteReqs, DemoteReqs, StatusReqs, DeleteReqs,  \* calls of administrators
    SeedReqs,       \* runs of the administrator seeder
    Rounds,         \* which of them are made: one of these sets
    Target,         \* the user a call names, by email or by id
    Held,           \* the token pairs the caller may present
    InitialAccount, \* users before the first call
    InitialToken    \* what the old tokens say

AdminReqs == PromoteReqs \cup DemoteReqs \cup StatusReqs \cup DeleteReqs
BearerReqs == AdminReqs \cup LogoutReqs \cup LeaveReqs
SignInReqs == LoginReqs \cup ResetReqs
Issuers == RegisterReqs \cup SignInReqs \cup RefreshReqs
Reqs == Issuers \cup BearerReqs \cup SeedReqs
Tokens == OldTokens \cup Issuers

Account == [state : {"none", "live", "deleted"}, active : BOOLEAN,
            admin : BOOLEAN, version : Nat]
Claims == [user : Users, admin : BOOLEAN, version : Nat]

\* A claim about an account is true of it as long as the version is the same.
TrueOf(c, accounts) == LET a == accounts[c.user] IN
    /\ a.state # "none"
    /\ c.version <= a.version
    /\ c.version = a.version => a.state = "live" /\ (c.admin => a.admin)

ASSUME ReqsAssumption ==
    /\ RegisterReqs \cap (SignInReqs \cup RefreshReqs \cup BearerReqs \cup SeedReqs) = {}
    /\ SignInReqs \cap (RefreshReqs \cup BearerReqs \cup SeedReqs) = {}
    /\ RefreshReqs \cap (BearerReqs \cup SeedReqs) = {}
    /\ BearerReqs \cap SeedReqs = {}
    /\ LogoutReqs \cap (LeaveReqs \cup AdminReqs) = {} /\ LeaveReqs \cap AdminReqs = {}
    /\ PromoteReqs \cap (DemoteReqs \cup StatusReqs \cup DeleteReqs) = {}
    /\ DemoteReqs \cap (StatusReqs \cup DeleteReqs) = {} /\ StatusReqs \cap DeleteReqs = {}
    /\ OldTokens \cap Reqs = {}
    /\ Rounds \subseteq SUBSET Reqs
    /\ Target \in [Reqs -> Users]
    /\ Held \in [Reqs -> SUBSET Tokens]

ASSUME InitialAssumption ==
    /\ InitialAccount \in [Users -> Account]
    /\ InitialToken \in [OldTokens -> Claims]
    /\ \A t \in OldTokens : TrueOf(InitialToken[t], InitialAccount)

VARIABLES
    account,  \* rows of users
    token,    \* payloads of the token pairs issued so far, by the issuing call
    row,      \* their rows in auth_refresh_tokens
    audit,    \* calls with a row in admin_audit_logs
    pc,       \* where each call is
    seen,     \* the account row its SELECT or UPDATE found (none or one)
    shown     \* the token it was accepted with or exchanges (none or one)

vars == <<account, token, row, audit, pc, seen, shown>>

Init ==
    /\ account = InitialAccount
    /\ token = InitialToken
    /\ row = [t \in OldTokens |-> "valid"]
    /\ audit = {}
    /\ \E round \in Rounds : pc = [r \in Reqs |-> IF r \in round THEN "new" ELSE "unmade"]
    /\ seen = [r \in Reqs |-> {}]
    /\ shown = [r \in Reqs |-> {}]

-----------------------------------------------------------------------------
(* Shared steps *)

Live(u) == account[u].state = "live"
Read(u) == [user |-> u, admin |-> account[u].admin, version |-> account[u].version]
Extend(f, x, v) == [y \in DOMAIN f \cup {x} |-> IF y = x THEN v ELSE f[y]]

Goes(r, there) == pc' = [pc EXCEPT ![r] = there]
Refused(r) == Goes(r, "failed") /\ UNCHANGED <<account, token, row, audit, seen, shown>>

\* generateTokens: sign the pair, INSERT INTO auth_refresh_tokens.
Issues(r, claims) ==
    /\ token' = Extend(token, r, claims)
    /\ row' = Extend(row, r, "valid")
    /\ Goes(r, "done")

\* A request that dies between two statements leaves what it wrote.
StatementFails(r) == pc[r] \notin {"unmade", "new", "revoke", "done", "failed"} /\ Refused(r)

-----------------------------------------------------------------------------
(* AuthService *)

\* verifyRegistrationOtp: the new user and the token row commit together.
VerifyRegistrationOtp(r) ==
    LET u == Target[r]
    IN  /\ pc[r] = "new"
        /\ account[u].state = "none"
        /\ account' = [account EXCEPT ![u] =
              [state |-> "live", active |-> TRUE, admin |-> FALSE, version |-> 0]]
        /\ Issues(r, [user |-> u, admin |-> FALSE, version |-> 0])
        /\ UNCHANGED <<audit, seen, shown>>

\* The SELECT of login and of resetPassword, then the password or the code.
SelectAccount(r) ==
    /\ pc[r] = "new"
    /\ Live(Target[r]) /\ account[Target[r]].active
    /\ seen' = [seen EXCEPT ![r] = {Read(Target[r])}]
    /\ Goes(r, "save")
    /\ UNCHANGED <<account, token, row, audit, shown>>

SaveRefreshToken(r) ==
    /\ pc[r] = "save"
    /\ \E claims \in seen[r] : Issues(r, claims)
    /\ UNCHANGED <<account, audit, seen, shown>>

Login(r) == SelectAccount(r) \/ SaveRefreshToken(r)
ResetPassword(r) == SelectAccount(r) \/ SaveRefreshToken(r)

\* DELETE FROM auth_refresh_tokens WHERE revoked_at IS NULL ... RETURNING.
\* ConsumableAgain: a consumed row is found again; ConsumableRevoked: a revoked one.
ConsumableAgain(t) == row[t] # "revoked"
ConsumableRevoked(t) == row[t] # "consumed"
Consumable(t) == row[t] = "valid"
ConsumeRefreshTokenJti(r) ==
    /\ pc[r] = "new"
    /\ \E t \in Held[r] \cap DOMAIN token :
          /\ Consumable(t)
          /\ row' = [row EXCEPT ![t] = "consumed"]
          /\ shown' = [shown EXCEPT ![r] = {t}]
    /\ Goes(r, "select")
    /\ UNCHANGED <<account, token, audit, seen>>

StillCurrent(t) ==
    LET u == token[t].user
    IN  Live(u) /\ account[u].active /\ account[u].version = token[t].version
SelectSession(r) ==
    /\ pc[r] = "select"
    /\ \E t \in shown[r] :
          IF StillCurrent(t)
          THEN /\ seen' = [seen EXCEPT ![r] = {Read(token[t].user)}]
               /\ Goes(r, "save")
               /\ UNCHANGED <<account, token, row, audit, shown>>
          ELSE Refused(r)

Refresh(r) == ConsumeRefreshTokenJti(r) \/ SelectSession(r) \/ SaveRefreshToken(r)

-----------------------------------------------------------------------------
(* JwtStrategy, AdminGuard *)

\* validate: the account is there and has the version of the access token.
Validate(r) ==
    /\ pc[r] = "new"
    /\ \E t \in Held[r] \cap DOMAIN token :
          /\ Live(token[t].user) /\ account[token[t].user].version = token[t].version
          /\ shown' = [shown EXCEPT ![r] = {t}]
    /\ Goes(r, IF r \in AdminReqs THEN "guard"
               ELSE IF r \in LogoutReqs THEN "revoke" ELSE "run")
    /\ UNCHANGED <<account, token, row, audit, seen>>

\* AdminGuard asks the table, not the token, and does not look at deleted_at.
\* IsThere asks for the row only.
IsThere(t) == account[token[t].user].state # "none"
IsAdmin(t) == account[token[t].user].admin
CanActivate(r) ==
    /\ pc[r] = "guard"
    /\ \E t \in shown[r] :
          IF IsAdmin(t)
          THEN /\ Goes(r, IF r \in PromoteReqs \cup DemoteReqs THEN "before" ELSE "run")
               /\ UNCHANGED <<account, token, row, audit, seen, shown>>
          ELSE Refused(r)

\* logout revokes the refresh token in the body, any that the caller holds, if
\* its row is still there; when the statement fails it answers all the same.  A
\* token that does not verify changes nothing.
Logout(r) ==
    /\ pc[r] = "revoke"
    /\ \E t \in Held[r] \cap DOMAIN token :
          /\ shown' = [shown EXCEPT ![r] = {t}]
          /\ \/ row[t] = "valid" /\ row' = [row EXCEPT ![t] = "revoked"]
             \/ UNCHANGED row
    /\ Goes(r, "done")
    /\ UNCHANGED <<account, token, audit, seen>>

-----------------------------------------------------------------------------
(* AdminService, deleteMe, seedAdminUser *)

\* The SELECT of promoteAdmin and demoteAdmin.
\* Another administrator's call only, for a demotion: admin.sub # userId.
Found(r, admin) == Live(Target[r]) /\ account[Target[r]].admin = admin
SelectBefore(r, admin) ==
    /\ pc[r] = "before"
    /\ IF Found(r, admin)
       THEN Goes(r, "run") /\ UNCHANGED <<account, token, row, audit, seen, shown>>
       ELSE Refused(r)

\* UPDATE users SET is_admin, token_version + 1: no row if deleted meanwhile.
\* NextVersionKept leaves the version alone.
NextVersionKept(u) == account[u].version
NextVersion(u) == account[u].version + 1
SetRole(r, admin) ==
    LET u == Target[r]
    IN  /\ pc[r] = "run"
        /\ IF Live(u)
           THEN /\ account' = [account EXCEPT ![u].admin = admin, ![u].version = NextVersion(u)]
                /\ seen' = [seen EXCEPT ![r] = {Read(u)}]
           ELSE UNCHANGED <<account, seen>>
        /\ Goes(r, "audit")
        /\ UNCHANGED <<token, row, audit, shown>>

\* logAdminAction: a failing INSERT is only logged.  Then Redis or the mapping
\* of a missing row may fail.
LogAdminAction(r) ==
    /\ pc[r] = "audit"
    /\ audit' \in {audit, audit \cup {r}}
    /\ \E end \in {"done", "failed"} : Goes(r, end)
    /\ UNCHANGED <<account, token, row, seen, shown>>

PromoteAdmin(r) == SelectBefore(r, FALSE) \/ SetRole(r, TRUE) \/ LogAdminAction(r)

NotOneself(r) == \A t \in shown[r] : token[t].user # Target[r]
DemoteAdmin(r) ==
    \/ NotOneself(r) /\ SelectBefore(r, TRUE)
    \/ ~NotOneself(r) /\ pc[r] = "before" /\ Refused(r)
    \/ SetRole(r, FALSE)
    \/ LogAdminAction(r)

\* A status of active, or paused or banned: the version stays.
SetStatus(r) ==
    LET u == Target[r]
    IN  /\ pc[r] = "run"
        /\ IF Live(u)
           THEN /\ \E active \in BOOLEAN : account' = [account EXCEPT ![u].active = active]
                /\ seen' = [seen EXCEPT ![r] = {Read(u)}]
                /\ Goes(r, "audit")
                /\ UNCHANGED <<token, row, audit, shown>>
           ELSE Refused(r)
UpdateUserStatus(r) == SetStatus(r) \/ LogAdminAction(r)

\* UPDATE users SET deleted_at, token_version + 1 WHERE deleted_at IS NULL.
\* SetDeletedAnyway does not look at the number of rows.
SetDeletedAnyway(r, u, next) ==
    /\ pc[r] = "run"
    /\ account' = IF Live(u) THEN [account EXCEPT ![u].state = "deleted", ![u].version = @ + 1]
                  ELSE account
    /\ seen' = IF Live(u) THEN [seen EXCEPT ![r] = {Read(u)}] ELSE seen
    /\ Goes(r, next)
    /\ UNCHANGED <<token, row, audit, shown>>
SetDeleted(r, u, next) ==
    /\ pc[r] = "run"
    /\ IF Live(u)
       THEN /\ account' = [account EXCEPT ![u].state = "deleted", ![u].version = NextVersion(u)]
            /\ seen' = [seen EXCEPT ![r] = {Read(u)}]
            /\ Goes(r, next)
            /\ UNCHANGED <<token, row, audit, shown>>
       ELSE Refused(r)
DeleteUser(r) == SetDeleted(r, Target[r], "audit") \/ LogAdminAction(r)
DeleteMe(r) == \E t \in shown[r] : SetDeleted(r, token[t].user, "done")

\* seedAdminUser inserts the administrator or makes an existing user, deleted or
\* not, an active one; the version stays.
SeedAdminUser(r) ==
    LET u == Target[r]
    IN  /\ pc[r] = "new"
        /\ account' = [account EXCEPT ![u] =
              IF @.state = "none"
              THEN [state |-> "live", active |-> TRUE, admin |-> TRUE, version |-> 0]
              ELSE [@ EXCEPT !.active = TRUE, !.admin = TRUE]]
        /\ Goes(r, "done")
        /\ UNCHANGED <<token, row, audit, seen, shown>>

-----------------------------------------------------------------------------
Next ==
    \/ \E r \in RegisterReqs : VerifyRegistrationOtp(r)
    \/ \E r \in LoginReqs : Login(r)
    \/ \E r \in ResetReqs : ResetPassword(r)
    \/ \E r \in RefreshReqs : Refresh(r)
    \/ \E r \in BearerReqs : Validate(r)
    \/ \E r \in AdminReqs : CanActivate(r)
    \/ \E r \in LogoutReqs : Logout(r)
    \/ \E r \in PromoteReqs : PromoteAdmin(r)
    \/ \E r \in DemoteReqs : DemoteAdmin(r)
    \/ \E r \in StatusReqs : UpdateUserStatus(r)
    \/ \E r \in DeleteReqs : DeleteUser(r)
    \/ \E r \in LeaveReqs : DeleteMe(r)
    \/ \E r \in SeedReqs : SeedAdminUser(r)
    \/ \E r \in Reqs : StatementFails(r)

Spec == Init /\ [][Next]_vars
-----------------------------------------------------------------------------
(* Properties *)

PC == {"unmade", "new", "save", "select", "guard", "before", "run", "audit", "revoke", "done", "failed"}

\* The shape of the state.
TypeOK ==
    /\ account \in [Users -> Account]
    /\ token \in [DOMAIN token -> Claims]
    /\ DOMAIN token \subseteq Tokens
    /\ row \in [DOMAIN token -> {"valid", "revoked", "consumed"}]
    /\ audit \subseteq AdminReqs
    /\ pc \in [Reqs -> PC]
    /\ seen \in [Reqs -> SUBSET Claims]
    /\ shown \in [Reqs -> SUBSET DOMAIN token]

\* token_version: a token pair whose version is the account's says nothing wrong
\* about it.  The account is not deleted, and who is called an administrator is
\* one.  This holds although the values were read some statements before the
\* pair was signed, and roles change meanwhile.
FreshTokensAreTrue == \A t \in DOMAIN token : TrueOf(token[t], account)

\* AdminGuard runs before the handler: when an administrator's call writes, its
\* caller is an administrator still, or lost the role or the account (and with it
\* the version of its token) while the call ran.
AdministratorsAct ==
    \A r \in AdminReqs : pc[r] \in {"before", "run", "audit"} =>
        \E t \in shown[r] : LET a == account[token[t].user] IN
            \/ a.admin /\ a.state = "live"
            \/ a.version > token[t].version

\* consumeRefreshTokenJti: of the calls that show one refresh token, concurrent
\* or retried, one gets a new pair.
ExchangedOnce ==
    \A q, r \in RefreshReqs : q # r => shown[q] \cap shown[r] = {}

\* refresh never carries a session over a change of its token_version, nor to
\* another user.
SessionKeepsItsVersion ==
    \A r \in RefreshReqs \cap DOMAIN token : \A t \in shown[r] :
        token[r].user = token[t].user /\ token[r].version = token[t].version

\* revokeRefreshTokenJti, consumeRefreshTokenJti: a row that is gone or revoked
\* never opens a session again.
DeadTokensStayDead ==
    [][\A t \in DOMAIN row : row[t] # "valid" => row'[t] = row[t]]_vars

\* logAdminAction: what the audit log tells happened; of two deletions of a user
\* one is told.  But a promotion or demotion does not look at the number of rows
\* its UPDATE returned, and is told of a user who was deleted meanwhile.
AuditHasACause ==
    \A r \in audit :
        \/ seen[r] # {}
        \/ r \in PromoteReqs \cup DemoteReqs /\ account[Target[r]].state = "deleted"

\* The inductive invariant.  What a call read stays true until it signs, and a
\* refresh signs for the session it consumed; a call signs once; a row is consumed
\* by the call that shows it; a caller past the check of its version is not deleted
\* unless its version is over.
SeenIsTrue == \A r \in Issuers : \A c \in seen[r] : TrueOf(c, account)
SignsOnce == \A r \in Issuers \cap DOMAIN token : pc[r] = "done"
SignsForItsSession ==
    \A r \in RefreshReqs : pc[r] = "save" => \A t \in shown[r], c \in seen[r] :
        c.user = token[t].user /\ c.version = token[t].version
ConsumedByItsCall ==
    \A r \in RefreshReqs : /\ pc[r] = "new" => shown[r] = {}
                           /\ \A t \in shown[r] : row[t] = "consumed"
PresentsOne == \A r \in Reqs : \A s, t \in shown[r] : s = t
GuardSeesACaller ==
    \A r \in AdminReqs : pc[r] = "guard" => \E t \in shown[r] :
        Live(token[t].user) \/ account[token[t].user].version > token[t].version
SessionsInv ==
    /\ TypeOK
    /\ FreshTokensAreTrue /\ SeenIsTrue
    /\ SignsOnce /\ SignsForItsSession /\ SessionKeepsItsVersion
    /\ PresentsOne /\ ConsumedByItsCall /\ ExchangedOnce
    /\ GuardSeesACaller /\ AdministratorsAct

\* After logout answered, the refresh token it was given is no longer accepted,
\* as the authentication guide says.
LoggedOutTokensAreDead ==
    \A r \in LogoutReqs : pc[r] = "done" => \A t \in shown[r] : row[t] # "valid"
=============================================================================
