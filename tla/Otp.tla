-------------------------------- MODULE Otp ---------------------------------
(***************************************************************************)
(* One-time passwords and the registrations they confirm: the code half of *)
(* AuthService, ConsoleOtpSender and ResendOtpSender, the attempt counter  *)
(* of AuthStateStore and OtpCleanupTask, one action per SQL statement.     *)
(*                                                                         *)
(* A code is known by the call that sent it; codes of one purpose and one  *)
(* email are in the order they were sent in.  Whether a caller types the   *)
(* right code is his choice.  All codes live equally long, so those that   *)
(* have expired were sent before those that have not.  The token pair a    *)
(* successful call gets is the subject of Sessions, and the keys of Redis  *)
(* beside the counter are never read.                                      *)
(***************************************************************************)
EXTENDS Naturals, Sequences, FiniteSets

CONSTANTS
    Emails, Phones,
    RegisterReqs,    \* POST /auth/register
    ResendReqs,      \* POST /auth/register/resend-otp
    ForgotReqs,      \* POST /auth/password/request-otp
    VerifyReqs,      \* POST /auth/register/verify
    ResetReqs,       \* POST /auth/password/reset
    Rounds,          \* which of them are made: one of these sets
    Email,           \* the email a call names
    Phone,           \* the phone of a registration, or of an old account
    OldAccounts,     \* emails with an account before the first call
    MaxAttempts,     \* OTP_MAX_ATTEMPTS
    MaxLapses,       \* bound: how often attempt counters run out
    None

Senders == RegisterReqs \cup ResendReqs \cup ForgotReqs
Checks == VerifyReqs \cup ResetReqs
Reqs == Senders \cup Checks

ASSUME OtpAssumption ==
    /\ RegisterReqs \cap (ResendReqs \cup ForgotReqs \cup Checks) = {}
    /\ ResendReqs \cap (ForgotReqs \cup Checks) = {}
    /\ ForgotReqs \cap Checks = {} /\ VerifyReqs \cap ResetReqs = {}
    /\ Rounds \subseteq SUBSET Reqs
    /\ OldAccounts \subseteq Emails
    /\ Email \in [Reqs -> Emails]
    /\ Phone \in [RegisterReqs \cup OldAccounts -> Phones]
    /\ \A e, f \in OldAccounts : Phone[e] = Phone[f] => e = f
    /\ MaxAttempts \in Nat \ {0} /\ MaxLapses \in Nat
    /\ None \notin Reqs \cup Phones

Purposes == {"registration", "password_reset"}
Purpose(r) == IF r \in ForgotReqs \cup ResetReqs THEN "password_reset" ELSE "registration"

VARIABLES
    user,     \* rows of users by email: phone, the registration with the name,
              \* the reset with the password
    pending,  \* rows of pending_registrations by email
    saved,    \* registrations in the order their rows were written
    sent,     \* rows of auth_otps, by the calls that inserted them, oldest first
    expired,  \* how many of them have expired
    attempts, \* rows of auth_otp_attempts by email and purpose
    lapses,   \* how often a row of auth_otp_attempts ran out
    pc,       \* where each call is
    found     \* the code a check compared with

vars == <<user, pending, saved, sent, expired, attempts, lapses, pc, found>>
tables == <<user, pending, saved, sent, expired, attempts, lapses>>

NoUser == [phone |-> None, by |-> None, password |-> None]
NoRow == [phone |-> None, by |-> None, valid |-> FALSE]

Init ==
    /\ user = [e \in Emails |->
                 IF e \in OldAccounts THEN [NoUser EXCEPT !.phone = Phone[e]] ELSE NoUser]
    /\ pending = [e \in Emails |-> NoRow]
    /\ saved = <<>> /\ sent = <<>> /\ expired = 0
    /\ attempts = [k \in Emails \X Purposes |-> 0]
    /\ lapses = 0
    /\ \E round \in Rounds : pc = [r \in Reqs |-> IF r \in round THEN "new" ELSE "unmade"]
    /\ found = [r \in Reqs |-> None]

-----------------------------------------------------------------------------
(* Shared steps *)

Goes(r, there) == pc' = [pc EXCEPT ![r] = there]
Passes(r, here, test, there) ==
    /\ pc[r] = here
    /\ Goes(r, IF test THEN there ELSE "failed")
    /\ UNCHANGED <<tables, found>>

HasAccount(e) == user[e].phone # None
HasPending(e) == pending[e].phone # None

\* startVerification inserts the code; then the mail may fail, or never be tried.
StartVerification(r) ==
    /\ pc[r] = "send"
    /\ sent' = Append(sent, r)
    /\ \E end \in {"done", "failed"} : Goes(r, end)
    /\ UNCHANGED <<user, pending, saved, expired, attempts, lapses, found>>

\* A call that dies between two statements leaves what it wrote.
StatementFails(r) ==
    /\ pc[r] \notin {"unmade", "new", "done", "failed", "invalid", "locked", "undone"}
    /\ Goes(r, IF pc[r] = "write" THEN "undone" ELSE "failed")
    /\ UNCHANGED <<tables, found>>

-----------------------------------------------------------------------------
(* requestRegistrationOtp, resendRegistrationOtp, requestPasswordResetOtp *)

SelectUsers(r) ==
    Passes(r, "new", \A e \in Emails : HasAccount(e) =>
                        e # Email[r] /\ user[e].phone # Phone[r], "pending")

\* LIMIT 1 picks any of the rows with this email or this phone.
SelectPending(r) ==
    LET rows == {e \in Emails : HasPending(e) /\ (e = Email[r] \/ pending[e].phone = Phone[r])}
    IN  \E e \in rows \cup {Email[r]} :
           /\ e = Email[r] => HasPending(e) \/ rows = {}
           /\ Passes(r, "pending", e = Email[r], "save")

\* INSERT ... ON CONFLICT (email) DO UPDATE; the phone is unique.
\* UpsertedOnce keeps the row that is there (DO NOTHING).
UpsertedOnce(r) ==
    IF HasPending(Email[r]) THEN pending
    ELSE [pending EXCEPT ![Email[r]] = [phone |-> Phone[r], by |-> r, valid |-> TRUE]]
Upserted(r) == [pending EXCEPT ![Email[r]] = [phone |-> Phone[r], by |-> r, valid |-> TRUE]]
SavePending(r) ==
    /\ pc[r] = "save"
    /\ IF \E e \in Emails \ {Email[r]} : pending[e].phone = Phone[r]
       THEN Goes(r, "failed") /\ UNCHANGED <<pending, saved>>
       ELSE Goes(r, "send") /\ pending' = Upserted(r) /\ saved' = Append(saved, r)
    /\ UNCHANGED <<user, sent, expired, attempts, lapses, found>>

RequestRegistrationOtp(r) ==
    SelectUsers(r) \/ SelectPending(r) \/ SavePending(r) \/ StartVerification(r)

ResendRegistrationOtp(r) ==
    \/ Passes(r, "new", pending[Email[r]].valid, "send")
    \/ StartVerification(r)

\* Without an account the answer is the same and no code is sent.
RequestPasswordResetOtp(r) ==
    \/ pc[r] = "new" /\ Goes(r, IF HasAccount(Email[r]) THEN "send" ELSE "done")
                     /\ UNCHANGED <<tables, found>>
    \/ StartVerification(r)

-----------------------------------------------------------------------------
(* checkVerification, incrementOtpAttempts, clearOtpAttempts *)

Key(r) == <<Email[r], Purpose(r)>>

\* The last code sent: its place in sent, if there is one.
\* CodesForAnyPurpose forgets the purpose.
CodesForAnyPurpose(r) == {n \in DOMAIN sent : Email[sent[n]] = Email[r]}
CodesFor(r) == {n \in DOMAIN sent : Key(sent[n]) = Key(r)}
Newest(r) == CHOOSE n \in CodesFor(r) : \A m \in CodesFor(r) : m <= n

SelectCode(r) ==
    /\ pc[r] = "new"
    /\ IF CodesFor(r) # {} /\ Newest(r) > expired
       THEN /\ found' = [found EXCEPT ![r] = sent[Newest(r)]]
            /\ \E there \in {"wrong", "right"} : Goes(r, there)
       ELSE Goes(r, "failed") /\ UNCHANGED found
    /\ UNCHANGED tables

\* INSERT ... ON CONFLICT DO UPDATE attempts + 1 RETURNING attempts.
\* LocksLate compares with >.
LocksLate(n) == n > MaxAttempts
Locks(n) == n >= MaxAttempts
IncrementOtpAttempts(r) ==
    /\ pc[r] = "wrong"
    /\ attempts' = [attempts EXCEPT ![Key(r)] = @ + 1]
    /\ Goes(r, IF Locks(attempts[Key(r)] + 1) THEN "lock" ELSE "invalid")
    /\ UNCHANGED <<user, pending, saved, sent, expired, lapses, found>>

ClearOtpAttempts(r, here, there) ==
    /\ pc[r] = here
    /\ attempts' = [attempts EXCEPT ![Key(r)] = 0]
    /\ Goes(r, there)
    /\ UNCHANGED <<user, pending, saved, sent, expired, lapses, found>>

CheckVerification(r) ==
    \/ SelectCode(r)
    \/ IncrementOtpAttempts(r)
    \/ ClearOtpAttempts(r, "lock", "locked")
    \/ ClearOtpAttempts(r, "right", "write")

-----------------------------------------------------------------------------
(* verifyRegistrationOtp, resetPassword: the check, then one transaction *)

\* users.email and users.phone are unique.  UniquePhone forgets the email.
UniquePhone(e, phone) == \A f \in Emails : user[f].phone # phone
Unique(e, phone) == ~HasAccount(e) /\ \A f \in Emails : user[f].phone # phone

CreateUser(r) ==
    LET e == Email[r]  row == pending[e]
    IN  /\ pc[r] = "write"
        /\ IF row.valid /\ Unique(e, row.phone)
           THEN /\ user' = [user EXCEPT ![e] = [phone |-> row.phone, by |-> row.by, password |-> row.by]]
                /\ pending' = [pending EXCEPT ![e] = NoRow]
                /\ Goes(r, "done")
           ELSE Goes(r, "undone") /\ UNCHANGED <<user, pending>>
        /\ UNCHANGED <<saved, sent, expired, attempts, lapses, found>>

SetPassword(r) ==
    /\ pc[r] = "write"
    /\ IF HasAccount(Email[r])
       THEN user' = [user EXCEPT ![Email[r]].password = r] /\ Goes(r, "done")
       ELSE Goes(r, "undone") /\ UNCHANGED user
    /\ UNCHANGED <<pending, saved, sent, expired, attempts, lapses, found>>

VerifyRegistrationOtp(r) == CheckVerification(r) \/ CreateUser(r)
ResetPassword(r) == CheckVerification(r) \/ SetPassword(r)

-----------------------------------------------------------------------------
(* Time and OtpCleanupTask *)

\* Time passes: the oldest code, a registration, a counter reaches its expires_at.
\* A counter that ran out starts again from nothing.
ExpireCode ==
    /\ expired < Len(sent)
    /\ expired' = expired + 1
    /\ UNCHANGED <<user, pending, saved, sent, attempts, lapses, pc, found>>
ExpirePending(e) ==
    /\ pending[e].valid
    /\ pending' = [pending EXCEPT ![e].valid = FALSE]
    /\ UNCHANGED <<user, saved, sent, expired, attempts, lapses, pc, found>>
ExpireAttempts(k) ==
    /\ attempts[k] > 0 /\ lapses < MaxLapses
    /\ attempts' = [attempts EXCEPT ![k] = 0]
    /\ lapses' = lapses + 1
    /\ UNCHANGED <<user, pending, saved, sent, expired, pc, found>>

\* purgeExpiredOtps: what expired a day ago is deleted; used_at is never set.
Kept(n) == SubSeq(sent, n + 1, Len(sent))
PurgeCodes ==
    /\ \E n \in 1..expired : sent' = Kept(n) /\ expired' = expired - n
    /\ UNCHANGED <<user, pending, saved, attempts, lapses, pc, found>>
PurgePending(e) ==
    /\ HasPending(e) /\ ~pending[e].valid
    /\ pending' = [pending EXCEPT ![e] = NoRow]
    /\ UNCHANGED <<user, saved, sent, expired, attempts, lapses, pc, found>>

-----------------------------------------------------------------------------
Next ==
    \/ \E r \in RegisterReqs : RequestRegistrationOtp(r)
    \/ \E r \in ResendReqs : ResendRegistrationOtp(r)
    \/ \E r \in ForgotReqs : RequestPasswordResetOtp(r)
    \/ \E r \in VerifyReqs : VerifyRegistrationOtp(r)
    \/ \E r \in ResetReqs : ResetPassword(r)
    \/ \E r \in Reqs : StatementFails(r)
    \/ ExpireCode \/ PurgeCodes
    \/ \E e \in Emails : ExpirePending(e) \/ PurgePending(e)
    \/ \E k \in Emails \X Purposes : ExpireAttempts(k)

Spec == Init /\ [][Next]_vars
-----------------------------------------------------------------------------
(* Properties *)

PC == {"unmade", "new", "pending", "save", "send", "wrong", "lock", "right", "write",
       "done", "failed", "invalid", "locked", "undone"}

\* The shape of the state.
TypeOK ==
    /\ user \in [Emails -> [phone : Phones \cup {None}, by : RegisterReqs \cup {None},
                            password : RegisterReqs \cup ResetReqs \cup {None}]]
    /\ pending \in [Emails -> [phone : Phones \cup {None}, by : RegisterReqs \cup {None},
                               valid : BOOLEAN]]
    /\ saved \in Seq(RegisterReqs)
    /\ sent \in Seq(Senders) /\ expired \in 0..Len(sent)
    /\ attempts \in [Emails \X Purposes -> Nat] /\ lapses \in 0..MaxLapses
    /\ pc \in [Reqs -> PC]
    /\ found \in [Reqs -> Senders \cup {None}]

\* verifyRegistrationOtp, resetPassword: the check is a call of its own before the
\* transaction.  Still, who has an account registered it, with one request's phone
\* and password, after typing a code that was sent to this email to register it;
\* and who set a password by a reset typed one sent to this email for a reset.
AccountsAreConfirmed ==
    \A e \in Emails :
        /\ HasAccount(e) /\ e \notin OldAccounts =>
              /\ user[e].by \in RegisterReqs
              /\ Email[user[e].by] = e /\ Phone[user[e].by] = user[e].phone
              /\ \E r \in VerifyReqs : /\ pc[r] = "done" /\ Email[r] = e
                                       /\ Key(found[r]) = <<e, "registration">>
        /\ user[e].password \in ResetReqs => LET r == user[e].password IN
              /\ pc[r] = "done" /\ Email[r] = e
              /\ Key(found[r]) = <<e, "password_reset">>

Place(q) == CHOOSE n \in DOMAIN saved : saved[n] = q

\* requestRegistrationOtp: who registers again replaces what he sent before, even
\* while a code is being checked: the account made is that of the request whose code
\* was typed, or of one saved later, never an older one.
AccountIsOfTheLatestRegistration ==
    \A r \in VerifyReqs :
        pc[r] = "done" /\ found[r] \in RegisterReqs => Place(user[Email[r]].by) >= Place(found[r])

\* verifyRegistrationOtp: of the calls that confirm registrations of an email,
\* concurrent or repeated, one makes the account, and no old account is replaced.
RegisteredOnce ==
    /\ \A q, r \in VerifyReqs : pc[q] = "done" /\ pc[r] = "done" /\ Email[q] = Email[r] => q = r
    /\ \A e \in OldAccounts : user[e].phone = Phone[e] /\ user[e].by = None

\* The availability of a phone is checked when a registration is requested and used
\* when it is confirmed: a phone has one account, and waits for one confirmation.
OnePhoneOneAccount ==
    \A e, f \in Emails : e # f =>
        /\ HasAccount(e) => user[e].phone # user[f].phone
        /\ HasPending(e) => pending[e].phone # pending[f].phone

Cleared == {"locked", "write", "done", "undone"}
Answered(k, ends) == {r \in Checks : Key(r) = k /\ pc[r] \in ends}

\* incrementOtpAttempts counts and clears in two statements, and concurrent calls lose
\* counts to each other's DELETE.  Still, MaxAttempts - 1 wrong codes at most are let
\* pass between two clearings of the counter, by a lock-out, a right code or time.
WrongCodesAreCounted ==
    \A k \in Emails \X Purposes :
        Cardinality(Answered(k, {"invalid"})) <=
            (MaxAttempts - 1) *
            (1 + lapses + Cardinality(Answered(k, Cleared)))

\* The inductive invariant.  The code a call compared with is one for its email and
\* purpose; a registration that waits is one request's; a confirmed one has its
\* account; the counter is at least what was let pass since it was cleared.
FoundIsItsKind ==
    \A r \in Checks :
        /\ pc[r] \notin {"unmade", "new", "failed"} => found[r] # None
        /\ found[r] # None => Key(found[r]) = Key(r)
PendingIsOneRequest ==
    \A e \in Emails :
        /\ pending[e].valid => HasPending(e)
        /\ HasPending(e) => /\ pending[e].by \in RegisterReqs
                            /\ Email[pending[e].by] = e
                            /\ Phone[pending[e].by] = pending[e].phone
ConfirmedHasAccount == \A r \in VerifyReqs : pc[r] = "done" => HasAccount(Email[r])
Counted(k) == IF attempts[k] < MaxAttempts THEN attempts[k] ELSE MaxAttempts - 1
CountersKeepUp ==
    \A k \in Emails \X Purposes :
        Cardinality(Answered(k, {"invalid"})) <=
            (MaxAttempts - 1) * (lapses + Cardinality(Answered(k, Cleared))) + Counted(k)
OtpInv ==
    /\ TypeOK
    /\ OnePhoneOneAccount
    /\ FoundIsItsKind /\ PendingIsOneRequest /\ ConfirmedHasAccount
    /\ RegisteredOnce /\ AccountsAreConfirmed
    /\ CountersKeepUp

\* After "Too many attempts - OTP invalidated" the code is not accepted any more.
InvalidatedCodesAreDead ==
    [][\A r \in Checks : pc[r] = "new" /\ pc'[r] = "right" =>
          \A q \in Checks : pc[q] = "locked" => found[q] # found'[r]]_vars

=============================================================================
