----------------------------- MODULE OtpProofs ------------------------------
(***************************************************************************)
(* Theorems about Otp, for all sets of emails, phones and calls, finite or *)
(* not.                                                                    *)
(*                                                                         *)
(* The counting argument is local: a wrong code that is let pass raises    *)
(* its counter by one, and what takes the counter down adds to the right   *)
(* side of CountersKeepUp the MaxAttempts - 1 it takes away.  The rest     *)
(* follows a registration from its row to the account.                     *)
(***************************************************************************)
EXTENDS Otp, TLAPS, FiniteSetTheorems, SequenceTheorems, WellFoundedInduction

\* A call goes on and writes nothing; a check only by dying.
Walks(r) ==
    \E there \in PC :
        /\ Goes(r, there) /\ UNCHANGED <<tables, found>>
        /\ pc[r] \notin {"unmade", "done", "failed", "invalid", "locked", "undone"}
        /\ r \in Checks => /\ pc[r] # "new" /\ there \in {"failed", "undone"}
                           /\ there = "undone" <=> pc[r] = "write"
        /\ r \in RegisterReqs =>
              \/ there \in {"failed", "undone"}
              \/ there \in {"pending", "save"} /\ pc[r] \in {"new", "pending"}

\* One step of call r, by statement.
Step(r) ==
    \/ Walks(r)
    \/ r \in RegisterReqs /\ SavePending(r)
    \/ r \in Senders /\ StartVerification(r)
    \/ r \in Checks /\ SelectCode(r)
    \/ r \in Checks /\ IncrementOtpAttempts(r)
    \/ r \in Checks /\ ClearOtpAttempts(r, "lock", "locked")
    \/ r \in Checks /\ ClearOtpAttempts(r, "right", "write")
    \/ r \in VerifyReqs /\ CreateUser(r)
    \/ r \in ResetReqs /\ SetPassword(r)

\* A step of time or of the clean-up.
Tick ==
    \/ ExpireCode
    \/ PurgeCodes
    \/ \E e \in Emails : ExpirePending(e)
    \/ \E e \in Emails : PurgePending(e)
    \/ \E k \in Emails \X Purposes : ExpireAttempts(k)

\* What the constants say about the kinds of calls.
LEMMA KindsOfCalls ==
    /\ Senders \subseteq Reqs /\ Checks \subseteq Reqs /\ Senders \cap Checks = {}
    /\ RegisterReqs \subseteq Senders /\ ResendReqs \subseteq Senders /\ ForgotReqs \subseteq Senders
    /\ VerifyReqs \subseteq Checks /\ ResetReqs \subseteq Checks /\ VerifyReqs \cap ResetReqs = {}
    /\ \A r \in Reqs : Email[r] \in Emails
    /\ \A r \in RegisterReqs : Phone[r] \in Phones
    /\ \A r \in VerifyReqs : Purpose(r) = "registration"
    /\ \A r \in ResetReqs : Purpose(r) = "password_reset"
    /\ None \notin Reqs /\ None \notin Phones
BY OtpAssumption DEF Senders, Checks, Reqs, Purpose

LEMMA KeyType ==
    ASSUME NEW r \in Reqs
    PROVE  Key(r) \in Emails \X Purposes
BY KindsOfCalls DEF Key, Purpose, Purposes

\* A test that refuses a call, or lets it go on, is a walk.
LEMMA PassesWalks ==
    ASSUME NEW r \in Senders, NEW here \in PC, NEW there \in {"pending", "save"},
           NEW test \in BOOLEAN, Passes(r, here, test, there), here \in {"new", "pending"}
    PROVE  Walks(r)
BY KindsOfCalls DEF Passes, Walks, PC

\* The disjuncts of Next, regrouped by statement.
LEMMA NextIsAStep ==
    ASSUME Next
    PROVE  Tick \/ \E r \in Reqs : Step(r)
<1>1. {"new", "pending", "save", "send", "done", "failed", "undone"} \subseteq PC
  BY DEF PC
<1>2. ASSUME NEW r \in RegisterReqs, RequestRegistrationOtp(r) PROVE Step(r)
  <2>1. SelectUsers(r) => Walks(r)
    BY <1>1, PassesWalks, KindsOfCalls DEF SelectUsers
  <2>2. SelectPending(r) => Walks(r)
    BY <1>1, PassesWalks, KindsOfCalls DEF SelectPending
  <2> QED
    BY <1>2, <2>1, <2>2, KindsOfCalls DEF Step, RequestRegistrationOtp
<1>3. ASSUME NEW r \in ResendReqs, ResendRegistrationOtp(r) PROVE Step(r)
  <2>1. Passes(r, "new", pending[Email[r]].valid, "send") => Walks(r)
    BY <1>1, KindsOfCalls, OtpAssumption DEF Passes, Walks
  <2> QED
    BY <1>3, <2>1, KindsOfCalls DEF Step, ResendRegistrationOtp
<1>4. ASSUME NEW r \in ForgotReqs, RequestPasswordResetOtp(r) PROVE Step(r)
  <2>1. /\ pc[r] = "new" /\ Goes(r, IF HasAccount(Email[r]) THEN "send" ELSE "done")
        /\ UNCHANGED <<tables, found>>
        => Walks(r)
    BY <1>1, KindsOfCalls, OtpAssumption DEF Walks
  <2> QED
    BY <1>4, <2>1, KindsOfCalls DEF Step, RequestPasswordResetOtp
<1>5. ASSUME NEW r \in Checks, CheckVerification(r) PROVE Step(r)
  BY <1>5 DEF Step, CheckVerification
<1>6. ASSUME NEW r \in VerifyReqs, VerifyRegistrationOtp(r) PROVE Step(r)
  BY <1>5, <1>6, KindsOfCalls DEF Step, VerifyRegistrationOtp
<1>7. ASSUME NEW r \in ResetReqs, ResetPassword(r) PROVE Step(r)
  BY <1>5, <1>7, KindsOfCalls DEF Step, ResetPassword
<1>8. ASSUME NEW r \in Reqs, StatementFails(r) PROVE Step(r)
  BY <1>1, <1>8 DEF Step, StatementFails, Walks
<1>9. ASSUME ExpireCode \/ PurgeCodes PROVE Tick
  BY <1>9 DEF Tick
<1>10. ASSUME NEW e \in Emails, ExpirePending(e) \/ PurgePending(e) PROVE Tick
  BY <1>10 DEF Tick
<1>11. ASSUME NEW k \in Emails \X Purposes, ExpireAttempts(k) PROVE Tick
  BY <1>11 DEF Tick
<1> QED
  BY <1>2, <1>3, <1>4, <1>6, <1>7, <1>8, <1>9, <1>10, <1>11, KindsOfCalls DEF Next
-----------------------------------------------------------------------------
\* A non-empty set of places has a last one.
LEMMA HasLast ==
    ASSUME NEW N \in Nat, NEW S \in SUBSET (1..N), S # {}
    PROVE  \E n \in S : \A m \in S : m <= n
<1> DEFINE T == {N - n : n \in S}
<1>1. T \subseteq Nat /\ T # {}
  <2>1. \A n \in S : N - n \in Nat
    OBVIOUS
  <2> QED
    BY <2>1
<1>2. PICK x \in T : \A y \in T : ~(<<y, x>> \in OpToRel(<, Nat))
  BY <1>1, WFMin, NatLessThanWellFounded
<1>3. x \in T /\ \A y \in T : ~(y < x)
  BY <1>1, <1>2 DEF OpToRel
<1>4. PICK n \in S : x = N - n
  BY <1>3
<1>5. \A m \in S : N - m \in T
  OBVIOUS
<1> HIDE DEF T
<1>6. \A m \in S : N - m >= N - n
  <2>1. \A m \in S : ~(N - m < N - n)
    BY <1>3, <1>4, <1>5
  <2> QED
    BY <2>1
<1> QED
  BY <1>6

\* checkVerification: the newest code for an email and purpose is one of them.
LEMMA NewestIsACode ==
    ASSUME TypeOK, NEW r \in Checks, CodesFor(r) # {}
    PROVE  /\ Newest(r) \in DOMAIN sent
           /\ sent[Newest(r)] \in Senders /\ Key(sent[Newest(r)]) = Key(r)
<1>1. Len(sent) \in Nat /\ DOMAIN sent = 1..Len(sent) /\ \A n \in DOMAIN sent : sent[n] \in Senders
  BY DEF TypeOK
<1>2. CodesFor(r) \in SUBSET (1..Len(sent))
  BY <1>1 DEF CodesFor
<1>3. \E n \in CodesFor(r) : \A m \in CodesFor(r) : m <= n
  BY <1>1, <1>2, HasLast
<1>4. Newest(r) \in CodesFor(r)
  BY <1>3 DEF Newest
<1> QED
  BY <1>1, <1>4 DEF CodesFor

\* Where a call may go.
LEMMA GoesType ==
    ASSUME TypeOK, NEW r \in Reqs, NEW there \in PC, Goes(r, there)
    PROVE  /\ pc' \in [Reqs -> PC]
           /\ pc'[r] = there
           /\ \A q \in Reqs : q # r => pc'[q] = pc[q]
BY DEF TypeOK, Goes

PendingRows == [phone : Phones \cup {None}, by : RegisterReqs \cup {None}, valid : BOOLEAN]
UserRows == [phone : Phones \cup {None}, by : RegisterReqs \cup {None},
             password : RegisterReqs \cup ResetReqs \cup {None}]

\* Time and the clean-up keep the shape of the state.
LEMMA TickType ==
    ASSUME TypeOK, Tick
    PROVE  TypeOK'
<1>1. CASE ExpireCode
  BY <1>1 DEF TypeOK, ExpireCode
<1>2. CASE PurgeCodes
  <2>1. PICK n \in 1..expired : sent' = Kept(n) /\ expired' = expired - n
    BY <1>2 DEF PurgeCodes
  <2>2. Len(sent) \in Nat /\ expired \in 0..Len(sent) /\ \A i \in 1..Len(sent) : sent[i] \in Senders
    BY DEF TypeOK
  <2>3. /\ SubSeq(sent, n + 1, Len(sent)) \in Seq(Senders)
        /\ Len(SubSeq(sent, n + 1, Len(sent))) = Len(sent) - n
    <3>1. n + 1 \in Int /\ Len(sent) \in Int /\ \A i \in (n + 1)..Len(sent) : sent[i] \in Senders
      BY <2>2
    <3>2. /\ SubSeq(sent, n + 1, Len(sent)) \in Seq(Senders)
          /\ Len(SubSeq(sent, n + 1, Len(sent))) =
                IF n + 1 <= Len(sent) THEN Len(sent) - (n + 1) + 1 ELSE 0
      BY <3>1, SubSeqProperties
    <3> QED
      BY <2>2, <3>2
  <2>4. sent' \in Seq(Senders) /\ expired' \in 0..Len(sent')
    BY <2>1, <2>2, <2>3 DEF Kept
  <2> QED
    BY <1>2, <2>4 DEF TypeOK, PurgeCodes
<1>3. CASE \E e \in Emails : ExpirePending(e)
  <2>1. PICK e \in Emails : pending' = [pending EXCEPT ![e].valid = FALSE]
    BY <1>3 DEF ExpirePending
  <2>2. [pending[e] EXCEPT !.valid = FALSE] \in PendingRows
    BY DEF TypeOK, PendingRows
  <2>3. pending' \in [Emails -> PendingRows]
    BY <2>1, <2>2 DEF TypeOK, PendingRows
  <2> QED
    BY <1>3, <2>3 DEF TypeOK, PendingRows, ExpirePending
<1>4. CASE \E e \in Emails : PurgePending(e)
  BY <1>4 DEF TypeOK, PurgePending, NoRow
<1>5. CASE \E k \in Emails \X Purposes : ExpireAttempts(k)
  BY <1>5, OtpAssumption DEF TypeOK, ExpireAttempts
<1> QED
  BY <1>1, <1>2, <1>3, <1>4, <1>5 DEF Tick

\* So does every statement of every call.
LEMMA StepType ==
    ASSUME TypeOK, NEW r \in Reqs, Step(r)
    PROVE  TypeOK'
<1>1. PC = PC' /\ {"wrong", "right", "lock", "locked", "invalid", "write", "send", "done",
                   "failed", "undone"} \subseteq PC
  BY DEF PC
<1>2. CASE Walks(r)
  BY <1>2, GoesType DEF TypeOK, Walks, tables
<1>3. CASE r \in RegisterReqs /\ SavePending(r)
  <2>1. pc' \in [Reqs -> PC]
    BY <1>1, <1>3, GoesType DEF SavePending
  <2>2. pending' = pending \/ pending' = Upserted(r)
    BY <1>3 DEF SavePending
  <2>3. Upserted(r) \in [Emails -> [phone : Phones \cup {None}, by : RegisterReqs \cup {None},
                                    valid : BOOLEAN]]
    BY <1>3, KindsOfCalls DEF TypeOK, Upserted
  <2>4. saved' \in Seq(RegisterReqs)
    <3>1. saved' = saved \/ saved' = Append(saved, r)
      BY <1>3 DEF SavePending
    <3> QED
      <4>1. saved \in Seq(RegisterReqs) /\ r \in RegisterReqs
        BY <1>3 DEF TypeOK
      <4> QED
        BY <3>1, <4>1
  <2> QED
    BY <1>3, <2>1, <2>2, <2>3, <2>4 DEF TypeOK, SavePending
<1>4. CASE r \in Senders /\ StartVerification(r)
  <2>1. pc' \in [Reqs -> PC]
    BY <1>1, <1>4, GoesType DEF StartVerification
  <2>2. sent' \in Seq(Senders) /\ Len(sent') = Len(sent) + 1 /\ Len(sent) \in Nat
    BY <1>4 DEF TypeOK, StartVerification
  <2> QED
    BY <1>4, <2>1, <2>2 DEF TypeOK, StartVerification
<1>5. CASE r \in Checks /\ SelectCode(r)
  <2>1. pc' \in [Reqs -> PC]
    BY <1>1, <1>5, GoesType DEF SelectCode
  <2>2. found' \in [Reqs -> Senders \cup {None}]
    BY <1>5, NewestIsACode DEF TypeOK, SelectCode
  <2> QED
    BY <1>5, <2>1, <2>2 DEF TypeOK, SelectCode, tables
<1>6. CASE r \in Checks /\ IncrementOtpAttempts(r)
  <2>1. pc' \in [Reqs -> PC]
    BY <1>1, <1>6, GoesType DEF IncrementOtpAttempts
  <2>2. attempts' \in [Emails \X Purposes -> Nat]
    <3>1. Key(r) \in Emails \X Purposes
      BY KeyType
    <3>2. attempts[Key(r)] + 1 \in Nat
      BY <3>1 DEF TypeOK
    <3> QED
      BY <1>6, <3>1, <3>2 DEF TypeOK, IncrementOtpAttempts
  <2> QED
    BY <1>6, <2>1, <2>2 DEF TypeOK, IncrementOtpAttempts
<1>7. ASSUME NEW here, NEW there \in PC, r \in Checks, ClearOtpAttempts(r, here, there)
      PROVE  TypeOK'
  <2>1. pc' \in [Reqs -> PC]
    BY <1>7, GoesType DEF ClearOtpAttempts
  <2> QED
    <3>1. attempts' \in [Emails \X Purposes -> Nat]
      BY <1>7 DEF TypeOK, ClearOtpAttempts
    <3> QED
      BY <1>7, <2>1, <3>1 DEF TypeOK, ClearOtpAttempts
<1>8. CASE r \in VerifyReqs /\ CreateUser(r)
  <2>1. pc' \in [Reqs -> PC]
    BY <1>1, <1>8, GoesType DEF CreateUser
  <2> QED
    <3>1. CASE UNCHANGED <<user, pending>>
      BY <1>8, <2>1, <3>1 DEF TypeOK, CreateUser
    <3>2. CASE ~UNCHANGED <<user, pending>>
      <4> DEFINE e == Email[r]
                 new == [phone |-> pending[e].phone, by |-> pending[e].by, password |-> pending[e].by]
      <4>1. user' = [user EXCEPT ![e] = new] /\ pending' = [pending EXCEPT ![e] = NoRow]
        BY <1>8, <3>2 DEF CreateUser
      <4>2. e \in Emails /\ new \in UserRows /\ NoRow \in PendingRows
        BY KindsOfCalls DEF TypeOK, UserRows, PendingRows, NoRow
      <4> HIDE DEF e, new
      <4>3. user' \in [Emails -> UserRows] /\ pending' \in [Emails -> PendingRows]
        BY <4>1, <4>2 DEF TypeOK, UserRows, PendingRows
      <4> QED
        BY <1>8, <2>1, <4>3 DEF TypeOK, CreateUser, UserRows, PendingRows
    <3> QED
      BY <3>1, <3>2
<1>9. CASE r \in ResetReqs /\ SetPassword(r)
  <2>1. pc' \in [Reqs -> PC]
    BY <1>1, <1>9, GoesType DEF SetPassword
  <2> QED
    <3>1. CASE UNCHANGED user
      BY <1>9, <2>1, <3>1 DEF TypeOK, SetPassword
    <3>2. CASE user' = [user EXCEPT ![Email[r]].password = r]
      <4>1. Email[r] \in Emails /\ [user[Email[r]] EXCEPT !.password = r] \in UserRows
        <5>1. Email[r] \in Emails /\ r \in ResetReqs
          BY <1>9, KindsOfCalls
        <5>2. user[Email[r]] \in UserRows
          BY <5>1 DEF TypeOK, UserRows
        <5> QED
          BY <5>1, <5>2 DEF UserRows
      <4>2. user' \in [Emails -> UserRows]
        BY <3>2, <4>1 DEF TypeOK, UserRows
      <4> QED
        BY <1>9, <2>1, <4>2 DEF TypeOK, SetPassword, UserRows
    <3> QED
      BY <1>9, <3>1, <3>2 DEF SetPassword
<1> QED
  BY <1>1, <1>2, <1>3, <1>4, <1>5, <1>6, <1>7, <1>8, <1>9 DEF Step
-----------------------------------------------------------------------------
\* A call that was answered, or is not made, takes no step; the others stand still.
LEMMA OthersStand ==
    ASSUME TypeOK, NEW r \in Reqs, Step(r)
    PROVE  /\ pc[r] \notin {"unmade", "done", "failed", "invalid", "locked", "undone"}
           /\ \A q \in Reqs : q # r => pc'[q] = pc[q] /\ found'[q] = found[q]
<1>1. CASE Walks(r)
  BY <1>1 DEF TypeOK, Walks, Goes
<1>2. CASE r \in RegisterReqs /\ SavePending(r)
  BY <1>2 DEF TypeOK, SavePending, Goes
<1>3. CASE r \in Senders /\ StartVerification(r)
  BY <1>3 DEF TypeOK, StartVerification, Goes
<1>4. CASE r \in Checks /\ SelectCode(r)
  BY <1>4 DEF TypeOK, SelectCode, Goes
<1>5. CASE r \in Checks /\ IncrementOtpAttempts(r)
  BY <1>5 DEF TypeOK, IncrementOtpAttempts, Goes
<1>6. CASE r \in Checks /\ (ClearOtpAttempts(r, "lock", "locked") \/ ClearOtpAttempts(r, "right", "write"))
  BY <1>6 DEF TypeOK, ClearOtpAttempts, Goes
<1>7. CASE r \in VerifyReqs /\ CreateUser(r)
  BY <1>7 DEF TypeOK, CreateUser, Goes
<1>8. CASE r \in ResetReqs /\ SetPassword(r)
  BY <1>8 DEF TypeOK, SetPassword, Goes
<1> QED
  BY <1>1, <1>2, <1>3, <1>4, <1>5, <1>6, <1>7, <1>8 DEF Step

\* What a step does to registrations and accounts: nothing, and no check succeeds; or
\* one registration, one account, one password is written.
Quiet(r) == UNCHANGED <<user, pending>> /\ (r \in Checks => pc'[r] # "done")
Saves(r) ==
    /\ r \in RegisterReqs /\ pending' = Upserted(r) /\ UNCHANGED <<user, found>>
    /\ \A e \in Emails \ {Email[r]} : pending[e].phone # Phone[r]
Account(row) == [phone |-> row.phone, by |-> row.by, password |-> row.by]
Creates(r) ==
    /\ r \in VerifyReqs /\ pc[r] = "write" /\ pc'[r] = "done"
    /\ pending[Email[r]].valid /\ Unique(Email[r], pending[Email[r]].phone)
    /\ user' = [user EXCEPT ![Email[r]] = Account(pending[Email[r]])]
    /\ pending' = [pending EXCEPT ![Email[r]] = NoRow]
    /\ UNCHANGED found
Resets(r) ==
    /\ r \in ResetReqs /\ pc[r] = "write" /\ pc'[r] = "done"
    /\ HasAccount(Email[r])
    /\ user' = [user EXCEPT ![Email[r]].password = r]
    /\ UNCHANGED <<pending, found>>

LEMMA StepKinds ==
    ASSUME TypeOK, NEW r \in Reqs, Step(r)
    PROVE  Quiet(r) \/ Saves(r) \/ Creates(r) \/ Resets(r)
<1>1. CASE Walks(r)
  BY <1>1 DEF TypeOK, Walks, Goes, Quiet, tables
<1>2. CASE r \in RegisterReqs /\ SavePending(r)
  <2>1. r \notin Checks
    BY <1>2, KindsOfCalls
  <2> QED
    BY <1>2, <2>1 DEF SavePending, Quiet, Saves
<1>3. CASE r \in Senders /\ StartVerification(r)
  BY <1>3, KindsOfCalls DEF StartVerification, Quiet
<1>4. CASE r \in Checks /\ SelectCode(r)
  BY <1>4 DEF TypeOK, SelectCode, Goes, Quiet, tables
<1>5. CASE r \in Checks /\ IncrementOtpAttempts(r)
  BY <1>5 DEF TypeOK, IncrementOtpAttempts, Goes, Quiet
<1>6. CASE r \in Checks /\ (ClearOtpAttempts(r, "lock", "locked") \/ ClearOtpAttempts(r, "right", "write"))
  BY <1>6 DEF TypeOK, ClearOtpAttempts, Goes, Quiet
<1>7. CASE r \in VerifyReqs /\ CreateUser(r)
  BY <1>7 DEF TypeOK, CreateUser, Goes, Quiet, Creates, Account
<1>8. CASE r \in ResetReqs /\ SetPassword(r)
  BY <1>8 DEF TypeOK, SetPassword, Goes, Quiet, Resets
<1> QED
  BY <1>1, <1>2, <1>3, <1>4, <1>5, <1>6, <1>7, <1>8 DEF Step

\* Time takes registrations away, or makes them invalid, and touches nothing else.
LEMMA TickKinds ==
    ASSUME TypeOK, Tick
    PROVE  /\ UNCHANGED <<user, pc, found>>
           /\ \A e \in Emails :
                 \/ pending'[e] = NoRow
                 \/ /\ pending'[e].phone = pending[e].phone /\ pending'[e].by = pending[e].by
                    /\ pending'[e].valid => pending[e].valid
<1>1. CASE ExpireCode \/ PurgeCodes \/ \E k \in Emails \X Purposes : ExpireAttempts(k)
  BY <1>1 DEF ExpireCode, PurgeCodes, ExpireAttempts
<1>2. CASE \E e \in Emails : ExpirePending(e)
  BY <1>2 DEF TypeOK, ExpirePending
<1>3. CASE \E e \in Emails : PurgePending(e)
  BY <1>3 DEF TypeOK, PurgePending
<1> QED
  BY <1>1, <1>2, <1>3 DEF Tick
-----------------------------------------------------------------------------
\* The rows after each kind of step.
LEMMA SavedRow ==
    ASSUME TypeOK, NEW r \in Reqs, Saves(r)
    PROVE  /\ pending'[Email[r]].phone = Phone[r] /\ pending'[Email[r]].by = r
           /\ \A e \in Emails : e # Email[r] => pending'[e] = pending[e]
<1> DEFINE row == [phone |-> Phone[r], by |-> r, valid |-> TRUE]
<1>1. pending'[Email[r]] = row /\ \A e \in Emails : e # Email[r] => pending'[e] = pending[e]
  BY KindsOfCalls DEF TypeOK, Saves, Upserted
<1>2. row.phone = Phone[r]
  OBVIOUS
<1>3. row.by = r
  OBVIOUS
<1> HIDE DEF row
<1> QED
  BY <1>1, <1>2, <1>3

LEMMA CreatedRow ==
    ASSUME TypeOK, NEW r \in Reqs, Creates(r)
    PROVE  /\ user'[Email[r]] = Account(pending[Email[r]])
           /\ pending'[Email[r]] = NoRow
           /\ \A e \in Emails : e # Email[r] => user'[e] = user[e] /\ pending'[e] = pending[e]
BY KindsOfCalls DEF TypeOK, Creates

LEMMA ResetRow ==
    ASSUME TypeOK, NEW r \in Reqs, Resets(r)
    PROVE  /\ user'[Email[r]].password = r
           /\ \A e \in Emails : user'[e].phone = user[e].phone /\ user'[e].by = user[e].by
           /\ \A e \in Emails : e # Email[r] => user'[e] = user[e]
<1>1. Email[r] \in Emails
  BY KindsOfCalls
<1>2. user[Email[r]] \in UserRows /\ \A e \in Emails :
         user'[e] = IF e = Email[r] THEN [user[e] EXCEPT !.password = r] ELSE user[e]
  BY <1>1 DEF TypeOK, UserRows, Resets
<1> QED
  BY <1>1, <1>2 DEF UserRows

\* users.phone and pending_registrations.phone stay unique.
LEMMA OnePhoneStep ==
    ASSUME TypeOK, OnePhoneOneAccount, Tick \/ \E r \in Reqs : Step(r)
    PROVE  OnePhoneOneAccount'
<1>1. CASE Tick
  BY <1>1, TickKinds DEF OnePhoneOneAccount, HasAccount, HasPending, NoRow
<1>2. ASSUME NEW r \in Reqs, Quiet(r) PROVE OnePhoneOneAccount'
  BY <1>2 DEF OnePhoneOneAccount, HasAccount, HasPending, Quiet
<1>3. ASSUME NEW r \in Reqs, Saves(r) PROVE OnePhoneOneAccount'
  <2>1. UNCHANGED user /\ pending'[Email[r]].phone = Phone[r]
        /\ \A e \in Emails : e # Email[r] => pending'[e] = pending[e] /\ pending[e].phone # Phone[r]
    <3>1. pending'[Email[r]].phone = Phone[r]
      BY <1>3, SavedRow
    <3> QED
      BY <1>3, <3>1, SavedRow DEF Saves
  <2> QED
    BY <2>1 DEF OnePhoneOneAccount, HasAccount, HasPending
<1>4. ASSUME NEW r \in Reqs, Creates(r) PROVE OnePhoneOneAccount'
  <2>1. /\ user'[Email[r]].phone = pending[Email[r]].phone
        /\ pending'[Email[r]].phone = None
        /\ \A e \in Emails : user[e].phone # pending[Email[r]].phone
    <3>1. Account(pending[Email[r]]).phone = pending[Email[r]].phone /\ NoRow.phone = None
      BY DEF Account, NoRow
    <3> QED
      BY <1>4, <3>1, CreatedRow DEF Creates, Unique
  <2> QED
    BY <1>4, <2>1, CreatedRow DEF OnePhoneOneAccount, HasAccount, HasPending
<1>5. ASSUME NEW r \in Reqs, Resets(r) PROVE OnePhoneOneAccount'
  BY <1>5, ResetRow DEF OnePhoneOneAccount, HasAccount, HasPending, Resets
<1> QED
  BY <1>1, <1>2, <1>3, <1>4, <1>5, StepKinds

\* A waiting registration stays that of one request.
LEMMA PendingStep ==
    ASSUME TypeOK, PendingIsOneRequest, Tick \/ \E r \in Reqs : Step(r)
    PROVE  PendingIsOneRequest'
<1>1. CASE Tick
  BY <1>1, TickKinds DEF PendingIsOneRequest, HasPending, NoRow
<1>2. ASSUME NEW r \in Reqs, UNCHANGED pending PROVE PendingIsOneRequest'
  BY <1>2 DEF PendingIsOneRequest, HasPending
<1>3. ASSUME NEW r \in Reqs, Saves(r) PROVE PendingIsOneRequest'
  <2>1. r \in RegisterReqs /\ Phone[r] # None
    BY <1>3, KindsOfCalls DEF Saves
  <2>2. LET row == pending'[Email[r]] IN row.phone = Phone[r] /\ row.by = r
    BY <1>3, SavedRow
  <2> QED
    BY <1>3, <2>1, <2>2, SavedRow DEF PendingIsOneRequest, HasPending
<1>4. ASSUME NEW r \in Reqs, Creates(r) PROVE PendingIsOneRequest'
  BY <1>4, CreatedRow DEF PendingIsOneRequest, HasPending, NoRow
<1> QED
  BY <1>1, <1>2, <1>3, <1>4, StepKinds DEF Quiet, Resets

\* Accounts stay, so that a registration is confirmed once and old accounts keep
\* their owners.
LEMMA RegisteredStep ==
    ASSUME TypeOK, PendingIsOneRequest, ConfirmedHasAccount, RegisteredOnce,
           Tick \/ \E r \in Reqs : Step(r)
    PROVE  ConfirmedHasAccount' /\ RegisteredOnce'
<1>0. None \notin Phones /\ \A e \in OldAccounts : e \in Emails /\ Phone[e] \in Phones
  BY OtpAssumption, KindsOfCalls
<1>1. CASE Tick
  BY <1>1, TickKinds DEF ConfirmedHasAccount, RegisteredOnce, HasAccount
<1>2. ASSUME NEW r \in Reqs, Step(r),
             \A e \in Emails : user'[e].phone = user[e].phone /\ user'[e].by = user[e].by,
             r \in VerifyReqs => pc'[r] # "done"
      PROVE  ConfirmedHasAccount' /\ RegisteredOnce'
  <2>1. \A q \in VerifyReqs : pc'[q] = "done" => pc[q] = "done"
    BY <1>2, OthersStand, KindsOfCalls
  <2> QED
    BY <1>0, <1>2, <2>1, KindsOfCalls DEF ConfirmedHasAccount, RegisteredOnce, HasAccount
<1>3. ASSUME NEW r \in Reqs, Step(r), Creates(r) PROVE ConfirmedHasAccount' /\ RegisteredOnce'
  <2>1. /\ ~HasAccount(Email[r]) /\ pending[Email[r]].phone # None
        /\ user'[Email[r]].phone # None
        /\ \A e \in Emails : e # Email[r] => user'[e] = user[e]
    <3>1. Account(pending[Email[r]]).phone = pending[Email[r]].phone
      BY DEF Account
    <3>2. pending[Email[r]].phone # None /\ ~HasAccount(Email[r])
      BY <1>3, KindsOfCalls DEF Creates, Unique, PendingIsOneRequest, HasPending
    <3> QED
      BY <1>3, <3>1, <3>2, CreatedRow
  <2>2. \A q \in VerifyReqs : pc'[q] = "done" => pc[q] = "done" \/ q = r
    BY <1>3, OthersStand, KindsOfCalls
  <2>3. \A q \in VerifyReqs : pc[q] = "done" => Email[q] # Email[r]
    BY <2>1 DEF ConfirmedHasAccount
  <2>4. \A e \in OldAccounts : e # Email[r]
    BY <1>0, <2>1 DEF RegisteredOnce, HasAccount
  <2>5. ConfirmedHasAccount'
    BY <2>1, <2>2, KindsOfCalls DEF ConfirmedHasAccount, HasAccount
  <2>6. RegisteredOnce'
    BY <1>0, <2>1, <2>2, <2>3, <2>4 DEF RegisteredOnce
  <2> QED
    BY <2>5, <2>6
<1>4. ASSUME NEW r \in Reqs, Step(r), Quiet(r) \/ Saves(r) \/ Resets(r)
      PROVE  ConfirmedHasAccount' /\ RegisteredOnce'
  BY <1>2, <1>4, ResetRow, KindsOfCalls DEF Quiet, Saves, Resets
<1> QED
  BY <1>1, <1>3, <1>4, StepKinds
-----------------------------------------------------------------------------
\* SELECT of the code is the only step of a new check, and the only one that sets it.
LEMMA ChecksStart ==
    ASSUME TypeOK, NEW r \in Reqs, Step(r)
    PROVE  \/ r \in Checks /\ SelectCode(r)
           \/ UNCHANGED found /\ (r \in Checks => pc[r] # "new")
<1>1. CASE Walks(r)
  BY <1>1 DEF Walks
<1>2. CASE r \in RegisterReqs /\ SavePending(r)
  BY <1>2, KindsOfCalls DEF SavePending
<1>3. CASE r \in Senders /\ StartVerification(r)
  BY <1>3, KindsOfCalls DEF StartVerification
<1>4. CASE r \in Checks /\ IncrementOtpAttempts(r)
  BY <1>4 DEF IncrementOtpAttempts
<1>5. CASE r \in Checks /\ (ClearOtpAttempts(r, "lock", "locked") \/ ClearOtpAttempts(r, "right", "write"))
  BY <1>5 DEF ClearOtpAttempts
<1>6. CASE r \in VerifyReqs /\ CreateUser(r)
  BY <1>6 DEF CreateUser
<1>7. CASE r \in ResetReqs /\ SetPassword(r)
  BY <1>7 DEF SetPassword
<1> QED
  BY <1>1, <1>2, <1>3, <1>4, <1>5, <1>6, <1>7 DEF Step

\* The code a check compared with is of its email and purpose.
LEMMA FoundStep ==
    ASSUME TypeOK, FoundIsItsKind, Tick \/ \E r \in Reqs : Step(r)
    PROVE  FoundIsItsKind'
<1>1. CASE Tick
  BY <1>1, TickKinds DEF FoundIsItsKind, Key, Purpose
<1>2. ASSUME NEW r \in Reqs, Step(r), r \in Checks /\ SelectCode(r) PROVE FoundIsItsKind'
  <2>1. \A q \in Checks : q # r => pc'[q] = pc[q] /\ found'[q] = found[q]
    BY <1>2, OthersStand, KindsOfCalls
  <2>2. CASE pc'[r] = "failed" /\ UNCHANGED found
    BY <1>2, <2>1, <2>2 DEF FoundIsItsKind, Key, Purpose
  <2>3. CASE CodesFor(r) # {} /\ found' = [found EXCEPT ![r] = sent[Newest(r)]]
    <3>1. found'[r] = sent[Newest(r)]
      BY <2>3 DEF TypeOK
    <3>2. found'[r] # None /\ Key(found'[r]) = Key(r)
      BY <1>2, <2>3, <3>1, NewestIsACode, KindsOfCalls
    <3> QED
      BY <2>1, <3>2 DEF FoundIsItsKind, Key, Purpose
  <2> QED
    BY <1>2, <2>2, <2>3 DEF TypeOK, SelectCode, Goes
<1>3. ASSUME NEW r \in Reqs, Step(r), UNCHANGED found /\ (r \in Checks => pc[r] # "new")
      PROVE  FoundIsItsKind'
  <2>1. \A q \in Checks : pc'[q] = pc[q] \/ pc[q] \notin {"unmade", "new", "failed"}
    BY <1>3, OthersStand, KindsOfCalls
  <2> QED
    BY <1>3, <2>1 DEF FoundIsItsKind, Key, Purpose
<1> QED
  BY <1>1, <1>2, <1>3, ChecksStart

\* An account is that of the registration that was confirmed, and a password that of
\* the reset that was.
LEMMA ConfirmedStep ==
    ASSUME TypeOK, PendingIsOneRequest, FoundIsItsKind, AccountsAreConfirmed,
           Tick \/ \E r \in Reqs : Step(r)
    PROVE  AccountsAreConfirmed'
<1>0. \A r \in VerifyReqs : Key(r) = <<Email[r], "registration">>
  BY KindsOfCalls DEF Key
<1>1. \A r \in ResetReqs : Key(r) = <<Email[r], "password_reset">>
  BY KindsOfCalls DEF Key
<1>2. CASE Tick
  BY <1>2, TickKinds DEF AccountsAreConfirmed, HasAccount, Key, Purpose
<1>3. ASSUME NEW r \in Reqs, Step(r), NEW e \in Emails, HasAccount(e)', e \notin OldAccounts,
             user'[e].phone = user[e].phone, user'[e].by = user[e].by
      PROVE  /\ user'[e].by \in RegisterReqs
             /\ Email[user'[e].by] = e /\ Phone[user'[e].by] = user'[e].phone
             /\ \E q \in VerifyReqs : /\ pc'[q] = "done" /\ Email[q] = e
                                      /\ Key(found'[q]) = <<e, "registration">>
  <2>1. PICK q \in VerifyReqs : /\ pc[q] = "done" /\ Email[q] = e
                                /\ Key(found[q]) = <<e, "registration">>
    BY <1>3 DEF AccountsAreConfirmed, HasAccount
  <2>2. pc'[q] = "done" /\ found'[q] = found[q]
    BY <1>3, <2>1, OthersStand, KindsOfCalls
  <2> QED
    BY <1>3, <2>1, <2>2 DEF AccountsAreConfirmed, HasAccount
<1>4. ASSUME NEW r \in Reqs, Step(r), NEW e \in Emails, user[e].password \in ResetReqs,
             user'[e].password = user[e].password
      PROVE  /\ pc'[user'[e].password] = "done" /\ Email[user'[e].password] = e
             /\ Key(found'[user'[e].password]) = <<e, "password_reset">>
  <2> DEFINE q == user[e].password
  <2>1. pc[q] = "done" /\ Email[q] = e /\ Key(found[q]) = <<e, "password_reset">> /\ q \in Reqs
    BY <1>4, KindsOfCalls DEF AccountsAreConfirmed
  <2>2. pc'[q] = "done" /\ found'[q] = found[q]
    BY <1>4, <2>1, OthersStand
  <2> QED
    BY <1>4, <2>1, <2>2
<1>5. ASSUME NEW r \in Reqs, Step(r), UNCHANGED user PROVE AccountsAreConfirmed'
  BY <1>3, <1>4, <1>5 DEF AccountsAreConfirmed, Key, Purpose
<1>6. ASSUME NEW r \in Reqs, Step(r), Creates(r) PROVE AccountsAreConfirmed'
  <2> DEFINE row == pending[Email[r]]
  <2>1. row.by \in RegisterReqs /\ Email[row.by] = Email[r] /\ Phone[row.by] = row.phone
    BY <1>6, KindsOfCalls DEF Creates, PendingIsOneRequest
  <2>2. Account(row).by = row.by /\ Account(row).phone = row.phone /\ Account(row).password = row.by
    BY DEF Account
  <2>3. pc'[r] = "done" /\ r \in VerifyReqs /\ Key(found'[r]) = <<Email[r], "registration">>
    BY <1>0, <1>6, KindsOfCalls DEF Creates, FoundIsItsKind
  <2>4. row.by \notin ResetReqs
    BY <2>1, KindsOfCalls
  <2> HIDE DEF row
  <2>5. user'[Email[r]] = Account(row)
    BY <1>6, CreatedRow DEF row
  <2>6. ASSUME NEW e \in Emails, e # Email[r]
        PROVE  user'[e] = user[e]
    BY <1>6, <2>6, CreatedRow
  <2> QED
    BY <1>3, <1>4, <1>6, <2>1, <2>2, <2>3, <2>4, <2>5, <2>6 DEF AccountsAreConfirmed, Key, Purpose
<1>7. ASSUME NEW r \in Reqs, Step(r), Resets(r) PROVE AccountsAreConfirmed'
  <2>1. pc'[r] = "done" /\ r \in ResetReqs /\ Key(found'[r]) = <<Email[r], "password_reset">>
    BY <1>1, <1>7, KindsOfCalls DEF Resets, FoundIsItsKind
  <2> QED
    BY <1>3, <1>4, <1>7, <2>1, ResetRow DEF AccountsAreConfirmed, Key, Purpose
<1> QED
  BY <1>2, <1>5, <1>6, <1>7, StepKinds DEF Quiet, Saves
-----------------------------------------------------------------------------
\* A call enters or leaves a set of answers alone.
LEMMA AnsweredMoves ==
    ASSUME TypeOK, NEW r \in Reqs, Step(r), NEW k, NEW ends
    PROVE  /\ r \in Checks /\ Key(r) = k /\ pc'[r] \in ends
              => Answered(k, ends)' = Answered(k, ends) \cup {r}
           /\ ~(r \in Checks /\ Key(r) = k) => Answered(k, ends)' = Answered(k, ends)
           /\ pc'[r] \notin ends => Answered(k, ends)' = Answered(k, ends) \ {r}
<1>1. \A q \in Checks : q # r => pc'[q] = pc[q]
  BY OthersStand, KindsOfCalls
<1> QED
  BY <1>1 DEF Answered, Key, Purpose

\* Of each kind there are finitely many answers at a time.
FewAnswered ==
    \A k \in Emails \X Purposes :
        IsFiniteSet(Answered(k, {"invalid"})) /\ IsFiniteSet(Answered(k, Cleared))

LEMMA FewAnsweredStep ==
    ASSUME TypeOK, FewAnswered, NEW r \in Reqs, Step(r)
    PROVE  FewAnswered'
<1>1. ASSUME NEW k \in Emails \X Purposes, NEW ends, IsFiniteSet(Answered(k, ends))
      PROVE  IsFiniteSet(Answered(k, ends)')
  <2>1. IsFiniteSet(Answered(k, ends) \cup {r}) /\ IsFiniteSet(Answered(k, ends) \ {r})
    BY <1>1, FS_AddElement, FS_RemoveElement
  <2> QED
    BY <1>1, <2>1, AnsweredMoves, ZenonT(60)
<1> QED
  BY <1>1 DEF FewAnswered, Cleared

\* What a step of call r does to the counter of its key: it counts a wrong code, or
\* clears for a lock-out or a right code, or leaves counter and answers alone.
Counts(r) ==
    /\ pc[r] = "wrong" /\ attempts' = [attempts EXCEPT ![Key(r)] = @ + 1]
    /\ \/ attempts[Key(r)] + 1 < MaxAttempts /\ pc'[r] = "invalid"
       \/ attempts[Key(r)] + 1 >= MaxAttempts /\ pc'[r] = "lock"
Clears(r) ==
    /\ pc[r] \in {"lock", "right"} /\ attempts' = [attempts EXCEPT ![Key(r)] = 0]
    /\ pc'[r] \in {"locked", "write"}
Leaves(r) ==
    /\ UNCHANGED attempts
    /\ r \in Checks => /\ pc'[r] # "invalid" /\ pc[r] # "invalid"
                       /\ pc'[r] \in Cleared <=> pc[r] \in Cleared

LEMMA CounterKinds ==
    ASSUME TypeOK, NEW r \in Reqs, Step(r)
    PROVE  UNCHANGED lapses /\ (Leaves(r) \/ (r \in Checks /\ (Counts(r) \/ Clears(r))))
<1>1. CASE Walks(r)
  BY <1>1 DEF TypeOK, Walks, Goes, Leaves, tables, Cleared
<1>2. CASE r \in RegisterReqs /\ SavePending(r)
  BY <1>2, KindsOfCalls DEF SavePending, Leaves
<1>3. CASE r \in Senders /\ StartVerification(r)
  BY <1>3, KindsOfCalls DEF StartVerification, Leaves
<1>4. CASE r \in Checks /\ SelectCode(r)
  BY <1>4 DEF TypeOK, SelectCode, Goes, Leaves, tables, Cleared
<1>5. CASE r \in Checks /\ IncrementOtpAttempts(r)
  <2>1. attempts[Key(r)] \in Nat /\ MaxAttempts \in Nat
    BY <1>5, KeyType, OtpAssumption DEF TypeOK
  <2> QED
    BY <1>5, <2>1 DEF TypeOK, IncrementOtpAttempts, Locks, Goes, Counts
<1>6. CASE r \in Checks /\ (ClearOtpAttempts(r, "lock", "locked") \/ ClearOtpAttempts(r, "right", "write"))
  BY <1>6 DEF TypeOK, ClearOtpAttempts, Goes, Clears
<1>7. CASE r \in VerifyReqs /\ CreateUser(r)
  BY <1>7 DEF TypeOK, CreateUser, Goes, Leaves, Cleared
<1>8. CASE r \in ResetReqs /\ SetPassword(r)
  BY <1>8 DEF TypeOK, SetPassword, Goes, Leaves, Cleared
<1> QED
  BY <1>1, <1>2, <1>3, <1>4, <1>5, <1>6, <1>7, <1>8 DEF Step

\* The arithmetic of a clearing.
LEMMA OneMore ==
    ASSUME NEW m \in Nat, NEW n \in Nat
    PROVE  m * n \in Nat /\ m * (n + 1) = m * n + m
OBVIOUS

\* incrementOtpAttempts and clearOtpAttempts keep count.
LEMMA CountersStep ==
    ASSUME TypeOK, FewAnswered, CountersKeepUp, NEW r \in Reqs, Step(r)
    PROVE  CountersKeepUp'
<1> DEFINE max == MaxAttempts - 1
           passed(k) == Answered(k, {"invalid"})
           cleared(k) == Answered(k, Cleared)
<1> SUFFICES ASSUME NEW k \in Emails \X Purposes
             PROVE  Cardinality(passed(k)') <=
                       max * (lapses' + Cardinality(cleared(k)')) + Counted(k)'
  BY DEF CountersKeepUp, Cleared
<1>1. /\ max \in Nat /\ MaxAttempts \in Nat /\ MaxAttempts = max + 1
      /\ lapses \in Nat /\ attempts[k] \in Nat
  BY OtpAssumption DEF TypeOK
<1>2. /\ IsFiniteSet(passed(k)) /\ IsFiniteSet(cleared(k))
      /\ Cardinality(passed(k)) \in Nat /\ Cardinality(cleared(k)) \in Nat
  BY FS_CardinalityType DEF FewAnswered
<1>3. Cardinality(passed(k)) <= max * (lapses + Cardinality(cleared(k))) + Counted(k)
  BY DEF CountersKeepUp
<1>4. lapses' = lapses
  BY CounterKinds
<1>5. CASE Leaves(r) \/ ~(r \in Checks /\ Key(r) = k)
  <2>1. passed(k)' = passed(k) /\ cleared(k)' = cleared(k)
    <3>1. CASE ~(r \in Checks /\ Key(r) = k)
      BY <3>1, AnsweredMoves
    <3>2. CASE Leaves(r) /\ r \in Checks /\ Key(r) = k
      <4>1. \A q \in Checks : q # r => pc'[q] = pc[q]
        BY OthersStand, KindsOfCalls
      <4> QED
        BY <3>2, <4>1 DEF Leaves, Answered, Key, Purpose, Cleared
    <3> QED
      BY <1>5, <3>1, <3>2
  <2>2. attempts'[k] = attempts[k]
    BY <1>5, CounterKinds DEF TypeOK, Leaves, Counts, Clears
  <2>3. Counted(k)' = Counted(k)
    BY <2>2 DEF Counted
  <2> QED
    BY <1>3, <1>4, <2>1, <2>3
<1>6. CASE r \in Checks /\ Key(r) = k /\ Counts(r)
  <2>1. attempts'[k] = attempts[k] + 1
    BY <1>6 DEF TypeOK, Counts
  <2>2. cleared(k)' = cleared(k)
    <3>1. pc'[r] \notin Cleared /\ r \notin cleared(k)
      BY <1>6 DEF Counts, Cleared, Answered
    <3>2. Answered(k, Cleared)' = Answered(k, Cleared) \ {r}
      BY <3>1, AnsweredMoves
    <3> QED
      BY <3>1, <3>2
  <2>3. CASE pc'[r] = "invalid" /\ attempts[k] + 1 < MaxAttempts
    <3>1. passed(k)' = passed(k) \cup {r}
      BY <1>6, <2>3, AnsweredMoves
    <3>2. Cardinality(passed(k)') <= Cardinality(passed(k)) + 1
      <4>1. r \notin passed(k)
        BY <1>6 DEF Counts, Answered
      <4>2. Cardinality(passed(k) \cup {r}) = Cardinality(passed(k)) + 1
        BY <1>2, <4>1, FS_AddElement
      <4> HIDE DEF passed
      <4> QED
        BY <1>2, <3>1, <4>2
    <3>3. Counted(k)' = Counted(k) + 1 /\ Counted(k) \in Nat
      BY <1>1, <2>1, <2>3 DEF Counted
    <3>4. Cardinality(passed(k)') \in Nat
      BY <1>2, <3>1, FS_AddElement, FS_CardinalityType
    <3>5. max * (lapses + Cardinality(cleared(k))) \in Nat
      BY <1>1, <1>2
    <3> HIDE DEF max, passed, cleared
    <3> QED
      BY <1>2, <1>3, <1>4, <2>2, <3>2, <3>3, <3>4, <3>5
  <2>4. CASE pc'[r] = "lock" /\ attempts[k] + 1 >= MaxAttempts
    <3>1. passed(k)' = passed(k)
      <4>1. r \notin passed(k)
        BY <1>6 DEF Counts, Answered
      <4> QED
        <5>1. Answered(k, {"invalid"})' = Answered(k, {"invalid"}) \ {r}
          BY <2>4, AnsweredMoves
        <5> QED
          BY <4>1, <5>1
    <3>2. Counted(k)' >= Counted(k) /\ Counted(k)' \in Nat /\ Counted(k) \in Nat
      BY <1>1, <2>1, <2>4 DEF Counted
    <3>3. max * (lapses + Cardinality(cleared(k))) \in Nat
      BY <1>1, <1>2
    <3> HIDE DEF max, passed, cleared
    <3> QED
      BY <1>2, <1>3, <1>4, <2>2, <3>1, <3>2, <3>3
  <2> QED
    BY <1>6, <2>3, <2>4 DEF Counts
<1>7. CASE r \in Checks /\ Key(r) = k /\ Clears(r)
  <2>1. attempts'[k] = 0
    BY <1>7 DEF TypeOK, Clears
  <2>2. passed(k)' = passed(k)
    <3>1. pc'[r] \notin {"invalid"} /\ r \notin passed(k)
      BY <1>7 DEF Clears, Answered
    <3>2. Answered(k, {"invalid"})' = Answered(k, {"invalid"}) \ {r}
      BY <3>1, AnsweredMoves
    <3> QED
      BY <3>1, <3>2
  <2>3. cleared(k)' = cleared(k) \cup {r} /\ r \notin cleared(k)
    <3>1. pc'[r] \in Cleared /\ r \notin cleared(k)
      BY <1>7 DEF Clears, Cleared, Answered
    <3>2. Answered(k, Cleared)' = Answered(k, Cleared) \cup {r}
      BY <1>7, <3>1, AnsweredMoves
    <3> QED
      BY <3>1, <3>2
  <2>4. Cardinality(cleared(k)') = Cardinality(cleared(k)) + 1
    BY <1>2, <2>3, FS_AddElement
  <2>5. Counted(k) <= max /\ Counted(k) \in Nat /\ Counted(k)' = 0
    BY <1>1, <2>1 DEF Counted
  <2> HIDE DEF max, passed, cleared
  <2> DEFINE n == lapses + Cardinality(cleared(k))
  <2>6. n \in Nat /\ lapses' + Cardinality(cleared(k)') = n + 1
    BY <1>1, <1>2, <1>4, <2>4
  <2>7. max * n \in Nat /\ max * (n + 1) = max * n + max
    BY <1>1, <2>6, OneMore
  <2>8. Cardinality(passed(k)) <= max * n + Counted(k)
    BY <1>3
  <2> HIDE DEF n
  <2> QED
    BY <1>1, <1>2, <2>2, <2>5, <2>6, <2>7, <2>8
<1> QED
  BY <1>5, <1>6, <1>7, CounterKinds

\* A counter that runs out is one more lapse.
LEMMA CountersTick ==
    ASSUME TypeOK, FewAnswered, CountersKeepUp, Tick
    PROVE  FewAnswered' /\ CountersKeepUp'
<1> DEFINE max == MaxAttempts - 1
           passed(k) == Answered(k, {"invalid"})
           cleared(k) == Answered(k, Cleared)
<1>1. \A k, ends : Answered(k, ends)' = Answered(k, ends)
  BY TickKinds DEF Answered, Key, Purpose
<1>2. FewAnswered'
  BY <1>1 DEF FewAnswered, Cleared
<1>3. SUFFICES ASSUME NEW k \in Emails \X Purposes
               PROVE  Cardinality(passed(k)') <=
                         max * (lapses' + Cardinality(cleared(k)')) + Counted(k)'
  BY <1>2 DEF CountersKeepUp, Cleared
<1>4. passed(k)' = passed(k) /\ cleared(k)' = cleared(k)
  BY <1>1
<1>5. Cardinality(passed(k)) \in Nat /\ Cardinality(cleared(k)) \in Nat
  BY FS_CardinalityType DEF FewAnswered
<1>6. max \in Nat /\ MaxAttempts = max + 1 /\ lapses \in Nat /\ attempts[k] \in Nat
  BY OtpAssumption DEF TypeOK
<1>7. Counted(k) \in Nat /\ Counted(k) <= max
  BY <1>6 DEF Counted
<1>8. Cardinality(passed(k)) <= max * (lapses + Cardinality(cleared(k))) + Counted(k)
  BY DEF CountersKeepUp
<1> HIDE DEF max, passed, cleared
<1>9. CASE UNCHANGED <<attempts, lapses>>
  <2>1. Counted(k)' = Counted(k)
    BY <1>9 DEF Counted
  <2> QED
    BY <1>4, <1>8, <1>9, <2>1
<1>10. CASE \E j \in Emails \X Purposes : ExpireAttempts(j)
  <2>1. lapses' = lapses + 1 /\ (attempts'[k] = attempts[k] \/ attempts'[k] = 0)
    BY <1>10 DEF TypeOK, ExpireAttempts
  <2>2. Counted(k)' \in Nat
    BY <1>6, <2>1 DEF Counted
  <2> DEFINE n == lapses + Cardinality(cleared(k))
  <2>3. n \in Nat /\ lapses' + Cardinality(cleared(k)') = n + 1
    BY <1>4, <1>5, <1>6, <2>1
  <2>4. max * n \in Nat /\ max * (n + 1) = max * n + max
    BY <1>6, <2>3, OneMore
  <2>5. Cardinality(passed(k)) <= max * n + Counted(k)
    BY <1>8
  <2> HIDE DEF n
  <2> QED
    BY <1>4, <1>5, <1>6, <1>7, <2>2, <2>3, <2>4, <2>5
<1> QED
  BY <1>9, <1>10 DEF Tick, ExpireCode, PurgeCodes, ExpirePending, PurgePending
-----------------------------------------------------------------------------
IInv == OtpInv /\ FewAnswered

LEMMA InitInv == Init => IInv
<1> SUFFICES ASSUME Init PROVE IInv
  OBVIOUS
<1>1. TypeOK
  <2>1. \A e \in OldAccounts : Phone[e] \in Phones
    BY OtpAssumption
  <2>2. user \in [Emails -> UserRows]
    BY <2>1 DEF Init, NoUser, UserRows
  <2>3. pending \in [Emails -> PendingRows]
    BY DEF Init, NoRow, PendingRows
  <2>4. pc \in [Reqs -> PC]
    BY DEF Init, PC
  <2> QED
    BY <2>2, <2>3, <2>4, OtpAssumption DEF Init, TypeOK, UserRows, PendingRows
<1>2. /\ \A e \in Emails : ~HasPending(e) /\ ~pending[e].valid
      /\ \A e \in Emails \ OldAccounts : user[e].phone = None
      /\ \A e \in OldAccounts : e \in Emails /\ user[e].phone = Phone[e] /\ user[e].by = None
      /\ \A e \in Emails : user[e].password = None
  BY OtpAssumption DEF Init, NoUser, NoRow, HasPending
<1>3. OnePhoneOneAccount
  BY <1>2, OtpAssumption DEF OnePhoneOneAccount, HasAccount
<1>4. \A r \in Reqs : pc[r] \in {"new", "unmade"} /\ found[r] = None
  BY DEF Init
<1>5. FoundIsItsKind
  BY <1>4, KindsOfCalls DEF FoundIsItsKind
<1>6. PendingIsOneRequest
  BY <1>2 DEF PendingIsOneRequest
<1>7. ConfirmedHasAccount /\ RegisteredOnce
  BY <1>2, <1>4, KindsOfCalls DEF ConfirmedHasAccount, RegisteredOnce
<1>8. AccountsAreConfirmed
  BY <1>2, KindsOfCalls DEF AccountsAreConfirmed, HasAccount
<1>9. \A k, ends : "new" \notin ends /\ "unmade" \notin ends => Answered(k, ends) = {}
  BY <1>4, KindsOfCalls DEF Answered
<1>10. \A k : Answered(k, {"invalid"}) = {} /\ Answered(k, Cleared) = {}
  BY <1>9 DEF Cleared
<1>11. FewAnswered
  BY <1>10, FS_EmptySet DEF FewAnswered
<1>12. CountersKeepUp
  <2> SUFFICES ASSUME NEW k \in Emails \X Purposes
               PROVE  0 <= (MaxAttempts - 1) * (lapses + 0) + Counted(k)
    BY <1>10, FS_EmptySet DEF CountersKeepUp
  <2>1. lapses = 0 /\ MaxAttempts \in Nat \ {0} /\ Counted(k) = 0
    BY OtpAssumption DEF Init, Counted
  <2>2. (MaxAttempts - 1) * 0 = 0
    BY <2>1
  <2> QED
    BY <2>1, <2>2
<1> QED
  BY <1>1, <1>3, <1>5, <1>6, <1>7, <1>8, <1>11, <1>12 DEF IInv, OtpInv

LEMMA NextInv == IInv /\ [Next]_vars => IInv'
<1> SUFFICES ASSUME IInv, [Next]_vars PROVE IInv'
  OBVIOUS
<1>1. CASE Next
  <2>1. Tick \/ \E r \in Reqs : Step(r)
    BY <1>1, NextIsAStep
  <2>2. TypeOK'
    BY <2>1, TickType, StepType DEF IInv, OtpInv
  <2>3. OnePhoneOneAccount' /\ FoundIsItsKind' /\ PendingIsOneRequest' /\ AccountsAreConfirmed'
    BY <2>1, OnePhoneStep, FoundStep, PendingStep, ConfirmedStep DEF IInv, OtpInv
  <2>4. ConfirmedHasAccount' /\ RegisteredOnce'
    BY <2>1, RegisteredStep DEF IInv, OtpInv
  <2>5. FewAnswered' /\ CountersKeepUp'
    BY <2>1, CountersTick, FewAnsweredStep, CountersStep DEF IInv, OtpInv
  <2> QED
    BY <2>2, <2>3, <2>4, <2>5 DEF IInv, OtpInv
<1>2. CASE UNCHANGED vars
  <2>1. TypeOK' /\ OnePhoneOneAccount' /\ FoundIsItsKind' /\ PendingIsOneRequest'
    BY <1>2 DEF vars, IInv, OtpInv, TypeOK, OnePhoneOneAccount, HasAccount, HasPending,
                FoundIsItsKind, Key, Purpose, PendingIsOneRequest
  <2>2. ConfirmedHasAccount' /\ RegisteredOnce' /\ AccountsAreConfirmed'
    BY <1>2 DEF vars, IInv, OtpInv, ConfirmedHasAccount, RegisteredOnce, AccountsAreConfirmed,
                HasAccount, Key, Purpose
  <2>3. FewAnswered' /\ CountersKeepUp'
    BY <1>2 DEF vars, IInv, OtpInv, FewAnswered, CountersKeepUp, Answered, Key, Purpose, Counted,
                Cleared
  <2> QED
    BY <2>1, <2>2, <2>3 DEF IInv, OtpInv
<1> QED
  BY <1>1, <1>2

\* The inductive invariant of codes, registrations and accounts.
THEOREM OtpInvariant == Spec => []OtpInv
<1>1. IInv => OtpInv
  BY DEF IInv
<1> QED
  BY <1>1, InitInv, NextInv, PTL DEF Spec

\* users.phone: whatever is requested and confirmed at once, a phone has one account.
THEOREM PhonesAreUnique == Spec => []OnePhoneOneAccount
<1>1. OtpInv => OnePhoneOneAccount
  BY DEF OtpInv
<1> QED
  BY <1>1, OtpInvariant, PTL

\* verifyRegistrationOtp: one of several confirmations makes the account.
THEOREM RegistersOnce == Spec => []RegisteredOnce
<1>1. OtpInv => RegisteredOnce
  BY DEF OtpInv
<1> QED
  BY <1>1, OtpInvariant, PTL

\* verifyRegistrationOtp, resetPassword: nobody gets an account or a password without
\* a code sent to the email for that purpose.
THEOREM AccountsConfirmed == Spec => []AccountsAreConfirmed
<1>1. OtpInv => AccountsAreConfirmed
  BY DEF OtpInv
<1> QED
  BY <1>1, OtpInvariant, PTL

\* OTP_MAX_ATTEMPTS: no interleaving of calls lets more wrong codes pass between two
\* clearings of the counter.
THEOREM WrongCodesCounted == Spec => []WrongCodesAreCounted
<1> DEFINE max == MaxAttempts - 1
<1>1. ASSUME IInv PROVE WrongCodesAreCounted
  <2> SUFFICES ASSUME NEW k \in Emails \X Purposes
               PROVE  Cardinality(Answered(k, {"invalid"})) <=
                         max * (1 + lapses + Cardinality(Answered(k, Cleared)))
    BY DEF WrongCodesAreCounted
  <2>1. /\ max \in Nat /\ lapses \in Nat /\ Counted(k) \in Nat /\ Counted(k) <= max
        /\ Cardinality(Answered(k, {"invalid"})) \in Nat
        /\ Cardinality(Answered(k, Cleared)) \in Nat
    <3>1. max \in Nat /\ MaxAttempts = max + 1 /\ lapses \in Nat /\ attempts[k] \in Nat
      BY <1>1, OtpAssumption DEF IInv, OtpInv, TypeOK
    <3>2. Counted(k) \in Nat /\ Counted(k) <= max
      BY <3>1 DEF Counted
    <3> QED
      BY <1>1, <3>1, <3>2, FS_CardinalityType DEF IInv, FewAnswered
  <2> DEFINE n == lapses + Cardinality(Answered(k, Cleared))
  <2>2. Cardinality(Answered(k, {"invalid"})) <= max * n + Counted(k)
    BY <1>1 DEF IInv, OtpInv, CountersKeepUp
  <2>3. n \in Nat /\ 1 + lapses + Cardinality(Answered(k, Cleared)) = n + 1
    BY <2>1
  <2>4. max * n \in Nat /\ max * (n + 1) = max * n + max
    BY <2>1, <2>3, OneMore
  <2> HIDE DEF max, n
  <2> QED
    BY <2>1, <2>2, <2>3, <2>4
<1> QED
  BY <1>1, InitInv, NextInv, PTL DEF Spec
-----------------------------------------------------------------------------
(* The order registrations were saved in *)

\* p was saved, and q not before it.
IsSaved(q) == \E n \in DOMAIN saved : saved[n] = q
NotBefore(q, p) == \E m, n \in DOMAIN saved : saved[m] = p /\ saved[n] = q /\ m <= n
IsLatest(q) ==
    \E n \in DOMAIN saved :
        saved[n] = q /\ \A m \in DOMAIN saved : Email[saved[m]] = Email[q] => m <= n

\* A registration is saved once, and before its code is sent; the one that waits is the
\* latest saved of its email.
SavedOnce ==
    /\ \A m, n \in DOMAIN saved : saved[m] = saved[n] => m = n
    /\ \A n \in DOMAIN saved : pc[saved[n]] \notin {"unmade", "new", "pending", "save"}
SavedBeforeSent ==
    /\ \A q \in RegisterReqs : pc[q] = "send" => IsSaved(q)
    /\ \A n \in DOMAIN sent : sent[n] \in RegisterReqs => IsSaved(sent[n])
    /\ \A r \in Checks : found[r] \in RegisterReqs => IsSaved(found[r])
LatestWaits == \A e \in Emails : HasPending(e) => IsLatest(pending[e].by)
LaterAccount ==
    \A r \in VerifyReqs :
        pc[r] = "done" /\ found[r] \in RegisterReqs => NotBefore(user[Email[r]].by, found[r])
SavedInv == SavedOnce /\ SavedBeforeSent /\ LatestWaits /\ LaterAccount

\* The order of what was saved stays.
Saved(r) ==
    /\ r \in RegisterReqs /\ pc[r] = "save" /\ pc'[r] = "send"
    /\ saved' = Append(saved, r) /\ pending' = Upserted(r)
    /\ UNCHANGED <<user, sent, found>>
Unsaved(r) ==
    /\ UNCHANGED saved
    /\ r \in RegisterReqs =>
          /\ pc'[r] # "send"
          /\ pc'[r] \in {"unmade", "new", "pending", "save"} => pc[r] \in {"new", "pending"}
    /\ \A e \in Emails : pending'[e] = pending[e] \/ pending'[e] = NoRow
    /\ \/ UNCHANGED sent
       \/ r \in Senders /\ pc[r] = "send" /\ sent' = Append(sent, r)

LEMMA SavedKinds ==
    ASSUME TypeOK, NEW r \in Reqs, Step(r)
    PROVE  Saved(r) \/ Unsaved(r)
<1>1. CASE Walks(r)
  BY <1>1 DEF TypeOK, Walks, Goes, Unsaved, tables
<1>2. CASE r \in RegisterReqs /\ SavePending(r)
  BY <1>2 DEF TypeOK, SavePending, Goes, Saved, Unsaved
<1>3. CASE r \in Senders /\ StartVerification(r)
  BY <1>3 DEF TypeOK, StartVerification, Goes, Unsaved
<1>4. CASE r \in Checks /\ SelectCode(r)
  BY <1>4, KindsOfCalls DEF SelectCode, Unsaved, tables
<1>5. CASE r \in Checks /\ IncrementOtpAttempts(r)
  BY <1>5, KindsOfCalls DEF IncrementOtpAttempts, Unsaved
<1>6. CASE r \in Checks /\ (ClearOtpAttempts(r, "lock", "locked") \/ ClearOtpAttempts(r, "right", "write"))
  BY <1>6, KindsOfCalls DEF ClearOtpAttempts, Unsaved
<1>7. CASE r \in VerifyReqs /\ CreateUser(r)
  <2>1. \A e \in Emails : pending'[e] = pending[e] \/ pending'[e] = NoRow
    BY <1>7 DEF TypeOK, CreateUser
  <2> QED
    BY <1>7, <2>1, KindsOfCalls DEF CreateUser, Unsaved
<1>8. CASE r \in ResetReqs /\ SetPassword(r)
  BY <1>8, KindsOfCalls DEF SetPassword, Unsaved
<1> QED
  BY <1>1, <1>2, <1>3, <1>4, <1>5, <1>6, <1>7, <1>8 DEF Step

\* What is appended comes after the rest.
LEMMA SavedGrows ==
    ASSUME TypeOK, NEW r \in RegisterReqs, saved' = Append(saved, r)
    PROVE  /\ DOMAIN saved = 1..Len(saved) /\ DOMAIN saved' = 1..(Len(saved) + 1)
           /\ Len(saved) \in Nat
           /\ saved'[Len(saved) + 1] = r
           /\ \A n \in DOMAIN saved : saved'[n] = saved[n] /\ saved[n] \in RegisterReqs
           /\ \A q : IsSaved(q) => IsSaved(q)'
           /\ \A p, q : NotBefore(q, p) => NotBefore(q, p)'
<1>1. saved \in Seq(RegisterReqs)
  BY DEF TypeOK
<1>2. /\ DOMAIN saved = 1..Len(saved) /\ DOMAIN saved' = 1..(Len(saved) + 1)
      /\ Len(saved) \in Nat
      /\ saved'[Len(saved) + 1] = r
      /\ \A n \in DOMAIN saved : saved'[n] = saved[n] /\ saved[n] \in RegisterReqs
  BY <1>1
<1>3. \A n \in DOMAIN saved : n \in DOMAIN saved' /\ saved'[n] = saved[n]
  BY <1>2
<1> QED
  BY <1>2, <1>3 DEF IsSaved, NotBefore

LEMMA SavedOnceStep ==
    ASSUME TypeOK, SavedOnce, Tick \/ \E r \in Reqs : Step(r)
    PROVE  SavedOnce'
<1>1. CASE Tick
  <2>1. UNCHANGED <<saved, pc>>
    BY <1>1 DEF Tick, ExpireCode, PurgeCodes, ExpirePending, PurgePending, ExpireAttempts
  <2> QED
    BY <2>1 DEF SavedOnce
<1>2. ASSUME NEW r \in Reqs, Step(r), Unsaved(r) PROVE SavedOnce'
  <2>1. \A n \in DOMAIN saved : saved[n] \in RegisterReqs
    BY DEF TypeOK
  <2>2. \A q \in RegisterReqs : q # r => pc'[q] = pc[q]
    BY <1>2, OthersStand, KindsOfCalls
  <2> QED
    BY <1>2, <2>1, <2>2 DEF SavedOnce, Unsaved
<1>3. ASSUME NEW r \in Reqs, Step(r), Saved(r) PROVE SavedOnce'
  <2>1. \A q \in RegisterReqs : q # r => pc'[q] = pc[q]
    BY <1>3, OthersStand, KindsOfCalls
  <2>2. \A n \in DOMAIN saved : saved[n] # r
    BY <1>3 DEF Saved, SavedOnce
  <2>3. \A n \in DOMAIN saved' : n = Len(saved) + 1 \/ n \in DOMAIN saved
    BY <1>3, SavedGrows DEF Saved
  <2>4. /\ saved'[Len(saved) + 1] = r
        /\ \A n \in DOMAIN saved : saved'[n] = saved[n] /\ saved[n] \in RegisterReqs
    BY <1>3, SavedGrows DEF Saved
  <2> QED
    BY <1>3, <2>1, <2>2, <2>3, <2>4 DEF SavedOnce, Saved
<1> QED
  BY <1>1, <1>2, <1>3, SavedKinds

\* The arithmetic of a purge.
LEMMA WhatIsLeft ==
    ASSUME NEW n \in Nat, NEW k \in 1..n
    PROVE  /\ n - k \in Nat /\ n - (k + 1) + 1 = n - k
           /\ (IF k + 1 <= n THEN n - (k + 1) + 1 ELSE 0) = n - k
           /\ \A i \in 1..(n - k) : k + i \in 1..n /\ k + 1 + i - 1 = k + i
OBVIOUS

\* A code is sent, and found, after its registration was saved.
LEMMA SavedBeforeSentStep ==
    ASSUME TypeOK, SavedBeforeSent, Tick \/ \E r \in Reqs : Step(r)
    PROVE  SavedBeforeSent'
<1>0. Len(sent) \in Nat /\ DOMAIN sent = 1..Len(sent) /\ sent \in Seq(Senders)
      /\ expired \in 0..Len(sent)
  BY DEF TypeOK
<1>1. CASE Tick
  <2>1. UNCHANGED <<saved, pc, found>>
    BY <1>1 DEF Tick, ExpireCode, PurgeCodes, ExpirePending, PurgePending, ExpireAttempts
  <2>2. \A n \in DOMAIN sent' : \E m \in DOMAIN sent : sent'[n] = sent[m]
    <3>1. CASE PurgeCodes
      <4>1. PICK k \in 1..expired : sent' = SubSeq(sent, k + 1, Len(sent))
        BY <3>1 DEF PurgeCodes, Kept
      <4>2. k + 1 \in Int /\ Len(sent) \in Int /\ k \in 1..Len(sent)
            /\ \A i \in (k + 1)..Len(sent) : sent[i] \in Senders
        BY <1>0, <4>1
      <4>3. /\ sent' \in Seq(Senders)
            /\ Len(sent') = IF k + 1 <= Len(sent) THEN Len(sent) - (k + 1) + 1 ELSE 0
            /\ \A i \in 1..(Len(sent) - (k + 1) + 1) : sent'[i] = sent[k + 1 + i - 1]
        BY <4>1, <4>2, SubSeqProperties
      <4>4. DOMAIN sent' = 1..(Len(sent) - k)
        <5>1. Len(sent') = Len(sent) - k /\ Len(sent') \in Nat
          <6>1. /\ Len(sent) - k \in Nat
                /\ (IF k + 1 <= Len(sent) THEN Len(sent) - (k + 1) + 1 ELSE 0) = Len(sent) - k
            BY <1>0, <4>2, WhatIsLeft
          <6> QED
            BY <4>3, <6>1, SMTT(30)
        <5> QED
          BY <4>3, <5>1
      <4>5. \A i \in 1..(Len(sent) - k) : k + i \in DOMAIN sent /\ sent'[i] = sent[k + i]
        <5>1. Len(sent) - (k + 1) + 1 = Len(sent) - k
          BY <1>0, <4>2, WhatIsLeft
        <5>2. \A i \in 1..(Len(sent) - k) : k + i \in DOMAIN sent /\ k + 1 + i - 1 = k + i
          BY <1>0, <4>2, WhatIsLeft
        <5> QED
          BY <4>3, <5>1, <5>2
      <4> QED
        BY <4>4, <4>5
    <3>2. CASE ~PurgeCodes
      <4>1. UNCHANGED sent
        BY <1>1, <3>2 DEF Tick, ExpireCode, ExpirePending, PurgePending, ExpireAttempts
      <4> QED
        BY <4>1
    <3> QED
      BY <3>1, <3>2
  <2> QED
    BY <2>1, <2>2 DEF SavedBeforeSent, IsSaved
<1>2. ASSUME NEW r \in Reqs, Step(r) PROVE SavedBeforeSent'
  <2>1. \A q \in RegisterReqs : q # r => pc'[q] = pc[q]
    BY <1>2, OthersStand, KindsOfCalls
  <2>2. \A q : IsSaved(q) => IsSaved(q)'
    BY <1>2, SavedKinds, SavedGrows DEF Saved, Unsaved, IsSaved
  <2>3. \A q \in RegisterReqs : pc'[q] = "send" => IsSaved(q)'
    <3>1. CASE Saved(r)
      <4>1. IsSaved(r)'
        <5>1. Len(saved) + 1 \in DOMAIN saved' /\ saved'[Len(saved) + 1] = r
          BY <3>1, SavedGrows DEF Saved
        <5> QED
          BY <5>1 DEF IsSaved
      <4> QED
        BY <2>1, <2>2, <4>1 DEF SavedBeforeSent
    <3>2. CASE Unsaved(r)
      BY <2>1, <2>2, <3>2 DEF SavedBeforeSent, Unsaved
    <3> QED
      BY <1>2, <3>1, <3>2, SavedKinds
  <2>4. \A n \in DOMAIN sent' : sent'[n] \in RegisterReqs =>
           \E i \in DOMAIN saved' : saved'[i] = sent'[n]
    <3>1. CASE UNCHANGED sent
      BY <2>2, <3>1 DEF SavedBeforeSent, IsSaved
    <3>2. CASE r \in Senders /\ pc[r] = "send" /\ sent' = Append(sent, r)
      <4>1. \A n \in DOMAIN sent' : sent'[n] = r \/ (n \in DOMAIN sent /\ sent'[n] = sent[n])
        BY <1>0, <3>2
      <4> QED
        <5>1. \A n \in DOMAIN sent : sent[n] \in RegisterReqs => IsSaved(sent[n])
          BY DEF SavedBeforeSent
        <5>2. r \in RegisterReqs => IsSaved(r)
          BY <3>2 DEF SavedBeforeSent
        <5>3. ASSUME NEW n \in DOMAIN sent', sent'[n] \in RegisterReqs PROVE IsSaved(sent'[n])
          BY <4>1, <5>1, <5>2, <5>3
        <5> QED
          BY <2>2, <5>3 DEF IsSaved
    <3> QED
      BY <1>2, <3>1, <3>2, SavedKinds DEF Saved, Unsaved
  <2>5. \A q \in Checks : found'[q] \in RegisterReqs =>
           \E i \in DOMAIN saved' : saved'[i] = found'[q]
    <3>1. CASE UNCHANGED found
      BY <2>2, <3>1 DEF SavedBeforeSent, IsSaved
    <3>2. CASE r \in Checks /\ CodesFor(r) # {} /\ found' = [found EXCEPT ![r] = sent[Newest(r)]]
      <4>1. \A q \in Checks : found'[q] = found[q] \/ found'[q] = sent[Newest(r)]
        BY <3>2, KindsOfCalls DEF TypeOK
      <4>2. Newest(r) \in DOMAIN sent
        BY <3>2, NewestIsACode
      <4> QED
        BY <2>2, <4>1, <4>2 DEF SavedBeforeSent, IsSaved
    <3> QED
      BY <1>2, <3>1, <3>2, ChecksStart DEF SelectCode
  <2> QED
    BY <2>3, <2>4, <2>5 DEF SavedBeforeSent, IsSaved
<1> QED
  BY <1>1, <1>2

\* What waits is the last saved, or nothing does.
LEMMA LatestWaitsStep ==
    ASSUME TypeOK, PendingIsOneRequest, LatestWaits, Tick \/ \E r \in Reqs : Step(r)
    PROVE  LatestWaits'
<1>1. CASE Tick
  <2>1. UNCHANGED saved
    BY <1>1 DEF Tick, ExpireCode, PurgeCodes, ExpirePending, PurgePending, ExpireAttempts
  <2> QED
    BY <1>1, <2>1, TickKinds DEF LatestWaits, IsLatest, HasPending, NoRow
<1>2. ASSUME NEW r \in Reqs, Step(r), Unsaved(r) PROVE LatestWaits'
  BY <1>2 DEF Unsaved, LatestWaits, IsLatest, HasPending, NoRow
<1>3. ASSUME NEW r \in Reqs, Step(r), Saved(r) PROVE LatestWaits'
  <2>1. /\ pending'[Email[r]].by = r
        /\ \A e \in Emails : e # Email[r] => pending'[e] = pending[e]
    BY <1>3, KindsOfCalls DEF TypeOK, Saved, Upserted
  <2>2. /\ DOMAIN saved = 1..Len(saved) /\ DOMAIN saved' = 1..(Len(saved) + 1)
        /\ Len(saved) \in Nat
        /\ saved'[Len(saved) + 1] = r
        /\ \A n \in DOMAIN saved : saved'[n] = saved[n] /\ saved[n] \in RegisterReqs
    BY <1>3, SavedGrows DEF Saved
  <2>3. IsLatest(r)'
    BY <2>2 DEF IsLatest
  <2>4. ASSUME NEW q, IsLatest(q), Email[q] # Email[r] PROVE IsLatest(q)'
    <3>1. PICK n \in DOMAIN saved :
             saved[n] = q /\ \A m \in DOMAIN saved : Email[saved[m]] = Email[q] => m <= n
      BY <2>4 DEF IsLatest
    <3>2. n \in DOMAIN saved' /\ saved'[n] = q
      BY <2>2, <3>1
    <3>3. \A m \in DOMAIN saved' : Email[saved'[m]] = Email[q] => m <= n
      BY <2>2, <2>4, <3>1
    <3> QED
      BY <3>2, <3>3 DEF IsLatest
  <2> QED
    BY <2>1, <2>3, <2>4 DEF LatestWaits, HasPending, PendingIsOneRequest
<1> QED
  BY <1>1, <1>2, <1>3, SavedKinds

\* CreateUser takes the latest, and what was typed was saved by then.
LEMMA LaterAccountStep ==
    ASSUME IInv, SavedInv, Tick \/ \E r \in Reqs : Step(r)
    PROVE  LaterAccount'
<1>0. TypeOK /\ PendingIsOneRequest /\ FoundIsItsKind /\ ConfirmedHasAccount
  BY DEF IInv, OtpInv
<1>1. CASE Tick
  <2>1. UNCHANGED <<saved, user, pc, found>>
    BY <1>1 DEF Tick, ExpireCode, PurgeCodes, ExpirePending, PurgePending, ExpireAttempts
  <2> QED
    BY <2>1 DEF SavedInv, LaterAccount, NotBefore
<1>2. ASSUME NEW r \in Reqs, Step(r) PROVE LaterAccount'
  <2>1. \A q \in VerifyReqs : pc[q] = "done" => pc'[q] = pc[q] /\ found'[q] = found[q]
    BY <1>0, <1>2, OthersStand, KindsOfCalls
  <2>2. \A p, q : NotBefore(q, p) => NotBefore(q, p)'
    BY <1>0, <1>2, SavedKinds, SavedGrows DEF Saved, Unsaved, NotBefore
  <2>3. ASSUME NEW q \in VerifyReqs, pc[q] = "done", found[q] \in RegisterReqs,
               user'[Email[q]].by = user[Email[q]].by
        PROVE  \E m, n \in DOMAIN saved' :
                  saved'[m] = found'[q] /\ saved'[n] = user'[Email[q]].by /\ m <= n
    BY <2>1, <2>2, <2>3 DEF SavedInv, LaterAccount, NotBefore
  <2>4. ASSUME Quiet(r) \/ Saves(r) \/ Resets(r) PROVE LaterAccount'
    <3>1. \A e \in Emails : user'[e].by = user[e].by
      BY <1>0, <2>4, ResetRow DEF Quiet, Saves
    <3>2. \A q \in VerifyReqs : pc'[q] = "done" => pc[q] = "done"
      <4>1. r \in VerifyReqs => pc'[r] # "done"
        BY <2>4, KindsOfCalls DEF Quiet, Saves, Resets
      <4> QED
        BY <1>0, <1>2, <4>1, OthersStand, KindsOfCalls
    <3> QED
      BY <2>1, <2>3, <3>1, <3>2, KindsOfCalls DEF LaterAccount, NotBefore
  <2>5. CASE Creates(r)
    <3> DEFINE row == pending[Email[r]]
    <3>1. /\ row.by \in RegisterReqs /\ Email[row.by] = Email[r] /\ HasPending(Email[r])
          /\ ~HasAccount(Email[r])
      BY <1>0, <2>5, KindsOfCalls DEF Creates, Unique, PendingIsOneRequest
    <3>2. user'[Email[r]].by = row.by
      <4>1. Account(row).by = row.by
        BY DEF Account
      <4> QED
        BY <1>0, <2>5, <4>1, CreatedRow
    <3>3. IsLatest(row.by)
      BY <3>1, KindsOfCalls DEF SavedInv, LatestWaits
    <3>4. found[r] \in RegisterReqs => NotBefore(row.by, found[r])
      <4> SUFFICES ASSUME found[r] \in RegisterReqs PROVE NotBefore(row.by, found[r])
        OBVIOUS
      <4>1. IsSaved(found[r]) /\ Email[found[r]] = Email[r]
        BY <1>0, <2>5, KindsOfCalls DEF SavedInv, SavedBeforeSent, FoundIsItsKind, Key, Creates
      <4> QED
        BY <3>1, <3>3, <4>1 DEF IsSaved, IsLatest, NotBefore
    <3> HIDE DEF row
    <3>5. ASSUME NEW q \in VerifyReqs, pc'[q] = "done", found'[q] \in RegisterReqs
          PROVE  \E m, n \in DOMAIN saved' :
                    saved'[m] = found'[q] /\ saved'[n] = user'[Email[q]].by /\ m <= n
      <4>1. CASE q = r
        BY <2>2, <2>5, <3>2, <3>4, <3>5, <4>1 DEF Creates, NotBefore
      <4>2. CASE q # r
        <5>1. pc[q] = "done"
          BY <1>0, <1>2, <3>5, <4>2, OthersStand, KindsOfCalls
        <5>2. Email[q] # Email[r]
          BY <1>0, <3>1, <5>1 DEF ConfirmedHasAccount
        <5>3. user'[Email[q]].by = user[Email[q]].by
          BY <1>0, <2>5, <5>2, CreatedRow, KindsOfCalls
        <5> QED
          BY <2>1, <2>3, <3>5, <5>1, <5>3
      <4> QED
        BY <4>1, <4>2
    <3> QED
      BY <3>5 DEF LaterAccount, NotBefore
  <2> QED
    BY <1>0, <1>2, <2>4, <2>5, StepKinds
<1> QED
  BY <1>1, <1>2

LEMMA SavedInit == Init => SavedInv
<1> SUFFICES ASSUME Init PROVE SavedInv
  OBVIOUS
<1>1. DOMAIN saved = {} /\ DOMAIN sent = {}
  BY DEF Init
<1>2. \A r \in Reqs : pc[r] \in {"new", "unmade"} /\ found[r] = None
  BY DEF Init
<1>3. \A e \in Emails : ~HasPending(e)
  BY DEF Init, HasPending, NoRow
<1> QED
  BY <1>1, <1>2, <1>3, KindsOfCalls
     DEF SavedInv, SavedOnce, SavedBeforeSent, LatestWaits, LaterAccount

LEMMA SavedNext == IInv /\ SavedInv /\ [Next]_vars => SavedInv'
<1> SUFFICES ASSUME IInv, SavedInv, [Next]_vars PROVE SavedInv'
  OBVIOUS
<1>1. CASE Next
  <2>1. Tick \/ \E r \in Reqs : Step(r)
    BY <1>1, NextIsAStep
  <2>2. TypeOK /\ PendingIsOneRequest
    BY DEF IInv, OtpInv
  <2> QED
    BY <2>1, <2>2, SavedOnceStep, SavedBeforeSentStep, LatestWaitsStep, LaterAccountStep
       DEF SavedInv
<1>2. CASE UNCHANGED vars
  BY <1>2 DEF vars, SavedInv, SavedOnce, SavedBeforeSent, LatestWaits, LaterAccount, IsSaved,
              NotBefore, IsLatest, HasPending
<1> QED
  BY <1>1, <1>2

\* What Place picks, where a registration was saved once.
LEMMA PlaceIsThePlace ==
    ASSUME TypeOK, SavedOnce, NEW n \in DOMAIN saved
    PROVE  Place(saved[n]) = n
BY DEF SavedOnce, Place

\* requestRegistrationOtp, verifyRegistrationOtp: whoever registers again while a code is
\* checked, the account is never that of an older request than the one confirmed.
THEOREM LatestRegistrationWins == Spec => []AccountIsOfTheLatestRegistration
<1>1. ASSUME IInv, SavedInv PROVE AccountIsOfTheLatestRegistration
  <2> SUFFICES ASSUME NEW r \in VerifyReqs, pc[r] = "done", found[r] \in RegisterReqs
               PROVE  Place(user[Email[r]].by) >= Place(found[r])
    BY DEF AccountIsOfTheLatestRegistration
  <2>1. PICK m, n \in DOMAIN saved :
           saved[m] = found[r] /\ saved[n] = user[Email[r]].by /\ m <= n
    BY <1>1 DEF SavedInv, LaterAccount, NotBefore
  <2>2. Place(saved[m]) = m /\ Place(saved[n]) = n
    BY <1>1, PlaceIsThePlace DEF IInv, OtpInv, SavedInv
  <2>3. m \in Nat /\ n \in Nat
    <3>1. DOMAIN saved = 1..Len(saved)
      BY <1>1 DEF IInv, OtpInv, TypeOK
    <3> QED
      BY <3>1
  <2> QED
    BY <2>1, <2>2, <2>3
<1> QED
  BY <1>1, InitInv, NextInv, SavedInit, SavedNext, PTL DEF Spec
=============================================================================
