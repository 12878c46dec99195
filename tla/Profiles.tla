------------------------------ MODULE Profiles ------------------------------
(***************************************************************************)
(* Uploaded files and what users say about themselves: FilesService and    *)
(* the writing half of UsersService, one action per SQL statement, none of *)
(* them in a transaction.  Assets and Followup use the files and the       *)
(* administrators of this module; Support puts the three together.         *)
(*                                                                         *)
(* A call refused before its first statement (a token that is no longer    *)
(* valid, an empty PATCH) is a call not made, and no step.                 *)
(***************************************************************************)
EXTENDS Naturals, Sequences, FiniteSets

CONSTANTS
    Users,          \* ids of users
    FileIds,        \* ids of files, uploaded, announced or not yet announced
    Phones,
    Calls,          \* calls of this module and of those that extend it
    UploadCalls,    \* POST /files/upload-intent, PATCH /files/:id/mark-uploaded
    ProfileCalls,   \* PATCH /me, DELETE /me/avatar, PATCH /me/password, DELETE /me
    RoleCalls,      \* calls of administrators that promote, demote or delete a user
    Caller,         \* the authenticated user of a call
    InitialFile, InitialAccount,
    Rounds,         \* which calls are made: one of these sets
    None, Keep      \* a null, and a field that the client did not send

File == [owner : Users \cup {None}, purpose : {"avatar", "product_image"},
         status : {"none", "pending", "uploaded"}]
NoFile == [owner |-> None, purpose |-> "avatar", status |-> "none"]

\* was_admin is no column: it remembers that the user was an administrator once.
Account == [live : BOOLEAN, admin : BOOLEAN, was_admin : BOOLEAN,
            avatar : FileIds \cup {None}, phone : Phones \cup {None},
            password : Calls \cup {None}]

ASSUME ProfilesAssumption ==
    /\ Users \subseteq Nat
    /\ UploadCalls \cup ProfileCalls \cup RoleCalls \subseteq Calls
    /\ UploadCalls \cap (ProfileCalls \cup RoleCalls) = {} /\ ProfileCalls \cap RoleCalls = {}
    /\ Caller \in [Calls -> Users]
    /\ None \notin Users \cup FileIds \cup Phones \cup Calls
    /\ Keep \notin FileIds \cup Phones \cup {None}
    /\ Rounds \subseteq SUBSET Calls

\* The rows there are in the beginning keep the rules.
ASSUME InitialAssumption ==
    /\ InitialFile \in [FileIds -> File]
    /\ InitialAccount \in [Users -> Account]
    /\ \A u \in Users : LET a == InitialAccount[u] IN
          /\ a.admin => a.was_admin
          /\ a.avatar # None =>
               InitialFile[a.avatar] = [owner |-> u, purpose |-> "avatar", status |-> "uploaded"]
          /\ \A v \in Users \ {u} : a.phone # None => InitialAccount[v].phone # a.phone

VARIABLES
    file,     \* rows of files
    account,  \* rows of users
    pc,       \* where each call is
    form      \* locals of the calls of this module

profileVars == <<file, account, form>>

Form == [file : FileIds \cup {None}, avatar : FileIds \cup {None, Keep},
         phone : Phones \cup {None, Keep}]
EmptyForm == [file |-> None, avatar |-> Keep, phone |-> Keep]

\* An avatar is an uploaded avatar file of its user, and a phone is one user's.
OwnAvatar(u, f) ==
    f # None => file[f].owner = u /\ file[f].status = "uploaded" /\ file[f].purpose = "avatar"
OnePhone == \A u, v \in Users :
    account[u].phone = account[v].phone /\ u # v => account[u].phone = None

ProfilesInit ==
    /\ file = InitialFile
    /\ account = InitialAccount
    /\ \E round \in Rounds : pc = [c \in Calls |-> IF c \in round THEN "new" ELSE "unmade"]
    /\ form = [c \in Calls |-> EmptyForm]

-----------------------------------------------------------------------------
(* Shared steps *)

Goes(c, there) == pc' = [pc EXCEPT ![c] = there]
Live(u) == account[u].live
IsAdmin(u) == Live(u) /\ account[u].admin

\* A call that is refused, or dies between two statements, leaves what it wrote.
Fails(c) == Goes(c, "failed") /\ UNCHANGED profileVars
StatementFails(c) == pc[c] \notin {"unmade", "new", "done", "failed"} /\ Fails(c)

-----------------------------------------------------------------------------
(* FilesService *)

\* createUploadIntent: INSERT of a pending row, then the storage provider signs.
CreateUploadIntent(c) ==
    /\ pc[c] = "new"
    /\ \E f \in FileIds, purpose \in {"avatar", "product_image"} :
          /\ file[f].status = "none"
          /\ file' = [file EXCEPT ![f] =
                [owner |-> Caller[c], purpose |-> purpose, status |-> "pending"]]
    /\ Goes(c, "sign")
    /\ UNCHANGED <<account, form>>
SignUpload(c) == pc[c] = "sign" /\ Goes(c, "done") /\ UNCHANGED profileVars

\* markUploaded: only the uploader; SELECT, then UPDATE.
MayMark(c, f) == file[f].owner = Caller[c]
MarkUploaded(c) ==
    /\ pc[c] = "new"
    /\ \E f \in FileIds :
          IF MayMark(c, f)
          THEN form' = [form EXCEPT ![c].file = f] /\ Goes(c, "mark") /\ UNCHANGED <<file, account>>
          ELSE Fails(c)
MarkFile(c) ==
    /\ pc[c] = "mark"
    /\ file' = [file EXCEPT ![form[c].file].status = "uploaded"]
    /\ Goes(c, "done")
    /\ UNCHANGED <<account, form>>

-----------------------------------------------------------------------------
(* UsersService *)

\* updateMe: is the phone another live user's? ...
UpdateMe(c) ==
    /\ pc[c] = "new" /\ Live(Caller[c])
    /\ \E f \in FileIds \cup {None, Keep}, phone \in Phones \cup {None, Keep} :
          /\ <<f, phone>> # <<Keep, Keep>>
          /\ IF \E u \in Users \ {Caller[c]} :
                   phone \in Phones /\ Live(u) /\ account[u].phone = phone
             THEN Fails(c)
             ELSE /\ form' = [form EXCEPT ![c].avatar = f, ![c].phone = phone]
                  /\ Goes(c, "avatar")
                  /\ UNCHANGED <<file, account>>

\* ... is the file an uploaded avatar of the caller? ...
Usable(c, f) ==
    /\ file[f].owner = Caller[c]
    /\ file[f].status = "uploaded" /\ file[f].purpose = "avatar"
CheckAvatar(c) ==
    /\ pc[c] = "avatar"
    /\ IF form[c].avatar \in FileIds => Usable(c, form[c].avatar)
       THEN Goes(c, "write") /\ UNCHANGED profileVars
       ELSE Fails(c)

\* ... and the UPDATE, which UNIQUE(phone) may refuse, deleted users included.
\* PhoneUnchecked without the UNIQUE.
PhoneUnchecked(u, phone) == TRUE
PhoneFree(u, phone) == phone \in Phones => \A v \in Users \ {u} : account[v].phone # phone
\* OrSent writes the fields that were not sent, too.
OrSent(sent, old) == sent
Or(sent, old) == IF sent = Keep THEN old ELSE sent
WriteProfile(c) ==
    LET u == Caller[c]
    IN  /\ pc[c] = "write"
        /\ IF Live(u) /\ PhoneFree(u, form[c].phone)
           THEN /\ account' = [account EXCEPT ![u].avatar = Or(form[c].avatar, @),
                                              ![u].phone = Or(form[c].phone, @)]
                /\ Goes(c, "done")
                /\ UNCHANGED <<file, form>>
           ELSE Fails(c)

DeleteAvatar(c) ==
    /\ pc[c] = "new" /\ Live(Caller[c])
    /\ account' = [account EXCEPT ![Caller[c]].avatar = None]
    /\ Goes(c, "done")
    /\ UNCHANGED <<file, form>>

\* changePassword compares the hash it read (whether the caller knows it is his
\* affair) and overwrites the one the row has by then.
ChangePassword(c) ==
    /\ pc[c] = "new" /\ Live(Caller[c])
    /\ Goes(c, "hash")
    /\ UNCHANGED profileVars
WritePassword(c) ==
    /\ pc[c] = "hash"
    /\ account' = IF Live(Caller[c]) THEN [account EXCEPT ![Caller[c]].password = c] ELSE account
    /\ Goes(c, "done")
    /\ UNCHANGED <<file, form>>

DeleteMe(c) ==
    /\ pc[c] = "new" /\ Live(Caller[c])
    /\ account' = [account EXCEPT ![Caller[c]].live = FALSE]
    /\ Goes(c, "done")
    /\ UNCHANGED <<file, form>>

\* The UPDATEs of promoteAdmin, demoteAdmin and deleteUser (Sessions has the
\* whole of them).
ChangeRole(c) ==
    /\ pc[c] = "new"
    /\ \E u \in Users :
          /\ Live(u)
          /\ \/ account' = [account EXCEPT ![u].admin = TRUE, ![u].was_admin = TRUE]
             \/ account' = [account EXCEPT ![u].admin = FALSE]
             \/ account' = [account EXCEPT ![u].live = FALSE]
    /\ Goes(c, "done")
    /\ UNCHANGED <<file, form>>

ProfilesNext ==
    \/ \E c \in UploadCalls :
          CreateUploadIntent(c) \/ SignUpload(c) \/ MarkUploaded(c) \/ MarkFile(c)
    \/ \E c \in ProfileCalls :
          \/ UpdateMe(c) \/ CheckAvatar(c) \/ WriteProfile(c)
          \/ DeleteAvatar(c) \/ ChangePassword(c) \/ WritePassword(c) \/ DeleteMe(c)
    \/ \E c \in RoleCalls : ChangeRole(c)
    \/ \E c \in Calls : StatementFails(c)
-----------------------------------------------------------------------------
(* Properties *)

ProfilesTypeOK ==
    /\ file \in [FileIds -> File]
    /\ account \in [Users -> Account]
    /\ form \in [Calls -> Form]

\* updateMe and markUploaded: whatever uploads, marks and profile changes run at
\* once, a user's avatar is an uploaded avatar file of his own, and no two users
\* have one phone, though updateMe checks both some statements before it writes.
ProfilesAreTheirs ==
    /\ \A u \in Users : OwnAvatar(u, account[u].avatar)
    /\ OnePhone

\* Why: a file keeps its uploader and its purpose and never goes back, so what
\* updateMe found is still so when it writes.
CheckedAvatars ==
    \A c \in ProfileCalls : pc[c] = "write" /\ form[c].avatar # Keep =>
        OwnAvatar(Caller[c], form[c].avatar)
=============================================================================
