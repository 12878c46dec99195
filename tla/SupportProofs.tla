---------------------------- MODULE SupportProofs ----------------------------
(***************************************************************************)
(* Avatars, phones and conversations stay whose they are, and lists of     *)
(* assets are of one call, for every set of users, files, items and calls. *)
(***************************************************************************)
EXTENDS Support, TLAPS

(* The invariant *)

\* Who is an administrator was made one.
AdminsWere == \A u \in Users : account[u].admin => account[u].was_admin

\* createFollowupConversation between its statements: the item is the customer's or he
\* was an administrator, and so was the one who passed isActiveAdmin.
Openings == \A c \in OpenCalls :
    /\ pc[c] \in {"choose", "admin", "upsert"} =>
          /\ talk[c].item \in Items /\ talk[c].user \in Users
          /\ Owner[talk[c].item] = talk[c].user \/ account[talk[c].user].was_admin
    /\ pc[c] \in {"admin", "upsert"} => talk[c].admin \in Users
    /\ pc[c] = "upsert" => account[talk[c].admin].was_admin

\* sendFollowupMessage: who passed the access check is a party, also after others became one.
Speakers ==
    /\ \A c \in TalkCalls : pc[c] \in {"scope", "say"} \/ c \in said =>
          /\ talk[c].item \in Items /\ talk[c].user \in Users
          /\ Caller[c] = talk[c].user \/ Caller[c] \in conv[talk[c].item][talk[c].user].had
    /\ \A c \in said : pc[c] = "done"

\* The rows of followup_conversations.
Parties == \A i \in Items, u \in Users : conv[i][u] # NoConversation =>
    /\ Owner[i] = u \/ account[u].was_admin
    /\ conv[i][u].admin \in conv[i][u].had
    /\ \A a \in conv[i][u].had : account[a].was_admin

\* An open transaction of Assets has its holder.
Edits == \A c \in AssetCalls :
    pc[c] \in {"images", "documents", "commit"} => edit[c].holder \in Holders

PeopleInv == ProfilesAreTheirs /\ CheckedAvatars /\ AdminsWere
TalkInv == Openings /\ Speakers /\ Parties

-----------------------------------------------------------------------------
(* Lists of assets *)

Open(c) == pc[c] \in {"images", "documents", "commit"}
\* The lists an open call has replaced in its transaction.
Synced(c) == {k \in Kinds :
    /\ edit[c].sent[k] # None
    /\ pc[c] = "commit" \/ (pc[c] = "documents" /\ k = "image")}
\* UNIQUE(product_id, file_id) of a set of rows.
OneRowEach(rows) == \A a, b \in rows : a.holder = b.holder /\ a.file = b.file => a = b
RowsAmong(rows, h, k) == {a \in rows : a.holder = h /\ a.kind = k}

\* An open transaction has deleted the rows of the lists it has replaced and no others, has
\* inserted theirs, and would leave no file twice.
Transaction(c) ==
    /\ holder[edit[c].holder].status = "live"
    /\ edit[c].gone = {a \in assets : a.holder = edit[c].holder /\ a.kind \in Synced(c)}
    /\ \A a \in edit[c].mine : a.holder = edit[c].holder /\ a.kind \in Synced(c)
    /\ \A k \in Synced(c) :
          RowsAmong(edit[c].mine, edit[c].holder, k)
            = NewRows(edit[c].holder, k, edit[c].sent[k])
    /\ OneRowEach((assets \ edit[c].gone) \cup edit[c].mine)
\* The lock of the row: a transaction has its holder for itself.
OneOpenEach == \A c, d \in AssetCalls :
    Open(c) /\ Open(d) /\ edit[c].holder = edit[d].holder => c = d
Transactions == OneOpenEach /\ \A c \in AssetCalls : Open(c) => Transaction(c)

\* A call not begun has no list; a holder not created has no rows; who wrote a holder last
\* was answered.
Unwritten ==
    /\ \A c \in AssetCalls : pc[c] \in {"new", "unmade"} => edit[c] = EmptyEdit
    /\ \A h \in Holders : holder[h].status = "none" =>
          holder[h].updated_by = None /\ \A a \in assets : a.holder # h
    /\ \A h \in Holders : holder[h].updated_by # None =>
          /\ holder[h].updated_by \in AssetCalls /\ pc[holder[h].updated_by] = "done"

\* ListsAreOfOneCall, of one list.
OfOneCall(h, k) ==
    /\ RowsOf(h, k) # {} =>
          \E c \in AssetCalls : Sent(c, h, k) /\ Spell(RowsOf(h, k), edit[c].sent[k])
    /\ holder[h].updated_by # None /\ edit[holder[h].updated_by].sent[k] # None =>
          Spell(RowsOf(h, k), edit[holder[h].updated_by].sent[k])
Committed == OneRowEach(assets) /\ \A h \in Holders, k \in Kinds : OfOneCall(h, k)

ListsInv == Transactions /\ Unwritten /\ Committed

SupportInv == TypeOK /\ Edits /\ ListsInv /\ PeopleInv /\ TalkInv

-----------------------------------------------------------------------------
(* Types *)

LEMMA InitType == Init => TypeOK
<1> SUFFICES ASSUME Init PROVE TypeOK
  OBVIOUS
<1>1. ProfilesTypeOK
  BY InitialAssumption DEF Init, ProfilesInit, ProfilesTypeOK, Form, EmptyForm
<1>2. AssetsTypeOK
  BY DEF Init, AssetsInit, AssetsTypeOK, Holder, Edit, EmptyEdit
<1>3. FollowupTypeOK
  <2>1. step \in [StepCalls -> Step]
    BY DEF Init, FollowupInit, Step, NoStep
  <2>2. NoConversation \in Conversation
    BY DEF NoConversation, Conversation
  <2>3. conv \in [Items -> [Users -> Conversation]]
    BY <2>2 DEF Init, FollowupInit
  <2>4. said \subseteq TalkCalls /\ talk \in [Calls -> Talk]
    BY DEF Init, FollowupInit, Talk, EmptyTalk
  <2> QED  BY <2>1, <2>3, <2>4 DEF FollowupTypeOK
<1>4. pc \in [Calls -> PC]
  BY DEF Init, ProfilesInit, PC
<1> QED  BY <1>1, <1>2, <1>3, <1>4 DEF TypeOK

LEMMA ProfilesType ==
    ASSUME TypeOK, ProfilesNext PROVE ProfilesTypeOK' /\ pc' \in [Calls -> PC]
<1>0. /\ file \in [FileIds -> File] /\ account \in [Users -> Account]
      /\ form \in [Calls -> Form] /\ pc \in [Calls -> PC]
      /\ Caller \in [Calls -> Users]
      /\ UploadCalls \subseteq Calls /\ ProfileCalls \subseteq Calls /\ RoleCalls \subseteq Calls
  BY ProfilesAssumption DEF TypeOK, ProfilesTypeOK
<1>g. ASSUME NEW c \in Calls, NEW there \in PC, Goes(c, there) PROVE pc' \in [Calls -> PC]
  BY <1>0, <1>g DEF Goes
<1>f. ASSUME NEW c \in Calls, Fails(c) PROVE ProfilesTypeOK' /\ pc' \in [Calls -> PC]
  BY <1>0, <1>f, <1>g DEF Fails, PC, profileVars, ProfilesTypeOK
<1>1. ASSUME NEW c \in UploadCalls, CreateUploadIntent(c)
      PROVE  ProfilesTypeOK' /\ pc' \in [Calls -> PC]
  <2>1. PICK f \in FileIds, purpose \in {"avatar", "product_image"} :
          file' = [file EXCEPT ![f] =
                [owner |-> Caller[c], purpose |-> purpose, status |-> "pending"]]
    BY <1>1 DEF CreateUploadIntent
  <2>2. file' \in [FileIds -> File]
    BY <1>0, <2>1 DEF File
  <2>3. Goes(c, "sign") /\ UNCHANGED <<account, form>>
    BY <1>1 DEF CreateUploadIntent
  <2> QED  BY <1>0, <1>g, <2>2, <2>3 DEF ProfilesTypeOK, PC
<1>2. ASSUME NEW c \in UploadCalls, SignUpload(c)
      PROVE  ProfilesTypeOK' /\ pc' \in [Calls -> PC]
  BY <1>0, <1>2, <1>g DEF SignUpload, PC, profileVars, ProfilesTypeOK
<1>3. ASSUME NEW c \in UploadCalls, MarkUploaded(c)
      PROVE  ProfilesTypeOK' /\ pc' \in [Calls -> PC]
  <2>1. PICK f \in FileIds : \/ form' = [form EXCEPT ![c].file = f] /\ Goes(c, "mark")
                                  /\ UNCHANGED <<file, account>>
                             \/ Fails(c)
    BY <1>3 DEF MarkUploaded
  <2>2. CASE form' = [form EXCEPT ![c].file = f] /\ Goes(c, "mark") /\ UNCHANGED <<file, account>>
    <3>1. form' \in [Calls -> Form]
      BY <2>2, <1>0 DEF Form
    <3> QED  BY <3>1, <2>2, <1>0, <1>g DEF ProfilesTypeOK, PC
  <2> QED  BY <2>1, <2>2, <1>0, <1>f
<1>4. ASSUME NEW c \in UploadCalls, MarkFile(c)
      PROVE  ProfilesTypeOK' /\ pc' \in [Calls -> PC]
  <2>1. file' \in [FileIds -> File]
    BY <1>0, <1>4, ZenonT(60) DEF MarkFile, File
  <2> QED  BY <1>0, <1>4, <1>g, <2>1 DEF MarkFile, ProfilesTypeOK, PC
<1>5. ASSUME NEW c \in ProfileCalls, UpdateMe(c)
      PROVE  ProfilesTypeOK' /\ pc' \in [Calls -> PC]
  <2>1. PICK f \in FileIds \cup {None, Keep}, phone \in Phones \cup {None, Keep} :
          \/ /\ form' = [form EXCEPT ![c].avatar = f, ![c].phone = phone]
             /\ Goes(c, "avatar") /\ UNCHANGED <<file, account>>
          \/ Fails(c)
    BY <1>5 DEF UpdateMe
  <2>2. CASE /\ form' = [form EXCEPT ![c].avatar = f, ![c].phone = phone]
             /\ Goes(c, "avatar") /\ UNCHANGED <<file, account>>
    <3>1. form' \in [Calls -> Form]
      BY <2>2, <1>0 DEF Form
    <3> QED  BY <3>1, <2>2, <1>0, <1>g DEF ProfilesTypeOK, PC
  <2> QED  BY <2>1, <2>2, <1>0, <1>f
<1>6. ASSUME NEW c \in ProfileCalls, CheckAvatar(c) \/ ChangePassword(c)
      PROVE  ProfilesTypeOK' /\ pc' \in [Calls -> PC]
  BY <1>0, <1>6, <1>f, <1>g DEF CheckAvatar, ChangePassword, PC, profileVars, ProfilesTypeOK
<1>7. ASSUME NEW c \in ProfileCalls, WriteProfile(c)
      PROVE  ProfilesTypeOK' /\ pc' \in [Calls -> PC]
  <2> DEFINE u == Caller[c]
  <2>1. CASE /\ account' = [account EXCEPT ![u].avatar = Or(form[c].avatar, @),
                                           ![u].phone = Or(form[c].phone, @)]
             /\ Goes(c, "done") /\ UNCHANGED <<file, form>>
    <3>1. /\ Or(form[c].avatar, account[u].avatar) \in FileIds \cup {None}
          /\ Or(form[c].phone, account[u].phone) \in Phones \cup {None}
      BY <1>0 DEF Or, Form, Account
    <3>2. account' \in [Users -> Account]
      BY <2>1, <3>1, <1>0 DEF Account
    <3> QED  BY <3>2, <2>1, <1>0, <1>g DEF ProfilesTypeOK, PC
  <2> QED  BY <1>7, <2>1, <1>0, <1>f DEF WriteProfile
<1>8. ASSUME NEW c \in ProfileCalls, DeleteAvatar(c) \/ DeleteMe(c)
      PROVE  ProfilesTypeOK' /\ pc' \in [Calls -> PC]
  <2>1. account' \in [Users -> Account]
    <3>1. CASE DeleteAvatar(c)
      BY <3>1, <1>0 DEF DeleteAvatar, Account
    <3>2. CASE DeleteMe(c)
      BY <3>2, <1>0, ZenonT(60) DEF DeleteMe, Account
    <3> QED  BY <1>8, <3>1, <3>2
  <2> QED  BY <1>0, <1>8, <1>g, <2>1 DEF DeleteAvatar, DeleteMe, ProfilesTypeOK, PC
<1>9. ASSUME NEW c \in ProfileCalls, WritePassword(c)
      PROVE  ProfilesTypeOK' /\ pc' \in [Calls -> PC]
  <2>1. account' \in [Users -> Account]
    BY <1>0, <1>9, SMTT(40) DEF WritePassword, Account
  <2> QED  BY <1>0, <1>9, <1>g, <2>1 DEF WritePassword, ProfilesTypeOK, PC
<1>10. ASSUME NEW c \in RoleCalls, ChangeRole(c)
       PROVE  ProfilesTypeOK' /\ pc' \in [Calls -> PC]
  <2>1. account' \in [Users -> Account]
    <3>1. PICK u \in Users :
            \/ account' = [account EXCEPT ![u].admin = TRUE, ![u].was_admin = TRUE]
            \/ account' = [account EXCEPT ![u].admin = FALSE]
            \/ account' = [account EXCEPT ![u].live = FALSE]
      BY <1>10 DEF ChangeRole
    <3>2. /\ [account[u] EXCEPT !.admin = TRUE, !.was_admin = TRUE] \in Account
          /\ [account[u] EXCEPT !.admin = FALSE] \in Account
          /\ [account[u] EXCEPT !.live = FALSE] \in Account
      BY <1>0, ZenonT(60) DEF Account
    <3> QED  BY <1>0, <3>1, <3>2
  <2> QED  BY <1>0, <1>10, <1>g, <2>1 DEF ChangeRole, ProfilesTypeOK, PC
<1>11. ASSUME NEW c \in Calls, StatementFails(c)
       PROVE  ProfilesTypeOK' /\ pc' \in [Calls -> PC]
  BY <1>11, <1>f DEF StatementFails
<1> QED  BY <1>1, <1>2, <1>3, <1>4, <1>5, <1>6, <1>7, <1>8, <1>9, <1>10, <1>11 DEF ProfilesNext

LEMMA FollowupType ==
    ASSUME TypeOK, Openings, FollowupNext PROVE FollowupTypeOK' /\ pc' \in [Calls -> PC]
<1>0. /\ step \in [StepCalls -> Step] /\ conv \in [Items -> [Users -> Conversation]]
      /\ said \subseteq TalkCalls /\ talk \in [Calls -> Talk] /\ pc \in [Calls -> PC]
      /\ Caller \in [Calls -> Users]
      /\ StepCalls \subseteq Calls /\ OpenCalls \subseteq Calls /\ TalkCalls \subseteq Calls
  BY ProfilesAssumption, FollowupAssumption DEF TypeOK, FollowupTypeOK
<1>g. ASSUME NEW c \in Calls, NEW there \in PC, Goes(c, there) PROVE pc' \in [Calls -> PC]
  BY <1>0, <1>g DEF Goes
<1>r. ASSUME NEW c \in Calls, Refused(c) PROVE FollowupTypeOK' /\ pc' \in [Calls -> PC]
  BY <1>0, <1>r, <1>g DEF Refused, PC, followupVars, FollowupTypeOK
<1>1. ASSUME NEW c \in StepCalls, CreateStep(c)
      PROVE  FollowupTypeOK' /\ pc' \in [Calls -> PC]
  <2>1. PICK i \in Items, f \in FileIds \cup {None} :
          talk' = [talk EXCEPT ![c].item = i, ![c].image = f]
    BY <1>1 DEF CreateStep
  <2>2. talk' \in [Calls -> Talk]
    BY <1>0, <2>1, ZenonT(60) DEF Talk
  <2> QED  BY <1>0, <1>1, <1>g, <2>2 DEF CreateStep, FollowupTypeOK, PC
<1>2. ASSUME NEW c \in StepCalls, InsertStep(c)
      PROVE  FollowupTypeOK' /\ pc' \in [Calls -> PC]
  <2>1. CASE /\ step' = [step EXCEPT ![c] = [item |-> talk[c].item, image |-> talk[c].image]]
             /\ Goes(c, "done") /\ UNCHANGED <<conv, said, talk>>
    <3>1. step' \in [StepCalls -> Step]
      BY <1>0, <2>1 DEF Step, Talk
    <3> QED  BY <3>1, <2>1, <1>0, <1>g DEF FollowupTypeOK, PC
  <2> QED  BY <1>2, <1>0, <1>r, <2>1 DEF InsertStep
<1>3. ASSUME NEW c \in StepCalls, UpdateStep(c) \/ DeleteStep(c)
      PROVE  FollowupTypeOK' /\ pc' \in [Calls -> PC]
  <2>1. PICK s \in StepCalls, f \in FileIds \cup {None} :
          \/ /\ \/ step' = [step EXCEPT ![s].image = IF f = None THEN @ ELSE f]
                \/ step' = [step EXCEPT ![s] = NoStep]
             /\ Goes(c, "done") /\ UNCHANGED <<conv, said, talk>>
          \/ Refused(c)
    BY <1>3 DEF UpdateStep, DeleteStep
  <2>2. ASSUME step' = [step EXCEPT ![s].image = IF f = None THEN @ ELSE f]
        PROVE  step' \in [StepCalls -> Step]
    BY <1>0, <2>2 DEF Step
  <2>3. ASSUME step' = [step EXCEPT ![s] = NoStep]
        PROVE  step' \in [StepCalls -> Step]
    BY <1>0, <2>3 DEF Step, NoStep
  <2> QED  BY <2>1, <2>2, <2>3, <1>0, <1>g, <1>r DEF FollowupTypeOK, PC
<1>4. ASSUME NEW c \in OpenCalls, OpenConversation(c)
      PROVE  FollowupTypeOK' /\ pc' \in [Calls -> PC]
  <2>1. PICK i \in Items :
          \/ /\ talk' = [talk EXCEPT ![c].item = i, ![c].user = Caller[c]]
             /\ Goes(c, "choose") /\ UNCHANGED <<step, conv, said>>
          \/ Refused(c)
    BY <1>4 DEF OpenConversation
  <2>2. ASSUME talk' = [talk EXCEPT ![c].item = i, ![c].user = Caller[c]]
        PROVE  talk' \in [Calls -> Talk]
    BY <1>0, <2>2, SMTT(30) DEF Talk
  <2> QED  BY <2>1, <2>2, <1>0, <1>g, <1>r DEF FollowupTypeOK, PC
<1>5. ASSUME NEW c \in OpenCalls, ChooseAdmin(c)
      PROVE  FollowupTypeOK' /\ pc' \in [Calls -> PC]
  <2>1. PICK a \in Users : talk' = [talk EXCEPT ![c].admin = a]
    BY <1>5 DEF ChooseAdmin, AnyAdmin
  <2>2. talk' \in [Calls -> Talk]
    BY <1>0, <2>1, ZenonT(60) DEF Talk
  <2> QED  BY <1>0, <1>5, <1>g, <2>2 DEF ChooseAdmin, FollowupTypeOK, PC
<1>6. ASSUME NEW c \in OpenCalls, FindNoAdmin(c) \/ IsActiveAdmin(c)
      PROVE  FollowupTypeOK' /\ pc' \in [Calls -> PC]
  BY <1>0, <1>6, <1>g, <1>r DEF FindNoAdmin, IsActiveAdmin, FollowupTypeOK, PC, followupVars
<1>7. ASSUME NEW c \in OpenCalls, UpsertConversation(c)
      PROVE  FollowupTypeOK' /\ pc' \in [Calls -> PC]
  <2> DEFINE row(i, u) == [admin |-> talk[c].admin, had |-> conv[i][u].had \cup {talk[c].admin}]
  <2>1. talk[c].item \in Items /\ talk[c].user \in Users /\ talk[c].admin \in Users
    BY <1>7 DEF UpsertConversation, Openings
  <2>2. conv[talk[c].item][talk[c].user] \in Conversation
    BY <2>1, <1>0
  <2>3. row(talk[c].item, talk[c].user) \in Conversation
    BY <2>1, <2>2 DEF Conversation
  <2>4. conv' = [conv EXCEPT ![talk[c].item][talk[c].user] = row(talk[c].item, talk[c].user)]
    BY <1>7, <2>1, <1>0 DEF UpsertConversation
  <2> HIDE DEF row
  <2>5. conv' \in [Items -> [Users -> Conversation]]
    BY <2>1, <2>3, <2>4, <1>0
  <2> QED  BY <1>0, <1>7, <1>g, <2>5 DEF UpsertConversation, FollowupTypeOK, PC
<1>8. ASSUME NEW c \in TalkCalls, CheckAccess(c)
      PROVE  FollowupTypeOK' /\ pc' \in [Calls -> PC]
  <2>1. PICK i \in Items, v \in Users :
          \/ /\ talk' = [talk EXCEPT ![c].item = i, ![c].user = v]
             /\ Goes(c, "scope") /\ UNCHANGED <<step, conv, said>>
          \/ Refused(c)
    BY <1>8 DEF CheckAccess
  <2>2. ASSUME talk' = [talk EXCEPT ![c].item = i, ![c].user = v]
        PROVE  talk' \in [Calls -> Talk]
    BY <1>0, <2>2, ZenonT(60) DEF Talk
  <2> QED  BY <2>1, <2>2, <1>0, <1>g, <1>r DEF FollowupTypeOK, PC
<1>9. ASSUME NEW c \in TalkCalls, CheckScope(c) \/ SendMessage(c)
      PROVE  FollowupTypeOK' /\ pc' \in [Calls -> PC]
  BY <1>0, <1>9, <1>g, <1>r DEF CheckScope, SendMessage, FollowupTypeOK, PC, followupVars
<1> QED  BY <1>1, <1>2, <1>3, <1>4, <1>5, <1>6, <1>7, <1>8, <1>9 DEF FollowupNext

LEMMA NewRowsAreAssets ==
    ASSUME NEW h \in Holders, NEW k \in Kinds, NEW list \in Lists
    PROVE  NewRows(h, k, list) \subseteq Asset
<1> SUFFICES ASSUME NEW i \in DOMAIN list
             PROVE  [holder |-> h, kind |-> k, file |-> list[i], sort_order |-> i - 1] \in Asset
  BY DEF NewRows
<1>1. list \in Seq(FileIds)
  BY AssetsAssumption
<1>2. list[i] \in FileIds /\ i \in Nat \ {0}
  BY <1>1
<1> QED  BY <1>2 DEF Asset

LEMMA AssetsType ==
    ASSUME TypeOK, Edits, AssetsNext PROVE AssetsTypeOK' /\ pc' \in [Calls -> PC]
<1>0. /\ holder \in [Holders -> Holder] /\ assets \subseteq Asset
      /\ edit \in [Calls -> Edit] /\ pc \in [Calls -> PC] /\ AssetCalls \subseteq Calls
  BY AssetsAssumption DEF TypeOK, AssetsTypeOK
<1>g. ASSUME NEW c \in Calls, NEW there \in PC, Goes(c, there) PROVE pc' \in [Calls -> PC]
  BY <1>0, <1>g DEF Goes
<1>k. ASSUME NEW c \in Calls, NEW there \in PC, Goes(c, there), UNCHANGED assetVars
      PROVE  AssetsTypeOK' /\ pc' \in [Calls -> PC]
  BY <1>0, <1>k, <1>g DEF assetVars, AssetsTypeOK
<1>1. ASSUME NEW c \in AssetCalls, CreateHolder(c)
      PROVE  AssetsTypeOK' /\ pc' \in [Calls -> PC]
  <2>1. PICK h \in Holders, images \in Lists, documents \in Lists \cup {None} :
          \/ /\ holder' = [holder EXCEPT ![h] =
                   [status |-> "live", active |-> TRUE, updated_by |-> c]]
             /\ assets' = assets \cup (NewRows(h, "image", images) \cup
                   (IF documents = None THEN {} ELSE NewRows(h, "file", documents)))
             /\ edit' = [edit EXCEPT ![c].holder = h, ![c].sent =
                   [k \in Kinds |-> IF k = "image" THEN images ELSE documents]]
             /\ Goes(c, "done")
          \/ Goes(c, "failed") /\ UNCHANGED assetVars
    BY <1>1 DEF CreateHolder
  <2>2. CASE /\ holder' = [holder EXCEPT ![h] =
                   [status |-> "live", active |-> TRUE, updated_by |-> c]]
             /\ assets' = assets \cup (NewRows(h, "image", images) \cup
                   (IF documents = None THEN {} ELSE NewRows(h, "file", documents)))
             /\ edit' = [edit EXCEPT ![c].holder = h, ![c].sent =
                   [k \in Kinds |-> IF k = "image" THEN images ELSE documents]]
             /\ Goes(c, "done")
    <3>1. holder' \in [Holders -> Holder]
      BY <2>2, <1>0 DEF Holder
    <3>2. assets' \subseteq Asset
      BY <2>2, <1>0, NewRowsAreAssets DEF Kinds
    <3>3. [k \in Kinds |-> IF k = "image" THEN images ELSE documents] \in [Kinds -> Lists \cup {None}]
      OBVIOUS
    <3>4. edit' \in [Calls -> Edit]
      BY <2>2, <3>3, <1>0, ZenonT(60) DEF Edit
    <3> QED  BY <3>1, <3>2, <3>4, <2>2, <1>0, <1>g DEF AssetsTypeOK, PC
  <2> QED  BY <2>1, <2>2, <1>0, <1>k DEF PC
<1>2. ASSUME NEW c \in AssetCalls, UpdateHolder(c)
      PROVE  AssetsTypeOK' /\ pc' \in [Calls -> PC]
  <2>1. PICK h \in Holders, active \in BOOLEAN, sent \in [Kinds -> Lists \cup {None}] :
          \/ /\ edit' = [edit EXCEPT ![c].holder = h, ![c].active = active, ![c].sent = sent]
             /\ Goes(c, "images") /\ UNCHANGED <<holder, assets>>
          \/ Goes(c, "failed") /\ UNCHANGED assetVars
    BY <1>2 DEF UpdateHolder
  <2>2. ASSUME edit' = [edit EXCEPT ![c].holder = h, ![c].active = active, ![c].sent = sent]
        PROVE  edit' \in [Calls -> Edit]
    <3>1. [edit[c] EXCEPT !.holder = h, !.active = active, !.sent = sent] \in Edit
      BY <1>0 DEF Edit
    <3> QED  BY <3>1, <2>2, <1>0
  <2> QED  BY <2>1, <2>2, <1>0, <1>g, <1>k DEF AssetsTypeOK, PC
<1>3. ASSUME NEW c \in AssetCalls, NEW k \in Kinds, NEW next \in PC, edit[c].holder \in Holders,
             Sync(c, k, next)
      PROVE  AssetsTypeOK' /\ pc' \in [Calls -> PC]
  <2> DEFINE list == edit[c].sent[k]
             rows == NewRows(edit[c].holder, k, list)
             gone == edit[c].gone \cup RowsOf(edit[c].holder, k)
  <2>1. CASE /\ list # None
             /\ edit' = [edit EXCEPT ![c].gone = gone, ![c].mine = @ \cup rows]
             /\ Goes(c, next) /\ UNCHANGED <<holder, assets>>
    <3>1. edit[c] \in Edit /\ list \in Lists
      BY <2>1, <1>0 DEF Edit
    <3>2. rows \subseteq Asset
      BY <1>3, <3>1, NewRowsAreAssets
    <3>3. gone \subseteq Asset /\ edit[c].mine \cup rows \subseteq Asset
      BY <3>1, <3>2, <1>0 DEF RowsOf, Edit
    <3> HIDE DEF rows, gone
    <3>4. [edit[c] EXCEPT !.gone = gone, !.mine = edit[c].mine \cup rows] \in Edit
      BY <3>1, <3>3 DEF Edit
    <3>5. edit' \in [Calls -> Edit]
      BY <3>4, <2>1, <1>0
    <3> QED  BY <3>5, <2>1, <1>0, <1>g DEF AssetsTypeOK
  <2> QED  BY <1>3, <2>1, <1>0, <1>k DEF Sync, PC
<1>4. ASSUME NEW c \in AssetCalls, SyncImages(c) \/ SyncDocuments(c)
      PROVE  AssetsTypeOK' /\ pc' \in [Calls -> PC]
  <2>1. edit[c].holder \in Holders
    BY <1>4 DEF Edits, SyncImages, SyncDocuments
  <2>2. Sync(c, "image", "documents") \/ Sync(c, "file", "commit")
    BY <1>4 DEF SyncImages, SyncDocuments
  <2> QED  BY <2>1, <2>2, <1>3 DEF Kinds, PC
<1>5. ASSUME NEW c \in AssetCalls, CommitHolder(c)
      PROVE  AssetsTypeOK' /\ pc' \in [Calls -> PC]
  <2> DEFINE h == edit[c].holder
  <2>1. h \in Holders /\ edit[c] \in Edit
    BY <1>0, <1>5 DEF CommitHolder, Edits
  <2>2. holder' = [holder EXCEPT ![h].active = edit[c].active, ![h].updated_by = c]
    BY <1>5 DEF CommitHolder
  <2>a. edit[c].active \in BOOLEAN /\ holder[h] \in Holder
    BY <2>1, <1>0 DEF Edit
  <2>3. ASSUME NEW old \in Holder, NEW active \in BOOLEAN
        PROVE  [old EXCEPT !.active = active, !.updated_by = c] \in Holder
    BY <1>0 DEF Holder
  <2> HIDE DEF h
  <2>4. holder' \in [Holders -> Holder]
    BY <2>1, <2>2, <2>a, <2>3, <1>0
  <2>5. assets' \subseteq Asset
    BY <2>1, <1>0, <1>5 DEF CommitHolder, Edit
  <2> QED  BY <2>4, <2>5, <1>0, <1>5, <1>g DEF CommitHolder, AssetsTypeOK, PC
<1>6. ASSUME NEW c \in AssetCalls, DeleteHolder(c)
      PROVE  AssetsTypeOK' /\ pc' \in [Calls -> PC]
  <2>1. PICK h \in Holders :
          \/ holder' = [holder EXCEPT ![h].status = "deleted"] /\ Goes(c, "done")
          \/ Goes(c, "failed") /\ UNCHANGED holder
    BY <1>6 DEF DeleteHolder
  <2>2. holder' \in [Holders -> Holder]
    BY <2>1, <1>0 DEF Holder
  <2> QED  BY <2>1, <2>2, <1>0, <1>6, <1>g DEF DeleteHolder, AssetsTypeOK, PC
<1> QED  BY <1>1, <1>2, <1>4, <1>5, <1>6 DEF AssetsNext

LEMMA StepType == SupportInv /\ [Next]_vars => TypeOK'
<1> SUFFICES ASSUME SupportInv, [Next]_vars PROVE TypeOK'
  OBVIOUS
<1> USE DEF SupportInv, TalkInv
<1>1. CASE ProfilesNext /\ UNCHANGED <<assetVars, followupVars>>
  BY <1>1, ProfilesType DEF TypeOK, AssetsTypeOK, FollowupTypeOK, assetVars, followupVars
<1>2. CASE AssetsNext /\ UNCHANGED <<profileVars, followupVars>>
  BY <1>2, AssetsType DEF TypeOK, ProfilesTypeOK, FollowupTypeOK, profileVars, followupVars
<1>3. CASE FollowupNext /\ UNCHANGED <<profileVars, assetVars>>
  BY <1>3, FollowupType DEF TypeOK, ProfilesTypeOK, AssetsTypeOK, profileVars, assetVars
<1>4. CASE UNCHANGED vars
  BY <1>4 DEF TypeOK, ProfilesTypeOK, AssetsTypeOK, FollowupTypeOK, vars, profileVars, assetVars,
              followupVars
<1> QED  BY <1>1, <1>2, <1>3, <1>4 DEF Next

-----------------------------------------------------------------------------
(* What a step of one module is for the others *)

\* The stages that the invariant speaks of.
Stages == {"write", "images", "documents", "commit", "choose", "admin", "upsert", "scope", "say"}

\* One call moves, from a stage it is not done at; the others stay.
Moves(c, there) ==
    /\ Goes(c, there)
    /\ pc[c] # "done"

\* A step of Profiles: of calls that are in none of the stages of the others.
LEMMA ProfilesMoves ==
    ASSUME TypeOK, ProfilesNext
    PROVE  \E c \in Calls, there \in PC \ ((Stages \ {"write"}) \cup {"new", "unmade"}) :
             Moves(c, there)
<1>0. UploadCalls \subseteq Calls /\ ProfileCalls \subseteq Calls /\ RoleCalls \subseteq Calls
  BY ProfilesAssumption
<1>1. ASSUME NEW c \in UploadCalls,
             CreateUploadIntent(c) \/ SignUpload(c) \/ MarkUploaded(c) \/ MarkFile(c)
      PROVE  \E there \in {"sign", "done", "mark", "failed"} : Moves(c, there)
  BY <1>1 DEF CreateUploadIntent, SignUpload, MarkUploaded, MarkFile, Fails, Moves
<1>2. ASSUME NEW c \in ProfileCalls,
             \/ UpdateMe(c) \/ CheckAvatar(c) \/ WriteProfile(c)
             \/ DeleteAvatar(c) \/ ChangePassword(c) \/ WritePassword(c) \/ DeleteMe(c)
      PROVE  \E there \in {"avatar", "write", "hash", "done", "failed"} : Moves(c, there)
  BY <1>2 DEF UpdateMe, CheckAvatar, WriteProfile, DeleteAvatar, ChangePassword, WritePassword,
              DeleteMe, Fails, Moves
<1>3. ASSUME NEW c \in RoleCalls, ChangeRole(c) PROVE Moves(c, "done")
  BY <1>3 DEF ChangeRole, Moves
<1>4. ASSUME NEW c \in Calls, StatementFails(c) PROVE Moves(c, "failed")
  BY <1>4 DEF StatementFails, Fails, Moves
<1> QED  BY <1>0, <1>1, <1>2, <1>3, <1>4 DEF ProfilesNext, PC, Stages

\* A step of Assets.
LEMMA AssetsMoves ==
    ASSUME TypeOK, AssetsNext
    PROVE  \E c \in AssetCalls, there \in {"images", "documents", "commit", "done", "failed"} :
             Moves(c, there)
<1>1. ASSUME NEW c \in AssetCalls,
             \/ CreateHolder(c) \/ UpdateHolder(c) \/ SyncImages(c) \/ SyncDocuments(c)
             \/ CommitHolder(c) \/ DeleteHolder(c)
      PROVE  \E there \in {"images", "documents", "commit", "done", "failed"} : Moves(c, there)
  BY <1>1 DEF CreateHolder, UpdateHolder, SyncImages, SyncDocuments, Sync, CommitHolder,
              DeleteHolder, Moves
<1> QED  BY <1>1 DEF AssetsNext

\* A step of Followup.
LEMMA FollowupMoves ==
    ASSUME TypeOK, FollowupNext
    PROVE  \E c \in StepCalls \cup OpenCalls \cup TalkCalls,
              there \in {"insert", "choose", "admin", "upsert", "scope", "say", "done", "failed"} :
             Moves(c, there)
<1>1. ASSUME NEW c \in StepCalls, CreateStep(c) \/ InsertStep(c) \/ UpdateStep(c) \/ DeleteStep(c)
      PROVE  \E there \in {"insert", "done", "failed"} : Moves(c, there)
  BY <1>1 DEF CreateStep, InsertStep, UpdateStep, DeleteStep, Refused, Moves
<1>2. ASSUME NEW c \in OpenCalls,
             \/ OpenConversation(c) \/ ChooseAdmin(c) \/ FindNoAdmin(c)
             \/ IsActiveAdmin(c) \/ UpsertConversation(c)
      PROVE  \E there \in {"choose", "admin", "upsert", "done", "failed"} : Moves(c, there)
  BY <1>2 DEF OpenConversation, ChooseAdmin, FindNoAdmin, IsActiveAdmin, UpsertConversation,
              Refused, Moves
<1>3. ASSUME NEW c \in TalkCalls, CheckAccess(c) \/ CheckScope(c) \/ SendMessage(c)
      PROVE  \E there \in {"scope", "say", "done", "failed"} : Moves(c, there)
  BY <1>3 DEF CheckAccess, CheckScope, SendMessage, Refused, Moves
<1> QED  BY <1>1, <1>2, <1>3 DEF FollowupNext

\* What others do leaves the invariant of Followup alone.
LEMMA TalkIsLeftAlone ==
    ASSUME TypeOK, TalkInv, UNCHANGED followupVars,
           \A u \in Users : account[u].was_admin => account'[u].was_admin,
           NEW c \in Calls, NEW there \in PC \ {"choose", "admin", "upsert", "scope", "say"},
           Moves(c, there)
    PROVE  TalkInv'
<1>0. /\ pc \in [Calls -> PC] /\ conv \in [Items -> [Users -> Conversation]]
      /\ OpenCalls \subseteq Calls /\ TalkCalls \subseteq Calls /\ said \subseteq TalkCalls
      /\ UNCHANGED <<conv, said, talk>>
  BY FollowupAssumption DEF TypeOK, FollowupTypeOK, followupVars
<1>1. /\ pc'[c] = there /\ pc[c] # "done"
      /\ \A d \in Calls \ {c} : pc'[d] = pc[d]
  BY <1>0 DEF Moves, Goes
<1>2. Openings'
  <2> SUFFICES ASSUME NEW d \in OpenCalls, pc'[d] \in {"choose", "admin", "upsert"}
               PROVE  /\ talk[d].item \in Items /\ talk[d].user \in Users
                      /\ Owner[talk[d].item] = talk[d].user \/ account'[talk[d].user].was_admin
                      /\ pc'[d] \in {"admin", "upsert"} => talk[d].admin \in Users
                      /\ pc'[d] = "upsert" => account'[talk[d].admin].was_admin
    BY <1>0 DEF Openings
  <2>1. pc'[d] = pc[d]
    BY <1>0, <1>1
  <2> QED  BY <2>1 DEF TalkInv, Openings
<1>3. Speakers'
  <2>1. ASSUME NEW d \in said PROVE pc'[d] = "done"
    BY <1>0, <1>1 DEF TalkInv, Speakers
  <2>2. ASSUME NEW d \in TalkCalls, pc'[d] \in {"scope", "say"} PROVE pc[d] \in {"scope", "say"}
    BY <1>0, <1>1, <2>2
  <2> QED  BY <1>0, <2>1, <2>2 DEF TalkInv, Speakers
<1>4. Parties'
  <2> SUFFICES ASSUME NEW i \in Items, NEW u \in Users, conv[i][u] # NoConversation
               PROVE  /\ Owner[i] = u \/ account'[u].was_admin
                      /\ conv[i][u].admin \in conv[i][u].had
                      /\ \A a \in conv[i][u].had : account'[a].was_admin
    BY <1>0 DEF Parties
  <2>1. conv[i][u].had \subseteq Users
    BY <1>0 DEF Conversation
  <2> QED  BY <2>1 DEF TalkInv, Parties
<1> QED  BY <1>2, <1>3, <1>4 DEF TalkInv

\* What others do leaves the invariant of Profiles alone.
LEMMA PeopleAreLeftAlone ==
    ASSUME TypeOK, PeopleInv, UNCHANGED profileVars,
           NEW c \in Calls, NEW there \in PC \ {"write"}, Moves(c, there)
    PROVE  PeopleInv'
<1>0. UNCHANGED <<file, account, form>> /\ ProfileCalls \subseteq Calls /\ pc \in [Calls -> PC]
  BY ProfilesAssumption DEF TypeOK, profileVars
<1>1. ProfilesAreTheirs' /\ AdminsWere'
  BY <1>0 DEF PeopleInv, ProfilesAreTheirs, OwnAvatar, OnePhone, AdminsWere
<1>2. \A d \in ProfileCalls : pc'[d] = "write" => pc[d] = "write"
  BY <1>0 DEF Moves, Goes
<1>3. CheckedAvatars'
  BY <1>0, <1>2 DEF PeopleInv, CheckedAvatars, OwnAvatar
<1> QED  BY <1>1, <1>3 DEF PeopleInv

\* What others do leaves the transactions of Assets alone.
LEMMA EditsAreLeftAlone ==
    ASSUME TypeOK, Edits, UNCHANGED edit,
           NEW c \in Calls, NEW there \in PC \ {"images", "documents", "commit"}, Moves(c, there)
    PROVE  Edits'
<1>0. AssetCalls \subseteq Calls /\ pc \in [Calls -> PC]
  BY AssetsAssumption DEF TypeOK
<1> QED  BY <1>0 DEF Edits, Moves, Goes

-----------------------------------------------------------------------------
(* Assets *)

LEMMA AssetsEdits ==
    ASSUME TypeOK, Edits, AssetsNext PROVE Edits'
<1>0. /\ AssetCalls \subseteq Calls /\ pc \in [Calls -> PC] /\ edit \in [Calls -> Edit]
  BY AssetsAssumption DEF TypeOK, AssetsTypeOK
<1>1. PICK c \in AssetCalls :
        \/ CreateHolder(c) \/ UpdateHolder(c) \/ SyncImages(c) \/ SyncDocuments(c)
        \/ CommitHolder(c) \/ DeleteHolder(c)
  BY SMTT(30) DEF AssetsNext
<1>2. \A d \in AssetCalls \ {c} : pc'[d] = pc[d] /\ edit'[d] = edit[d]
  BY <1>0, <1>1 DEF CreateHolder, UpdateHolder, SyncImages, SyncDocuments, Sync, CommitHolder,
                    DeleteHolder, Goes, assetVars
<1>3. pc'[c] \in {"images", "documents", "commit"} => edit'[c].holder \in Holders
  <2>1. CASE CreateHolder(c) \/ CommitHolder(c) \/ DeleteHolder(c)
    BY <2>1, <1>0 DEF CreateHolder, CommitHolder, DeleteHolder, Goes
  <2>2. CASE UpdateHolder(c)
    <3>1. PICK h \in Holders, active \in BOOLEAN, sent \in [Kinds -> Lists \cup {None}] :
            \/ edit' = [edit EXCEPT ![c].holder = h, ![c].active = active, ![c].sent = sent]
            \/ Goes(c, "failed")
      BY <2>2 DEF UpdateHolder
    <3>2. ASSUME edit' = [edit EXCEPT ![c].holder = h, ![c].active = active, ![c].sent = sent]
          PROVE  edit'[c].holder = h
      BY <3>2, <1>0 DEF Edit
    <3> QED  BY <3>1, <3>2, <1>0 DEF Goes
  <2>3. CASE SyncImages(c) \/ SyncDocuments(c)
    <3>1. edit[c].holder \in Holders
      BY <2>3 DEF Edits, SyncImages, SyncDocuments
    <3>2. edit'[c].holder = edit[c].holder
      BY <2>3, <1>0 DEF SyncImages, SyncDocuments, Sync, assetVars, Edit
    <3> QED  BY <3>1, <3>2
  <2> QED  BY <1>1, <2>1, <2>2, <2>3
<1> QED  BY <1>2, <1>3 DEF Edits

-----------------------------------------------------------------------------
(* Profiles *)

\* A file that was announced keeps its owner and its purpose, and stays uploaded.
FilesStay == \A f \in FileIds : file[f].status # "none" =>
    /\ file'[f].owner = file[f].owner /\ file'[f].purpose = file[f].purpose
    /\ file[f].status = "uploaded" => file'[f].status = "uploaded"

\* OwnAvatar, of a row.
AvatarOf(u, row) == row.owner = u /\ row.status = "uploaded" /\ row.purpose = "avatar"

LEMMA OwnAvatarStays ==
    ASSUME FilesStay, NEW u \in Users, NEW f \in FileIds, AvatarOf(u, file[f])
    PROVE  AvatarOf(u, file'[f])
BY DEF FilesStay, AvatarOf

\* The account of u is written, the others, the files and the forms are not.
Rewrites(u) ==
    /\ UNCHANGED <<file, form>> /\ account' \in [Users -> Account]
    /\ \A v \in Users \ {u} : account'[v] = account[v]

\* A step of Profiles that writes no avatar and no phone keeps them theirs.
LEMMA ProfilesKept ==
    ASSUME TypeOK, PeopleInv, NEW u \in Users, Rewrites(u),
           account'[u].avatar \in {account[u].avatar, None},
           account'[u].phone = account[u].phone,
           account'[u].admin => account'[u].was_admin,
           NEW c \in Calls, NEW there \in PC \ {"write"}, Moves(c, there)
    PROVE  PeopleInv'
<1>0. /\ account \in [Users -> Account] /\ file \in [FileIds -> File]
      /\ ProfileCalls \subseteq Calls /\ pc \in [Calls -> PC]
  BY ProfilesAssumption DEF TypeOK, ProfilesTypeOK
<1>1. ASSUME NEW v \in Users, account'[v].avatar # None
      PROVE  AvatarOf(v, file'[account'[v].avatar])
  <2>1. account'[v].avatar = account[v].avatar
    BY <1>1 DEF Rewrites
  <2>2. OwnAvatar(v, account[v].avatar)
    BY DEF PeopleInv, ProfilesAreTheirs
  <2> QED  BY <1>1, <2>1, <2>2 DEF OwnAvatar, AvatarOf, Rewrites
<1>2. OnePhone'
  <2>1. \A v \in Users : account'[v].phone = account[v].phone
    BY DEF Rewrites
  <2> QED  BY <2>1 DEF PeopleInv, ProfilesAreTheirs, OnePhone
<1>3. AdminsWere'
  BY <1>0 DEF Rewrites, PeopleInv, AdminsWere
<1>4. \A d \in ProfileCalls : pc'[d] = "write" => pc[d] = "write"
  BY <1>0 DEF Moves, Goes
<1>5. CheckedAvatars'
  BY <1>4 DEF Rewrites, PeopleInv, CheckedAvatars, OwnAvatar
<1> QED  BY <1>1, <1>2, <1>3, <1>5 DEF PeopleInv, ProfilesAreTheirs, OwnAvatar, AvatarOf

\* A step that writes files or forms: the avatars that were checked stay so.
LEMMA FilesKept ==
    ASSUME TypeOK, PeopleInv, UNCHANGED account, FilesStay,
           NEW c \in Calls, NEW there \in PC \ {"write"}, Moves(c, there),
           form' \in [Calls -> Form], \A d \in Calls \ {c} : form'[d] = form[d]
    PROVE  PeopleInv'
<1>0. /\ account \in [Users -> Account] /\ form \in [Calls -> Form]
      /\ ProfileCalls \subseteq Calls /\ pc \in [Calls -> PC] /\ Caller \in [Calls -> Users]
      /\ Keep \notin FileIds \cup {None}
  BY ProfilesAssumption DEF TypeOK, ProfilesTypeOK
<1>1. ASSUME NEW u \in Users, account[u].avatar # None
      PROVE  AvatarOf(u, file'[account[u].avatar])
  <2>1. account[u].avatar \in FileIds
    BY <1>0, <1>1 DEF Account
  <2>2. AvatarOf(u, file[account[u].avatar])
    BY <1>1 DEF PeopleInv, ProfilesAreTheirs, OwnAvatar, AvatarOf
  <2> QED  BY <2>1, <2>2, OwnAvatarStays
<1>2. OnePhone' /\ AdminsWere'
  BY DEF PeopleInv, ProfilesAreTheirs, OnePhone, AdminsWere
<1>3. ASSUME NEW d \in ProfileCalls, pc'[d] = "write", form'[d].avatar \notin {Keep, None}
      PROVE  AvatarOf(Caller[d], file'[form'[d].avatar])
  <2>1. d # c /\ pc[d] = "write" /\ form'[d] = form[d]
    BY <1>0, <1>3 DEF Moves, Goes
  <2>2. form[d].avatar \in FileIds /\ Caller[d] \in Users
    BY <2>1, <1>0, <1>3 DEF Form
  <2>3. AvatarOf(Caller[d], file[form[d].avatar])
    BY <2>1, <1>3 DEF PeopleInv, CheckedAvatars, OwnAvatar, AvatarOf
  <2> QED  BY <2>1, <2>2, <2>3, OwnAvatarStays
<1>4. CheckedAvatars'
  BY <1>3 DEF CheckedAvatars, OwnAvatar, AvatarOf
<1> QED  BY <1>1, <1>2, <1>4 DEF PeopleInv, ProfilesAreTheirs, OwnAvatar, AvatarOf

\* The UPDATE of updateMe.
LEMMA WriteProfilePeople ==
    ASSUME TypeOK, TypeOK', PeopleInv, NEW c \in ProfileCalls, WriteProfile(c) PROVE PeopleInv'
<1> DEFINE u == Caller[c]
           f == form[c].avatar
           phone == form[c].phone
<1>0. /\ account \in [Users -> Account] /\ account' \in [Users -> Account]
      /\ form \in [Calls -> Form] /\ c \in Calls /\ u \in Users /\ pc \in [Calls -> PC]
      /\ Keep \notin FileIds \cup Phones \cup {None} /\ None \notin Phones
      /\ ProfileCalls \subseteq Calls
  BY ProfilesAssumption DEF TypeOK, ProfilesTypeOK
<1>1. pc[c] = "write"
  BY DEF WriteProfile
<1>2. CASE Fails(c)
  BY <1>2, <1>1, <1>0, PeopleAreLeftAlone DEF Fails, Moves, PC
<1>3. CASE /\ PhoneFree(u, phone)
           /\ account' = [account EXCEPT ![u].avatar = Or(f, @), ![u].phone = Or(phone, @)]
           /\ Goes(c, "done") /\ UNCHANGED <<file, form>>
  <2>1. /\ account'[u].avatar = Or(f, account[u].avatar)
        /\ account'[u].phone = Or(phone, account[u].phone)
        /\ account'[u].admin = account[u].admin /\ account'[u].was_admin = account[u].was_admin
        /\ \A v \in Users \ {u} : account'[v] = account[v]
    BY <1>3, <1>0, SMTT(40) DEF Account
  <2>2. ASSUME NEW v \in Users, account'[v].avatar # None
        PROVE  AvatarOf(v, file'[account'[v].avatar])
    <3>1. OwnAvatar(v, account[v].avatar) /\ (f # Keep => OwnAvatar(u, f))
      BY <1>1 DEF PeopleInv, ProfilesAreTheirs, CheckedAvatars
    <3>2. v = u => account'[v].avatar = IF f = Keep THEN account[v].avatar ELSE f
      BY <2>1 DEF Or
    <3>3. OwnAvatar(v, account'[v].avatar)
      BY <2>1, <3>1, <3>2
    <3> QED  BY <3>3, <2>2, <1>3 DEF OwnAvatar, AvatarOf
  <2>3. OnePhone'
    <3> SUFFICES ASSUME NEW v \in Users, NEW w \in Users, v # w,
                        account'[v].phone = account'[w].phone
                 PROVE  account'[v].phone = None
      BY DEF OnePhone
    <3>1. \A x, y \in Users : account[x].phone = account[y].phone /\ x # y => account[x].phone = None
      BY DEF PeopleInv, ProfilesAreTheirs, OnePhone
    <3>2. CASE phone = Keep
      <4>1. account'[v].phone = account[v].phone /\ account'[w].phone = account[w].phone
        BY <2>1, <3>2 DEF Or
      <4> QED  BY <4>1, <3>1
    <3>3. CASE phone # Keep
      <4>1. account'[u].phone = phone /\ phone \in Phones \cup {None}
        BY <2>1, <3>3, <1>0 DEF Or, Form
      <4>2. CASE v # u /\ w # u
        BY <4>2, <2>1, <3>1
      <4>3. CASE v = u \/ w = u
        BY <4>3, <4>1, <2>1, <1>3 DEF PhoneFree
      <4> QED  BY <4>2, <4>3
    <3> QED  BY <3>2, <3>3
  <2>4. AdminsWere'
    BY <2>1 DEF PeopleInv, AdminsWere
  <2>5. \A d \in ProfileCalls : pc'[d] = "write" => pc[d] = "write"
    BY <1>3, <1>0 DEF Goes
  <2>6. CheckedAvatars'
    BY <2>5, <1>3 DEF PeopleInv, CheckedAvatars, OwnAvatar
  <2> QED  BY <2>2, <2>3, <2>4, <2>6 DEF PeopleInv, ProfilesAreTheirs, OwnAvatar, AvatarOf
<1> QED  BY <1>2, <1>3 DEF WriteProfile

\* The two SELECTs of updateMe, before the UPDATE.
LEMMA CheckAvatarPeople ==
    ASSUME TypeOK, PeopleInv, NEW c \in ProfileCalls, CheckAvatar(c) PROVE PeopleInv'
<1>0. /\ form \in [Calls -> Form] /\ pc \in [Calls -> PC] /\ c \in Calls
      /\ ProfileCalls \subseteq Calls
  BY ProfilesAssumption DEF TypeOK, ProfilesTypeOK
<1>1. CASE Fails(c)
  BY <1>1, <1>0, PeopleAreLeftAlone DEF CheckAvatar, Fails, Moves, PC
<1>2. CASE /\ form[c].avatar \in FileIds => Usable(c, form[c].avatar)
           /\ Goes(c, "write") /\ UNCHANGED profileVars
  <2>1. ProfilesAreTheirs' /\ AdminsWere'
    BY <1>2 DEF PeopleInv, ProfilesAreTheirs, OwnAvatar, OnePhone, AdminsWere, profileVars
  <2>2. form[c].avatar # Keep => OwnAvatar(Caller[c], form[c].avatar)
    BY <1>0, <1>2 DEF Usable, OwnAvatar, Form
  <2>3. \A d \in ProfileCalls : pc'[d] = "write" => d = c \/ pc[d] = "write"
    BY <1>0, <1>2 DEF Goes
  <2>4. CheckedAvatars'
    BY <1>2, <2>2, <2>3 DEF PeopleInv, CheckedAvatars, OwnAvatar, profileVars
  <2> QED  BY <2>1, <2>4 DEF PeopleInv
<1> QED  BY <1>1, <1>2 DEF CheckAvatar

LEMMA ProfilesPeople ==
    ASSUME TypeOK, TypeOK', PeopleInv, ProfilesNext PROVE PeopleInv'
<1>0. /\ file \in [FileIds -> File] /\ account \in [Users -> Account]
      /\ account' \in [Users -> Account]
      /\ form \in [Calls -> Form] /\ form' \in [Calls -> Form] /\ pc \in [Calls -> PC]
      /\ Caller \in [Calls -> Users]
      /\ UploadCalls \subseteq Calls /\ ProfileCalls \subseteq Calls /\ RoleCalls \subseteq Calls
  BY ProfilesAssumption DEF TypeOK, ProfilesTypeOK
<1>f. ASSUME NEW c \in Calls, pc[c] # "done", Fails(c) PROVE PeopleInv'
  BY <1>0, <1>f, PeopleAreLeftAlone DEF Fails, Moves, PC
<1>1. ASSUME NEW c \in UploadCalls, CreateUploadIntent(c) PROVE PeopleInv'
  <2>1. FilesStay
    BY <1>0, <1>1 DEF CreateUploadIntent, FilesStay
  <2> QED  BY <2>1, <1>0, <1>1, FilesKept DEF CreateUploadIntent, Moves, PC
<1>2. ASSUME NEW c \in UploadCalls, SignUpload(c) PROVE PeopleInv'
  BY <1>0, <1>2, PeopleAreLeftAlone DEF SignUpload, Moves, PC
<1>3. ASSUME NEW c \in UploadCalls, MarkUploaded(c) PROVE PeopleInv'
  <2>1. PICK f \in FileIds : \/ form' = [form EXCEPT ![c].file = f] /\ Goes(c, "mark")
                                  /\ UNCHANGED <<file, account>>
                             \/ Fails(c)
    BY <1>3 DEF MarkUploaded
  <2>2. CASE form' = [form EXCEPT ![c].file = f] /\ Goes(c, "mark") /\ UNCHANGED <<file, account>>
    <3>1. FilesStay /\ \A d \in Calls \ {c} : form'[d] = form[d]
      BY <2>2, <1>0 DEF FilesStay
    <3> QED  BY <3>1, <2>2, <1>0, <1>3, FilesKept DEF MarkUploaded, Moves, PC
  <2> QED  BY <2>1, <2>2, <1>0, <1>3, <1>f DEF MarkUploaded
<1>4. ASSUME NEW c \in UploadCalls, MarkFile(c) PROVE PeopleInv'
  <2>1. FilesStay
    BY <1>0, <1>4 DEF MarkFile, FilesStay, File
  <2> QED  BY <2>1, <1>0, <1>4, FilesKept DEF MarkFile, Moves, PC
<1>5. ASSUME NEW c \in ProfileCalls, UpdateMe(c) PROVE PeopleInv'
  <2>1. PICK f \in FileIds \cup {None, Keep}, phone \in Phones \cup {None, Keep} :
          \/ /\ form' = [form EXCEPT ![c].avatar = f, ![c].phone = phone]
             /\ Goes(c, "avatar") /\ UNCHANGED <<file, account>>
          \/ Fails(c)
    BY <1>5 DEF UpdateMe
  <2>2. CASE /\ form' = [form EXCEPT ![c].avatar = f, ![c].phone = phone]
             /\ Goes(c, "avatar") /\ UNCHANGED <<file, account>>
    <3>1. FilesStay /\ \A d \in Calls \ {c} : form'[d] = form[d]
      BY <2>2, <1>0 DEF FilesStay
    <3> QED  BY <3>1, <2>2, <1>0, <1>5, FilesKept DEF UpdateMe, Moves, PC
  <2> QED  BY <2>1, <2>2, <1>0, <1>5, <1>f DEF UpdateMe
<1>6. ASSUME NEW c \in ProfileCalls, CheckAvatar(c) \/ WriteProfile(c) PROVE PeopleInv'
  BY <1>6, CheckAvatarPeople, WriteProfilePeople
<1>7. ASSUME NEW c \in ProfileCalls, ChangePassword(c) PROVE PeopleInv'
  BY <1>0, <1>7, PeopleAreLeftAlone DEF ChangePassword, Moves, PC
<1>w. ASSUME NEW u \in Users, UNCHANGED <<file, form>>,
             \A v \in Users \ {u} : account'[v] = account[v],
             account'[u].avatar \in {account[u].avatar, None},
             account'[u].phone = account[u].phone,
             account'[u].admin => account'[u].was_admin,
             NEW c \in Calls, pc[c] # "done", Goes(c, "done")
      PROVE  PeopleInv'
  <2>1. Rewrites(u) /\ Moves(c, "done") /\ "done" \in PC \ {"write"}
    BY <1>w, <1>0 DEF Rewrites, Moves, PC
  <2> QED  BY <2>1, <1>w, ProfilesKept
<1>a. \A u \in Users : account[u].admin => account[u].was_admin
  BY DEF PeopleInv, AdminsWere
<1>8. ASSUME NEW c \in ProfileCalls, DeleteAvatar(c) PROVE PeopleInv'
  <2> DEFINE u == Caller[c]
  <2>1. /\ u \in Users /\ c \in Calls
        /\ account'[u].avatar = None /\ account'[u].phone = account[u].phone
        /\ account'[u].admin = account[u].admin /\ account'[u].was_admin = account[u].was_admin
        /\ \A v \in Users \ {u} : account'[v] = account[v]
    BY <1>0, <1>8 DEF DeleteAvatar, Account
  <2> HIDE DEF u
  <2> QED  BY <2>1, <1>8, <1>a, <1>w DEF DeleteAvatar
<1>9. ASSUME NEW c \in ProfileCalls, WritePassword(c) PROVE PeopleInv'
  <2> DEFINE u == Caller[c]
  <2>1. /\ u \in Users /\ c \in Calls
        /\ account'[u].avatar = account[u].avatar /\ account'[u].phone = account[u].phone
        /\ account'[u].admin = account[u].admin /\ account'[u].was_admin = account[u].was_admin
        /\ \A v \in Users \ {u} : account'[v] = account[v]
    BY <1>0, <1>9 DEF WritePassword, Account
  <2> HIDE DEF u
  <2> QED  BY <2>1, <1>9, <1>a, <1>w DEF WritePassword
<1>10. ASSUME NEW c \in ProfileCalls, DeleteMe(c) PROVE PeopleInv'
  <2> DEFINE u == Caller[c]
  <2>1. /\ u \in Users /\ c \in Calls
        /\ account'[u].avatar = account[u].avatar /\ account'[u].phone = account[u].phone
        /\ account'[u].admin = account[u].admin /\ account'[u].was_admin = account[u].was_admin
        /\ \A v \in Users \ {u} : account'[v] = account[v]
    BY <1>0, <1>10 DEF DeleteMe, Account
  <2> HIDE DEF u
  <2> QED  BY <2>1, <1>10, <1>a, <1>w DEF DeleteMe
<1>11. ASSUME NEW c \in RoleCalls, ChangeRole(c) PROVE PeopleInv'
  <2>1. PICK u \in Users :
          \/ account' = [account EXCEPT ![u].admin = TRUE, ![u].was_admin = TRUE]
          \/ account' = [account EXCEPT ![u].admin = FALSE]
          \/ account' = [account EXCEPT ![u].live = FALSE]
    BY <1>11 DEF ChangeRole
  <2>2. /\ account'[u].avatar = account[u].avatar /\ account'[u].phone = account[u].phone
        /\ \A v \in Users \ {u} : account'[v] = account[v]
    BY <2>1, <1>0 DEF Account
  <2>3. account'[u].admin => account'[u].was_admin
    <3>1. CASE account' = [account EXCEPT ![u].admin = TRUE, ![u].was_admin = TRUE]
      BY <3>1, <1>0 DEF Account
    <3>2. CASE account' = [account EXCEPT ![u].admin = FALSE]
      BY <3>2, <1>0 DEF Account
    <3>3. CASE account' = [account EXCEPT ![u].live = FALSE]
      <4>1. account'[u].admin = account[u].admin /\ account'[u].was_admin = account[u].was_admin
        BY <3>3, <1>0 DEF Account
      <4> QED  BY <4>1, <1>a
    <3> QED  BY <2>1, <3>1, <3>2, <3>3
  <2> QED  BY <2>2, <2>3, <1>0, <1>11, <1>w DEF ChangeRole
<1>12. ASSUME NEW c \in Calls, StatementFails(c) PROVE PeopleInv'
  BY <1>12, <1>f DEF StatementFails
<1> QED  BY <1>1, <1>2, <1>3, <1>4, <1>5, <1>6, <1>7, <1>8, <1>9, <1>10, <1>11, <1>12
         DEF ProfilesNext

\* Nobody's past as an administrator is forgotten.
LEMMA RolesAreRemembered ==
    ASSUME TypeOK, ProfilesNext
    PROVE  \A u \in Users : account[u].was_admin => account'[u].was_admin
<1>0. account \in [Users -> Account] /\ ProfileCalls \subseteq Calls /\ Caller \in [Calls -> Users]
  BY ProfilesAssumption DEF TypeOK, ProfilesTypeOK
<1> SUFFICES ASSUME NEW v \in Users, account[v].was_admin PROVE account'[v].was_admin
  OBVIOUS
<1>1. ASSUME UNCHANGED account PROVE account'[v].was_admin
  BY <1>1
<1>2. ASSUME NEW c \in UploadCalls,
             CreateUploadIntent(c) \/ SignUpload(c) \/ MarkUploaded(c) \/ MarkFile(c)
      PROVE  account'[v].was_admin
  BY <1>1, <1>2 DEF CreateUploadIntent, SignUpload, MarkUploaded, MarkFile, Fails, profileVars
<1>3. ASSUME NEW c \in ProfileCalls, UpdateMe(c) \/ CheckAvatar(c) \/ ChangePassword(c)
      PROVE  account'[v].was_admin
  BY <1>1, <1>3 DEF UpdateMe, CheckAvatar, ChangePassword, Fails, profileVars
<1>4. ASSUME NEW c \in ProfileCalls, WriteProfile(c) PROVE account'[v].was_admin
  <2> DEFINE u == Caller[c]
  <2>1. CASE account' = [account EXCEPT ![u].avatar = Or(form[c].avatar, @),
                                        ![u].phone = Or(form[c].phone, @)]
    <3>1. account'[v].was_admin = account[v].was_admin
      BY <2>1, <1>0 DEF Account
    <3> QED  BY <3>1
  <2> QED  BY <2>1, <1>1, <1>4 DEF WriteProfile, Fails, profileVars
<1>5. ASSUME NEW c \in ProfileCalls, DeleteAvatar(c) \/ WritePassword(c) \/ DeleteMe(c)
      PROVE  account'[v].was_admin
  <2>1. account'[v].was_admin = account[v].was_admin
    <3>1. CASE DeleteAvatar(c)
      BY <3>1, <1>0 DEF DeleteAvatar, Account
    <3>2. CASE WritePassword(c)
      BY <3>2, <1>0 DEF WritePassword, Account
    <3>3. CASE DeleteMe(c)
      BY <3>3, <1>0 DEF DeleteMe, Account
    <3> QED  BY <1>5, <3>1, <3>2, <3>3
  <2> QED  BY <2>1
<1>6. ASSUME NEW c \in RoleCalls, ChangeRole(c) PROVE account'[v].was_admin
  <2>1. PICK u \in Users :
          \/ account' = [account EXCEPT ![u].admin = TRUE, ![u].was_admin = TRUE]
          \/ account' = [account EXCEPT ![u].admin = FALSE]
          \/ account' = [account EXCEPT ![u].live = FALSE]
    BY <1>6 DEF ChangeRole
  <2>2. CASE account' = [account EXCEPT ![u].admin = TRUE, ![u].was_admin = TRUE]
    <3>1. account'[v].was_admin \in {account[v].was_admin, TRUE}
      BY <2>2, <1>0 DEF Account
    <3> QED  BY <3>1
  <2>3. CASE \/ account' = [account EXCEPT ![u].admin = FALSE]
             \/ account' = [account EXCEPT ![u].live = FALSE]
    <3>1. account'[v].was_admin = account[v].was_admin
      BY <2>3, <1>0 DEF Account
    <3> QED  BY <3>1
  <2> QED  BY <2>1, <2>2, <2>3
<1>7. ASSUME NEW c \in Calls, StatementFails(c) PROVE account'[v].was_admin
  BY <1>1, <1>7 DEF StatementFails, Fails, profileVars
<1> QED  BY <1>2, <1>3, <1>4, <1>5, <1>6, <1>7 DEF ProfilesNext

-----------------------------------------------------------------------------
(* Followup *)

\* A step that writes no conversation, and the locals of its own call only.
LEMMA TalkKept ==
    ASSUME TypeOK, TalkInv, UNCHANGED <<account, conv, said>>, NEW c \in Calls, NEW there \in PC,
           Moves(c, there), \A d \in Calls \ {c} : talk'[d] = talk[d],
           c \in OpenCalls =>
              /\ there \in {"choose", "admin", "upsert"} =>
                    /\ talk'[c].item \in Items /\ talk'[c].user \in Users
                    /\ Owner[talk'[c].item] = talk'[c].user \/ account[talk'[c].user].was_admin
              /\ there \in {"admin", "upsert"} => talk'[c].admin \in Users
              /\ there = "upsert" => account[talk'[c].admin].was_admin,
           c \in TalkCalls /\ there \in {"scope", "say"} =>
              /\ talk'[c].item \in Items /\ talk'[c].user \in Users
              /\ \/ Caller[c] = talk'[c].user
                 \/ Caller[c] \in conv[talk'[c].item][talk'[c].user].had
    PROVE  TalkInv'
<1>0. /\ pc \in [Calls -> PC] /\ conv \in [Items -> [Users -> Conversation]]
      /\ OpenCalls \subseteq Calls /\ TalkCalls \subseteq Calls /\ said \subseteq TalkCalls
      /\ account' = account /\ conv' = conv /\ said' = said
  BY FollowupAssumption DEF TypeOK, FollowupTypeOK
<1>1. /\ pc'[c] = there /\ pc[c] # "done"
      /\ \A d \in Calls \ {c} : pc'[d] = pc[d]
  BY <1>0 DEF Moves, Goes
<1>2. Openings'
  <2> SUFFICES ASSUME NEW d \in OpenCalls, pc'[d] \in {"choose", "admin", "upsert"}
               PROVE  /\ talk'[d].item \in Items /\ talk'[d].user \in Users
                      /\ Owner[talk'[d].item] = talk'[d].user \/ account[talk'[d].user].was_admin
                      /\ pc'[d] \in {"admin", "upsert"} => talk'[d].admin \in Users
                      /\ pc'[d] = "upsert" => account[talk'[d].admin].was_admin
    BY <1>0 DEF Openings
  <2>1. CASE d = c
    BY <2>1, <1>1
  <2>2. CASE d # c
    <3>1. pc'[d] = pc[d] /\ talk'[d] = talk[d]
      BY <2>2, <1>0, <1>1
    <3> QED  BY <3>1 DEF TalkInv, Openings
  <2> QED  BY <2>1, <2>2
<1>3. c \notin said
  BY <1>1 DEF TalkInv, Speakers
<1>4. Speakers'
  <2>1. ASSUME NEW d \in said PROVE pc'[d] = "done"
    BY <1>0, <1>1, <1>3 DEF TalkInv, Speakers
  <2>2. ASSUME NEW d \in TalkCalls, pc'[d] \in {"scope", "say"} \/ d \in said
        PROVE  /\ talk'[d].item \in Items /\ talk'[d].user \in Users
               /\ \/ Caller[d] = talk'[d].user
                  \/ Caller[d] \in conv[talk'[d].item][talk'[d].user].had
    <3>1. CASE d = c
      BY <2>2, <3>1, <1>1, <1>3
    <3>2. CASE d # c
      <4>1. pc'[d] = pc[d] /\ talk'[d] = talk[d]
        BY <3>2, <1>0, <1>1
      <4> QED  BY <4>1, <2>2 DEF TalkInv, Speakers
    <3> QED  BY <3>1, <3>2
  <2> QED  BY <1>0, <2>1, <2>2 DEF Speakers
<1>5. Parties'
  BY <1>0 DEF TalkInv, Parties
<1> QED  BY <1>2, <1>4, <1>5 DEF TalkInv

\* The upsert: the conversation gets an administrator who was one, and keeps those it had.
LEMMA UpsertKeeps ==
    ASSUME TypeOK, TalkInv, UNCHANGED account, NEW c \in OpenCalls, UpsertConversation(c)
    PROVE  TalkInv'
<1> DEFINE i == talk[c].item
           u == talk[c].user
           a == talk[c].admin
<1>0. /\ pc \in [Calls -> PC] /\ conv \in [Items -> [Users -> Conversation]]
      /\ OpenCalls \subseteq Calls /\ TalkCalls \subseteq Calls /\ said \subseteq TalkCalls
      /\ UNCHANGED <<said, talk, account>>
  BY FollowupAssumption DEF TypeOK, FollowupTypeOK, UpsertConversation
<1>1. /\ pc[c] = "upsert" /\ pc'[c] = "done" /\ \A d \in Calls \ {c} : pc'[d] = pc[d]
  BY <1>0 DEF UpsertConversation, Goes
<1>2. /\ i \in Items /\ u \in Users /\ a \in Users /\ account[a].was_admin
      /\ Owner[i] = u \/ account[u].was_admin
  BY <1>1 DEF TalkInv, Openings
<1>3. conv[i][u] \in Conversation
  BY <1>0, <1>2
<1>4. conv' = [conv EXCEPT ![i][u] = [admin |-> a, had |-> @.had \cup {a}]]
  BY DEF UpsertConversation
<1> HIDE DEF i, u, a
<1>5. /\ conv'[i][u].admin = a /\ conv'[i][u].had = conv[i][u].had \cup {a}
      /\ \A j \in Items, v \in Users : <<j, v>> # <<i, u>> => conv'[j][v] = conv[j][v]
  BY <1>0, <1>2, <1>4
<1>6. \A j \in Items, v \in Users : conv[j][v].had \subseteq conv'[j][v].had
  BY <1>5
<1>7. Openings'
  <2> SUFFICES ASSUME NEW d \in OpenCalls, pc'[d] \in {"choose", "admin", "upsert"}
               PROVE  pc[d] = pc'[d]
    BY <1>0 DEF TalkInv, Openings
  <2> QED  BY <1>0, <1>1
<1>8. Speakers'
  <2>1. ASSUME NEW d \in said PROVE pc'[d] = "done"
    BY <1>0, <1>1 DEF TalkInv, Speakers
  <2>2. ASSUME NEW d \in TalkCalls, pc'[d] \in {"scope", "say"} \/ d \in said
        PROVE  /\ talk[d].item \in Items /\ talk[d].user \in Users
               /\ \/ Caller[d] = talk[d].user
                  \/ Caller[d] \in conv'[talk[d].item][talk[d].user].had
    <3>1. pc[d] \in {"scope", "say"} \/ d \in said
      BY <2>2, <1>0, <1>1
    <3>2. /\ talk[d].item \in Items /\ talk[d].user \in Users
          /\ \/ Caller[d] = talk[d].user
             \/ Caller[d] \in conv[talk[d].item][talk[d].user].had
      BY <3>1 DEF TalkInv, Speakers
    <3> QED  BY <3>2, <1>6
  <2> QED  BY <1>0, <2>1, <2>2 DEF Speakers
<1>9. Parties'
  <2> SUFFICES ASSUME NEW j \in Items, NEW v \in Users, conv'[j][v] # NoConversation
               PROVE  /\ Owner[j] = v \/ account[v].was_admin
                      /\ conv'[j][v].admin \in conv'[j][v].had
                      /\ \A b \in conv'[j][v].had : account[b].was_admin
    BY <1>0 DEF Parties
  <2>1. CASE <<j, v>> # <<i, u>>
    BY <2>1, <1>5 DEF TalkInv, Parties
  <2>2. CASE j = i /\ v = u
    <3>1. \A b \in conv[i][u].had : account[b].was_admin
      <4>1. CASE conv[i][u] = NoConversation
        BY <4>1 DEF NoConversation
      <4>2. CASE conv[i][u] # NoConversation
        BY <4>2, <1>2 DEF TalkInv, Parties
      <4> QED  BY <4>1, <4>2
    <3>2. \A b \in conv'[i][u].had : account[b].was_admin
      BY <3>1, <1>2, <1>5
    <3> QED  BY <2>2, <3>2, <1>2, <1>5
  <2> QED  BY <2>1, <2>2
<1> QED  BY <1>7, <1>8, <1>9 DEF TalkInv

\* sendFollowupMessage, its INSERT.
LEMMA SendKeeps ==
    ASSUME TypeOK, TalkInv, UNCHANGED account, NEW c \in TalkCalls, SendMessage(c)
    PROVE  TalkInv'
<1>0. /\ pc \in [Calls -> PC] /\ OpenCalls \subseteq Calls /\ TalkCalls \subseteq Calls
      /\ said \subseteq TalkCalls /\ said' = said \cup {c} /\ UNCHANGED <<conv, talk, account>>
  BY FollowupAssumption DEF TypeOK, FollowupTypeOK, SendMessage
<1>1. /\ pc[c] = "say" /\ pc'[c] = "done" /\ \A d \in Calls \ {c} : pc'[d] = pc[d]
  BY <1>0 DEF SendMessage, Goes
<1>2. Openings'
  <2> SUFFICES ASSUME NEW d \in OpenCalls, pc'[d] \in {"choose", "admin", "upsert"}
               PROVE  pc[d] = pc'[d]
    BY <1>0 DEF TalkInv, Openings
  <2> QED  BY <1>0, <1>1
<1>3. Speakers'
  <2>1. ASSUME NEW d \in said' PROVE pc'[d] = "done"
    BY <1>0, <1>1 DEF TalkInv, Speakers
  <2>2. ASSUME NEW d \in TalkCalls, pc'[d] \in {"scope", "say"} \/ d \in said'
        PROVE  pc[d] \in {"scope", "say"} \/ d \in said
    BY <2>2, <1>0, <1>1
  <2> QED  BY <1>0, <2>1, <2>2 DEF TalkInv, Speakers
<1>4. Parties'
  BY <1>0 DEF TalkInv, Parties
<1> QED  BY <1>2, <1>3, <1>4 DEF TalkInv

LEMMA FollowupTalk ==
    ASSUME TypeOK, TypeOK', PeopleInv, TalkInv, UNCHANGED profileVars, FollowupNext
    PROVE  TalkInv'
<1>0. /\ pc \in [Calls -> PC] /\ conv \in [Items -> [Users -> Conversation]]
      /\ talk \in [Calls -> Talk] /\ Caller \in [Calls -> Users]
      /\ StepCalls \subseteq Calls /\ OpenCalls \subseteq Calls /\ TalkCalls \subseteq Calls
      /\ OpenCalls \cap TalkCalls = {} /\ StepCalls \cap (OpenCalls \cup TalkCalls) = {}
      /\ UNCHANGED account
  BY ProfilesAssumption, FollowupAssumption DEF TypeOK, FollowupTypeOK, profileVars
<1>a. \A u \in Users : IsAdmin(u) => account[u].was_admin
  BY DEF PeopleInv, AdminsWere, IsAdmin
<1>r. ASSUME NEW c \in Calls, pc[c] # "done", Refused(c) PROVE TalkInv'
  <2>1. Moves(c, "failed") /\ UNCHANGED followupVars
    BY <1>r DEF Refused, Moves
  <2> QED  BY <2>1, <1>0, TalkIsLeftAlone DEF PC
<1>1. ASSUME NEW c \in StepCalls, CreateStep(c) PROVE TalkInv'
  <2>1. \A d \in Calls \ {c} : talk'[d] = talk[d]
    BY <1>0, <1>1 DEF CreateStep
  <2>2. Moves(c, "insert") /\ UNCHANGED <<conv, said>> /\ "insert" \in PC
    BY <1>1 DEF CreateStep, Moves, PC
  <2> QED  BY <2>1, <2>2, <1>0, TalkKept
<1>2. ASSUME NEW c \in StepCalls, InsertStep(c) \/ UpdateStep(c) \/ DeleteStep(c) PROVE TalkInv'
  <2>1. CASE Moves(c, "done") /\ UNCHANGED <<conv, said, talk>>
    BY <2>1, <1>0, TalkKept DEF PC
  <2> QED  BY <1>2, <2>1, <1>0, <1>r DEF InsertStep, UpdateStep, DeleteStep, Moves
<1>3. ASSUME NEW c \in OpenCalls, OpenConversation(c) PROVE TalkInv'
  <2>1. PICK i \in Items :
          \/ /\ MayOpen(Caller[c], i)
             /\ talk' = [talk EXCEPT ![c].item = i, ![c].user = Caller[c]]
             /\ Goes(c, "choose") /\ UNCHANGED <<step, conv, said>>
          \/ Refused(c)
    BY <1>3 DEF OpenConversation
  <2>2. CASE /\ MayOpen(Caller[c], i)
             /\ talk' = [talk EXCEPT ![c].item = i, ![c].user = Caller[c]]
             /\ Goes(c, "choose") /\ UNCHANGED <<step, conv, said>>
    <3>1. talk'[c].item = i /\ talk'[c].user = Caller[c] /\ Caller[c] \in Users
      BY <2>2, <1>0 DEF Talk
    <3>2. Owner[i] = Caller[c] \/ account[Caller[c]].was_admin
      BY <2>2, <3>1, <1>a DEF MayOpen
    <3>3. \A d \in Calls \ {c} : talk'[d] = talk[d]
      BY <2>2, <1>0
    <3>4. Moves(c, "choose") /\ "choose" \in PC
      BY <2>2, <1>3 DEF OpenConversation, Moves, PC
    <3> QED  BY <3>1, <3>2, <3>3, <3>4, <2>2, <1>0, TalkKept
  <2> QED  BY <2>1, <2>2, <1>0, <1>3, <1>r DEF OpenConversation
<1>4. ASSUME NEW c \in OpenCalls, ChooseAdmin(c) PROVE TalkInv'
  <2>1. PICK a \in Users : talk' = [talk EXCEPT ![c].admin = a]
    BY <1>4 DEF ChooseAdmin, AnyAdmin
  <2>2. talk'[c].item = talk[c].item /\ talk'[c].user = talk[c].user /\ talk'[c].admin = a
    BY <2>1, <1>0 DEF Talk
  <2>3. \A d \in Calls \ {c} : talk'[d] = talk[d]
    BY <2>1, <1>0
  <2>4. /\ talk[c].item \in Items /\ talk[c].user \in Users
        /\ Owner[talk[c].item] = talk[c].user \/ account[talk[c].user].was_admin
    BY <1>4 DEF ChooseAdmin, TalkInv, Openings
  <2>5. Moves(c, "admin") /\ "admin" \in PC /\ UNCHANGED <<conv, said>>
    BY <1>4 DEF ChooseAdmin, Moves, PC
  <2> QED  BY <2>2, <2>3, <2>4, <2>5, <1>0, TalkKept
<1>5. ASSUME NEW c \in OpenCalls, FindNoAdmin(c) PROVE TalkInv'
  BY <1>5, <1>0, <1>r DEF FindNoAdmin
<1>6. ASSUME NEW c \in OpenCalls, IsActiveAdmin(c) PROVE TalkInv'
  <2>1. CASE IsAdmin(talk[c].admin) /\ Goes(c, "upsert") /\ UNCHANGED followupVars
    <3>1. /\ talk[c].item \in Items /\ talk[c].user \in Users /\ talk[c].admin \in Users
          /\ Owner[talk[c].item] = talk[c].user \/ account[talk[c].user].was_admin
      BY <1>6 DEF IsActiveAdmin, TalkInv, Openings
    <3>2. account[talk[c].admin].was_admin
      BY <3>1, <2>1, <1>a
    <3>3. Moves(c, "upsert") /\ "upsert" \in PC /\ UNCHANGED <<conv, said, talk>>
      BY <2>1, <1>6 DEF IsActiveAdmin, Moves, PC, followupVars
    <3> QED  BY <3>1, <3>2, <3>3, <1>0, TalkKept
  <2> QED  BY <1>6, <2>1, <1>0, <1>r DEF IsActiveAdmin
<1>7. ASSUME NEW c \in OpenCalls, UpsertConversation(c) PROVE TalkInv'
  BY <1>7, <1>0, UpsertKeeps
<1>8. ASSUME NEW c \in TalkCalls, CheckAccess(c) PROVE TalkInv'
  <2>1. PICK i \in Items, v \in Users :
          /\ conv[i][v] # NoConversation
          /\ \/ /\ Party(Caller[c], i, v)
                /\ talk' = [talk EXCEPT ![c].item = i, ![c].user = v]
                /\ Goes(c, "scope") /\ UNCHANGED <<step, conv, said>>
             \/ Refused(c)
    BY <1>8 DEF CheckAccess
  <2>2. CASE /\ Party(Caller[c], i, v)
             /\ talk' = [talk EXCEPT ![c].item = i, ![c].user = v]
             /\ Goes(c, "scope") /\ UNCHANGED <<step, conv, said>>
    <3>1. talk'[c].item = i /\ talk'[c].user = v
      BY <2>2, <1>0 DEF Talk
    <3>2. Caller[c] = v \/ Caller[c] \in conv[i][v].had
      BY <2>1, <2>2 DEF Party, TalkInv, Parties
    <3>3. \A d \in Calls \ {c} : talk'[d] = talk[d]
      BY <2>2, <1>0
    <3>4. Moves(c, "scope") /\ "scope" \in PC
      BY <2>2, <1>8 DEF CheckAccess, Moves, PC
    <3> QED  BY <3>1, <3>2, <3>3, <3>4, <2>2, <1>0, TalkKept
  <2> QED  BY <2>1, <2>2, <1>0, <1>8, <1>r DEF CheckAccess
<1>9. ASSUME NEW c \in TalkCalls, CheckScope(c) PROVE TalkInv'
  <2>1. CASE Goes(c, "say") /\ UNCHANGED followupVars
    <3>1. /\ talk[c].item \in Items /\ talk[c].user \in Users
          /\ \/ Caller[c] = talk[c].user
             \/ Caller[c] \in conv[talk[c].item][talk[c].user].had
      BY <1>9 DEF CheckScope, TalkInv, Speakers
    <3>2. Moves(c, "say") /\ "say" \in PC /\ UNCHANGED <<conv, said, talk>>
      BY <2>1, <1>9 DEF CheckScope, Moves, PC, followupVars
    <3> QED  BY <3>1, <3>2, <1>0, TalkKept
  <2> QED  BY <1>9, <2>1, <1>0, <1>r DEF CheckScope
<1>10. ASSUME NEW c \in TalkCalls, SendMessage(c) PROVE TalkInv'
  BY <1>10, <1>0, SendKeeps
<1> QED  BY <1>1, <1>2, <1>3, <1>4, <1>5, <1>6, <1>7, <1>8, <1>9, <1>10 DEF FollowupNext

-----------------------------------------------------------------------------
(* The lists of Assets *)

LEMMA NewRowsSpell ==
    ASSUME NEW h \in Holders, NEW k \in Kinds, NEW list \in Lists
    PROVE  /\ Spell(NewRows(h, k, list), list)
           /\ \A a \in NewRows(h, k, list) : a.holder = h /\ a.kind = k
<1>1. ASSUME NEW i \in DOMAIN list PROVE (i - 1) + 1 = i
  <2>1. list \in Seq(FileIds)
    BY AssetsAssumption
  <2> QED  BY <2>1
<1> DEFINE Row(i) == [holder |-> h, kind |-> k, file |-> list[i], sort_order |-> i - 1]
           rows == NewRows(h, k, list)
<1>2. ASSUME NEW i \in DOMAIN list
      PROVE  Row(i) \in rows /\ <<Row(i).sort_order + 1, Row(i).file>> = <<i, list[i]>>
  BY <1>1 DEF NewRows
<1>3. ASSUME NEW a \in rows PROVE \E i \in DOMAIN list : a = Row(i)
  BY DEF NewRows
<1>4. \A a \in rows : a.holder = h /\ a.kind = k
  BY <1>3
<1> HIDE DEF Row, rows
<1>5. {<<a.sort_order + 1, a.file>> : a \in rows} = {<<i, list[i]>> : i \in DOMAIN list}
  <2>1. ASSUME NEW p \in {<<a.sort_order + 1, a.file>> : a \in rows}
        PROVE  p \in {<<i, list[i]>> : i \in DOMAIN list}
    BY <1>2, <1>3
  <2>2. ASSUME NEW p \in {<<i, list[i]>> : i \in DOMAIN list}
        PROVE  p \in {<<a.sort_order + 1, a.file>> : a \in rows}
    BY <1>2
  <2> QED  BY <2>1, <2>2
<1> QED  BY <1>4, <1>5 DEF Spell, rows

\* The transaction of d stands while nobody touches its holder and the holder's rows.
LEMMA TransactionStays ==
    ASSUME TypeOK, NEW d \in AssetCalls, Transaction(d),
           pc'[d] = pc[d], edit'[d] = edit[d], holder'[edit[d].holder].status = "live",
           assets' \subseteq Asset, OneRowEach(assets'),
           \A a \in Asset : a.holder = edit[d].holder => (a \in assets' <=> a \in assets)
    PROVE  Transaction(d)'
<1> DEFINE h == edit[d].holder
<1>0. assets \subseteq Asset /\ d \in Calls /\ edit[d] \in Edit
  BY AssetsAssumption DEF TypeOK, AssetsTypeOK
<1>1. Synced(d)' = Synced(d)
  BY DEF Synced
<1>2. edit[d].gone = {a \in assets' : a.holder = h /\ a.kind \in Synced(d)}
  BY <1>0 DEF Transaction
<1>3. OneRowEach((assets' \ edit[d].gone) \cup edit[d].mine)
  <2> SUFFICES ASSUME NEW a \in (assets' \ edit[d].gone) \cup edit[d].mine,
                      NEW b \in (assets' \ edit[d].gone) \cup edit[d].mine,
                      a.holder = b.holder, a.file = b.file
               PROVE  a = b
    BY DEF OneRowEach
  <2>1. a.holder = h => a \in (assets \ edit[d].gone) \cup edit[d].mine
    BY <1>0 DEF Edit
  <2>2. b.holder = h => b \in (assets \ edit[d].gone) \cup edit[d].mine
    BY <1>0 DEF Edit
  <2>3. CASE a.holder = h
    BY <2>1, <2>2, <2>3 DEF Transaction, OneRowEach
  <2>4. CASE a.holder # h
    <3>1. a \in assets' /\ b \in assets'
      BY <2>4 DEF Transaction
    <3> QED  BY <3>1 DEF OneRowEach
  <2> QED  BY <2>3, <2>4
<1> QED  BY <1>1, <1>2, <1>3 DEF Transaction

\* The list of k stands while its rows do: who sent it was answered, and stays so.
LEMMA OfOneCallStays ==
    ASSUME NEW h \in Holders, NEW k \in Kinds, OfOneCall(h, k), Unwritten,
           RowsOf(h, k)' = RowsOf(h, k), holder'[h].updated_by = holder[h].updated_by,
           \A d \in AssetCalls : pc[d] = "done" => pc'[d] = "done" /\ edit'[d] = edit[d]
    PROVE  OfOneCall(h, k)'
<1>1. \A d \in AssetCalls : Sent(d, h, k) => Sent(d, h, k)' /\ edit'[d] = edit[d]
  BY DEF Sent
<1>2. holder[h].updated_by # None =>
        edit'[holder[h].updated_by] = edit[holder[h].updated_by]
  BY DEF Unwritten
<1> QED  BY <1>1, <1>2 DEF OfOneCall

\* Nobody else's step disturbs the lists.
LEMMA ListsAreLeftAlone ==
    ASSUME TypeOK, ListsInv, UNCHANGED assetVars, NEW c \in Calls,
           NEW there \in PC \ {"images", "documents", "commit", "new", "unmade"}, Moves(c, there)
    PROVE  ListsInv'
<1>0. /\ UNCHANGED <<holder, assets, edit>> /\ AssetCalls \subseteq Calls /\ pc \in [Calls -> PC]
      /\ assets \subseteq Asset
  BY AssetsAssumption DEF TypeOK, AssetsTypeOK, assetVars
<1>1. \A d \in AssetCalls :
        /\ Open(d)' => Open(d) /\ pc'[d] = pc[d]
        /\ pc'[d] \in {"new", "unmade"} => pc[d] = pc'[d]
        /\ pc[d] = "done" => pc'[d] = "done"
  BY <1>0 DEF Moves, Goes, Open
<1>2. Transactions'
  <2>1. OneOpenEach'
    BY <1>0, <1>1 DEF ListsInv, Transactions, OneOpenEach
  <2>2. ASSUME NEW d \in AssetCalls, Open(d)' PROVE Transaction(d)'
    <3>1. Open(d) /\ pc'[d] = pc[d]
      BY <2>2, <1>1
    <3>2. Transaction(d)
      BY <3>1 DEF ListsInv, Transactions
    <3>3. holder'[edit[d].holder].status = "live" /\ OneRowEach(assets')
      BY <3>2, <1>0 DEF Transaction, ListsInv, Committed
    <3> QED  BY <3>1, <3>2, <3>3, <1>0, TransactionStays
  <2> QED  BY <2>1, <2>2 DEF Transactions
<1>3. Unwritten'
  BY <1>0, <1>1 DEF ListsInv, Unwritten
<1>4. Committed'
  <2>1. ASSUME NEW h \in Holders, NEW k \in Kinds PROVE OfOneCall(h, k)'
    <3>1. RowsOf(h, k)' = RowsOf(h, k)
      BY <1>0 DEF RowsOf
    <3> QED  BY <3>1, <1>0, <1>1, OfOneCallStays DEF ListsInv, Committed
  <2>2. OneRowEach(assets')
    BY <1>0 DEF ListsInv, Committed
  <2> QED  BY <2>1, <2>2 DEF Committed
<1> QED  BY <1>2, <1>3, <1>4 DEF ListsInv

\* adminUpdateProduct and adminUpdateGalleryItem open a transaction.
LEMMA UpdateLists ==
    ASSUME TypeOK, ListsInv, NEW c \in AssetCalls, UpdateHolder(c) PROVE ListsInv'
<1>0. /\ AssetCalls \subseteq Calls /\ pc \in [Calls -> PC] /\ edit \in [Calls -> Edit]
      /\ assets \subseteq Asset
  BY AssetsAssumption DEF TypeOK, AssetsTypeOK
<1>1. PICK h \in Holders, active \in BOOLEAN, sent \in [Kinds -> Lists \cup {None}] :
        /\ HolderFree(h, c)
        /\ IF holder[h].status = "live"
           THEN /\ edit' = [edit EXCEPT ![c].holder = h, ![c].active = active, ![c].sent = sent]
                /\ Goes(c, "images")
                /\ UNCHANGED <<holder, assets>>
           ELSE Goes(c, "failed") /\ UNCHANGED assetVars
  BY DEF UpdateHolder
<1>2. CASE holder[h].status # "live"
  <2>1. Moves(c, "failed") /\ "failed" \in PC /\ UNCHANGED assetVars
    BY <1>1, <1>2 DEF UpdateHolder, Moves, PC
  <2> QED  BY <2>1, <1>0, ListsAreLeftAlone
<1>3. CASE holder[h].status = "live"
  <2>1. /\ edit' = [edit EXCEPT ![c].holder = h, ![c].active = active, ![c].sent = sent]
        /\ UNCHANGED <<holder, assets>>
    BY <1>1, <1>3
  <2>2. edit[c] = EmptyEdit /\ pc[c] = "new"
    BY DEF UpdateHolder, ListsInv, Unwritten
  <2>3. edit'[c].holder = h /\ edit'[c].gone = {} /\ edit'[c].mine = {}
    BY <2>1, <2>2, <1>0 DEF EmptyEdit
  <2>4. pc'[c] = "images" /\ \A d \in AssetCalls \ {c} : pc'[d] = pc[d] /\ edit'[d] = edit[d]
    BY <1>0, <1>1, <1>3, <2>1 DEF Goes
  <2>5. OneRowEach(assets) /\ OneRowEach(assets')
    BY <2>1 DEF ListsInv, Committed
  <2>6. ASSUME NEW d \in AssetCalls, Open(d)' PROVE Transaction(d)'
    <3>1. CASE d = c
      <4>1. Synced(d)' = {}
        BY <3>1, <2>4 DEF Synced
      <4>2. (assets' \ edit'[d].gone) \cup edit'[d].mine = assets
        BY <3>1, <2>1, <2>3
      <4> QED  BY <3>1, <4>1, <4>2, <2>1, <2>3, <2>5, <1>3 DEF Transaction
    <3>2. CASE d # c
      <4>1. Open(d) /\ pc'[d] = pc[d] /\ edit'[d] = edit[d]
        BY <3>2, <2>4, <2>6 DEF Open
      <4>2. Transaction(d)
        BY <4>1 DEF ListsInv, Transactions
      <4> QED  BY <4>1, <4>2, <2>1, <2>5, <1>0, TransactionStays DEF Transaction
    <3> QED  BY <3>1, <3>2
  <2>7. OneOpenEach'
    <3> SUFFICES ASSUME NEW d \in AssetCalls, NEW e \in AssetCalls, d # e, Open(d)', Open(e)'
                 PROVE  edit'[d].holder # edit'[e].holder
      BY DEF OneOpenEach
    <3>1. \A b \in AssetCalls \ {c} : Open(b)' => edit'[b].holder # h
      BY <1>1, <2>4 DEF HolderFree, Open
    <3>2. CASE d # c /\ e # c
      BY <3>2, <2>4 DEF Open, ListsInv, Transactions, OneOpenEach
    <3> QED  BY <3>1, <3>2, <2>3
  <2>8. Unwritten'
    BY <2>1, <2>2, <2>4 DEF ListsInv, Unwritten
  <2>9. ASSUME NEW g \in Holders, NEW k \in Kinds PROVE OfOneCall(g, k)'
    <3>1. RowsOf(g, k)' = RowsOf(g, k)
      BY <2>1 DEF RowsOf
    <3> QED  BY <3>1, <2>1, <2>2, <2>4, OfOneCallStays DEF ListsInv, Committed
  <2> QED  BY <2>5, <2>6, <2>7, <2>8, <2>9 DEF ListsInv, Transactions, Committed
<1> QED  BY <1>2, <1>3

\* adminDeleteProduct and adminDeleteGalleryItem: no transaction has the row.
LEMMA DeleteLists ==
    ASSUME TypeOK, Edits, ListsInv, NEW c \in AssetCalls, DeleteHolder(c) PROVE ListsInv'
<1>0. /\ AssetCalls \subseteq Calls /\ pc \in [Calls -> PC] /\ holder \in [Holders -> Holder]
      /\ assets \subseteq Asset /\ UNCHANGED <<assets, edit>>
  BY AssetsAssumption DEF TypeOK, AssetsTypeOK, DeleteHolder
<1>1. PICK h \in Holders :
        /\ HolderFree(h, c)
        /\ IF holder[h].status = "live"
           THEN holder' = [holder EXCEPT ![h].status = "deleted"] /\ Goes(c, "done")
           ELSE Goes(c, "failed") /\ UNCHANGED holder
  BY DEF DeleteHolder
<1>2. pc[c] = "new"
  BY DEF DeleteHolder
<1>3. CASE holder[h].status # "live"
  <2>1. Moves(c, "failed") /\ "failed" \in PC /\ UNCHANGED assetVars
    BY <1>0, <1>1, <1>2, <1>3 DEF Moves, PC, assetVars
  <2> QED  BY <2>1, <1>0, ListsAreLeftAlone
<1>4. CASE holder[h].status = "live"
  <2>1. pc'[c] = "done" /\ \A d \in AssetCalls \ {c} : pc'[d] = pc[d]
    BY <1>0, <1>1, <1>4 DEF Goes
  <2>2. /\ holder'[h].status = "deleted"
        /\ \A g \in Holders : holder'[g].updated_by = holder[g].updated_by
        /\ \A g \in Holders \ {h} : holder'[g] = holder[g]
    BY <1>0, <1>1, <1>4 DEF Holder
  <2>3. OneRowEach(assets')
    BY <1>0 DEF ListsInv, Committed
  <2>4. ASSUME NEW d \in AssetCalls, Open(d)' PROVE Transaction(d)'
    <3>1. d # c /\ Open(d) /\ pc'[d] = pc[d]
      BY <2>1, <2>4 DEF Open
    <3>2. Transaction(d)
      BY <3>1 DEF ListsInv, Transactions
    <3>3. edit[d].holder # h
      BY <1>1, <3>1 DEF HolderFree, Open
    <3>4. holder'[edit[d].holder].status = "live"
      <4>1. edit[d].holder \in Holders
        BY <3>1 DEF Edits, Open
      <4> QED  BY <4>1, <3>2, <3>3, <2>2 DEF Transaction
    <3> QED  BY <3>1, <3>2, <3>4, <2>3, <1>0, TransactionStays
  <2>5. OneOpenEach'
    BY <2>1, <1>0 DEF ListsInv, Transactions, OneOpenEach, Open
  <2>6. Unwritten'
    BY <2>1, <2>2, <1>0, <1>2 DEF ListsInv, Unwritten
  <2>7. ASSUME NEW g \in Holders, NEW k \in Kinds PROVE OfOneCall(g, k)'
    <3>1. RowsOf(g, k)' = RowsOf(g, k)
      BY <1>0 DEF RowsOf
    <3> QED  BY <3>1, <2>1, <2>2, <1>0, OfOneCallStays DEF ListsInv, Committed
  <2> QED  BY <2>3, <2>4, <2>5, <2>6, <2>7 DEF ListsInv, Transactions, Committed
<1> QED  BY <1>3, <1>4

\* What one replacement of a list does to the transaction.
LEMMA ReplacedLists ==
    ASSUME TypeOK, Edits, ListsInv, NEW c \in AssetCalls, NEW k \in Kinds \ Synced(c), Open(c),
           edit[c].sent[k] # None,
           Insertable(NewRows(edit[c].holder, k, edit[c].sent[k]),
                      (assets \ (edit[c].gone \cup RowsOf(edit[c].holder, k))) \cup edit[c].mine),
           edit' = [edit EXCEPT
               ![c].gone = edit[c].gone \cup RowsOf(edit[c].holder, k),
               ![c].mine = @ \cup NewRows(edit[c].holder, k, edit[c].sent[k])],
           UNCHANGED <<holder, assets>>,
           Synced(c)' = Synced(c) \cup {k}
    PROVE  Transaction(c)'
<1> DEFINE h == edit[c].holder
           list == edit[c].sent[k]
           rows == NewRows(h, k, list)
           gone == edit[c].gone \cup RowsOf(h, k)
           mine == edit[c].mine \cup rows
<1>0. /\ edit \in [Calls -> Edit] /\ c \in Calls /\ assets \subseteq Asset
  BY AssetsAssumption DEF TypeOK, AssetsTypeOK
<1>1. Transaction(c) /\ h \in Holders /\ list \in Lists
  BY <1>0 DEF ListsInv, Transactions, Edits, Open, Edit
<1>2. \A a \in rows : a.holder = h /\ a.kind = k
  BY <1>1, NewRowsSpell
<1>3. Insertable(rows, (assets \ gone) \cup edit[c].mine)
  OBVIOUS
<1>4. /\ edit'[c].holder = h /\ edit'[c].sent = edit[c].sent
      /\ edit'[c].gone = gone /\ edit'[c].mine = mine
  <2>1. edit[c] \in Edit
    BY <1>0
  <2>2. edit'[c] = [edit[c] EXCEPT !.gone = gone, !.mine = mine]
    BY <1>0
  <2> HIDE DEF gone, mine
  <2> QED  BY <2>1, <2>2 DEF Edit
<1> HIDE DEF rows
<1>5. gone = {a \in assets : a.holder = h /\ a.kind \in Synced(c) \cup {k}}
  BY <1>1 DEF Transaction, RowsOf
<1>6. \A a \in mine : a.holder = h /\ a.kind \in Synced(c) \cup {k}
  BY <1>1, <1>2 DEF Transaction
<1>7. ASSUME NEW j \in Synced(c) \cup {k}
      PROVE  RowsAmong(mine, h, j) = NewRows(h, j, edit[c].sent[j])
  <2>1. CASE j = k
    <3>1. RowsAmong(mine, h, k) = rows
      BY <1>1, <1>2 DEF Transaction, RowsAmong
    <3> QED  BY <2>1, <3>1 DEF rows
  <2>2. CASE j # k
    <3>1. RowsAmong(mine, h, j) = RowsAmong(edit[c].mine, h, j)
      BY <1>2, <2>2 DEF RowsAmong
    <3> QED  BY <2>2, <3>1, <1>1 DEF Transaction
  <2> QED  BY <2>1, <2>2
<1>8. OneRowEach((assets \ gone) \cup mine)
  <2> SUFFICES ASSUME NEW a \in (assets \ gone) \cup mine, NEW b \in (assets \ gone) \cup mine,
                      a.holder = b.holder, a.file = b.file
               PROVE  a = b
    BY DEF OneRowEach
  <2>1. CASE a \in rows
    BY <2>1, <1>3 DEF Insertable
  <2>2. CASE b \in rows
    BY <2>2, <1>3 DEF Insertable
  <2>3. CASE a \notin rows /\ b \notin rows
    BY <2>3, <1>1 DEF Transaction, OneRowEach
  <2> QED  BY <2>1, <2>2, <2>3
<1> HIDE DEF gone, mine
<1>9. holder'[edit'[c].holder].status = "live"
  BY <1>1, <1>4 DEF Transaction
<1> QED  BY <1>4, <1>5, <1>6, <1>7, <1>8, <1>9 DEF Transaction

\* syncProductAssets and syncGalleryAssets: a list is replaced in the transaction.
LEMMA SyncLists ==
    ASSUME TypeOK, Edits, ListsInv, NEW c \in AssetCalls, SyncImages(c) \/ SyncDocuments(c)
    PROVE  ListsInv'
<1>0. /\ AssetCalls \subseteq Calls /\ pc \in [Calls -> PC] /\ edit \in [Calls -> Edit]
      /\ assets \subseteq Asset
  BY AssetsAssumption DEF TypeOK, AssetsTypeOK
<1>1. PICK k \in Kinds, next \in {"documents", "commit"} :
        /\ Sync(c, k, next)
        /\ \/ pc[c] = "images" /\ k = "image" /\ next = "documents"
           \/ pc[c] = "documents" /\ k = "file" /\ next = "commit"
  BY DEF SyncImages, SyncDocuments, Kinds
<1>2. Open(c) /\ pc[c] # "done" /\ k \notin Synced(c)
  BY <1>1 DEF Open, Synced
<1>3. CASE Goes(c, "failed") /\ UNCHANGED assetVars
  <2>1. Moves(c, "failed") /\ "failed" \in PC
    BY <1>2, <1>3 DEF Moves, PC
  <2> QED  BY <2>1, <1>0, <1>3, ListsAreLeftAlone
<1>4. CASE Goes(c, next) /\ UNCHANGED <<holder, assets>> /\ edit'[c].holder = edit[c].holder
           /\ edit' = [edit EXCEPT ![c] = edit'[c]] /\ Transaction(c)'
  <2>1. pc'[c] = next /\ \A d \in AssetCalls \ {c} : pc'[d] = pc[d] /\ edit'[d] = edit[d]
    BY <1>0, <1>4 DEF Goes
  <2>2. OneRowEach(assets')
    BY <1>4 DEF ListsInv, Committed
  <2>3. ASSUME NEW d \in AssetCalls \ {c}, Open(d)' PROVE Transaction(d)'
    <3>1. Open(d) /\ pc'[d] = pc[d] /\ edit'[d] = edit[d]
      BY <2>1, <2>3 DEF Open
    <3>2. Transaction(d)
      BY <3>1 DEF ListsInv, Transactions
    <3> QED  BY <3>1, <3>2, <2>2, <1>0, <1>4, TransactionStays DEF Transaction
  <2>4. OneOpenEach'
    <3>1. \A d \in AssetCalls : (Open(d)' => Open(d)) /\ edit'[d].holder = edit[d].holder
      BY <2>1, <1>2, <1>4 DEF Open
    <3> QED  BY <3>1 DEF ListsInv, Transactions, OneOpenEach
  <2>5. Unwritten'
    BY <2>1, <1>1, <1>2, <1>4 DEF ListsInv, Unwritten, Open
  <2>6. ASSUME NEW g \in Holders, NEW j \in Kinds PROVE OfOneCall(g, j)'
    <3>1. RowsOf(g, j)' = RowsOf(g, j)
      BY <1>4 DEF RowsOf
    <3> QED  BY <3>1, <2>1, <1>2, <1>4, OfOneCallStays DEF ListsInv, Committed
  <2> QED  BY <1>4, <2>2, <2>3, <2>4, <2>5, <2>6 DEF ListsInv, Transactions, Committed
<1>5. CASE edit[c].sent[k] = None
  <2>1. Goes(c, next) /\ UNCHANGED assetVars
    BY <1>1, <1>5 DEF Sync
  <2>2. Synced(c)' = Synced(c)
    BY <2>1, <1>0, <1>1, <1>5 DEF Synced, Goes, assetVars, Kinds
  <2>3. Transaction(c)
    BY <1>2 DEF ListsInv, Transactions
  <2>4. Transaction(c)'
    BY <2>1, <2>2, <2>3 DEF Transaction, assetVars
  <2> QED  BY <2>1, <2>4, <1>0, <1>4 DEF assetVars
<1>6. CASE /\ edit[c].sent[k] # None
           /\ Insertable(NewRows(edit[c].holder, k, edit[c].sent[k]),
                         (assets \ (edit[c].gone \cup RowsOf(edit[c].holder, k))) \cup edit[c].mine)
  <2>1. /\ edit' = [edit EXCEPT
                ![c].gone = edit[c].gone \cup RowsOf(edit[c].holder, k),
                ![c].mine = @ \cup NewRows(edit[c].holder, k, edit[c].sent[k])]
        /\ Goes(c, next) /\ UNCHANGED <<holder, assets>>
    BY <1>1, <1>6 DEF Sync
  <2>2. edit'[c].holder = edit[c].holder /\ edit'[c].sent = edit[c].sent
    BY <2>1, <1>0 DEF Edit
  <2>3. Synced(c)' = Synced(c) \cup {k}
    BY <2>1, <2>2, <1>0, <1>1, <1>6 DEF Synced, Goes, Kinds
  <2>4. Transaction(c)'
    BY <2>1, <2>3, <1>2, <1>6, ReplacedLists
  <2>5. edit' = [edit EXCEPT ![c] = edit'[c]]
    BY <2>1, <1>0
  <2> QED  BY <2>1, <2>2, <2>4, <2>5, <1>4
<1> QED  BY <1>1, <1>3, <1>5, <1>6 DEF Sync

\* The COMMIT: the lists of the call become those of its holder.
LEMMA CommitLists ==
    ASSUME TypeOK, Edits, ListsInv, NEW c \in AssetCalls, CommitHolder(c) PROVE ListsInv'
<1>0. /\ AssetCalls \subseteq Calls /\ pc \in [Calls -> PC] /\ edit \in [Calls -> Edit]
      /\ holder \in [Holders -> Holder] /\ assets \subseteq Asset
      /\ assets' = (assets \ edit[c].gone) \cup edit[c].mine /\ UNCHANGED edit
      /\ pc[c] = "commit" /\ edit[c] \in Edit
  BY AssetsAssumption DEF TypeOK, AssetsTypeOK, CommitHolder
<1>a. PICK h \in Holders : h = edit[c].holder
  BY <1>0 DEF Edits
<1>1. Transaction(c) /\ h = edit[c].holder /\ Open(c)
  BY <1>0, <1>a DEF ListsInv, Transactions, Open
<1>2. pc'[c] = "done" /\ \A d \in AssetCalls \ {c} : pc'[d] = pc[d]
  BY <1>0 DEF CommitHolder, Goes
<1>3. /\ holder'[h].updated_by = c /\ holder'[h].status = holder[h].status
      /\ \A g \in Holders \ {h} : holder'[g] = holder[g]
  <2>1. holder'[h] = [holder[h] EXCEPT !.active = edit[c].active, !.updated_by = c]
    BY <1>0, <1>1 DEF CommitHolder
  <2>2. holder[h] \in Holder
    BY <1>0, <1>1
  <2>3. \A g \in Holders \ {h} : holder'[g] = holder[g]
    BY <1>0, <1>1 DEF CommitHolder
  <2> QED  BY <2>1, <2>2, <2>3 DEF Holder
<1>4. assets' \subseteq Asset
  BY <1>0 DEF Edit
<1>5. OneRowEach(assets')
  BY <1>0, <1>1 DEF Transaction
<1>6. \A a \in Asset : a.holder # h => (a \in assets' <=> a \in assets)
  BY <1>0, <1>1 DEF Transaction
<1>7. ASSUME NEW d \in AssetCalls, Open(d)' PROVE Transaction(d)'
  <2>1. d # c /\ Open(d) /\ pc'[d] = pc[d]
    BY <1>2, <1>7 DEF Open
  <2>2. Transaction(d) /\ edit[d].holder \in Holders
    BY <2>1 DEF ListsInv, Transactions, Edits, Open
  <2>3. edit[d].holder # h
    BY <1>1, <2>1 DEF ListsInv, Transactions, OneOpenEach
  <2>4. holder'[edit[d].holder].status = "live"
    BY <1>3, <2>2, <2>3 DEF Transaction
  <2> QED  BY <2>1, <2>2, <2>3, <2>4, <1>0, <1>4, <1>5, <1>6, TransactionStays
<1>8. OneOpenEach'
  BY <1>0, <1>2 DEF ListsInv, Transactions, OneOpenEach, Open
<1>9. Unwritten'
  <2>1. \A d \in AssetCalls : pc'[d] \in {"new", "unmade"} => edit'[d] = EmptyEdit
    BY <1>0, <1>2 DEF ListsInv, Unwritten
  <2>2. ASSUME NEW g \in Holders, holder'[g].status = "none"
        PROVE  holder'[g].updated_by = None /\ \A a \in assets' : a.holder # g
    <3>1. g # h
      BY <2>2, <1>1, <1>3 DEF Transaction
    <3> QED  BY <2>2, <3>1, <1>3, <1>4, <1>6 DEF ListsInv, Unwritten
  <2>3. ASSUME NEW g \in Holders, holder'[g].updated_by # None
        PROVE  holder'[g].updated_by \in AssetCalls /\ pc'[holder'[g].updated_by] = "done"
    <3>1. CASE g = h
      BY <3>1, <1>2, <1>3
    <3>2. CASE g # h
      BY <2>3, <3>2, <1>2, <1>3 DEF ListsInv, Unwritten
    <3> QED  BY <3>1, <3>2
  <2> QED  BY <2>1, <2>2, <2>3 DEF Unwritten
<1>10. ASSUME NEW g \in Holders, NEW k \in Kinds PROVE OfOneCall(g, k)'
  <2>1. \A d \in AssetCalls : pc[d] = "done" => pc'[d] = "done" /\ edit'[d] = edit[d]
    BY <1>0, <1>2
  <2>2. OfOneCall(g, k) /\ Unwritten
    BY DEF ListsInv, Committed
  <2>3. CASE g # h
    <3>1. RowsOf(g, k)' = RowsOf(g, k)
      BY <2>3, <1>0, <1>4, <1>6 DEF RowsOf
    <3> QED  BY <2>1, <2>2, <2>3, <3>1, <1>3, OfOneCallStays
  <2>4. CASE g = h /\ edit[c].sent[k] # None
    <3>1. k \in Synced(c) /\ edit[c].sent[k] \in Lists
      BY <2>4, <1>0 DEF Synced, Edit
    <3>2. RowsOf(h, k)' = RowsAmong(edit[c].mine, h, k)
      BY <3>1, <1>0, <1>1 DEF Transaction, RowsOf, RowsAmong
    <3>3. Spell(RowsOf(h, k)', edit[c].sent[k])
      BY <3>1, <3>2, <1>1, NewRowsSpell DEF Transaction
    <3>4. Sent(c, h, k)'
      BY <2>4, <1>0, <1>1, <1>2 DEF Sent
    <3> QED  BY <2>4, <3>3, <3>4, <1>0, <1>3 DEF OfOneCall
  <2>5. CASE g = h /\ edit[c].sent[k] = None
    <3>1. RowsOf(h, k)' = RowsOf(h, k)
      BY <2>5, <1>0, <1>1 DEF Transaction, RowsOf, Synced
    <3>2. \A d \in AssetCalls : Sent(d, h, k) => Sent(d, h, k)'
      BY <2>1 DEF Sent
    <3>3. RowsOf(h, k)' # {} =>
            \E d \in AssetCalls : Sent(d, h, k)' /\ Spell(RowsOf(h, k)', edit'[d].sent[k])
      BY <2>2, <2>5, <3>1, <3>2, <1>0 DEF OfOneCall
    <3>4. edit'[holder'[h].updated_by].sent[k] = None
      BY <2>5, <1>0, <1>3
    <3> QED  BY <2>5, <3>3, <3>4 DEF OfOneCall
  <2> QED  BY <2>3, <2>4, <2>5
<1> QED  BY <1>5, <1>7, <1>8, <1>9, <1>10 DEF ListsInv, Transactions, Committed

\* adminCreateProduct and adminCreateGalleryItem: a holder comes with the lists of its call.
LEMMA CreateLists ==
    ASSUME TypeOK, Edits, ListsInv, NEW c \in AssetCalls, CreateHolder(c),
           AssetsTypeOK'
    PROVE  ListsInv'
<1>0. /\ AssetCalls \subseteq Calls /\ pc \in [Calls -> PC] /\ edit \in [Calls -> Edit]
      /\ holder \in [Holders -> Holder] /\ assets \subseteq Asset /\ assets' \subseteq Asset
      /\ pc[c] = "new" /\ edit[c] = EmptyEdit
  BY AssetsAssumption DEF TypeOK, AssetsTypeOK, CreateHolder, ListsInv, Unwritten
<1>1. PICK h \in Holders, images \in Lists, documents \in Lists \cup {None} :
        LET rows == NewRows(h, "image", images) \cup
                    (IF documents = None THEN {} ELSE NewRows(h, "file", documents))
        IN  /\ holder[h].status = "none"
            /\ IF Insertable(rows, {})
               THEN /\ holder' = [holder EXCEPT ![h] =
                          [status |-> "live", active |-> TRUE, updated_by |-> c]]
                    /\ assets' = assets \cup rows
                    /\ edit' = [edit EXCEPT ![c].holder = h, ![c].sent =
                          [k \in Kinds |-> IF k = "image" THEN images ELSE documents]]
                    /\ Goes(c, "done")
               ELSE Goes(c, "failed") /\ UNCHANGED assetVars
  BY DEF CreateHolder
<1> DEFINE lists == [k \in Kinds |-> IF k = "image" THEN images ELSE documents]
           Rows(k) == IF lists[k] = None THEN {} ELSE NewRows(h, k, lists[k])
           rows == NewRows(h, "image", images) \cup
                   (IF documents = None THEN {} ELSE NewRows(h, "file", documents))
<1>2. CASE Goes(c, "failed") /\ UNCHANGED assetVars
  <2>1. Moves(c, "failed") /\ "failed" \in PC
    BY <1>0, <1>2 DEF Moves, PC
  <2> QED  BY <2>1, <1>0, <1>2, ListsAreLeftAlone
<1>3. CASE /\ Insertable(rows, {})
           /\ holder' = [holder EXCEPT ![h] =
                  [status |-> "live", active |-> TRUE, updated_by |-> c]]
           /\ assets' = assets \cup rows
           /\ edit' = [edit EXCEPT ![c].holder = h, ![c].sent = lists]
           /\ Goes(c, "done")
  <2>1. pc'[c] = "done" /\ \A d \in AssetCalls \ {c} : pc'[d] = pc[d] /\ edit'[d] = edit[d]
    BY <1>0, <1>3 DEF Goes
  <2>2. edit'[c].holder = h /\ edit'[c].sent = lists
    BY <1>0, <1>3 DEF EmptyEdit
  <2>3. /\ holder'[h].status = "live" /\ holder'[h].updated_by = c
        /\ \A g \in Holders \ {h} : holder'[g] = holder[g]
    BY <1>0, <1>3
  <2>4. lists \in [Kinds -> Lists \cup {None}] /\ lists["image"] = images
        /\ lists["file"] = documents /\ images # None
    BY AssetsAssumption DEF Kinds
  <2>5. \A a \in assets : a.holder # h
    BY <1>1 DEF ListsInv, Unwritten
  <2>6. rows = Rows("image") \cup Rows("file")
    BY <2>4
  <2>7. ASSUME NEW k \in Kinds, NEW a \in Rows(k) PROVE a.holder = h /\ a.kind = k
    <3>1. lists[k] # None /\ lists[k] \in Lists /\ a \in NewRows(h, k, lists[k])
      BY <2>4, <2>7
    <3> HIDE DEF lists
    <3> QED  BY <3>1, NewRowsSpell
  <2> HIDE DEF lists, Rows, rows
  <2>8. \A a \in rows : a.holder = h
    BY <2>6, <2>7 DEF Kinds
  <2>9. OneRowEach(assets')
    <3> SUFFICES ASSUME NEW a \in assets \cup rows, NEW b \in assets \cup rows,
                        a.holder = b.holder, a.file = b.file
                 PROVE  a = b
      BY <1>3 DEF OneRowEach
    <3>1. CASE a \in rows /\ b \in rows
      BY <3>1, <1>3 DEF Insertable
    <3>2. CASE a \in assets /\ b \in assets
      BY <3>2 DEF ListsInv, Committed, OneRowEach
    <3> QED  BY <3>1, <3>2, <2>5, <2>8
  <2>10. \A a \in Asset : a.holder # h => (a \in assets' <=> a \in assets)
    BY <1>3, <2>8
  <2>11. ASSUME NEW d \in AssetCalls, Open(d)' PROVE Transaction(d)'
    <3>1. d # c /\ Open(d) /\ pc'[d] = pc[d] /\ edit'[d] = edit[d]
      BY <2>1, <2>11 DEF Open
    <3>2. Transaction(d) /\ edit[d].holder \in Holders
      BY <3>1 DEF ListsInv, Transactions, Edits, Open
    <3>3. edit[d].holder # h
      BY <3>2, <1>1 DEF Transaction
    <3>4. holder'[edit[d].holder].status = "live"
      BY <2>3, <3>2, <3>3 DEF Transaction
    <3> QED  BY <3>1, <3>2, <3>3, <3>4, <2>9, <2>10, <1>0, TransactionStays
  <2>12. OneOpenEach'
    BY <2>1 DEF ListsInv, Transactions, OneOpenEach, Open
  <2>13. Unwritten'
    <3>1. \A d \in AssetCalls : pc'[d] \in {"new", "unmade"} => edit'[d] = EmptyEdit
      BY <2>1 DEF ListsInv, Unwritten
    <3>2. ASSUME NEW g \in Holders, holder'[g].status = "none"
          PROVE  holder'[g].updated_by = None /\ \A a \in assets' : a.holder # g
      <4>1. g # h
        BY <3>2, <2>3
      <4> QED  BY <3>2, <4>1, <2>3, <2>10, <1>0 DEF ListsInv, Unwritten
    <3>3. ASSUME NEW g \in Holders, holder'[g].updated_by # None
          PROVE  holder'[g].updated_by \in AssetCalls /\ pc'[holder'[g].updated_by] = "done"
      <4>1. CASE g = h
        BY <4>1, <2>1, <2>3
      <4>2. CASE g # h
        BY <3>3, <4>2, <2>1, <2>3 DEF ListsInv, Unwritten
      <4> QED  BY <4>1, <4>2
    <3> QED  BY <3>1, <3>2, <3>3 DEF Unwritten
  <2>14. ASSUME NEW g \in Holders, NEW k \in Kinds PROVE OfOneCall(g, k)'
    <3>1. CASE g # h
      <4>1. RowsOf(g, k)' = RowsOf(g, k)
        BY <3>1, <1>0, <2>10 DEF RowsOf
      <4>2. \A d \in AssetCalls : pc[d] = "done" => pc'[d] = "done" /\ edit'[d] = edit[d]
        BY <1>0, <2>1
      <4> QED  BY <3>1, <4>1, <4>2, <2>3, OfOneCallStays DEF ListsInv, Committed
    <3>2. CASE g = h
      <4>1. RowsOf(h, k)' = Rows(k)
        BY <1>3, <2>5, <2>6, <2>7 DEF RowsOf, Kinds
      <4>2. lists[k] # None => Spell(Rows(k), lists[k]) /\ Sent(c, h, k)'
        <5>1. lists[k] # None => lists[k] \in Lists
          BY <2>4
        <5> QED  BY <5>1, <2>1, <2>2, NewRowsSpell DEF Rows, Sent
      <4>3. lists[k] = None => Rows(k) = {}
        BY DEF Rows
      <4>4. edit'[holder'[h].updated_by].sent[k] = lists[k] /\ edit'[c].sent[k] = lists[k]
        BY <2>2, <2>3
      <4> QED  BY <3>2, <4>1, <4>2, <4>3, <4>4 DEF OfOneCall
    <3> QED  BY <3>1, <3>2
  <2> QED  BY <2>9, <2>11, <2>12, <2>13, <2>14 DEF ListsInv, Transactions, Committed
<1> QED  BY <1>1, <1>2, <1>3

LEMMA AssetsLists ==
    ASSUME TypeOK, Edits, ListsInv, AssetsNext, AssetsTypeOK' PROVE ListsInv'
<1>1. PICK c \in AssetCalls :
        \/ CreateHolder(c) \/ UpdateHolder(c) \/ SyncImages(c) \/ SyncDocuments(c)
        \/ CommitHolder(c) \/ DeleteHolder(c)
  BY DEF AssetsNext
<1> QED  BY <1>1, CreateLists, UpdateLists, SyncLists, CommitLists, DeleteLists
-----------------------------------------------------------------------------
(* All together *)

LEMMA InitInv == Init => SupportInv
<1> SUFFICES ASSUME Init PROVE SupportInv
  OBVIOUS
<1>1. pc \in [Calls -> {"new", "unmade"}]
  BY DEF Init, ProfilesInit
<1>2. Edits /\ Openings /\ CheckedAvatars
  BY <1>1, ProfilesAssumption, AssetsAssumption, FollowupAssumption
  DEF Edits, Openings, CheckedAvatars
<1>3. Speakers
  BY <1>1, FollowupAssumption DEF Speakers, Init, FollowupInit
<1>4. Parties
  BY DEF Parties, Init, FollowupInit
<1>5. ProfilesAreTheirs
  <2>1. ASSUME NEW u \in Users, account[u].avatar # None
        PROVE  AvatarOf(u, file[account[u].avatar])
    <3>1. file = InitialFile /\ account = InitialAccount
      BY DEF Init, ProfilesInit
    <3>2. InitialFile[InitialAccount[u].avatar]
          = [owner |-> u, purpose |-> "avatar", status |-> "uploaded"]
      BY <2>1, <3>1, InitialAssumption
    <3> QED  BY <3>1, <3>2 DEF AvatarOf
  <2>2. OnePhone
    BY InitialAssumption DEF Init, ProfilesInit, OnePhone
  <2> QED  BY <2>1, <2>2 DEF ProfilesAreTheirs, OwnAvatar, AvatarOf
<1>6. AdminsWere
  BY InitialAssumption DEF Init, ProfilesInit, AdminsWere
<1>7. ListsInv
  <2>1. \A c \in AssetCalls : pc[c] \in {"new", "unmade"} /\ edit[c] = EmptyEdit
    BY <1>1, AssetsAssumption DEF Init, AssetsInit
  <2>2. assets = {} /\ \A h \in Holders : holder[h].updated_by = None
    BY DEF Init, AssetsInit
  <2>3. \A h \in Holders, k \in Kinds : RowsOf(h, k) = {}
    BY <2>2 DEF RowsOf
  <2> QED  BY <2>1, <2>2, <2>3
           DEF ListsInv, Transactions, OneOpenEach, Open, Unwritten, Committed, OfOneCall, OneRowEach
<1> QED  BY <1>2, <1>3, <1>4, <1>5, <1>6, <1>7, InitType DEF SupportInv, PeopleInv, TalkInv

LEMMA StepInv == SupportInv /\ [Next]_vars => SupportInv'
<1> SUFFICES ASSUME SupportInv, [Next]_vars PROVE SupportInv'
  OBVIOUS
<1> USE DEF SupportInv
<1>t. TypeOK'
  BY StepType
<1>0. AssetCalls \subseteq Calls /\ StepCalls \cup OpenCalls \cup TalkCalls \subseteq Calls
  BY AssetsAssumption, FollowupAssumption
<1>1. CASE ProfilesNext /\ UNCHANGED <<assetVars, followupVars>>
  <2>1. PICK c \in Calls, there \in PC \ ((Stages \ {"write"}) \cup {"new", "unmade"}) : Moves(c, there)
    BY <1>1, ProfilesMoves
  <2>2. PeopleInv'
    BY <1>t, <1>1, ProfilesPeople
  <2>3. TalkInv'
    BY <1>1, <2>1, RolesAreRemembered, TalkIsLeftAlone DEF Stages
  <2>4. Edits'
    BY <1>1, <2>1, EditsAreLeftAlone DEF Stages, assetVars
  <2>5. ListsInv'
    BY <1>1, <2>1, ListsAreLeftAlone DEF Stages
  <2> QED  BY <1>t, <2>2, <2>3, <2>4, <2>5
<1>2. CASE AssetsNext /\ UNCHANGED <<profileVars, followupVars>>
  <2>1. PICK c \in AssetCalls, there \in {"images", "documents", "commit", "done", "failed"} :
          Moves(c, there)
    BY <1>2, AssetsMoves
  <2>2. there \in PC \ {"write", "choose", "admin", "upsert", "scope", "say"}
    BY DEF PC
  <2>3. PeopleInv' /\ TalkInv'
    BY <1>0, <1>2, <2>1, <2>2, PeopleAreLeftAlone, TalkIsLeftAlone DEF profileVars
  <2>4. ListsInv'
    BY <1>t, <1>2, AssetsLists DEF TypeOK
  <2> QED  BY <1>t, <1>2, <2>3, <2>4, AssetsEdits
<1>3. CASE FollowupNext /\ UNCHANGED <<profileVars, assetVars>>
  <2>1. PICK c \in StepCalls \cup OpenCalls \cup TalkCalls,
             there \in {"insert", "choose", "admin", "upsert", "scope", "say", "done", "failed"} :
          Moves(c, there)
    BY <1>3, FollowupMoves
  <2>2. there \in PC \ {"write", "images", "documents", "commit", "new", "unmade"} /\ c \in Calls
    BY <1>0 DEF PC
  <2>3. PeopleInv' /\ Edits'
    BY <1>3, <2>1, <2>2, PeopleAreLeftAlone, EditsAreLeftAlone DEF assetVars
  <2>4. TalkInv'
    BY <1>t, <1>3, FollowupTalk
  <2>5. ListsInv'
    BY <1>3, <2>1, <2>2, ListsAreLeftAlone
  <2> QED  BY <1>t, <2>3, <2>4, <2>5
<1>4. CASE UNCHANGED vars
  <2>1. UNCHANGED <<file, account, form, holder, assets, edit, step, conv, said, talk, pc>>
    BY <1>4 DEF vars, profileVars, assetVars, followupVars
  <2>2. PeopleInv'
    BY <2>1 DEF PeopleInv, ProfilesAreTheirs, OwnAvatar, OnePhone, CheckedAvatars, AdminsWere
  <2>3. TalkInv'
    BY <2>1 DEF TalkInv, Openings, Speakers, Parties
  <2>4. Edits'
    BY <2>1 DEF Edits
  <2>5. ListsInv'
    <3>1. \A c \in AssetCalls : (Open(c)' <=> Open(c)) /\ Synced(c)' = Synced(c)
      BY <2>1 DEF Open, Synced
    <3>2. \A c \in AssetCalls : Transaction(c)' <=> Transaction(c)
      BY <2>1, <3>1 DEF Transaction
    <3>3. Transactions' /\ Unwritten'
      BY <2>1, <3>1, <3>2 DEF ListsInv, Transactions, OneOpenEach, Unwritten
    <3>4. \A h \in Holders, k \in Kinds : OfOneCall(h, k)' <=> OfOneCall(h, k)
      BY <2>1 DEF OfOneCall, RowsOf, Sent
    <3>5. Committed'
      BY <2>1, <3>4 DEF ListsInv, Committed
    <3> QED  BY <3>3, <3>5 DEF ListsInv
  <2> QED  BY <1>t, <2>2, <2>3, <2>4, <2>5
<1> QED  BY <1>1, <1>2, <1>3, <1>4 DEF Next

\* The inductive invariant of files, profiles, assets and follow-ups in one database.
THEOREM SupportInvariant == Spec => []SupportInv
<1> QED  BY InitInv, StepInv, PTL DEF Spec

\* The state of Support keeps its shape, in every composition of its three parts.
THEOREM SupportTypes == Spec => []TypeOK
<1>1. SupportInv => TypeOK
  BY DEF SupportInv
<1> QED  BY <1>1, SupportInvariant, PTL

\* updateMe, markUploaded and createUploadIntent: avatars are uploaded avatar files of
\* their users and a phone is one user's, for any users, files and calls, in any order of
\* their statements.
THEOREM ProfilesStayTheirs == Spec => []ProfilesAreTheirs
<1>1. SupportInv => ProfilesAreTheirs
  BY DEF SupportInv, PeopleInv
<1> QED  BY <1>1, SupportInvariant, PTL

\* syncProductAssets and syncGalleryAssets: the lists of any number of products and gallery
\* items are each of one call, and its whole list, for any lists and calls.
THEOREM ListsOfOneCall == Spec => []ListsAreOfOneCall
<1>1. SupportInv => ListsAreOfOneCall
  BY DEF SupportInv, ListsInv, Committed, OfOneCall, OneRowEach, ListsAreOfOneCall
<1> QED  BY <1>1, SupportInvariant, PTL

\* createFollowupConversation and sendFollowupMessage: whoever is or speaks in a
\* conversation is its customer or was an administrator it had, however roles change
\* between the statements and whoever takes it over.
THEOREM ConversationParties == Spec => []ConversationsHaveTheirParties
<1>1. SupportInv => ConversationsHaveTheirParties
  <2> SUFFICES ASSUME SupportInv PROVE ConversationsHaveTheirParties
    OBVIOUS
  <2>1. said \subseteq TalkCalls
    BY DEF SupportInv, TypeOK, FollowupTypeOK
  <2> QED  BY <2>1 DEF SupportInv, TalkInv, Speakers, Parties, ConversationsHaveTheirParties
<1> QED  BY <1>1, SupportInvariant, PTL
=============================================================================
