------------------------------ MODULE Followup ------------------------------
(***************************************************************************)
(* Follow-up of an order, a fault or a service: the steps administrators   *)
(* publish, and the conversation of a customer with one administrator.     *)
(* Every statement commits on its own, so who is an administrator, and who *)
(* takes part in a conversation, may have changed since it was checked.    *)
(***************************************************************************)
EXTENDS Profiles

CONSTANTS
    Items,      \* orders, faults and services; no call deletes one
    Owner,      \* user_id of an item
    StepCalls,  \* POST, PATCH and DELETE of /admin/followups/steps
    OpenCalls,  \* POST /followups/conversations
    TalkCalls   \* POST /followups/conversations/:id/messages

ASSUME FollowupAssumption ==
    /\ Owner \in [Items -> Users]
    /\ StepCalls \cup OpenCalls \cup TalkCalls \subseteq Calls
    /\ StepCalls \cap (OpenCalls \cup TalkCalls) = {} /\ OpenCalls \cap TalkCalls = {}
    /\ (StepCalls \cup OpenCalls \cup TalkCalls)
          \cap (UploadCalls \cup ProfileCalls \cup RoleCalls) = {}

VARIABLES
    step,  \* rows of followup_steps, each named after the call that created it
    conv,  \* rows of followup_conversations, by item and customer
    said,  \* calls whose row is in followup_messages
    talk   \* locals of the calls: item, customer and administrator they name

followupVars == <<step, conv, said, talk>>

Step == [item : Items \cup {None}, image : FileIds \cup {None}]
NoStep == [item |-> None, image |-> None]

\* had is no column: it remembers every administrator the conversation had.
Conversation == [admin : Users \cup {None}, had : SUBSET Users]
NoConversation == [admin |-> None, had |-> {}]
Talk == [item : Items \cup {None}, user : Users \cup {None}, admin : Users \cup {None},
         image : FileIds \cup {None}]
EmptyTalk == [item |-> None, user |-> None, admin |-> None, image |-> None]

FollowupInit ==
    /\ step = [c \in StepCalls |-> NoStep]
    /\ conv = [i \in Items |-> [u \in Users |-> NoConversation]]
    /\ said = {}
    /\ talk = [c \in Calls |-> EmptyTalk]

Refused(c) == Goes(c, "failed") /\ UNCHANGED followupVars

-----------------------------------------------------------------------------
(* Steps *)

\* adminCreateFollowupStep: assertItemExists, then the INSERT, which the foreign
\* key of the image may refuse.
CreateStep(c) ==
    /\ pc[c] = "new"
    /\ \E i \in Items, f \in FileIds \cup {None} :
          talk' = [talk EXCEPT ![c].item = i, ![c].image = f]
    /\ Goes(c, "insert")
    /\ UNCHANGED <<step, conv, said>>
IsFile(f) == f # None => file[f].status # "none"
InsertStep(c) ==
    /\ pc[c] = "insert"
    /\ IF IsFile(talk[c].image)
       THEN /\ step' = [step EXCEPT ![c] = [item |-> talk[c].item, image |-> talk[c].image]]
            /\ Goes(c, "done")
            /\ UNCHANGED <<conv, said, talk>>
       ELSE Refused(c)

\* adminUpdateFollowupStep: COALESCE keeps an image that is not replaced.
UpdateStep(c) ==
    /\ pc[c] = "new"
    /\ \E s \in StepCalls, f \in FileIds \cup {None} :
          IF step[s] # NoStep /\ IsFile(f)
          THEN /\ step' = [step EXCEPT ![s].image = IF f = None THEN @ ELSE f]
               /\ Goes(c, "done")
               /\ UNCHANGED <<conv, said, talk>>
          ELSE Refused(c)

DeleteStep(c) ==
    /\ pc[c] = "new"
    /\ \E s \in StepCalls :
          IF step[s] # NoStep
          THEN /\ step' = [step EXCEPT ![s] = NoStep]
               /\ Goes(c, "done")
               /\ UNCHANGED <<conv, said, talk>>
          ELSE Refused(c)

-----------------------------------------------------------------------------
(* createFollowupConversation *)

\* assertUserOwnsItem: the owner, or an administrator, who then becomes the
\* customer of a conversation of his own.
MayOpen(u, i) == Owner[i] = u \/ IsAdmin(u)
OpenConversation(c) ==
    /\ pc[c] = "new" /\ Live(Caller[c])
    /\ \E i \in Items :
          IF MayOpen(Caller[c], i)
          THEN /\ talk' = [talk EXCEPT ![c].item = i, ![c].user = Caller[c]]
               /\ Goes(c, "choose")
               /\ UNCHANGED <<step, conv, said>>
          ELSE Refused(c)

\* The administrator the client names, or findAnyAdminId: the one of lowest id.
AnyAdmin == {a \in Users : IsAdmin(a) /\ \A b \in Users : IsAdmin(b) => a <= b}
ChooseAdmin(c) ==
    /\ pc[c] = "choose"
    /\ \/ \E a \in Users : talk' = [talk EXCEPT ![c].admin = a]
       \/ \E a \in AnyAdmin : talk' = [talk EXCEPT ![c].admin = a]
    /\ Goes(c, "admin")
    /\ UNCHANGED <<step, conv, said>>
FindNoAdmin(c) == pc[c] = "choose" /\ AnyAdmin = {} /\ Refused(c)

\* isActiveAdmin.
IsActiveAdmin(c) ==
    /\ pc[c] = "admin"
    /\ IF IsAdmin(talk[c].admin)
       THEN Goes(c, "upsert") /\ UNCHANGED followupVars
       ELSE Refused(c)

\* INSERT ... ON CONFLICT(item_type, item_id, user_id) DO UPDATE SET admin_id.
UpsertConversation(c) ==
    /\ pc[c] = "upsert"
    /\ conv' = [conv EXCEPT ![talk[c].item][talk[c].user] =
                  [admin |-> talk[c].admin, had |-> @.had \cup {talk[c].admin}]]
    /\ Goes(c, "done")
    /\ UNCHANGED <<step, said, talk>>

-----------------------------------------------------------------------------
(* sendFollowupMessage *)

\* assertFollowupConversationAccess reads the row ...
\* PartyIfAdmin lets every administrator in.
PartyIfAdmin(u, i, v) == u = v \/ IsAdmin(u)
Party(u, i, v) == u = v \/ conv[i][v].admin = u
CheckAccess(c) ==
    /\ pc[c] = "new" /\ Live(Caller[c])
    /\ \E i \in Items, v \in Users :
          /\ conv[i][v] # NoConversation
          /\ IF Party(Caller[c], i, v)
             THEN /\ talk' = [talk EXCEPT ![c].item = i, ![c].user = v]
                  /\ Goes(c, "scope")
                  /\ UNCHANGED <<step, conv, said>>
             ELSE Refused(c)

\* ... assertFollowupConversationItemScope compares the item, if the route names one ...
CheckScope(c) ==
    /\ pc[c] = "scope"
    /\ \E i \in Items \cup {None} :
          IF i \in {None, talk[c].item}
          THEN Goes(c, "say") /\ UNCHANGED followupVars
          ELSE Refused(c)

\* ... and the INSERT asks nobody.
SendMessage(c) ==
    /\ pc[c] = "say"
    /\ said' = said \cup {c}
    /\ Goes(c, "done")
    /\ UNCHANGED <<step, conv, talk>>

FollowupNext ==
    \/ \E c \in StepCalls : CreateStep(c) \/ InsertStep(c) \/ UpdateStep(c) \/ DeleteStep(c)
    \/ \E c \in OpenCalls :
          \/ OpenConversation(c) \/ ChooseAdmin(c) \/ FindNoAdmin(c)
          \/ IsActiveAdmin(c) \/ UpsertConversation(c)
    \/ \E c \in TalkCalls : CheckAccess(c) \/ CheckScope(c) \/ SendMessage(c)
-----------------------------------------------------------------------------
(* Properties *)

FollowupTypeOK ==
    /\ step \in [StepCalls -> Step]
    /\ conv \in [Items -> [Users -> Conversation]]
    /\ said \subseteq TalkCalls
    /\ talk \in [Calls -> Talk]

\* createFollowupConversation and sendFollowupMessage, while administrators come
\* and go and conversations change hands: the customer of a conversation owns
\* its item or was an administrator, every administrator it had was one, and
\* whoever wrote in it was its customer or one of these.
ConversationsHaveTheirParties ==
    /\ \A i \in Items, u \in Users : conv[i][u] # NoConversation =>
          /\ Owner[i] = u \/ account[u].was_admin
          /\ conv[i][u].admin \in conv[i][u].had
          /\ \A a \in conv[i][u].had : account[a].was_admin
    /\ \A c \in said :
          Caller[c] = talk[c].user \/ Caller[c] \in conv[talk[c].item][talk[c].user].had
=============================================================================
