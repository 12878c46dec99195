-------------------------------- MODULE Chat --------------------------------
(***************************************************************************)
(* Conversations, their messages and the sockets that hear them:           *)
(* ChatService, ChatController.createConversation, ChatGateway and         *)
(* ChatSocketRegistryService, one action per SQL statement.                *)
(*                                                                         *)
(* The checks of token, participant and product run before the first       *)
(* statement that writes; a call refused by the token or the product is a  *)
(* call not made.  Joining a room and emitting to it are done in memory,   *)
(* in one turn of the event loop, and so are the handshake of a socket and *)
(* its registration.  A conversation is known by its two users, a message  *)
(* by the call that sends it.                                              *)
(***************************************************************************)
EXTENDS Naturals, Sequences, FiniteSets

CONSTANTS
    Users, Products,
    Sockets, UserOf,     \* sockets and the user of each one's token
    OpenReqs,            \* POST /chat/conversations
    JoinReqs, SendReqs, ReadReqs,  \* conversation.join, message.send, message.read
    Rounds,              \* which of them are made: one of these sets
    Pair,                \* the conversation a call opens, joins or sends to
    Product,             \* the product an opening names, or None
    Socket,              \* the socket a message to the gateway arrives by
    Message,             \* the message a call marks as read
    None

Reqs == OpenReqs \cup JoinReqs \cup SendReqs \cup ReadReqs
SocketReqs == JoinReqs \cup SendReqs \cup ReadReqs
Pairs == {{u, v} : u, v \in Users} \ {{u} : u \in Users}

ASSUME ChatAssumption ==
    /\ OpenReqs \cap SocketReqs = {} /\ JoinReqs \cap (SendReqs \cup ReadReqs) = {}
    /\ SendReqs \cap ReadReqs = {}
    /\ Rounds \subseteq SUBSET Reqs
    /\ UserOf \in [Sockets -> Users]
    /\ Pair \in [OpenReqs \cup JoinReqs \cup SendReqs -> Pairs]
    /\ Product \in [OpenReqs -> Products \cup {None}]
    /\ Socket \in [SocketReqs -> Sockets]
    /\ Message \in [ReadReqs -> SendReqs]
    /\ None \notin Reqs \cup Products

VARIABLES
    conversation, \* rows of conversations: is it there, its product, its last message
    messages,     \* rows of messages, in the order of their ids
    readBy,       \* who set read_at of a message
    registered,   \* sockets in socketsByUserId
    connected,    \* whether a socket is still to come, up or down
    room,         \* who has joined which room
    heard,        \* message.received events a socket got, in order
    pc,           \* where each call is
    audience,     \* sockets in the room when the message was inserted
    after         \* calls that had been answered when the message was inserted

vars == <<conversation, messages, readBy, registered, connected, room, heard, pc, audience, after>>
tables == <<conversation, messages, readBy>>
sockets == <<registered, connected, room, heard>>
history == <<audience, after>>

NoRow == [there |-> FALSE, product |-> None, last |-> None]

Init ==
    /\ \E old \in SUBSET Pairs :
          conversation = [p \in Pairs |-> [NoRow EXCEPT !.there = p \in old]]
    /\ messages = <<>>
    /\ readBy = [m \in SendReqs |-> None]
    /\ registered = {} /\ room = {}
    /\ connected = [s \in Sockets |-> "new"]
    /\ heard = [s \in Sockets |-> <<>>]
    /\ \E round \in Rounds : pc = [r \in Reqs |-> IF r \in round THEN "new" ELSE "unmade"]
    /\ audience = [r \in SendReqs |-> {}] /\ after = [r \in SendReqs |-> {}]

-----------------------------------------------------------------------------
(* Sockets: handleConnection, handleDisconnect, rooms *)

Connect(s) ==
    /\ connected[s] = "new"
    /\ connected' = [connected EXCEPT ![s] = "up"]
    /\ registered' = registered \cup {s}
    /\ UNCHANGED <<tables, room, heard, pc, history>>

\* socket.io takes a socket that closes out of its rooms.
Disconnect(s) ==
    /\ connected[s] = "up"
    /\ connected' = [connected EXCEPT ![s] = "down"]
    /\ registered' = registered \ {s}
    /\ room' = {x \in room : x[1] # s}
    /\ UNCHANGED <<tables, heard, pc, history>>

Goes(r, there) == pc' = [pc EXCEPT ![r] = there]
Refused(r) == Goes(r, "failed") /\ UNCHANGED <<tables, sockets, history>>

\* A join of a closed socket does nothing.
JoinsRoom(S, p) == room' = room \cup {<<s, p>> : s \in {t \in S : connected[t] = "up"}}
\* server.to(room).emit, to who is in the room by now.
\* EmitsBeforeJoin reaches those who were there.
EmitsBeforeJoin(r, p) ==
    heard' = [s \in Sockets |-> IF <<s, p>> \in room THEN Append(heard[s], r) ELSE heard[s]]
EmitsReceived(r, p) ==
    heard' = [s \in Sockets |-> IF <<s, p>> \in room' THEN Append(heard[s], r) ELSE heard[s]]

\* A call that dies between two statements leaves what it wrote.
StatementFails(r) == pc[r] \notin {"unmade", "new", "done", "failed"} /\ Refused(r)

-----------------------------------------------------------------------------
(* getOrCreateConversation, createConversation *)

SelectConversation(r) ==
    LET c == conversation[Pair[r]]
    IN  /\ pc[r] = "new"
        /\ Goes(r, IF ~c.there THEN "insert"
                   ELSE IF Product[r] # None /\ c.product = None THEN "context" ELSE "announce")
        /\ UNCHANGED <<tables, sockets, history>>

\* UNIQUE (user_a_id, user_b_id): who comes second gets an error.
\* NeverTaken is a table without it.
NeverTaken(p) == FALSE
Taken(p) == conversation[p].there
InsertConversation(r) ==
    /\ pc[r] = "insert"
    /\ IF Taken(Pair[r])
       THEN Refused(r)
       ELSE /\ conversation' = [conversation EXCEPT ![Pair[r]] =
                                   [NoRow EXCEPT !.there = TRUE, !.product = Product[r]]]
            /\ Goes(r, "announce")
            /\ UNCHANGED <<messages, readBy, sockets, history>>

\* UPDATE conversations SET product_id WHERE id.
SetProduct(r) ==
    /\ pc[r] = "context"
    /\ conversation' = [conversation EXCEPT ![Pair[r]].product = Product[r]]
    /\ Goes(r, "announce")
    /\ UNCHANGED <<messages, readBy, sockets, history>>

\* emitConversationJoinedToParticipants: every socket of both users joins.
EmitConversationJoined(r) ==
    /\ pc[r] = "announce"
    /\ JoinsRoom({s \in registered : UserOf[s] \in Pair[r]}, Pair[r])
    /\ Goes(r, "done")
    /\ UNCHANGED <<tables, registered, connected, heard, history>>

CreateConversation(r) ==
    SelectConversation(r) \/ InsertConversation(r) \/ SetProduct(r) \/ EmitConversationJoined(r)

-----------------------------------------------------------------------------
(* The gateway's messages *)

Caller(r) == UserOf[Socket[r]]
\* ConversationThere forgets the participants.
ConversationThere(r, p) == conversation[p].there
Participant(r, p) == conversation[p].there /\ Caller(r) \in p

\* assertConversationParticipant; getUser knows the socket's user from its handshake.
AssertParticipant(r, p, there) ==
    /\ pc[r] = "new" /\ connected[Socket[r]] = "up"
    /\ IF Participant(r, p)
       THEN Goes(r, there) /\ UNCHANGED <<tables, sockets, history>>
       ELSE Refused(r)

JoinConversation(r) ==
    \/ AssertParticipant(r, Pair[r], "join")
    \/ /\ pc[r] = "join"
       /\ JoinsRoom({Socket[r]}, Pair[r])
       /\ Goes(r, "done")
       /\ UNCHANGED <<tables, registered, connected, heard, history>>

InsertMessage(r) ==
    /\ pc[r] = "insert"
    /\ messages' = Append(messages, r)
    /\ audience' = [audience EXCEPT ![r] = {s \in Sockets : <<s, Pair[r]>> \in room}]
    /\ after' = [after EXCEPT ![r] = {q \in SendReqs : pc[q] = "done"}]
    /\ Goes(r, "last")
    /\ UNCHANGED <<conversation, readBy, sockets>>

\* UPDATE conversations SET last_message_id, whatever it was.
\* FirstMessage sets it only once.
FirstMessage(r) == IF conversation[Pair[r]].last = None THEN r ELSE conversation[Pair[r]].last
LastMessage(r) == r
SetLastMessage(r) ==
    /\ pc[r] = "last"
    /\ conversation' = [conversation EXCEPT ![Pair[r]].last = LastMessage(r)]
    /\ Goes(r, "emit")
    /\ UNCHANGED <<messages, readBy, sockets, history>>

SendMessage(r) ==
    \/ AssertParticipant(r, Pair[r], "insert")
    \/ InsertMessage(r)
    \/ SetLastMessage(r)
    \/ /\ pc[r] = "emit"
       /\ JoinsRoom({Socket[r]}, Pair[r])
       /\ EmitsReceived(r, Pair[r])
       /\ Goes(r, "done")
       /\ UNCHANGED <<tables, registered, connected, history>>

\* markRead: the message, its conversation, and only who did not send it.
\* MarkedAgain forgets the COALESCE, MarkedMessage takes the wrong id.
Recipient(r) == Caller(Message[r]) # Caller(r)
MarkedAgain(r) == r
MarkedMessage(r) == Message[r]
Marked(r) == IF readBy[Message[r]] = None THEN r ELSE readBy[Message[r]]

SelectMessage(r) ==
    /\ pc[r] = "new" /\ connected[Socket[r]] = "up"
    /\ IF /\ \E n \in DOMAIN messages : messages[n] = Message[r]
          /\ Participant(r, Pair[Message[r]]) /\ Recipient(r)
       THEN Goes(r, "update") /\ UNCHANGED <<tables, sockets, history>>
       ELSE Refused(r)
SetRead(r) ==
    /\ pc[r] = "update"
    /\ readBy' = [readBy EXCEPT ![Message[r]] = Marked(r)]
    /\ Goes(r, "emit")
    /\ UNCHANGED <<conversation, messages, sockets, history>>

MarkRead(r) ==
    \/ SelectMessage(r)
    \/ SetRead(r)
    \/ /\ pc[r] = "emit"
       /\ JoinsRoom({Socket[r]}, Pair[Message[r]])
       /\ Goes(r, "done")
       /\ UNCHANGED <<tables, registered, connected, heard, history>>

-----------------------------------------------------------------------------
Next ==
    \/ \E s \in Sockets : Connect(s) \/ Disconnect(s)
    \/ \E r \in OpenReqs : CreateConversation(r)
    \/ \E r \in JoinReqs : JoinConversation(r)
    \/ \E r \in SendReqs : SendMessage(r)
    \/ \E r \in ReadReqs : MarkRead(r)
    \/ \E r \in Reqs : StatementFails(r)

Spec == Init /\ [][Next]_vars
-----------------------------------------------------------------------------
(* Properties *)

PC == {"unmade", "new", "insert", "context", "announce", "join", "last", "emit", "update",
       "done", "failed"}

\* The shape of the state.
TypeOK ==
    /\ conversation \in [Pairs -> [there : BOOLEAN, product : Products \cup {None},
                                   last : SendReqs \cup {None}]]
    /\ messages \in Seq(SendReqs)
    /\ readBy \in [SendReqs -> ReadReqs \cup {None}]
    /\ registered \subseteq Sockets
    /\ connected \in [Sockets -> {"new", "up", "down"}]
    /\ room \subseteq Sockets \X Pairs
    /\ \A s \in Sockets : heard[s] \in Seq(SendReqs)
    /\ pc \in [Reqs -> PC]
    /\ audience \in [SendReqs -> SUBSET Sockets] /\ after \in [SendReqs -> SUBSET SendReqs]

\* The registry and the rooms hold live sockets, whatever was still running when one
\* closed, and a room those of its conversation's two users.
RoomsHoldParticipants ==
    /\ registered = {s \in Sockets : connected[s] = "up"}
    /\ \A x \in room : /\ connected[x[1]] = "up"
                       /\ UserOf[x[1]] \in x[2] /\ conversation[x[2]].there

\* message.received: who was in the room when a message was stored, and its sender,
\* has it when the call is answered, unless he left; nobody gets one twice, or one of
\* a conversation of others.
HeardByTheRoom ==
    /\ \A r \in SendReqs : pc[r] = "done" =>
          \A s \in audience[r] \cup {Socket[r]} :
              connected[s] = "up" => \E n \in DOMAIN heard[s] : heard[s][n] = r
    /\ \A s \in Sockets : \A m, n \in DOMAIN heard[s] :
          UserOf[s] \in Pair[heard[s][m]] /\ (heard[s][m] = heard[s][n] => m = n)

\* sendMessage sets last_message_id without a condition, and concurrent calls may leave
\* it at either message.  But a message sent after another was answered hides it for
\* good, and the last message is one of the conversation.
LastMessageIsRecent ==
    \A p \in Pairs : LET last == conversation[p].last IN
        /\ last # None => Pair[last] = p /\ \E n \in DOMAIN messages : messages[n] = last
        /\ \A r \in SendReqs : pc[r] = "done" /\ Pair[r] = p => last # None /\ last \notin after[r]

\* markRead: only the other user reads a message, once and for all.
ReadMarksStay ==
    [][\A m \in SendReqs : readBy'[m] # readBy[m] =>
          /\ readBy[m] = None
          /\ Caller(readBy'[m]) \in Pair[m] \ {Caller(m)}]_vars

\* getOrCreateConversation: the product a conversation is about changes only by a call
\* that found none, and a conversation opened without one keeps its messages.
ContextChangedOnlyByStaleRead ==
    [][\A p \in Pairs :
          /\ conversation[p].there => conversation'[p].there
          /\ conversation[p].last # None => conversation'[p].last # None
          /\ conversation[p].product # None /\ conversation'[p].product # conversation[p].product
             => \E r \in OpenReqs : Pair[r] = p /\ pc[r] = "context"
                                    /\ Product[r] = conversation'[p].product]_vars
=============================================================================
