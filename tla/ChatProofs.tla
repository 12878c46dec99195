------------------------------ MODULE ChatProofs ------------------------------
(***************************************************************************)
(* Who is in a room, who hears a message and which message is the last,    *)
(* for every set of users, sockets and calls.                              *)
(***************************************************************************)
EXTENDS Chat, TLAPS

(* The invariant *)

\* A conversation that is not there has nothing in its row.
RowsAreWhole == \A p \in Pairs : ~conversation[p].there => conversation[p] = NoRow

\* What getOrCreateConversation and the checks of participant found stays true while the
\* call goes on: a conversation stays, and its users are its id.
Admitted ==
    /\ \A r \in OpenReqs : pc[r] \in {"context", "announce"} => conversation[Pair[r]].there
    /\ \A r \in JoinReqs : pc[r] = "join" => Participant(r, Pair[r])
    /\ \A r \in SendReqs : pc[r] \in {"insert", "last", "emit", "done"} =>
          Participant(r, Pair[r]) /\ connected[Socket[r]] # "new"
    /\ \A r \in ReadReqs : pc[r] \in {"update", "emit"} =>
          Participant(r, Pair[Message[r]]) /\ Recipient(r)

\* Who was in the room when a message was stored is there until it is announced, or has
\* closed his socket for good; an event is of a call that was answered.
Listening ==
    /\ \A r \in SendReqs : pc[r] \in {"last", "emit", "done"} =>
          \A s \in audience[r] : connected[s] # "new"
    /\ \A r \in SendReqs : pc[r] \in {"last", "emit"} =>
          \A s \in audience[r] : connected[s] = "up" => <<s, Pair[r]>> \in room
    /\ \A s \in Sockets : \A n \in DOMAIN heard[s] : pc[heard[s][n]] = "done"

Stored(r) == \E n \in DOMAIN messages : messages[n] = r

\* A call that has set last_message_id is not hidden by those answered before it.
Ordered ==
    /\ \A r \in SendReqs : \A q \in after[r] : pc[q] = "done"
    /\ \A r \in SendReqs : pc[r] = "last" => Stored(r)
    /\ \A r \in SendReqs : pc[r] \in {"emit", "done"} =>
          conversation[Pair[r]].last # None /\ conversation[Pair[r]].last \notin after[r]

ChatInv ==
    /\ TypeOK /\ RowsAreWhole /\ Admitted /\ Listening /\ Ordered
    /\ RoomsHoldParticipants /\ HeardByTheRoom /\ LastMessageIsRecent

-----------------------------------------------------------------------------
(* Types *)

\* What TypeOK and ChatAssumption say of one call.
LEMMA Typed ==
    ASSUME TypeOK
    PROVE  /\ conversation \in [Pairs -> [there : BOOLEAN, product : Products \cup {None},
                                          last : SendReqs \cup {None}]]
           /\ messages \in Seq(SendReqs) /\ readBy \in [SendReqs -> ReadReqs \cup {None}]
           /\ registered \subseteq Sockets /\ connected \in [Sockets -> {"new", "up", "down"}]
           /\ room \subseteq Sockets \X Pairs /\ \A s \in Sockets : heard[s] \in Seq(SendReqs)
           /\ pc \in [Reqs -> PC]
           /\ audience \in [SendReqs -> SUBSET Sockets] /\ after \in [SendReqs -> SUBSET SendReqs]
           /\ OpenReqs \subseteq Reqs /\ JoinReqs \subseteq Reqs
           /\ SendReqs \subseteq Reqs /\ ReadReqs \subseteq Reqs
           /\ None \notin SendReqs
           /\ \A r \in OpenReqs \cup JoinReqs \cup SendReqs : Pair[r] \in Pairs
           /\ \A r \in OpenReqs : Product[r] \in Products \cup {None}
           /\ \A r \in SocketReqs : Socket[r] \in Sockets
           /\ \A r \in ReadReqs : Message[r] \in SendReqs
  BY ChatAssumption DEF TypeOK, Reqs, SocketReqs

LEMMA InitType == Init => TypeOK
<1> SUFFICES ASSUME Init PROVE TypeOK
  OBVIOUS
<1>1. conversation \in [Pairs -> [there : BOOLEAN, product : Products \cup {None},
                                  last : SendReqs \cup {None}]]
  <2>1. PICK old \in SUBSET Pairs :
          conversation = [p \in Pairs |-> [NoRow EXCEPT !.there = p \in old]]
    BY DEF Init
  <2>2. ASSUME NEW b \in BOOLEAN
        PROVE  [NoRow EXCEPT !.there = b] \in [there : BOOLEAN, product : Products \cup {None},
                                               last : SendReqs \cup {None}]
    BY DEF NoRow
  <2>3. ASSUME NEW p \in Pairs
        PROVE  [NoRow EXCEPT !.there = p \in old] \in [there : BOOLEAN, product : Products \cup {None},
                                                      last : SendReqs \cup {None}]
    <3>1. (p \in old) \in BOOLEAN
      OBVIOUS
    <3> QED  BY <2>2, <3>1
  <2> QED  BY <2>1, <2>3
<1>2. pc \in [Reqs -> PC]
  BY DEF Init, PC
<1> QED  BY <1>1, <1>2 DEF Init, TypeOK

\* A step of a call that only moves on.
LEMMA MovesType ==
    ASSUME TypeOK, NEW r \in Reqs, NEW there \in PC, Goes(r, there) PROVE pc' \in [Reqs -> PC]
  BY DEF TypeOK, Goes

LEMMA RefusedType ==
    ASSUME TypeOK, NEW r \in Reqs, NEW there \in PC, Goes(r, there),
           UNCHANGED <<tables, sockets, history>>
    PROVE  TypeOK'
<1>1. pc' \in [Reqs -> PC]
  BY MovesType
<1> QED  BY <1>1 DEF TypeOK, tables, sockets, history

LEMMA JoinsType ==
    ASSUME TypeOK, NEW S \in SUBSET Sockets, NEW p \in Pairs, JoinsRoom(S, p)
    PROVE  room' \subseteq Sockets \X Pairs
  BY DEF TypeOK, JoinsRoom

LEMMA SocketType ==
    ASSUME TypeOK, NEW s \in Sockets, Connect(s) \/ Disconnect(s) PROVE TypeOK'
<1>0. /\ registered \subseteq Sockets /\ connected \in [Sockets -> {"new", "up", "down"}]
      /\ room \subseteq Sockets \X Pairs
  BY DEF TypeOK
<1>1. CASE Connect(s)
  BY <1>0, <1>1 DEF Connect, TypeOK, tables, history
<1>2. CASE Disconnect(s)
  BY <1>0, <1>2 DEF Disconnect, TypeOK, tables, history
<1> QED  BY <1>1, <1>2

LEMMA OpenType ==
    ASSUME TypeOK, NEW r \in OpenReqs, CreateConversation(r) PROVE TypeOK'
<1>0. /\ r \in Reqs /\ Pair[r] \in Pairs /\ Product[r] \in Products \cup {None}
      /\ conversation \in [Pairs -> [there : BOOLEAN, product : Products \cup {None},
                                     last : SendReqs \cup {None}]]
  BY Typed
<1>1. CASE SelectConversation(r)
  <2>1. \E there \in PC : Goes(r, there)
    BY <1>1 DEF SelectConversation, PC
  <2> QED  BY <1>0, <1>1, <2>1, RefusedType DEF SelectConversation
<1>2. CASE InsertConversation(r)
  <2>1. CASE Refused(r)
    BY <1>0, <2>1, RefusedType DEF Refused, PC
  <2>2. CASE /\ conversation' = [conversation EXCEPT ![Pair[r]] =
                                   [NoRow EXCEPT !.there = TRUE, !.product = Product[r]]]
             /\ Goes(r, "announce")
             /\ UNCHANGED <<messages, readBy, sockets, history>>
    <3>1. [NoRow EXCEPT !.there = TRUE, !.product = Product[r]]
            \in [there : BOOLEAN, product : Products \cup {None}, last : SendReqs \cup {None}]
      BY <1>0 DEF NoRow
    <3>2. conversation' \in [Pairs -> [there : BOOLEAN, product : Products \cup {None},
                                       last : SendReqs \cup {None}]]
      BY <1>0, <2>2, <3>1
    <3>3. pc' \in [Reqs -> PC]
      BY <1>0, <2>2, MovesType DEF PC
    <3> QED  BY <2>2, <3>2, <3>3 DEF TypeOK, sockets, history
  <2> QED  BY <1>2, <2>1, <2>2 DEF InsertConversation
<1>3. CASE SetProduct(r)
  <2>1. conversation' \in [Pairs -> [there : BOOLEAN, product : Products \cup {None},
                                     last : SendReqs \cup {None}]]
    BY <1>0, <1>3 DEF SetProduct
  <2>2. pc' \in [Reqs -> PC]
    BY <1>0, <1>3, MovesType DEF SetProduct, PC
  <2> QED  BY <1>3, <2>1, <2>2 DEF SetProduct, TypeOK, sockets, history
<1>4. CASE EmitConversationJoined(r)
  <2>1. pc' \in [Reqs -> PC]
    BY <1>0, <1>4, MovesType DEF EmitConversationJoined, PC
  <2>2. {s \in registered : UserOf[s] \in Pair[r]} \subseteq Sockets
    BY DEF TypeOK
  <2>3. room' \subseteq Sockets \X Pairs
    BY <1>0, <1>4, <2>2, JoinsType DEF EmitConversationJoined
  <2> QED  BY <1>4, <2>1, <2>3 DEF EmitConversationJoined, TypeOK, tables, history
<1> QED  BY <1>1, <1>2, <1>3, <1>4 DEF CreateConversation

\* The room of a message or a call, joined by the socket that sent it.
LEMMA JoinOneType ==
    ASSUME TypeOK, NEW r \in SocketReqs, NEW p \in Pairs, JoinsRoom({Socket[r]}, p),
           Goes(r, "done"), UNCHANGED <<tables, registered, connected, heard, history>>
    PROVE  TypeOK'
<1>1. r \in Reqs /\ {Socket[r]} \subseteq Sockets
  BY Typed DEF SocketReqs
<1>2. pc' \in [Reqs -> PC]
  BY <1>1, MovesType DEF PC
<1>3. room' \subseteq Sockets \X Pairs
  BY <1>1, JoinsType
<1> QED  BY <1>2, <1>3 DEF TypeOK, tables, history

LEMMA AssertType ==
    ASSUME TypeOK, NEW r \in Reqs, NEW p, NEW there \in PC, AssertParticipant(r, p, there)
    PROVE  TypeOK'
  BY RefusedType DEF AssertParticipant, Refused, PC

LEMMA JoinType ==
    ASSUME TypeOK, NEW r \in JoinReqs, JoinConversation(r) PROVE TypeOK'
<1>1. r \in Reqs /\ r \in SocketReqs /\ Pair[r] \in Pairs
  BY Typed DEF SocketReqs
<1>2. CASE AssertParticipant(r, Pair[r], "join")
  BY <1>1, <1>2, AssertType DEF PC
<1> QED  BY <1>1, <1>2, JoinOneType DEF JoinConversation

LEMMA SendType ==
    ASSUME TypeOK, NEW r \in SendReqs, SendMessage(r) PROVE TypeOK'
<1>0. /\ r \in Reqs /\ r \in SocketReqs /\ Pair[r] \in Pairs /\ Socket[r] \in Sockets
      /\ conversation \in [Pairs -> [there : BOOLEAN, product : Products \cup {None},
                                     last : SendReqs \cup {None}]]
  BY Typed DEF SocketReqs
<1>1. CASE AssertParticipant(r, Pair[r], "insert")
  BY <1>0, <1>1, AssertType DEF PC
<1>2. CASE InsertMessage(r)
  <2>1. pc' \in [Reqs -> PC]
    BY <1>0, <1>2, MovesType DEF InsertMessage, PC
  <2>2. messages' \in Seq(SendReqs)
    BY <1>2 DEF InsertMessage, TypeOK
  <2>3. audience' \in [SendReqs -> SUBSET Sockets] /\ after' \in [SendReqs -> SUBSET SendReqs]
    BY <1>2 DEF InsertMessage, TypeOK
  <2> QED  BY <1>2, <2>1, <2>2, <2>3 DEF InsertMessage, TypeOK, sockets
<1>3. CASE SetLastMessage(r)
  <2>1. pc' \in [Reqs -> PC]
    BY <1>0, <1>3, MovesType DEF SetLastMessage, PC
  <2>2. conversation' \in [Pairs -> [there : BOOLEAN, product : Products \cup {None},
                                     last : SendReqs \cup {None}]]
    BY <1>0, <1>3 DEF SetLastMessage, LastMessage
  <2> QED  BY <1>3, <2>1, <2>2 DEF SetLastMessage, TypeOK, sockets, history
<1>4. CASE /\ pc[r] = "emit" /\ JoinsRoom({Socket[r]}, Pair[r])
           /\ EmitsReceived(r, Pair[r]) /\ Goes(r, "done")
           /\ UNCHANGED <<tables, registered, connected, history>>
  <2>1. pc' \in [Reqs -> PC]
    BY <1>0, <1>4, MovesType DEF PC
  <2>2. room' \subseteq Sockets \X Pairs
    BY <1>0, <1>4, JoinsType
  <2>3. \A s \in Sockets : heard'[s] \in Seq(SendReqs)
    <3>1. \A s \in Sockets : heard[s] \in Seq(SendReqs) /\ Append(heard[s], r) \in Seq(SendReqs)
      BY DEF TypeOK
    <3> QED  BY <1>4, <3>1 DEF EmitsReceived
  <2> QED  BY <1>4, <2>1, <2>2, <2>3 DEF TypeOK, tables, history
<1> QED  BY <1>1, <1>2, <1>3, <1>4 DEF SendMessage

LEMMA ReadType ==
    ASSUME TypeOK, NEW r \in ReadReqs, MarkRead(r) PROVE TypeOK'
<1>0. r \in Reqs /\ r \in SocketReqs /\ Message[r] \in SendReqs /\ Pair[Message[r]] \in Pairs
  BY Typed DEF SocketReqs
<1>1. CASE SelectMessage(r)
  BY <1>0, <1>1, RefusedType DEF SelectMessage, Refused, PC
<1>2. CASE SetRead(r)
  <2>1. pc' \in [Reqs -> PC]
    BY <1>0, <1>2, MovesType DEF SetRead, PC
  <2>2. readBy' \in [SendReqs -> ReadReqs \cup {None}]
    BY <1>0, <1>2 DEF SetRead, Marked, TypeOK
  <2> QED  BY <1>2, <2>1, <2>2 DEF SetRead, TypeOK, sockets, history
<1> QED  BY <1>0, <1>1, <1>2, JoinOneType DEF MarkRead

LEMMA StepType == TypeOK /\ [Next]_vars => TypeOK'
<1> SUFFICES ASSUME TypeOK, [Next]_vars PROVE TypeOK'
  OBVIOUS
<1>1. ASSUME NEW r \in Reqs, StatementFails(r) PROVE TypeOK'
  BY <1>1, RefusedType DEF StatementFails, Refused, PC
<1>2. CASE UNCHANGED vars
  BY <1>2 DEF TypeOK, vars
<1> QED  BY <1>1, <1>2, SocketType, OpenType, JoinType, SendType, ReadType DEF Next

-----------------------------------------------------------------------------
(* What no step takes back *)

\* The steps of a call, whatever it is; the others stay where they are.
Step(r) ==
    \/ r \in OpenReqs /\ CreateConversation(r)
    \/ r \in JoinReqs /\ JoinConversation(r)
    \/ r \in SendReqs /\ SendMessage(r)
    \/ r \in ReadReqs /\ MarkRead(r)
    \/ StatementFails(r)

LEMMA NextIsStep ==
    Next => (\E s \in Sockets : Connect(s) \/ Disconnect(s)) \/ (\E r \in Reqs : Step(r))
  BY DEF Next, Step, Reqs

LEMMA StepMoves ==
    ASSUME TypeOK, NEW r \in Reqs, Step(r)
    PROVE  /\ pc[r] \notin {"unmade", "done", "failed"}
           /\ \A q \in Reqs \ {r} : pc'[q] = pc[q]
<1> USE DEF Goes, Refused
<1>0. pc \in [Reqs -> PC]
  BY Typed
<1>1. CASE CreateConversation(r)
  BY <1>0, <1>1 DEF CreateConversation, SelectConversation, InsertConversation, SetProduct,
                    EmitConversationJoined
<1>2. CASE JoinConversation(r)
  BY <1>0, <1>2 DEF JoinConversation, AssertParticipant
<1>3. CASE SendMessage(r)
  BY <1>0, <1>3 DEF SendMessage, AssertParticipant, InsertMessage, SetLastMessage
<1>4. CASE MarkRead(r)
  BY <1>0, <1>4 DEF MarkRead, SelectMessage, SetRead
<1>5. CASE StatementFails(r)
  BY <1>0, <1>5 DEF StatementFails
<1> QED  BY <1>1, <1>2, <1>3, <1>4, <1>5 DEF Step

\* Only the openings and the second statement of a message write conversations.
LEMMA ConversationsKept ==
    ASSUME NEW r, JoinConversation(r) \/ MarkRead(r) \/ StatementFails(r)
                  \/ (SendMessage(r) /\ ~SetLastMessage(r))
    PROVE  conversation' = conversation
<1> USE DEF Refused, tables
<1>1. CASE JoinConversation(r)
  BY <1>1 DEF JoinConversation, AssertParticipant
<1>2. CASE MarkRead(r)
  BY <1>2 DEF MarkRead, SelectMessage, SetRead
<1>3. CASE StatementFails(r)
  BY <1>3 DEF StatementFails
<1>4. CASE SendMessage(r) /\ ~SetLastMessage(r)
  BY <1>4 DEF SendMessage, AssertParticipant, InsertMessage
<1> QED  BY <1>1, <1>2, <1>3, <1>4

\* Only messages are inserted into messages.
LEMMA MessagesKept ==
    ASSUME NEW r, CreateConversation(r) \/ JoinConversation(r) \/ MarkRead(r) \/ StatementFails(r)
                  \/ (SendMessage(r) /\ ~InsertMessage(r))
    PROVE  UNCHANGED <<messages, history>>
<1> USE DEF Refused, tables
<1>1. CASE CreateConversation(r)
  BY <1>1 DEF CreateConversation, SelectConversation, InsertConversation, SetProduct,
              EmitConversationJoined
<1>2. CASE JoinConversation(r)
  BY <1>2 DEF JoinConversation, AssertParticipant
<1>3. CASE MarkRead(r)
  BY <1>3 DEF MarkRead, SelectMessage, SetRead
<1>4. CASE StatementFails(r)
  BY <1>4 DEF StatementFails
<1>5. CASE SendMessage(r) /\ ~InsertMessage(r)
  BY <1>5 DEF SendMessage, AssertParticipant, SetLastMessage
<1> QED  BY <1>1, <1>2, <1>3, <1>4, <1>5

\* Calls do not open and close sockets, and leave no room.
LEMMA SocketsKept ==
    ASSUME NEW r \in Reqs, Step(r)
    PROVE  UNCHANGED <<registered, connected>> /\ room \subseteq room'
<1> USE DEF Refused, sockets, JoinsRoom
<1>1. CASE CreateConversation(r)
  BY <1>1 DEF CreateConversation, SelectConversation, InsertConversation, SetProduct,
              EmitConversationJoined
<1>2. CASE JoinConversation(r)
  BY <1>2 DEF JoinConversation, AssertParticipant
<1>3. CASE SendMessage(r)
  BY <1>3 DEF SendMessage, AssertParticipant, InsertMessage, SetLastMessage
<1>4. CASE MarkRead(r)
  BY <1>4 DEF MarkRead, SelectMessage, SetRead
<1>5. CASE StatementFails(r)
  BY <1>5 DEF StatementFails
<1> QED  BY <1>1, <1>2, <1>3, <1>4, <1>5 DEF Step

\* Only messages are heard, by who is in their room by then.
LEMMA HeardKept ==
    ASSUME NEW r \in Reqs, Step(r)
    PROVE  \/ heard' = heard
           \/ /\ r \in SendReqs /\ pc[r] = "emit"
              /\ JoinsRoom({Socket[r]}, Pair[r]) /\ EmitsReceived(r, Pair[r]) /\ Goes(r, "done")
<1> USE DEF Refused, sockets
<1>1. CASE CreateConversation(r)
  BY <1>1 DEF CreateConversation, SelectConversation, InsertConversation, SetProduct,
              EmitConversationJoined
<1>2. CASE JoinConversation(r)
  BY <1>2 DEF JoinConversation, AssertParticipant
<1>3. CASE r \in SendReqs /\ SendMessage(r)
  BY <1>3 DEF SendMessage, AssertParticipant, InsertMessage, SetLastMessage
<1>4. CASE MarkRead(r)
  BY <1>4 DEF MarkRead, SelectMessage, SetRead
<1>5. CASE StatementFails(r)
  BY <1>5 DEF StatementFails
<1> QED  BY <1>1, <1>2, <1>3, <1>4, <1>5 DEF Step

LEMMA SocketMoves ==
    ASSUME TypeOK, NEW s \in Sockets, Connect(s) \/ Disconnect(s)
    PROVE  /\ UNCHANGED <<tables, heard, pc, history>>
           /\ \A t \in Sockets : /\ connected[t] # "new" => connected'[t] # "new"
                                 /\ connected[t] # "new" /\ connected'[t] = "up" =>
                                      connected[t] = "up" /\ t # s
           /\ \A x \in room : x[1] # s => x \in room'
  BY Typed DEF Connect, Disconnect

\* A conversation stays.
LEMMA ConversationsStay ==
    ASSUME TypeOK, NEW r \in Reqs, Step(r), NEW p \in Pairs, conversation[p].there
    PROVE  conversation'[p].there
<1>0. conversation \in [Pairs -> [there : BOOLEAN, product : Products \cup {None},
                                  last : SendReqs \cup {None}]]
  BY Typed
<1>1. CASE r \in OpenReqs /\ CreateConversation(r)
  <2>1. CASE InsertConversation(r)
    BY <1>0, <2>1 DEF InsertConversation, Taken, NoRow, Refused, tables
  <2>2. CASE SetProduct(r)
    BY <1>0, <2>2 DEF SetProduct
  <2> QED  BY <1>1, <2>1, <2>2 DEF CreateConversation, SelectConversation,
                                   EmitConversationJoined, tables
<1>2. CASE r \in SendReqs /\ SetLastMessage(r)
  BY <1>0, <1>2 DEF SetLastMessage
<1> QED  BY <1>1, <1>2, ConversationsKept DEF Step

-----------------------------------------------------------------------------
(* Conversations and who is admitted to them *)

LEMMA RowsStep ==
    ASSUME ChatInv, NEW r \in Reqs, Step(r) PROVE RowsAreWhole'
<1>0. /\ conversation \in [Pairs -> [there : BOOLEAN, product : Products \cup {None},
                                     last : SendReqs \cup {None}]]
      /\ \A c \in OpenReqs \cup SendReqs : Pair[c] \in Pairs
  BY Typed DEF ChatInv
<1>1. CASE r \in OpenReqs /\ CreateConversation(r)
  <2>1. CASE InsertConversation(r)
    BY <1>0, <1>1, <2>1 DEF InsertConversation, NoRow, Refused, tables, ChatInv, RowsAreWhole
  <2>2. CASE SetProduct(r)
    <3>1. conversation[Pair[r]].there
      BY <1>1, <2>2 DEF SetProduct, ChatInv, Admitted
    <3> QED  BY <1>0, <1>1, <2>2, <3>1 DEF SetProduct, ChatInv, RowsAreWhole
  <2> QED  BY <1>1, <2>1, <2>2 DEF CreateConversation, SelectConversation,
                                   EmitConversationJoined, tables, ChatInv, RowsAreWhole
<1>2. CASE r \in SendReqs /\ SetLastMessage(r)
  <2>1. conversation[Pair[r]].there
    BY <1>2 DEF SetLastMessage, ChatInv, Admitted, Participant
  <2> QED  BY <1>0, <1>2, <2>1 DEF SetLastMessage, ChatInv, RowsAreWhole
<1> QED  BY <1>1, <1>2, ConversationsKept DEF Step, ChatInv, RowsAreWhole

\* Where a call goes, it is admitted.
LEMMA AdmittedMoves ==
    ASSUME ChatInv, NEW r \in Reqs, Step(r)
    PROVE  /\ r \in OpenReqs /\ pc'[r] \in {"context", "announce"} => conversation'[Pair[r]].there
           /\ r \in JoinReqs /\ pc'[r] = "join" => Caller(r) \in Pair[r] /\ conversation'[Pair[r]].there
           /\ r \in SendReqs /\ pc'[r] \in {"insert", "last", "emit", "done"} =>
                /\ Caller(r) \in Pair[r] /\ conversation'[Pair[r]].there
                /\ connected[Socket[r]] # "new"
           /\ r \in ReadReqs /\ pc'[r] \in {"update", "emit"} =>
                /\ Caller(r) \in Pair[Message[r]] /\ conversation'[Pair[Message[r]]].there
                /\ Recipient(r)
<1>0. /\ conversation \in [Pairs -> [there : BOOLEAN, product : Products \cup {None},
                                     last : SendReqs \cup {None}]]
      /\ \A c \in OpenReqs \cup JoinReqs \cup SendReqs : Pair[c] \in Pairs
      /\ \A c \in ReadReqs : Message[c] \in SendReqs
      /\ pc \in [Reqs -> PC]
      /\ OpenReqs \cap SocketReqs = {} /\ JoinReqs \cap (SendReqs \cup ReadReqs) = {}
      /\ SendReqs \cap ReadReqs = {}
  BY Typed, ChatAssumption DEF ChatInv
<1> USE DEF Goes
<1>s. \A p \in Pairs : conversation[p].there => conversation'[p].there
  BY ConversationsStay DEF ChatInv
<1>1. CASE r \in OpenReqs /\ CreateConversation(r)
  <2>1. CASE SelectConversation(r) /\ pc'[r] # "insert"
    <3>1. conversation[Pair[r]].there
      BY <2>1, <1>0, <1>1 DEF SelectConversation
    <3> QED  BY <3>1, <1>0, <1>1, <1>s DEF SocketReqs
  <2>2. CASE InsertConversation(r) /\ pc'[r] # "failed"
    <3>1. [NoRow EXCEPT !.there = TRUE, !.product = Product[r]].there
      BY DEF NoRow
    <3>2. conversation' = [conversation EXCEPT ![Pair[r]] =
                              [NoRow EXCEPT !.there = TRUE, !.product = Product[r]]]
      BY <2>2, <1>0 DEF InsertConversation, Refused
    <3>3. conversation'[Pair[r]].there
      BY <3>1, <3>2, <1>0, <1>1
    <3> QED  BY <3>3, <1>0, <1>1 DEF SocketReqs
  <2>3. CASE SetProduct(r)
    <3>1. conversation'[Pair[r]].there
      BY <2>3, <1>0, <1>1, <1>s DEF SetProduct, ChatInv, Admitted
    <3> QED  BY <3>1, <1>0, <1>1 DEF SocketReqs
  <2>4. CASE EmitConversationJoined(r)
    BY <2>4, <1>0, <1>1 DEF EmitConversationJoined, SocketReqs
  <2>5. r \notin SocketReqs
    BY <1>0, <1>1
  <2> QED  BY <1>0, <1>1, <2>1, <2>2, <2>3, <2>4, <2>5 DEF CreateConversation, SocketReqs
<1>2. CASE r \in JoinReqs /\ JoinConversation(r)
  <2>1. r \notin OpenReqs \cup SendReqs \cup ReadReqs
    BY <1>0, <1>2 DEF SocketReqs
  <2>2. pc'[r] = "join" => Participant(r, Pair[r])
    BY <1>0, <1>2 DEF JoinConversation, AssertParticipant, Refused
  <2> QED  BY <1>0, <1>2, <1>s, <2>1, <2>2 DEF Participant
<1>3. CASE r \in SendReqs /\ SendMessage(r)
  <2>1. r \notin OpenReqs \cup JoinReqs \cup ReadReqs
    BY <1>0, <1>3 DEF SocketReqs
  <2>2. CASE AssertParticipant(r, Pair[r], "insert")
    BY <2>2, <2>1, <1>0, <1>3, <1>s DEF AssertParticipant, Refused, Participant
  <2>3. CASE pc[r] \in {"insert", "last", "emit"}
    BY <2>3, <2>1, <1>0, <1>3, <1>s DEF ChatInv, Admitted, Participant
  <2> QED  BY <1>3, <2>2, <2>3 DEF SendMessage, InsertMessage, SetLastMessage
<1>4. CASE r \in ReadReqs /\ MarkRead(r)
  <2>1. r \notin OpenReqs \cup JoinReqs \cup SendReqs /\ Pair[Message[r]] \in Pairs
    BY <1>0, <1>4 DEF SocketReqs
  <2>2. CASE SelectMessage(r)
    BY <2>2, <2>1, <1>0, <1>4, <1>s DEF SelectMessage, Refused, Participant
  <2>3. CASE pc[r] \in {"update", "emit"}
    BY <2>3, <2>1, <1>0, <1>4, <1>s DEF ChatInv, Admitted, Participant
  <2> QED  BY <1>4, <2>2, <2>3 DEF MarkRead, SetRead
<1>5. CASE StatementFails(r)
  BY <1>5, <1>0 DEF StatementFails, Refused
<1> QED  BY <1>1, <1>2, <1>3, <1>4, <1>5 DEF Step

LEMMA AdmittedStep ==
    ASSUME ChatInv, NEW r \in Reqs, Step(r) PROVE Admitted'
<1>0. /\ \A c \in OpenReqs \cup JoinReqs \cup SendReqs : Pair[c] \in Pairs
      /\ \A c \in ReadReqs : Message[c] \in SendReqs
      /\ OpenReqs \subseteq Reqs /\ JoinReqs \subseteq Reqs
      /\ SendReqs \subseteq Reqs /\ ReadReqs \subseteq Reqs
  BY Typed DEF ChatInv
<1>1. \A q \in Reqs \ {r} : pc'[q] = pc[q]
  BY StepMoves DEF ChatInv
<1>2. \A p \in Pairs : conversation[p].there => conversation'[p].there
  BY ConversationsStay DEF ChatInv
<1>3. connected' = connected
  BY SocketsKept
<1>4. \A c \in OpenReqs : pc'[c] \in {"context", "announce"} => conversation'[Pair[c]].there
  BY <1>0, <1>1, <1>2, AdmittedMoves DEF ChatInv, Admitted
<1>5. \A c \in JoinReqs : pc'[c] = "join" => Participant(c, Pair[c])'
  BY <1>0, <1>1, <1>2, AdmittedMoves DEF ChatInv, Admitted, Participant
<1>6. \A c \in SendReqs : pc'[c] \in {"insert", "last", "emit", "done"} =>
        Participant(c, Pair[c])' /\ connected'[Socket[c]] # "new"
  BY <1>0, <1>1, <1>2, <1>3, AdmittedMoves DEF ChatInv, Admitted, Participant
<1>7. \A c \in ReadReqs : pc'[c] \in {"update", "emit"} =>
        Participant(c, Pair[Message[c]])' /\ Recipient(c)
  BY <1>0, <1>1, <1>2, AdmittedMoves DEF ChatInv, Admitted, Participant
<1> QED  BY <1>4, <1>5, <1>6, <1>7 DEF Admitted

-----------------------------------------------------------------------------
(* Rooms *)

\* Who joins a room is a live socket of a user of its conversation.
LEMMA RoomGrows ==
    ASSUME ChatInv, NEW r \in Reqs, Step(r), NEW x \in room' \ room
    PROVE  connected[x[1]] = "up" /\ UserOf[x[1]] \in x[2] /\ conversation[x[2]].there
<1> USE DEF Refused, sockets, JoinsRoom
<1>1. CASE r \in OpenReqs /\ CreateConversation(r)
  <2>1. EmitConversationJoined(r)
    BY <1>1 DEF CreateConversation, SelectConversation, InsertConversation, SetProduct
  <2>2. conversation[Pair[r]].there
    BY <1>1, <2>1 DEF EmitConversationJoined, ChatInv, Admitted
  <2> QED  BY <2>1, <2>2 DEF EmitConversationJoined
<1>2. CASE r \in JoinReqs /\ JoinConversation(r)
  <2>1. pc[r] = "join" /\ JoinsRoom({Socket[r]}, Pair[r])
    BY <1>2 DEF JoinConversation, AssertParticipant
  <2>2. Participant(r, Pair[r])
    BY <1>2, <2>1 DEF ChatInv, Admitted
  <2> QED  BY <2>1, <2>2 DEF Participant, Caller
<1>3. CASE r \in SendReqs /\ SendMessage(r)
  <2>1. pc[r] = "emit" /\ JoinsRoom({Socket[r]}, Pair[r])
    BY <1>3 DEF SendMessage, AssertParticipant, InsertMessage, SetLastMessage
  <2>2. Participant(r, Pair[r])
    BY <1>3, <2>1 DEF ChatInv, Admitted
  <2> QED  BY <2>1, <2>2 DEF Participant, Caller
<1>4. CASE r \in ReadReqs /\ MarkRead(r)
  <2>1. pc[r] = "emit" /\ JoinsRoom({Socket[r]}, Pair[Message[r]])
    BY <1>4 DEF MarkRead, SelectMessage, SetRead
  <2>2. Participant(r, Pair[Message[r]])
    BY <1>4, <2>1 DEF ChatInv, Admitted
  <2> QED  BY <2>1, <2>2 DEF Participant, Caller
<1>5. CASE StatementFails(r)
  BY <1>5 DEF StatementFails
<1> QED  BY <1>1, <1>2, <1>3, <1>4, <1>5 DEF Step

LEMMA RoomsStep ==
    ASSUME ChatInv, NEW r \in Reqs, Step(r) PROVE RoomsHoldParticipants'
<1>1. UNCHANGED <<registered, connected>>
  BY SocketsKept
<1>2. \A p \in Pairs : conversation[p].there => conversation'[p].there
  BY ConversationsStay DEF ChatInv
<1>3. room' \subseteq Sockets \X Pairs
  BY StepType, NextIsStep DEF ChatInv, TypeOK, Next, Step, Reqs
<1>4. ASSUME NEW x \in room'
      PROVE  connected'[x[1]] = "up" /\ UserOf[x[1]] \in x[2] /\ conversation'[x[2]].there
  BY <1>1, <1>2, <1>3, <1>4, RoomGrows DEF ChatInv, RoomsHoldParticipants
<1> QED  BY <1>1, <1>4 DEF ChatInv, RoomsHoldParticipants

LEMMA RoomsSockets ==
    ASSUME ChatInv, NEW s \in Sockets, Connect(s) \/ Disconnect(s) PROVE RoomsHoldParticipants'
<1>0. connected \in [Sockets -> {"new", "up", "down"}] /\ room \subseteq Sockets \X Pairs
  BY Typed DEF ChatInv
<1>1. CASE Connect(s)
  BY <1>0, <1>1 DEF Connect, ChatInv, RoomsHoldParticipants, tables
<1>2. CASE Disconnect(s)
  BY <1>0, <1>2 DEF Disconnect, ChatInv, RoomsHoldParticipants, tables
<1> QED  BY <1>1, <1>2

-----------------------------------------------------------------------------
(* Who hears a message *)

LEMMA AdmittedSockets ==
    ASSUME ChatInv, NEW s \in Sockets, Connect(s) \/ Disconnect(s)
    PROVE  RowsAreWhole' /\ Admitted' /\ Ordered' /\ LastMessageIsRecent'
<1>1. /\ UNCHANGED <<tables, pc, history>>
      /\ \A t \in Sockets : connected[t] # "new" => connected'[t] # "new"
      /\ \A r \in SendReqs : Socket[r] \in Sockets
  BY SocketMoves, Typed DEF ChatInv, SocketReqs
<1> USE <1>1 DEF ChatInv, tables, history
<1>2. RowsAreWhole'
  BY DEF RowsAreWhole
<1>3. Admitted'
  BY DEF Admitted, Participant
<1>4. Ordered' /\ LastMessageIsRecent'
  BY DEF Ordered, Stored, LastMessageIsRecent
<1> QED  BY <1>2, <1>3, <1>4

LEMMA ListeningSockets ==
    ASSUME ChatInv, NEW s \in Sockets, Connect(s) \/ Disconnect(s)
    PROVE  Listening' /\ HeardByTheRoom'
<1>0. /\ audience \in [SendReqs -> SUBSET Sockets]
      /\ \A r \in SendReqs : Socket[r] \in Sockets /\ Pair[r] \in Pairs
  BY Typed DEF ChatInv, SocketReqs
<1>1. /\ UNCHANGED <<heard, pc, audience>>
      /\ \A t \in Sockets : /\ connected[t] # "new" => connected'[t] # "new"
                            /\ connected[t] # "new" /\ connected'[t] = "up" =>
                                 connected[t] = "up" /\ t # s
      /\ \A x \in room : x[1] # s => x \in room'
  BY SocketMoves DEF ChatInv, history
<1>2. Listening'
  BY <1>0, <1>1 DEF ChatInv, Listening
<1>3. HeardByTheRoom'
  <2>1. ASSUME NEW r \in SendReqs, pc[r] = "done", NEW t \in audience[r] \cup {Socket[r]},
               connected'[t] = "up"
        PROVE  \E n \in DOMAIN heard[t] : heard[t][n] = r
    <3>1. t \in Sockets /\ connected[t] # "new"
      BY <2>1, <1>0 DEF ChatInv, Listening, Admitted
    <3>2. connected[t] = "up"
      BY <3>1, <2>1, <1>1
    <3> QED  BY <2>1, <3>2 DEF ChatInv, HeardByTheRoom
  <2> QED  BY <2>1, <1>1 DEF ChatInv, HeardByTheRoom
<1> QED  BY <1>2, <1>3

\* A message that is stored: its audience is the room.
LEMMA InsertListening ==
    ASSUME ChatInv, NEW r \in SendReqs, InsertMessage(r) PROVE Listening' /\ HeardByTheRoom'
<1>0. /\ audience \in [SendReqs -> SUBSET Sockets] /\ pc \in [Reqs -> PC] /\ SendReqs \subseteq Reqs
      /\ UNCHANGED <<connected, room, heard>>
      /\ \A s \in Sockets : heard[s] \in Seq(SendReqs)
  BY Typed DEF ChatInv, InsertMessage, sockets
<1>1. /\ audience'[r] = {s \in Sockets : <<s, Pair[r]>> \in room}
      /\ \A q \in SendReqs \ {r} : audience'[q] = audience[q] /\ pc'[q] = pc[q]
      /\ pc[r] = "insert" /\ pc'[r] = "last"
  BY <1>0 DEF InsertMessage, Goes
<1>2. \A s \in audience'[r] : connected[s] = "up" /\ <<s, Pair[r]>> \in room
  BY <1>1 DEF ChatInv, RoomsHoldParticipants
<1>3. \A s \in Sockets : \A n \in DOMAIN heard[s] : heard[s][n] \in SendReqs
  BY <1>0
<1>4. Listening'
  BY <1>0, <1>1, <1>2, <1>3, ZenonT(60) DEF ChatInv, Listening
<1>5. HeardByTheRoom'
  BY <1>0, <1>1 DEF ChatInv, HeardByTheRoom
<1> QED  BY <1>4, <1>5

\* A message that is announced reaches the room, the sender has joined it.
LEMMA EmitListening ==
    ASSUME ChatInv, RoomsHoldParticipants', NEW r \in SendReqs, pc[r] = "emit",
           JoinsRoom({Socket[r]}, Pair[r]), EmitsReceived(r, Pair[r]), Goes(r, "done"),
           UNCHANGED <<tables, registered, connected, history>>
    PROVE  Listening' /\ HeardByTheRoom'
<1>0. /\ audience \in [SendReqs -> SUBSET Sockets] /\ pc \in [Reqs -> PC] /\ SendReqs \subseteq Reqs
      /\ audience' = audience /\ \A s \in Sockets : heard[s] \in Seq(SendReqs)
      /\ room \subseteq room' /\ Socket[r] \in Sockets
  BY Typed DEF ChatInv, history, JoinsRoom, SocketReqs
<1>1. pc'[r] = "done" /\ \A q \in Reqs \ {r} : pc'[q] = pc[q]
  BY <1>0 DEF Goes
<1>2. \A s \in Sockets : heard'[s] = IF <<s, Pair[r]>> \in room'
                                     THEN Append(heard[s], r) ELSE heard[s]
  BY DEF EmitsReceived
<1>3. ASSUME NEW s \in Sockets
      PROVE  /\ DOMAIN heard[s] = 1 .. Len(heard[s]) /\ Len(heard[s]) \in Nat
             /\ \A n \in DOMAIN heard[s] : heard[s][n] \in SendReqs /\ heard[s][n] # r
  BY <1>0 DEF ChatInv, Listening
<1>4. ASSUME NEW s \in Sockets, <<s, Pair[r]>> \in room'
      PROVE  /\ DOMAIN heard'[s] = 1 .. Len(heard[s]) + 1
             /\ heard'[s][Len(heard[s]) + 1] = r
             /\ \A n \in DOMAIN heard[s] : heard'[s][n] = heard[s][n]
  <2>1. heard'[s] = Append(heard[s], r) /\ heard[s] \in Seq(SendReqs)
    BY <1>0, <1>2, <1>4
  <2> QED  BY <2>1
<1>5. Listening'
  <2>1. ASSUME NEW s \in Sockets, NEW n \in DOMAIN heard'[s] PROVE pc'[heard'[s][n]] = "done"
    <3>1. CASE <<s, Pair[r]>> \in room'
      BY <3>1, <2>1, <1>0, <1>1, <1>3, <1>4, SMTT(30) DEF ChatInv, Listening
    <3>2. CASE <<s, Pair[r]>> \notin room'
      BY <3>2, <2>1, <1>0, <1>1, <1>2, <1>3 DEF ChatInv, Listening
    <3> QED  BY <3>1, <3>2
  <2> QED  BY <2>1, <1>0, <1>1 DEF ChatInv, Listening
<1>6. ASSUME NEW q \in SendReqs, pc'[q] = "done", NEW s \in audience[q] \cup {Socket[q]},
             connected[s] = "up"
      PROVE  \E n \in DOMAIN heard'[s] : heard'[s][n] = q
  <2>0. s \in Sockets
    BY <1>0, <1>6, Typed DEF SocketReqs, ChatInv
  <2>1. CASE q = r
    <3>1. <<s, Pair[r]>> \in room'
      <4>1. CASE s = Socket[r]
        BY <4>1, <1>6 DEF JoinsRoom
      <4>2. CASE s \in audience[r]
        BY <4>2, <1>0, <1>6 DEF ChatInv, Listening
      <4> QED  BY <4>1, <4>2, <1>6, <2>1
    <3> QED  BY <3>1, <2>0, <2>1, <1>3, <1>4
  <2>2. CASE q # r
    <3>1. PICK n \in DOMAIN heard[s] : heard[s][n] = q
      BY <2>2, <1>0, <1>1, <1>6 DEF ChatInv, HeardByTheRoom
    <3>2. CASE <<s, Pair[r]>> \in room'
      BY <3>1, <3>2, <2>0, <1>3, <1>4
    <3>3. CASE <<s, Pair[r]>> \notin room'
      BY <3>1, <3>3, <2>0, <1>2
    <3> QED  BY <3>2, <3>3
  <2> QED  BY <2>1, <2>2
<1>7. ASSUME NEW s \in Sockets, NEW m \in DOMAIN heard'[s], NEW n \in DOMAIN heard'[s]
      PROVE  UserOf[s] \in Pair[heard'[s][m]] /\ (heard'[s][m] = heard'[s][n] => m = n)
  <2>1. CASE <<s, Pair[r]>> \notin room'
    BY <2>1, <1>2, <1>7 DEF ChatInv, HeardByTheRoom
  <2>2. CASE <<s, Pair[r]>> \in room'
    <3>1. UserOf[s] \in Pair[r]
      BY <2>2 DEF RoomsHoldParticipants
    <3>2. UserOf[s] \in Pair[heard'[s][m]]
      BY <3>1, <2>2, <1>3, <1>4, <1>7 DEF ChatInv, HeardByTheRoom
    <3>3. heard'[s][m] = heard'[s][n] => m = n
      BY <2>2, <1>3, <1>4, <1>7 DEF ChatInv, HeardByTheRoom
    <3> QED  BY <3>2, <3>3
  <2> QED  BY <2>1, <2>2
<1> QED  BY <1>5, <1>6, <1>7, <1>0 DEF HeardByTheRoom

LEMMA ListeningStep ==
    ASSUME ChatInv, RoomsHoldParticipants', NEW r \in Reqs, Step(r)
    PROVE  Listening' /\ HeardByTheRoom'
<1>0. /\ \A q \in Reqs \ {r} : pc'[q] = pc[q]
      /\ pc[r] # "done" /\ connected' = connected /\ room \subseteq room'
      /\ SendReqs \subseteq Reqs /\ pc \in [Reqs -> PC]
      /\ SendReqs \cap (OpenReqs \cup JoinReqs \cup ReadReqs) = {}
      /\ \A s \in Sockets : \A n \in DOMAIN heard[s] : heard[s][n] \in SendReqs
  BY StepMoves, SocketsKept, Typed, ChatAssumption DEF ChatInv, SocketReqs
<1>1. CASE r \in SendReqs /\ InsertMessage(r)
  BY <1>1, InsertListening
<1>2. CASE heard' # heard
  <2>1. /\ r \in SendReqs /\ pc[r] = "emit"
        /\ JoinsRoom({Socket[r]}, Pair[r]) /\ EmitsReceived(r, Pair[r]) /\ Goes(r, "done")
    BY <1>2, HeardKept
  <2>2. SendMessage(r)
    BY <1>0, <1>2, <2>1 DEF Step, StatementFails, Refused, sockets
  <2>3. UNCHANGED <<tables, registered, connected, history>>
    BY <2>1, <2>2 DEF SendMessage, AssertParticipant, InsertMessage, SetLastMessage
  <2> QED  BY <2>1, <2>3, EmitListening
<1>3. CASE heard' = heard /\ ~(r \in SendReqs /\ InsertMessage(r))
  <2>1. audience' = audience
    BY <1>3, MessagesKept DEF Step, history
  <2>2. r \in SendReqs => pc'[r] \in {"insert", "failed"} \/ (pc[r] = "last" /\ pc'[r] = "emit")
                          \/ (pc[r] = "emit" /\ EmitsReceived(r, Pair[r]) /\ JoinsRoom({Socket[r]}, Pair[r])
                              /\ Goes(r, "done") /\ UNCHANGED <<tables, registered, connected, history>>)
    BY <1>0, <1>3 DEF Step, SendMessage, AssertParticipant, SetLastMessage, StatementFails,
                      Refused, Goes
  <2>3. CASE r \in SendReqs /\ pc[r] = "emit" /\ EmitsReceived(r, Pair[r])
                            /\ JoinsRoom({Socket[r]}, Pair[r]) /\ Goes(r, "done")
                            /\ UNCHANGED <<tables, registered, connected, history>>
    BY <2>3, EmitListening
  <2>4. CASE r \in SendReqs => pc'[r] \in {"insert", "failed"} \/ (pc[r] = "last" /\ pc'[r] = "emit")
    <3>1. Listening'
      BY <1>0, <1>3, <2>1, <2>4 DEF ChatInv, Listening
    <3>2. HeardByTheRoom'
      BY <1>0, <1>3, <2>1, <2>4 DEF ChatInv, HeardByTheRoom
    <3> QED  BY <3>1, <3>2
  <2> QED  BY <2>2, <2>3, <2>4
<1> QED  BY <1>1, <1>2, <1>3

-----------------------------------------------------------------------------
(* The last message *)

\* A step that writes no last message and stores none.
LEMMA OrderedKept ==
    ASSUME ChatInv, NEW r \in Reqs, Step(r), UNCHANGED <<messages, after>>,
           r \in SendReqs => pc'[r] \in {"insert", "failed"} \/ (pc[r] = "emit" /\ pc'[r] = "done"),
           \A p \in Pairs : conversation'[p].last = conversation[p].last
    PROVE  Ordered' /\ LastMessageIsRecent'
<1>0. /\ \A q \in Reqs \ {r} : pc'[q] = pc[q]
      /\ pc[r] # "done" /\ SendReqs \subseteq Reqs /\ after \in [SendReqs -> SUBSET SendReqs]
      /\ \A q \in SendReqs : Pair[q] \in Pairs
  BY StepMoves, Typed DEF ChatInv
<1>1. Ordered'
  BY <1>0 DEF ChatInv, Ordered, Stored
<1>2. LastMessageIsRecent'
  BY <1>0 DEF ChatInv, LastMessageIsRecent, Ordered
<1> QED  BY <1>1, <1>2

LEMMA InsertOrdered ==
    ASSUME ChatInv, NEW r \in SendReqs, InsertMessage(r) PROVE Ordered' /\ LastMessageIsRecent'
<1>0. /\ pc \in [Reqs -> PC] /\ SendReqs \subseteq Reqs
      /\ after \in [SendReqs -> SUBSET SendReqs] /\ messages \in Seq(SendReqs)
      /\ \A q \in SendReqs : Pair[q] \in Pairs
  BY Typed DEF ChatInv
<1>1. /\ pc[r] = "insert" /\ pc'[r] = "last" /\ \A q \in Reqs \ {r} : pc'[q] = pc[q]
      /\ after'[r] = {q \in SendReqs : pc[q] = "done"}
      /\ \A q \in SendReqs \ {r} : after'[q] = after[q]
      /\ UNCHANGED conversation /\ messages' = Append(messages, r)
  BY <1>0 DEF InsertMessage, Goes
<1>2. Stored(r)'
  <2>1. Len(messages) + 1 \in DOMAIN messages' /\ messages'[Len(messages) + 1] = r
    BY <1>0, <1>1
  <2> QED  BY <2>1 DEF Stored
<1>3. ASSUME NEW q \in SendReqs, Stored(q) PROVE Stored(q)'
  <2>1. PICK n \in DOMAIN messages : messages[n] = q
    BY <1>3 DEF Stored
  <2>2. n \in DOMAIN messages' /\ messages'[n] = q
    BY <1>0, <1>1, <2>1
  <2> QED  BY <2>2 DEF Stored
<1>4. Ordered'
  BY <1>0, <1>1, <1>2, <1>3 DEF ChatInv, Ordered
<1>5. LastMessageIsRecent'
  <2>1. ASSUME NEW p \in Pairs, conversation[p].last # None
        PROVE  \E n \in DOMAIN messages' : messages'[n] = conversation[p].last
    <3>1. PICK q \in SendReqs : q = conversation[p].last
      BY <2>1, Typed DEF ChatInv
    <3>2. Stored(q)
      BY <3>1, <2>1 DEF ChatInv, LastMessageIsRecent, Stored
    <3>3. Stored(q)'
      BY <3>2, <1>3
    <3> QED  BY <3>1, <3>3 DEF Stored
  <2>2. conversation' = conversation
    BY <1>1
  <2>3. \A q \in SendReqs : pc'[q] = "done" => pc[q] = "done" /\ after'[q] = after[q]
    BY <1>0, <1>1
  <2> QED  BY <2>1, <2>2, <2>3 DEF ChatInv, LastMessageIsRecent
<1> QED  BY <1>4, <1>5

LEMMA LastOrdered ==
    ASSUME ChatInv, NEW r \in SendReqs, SetLastMessage(r) PROVE Ordered' /\ LastMessageIsRecent'
<1>0. /\ pc \in [Reqs -> PC] /\ SendReqs \subseteq Reqs
      /\ after \in [SendReqs -> SUBSET SendReqs]
      /\ \A q \in SendReqs : Pair[q] \in Pairs
      /\ conversation \in [Pairs -> [there : BOOLEAN, product : Products \cup {None},
                                     last : SendReqs \cup {None}]]
      /\ None \notin SendReqs
  BY Typed DEF ChatInv
<1>1. /\ pc[r] = "last" /\ pc'[r] = "emit" /\ \A q \in Reqs \ {r} : pc'[q] = pc[q]
      /\ UNCHANGED <<after, messages>>
  BY <1>0 DEF SetLastMessage, Goes, history
<1>2. /\ conversation'[Pair[r]].last = r
      /\ \A p \in Pairs \ {Pair[r]} : conversation'[p] = conversation[p]
  BY <1>0 DEF SetLastMessage, LastMessage
<1>3. \A q \in SendReqs : r \notin after[q]
  BY <1>1 DEF ChatInv, Ordered
<1>4. Stored(r)
  BY <1>1 DEF ChatInv, Ordered
<1>5. Ordered'
  BY <1>0, <1>1, <1>2, <1>3 DEF ChatInv, Ordered, Stored
<1>6. LastMessageIsRecent'
  BY <1>0, <1>1, <1>2, <1>3, <1>4 DEF ChatInv, LastMessageIsRecent, Stored
<1> QED  BY <1>5, <1>6

\* A conversation that is opened had no answered message.
LEMMA OpenOrdered ==
    ASSUME ChatInv, NEW r \in OpenReqs, InsertConversation(r), ~Refused(r)
    PROVE  \A p \in Pairs : conversation'[p].last = conversation[p].last
<1>1. /\ ~conversation[Pair[r]].there
      /\ conversation' = [conversation EXCEPT ![Pair[r]] =
                            [NoRow EXCEPT !.there = TRUE, !.product = Product[r]]]
  BY DEF InsertConversation, Taken
<1>2. [NoRow EXCEPT !.there = TRUE, !.product = Product[r]].last = None
  BY DEF NoRow
<1>3. conversation[Pair[r]].last = None
  BY <1>1, Typed DEF ChatInv, RowsAreWhole, NoRow
<1> QED  BY <1>1, <1>2, <1>3, Typed DEF ChatInv

LEMMA OrderedStep ==
    ASSUME ChatInv, NEW r \in Reqs, Step(r) PROVE Ordered' /\ LastMessageIsRecent'
<1>0. /\ pc \in [Reqs -> PC] /\ pc[r] # "done"
      /\ SendReqs \cap (OpenReqs \cup JoinReqs \cup ReadReqs) = {}
      /\ conversation \in [Pairs -> [there : BOOLEAN, product : Products \cup {None},
                                     last : SendReqs \cup {None}]]
      /\ \A q \in OpenReqs : Pair[q] \in Pairs
  BY StepMoves, Typed, ChatAssumption DEF ChatInv, SocketReqs
<1>1. CASE r \in SendReqs /\ InsertMessage(r)
  BY <1>1, InsertOrdered
<1>2. CASE r \in SendReqs /\ SetLastMessage(r)
  BY <1>2, LastOrdered
<1>3. CASE ~(r \in SendReqs /\ (InsertMessage(r) \/ SetLastMessage(r)))
  <2>1. UNCHANGED <<messages, after>>
    BY <1>3, MessagesKept DEF Step, history
  <2>2. r \in SendReqs => pc'[r] \in {"insert", "failed"} \/ (pc[r] = "emit" /\ pc'[r] = "done")
    BY <1>0, <1>3 DEF Step, SendMessage, AssertParticipant, StatementFails, Refused, Goes
  <2>3. \A p \in Pairs : conversation'[p].last = conversation[p].last
    <3>1. CASE r \in OpenReqs /\ InsertConversation(r)
      BY <3>1, OpenOrdered DEF Refused, tables
    <3>2. CASE r \in OpenReqs /\ SetProduct(r)
      BY <3>2, <1>0 DEF SetProduct
    <3>3. CASE ~(r \in OpenReqs /\ (InsertConversation(r) \/ SetProduct(r)))
      BY <1>3, <3>3, ConversationsKept DEF Step, CreateConversation, SelectConversation,
                                           EmitConversationJoined, tables
    <3> QED  BY <3>1, <3>2, <3>3
  <2> QED  BY <2>1, <2>2, <2>3, OrderedKept
<1> QED  BY <1>1, <1>2, <1>3

-----------------------------------------------------------------------------
(* All together *)

LEMMA InitInv == Init => ChatInv
<1> SUFFICES ASSUME Init PROVE ChatInv
  OBVIOUS
<1>0. /\ \A r \in Reqs : pc[r] \in {"new", "unmade"}
      /\ \A s \in Sockets : heard[s] = <<>> /\ connected[s] = "new"
      /\ messages = <<>> /\ room = {} /\ registered = {} /\ after = [r \in SendReqs |-> {}]
  BY DEF Init
<1>1. OpenReqs \cup SocketReqs = Reqs
  BY DEF Reqs, SocketReqs
<1>2. RowsAreWhole /\ \A p \in Pairs : conversation[p].last = None
  <2>1. PICK old \in SUBSET Pairs :
          conversation = [p \in Pairs |-> [NoRow EXCEPT !.there = p \in old]]
    BY DEF Init
  <2>2. [NoRow EXCEPT !.there = FALSE] = NoRow
    <3>1. ASSUME NEW b \in BOOLEAN
          PROVE  [NoRow EXCEPT !.there = b] = [there |-> b, product |-> None, last |-> None]
      BY DEF NoRow
    <3> QED  BY <3>1 DEF NoRow
  <2>3. ASSUME NEW b \in BOOLEAN
        PROVE  [NoRow EXCEPT !.there = b].there = b /\ [NoRow EXCEPT !.there = b].last = None
    BY DEF NoRow
  <2>4. ASSUME NEW p \in Pairs
        PROVE  (~conversation[p].there => conversation[p] = NoRow) /\ conversation[p].last = None
    <3>1. CASE p \in old
      <4>1. conversation[p] = [NoRow EXCEPT !.there = TRUE]
        BY <2>1, <3>1
      <4> QED  BY <4>1, <2>3
    <3>2. CASE p \notin old
      <4>0. (p \in old) = FALSE
        BY <3>2
      <4>1. conversation[p] = [NoRow EXCEPT !.there = FALSE]
        BY <2>1, <4>0
      <4> QED  BY <4>1, <2>2, <2>3
    <3> QED  BY <3>1, <3>2
  <2> QED  BY <2>4 DEF RowsAreWhole
<1>3. Admitted /\ Listening /\ Ordered
  BY <1>0, <1>1 DEF Admitted, Listening, Ordered, SocketReqs
<1>4. RoomsHoldParticipants /\ HeardByTheRoom /\ LastMessageIsRecent
  <2>1. RoomsHoldParticipants
    <3>1. ASSUME NEW s \in Sockets PROVE connected[s] # "up"
      BY <1>0
    <3>2. registered = {s \in Sockets : connected[s] = "up"}
      BY <1>0, <3>1
    <3> QED  BY <1>0, <3>2 DEF RoomsHoldParticipants
  <2>2. \A r \in SendReqs : pc[r] # "done"
    BY <1>0, <1>1 DEF SocketReqs
  <2>3. HeardByTheRoom
    <3>1. \A s \in Sockets : DOMAIN heard[s] = {}
      BY <1>0
    <3> QED  BY <2>2, <3>1 DEF HeardByTheRoom
  <2>4. LastMessageIsRecent
    BY <2>2, <1>2 DEF LastMessageIsRecent
  <2> QED  BY <2>1, <2>3, <2>4
<1> QED  BY <1>2, <1>3, <1>4, InitType DEF ChatInv

LEMMA StepInv == ChatInv /\ [Next]_vars => ChatInv'
<1> SUFFICES ASSUME ChatInv, [Next]_vars PROVE ChatInv'
  OBVIOUS
<1>t. TypeOK'
  BY StepType DEF ChatInv
<1>1. ASSUME NEW s \in Sockets, Connect(s) \/ Disconnect(s) PROVE ChatInv'
  BY <1>t, <1>1, RoomsSockets, AdmittedSockets, ListeningSockets DEF ChatInv
<1>2. ASSUME NEW r \in Reqs, Step(r) PROVE ChatInv'
  <2>1. RoomsHoldParticipants'
    BY <1>2, RoomsStep
  <2> QED  BY <1>t, <1>2, <2>1, RowsStep, AdmittedStep, ListeningStep, OrderedStep DEF ChatInv
<1>3. CASE UNCHANGED vars
  <2>1. RowsAreWhole' /\ Admitted' /\ Listening' /\ Ordered'
    BY <1>3 DEF vars, ChatInv, RowsAreWhole, Admitted, Listening, Ordered, Stored, Participant
  <2>2. RoomsHoldParticipants' /\ HeardByTheRoom' /\ LastMessageIsRecent'
    BY <1>3 DEF vars, ChatInv, RoomsHoldParticipants, HeardByTheRoom, LastMessageIsRecent
  <2> QED  BY <1>t, <2>1, <2>2 DEF ChatInv
<1> QED  BY <1>1, <1>2, <1>3, NextIsStep

\* The inductive invariant of conversations, rooms and messages.
THEOREM ChatInvariant == Spec => []ChatInv
<1> QED  BY InitInv, StepInv, PTL DEF Spec

\* The state of Chat keeps its shape.
THEOREM ChatTypes == Spec => []TypeOK
<1>1. ChatInv => TypeOK
  BY DEF ChatInv
<1> QED  BY <1>1, ChatInvariant, PTL

\* ChatSocketRegistryService and the rooms of socket.io: rooms hold live sockets of the two
\* users of a conversation, for any users, sockets and calls.
THEOREM RoomsAreOfParticipants == Spec => []RoomsHoldParticipants
<1>1. ChatInv => RoomsHoldParticipants
  BY DEF ChatInv
<1> QED  BY <1>1, ChatInvariant, PTL

\* ChatGateway.handleMessageSend: a message that was answered was heard by all who were in
\* its room when it was stored and did not leave, once, and by nobody else's sockets.
THEOREM MessagesAreHeard == Spec => []HeardByTheRoom
<1>1. ChatInv => HeardByTheRoom
  BY DEF ChatInv
<1> QED  BY <1>1, ChatInvariant, PTL

\* sendMessage: last_message_id never goes back behind an answered message.
THEOREM LastMessages == Spec => []LastMessageIsRecent
<1>1. ChatInv => LastMessageIsRecent
  BY DEF ChatInv
<1> QED  BY <1>1, ChatInvariant, PTL

\* markRead: read_at is set once, by the other user of the conversation.
THEOREM ReadMarks == Spec => ReadMarksStay
<1>1. ASSUME ChatInv, Next, NEW m \in SendReqs, readBy'[m] # readBy[m]
      PROVE  readBy[m] = None /\ Caller(readBy'[m]) \in Pair[m] \ {Caller(m)}
  <2>1. PICK r \in ReadReqs : SetRead(r)
    BY <1>1 DEF Next, Connect, Disconnect, CreateConversation, SelectConversation,
                InsertConversation, SetProduct, EmitConversationJoined, JoinConversation,
                AssertParticipant, SendMessage, InsertMessage, SetLastMessage, MarkRead,
                SelectMessage, StatementFails, Refused, tables
  <2>2. readBy \in [SendReqs -> ReadReqs \cup {None}]
    BY <1>1, Typed DEF ChatInv
  <2>3. m = Message[r] /\ readBy[m] = None /\ readBy'[m] = r
    BY <1>1, <2>1, <2>2 DEF SetRead, Marked
  <2>4. Participant(r, Pair[m]) /\ Recipient(r)
    BY <1>1, <2>1, <2>3 DEF SetRead, ChatInv, Admitted
  <2> QED  BY <2>3, <2>4 DEF Participant, Recipient
<1> DEFINE Mark(m) == readBy'[m] # readBy[m] =>
                        /\ readBy[m] = None
                        /\ Caller(readBy'[m]) \in Pair[m] \ {Caller(m)}
<1>2. ChatInv /\ [Next]_vars => [\A m \in SendReqs : Mark(m)]_vars
  BY <1>1 DEF vars
<1> QED  BY <1>2, ChatInvariant, PTL DEF Spec, ReadMarksStay

\* getOrCreateConversation: conversations and their messages stay, and the product of one
\* changes only by a call that read it without.
THEOREM ContextsChange == Spec => ContextChangedOnlyByStaleRead
<1> DEFINE Change(p) ==
      /\ conversation[p].there => conversation'[p].there
      /\ conversation[p].last # None => conversation'[p].last # None
      /\ conversation[p].product # None /\ conversation'[p].product # conversation[p].product
         => \E r \in OpenReqs : Pair[r] = p /\ pc[r] = "context"
                                /\ Product[r] = conversation'[p].product
<1>1. ASSUME ChatInv, NEW r \in Reqs, Step(r), NEW p \in Pairs PROVE Change(p)
  <2>0. /\ conversation \in [Pairs -> [there : BOOLEAN, product : Products \cup {None},
                                       last : SendReqs \cup {None}]]
        /\ None \notin SendReqs /\ \A q \in OpenReqs \cup SendReqs : Pair[q] \in Pairs
    BY <1>1, Typed DEF ChatInv
  <2>1. conversation[p].there => conversation'[p].there
    BY <1>1, ConversationsStay DEF ChatInv
  <2>2. CASE r \in OpenReqs /\ InsertConversation(r) /\ ~Refused(r)
    <3>1. conversation'[p].last = conversation[p].last
      BY <1>1, <2>2, OpenOrdered
    <3>2. conversation[p].product # None => conversation'[p] = conversation[p]
      BY <1>1, <2>0, <2>2 DEF InsertConversation, Taken, ChatInv, RowsAreWhole, NoRow
    <3> QED  BY <2>1, <3>1, <3>2
  <2>3. CASE r \in OpenReqs /\ SetProduct(r)
    BY <2>0, <2>1, <2>3 DEF SetProduct
  <2>4. CASE r \in SendReqs /\ SetLastMessage(r)
    BY <2>0, <2>1, <2>4 DEF SetLastMessage, LastMessage
  <2>5. CASE conversation' = conversation
    BY <2>5
  <2> QED  BY <1>1, <2>2, <2>3, <2>4, <2>5, ConversationsKept
           DEF Step, CreateConversation, InsertConversation, SelectConversation,
               EmitConversationJoined, Refused, tables
<1>2. ASSUME ChatInv, NEW s \in Sockets, Connect(s) \/ Disconnect(s), NEW p \in Pairs
      PROVE  Change(p)
  BY <1>2 DEF Connect, Disconnect, tables
<1>3. ChatInv /\ [Next]_vars => [\A p \in Pairs : Change(p)]_vars
  BY <1>1, <1>2, NextIsStep
<1> QED  BY <1>3, ChatInvariant, PTL DEF Spec, ContextChangedOnlyByStaleRead
=============================================================================
