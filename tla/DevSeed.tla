------------------------------ MODULE DevSeed -------------------------------
(* The development seeder, dev-seeder.ts. It makes users, categories, products,
   blocks, favourites, ratings, conversations, reports and moderation through
   the API of a running server, each definition under a key that it finds again
   in a later run (the marker in its name or text, the phone of a user). Every
   request goes through SeedApiClient.request: it is tried again after a network
   failure, a time-out or a status that promises better times.

   The server is external. It is the server the seeder was written for: some of
   the routes are not those of this repository's server any more. A request has
   its effect when the server runs it, heard or not. *)
EXTENDS Naturals, Sequences

CONSTANTS
    Tasks,          \* the definitions in their order: a sequence of [kind, key, by, want]
    RetryAttempts,  \* RETRY_ATTEMPTS
    MaxLosses,      \* how many answers get lost, or requests, or come as 429 or 5xx
    MaxRuns         \* how often the seeder is started

ASSUME RetryAssumption == RetryAttempts \in Nat \ {0}
ASSUME TaskAssumption == MaxLosses \in Nat /\ MaxRuns \in Nat

Kinds == {"user", "category", "product", "block", "favorite", "rating", "talk",
          "message", "report", "moderate"}

\* DEV_USERS, DEV_CATEGORIES, ..., USER_STATUS_TARGETS: a key has one definition, what has
\* no status wants to be there, messages follow their conversation, and who is paused or
\* banned is one of the users, each of them once.
ASSUME DefinitionsAssumption ==
    /\ Len(Tasks) \in Nat \ {0} /\ DOMAIN Tasks = 1 .. Len(Tasks)
    /\ \A i, j \in DOMAIN Tasks :
         i # j => /\ Tasks[i].key # Tasks[j].key
                  /\ Tasks[i].kind = "moderate" /\ Tasks[j].kind = "moderate"
                       => Tasks[i].by # Tasks[j].by
    /\ \A i \in DOMAIN Tasks :
         /\ Tasks[i].kind \in Kinds
         /\ Tasks[i].kind \notin {"user", "product", "report", "moderate"} => Tasks[i].want = "new"
         /\ Tasks[i].kind = "message" =>
              \E j \in 1 .. i - 1 : /\ Tasks[j].kind = "talk"
                                   /\ \A k \in j + 1 .. i : Tasks[k].kind = "message"
         /\ Tasks[i].kind = "moderate" =>
              /\ Tasks[i].want # "active"
              /\ \E j \in 1 .. i - 1 : Tasks[j].kind = "user" /\ Tasks[j].key = Tasks[i].by

Keys == {Tasks[i].key : i \in DOMAIN Tasks}

VARIABLES
    rows,      \* the states of the server's rows of a key, the newest last
    pending,   \* the users with a registration to be confirmed
    warnings,  \* how many warnings a moderated user has
    at, pc,    \* the task and the request of it the seeder is at
    tries,     \* attempts at this request so far
    served,    \* an attempt at it was run by the server and not heard of
    seen,      \* the rows of each key in the lists this run has read
    lists,     \* the lists it has read
    map,       \* entity-map.json: what the run did with a key
    runs, finished, losses,
    again      \* how often the creation of a key was run after an unheard one
server == <<rows, pending, warnings>>
client == <<at, pc, tries, served, seen, lists, map>>
seedVars == <<server, client, runs, finished, losses, again>>

Unseen == [k \in Keys |-> <<>>]
Unmapped == [k \in Keys |-> "none"]

SeedInit ==
    /\ rows = Unseen
    /\ pending = {}
    /\ warnings = [k \in Keys |-> 0]
    /\ at = 0 /\ pc = "off" /\ tries = 0 /\ served = FALSE
    /\ seen = Unseen /\ lists = {} /\ map = Unmapped
    /\ runs = 0 /\ finished = 0 /\ losses = 0
    /\ again = [k \in Keys |-> 0]

Task == Tasks[at]
Key == Task.key
\* "items.find(...)" takes the first row of a list that has the newest first.
Newest(s) == s[Len(s)]

----------------------------------------------------------------------------
(* What the seeder asks for next. *)

\* The list in which upsertProducts, upsertBlocks, ... look for a task: one for each of
\* the users, or one for all.
ListOf(t) == <<t.kind, IF t.kind \in {"product", "block", "favorite"} THEN t.by ELSE "all">>
Listed == {"product", "block", "favorite", "report", "moderate"}

\* Wrong variant, for checking the properties: a found row is not looked at.
LacksStatusIfNew(t, s) == s = <<>>
\* The status of the row is not the one of the definition.
LacksStatus(t, s) == s = <<>> \/ Newest(s) # t.want

\* The first request of task t, given what the lists read so far show of it.
Opening(t, known, read) ==
    IF t.kind \in Listed /\ ListOf(t) \notin read THEN "list"
    ELSE CASE t.kind = "user" -> "login"
           [] t.kind \in {"category", "rating", "talk"} -> "create"
           [] t.kind = "product" -> "upload"
           [] t.kind \in {"block", "favorite"} -> IF known = <<>> THEN "create" ELSE "skip"
           [] t.kind = "message" -> IF known = <<>> THEN "send" ELSE "skip"
           [] t.kind = "report" -> IF known = <<>> THEN "mine"
                                   ELSE IF LacksStatus(t, known) THEN "status" ELSE "skip"
           [] t.kind = "moderate" -> IF LacksStatus(t, known) THEN "status" ELSE "skip"

\* Wrong variant, for checking the properties: what goes through a socket is repeated.
RetriedSends(p) == p \notin {"preflight", "login"}
\* Requests that are not repeated: those of the preflight, a login, and all of a socket.
Retried(p) == p \notin {"preflight", "login", "join", "send", "read"}

Ask(i, p) == at' = i /\ pc' = p /\ tries' = 0 /\ served' = FALSE

\* On to the next task, to the summary after the last.
Onward(known, read) ==
    IF at = Len(Tasks) THEN Ask(at + 1, "summary")
    ELSE Ask(at + 1, Opening(Tasks[at + 1], known[Tasks[at + 1].key], read))
MoveOn == Onward(seen, lists)
Note(did) == map' = [map EXCEPT ![Key] = did]

\* An exception nobody catches ends the run.
Throw == Ask(0, "off") /\ UNCHANGED <<seen, lists, map>>

----------------------------------------------------------------------------
(* The server. *)

\* A key whose creation the server has to make once: a phone, the name of a category, the
\* pair of a block, a favourite, a rating or a conversation.
Unique(t) == t.kind \notin {"product", "message", "report"}

\* What the rows are after the server ran the request.
RowsAfter(t, p) ==
    CASE p \in {"create", "send"} ->
            IF ~Unique(t) THEN [rows EXCEPT ![t.key] = Append(@, "new")]
            ELSE [rows EXCEPT ![t.key] = <<"new">>]
      [] p = "verify" /\ t.key \in pending -> [rows EXCEPT ![t.key] = <<"active">>]
      [] p = "status" -> [rows EXCEPT ![t.key] =
                             IF @ = <<>> THEN <<t.want>> ELSE [@ EXCEPT ![Len(@)] = t.want],
                          ![t.by] = IF t.kind = "moderate" THEN <<t.want>> ELSE @]
      [] OTHER -> rows
PendingAfter(t, p) ==
    CASE p = "register" /\ rows[t.key] = <<>> -> pending \cup {t.key}
      [] p = "verify" -> pending \ {t.key}
      [] OTHER -> pending
WarningsAfter(t, p) == IF p = "warn" THEN [warnings EXCEPT ![t.key] = @ + 1] ELSE warnings

\* Its answer: "ok" is an expected status. Who is paused or banned cannot log in; a pair
\* that is there answers as a new one or as a conflict.
Answers(t, p) ==
    CASE p = "login" -> {IF rows[t.key] = <<"active">> THEN "ok" ELSE "unauthorized"}
      [] p = "register" -> {IF rows[t.key] = <<>> THEN "ok" ELSE "conflict"}
      [] p = "verify" -> {IF t.key \in pending THEN "ok" ELSE "refused"}
      [] p = "create" /\ t.kind = "category" -> {IF rows[t.key] = <<>> THEN "ok" ELSE "conflict"}
      [] p = "create" /\ t.kind \in {"block", "favorite"} /\ rows[t.key] # <<>> ->
            {"ok", "conflict"}
      [] OTHER -> {"ok"}

Serve ==
    /\ rows' = RowsAfter(Task, pc)
    /\ pending' = PendingAfter(Task, pc)
    /\ warnings' = WarningsAfter(Task, pc)
    /\ again' = IF served /\ pc \in {"create", "send"} THEN [again EXCEPT ![Key] = @ + 1]
                ELSE again

----------------------------------------------------------------------------
(* What the seeder does with an answer, function by function. *)

InTasks == at \in DOMAIN Tasks

\* ensureUser: who cannot log in is registered; and upsertProfile.
EnsureUser(answer) ==
    /\ Task.kind = "user"
    /\ UNCHANGED <<seen, lists>>
    /\ CASE pc = "login" /\ answer = "ok" -> Note("reused") /\ Ask(at, "profile")
         [] pc = "login" /\ answer # "ok" -> UNCHANGED map /\ Ask(at, "register")
         [] pc = "register" /\ answer = "ok" -> UNCHANGED map /\ Ask(at, "verify")
         [] pc = "verify" /\ answer = "ok" -> Note("created") /\ Ask(at, "profile")
         [] pc = "profile" -> UNCHANGED map /\ MoveOn
         [] OTHER -> Throw

\* upsertCategories: the conflict of a category is looked up in the list.
UpsertCategory(answer) ==
    /\ Task.kind = "category"
    /\ UNCHANGED <<seen, lists>>
    /\ CASE pc = "create" /\ answer = "conflict" -> UNCHANGED map /\ Ask(at, "find")
         [] pc = "create" /\ answer = "ok" -> Note("created") /\ MoveOn
         [] pc = "find" -> Note("reused") /\ MoveOn

\* The list a task is looked up in: of all keys that are in it.
ReadList ==
    /\ pc = "list"
    /\ LET read == lists \cup {ListOf(Task)}
           known == [k \in Keys |-> IF \E i \in DOMAIN Tasks : Tasks[i].key = k
                                           /\ ListOf(Tasks[i]) = ListOf(Task)
                                    THEN rows[k] ELSE seen[k]]
           next == Opening(Task, known[Key], read)
       IN  /\ lists' = read /\ seen' = known
           /\ IF next = "skip" THEN Note("reused") /\ Onward(known, read)
              ELSE UNCHANGED map /\ Ask(at, next)

\* upsertProducts: an image is uploaded for each product, the known ones too.
UpsertProduct ==
    /\ Task.kind = "product" /\ pc # "list"
    /\ UNCHANGED <<seen, lists>>
    /\ LET found == seen[Key] IN
       CASE pc = "upload" -> UNCHANGED map /\ Ask(at, "mark")
         [] pc = "mark" -> UNCHANGED map /\ Ask(at, IF found = <<>> THEN "create" ELSE "update")
         [] pc = "create" /\ Task.want # "new" -> UNCHANGED map /\ Ask(at, "status")
         [] pc = "create" /\ Task.want = "new" -> Note("created") /\ MoveOn
         [] pc = "update" /\ LacksStatus(Task, found) -> UNCHANGED map /\ Ask(at, "status")
         [] pc = "update" /\ ~LacksStatus(Task, found) -> Note("reused") /\ MoveOn
         [] pc = "status" -> Note(IF found = <<>> THEN "created" ELSE "updated") /\ MoveOn

\* upsertBlocks, upsertFavorites: a pair that is not in the list is created.
UpsertLink(answer) ==
    /\ Task.kind \in {"block", "favorite"} /\ pc # "list"
    /\ IF pc = "create" /\ answer # "ok" THEN Throw
       ELSE /\ Note(IF pc = "create" THEN "created" ELSE "reused") /\ MoveOn
            /\ UNCHANGED <<seen, lists>>
\* upsertRatings.
UpsertRating ==
    /\ Task.kind = "rating"
    /\ MoveOn /\ UNCHANGED <<seen, lists, map>>

\* upsertConversations and seedConversationMessages: the history is read, two sockets join,
\* and the messages that the history lacks are sent.
TalkOf(i) == {j \in DOMAIN Tasks : j > i /\ \A k \in i + 1 .. j : Tasks[k].kind = "message"}
UpsertConversation ==
    /\ Task.kind = "talk"
    /\ CASE pc = "create" -> Note("created") /\ Ask(at, "history") /\ UNCHANGED <<seen, lists>>
         [] pc = "history" ->
              /\ seen' = [k \in Keys |-> IF \E j \in TalkOf(at) : Tasks[j].key = k THEN rows[k]
                                         ELSE seen[k]]
              /\ Ask(at, "join") /\ UNCHANGED <<lists, map>>
         [] pc = "join" -> MoveOn /\ UNCHANGED <<seen, lists, map>>
LastOfTalk == at = Len(Tasks) \/ Tasks[at + 1].kind # "message"
\* The last message is marked read if this run sent one of the talk.
SentOne ==
    \/ pc = "send"
    \/ \E j \in 1 .. at : /\ \A k \in j .. at : Tasks[k].kind = "message"
                          /\ map[Tasks[j].key] = "created"
SendMessage ==
    /\ Task.kind = "message"
    /\ UNCHANGED <<seen, lists>>
    /\ IF pc = "send" THEN Note("created") ELSE UNCHANGED map
    /\ IF pc # "read" /\ LastOfTalk /\ SentOne THEN Ask(at, "read") ELSE MoveOn

\* upsertReportsAndModeration: reports. A new one has the status "open" already.
UpsertReport ==
    /\ Task.kind = "report" /\ pc # "list"
    /\ CASE pc = "mine" ->
              /\ seen' = [seen EXCEPT ![Key] = rows[Key]]
              /\ IF rows[Key] = <<>> THEN Ask(at, "create") /\ UNCHANGED map
                 ELSE IF LacksStatus(Task, rows[Key]) THEN Ask(at, "status") /\ UNCHANGED map
                 ELSE Note("reused") /\ MoveOn
         [] pc = "create" /\ Task.want = "new" -> Note("reused") /\ MoveOn /\ UNCHANGED seen
         [] pc = "create" /\ Task.want # "new" -> Ask(at, "status") /\ UNCHANGED <<map, seen>>
         [] pc = "status" -> Note("updated") /\ MoveOn /\ UNCHANGED seen
         [] pc = "skip" -> Note("reused") /\ MoveOn /\ UNCHANGED seen
    /\ UNCHANGED lists

\* upsertReportsAndModeration: a user is paused or banned, and then warned of it.
Moderate ==
    /\ Task.kind = "moderate" /\ pc # "list"
    /\ UNCHANGED <<seen, lists>>
    /\ CASE pc = "status" -> UNCHANGED map /\ Ask(at, "warn")
         [] pc = "warn" -> Note("created") /\ MoveOn
         [] pc = "skip" -> Note("reused") /\ MoveOn

----------------------------------------------------------------------------
(* The run. *)

\* performPreflightChecks and collectSummary: reads and a login of the administrator.
Preflight ==
    /\ pc = "preflight"
    /\ Ask(1, Opening(Tasks[1], <<>>, {})) /\ UNCHANGED <<seen, lists, map>>
CollectSummary == pc = "summary" /\ Ask(at, "artifacts") /\ UNCHANGED <<seen, lists, map>>

Handle(answer) ==
    \/ Preflight \/ CollectSummary
    \/ /\ InTasks
       /\ \/ ReadList \/ EnsureUser(answer) \/ UpsertCategory(answer) \/ UpsertProduct
          \/ UpsertLink(answer) \/ UpsertRating \/ UpsertConversation \/ SendMessage
          \/ UpsertReport \/ Moderate

Asking == pc \notin {"off", "artifacts", "skip"}

\* The server runs the request and its answer arrives.
Heard ==
    /\ Asking
    /\ IF InTasks THEN Serve /\ \E answer \in Answers(Task, pc) : Handle(answer)
       ELSE UNCHANGED <<server, again>> /\ Handle("ok")
    /\ UNCHANGED <<runs, finished, losses>>

\* A key that is where it should be needs no request.
Skip ==
    /\ pc = "skip"
    /\ Handle("ok")
    /\ UNCHANGED <<server, runs, finished, losses, again>>

\* SeedApiClient.request: the next attempt, or the end of the run. The catch of ensureUser
\* takes the network failure of a login for an unknown user.
TryAgain(apiError) ==
    IF Retried(pc) /\ tries + 1 < RetryAttempts
    THEN tries' = tries + 1 /\ UNCHANGED <<at, pc, seen, lists, map>>
    ELSE IF pc = "login" /\ ~apiError
    THEN at' = at /\ pc' = "register" /\ tries' = 0 /\ UNCHANGED <<seen, lists, map>>
    ELSE at' = 0 /\ pc' = "off" /\ tries' = 0 /\ UNCHANGED <<seen, lists, map>>

\* The server runs the request; the answer is late or lost.
Unheard ==
    /\ Asking /\ losses < MaxLosses
    /\ IF InTasks THEN Serve ELSE UNCHANGED <<server, again>>
    /\ TryAgain(FALSE)
    /\ served' = (pc' = pc)
    /\ losses' = losses + 1
    /\ UNCHANGED <<runs, finished>>

\* The request does not reach the server, or is answered with 429, 500, 502, 503 or 504.
Unserved ==
    /\ Asking /\ losses < MaxLosses
    /\ \E apiError \in BOOLEAN : TryAgain(apiError)
    /\ served' = (served /\ pc' = pc)
    /\ losses' = losses + 1
    /\ UNCHANGED <<server, runs, finished, again>>

\* runDevSeed: nothing is left of an earlier run.
StartSeed ==
    /\ pc = "off" /\ runs < MaxRuns
    /\ runs' = runs + 1
    /\ Ask(0, "preflight")
    /\ seen' = Unseen /\ lists' = {} /\ map' = Unmapped
    /\ UNCHANGED <<server, finished, losses, again>>

\* writeArtifacts, and the run is over.
WriteArtifacts ==
    /\ pc = "artifacts"
    /\ finished' = finished + 1
    /\ Ask(0, "off")
    /\ UNCHANGED <<server, seen, lists, map, runs, losses, again>>

\* The seeder is stopped; what the server has stays.
StopSeed ==
    /\ pc # "off"
    /\ Ask(0, "off")
    /\ UNCHANGED <<server, seen, lists, map, runs, finished, losses, again>>

SeedNext == Heard \/ Skip \/ Unheard \/ Unserved \/ StartSeed \/ WriteArtifacts \/ StopSeed

----------------------------------------------------------------------------
(* Properties. *)

\* A key has more than one row only by the retries of its creation after an unheard one:
\* what an earlier run made, finished, stopped or failed, is found again, and a message,
\* which is not retried, is never there twice.
DoubledByRetriesOnly ==
    \A i \in DOMAIN Tasks :
        LET t == Tasks[i] IN
        /\ Len(rows[t.key]) <= 1 + again[t.key]
        /\ t.kind = "message" => Len(rows[t.key]) <= 1

\* A run that gets to its end leaves the seed complete: each key has its row, in the
\* status of its definition, entered in the map, and each moderated user was warned.
FinishedSeedIsWhole ==
    pc = "artifacts" =>
        \A i \in DOMAIN Tasks :
            LET t == Tasks[i] IN
            /\ rows[t.key] # <<>>
            /\ t.kind # "user" => Newest(rows[t.key]) = t.want
            /\ t.kind \notin {"rating", "message"} => map[t.key] # "none"
            /\ t.kind = "moderate" => warnings[t.key] > 0
=============================================================================
