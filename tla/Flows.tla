------------------------------- MODULE Flows -------------------------------
(* The simulation and test scripts: scripts/simulate-kayan-*.ts, test-auth.ts,
   test-profile.ts and chat-socket-test.ts with their harnesses in scripts/lib.
   A script is a client that walks through a fixed sequence of requests, records
   for each whether it got the status it expects, and answers with its exit code
   and, most of them, a report file.

   The steps of the scripts are translated from the harnesses; the server they
   run against is the part of the services' guards that the steps can tell
   apart, for the users A and B that a script registers (T of the administration
   flow is A) and the one item of a kind it creates. Reads that look at nothing
   but the status are one operation, and lists read in a row are one step each. *)
EXTENDS Naturals, Sequences, FiniteSets

CONSTANT MaxUpsets   \* how often a run is upset: an answer lost, a 429, another administrator

ASSUME UpsetsAssumption == MaxUpsets \in Nat

----------------------------------------------------------------------------
(* The server. *)

Types == {"order", "fault", "service"}
Line(t) ==
    CASE t = "order" -> <<"received", "ready_to_ship", "on_the_way", "delivered">>
      [] t = "fault" -> <<"received", "assigned", "on_the_way", "in_progress", "finished">>
      [] t = "service" -> <<"not_started", "in_progress", "finished">>
First(t) == Line(t)[1]
Last(t) == Line(t)[Len(Line(t))]
After(t, s) == {Line(t)[i + 1] : i \in {j \in 1 .. Len(Line(t)) - 1 : Line(t)[j] = s}}

\* first: whom findAnyAdminId finds, the administrator of the script or an older one.
Fresh(first) ==
    [who |-> [u \in {"A", "B"} |-> "none"], boss |-> {}, stale |-> {}, codes |-> {},
     password |-> "old", moved |-> FALSE,
     item |-> [t \in Types |-> "none"], rated |-> {}, product |-> FALSE, row |-> FALSE,
     file |-> [f \in {"image", "image2", "draft", "document"} |-> "none"],
     gallery |-> "none", steps |-> {}, talks |-> {}, first |-> first]

\* A request passes the guard of its route, then the validation of its body, then the
\* checks of the handler, in this order; each refusal is a pair of its condition and status.
Open == {"register", "resend", "verify", "login", "forgot", "reset", "refresh", "public", "gallery"}
Administrative ==
    {"createProduct", "move", "setStatus", "warn", "promote", "demote", "deleteUser",
     "adminRead", "adminList", "createGallery", "updateGallery", "deleteGallery",
     "adminGallery", "addStep", "updateStep", "deleteStep"}
Known(w, u) == u = "admin" \/ (u \in {"A", "B"} /\ w.who[u] \in {"active", "paused", "banned"}
                               /\ u \notin w.stale)
Gate(w, r) ==
    <<<<r.do \notin Open /\ ~Known(w, r.by), 401>>,
      <<r.do \in Administrative /\ r.by # "admin", 403>>,
      <<r.arg \in {"malformed", "ssn"}, 400>>>>

\* The status of a request: that of the first check it fails, or 201 for a POST.
Posts == (Open \ {"public", "gallery"}) \union
    {"logout", "createProduct", "addCart", "checkout", "create", "cancel", "rate", "warn",
     "promote", "intent", "createGallery", "addStep", "talk", "message", "chat"}
Reply(w, r, checks, next) ==
    LET all == Gate(w, r) \o checks
        failed == {i \in DOMAIN all : all[i][1]}
    IN IF failed = {} THEN [code |-> IF r.do \in Posts THEN 201 ELSE 200, next |-> next]
       ELSE [code |-> all[CHOOSE i \in failed : \A j \in failed : i <= j][2], next |-> w]

\* AuthService and UsersService.
AuthReply(w, r) ==
    CASE r.do = "register" ->
           Reply(w, r, <<<<w.who[r.of] \in {"active", "paused", "banned"}, 409>>>>,
                 [w EXCEPT !.who[r.of] = "pending", !.codes = @ \union {<<"registration", r.of>>}])
      [] r.do = "resend" -> Reply(w, r, <<<<w.who[r.of] # "pending", 400>>>>, w)
      [] r.do = "verify" ->
           Reply(w, r, <<<<r.arg = "wrong" \/ <<"registration", r.of>> \notin w.codes, 400>>,
                         <<w.who[r.of] # "pending", 400>>>>,
                 [w EXCEPT !.who[r.of] = "active"])
      [] r.do = "login" ->
           Reply(w, r, <<<<r.of # "admin" /\ w.who[r.of] # "active", 401>>,
                         <<r.arg # (IF r.of = "A" THEN w.password ELSE "old"), 401>>>>, w)
      [] r.do = "forgot" -> Reply(w, r, <<>>, [w EXCEPT !.codes = @ \union {<<"reset", r.of>>}])
      [] r.do = "reset" ->
           Reply(w, r, <<<<r.arg = "mismatch" \/ <<"reset", r.of>> \notin w.codes, 400>>,
                         <<w.who[r.of] # "active", 401>>>>, [w EXCEPT !.password = "new"])
      [] r.do = "refresh" -> Reply(w, r, <<<<r.arg = "invalid", 401>>>>, w)
      [] r.do = "updateMe" ->
           Reply(w, r, <<<<r.arg = "nothing", 400>>, <<r.by = "B" /\ w.moved, 409>>>>,
                 [w EXCEPT !.moved = TRUE])
      [] r.do = "changePassword" ->
           Reply(w, r, <<<<r.arg = "wrong", 400>>>>, [w EXCEPT !.password = "new"])
      [] OTHER -> Reply(w, r, <<>>, w)

\* KayanService: the shop, and the items of a user.
ItemReply(w, r) ==
    CASE r.do = "createProduct" -> Reply(w, r, <<>>, [w EXCEPT !.product = TRUE])
      [] r.do = "addCart" ->
           Reply(w, r, <<<<r.of = "missing" \/ ~w.product, 404>>>>, [w EXCEPT !.row = TRUE])
      [] r.do = "setCart" -> Reply(w, r, <<<<~w.row, 404>>>>, w)
      [] r.do = "dropCart" -> Reply(w, r, <<<<~w.row, 404>>>>, [w EXCEPT !.row = FALSE])
      [] r.do = "checkout" ->
           Reply(w, r, <<<<~w.row, 400>>>>, [w EXCEPT !.row = FALSE, !.item["order"] = First("order")])
      [] r.do = "create" ->
           Reply(w, r, <<<<r.arg = "missing", 400>>, <<r.arg \in DOMAIN w.file /\ w.file[r.arg] # "uploaded", 400>>,
                         <<r.arg = "document", 400>>>>,
                 [w EXCEPT !.item[r.of] = First(r.of)])
      [] r.do \in {"get", "edit", "cancel"} ->
           Reply(w, r, <<<<r.by # "A" \/ w.item[r.of] = "none", 404>>,
                         <<r.do # "get" /\ w.item[r.of] # First(r.of), 400>>>>,
                 IF r.do = "cancel" THEN [w EXCEPT !.item[r.of] = "cancelled"] ELSE w)
      [] r.do = "move" ->
           Reply(w, r, <<<<w.item[r.of] = "none", 404>>,
                         <<r.of = "fault" /\ r.arg \notin After("fault", w.item["fault"])
                                                         \union {w.item["fault"], "cancelled"}, 400>>,
                         <<r.of = "fault" /\ w.item["fault"] \in {"cancelled", Last("fault")}
                                          /\ r.arg # w.item["fault"], 400>>>>,
                 [w EXCEPT !.item[r.of] = r.arg])
      [] r.do = "rate" ->
           Reply(w, r, <<<<w.item[r.of] = "none", 404>>, <<r.by # "A", 403>>,
                         <<w.item[r.of] # Last(r.of), 400>>, <<r.arg = "notOrdered", 400>>,
                         <<r.of \in w.rated, 400>>>>,
                 [w EXCEPT !.rated = @ \union {r.of}])
      [] OTHER -> Reply(w, r, <<>>, w)

\* AdminService, FilesService and the gallery.
BackReply(w, r) ==
    CASE r.do \in {"setStatus", "warn", "promote", "demote", "deleteUser"} ->
           Reply(w, r, <<<<r.of = "missing" \/ w.who["A"] \notin {"active", "paused", "banned"}, 404>>,
                         <<r.do = "promote" /\ "A" \in w.boss, 409>>,
                         <<r.do = "demote" /\ "A" \notin w.boss, 409>>>>,
                 CASE r.do = "setStatus" -> [w EXCEPT !.who["A"] = r.arg]
                   [] r.do = "promote" -> [w EXCEPT !.boss = {"A"}, !.stale = {"A"}]
                   [] r.do = "demote" -> [w EXCEPT !.boss = {}, !.stale = {"A"}]
                   [] r.do = "deleteUser" -> [w EXCEPT !.who["A"] = "deleted", !.stale = {"A"}]
                   [] OTHER -> w)
      [] r.do = "intent" -> Reply(w, r, <<>>, [w EXCEPT !.file[r.of] = "pending"])
      [] r.do = "mark" ->
           Reply(w, r, <<<<w.file[r.of] = "none", 404>>>>, [w EXCEPT !.file[r.of] = "uploaded"])
      [] r.do = "createGallery" -> Reply(w, r, <<>>, [w EXCEPT !.gallery = "active"])
      [] r.do \in {"updateGallery", "deleteGallery"} ->
           Reply(w, r, <<<<r.of = "missing" \/ w.gallery \in {"none", "deleted"}, 404>>>>,
                 [w EXCEPT !.gallery = r.arg])
      [] OTHER -> Reply(w, r, <<>>, w)

\* Follow-up steps and conversations. The item of the conversation is r.of; the request
\* may name another one, or no conversation that exists.
FollowupReply(w, r) ==
    CASE r.do = "addStep" -> Reply(w, r, <<>>, [w EXCEPT !.steps = @ \union {<<r.of, r.arg>>}])
      [] r.do \in {"updateStep", "deleteStep"} ->
           Reply(w, r, <<<<<<r.of, r.arg>> \notin w.steps, 404>>>>,
                 IF r.do = "deleteStep" THEN [w EXCEPT !.steps = @ \ {<<r.of, r.arg>>}] ELSE w)
      [] r.do = "listSteps" -> Reply(w, r, <<<<r.by # "A", 403>>>>, w)
      [] r.do = "talk" ->
           Reply(w, r, <<<<r.by # "A", 403>>>>, [w EXCEPT !.talks = @ \union {r.of}])
      [] r.do \in {"message", "messages"} ->
           Reply(w, r, <<<<r.arg = "missing" \/ r.of \notin w.talks, 404>>,
                         <<r.by \notin {"A", w.first}, 403>>, <<r.arg = "otherItem", 404>>>>, w)
      [] OTHER -> Reply(w, r, <<>>, w)

Answer(w, r) ==
    CASE r.do \in Open \union {"logout", "me", "updateMe", "changePassword"} -> AuthReply(w, r)
      [] r.do \in {"addStep", "updateStep", "deleteStep", "listSteps", "talk", "message", "messages"} ->
           FollowupReply(w, r)
      [] r.do \in {"setStatus", "warn", "promote", "demote", "deleteUser", "intent", "mark",
                   "createGallery", "updateGallery", "deleteGallery"} -> BackReply(w, r)
      [] OTHER -> ItemReply(w, r)

\* Whether the thing that the script made is in the list.
InList(w, r) ==
    CASE r.do = "gallery" -> w.gallery = "active"
      [] r.do = "adminGallery" -> w.gallery \in {"active", "hidden"}
      [] r.do = "adminList" -> w.item[r.of] # "none"
Lists == {"gallery", "adminGallery", "adminList"}

\* What another administrator may do meanwhile.
Meddled(w) ==
    UNION {{[w EXCEPT !.item[t] = s] : s \in After(t, w.item[t]) \union {"cancelled"}}
           : t \in {u \in Types : w.item[u] \notin {"none", "cancelled", Last(u)}}}
    \union {[w EXCEPT !.gallery = g] :
                g \in IF w.gallery \in {"active", "hidden"} THEN {"active", "hidden", "deleted"} ELSE {}}
    \union {[w EXCEPT !.who["A"] = s] : s \in IF w.who["A"] = "active" THEN {"banned"} ELSE {}}
    \union {[w EXCEPT !.boss = {"A"}, !.stale = {"A"}] : x \in IF w.who["A"] = "active" THEN {1} ELSE {}}

----------------------------------------------------------------------------
(* The scripts. A step: who asks what of what, the statuses it wants, whether it
   picks something from the answer, and its kind. A pick (an id, a code, a URL) throws
   when it finds nothing, and that is when the request was refused: pickId looks under
   a name of its own and then for data.id, which the envelope gives every answer of one
   row (HttpResponseEnvelopeInterceptor). The kinds:
     ask     recorded; a wrong status throws unless the script continues on failures
     must    recorded; a wrong status throws        tally   recorded; never throws
     quiet   not recorded; a wrong status throws
     put     recorded when it succeeds; throws when it does not
     check   recorded: the list last seen has, or has not, what was made
     need    throws unless the list last seen has it
     try     recorded; an error on the way is caught and counts as a wrong status
     socket  seven results, or one failure                                      *)
Step(kind, by, do, of, arg, want) ==
    [kind |-> kind, by |-> by, do |-> do, of |-> of, arg |-> arg, want |-> want,
     pick |-> FALSE, when |-> "always"]
Req(by, do, of, arg, want) == Step("ask", by, do, of, arg, want)
Picks(s) == [s EXCEPT !.pick = TRUE]
When(s, condition) == [s EXCEPT !.when = condition]
Ok == {200}
Made == {200, 201}
Read(by) == Req(by, "read", "", "", Ok)
Public == Req("nobody", "public", "", "", Ok)
Times(n, s) == [i \in 1 .. n |-> s]
Check(arg) == Step("check", "nobody", "check", "", arg, Ok)
Need == Step("need", "nobody", "need", "", "shown", Ok)

\* loginWithAdaptiveIdentifier, with an e-mail address given, and registerAndLoginUser.
LogIn(u) == Step("must", "nobody", "login", u, "old", {201})
SignUp(u, arg) ==
    <<Picks(Req("nobody", "register", u, arg, {201})), Req("nobody", "verify", u, "otp", {201}), LogIn(u)>>
Begin(arg) == <<LogIn("admin")>> \o SignUp("A", arg) \o SignUp("B", arg)
Moves(t) == [i \in 1 .. Len(Line(t)) - 1 |-> Req("admin", "move", t, Line(t)[i + 1], Ok)]

\* runAuthHappyPath and runAuthNegativeCases.
Must(do, arg, want) == Step("must", IF do = "logout" THEN "A" ELSE "nobody", do, "A", arg, want)
AuthHappy ==
    <<Must("register", "", {201}), Must("resend", "", {201}), Must("verify", "otp", {201}),
      Must("login", "old", {201}), Must("forgot", "", {201}), Must("reset", "new", {201}),
      Must("login", "new", {201}), Must("refresh", "valid", {201}), Must("logout", "", {201})>>
Tally(by, do, arg, want) == Step("tally", by, do, "A", arg, want)
AuthNegative ==
    <<Tally("nobody", "register", "", {409}), Tally("nobody", "verify", "wrong", {400}),
      Tally("nobody", "login", "bad", {401}), Tally("nobody", "reset", "mismatch", {400}),
      Tally("nobody", "refresh", "invalid", {401})>>

\* bootstrapUser, runProfileHappyPath and runProfileNegativeCases.
Bootstrap(u) ==
    <<Step("must", "nobody", "register", u, "", {201}), Step("must", "nobody", "verify", u, "otp", {201})>>
ProfileHappy ==
    Bootstrap("A") \o
    <<Step("must", "A", "me", "A", "", Ok), Step("must", "A", "updateMe", "A", "phone", Ok),
      Step("must", "A", "me", "A", "", Ok), Step("must", "A", "changePassword", "A", "old", Ok),
      Must("login", "new", {201})>>
ProfileNegative ==
    <<Tally("A", "updateMe", "nothing", {400}), Tally("A", "updateMe", "malformed", {400}),
      Tally("A", "changePassword", "wrong", {400, 401})>>
    \o Bootstrap("B") \o <<Tally("B", "updateMe", "phone", {409})>>

\* runKayanHappyPath and runKayanNegativeCases.
ShopHappy ==
    Begin("")
    \o <<Picks(Req("admin", "createProduct", "", "", Made))>> \o Times(3, Public)
    \o <<Picks(Req("A", "addCart", "", "", Made)), Req("A", "setCart", "", "", Ok), Read("A"),
         Req("A", "dropCart", "", "", Ok), Req("A", "addCart", "", "", Made),
         Picks(Req("A", "checkout", "", "", Made)), Read("A"),
         Req("A", "get", "order", "", Ok), Req("A", "edit", "order", "", Ok),
         Req("admin", "adminRead", "", "", Ok)>>
    \o Moves("order")
    \o <<Req("A", "rate", "order", "", Made), Req("A", "rate", "order", "", {400})>>
    \o Times(2, Public) \o <<Picks(Req("A", "me", "", "", Ok))>> \o Times(2, Public)
ShopNegative ==
    <<Req("nobody", "read", "", "", {401}), Req("A", "addCart", "missing", "", {400, 404}),
      Req("A", "edit", "order", "", {400}), Req("B", "rate", "order", "", {400, 403}),
      Req("A", "rate", "order", "notOrdered", {400}), Req("nobody", "public", "", "malformed", {400}),
      Req("admin", "move", "order", "malformed", {400, 422})>>

\* The refusals that the service and the fault script have in common.
ItemNegative(t) ==
    <<Req("nobody", "read", "", "", {401}), Req("B", "edit", t, "", {403, 404}),
      Req("B", "cancel", t, "", {403, 404}), Req("B", "rate", t, "", {403, 404}),
      Req("A", "rate", t, "", {400}), Req("A", "edit", t, "", {400}), Req("A", "cancel", t, "", {400})>>
\* A creation answered with 404 is looked for in the user's own list.
Created(t, arg) ==
    <<Picks(Req("A", "create", t, arg, Made \union {404})),
      When(Req("A", "read", t, "", Ok), "unfound")>>

\* runKayanServicesHappyPath and runKayanServicesNegativeCases.
ServiceHappy ==
    Begin("") \o Created("service", "") \o <<Req("A", "edit", "service", "", Ok)>> \o Times(5, Read("A"))
    \o <<Req("admin", "adminList", "service", "", Ok)>> \o Times(3, Req("admin", "adminRead", "", "", Ok))
    \o <<Need>> \o Moves("service") \o <<Req("A", "rate", "service", "", Made), Public>>
ServiceNegative ==
    ItemNegative("service")
    \o <<Req("admin", "move", "service", "malformed", {400, 422}),
         Req("A", "create", "service", "malformed", {400, 422})>>

\* createUploadedImageFile, createPendingFile, createUploadedDocumentFile,
\* runKayanFaultsHappyPath and runKayanFaultsNegativeCases.
Intent(by, f) == Picks(Req(by, "intent", f, "", {201}))
Mark(f) == Req("A", "mark", f, "", Ok)
Put == Step("put", "nobody", "public", "", "", Ok)   \* to the storage, at the signed URL
\* Wrong variant, for checking the properties: the upload is not confirmed.
UploadedImageUnmarked(f) == <<Intent("A", f), Put>>
UploadedImage(f) == <<Intent("A", f), Put, Mark(f)>>
FaultHappy ==
    Begin("") \o UploadedImage("image") \o UploadedImage("image2")
    \o <<Intent("A", "draft"), Intent("A", "document"), Mark("document")>>
    \o Created("fault", "image") \o <<Req("A", "edit", "fault", "", Ok)>> \o Times(6, Read("A"))
    \o <<Req("admin", "adminList", "fault", "", Ok),
         When(Req("admin", "adminList", "fault", "", Ok), "unseen"), Need>>
    \o Moves("fault") \o <<Req("A", "rate", "fault", "", Made), Public>>
FaultNegative ==
    ItemNegative("fault")
    \o <<Req("admin", "move", "fault", "received", {400}), Req("A", "create", "fault", "missing", {400}),
         Req("A", "create", "fault", "draft", {400}), Req("A", "create", "fault", "document", {400})>>

\* runKayanAdminHappyPath and runKayanAdminNegativeCases.
AdminHappy ==
    <<LogIn("admin")>> \o SignUp("A", "") \o <<Picks(Req("A", "me", "", "", Ok))>>
    \o Times(5, Req("admin", "adminRead", "", "", Ok))
    \o [i \in 1 .. 3 |-> Req("admin", "setStatus", "A", <<"paused", "banned", "active">>[i], Ok)]
    \o <<Req("admin", "warn", "A", "", {201}), Req("admin", "adminRead", "", "", Ok),
         Req("admin", "promote", "A", "", {201}), Req("admin", "demote", "A", "", Ok),
         Req("admin", "deleteUser", "A", "", Ok)>>
AdminNegative ==
    <<Req("A", "adminRead", "", "", {401, 403}), Req("admin", "warn", "missing", "", {404})>>

\* runGalleryHappyPath and runGalleryNegativeCases.
Show(do, by) == Req(by, do, "", "", Ok)
GalleryHappy ==
    <<Step("try", "nobody", "public", "", "", Ok), LogIn("admin")>> \o SignUp("A", "")
    \o <<Show("gallery", "nobody"), Show("adminGallery", "admin"),
         Picks(Req("admin", "intent", "image", "", Made)),
         Step("try", "nobody", "public", "", "", Ok), Req("admin", "mark", "image", "", Made),
         Picks(Req("admin", "createGallery", "", "", Made)),
         Show("gallery", "nobody"), Check("shown"),
         Req("admin", "updateGallery", "", "hidden", Made),
         Show("gallery", "nobody"), Check("gone"), Show("adminGallery", "admin"), Check("shown"),
         Req("admin", "updateGallery", "", "active", Made), Show("gallery", "nobody"), Check("shown"),
         Req("admin", "deleteGallery", "", "deleted", Made),
         Show("gallery", "nobody"), Check("gone"), Show("adminGallery", "admin"), Check("gone")>>
GalleryNegative ==
    <<Req("nobody", "createGallery", "", "", {401}), Req("A", "createGallery", "", "", {403}),
      Req("admin", "updateGallery", "missing", "active", {404}),
      Req("admin", "deleteGallery", "missing", "deleted", {404}),
      Req("admin", "createGallery", "", "malformed", {400, 422})>>

\* runPerItemFlow with runSocketFlow; the orders of steps and messages hold in one thread.
SocketFlow == Step("socket", "A", "read", "", "", Ok)
OtherType(t) == IF t = "order" THEN "fault" ELSE "order"
PerItem(t) ==
    <<Picks(Req("admin", "addStep", t, "a", Made)), Picks(Req("admin", "addStep", t, "b", Made)),
      Req("admin", "updateStep", t, "a", Ok), Req("A", "listSteps", t, "", Ok), Check("any"),
      Picks(Req("A", "talk", t, "", Made)), Picks(Req("A", "talk", t, "", Made)),
      Check("any"), Req("A", "message", t, "", Made), Req("admin", "message", t, "", Made),
      Req("A", "messages", t, "", Ok), Check("any"), Req("B", "listSteps", t, "", {403}),
      Req("B", "talk", t, "", {403}), Req("B", "messages", t, "", {403}), Req("B", "message", t, "", {403}),
      Req("A", "messages", t, "otherItem", {404}), Req("admin", "updateStep", t, "missing", {404}),
      Req("admin", "deleteStep", t, "missing", {404}), Req("admin", "deleteStep", t, "a", Ok),
      Req("admin", "deleteStep", t, "b", Ok), SocketFlow>>
\* getCurrentUserId, createGenericChatConversation, createOrder, createFault, createService,
\* runFollowupHappyPath and runFollowupNegativeCases.
ItemsMade ==
    <<Picks(Req("admin", "createProduct", "", "", Made)), Req("A", "addCart", "", "", Made),
      Picks(Req("A", "checkout", "", "", Made)), Picks(Req("A", "create", "fault", "", Made)),
      Picks(Req("A", "create", "service", "", Made))>>
FollowupHappy ==
    Begin("ssn")
    \o <<Picks(Step("quiet", "admin", "me", "", "", Ok)), Picks(Req("A", "chat", "", "", Made))>>
    \o ItemsMade \o PerItem("order") \o PerItem("fault") \o PerItem("service") \o <<Check("any")>>
FollowupNegative == [i \in 1 .. 3 |-> Req("A", "messages", <<"order", "fault", "service">>[i], "missing", {404})]

\* chat-socket-test.ts: registerAndVerifyUser, createConversation, connectSocket, runHappyPath.
Quiet(by, do, of, arg, want) == Step("quiet", by, do, of, arg, want)
RegisterAndVerify(u) ==
    <<Quiet("nobody", "register", u, "ssn", {201}), Quiet("nobody", "verify", u, "otp", {201})>>
CreateConversation == Picks(Quiet("A", "chat", "", "", {201}))
Connect(u) == Quiet(u, "read", "", "", Ok)
Emitted(u) == Quiet(u, "read", "", "", Ok)   \* an event that is acknowledged, or the script throws
ChatScript ==
    RegisterAndVerify("A") \o RegisterAndVerify("B")
    \o <<CreateConversation, Connect("A"), Connect("B")>>
    \o <<Emitted("B"), Emitted("A")>> \o <<Emitted("A"), Emitted("B")>>

\* A script as it would be if it registered without the "ssn" that the server has dropped.
UpToDate(s) == [s EXCEPT !.arg = IF @ = "ssn" THEN "" ELSE @]

Happy(f) ==
    CASE f = "auth" -> AuthHappy [] f = "profile" -> ProfileHappy [] f = "kayan" -> ShopHappy
      [] f = "services" -> ServiceHappy [] f = "faults" -> FaultHappy [] f = "admin" -> AdminHappy
      [] f = "gallery" -> GalleryHappy [] f = "followup" -> FollowupHappy [] f = "chat" -> ChatScript
Negative(f) ==
    CASE f = "auth" -> AuthNegative [] f = "profile" -> ProfileNegative [] f = "kayan" -> ShopNegative
      [] f = "services" -> ServiceNegative [] f = "faults" -> FaultNegative [] f = "admin" -> AdminNegative
      [] f = "gallery" -> GalleryNegative [] f = "followup" -> FollowupNegative [] f = "chat" -> <<>>
Scripts == {"auth", "profile", "kayan", "services", "faults", "admin", "gallery", "followup", "chat"}
Optional == {"kayan", "services", "faults", "admin", "gallery", "followup"}  \* settings, and a report
Settings ==
    {c \in [name : Scripts, negative : BOOLEAN, continue : BOOLEAN, mended : BOOLEAN] :
        /\ c.name \notin Optional => c.negative /\ ~c.continue
        /\ c.mended => c.name \in {"followup", "chat"}}
ScriptOf(c) ==
    LET all == Happy(c.name) \o IF c.negative THEN Negative(c.name) ELSE <<>>
    IN IF c.mended THEN [i \in DOMAIN all |-> UpToDate(all[i])] ELSE all
Steps == [c \in Settings |-> ScriptOf(c)]

----------------------------------------------------------------------------
(* A run of a script. *)

VARIABLES
    config,      \* [name, negative, continue, mended]: the script and its settings
    step,        \* the next one
    world,       \* the server
    code, shows, \* the last status, and whether the last list had what was made
    tally,       \* [passed, failed]: the recorded steps
    exit,        \* "running", or the exit code
    report,      \* the totals in the report file, if one was written
    upsets,
    surprised    \* something was not as the script expects
flowVars == <<config, step, world, code, shows, tally, exit, report, upsets, surprised>>

NoReport == [passed |-> 0, failed |-> 0]
FlowInit ==
    /\ config \in Settings
    /\ step = 1
    /\ \E first \in {"admin", "other"} : world = Fresh(first)
    /\ code = 0 /\ shows = FALSE
    /\ tally = NoReport /\ exit = "running" /\ report = NoReport
    /\ upsets = 0 /\ surprised = FALSE

script == Steps[config]
Current == script[step]
Running == exit = "running" /\ step <= Len(script)
Skipped(s) == (s.when = "unfound" /\ code # 404) \/ (s.when = "unseen" /\ shows)

\* runAndRecord, pushAssertion: what a step leaves in the results, and whether it throws.
Recorded(s, ok) ==
    CASE s.kind \in {"quiet", "need"} \/ (s.kind = "put" /\ ~ok) -> tally
      [] s.kind = "socket" /\ ok -> [tally EXCEPT !.passed = @ + 7]
      [] OTHER -> IF ok THEN [tally EXCEPT !.passed = @ + 1] ELSE [tally EXCEPT !.failed = @ + 1]
Throws(s, ok) ==
    /\ ~ok
    /\ \/ s.kind \in {"must", "quiet", "need", "put"}
       \/ s.kind \in {"ask", "check", "try", "socket"} /\ ~config.continue

\* main().catch: no report, and exit code 1.
Proceed(throws) ==
    IF throws THEN exit' = "1" /\ UNCHANGED step ELSE step' = step + 1 /\ UNCHANGED exit

\* A step that was answered with status c, the body being that of the answer when it is a success.
Take(s, c) ==
    LET ok == c \in s.want
        unpicked == s.pick /\ c >= 300 /\ ~(c = 404 /\ ok)
    IN /\ code' = c
       /\ tally' = Recorded(s, ok)
       /\ surprised' = (surprised \/ ~ok \/ unpicked)
       /\ Proceed(Throws(s, ok) \/ unpicked)

Requests == {"ask", "must", "tally", "quiet", "put", "try", "socket"}
Answered ==
    /\ Running /\ Current.kind \in Requests /\ ~Skipped(Current)
    /\ LET s == Current
           a == Answer(world, s)
       IN /\ Take(s, a.code)
          /\ world' = a.next
          /\ shows' = IF s.do \in Lists THEN a.code = 200 /\ InList(world, s) ELSE shows
    /\ UNCHANGED <<config, report, upsets>>

\* An assertion about the last list, or a need for what it has.
Looked ==
    /\ Running /\ Current.kind \in {"check", "need"}
    /\ LET ok == Current.arg = "any" \/ (shows <=> Current.arg = "shown")
       IN /\ tally' = Recorded(Current, ok)
          /\ surprised' = (surprised \/ ~ok)
          /\ Proceed(Throws(Current, ok))
    /\ UNCHANGED <<config, world, code, shows, report, upsets>>

StepOver ==
    /\ Running /\ Skipped(Current)
    /\ step' = step + 1
    /\ UNCHANGED <<config, world, code, shows, tally, exit, report, upsets, surprised>>

\* The throttle or a server in trouble answers instead of the handler.
TurnedAway ==
    /\ Running /\ Current.kind \in Requests \ {"socket"} /\ ~Skipped(Current) /\ upsets < MaxUpsets
    /\ upsets' = upsets + 1
    /\ Take(Current, 429)
    /\ shows' = (shows /\ Current.do \notin Lists)
    /\ UNCHANGED <<config, world, report>>

\* requestJson aborts after timeoutMs: the step is not recorded, unless the error is caught.
TimedOut ==
    /\ Running /\ Current.kind \in Requests /\ ~Skipped(Current) /\ upsets < MaxUpsets
    /\ upsets' = upsets + 1 /\ surprised' = TRUE
    /\ world' \in {world, Answer(world, Current).next}
    /\ IF Current.kind \in {"try", "socket"}
       THEN tally' = Recorded(Current, FALSE) /\ Proceed(Throws(Current, FALSE))
       ELSE exit' = "1" /\ UNCHANGED <<tally, step>>
    /\ UNCHANGED <<config, code, shows, report>>

Meddle ==
    /\ Running /\ upsets < MaxUpsets
    /\ upsets' = upsets + 1
    /\ world' \in Meddled(world)
    /\ UNCHANGED <<config, step, code, shows, tally, exit, report, surprised>>

\* Wrong variant, for checking the properties: a recorded failure does not count.
VerdictAlways0(t) == "0"
Verdict(t) == IF t.failed > 0 THEN "1" ELSE "0"

Conclude ==
    /\ exit = "running" /\ step > Len(script)
    /\ exit' = Verdict(tally)
    /\ report' = IF config.name \in Optional THEN tally ELSE NoReport
    /\ UNCHANGED <<config, step, world, code, shows, tally, upsets, surprised>>

FlowNext == Answered \/ Looked \/ StepOver \/ TurnedAway \/ TimedOut \/ Meddle \/ Conclude

----------------------------------------------------------------------------
(* Properties. *)

\* The scripts expect of the server what it does: a run that nothing upset ends with
\* exit code 0. Except the two that still register with an "ssn", which the server
\* refuses, and which pass without it; and except that the follow-up script takes its
\* own administrator for the one of the conversation, who is the oldest one.
UndisturbedScriptsPass ==
    exit # "running" /\ upsets = 0 =>
        LET upToDate == config.name \in {"followup", "chat"} => config.mended
            itsOwnAdmin == config.name = "followup" => world.first = "admin"
        IN exit = "0" <=> upToDate /\ itsOwnAdmin

\* The exit code is the truth about the run, whatever upset it and wherever: 0 only when
\* every step was taken and came out as expected, 1 only when something did not; and a
\* report that was written has all the steps, the failed ones included.
VerdictIsTrue ==
    /\ exit = "0" => step > Len(script) /\ ~surprised /\ tally.failed = 0
    /\ exit = "1" => surprised
    /\ report # NoReport => report = tally /\ step > Len(script)

=============================================================================
