# Kayan backend: TLA+ specifications

Kayan is a NestJS server (`src/src`) over one PostgreSQL database (`src/db/migrations`), with an optional
Redis and a socket.io gateway. Customers buy products, report faults, order services, follow their
progress, chat and rate; administrators run the catalogue and move the work on. Beside the server the
repository holds scripts that migrate its database, fill it, and walk through its API. This directory models
the parts where several requests meet in the database, what a client sees of lists that change under it, and
the programs beside the server; it checks them with TLC and proves the most important results with TLAPS.

## Inventory

| Component (source) | State it keeps | Operations that change it | What makes it correct |
|---|---|---|---|
| Catalogue (`kayan.service.ts` 160-203) | `catalog_products`, `product_assets` | create, update, soft-delete | stock never below zero, never changed but by an administrator or an order |
| Cart (247-294) | `cart_items` | add, change, delete a line, checkout | no line ordered twice or dropped, checkout orders what the cart says |
| Orders (205-208, 1237-1281) | `product_orders`, `order_items` | place | takes what it says, at the committed price, or nothing at all |
| Order, fault and service life (352-373, 421-459, 502-509, 602-688, 805-810) | the rows, `*_status_history`, `fault_assets` | create, edit, cancel, admin status | the history explains the status; only allowed transitions |
| Item ratings (916-942) | `item_ratings`, `product_ratings` | rate | one per customer and item, earned by a delivered or finished item |
| Follow-ups (`kayan.service.ts` 812-853, 965-1016) | `followup_steps`, `followup_conversations`, `followup_messages` | steps, open, send | one conversation per item, messages only by its customer and its administrator |
| Gallery and product assets (855-911, 1359-1375, 1454-1462) | `gallery_items`, `gallery_assets`, `product_assets` | create, update, delete | an asset list is that of one call |
| Auth (`auth/`) | `pending_registrations`, `users`, `auth_refresh_tokens`, Redis keys | register, verify, login, refresh, logout, reset | a refresh token is used once; a stale token version opens nothing |
| One-time passwords (`auth/otp-sender`, `auth-state.store.ts`) | `auth_otps`, `auth_otp_attempts` | start, check, count, clean up | attempts are counted and bounded |
| Users, administration (`users/`, `admin/`, guards) | `users`, `admin_audit_logs`, `admin_warnings` | profile, password, avatar, delete, promote, demote, ban | demotion and deletion end old access tokens; phones are unique |
| Files (`files/`) | `files` | upload intent, mark uploaded | what is attached is uploaded, and the owner's where it must be |
| Chat (`chat/chat.service.ts`) | `conversations`, `messages` | open, send, mark read | one conversation per pair, read marks stay |
| Chat sockets (`chat.gateway.ts`, `chat-socket-registry.service.ts`) | `socketsByUserId`, rooms | connect, disconnect, join, broadcast | the registry holds the live sockets |
| Lists (22 of them, in `kayan/`, `admin/`, `products/`, `users/`, `chat/`, `common/helpers/`) | none | page by page, filter, sort, attach children | a walk misses or repeats only what moved meanwhile |
| Legacy products, user ratings (`products/`, `ratings/`) | `products`, `product_images`, `user_ratings` | CRUD, upsert | images belong to their owner |
| Migrations and deployment (`scripts/*.sh`, `db/migrations`) | schema, `schema_migrations` | apply, record, restart | what is recorded is whole; the server comes up |
| Seeders (`*-seeder.ts`) | what they make through the API | run, retry, run again | nothing twice, nothing missing |
| Simulation and test scripts (`scripts/simulate-*`, `test-*`, `lib/`) | what they remember of answers | walk through a flow, record, exit | they pass against this server, and tell the truth when they fail |
| Health, config, logging, mapping, documentation scripts | none | | |

How they interact: a controller calls one service method per HTTP call; the method runs a sequence of SQL
statements, each an `await`, either each on its own (`DatabaseService.query`) or together on one client
between BEGIN and COMMIT (`DatabaseService.withTransaction`). Requests share nothing but the database, Redis
and the socket registry, so everything hard is there: two requests interleaved between any two statements,
row locks, rollback, a request that dies in the middle. The scripts meet the server over HTTP, and each other
in the database: an answer that never arrives, a second run, a container that is restarted under them.

## Modelling decisions

* **One action per statement.** An action is everything a handler does between two awaits of a statement
  other requests can notice. INSERTs of rows no other transaction can see before the COMMIT (the order row,
  its items, its first history row) belong to the step next to them.
* **READ COMMITTED.** `catalog` holds the committed version of a product row, `draft` the newest one; `held`
  says which transaction's lock keeps them apart. `FOR UPDATE` and UPDATE wait for the holder and then work
  on the newest version; a plain SELECT reads `catalog`. A `SELECT ... FOR UPDATE` over many rows
  (`checkoutCart`) is two steps: the snapshot (`CheckoutCart`), and the locks, which re-read the rows and drop
  those deleted meanwhile (`LockCartRows`). Its DELETE (`ClearCart`) marks the rows it sees, `gone`, and the
  COMMIT (`CommitCheckout`) removes these: a row inserted between the two stays.
* **Foreign keys.** INSERT of a cart row takes a KEY SHARE lock on its product, which waits for FOR UPDATE
  (orders) but not for a plain UPDATE (administrators): the `b \in Buyers` of `UpsertCartItem`.
* **Deadlocks.** `DeadlockVictim` rolls back a member of a set of transactions that wait for nobody but each
  other, as PostgreSQL does.
* **Failures.** `StatementFails` lets any request die before any statement: a transaction rolls back, an
  autocommitted statement stays. The answer to the client is not state: `done` and `failed` stand for it.
* **Each request is used once**, so behaviours end when all are answered: the configurations say
  `CHECK_DEADLOCK FALSE`. Waiting for ever is excluded by `EveryRequestAnswered` instead.
* **Sessions.** A token pair is named after the call that issued it and carries what the server read when it
  signed it. Passwords, codes and expiry only refuse calls; a call refused before its first write is no step.
  `audit`, `row` and `account` are tables, `pc`, `seen` and `shown` the locals of a call. `Held` says which
  token pairs a caller may present.
* **One-time passwords.** A code is the call that sent it, and whether a caller types the right one is his
  choice, whenever a code is there; that a code guessed right is one of 10^n is no part of the model. All codes
  live equally long and the clean-up deletes the oldest, so the expired rows are a prefix of `sent` and one
  number tells them apart. Users and registrations are found by the email in lower case, codes and counters by
  the email as typed; the model's callers spell an email one way. Roles, deletion and tokens of the accounts
  are left to `Sessions`.
* **Chat.** The server is one process, and what a handler does between two awaits is one turn of its event
  loop: a handshake and its registration, the join of a room and the events sent to it. Events that carry no
  state of their own (`conversation.joined`, `message.read`, errors) are left out. `audience` and `after` are
  history variables: the code has no such fields, the properties refer to them. `saved` in `Otp` is one too.
* **Files, profiles, assets, follow-ups.** `Profiles`, `Assets` and `Followup` are three modules over one
  database and one set of calls, composed by `Support`: assets and steps need the files that `Profiles`
  announces, conversations need the administrators whose roles it changes. Each statement commits on its own,
  except an asset list, which is replaced in a transaction that the first UPDATE serialises on the row of the
  item. `had` (files a user once had as avatar), `was_admin` and `updated_by` are history.
* **Lists.** Every list of the server is one record of a few fields (whose rows, which statuses, which columns
  in the ORDER BY, a COUNT before, children after, a cursor); one operator per endpoint gives it. The statements
  of an answer, and the answers of a walk, each see the table of their own moment, as READ COMMITTED and a
  client between two requests do. Filters on columns that never change only make the table smaller and are left
  out. Rows the ORDER BY does not tell apart come in any order. `ghost` is history.
* **Programs beside the server.** They have nothing in common but the server, so a behaviour of `Tools` has one
  of them (`tool`).
  `Migrations`: psql commits each statement of a file on its own unless the file says BEGIN; a statement that
  was run before is repeated without harm or fails; processes are killed between any two statements, docker
  restarts the container. `deploy.sh` executes a second run in it, after `docker compose up -d app nginx redis`
  has returned (`DeployUp`): nginx depends on a healthy app (`docker-compose.prod.yml:53-55`), so the container's
  own run is over by then, unless the container is killed in between.
  `DevSeed`: `SeedApiClient.request` with its retries, the `upsert...` functions in the order of `runDevSeed`,
  against the API the seeder was written for, which is external: it has routes and statuses this server has not
  (see Findings). The server may refuse, or run the request and lose the answer.
  `Flows`: the nine scripts as sequences of steps, with what each step expects, does when it does not get it
  (record, throw, stop) and takes from the answer. The server is the part of the guards the steps can tell
  apart, for the two users a script registers. `first` says whether the administrator of the script is the one
  `findAnyAdminId` finds. A run may be upset: by a 429, a time-out, or another administrator who moves the item.
  The scripts read codes from the answers, so `OTP_DEV_MODE` is on; the check of the deprecated routes is off, as
  by default; the results of a socket are one step. A script finds the id it looks for in every answer that is
  a success, under its name or as `id` (`pickId`, and the envelope that lifts the fields of a single object);
  so a pick (`Picks`) throws only when the answer was a refusal.
* **Data** is reduced to what decisions depend on: status, active, amount, price; user, product, quantity;
  statuses, owners and sets of file ids. Texts, addresses and sort orders are left out.

## Modules

| Module | Models | Notes |
|---|---|---|
| `Ordering` | catalogue, cart and order placement | one action per statement; `Item(r)`, `tx[r]` are the handler's locals |
| `AtomicOrdering` | what the shop promises: one step per order, cart change and catalogue change | `Ordering` implements it with the identity mapping on `catalog`, `cart`, `orders` |
| `OrderingProofs` | theorems about `Ordering`, and the refinement of `AtomicOrdering` | one lemma per action for stock; for the cart, the actions are sorted by what they do to it |
| `WorkItems` | life of orders, faults and services after creation, histories, images, ratings | check, write and history are three steps |
| `WorkItemsProofs` | theorems about `WorkItems` | `Step(r)` regroups `Next` by request, `Kind(r)` sorts the steps by what they do to an item |
| `Otp` | codes, attempt counters, pending registrations, the accounts they become, clean-up | the statements of a check (select, count, clear, write) are steps |
| `OtpProofs` | theorems about `Otp` | `Step(r)` regroups `Next` by statement, `Tick` is time and the clean-up |
| `Chat` | conversations, messages, sockets, rooms and the registry | the events of the gateway, one action per statement |
| `ChatProofs` | theorems about `Chat` | `Step(r)` regroups `Next` by statement; connecting and leaving are apart |
| `Sessions` | accounts, roles, refresh tokens, administrators' calls, audit log | strategy, guard, check, write and audit are five steps |
| `SessionsProofs` | theorems about `Sessions` | `Step(r)` regroups `Next` by statement |
| `Profiles` | files, own profile, avatar, password, deletion; roles as administrators change them | the accounts and files the next two need |
| `Assets` | `product_assets`, `gallery_assets` | extends `Profiles`; the row lock is `holder` |
| `Followup` | steps, conversations, messages | extends `Profiles`; choice of administrator and upsert are two steps |
| `Support` | the three above in one database | composition: one `Next`, one `pc` |
| `SupportProofs` | theorems about `Support` | extends `Support`; what a step of one part is for the invariants of the others |
| `Listing` | 22 lists, paged by offset or by cursor, over a table that changes | `ResolveOffsetPagination`, `NormalizeTimestamp`, `BuildFaultOrderClause` are the helpers of the code |
| `ListingProofs` | theorems about `Listing` | order, sets of rows that differ by one, then one lemma per part of the invariant for a change of the table and for an answer |
| `Migrations` | `migrate.sh`, `start-with-migrations.sh`, `deploy.sh`, docker's restart | `runner` is the two runs that can be under way |
| `DevSeed` | `dev-seeder.ts` | `at`, `pc` are where the run is; `seen`, `lists`, `map` its locals |
| `Flows` | the simulation and test scripts with their harnesses | a script is a sequence of steps; `world` is the server |
| `Tools` | the three above, one per behaviour | states the fairness |
| `ToolsProofs` | theorems about `Migrations`, `DevSeed` and `Flows` | extends `Tools`; each part sees the others stutter |
| `MCOrdering`, `MCWorkItems`, `MCSessions`, `MCOtp`, `MCChat`, `MCSupport`, `MCListing`, `MCTools` | constants for TLC | |

Operators named after a mistake (`FreeUnlocked`, `HistoryRowReRead`, ...) stand just before the definition
they are a wrong version of. No specification uses them; replacing the right definition by one of them must
make a run fail, and `PROJECT.json` says which.

## Runs

| Run | Instance | Shows |
|---|---|---|
| `ordering` | two worlds. `OrdersWorld`: 2 direct orders of up to 2 items, 2 administrator calls, 2 products, one not yet created, amounts 0 and 2. `CartWorld`: 2 checkouts of one cart that holds rows of two customers, 3 cart calls | the stock check still holds when the stock is taken; open orders account for the uncommitted rows; a commit removes what it ordered, at the committed price; no row ordered twice, none dropped, quantities final; the steps implement `AtomicOrdering` |
| `ordering_live` | order, 2 checkouts, administrator, two products in either order | every call is answered, deadlocks and failures included |
| `work_items` | three worlds: a fault with creation, 2 edits, cancellation, 2 administrators and ratings, an order and a service with 4 ratings | history explains status, image lists do not mix, terminal statuses are left only by stale readers, ratings are earned |
| `cancel_before_processing` | one cancellation, one administrator | expected violation, see Findings |
| `sessions` | two rounds. Roles: administrator and customer; login, refresh, promotion, demotion, two deletions, one of them of the administrator by the promoted customer, and the customer's own. Tokens: registration, password reset, two refreshes over old and new pairs, logout, own deletion, pause, seeder | a token pair of the current version tells the truth, only administrators act, the audit log has causes, one exchange per refresh token, dead tokens stay dead |
| `logout_revokes` | a logout and a refresh | expected violation, see Findings |
| `otp` | five rounds: two people after one phone; one person registering twice, or with a resent code; the password reset of a new account; wrong codes of an old one | an account is that of a confirmed registration, of the newest one, made once; wrong codes are counted |
| `otp_invalidated` | three resets with one code | expected violation, see Findings |
| `chat` | four rounds on one conversation: two openings and a message; three messages; joining, reading twice, a stranger who tries both | rooms hold participants, messages reach the room once, the last message is a recent one, read marks stay, the product of a conversation changes only by a stale reader |
| `support` | five rounds: three of announcing files and editing, replacing or deleting profiles; three calls on asset lists; two openings, two messages and two role changes; steps and their file | phones stay unique and avatars the user's own, asset lists never mix, a conversation has its customer and one administrator, and nobody else speaks in it |
| `listing` | 5 rows, 4 at the start, two starting contents, each of 13 tables under each of the 22 lists; pages of 2; the table changes twice | a walk misses no more than what left or moved, repeats no more than what came or moved; a cursor repeats nothing and misses only within one millisecond; children are not older than their rows |
| `tools` | migrations: 3 files, one atomic, one repeatable, one neither, 2 kills, 2 deployments; seeder: 13 definitions, 3 runs, 2 losses, 2 attempts; scripts: 9, with and without negative steps, continue-on-failure on and off, 2 upsets | what is recorded is whole; the server comes up; the seeder doubles only by retries and a finished run is complete; undisturbed scripts pass, exit codes and reports are true |

Calls that a round does not make start as `"unmade"` and stay so: a run with several rounds is the union of
smaller instances.

Why the bounds are enough: locks, stale checks and lost updates need two requests on one row; opposite lock
orders need two products; a stale read with a second change in between needs three requests, which the second
world of `work_items` has. Amounts of 2 with quantities 1 and 2 reach the last unit, one too many, and two
orders sharing the stock. `MaxItems = 2` includes an order that names one product twice. In `sessions` the
version of the customer changes up to three times around a login and a refresh that read it once, and both
refreshes may show the same pair, or one the pair the other got. In `otp`, `MaxAttempts = 2` instead of 5 lets
the counter be raised, reach its limit, be cleared and be raised again by four calls, and a second call hit the
limit while the first one is between its two statements; one lapse (`MaxLapses`) falls anywhere between them.
In `chat` a message is stored and announced while the other sockets join and leave, and the conversation it
belongs to may be there before, be opened, or be opened twice at once.

In `support` the file of a list may not be uploaded or not exist, two calls change one list while a third
deletes its item, and a role changes before, between and after the two statements of an opening. In `listing`,
5 rows in pages of 2 are three pages, so a change falls before, between and after the pages it can disturb; two
changes are an arrival after a departure, or a row that moves twice; `Tick = 2` microseconds per millisecond
gives two stamps that a cursor cannot tell apart. In `tools`, two kills are one in the first run and one in the
run that repeats it; two deployments are one whose container is killed after it was
seen healthy, so that its run meets the restarted one, and one that finds all done; two attempts instead
of four, with two losses, exhaust the retries of one request or upset two; three runs are one cut off,
one that completes it and one that finds all done; two upsets let a script fail, go on, and fail again.

Fairness. `ordering_live`: weak fairness of each request's own next statement. Node runs the
continuation of a statement that answered, and PostgreSQL grants a row lock after its holder ends. Nothing
forces a client to call, an administrator's first statement, or a failure. Weak fairness is enough because a
waiting request's statement, once its row is free, competes only with finitely many other requests. `tools` (`ToolsFairness`): weak fairness of each run of
`migrate.sh`, of the start of the server after it and of docker's restart (`restart: unless-stopped`): the
operating system runs what is runnable. No kill, deployment, or step of the seeder and the scripts is forced.

## Proofs

`OrderingProofs` proves for every set of users, products and calls, every initial catalogue and cart
that satisfy the named assumptions of `Ordering`:

* `TypeCorrect`: `Spec => []TypeOK`, together with `Cursor` (a request looks at an item only while its list
  has one), without which neither `Item(r)` nor the subtraction of `TakeStock` has a type.
* `StockInvariant`: `Spec => []StockInv`. `StockCheckHolds` alone is not inductive: a lock held by two
  orders, or an order holding a row with a version it does not know, would break it in one step. `StockInv`
  adds `Stages` (who may be where and hold what), `Locks` (a row is locked once; unlocked rows have one
  version) and `Accounts` (the two versions of a row an order locked differ by what it took).
* `StockCheck`, `OpenOrders`: consequences of it; `OrdersStock`: the action property
  `OrdersTakeTheirStock`, from the invariant and one lemma for each action that moves committed stock.

Of the cart it proves, from the same assumptions:

* `OneFate`: `Spec => []RowsHaveOneFate`. `NoRowOrderedTwice` is not inductive: it does not say that a row a
  checkout locked is still in the cart, that its DELETE took what it orders, or that the id of a new row is not one that was ordered before.
  `RowsHaveOneFate` does; its step needs `StockInv` only for the shape of the state and for nobody committing
  twice.
* `RowsOrderedOnce`: `Spec => []NoRowOrderedTwice`, from it.
* `CheckoutsBuyCarts`: the action property `CheckoutBuysTheCart`. What a checkout orders was decided when it
  locked its rows, some statements before the DELETE and the COMMIT. `LinesInv` carries it there: the cart has
  one row per customer and product (the UNIQUE constraint), the lines of a checkout are its locked rows in their
  present quantities, since a cart call waits for the lock, and what it took so far is a prefix of the lines.
* `ImplementsTheShop`: `Spec => ImplementsAtomicOrdering`, the refinement. The mapping is the identity on the
  committed rows. A COMMIT is `Place` or `Checkout` of the atomic shop (`OpenOrderAccounts` says that what is
  published differs from the committed rows by the order alone, `StockInv` that it was there); a statement that
  publishes a cart row or a product is one change; every other statement, the DELETE before the COMMIT, a rollback
  and the choice of a deadlock victim leave the three variables alone. What the atomic shop promises of a checkout
  is no more than the code keeps: the ordered rows leave the cart, what else leaves is a line of the same customer,
  and a line put in after the DELETE stays (`RowsHaveOneFate`: what a DELETE marked is nobody else's).

`SessionsProofs` proves for every set of users, old tokens and calls, and every choice of who presents what:

* `SessionsInvariant`: `Spec => []SessionsInv`. `FreshTokensAreTrue` is not inductive: a call may hold what it
  read before a demotion and sign it afterwards. `SeenIsTrue` adds that what was read is still true *of its
  version*. It is carried by one relation between accounts, `AccountMoves`: every step keeps or raises the
  version of an existing account, and with the same version nobody is deleted or loses the role.
  `ExchangedOnce` needs `ConsumedByItsCall` (a row is consumed by the call that shows it),
  `SessionKeepsItsVersion` needs `SignsForItsSession` and `SignsOnce`, `AdministratorsAct` needs
  `GuardSeesACaller`, since AdminGuard does not look at `deleted_at` and JwtStrategy does.
* `TokensAreTrue`, `OnlyAdministratorsAct`, `OneExchange`, `SessionsKeepVersion`, `DeadTokens`: the
  properties of the runs, from the invariant.
* `AuditedCallsHappened`: `Spec => []AuditHasACause`, from an invariant of its own (`AuditInv`): a call that is
  about to be told has written, or its user is deleted, and nobody comes back from that; a promotion or demotion
  past its SELECT names a user who was there.

`OtpProofs` proves for every set of emails, phones and calls, finite or not, every number of attempts and every
bound on lapses:

* `OtpInvariant`: `Spec => []OtpInv`. `WrongCodesAreCounted` is not inductive, since it does not mention the
  counter. `CountersKeepUp` does: what was let pass is at most `MaxAttempts - 1` for every clearing so far, plus
  what the counter says now, and what the `DELETE` of `clearOtpAttempts` takes away the call that ran it gives
  back. `FoundIsItsKind` and `PendingIsOneRequest` carry a code and a registration through the statements of a
  check to the account; `ConfirmedHasAccount` is why a second confirmation fails on UNIQUE.
* `PhonesAreUnique`, `RegistersOnce`, `AccountsConfirmed`, `WrongCodesCounted`: the properties of the run. The
  proofs add `FewAnswered`, that the sets which are counted are finite, rather than assume finitely many calls.
* `LatestRegistrationWins`: `Spec => []AccountIsOfTheLatestRegistration`, from `SavedInv`: a registration is saved
  once and before its code is sent, so a code that is found is of a saved one; the one that waits is the latest
  saved of its email (`LatestWaits`), and that is the one that becomes the account.

`SupportProofs` proves for every set of users, files, items, products, lists and calls, and every content of the
tables in the beginning that keeps the rules (`InitialAssumption`):

* `SupportInvariant`: `Spec => []SupportInv`. None of the three properties is inductive: each speaks of what is
  committed, and is kept by checks that were made some statements before. `CheckedAvatars` carries the check of
  `updateMe` to its UPDATE: the file it found uploaded and its own still is, because a file that was announced
  keeps owner and purpose and stays uploaded (`FilesStay`). `Openings` and `Speakers` carry the checks of a
  conversation to its upsert and its message; they hold of the past (`was_admin`, `had`), since the code does not
  ask again. `ListsInv` says what an open transaction has done: its holder is its own (`OneOpenEach`, the row
  lock), it has deleted the rows of the lists it has replaced and no others, its own rows spell these lists, and
  with them no file would be there twice (`Transaction`).
* The lemmas `...AreLeftAlone` say that a step of one part keeps the invariants of the others, by how its call
  moves (`ProfilesMoves`, `AssetsMoves`, `FollowupMoves`).
* `SupportTypes`, `ProfilesStayTheirs`, `ListsOfOneCall`, `ConversationParties`: the invariants of the run.

`WorkItemsProofs` proves for every set of items, files, customers and requests, and every history an item may
start with:

* `WorkItemsInvariant`: `Spec => []WorkInv`. `HistoryExplainsStatus` is kept by the requests that have written the
  status and not yet the history: they are part of the explanation (`EverHad`), and stay so when they die. To it
  `Selected` adds what a request that checked a status knows when it writes, `Earning` that what createItemRating
  found stays true of the past, `Locking` that one transaction of updateFault holds a fault and has seen all the
  images that are there, `LastEdit` that the edit a fault names was answered.
* `HistoryExplains`, `RatingsEarned`, `ImagesAreOneList`, `TerminalFaults`: the properties of the run.
  `KindsAssumption` says that orders, faults and services are apart and that `None` is no item, request or status.

`ChatProofs` proves for every set of users, sockets, conversations and calls:

* `ChatInvariant`: `Spec => []ChatInv`. `RoomsHoldParticipants` needs `Admitted`: the check of a join is made a
  statement before the join, and the conversation and its two users are still there then. `HeardByTheRoom` needs
  `Listening`: who was in the room when a message was stored is in it until the message is announced, or has
  closed his socket for good. `LastMessageIsRecent` needs `Ordered`: a call that has set `last_message_id` is not
  hidden by one that was answered before it began.
* `RoomsAreOfParticipants`, `MessagesAreHeard`, `LastMessages`, `ReadMarks`, `ContextsChange`: the properties of
  the run.

`ToolsProofs` proves

* for every number and kind of migration files, kills and deployments: `MigrationsInvariant`,
  `MigSpec => []MigInv`, where `MigSpec` is what `Tools` does in the behaviours of the migrations, and
  `RecordedFilesAreWhole`. `RecordedIsWhole` needs where the two runs are (`RunsInOrder`): a run that records a
  file has executed all of it, and what was executed is never undone.
* for every script and number of upsets: `VerdictsAreTrue`. `Books` says what holds of a script that is still
  running: one that goes on after a surprise has recorded it.
* for every list of definitions (`DefinitionsAssumption` says what the lists in the code are like: keys are given
  once, messages follow their conversation, who is moderated is an earlier user, once) and every number of
  retries, losses and runs: `SeederInvariant`, `SeededOnce`, `FinishedSeedsAreWhole`. `SeedInv` has three parts.
  `SeedTables` is about the server, whoever asks: among it `Banned`, that a row of a moderation means that its
  user cannot log in, so that no later run comes to look at it. `Ahead` says that what the run has read of the
  tasks to come is what the server holds: nobody else changes them, and a request of a task touches its own key
  only, or that of the user it moderates, who is behind. `Here` and `Behind` say what a run knows of the task it is
  at and has left of those before. There is one lemma per function of the seeder (`...Keeps`); each ends with
  `StaysHere` or `MovesOn`, which turn what the function did to its own task into the invariant. A lost answer is
  a request that was served and stays where it was.

`ListingProofs` proves for every finite set of ids, every initial table, all moments and ranks, every page size and
number of changes:

* `ListingInvariant`: `Spec => []ListInv`. The three properties speak of a finished walk, or of rows shown, and are
  not inductive. `Paging` says what a walk under way owes: a row that stayed is *lost* if its place in the list is
  behind the walk and it was not shown, and *due* if it was shown and its place is ahead. A change moves one row
  (`ChangesOneRow`), and every other row by one place at most (`ChangeMovesByOne`), so it makes at most one row lost
  and one due, and only if a row left or moved, or came or moved. A page shows the rows of the places it passes
  (`PagePlaces`), so it loses none, and each row it shows again was due (`PagePaging`, an injection). Places exist
  because ORDER BY is a strict total order of rows that are not tied (`PrecedesOrders`, `PrecedesIsTotal`,
  `RanksAreAll`). `Counting` bounds the total the same way, `Waiting` says that rows waiting for their children do
  not get older, `Shape` ties the page number to the rows seen.
* `AtTheCursor` is the part for messages, which only ever come: what was shown is not before the cursor, and what
  was neither shown nor shares its millisecond with a message shown is still strictly before it. The rounding
  of the cursor enters by one fact (`Rounding`): a moment between the cut timestamp and the timestamp has its
  millisecond.
* `WalksMissLittle`, `CursorMissesLittle`, `ChildrenAreFresh`: the properties of the run, from it.

In `OrderingProofs` there is one lemma per action and part of the invariant (`...Type`, `...Locks`), collected by
`StepType` and `StepLocks`; in `SessionsProofs` and `OtpProofs` one lemma per part (`...Step`), over the step
of one call, as in `WorkItemsProofs` and `ChatProofs`; in `SupportProofs` one per action (`...Lists`) or part. The initial sets are arbitrary and, but for
the ids of a list, need not be finite; the only assumptions are those named in `Ordering`, `WorkItems`, `Sessions`,
`Otp`, `Chat`, `Profiles`, `Assets`, `Followup`, `Support`, `Listing`, `Migrations` and `DevSeed`, which TLC
evaluates in the runs.

`TypeOK` of `Ordering`, `StockInv`, `RowsHaveOneFate`, `SessionsInv`, `SessionKeepsItsVersion`, `OtpInv`,
`OnePhoneOneAccount` and `ListInv` are proved, and no run repeats them; they were checked with TLC before.

Only model-checked: liveness (`EveryRequestAnswered`, `AppComesUp`: out of the prover's reach);
and `UndisturbedScriptsPass`, which is about finitely many runs of nine fixed scripts, all of which TLC goes through.

## Findings

* `cancel_before_processing`: `cancelOrder`, `cancelFault` and `cancelService` read the status and then
  write without a condition. A cancellation can overwrite a status an administrator set in between, which
  the guides exclude (`docs/module-3-products-integration.md:472`).
* `logout_revokes`: the `catch` of `logout` takes a failing UPDATE for an expired token and answers success; the
  refresh token lives on (`docs/module-1-auth-integration.md:300`).
* `otp_invalidated`: the lock-out answers "Too many attempts — OTP invalidated"
  (`src/auth/otp-sender/console-otp.sender.ts:80`), but only deletes the counter
  (`auth-state.store.ts:71`): the code is accepted afterwards. The bound of `WrongCodesAreCounted` is therefore
  one per lock-out, not one per code.

Worth knowing, no finding: a registration may be replaced between the check of its code and the transaction
that uses it, and the account is then that of the newer one (`AccountIsOfTheLatestRegistration`). Two openings
of a conversation at once: the second fails on UNIQUE, and a call that read a conversation without a product
overwrites the product another one set meanwhile (`ContextChangedOnlyByStaleRead`). `AuditHasACause` allows one exception, a promotion or demotion of a user deleted
between its check and its UPDATE, which is told in the audit log although nothing was written.


Also of the server:

* `adminUpdateFaultStatus` checks the transition against the status it read, so a fault cancelled in between is
  moved on, which `docs/module-4-faults-integration.md:240` excludes. `TerminalFaultLeftOnlyByStaleRead` shows
  that nothing else makes a terminal fault move.
* `used_at` of a code is never set, and a code resets a password as often as it is typed before it expires
  (`src/auth/dto/reset-password.dto.ts:9` calls it a one-time password).
* `listProducts` filters by `created_at`, which is a column of the joined `product_ratings` too: with `fromDate`
  or `toDate` the query fails and the answer is 500 (`docs/kayan-srs.md:106`). `SelectFails` is this answer.
* `listUsers`, `listAdmins`, `listUserListings`, `getPublicProfile`, `listConversations`, `listMessages` and the
  messages of a follow-up sort without the id: rows of one moment may change places between two pages.
  `WalksMissOnlyWhatMoved` says nothing of them.
* A product rating goes to `product_ratings`; `getItemReviews` reads `item_ratings` only.

Of the programs beside it:

* A file that psql commits statement by statement and that cannot be repeated, as 0023 (`ADD COLUMN` without
  `IF NOT EXISTS`), wedges when its run is killed inside it: every restart fails in it. `AppComesUp` excepts
  exactly this. Without a kill the server comes up.
* `chat-socket-test.ts` and the follow-up flow register with a field `ssn` that the DTO does not have and the
  validation pipe forbids: both stop there, with 400. `UndisturbedScriptsPass` is about what they do without that
  field (`UpToDate`; `Flows` has both): then both pass, the follow-up flow only if its administrator is the oldest
  active one.
* A time-out throws out of a flow even with `continueOnFail`: exit code 1 and no report. The negative steps of the
  auth and profile scripts never throw. `VerdictIsTrue` is stated so.
* `dev-seeder.ts` asks for routes this server does not have, and stops in its preflight
  (`docs/review.md:13-26`). Against the API it was written for it uploads the images of known products again, maps
  a new report that stays open as "reused", and a second run stops at the login of a user the first one banned.

## Not modelled

* Legacy product writes, user ratings (one upsert), `createWarning` (one INSERT nothing reads back): they interact
  with nothing that is modelled.
* `prod-seeder.ts` inserts into `categories`, which migration 0022 dropped.
* The Redis client and its keys, which are written and never read; relation expansion, which adds rows to answers.
* Logging, envelopes, filters, health, configuration, response mapping and validation of fields keep no state; the
  documentation scripts read source text. The storage provider, mail and JWT signatures are external.
* The size of the connection pool, and a connection that breaks during ROLLBACK.

## Plan

1. Done: `Ordering`, `WorkItems`, `Sessions`, `Otp`, `Chat`, `Support`, `Listing`, `Tools`.
2. Done: proofs of the invariants and action properties of `Ordering` (with the refinement), `WorkItems`,
   `Sessions`, `Otp`, `Chat`, `Support`, `Listing`, and of `Migrations`, `DevSeed` and `Flows` in `Tools`.
3. Left: what stays with TLC, see Proofs.
