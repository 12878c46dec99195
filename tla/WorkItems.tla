----------------------------- MODULE WorkItems ------------------------------
(***************************************************************************)
(* What happens to an order, a fault report and a service order after (and *)
(* for faults and services, while) it is created: the customer edits or    *)
(* cancels it, administrators move it on, its status history grows, and    *)
(* the customer rates it.                                                  *)
(*                                                                         *)
(* Only createFault and updateFault run in a transaction.  Everywhere else *)
(* each statement commits on its own, so the check of the status, the      *)
(* UPDATE and the INSERT into the history are three steps, between which   *)
(* other requests run and after each of which the request may die.         *)
(***************************************************************************)
EXTENDS Naturals, Sequences, FiniteSets

CONSTANTS
    Orders, Faults, Services,   \* items
    CreateReqs,                 \* POST /faults, POST /services
    EditReqs,                   \* PATCH of the address or the details
    CancelReqs,                 \* POST .../cancel
    StatusReqs,                 \* PATCH /admin/.../status
    RatingReqs,                 \* POST /ratings/items
    Caller,                     \* authenticated user of a request
    Owner,                      \* user_id of an item
    OrderItems,                 \* products of an order
    Rated,                      \* product named by a rating of an order
    Files, GoodFiles,           \* file ids; those assertValidFaultImageFiles accepts
    Worlds,                     \* initial states: the item that is there or is to be created,
                                \* the statuses it went through, the calls that are made
    None

Items == Orders \cup Faults \cup Services
Reqs == CreateReqs \cup EditReqs \cup CancelReqs \cup StatusReqs \cup RatingReqs

OrderStatus == {"received", "ready_to_ship", "on_the_way", "cancelled", "delivered"}
FaultStatus == {"received", "assigned", "on_the_way", "in_progress", "finished", "cancelled"}
ServiceStatus == {"not_started", "in_progress", "cancelled", "finished"}
Statuses(i) == IF i \in Orders THEN OrderStatus
               ELSE IF i \in Faults THEN FaultStatus ELSE ServiceStatus
AllStatuses == OrderStatus \cup FaultStatus \cup ServiceStatus

FirstStatus(i) == IF i \in Services THEN "not_started" ELSE "received"
RateableStatus(i) == IF i \in Orders THEN "delivered" ELSE "finished"

ASSUME KindsAssumption ==
    /\ Orders \cap Faults = {} /\ Services \cap (Orders \cup Faults) = {}
    /\ CreateReqs \cap (EditReqs \cup CancelReqs \cup StatusReqs \cup RatingReqs) = {}
    /\ EditReqs \cap (CancelReqs \cup StatusReqs \cup RatingReqs) = {}
    /\ CancelReqs \cap (StatusReqs \cup RatingReqs) = {}
    /\ StatusReqs \cap RatingReqs = {}
    /\ GoodFiles \subseteq Files /\ None \notin AllStatuses
    /\ \A w \in Worlds :
          /\ w.item \in Items /\ w.past \in Seq(Statuses(w.item)) /\ w.calls \subseteq Reqs
          /\ \A r \in CreateReqs \cap w.calls :
                w.item \notin Orders /\ Owner[w.item] = Caller[r]

VARIABLES
    row,      \* each item's row
    images,   \* file ids in fault_assets
    history,  \* rows of the item's status history
    ratings,  \* rating requests whose row was inserted
    pc,       \* where each request is
    pick      \* its locals: the item it names, the status it writes, the status it
              \* read, the files it sends, the rows its DELETE removes

vars == <<row, images, history, ratings, pc, pick>>

\* lastEdit is the creation or edit that committed last (it set updated_at).
Row == [status : AllStatuses \cup {None}, cancelledAt : BOOLEAN, lastEdit : Reqs \cup {None}]
Absent == [status |-> None, cancelledAt |-> FALSE, lastEdit |-> None]

\* An item that is there was created by an earlier request (createOrderRecord
\* commits an order with its first history row), and its history is complete.
Init ==
    /\ \E w \in Worlds :
          /\ row = [i \in Items |->
                      IF i # w.item \/ w.past = <<>> THEN Absent
                      ELSE [Absent EXCEPT !.status = w.past[Len(w.past)]]]
          /\ history = [i \in Items |-> IF i # w.item THEN <<>> ELSE
                          [n \in DOMAIN w.past |-> [status |-> w.past[n], by |-> None]]]
          /\ pc = [r \in Reqs |-> IF r \in w.calls THEN "new" ELSE "unmade"]
          /\ pick = [r \in Reqs |-> [item |-> w.item, status |-> None, saw |-> None,
                                     files |-> None, gone |-> {}]]
    /\ images = [i \in Items |-> {}]
    /\ ratings = {}

-----------------------------------------------------------------------------
(* Steps the handlers share *)

Target(r) == pick[r].item
Exists(i) == row[i].status # None
Owned(r) == Exists(Target(r)) /\ Owner[Target(r)] = Caller[r]
Goes(r, there) == pc' = [pc EXCEPT ![r] = there]
Sees(r) == pick' = [pick EXCEPT ![r].saw = row[Target(r)].status]
Refused(r) == Goes(r, "failed") /\ UNCHANGED <<row, images, history, ratings, pick>>

\* LockIgnored: the UPDATE of updateFault is left out when no column changes.
\* A fault row that an updateFault transaction has updated stays locked.
LockIgnored(i, r) == TRUE
Unlocked(i, r) ==
    \A q \in EditReqs \ {r} : Target(q) = i => pc[q] \notin {"assets", "commit"}

\* INSERT INTO ..._status_history, a statement of its own.
\* HistoryRowReRead records the status the row has by then, HistoryRowOfRead the
\* status the handler had read.
HistoryRowReRead(r) == [status |-> row[Target(r)].status, by |-> r]
HistoryRowOfRead(r) == [status |-> pick[r].saw, by |-> r]
HistoryRow(r) == [status |-> pick[r].status, by |-> r]
WriteHistory(r) ==
    /\ pc[r] = "history"
    /\ history' = [history EXCEPT ![Target(r)] = Append(@, HistoryRow(r))]
    /\ Goes(r, "done")
    /\ UNCHANGED <<row, images, ratings, pick>>

\* The request dies: the transaction of updateFault is undone, but a status
\* already written stays, without its history row.
StatementFails(r) ==
    /\ pc[r] \notin {"unmade", "new", "done", "failed", "unrecorded"}
    /\ Goes(r, IF pc[r] = "history" THEN "unrecorded" ELSE "failed")
    /\ UNCHANGED <<row, images, history, ratings, pick>>

-----------------------------------------------------------------------------
(* Creation *)

\* createFault: row, images and first history row commit together or not at all.
CreateFault(r) ==
    /\ Target(r) \in Faults /\ pc[r] = "new" /\ ~Exists(Target(r))
    /\ \E files \in SUBSET Files :
          IF files \subseteq GoodFiles
          THEN /\ row' = [row EXCEPT ![Target(r)] =
                            [Absent EXCEPT !.status = "received", !.lastEdit = r]]
               /\ images' = [images EXCEPT ![Target(r)] = files]
               /\ history' = [history EXCEPT ![Target(r)] =
                                <<[status |-> "received", by |-> r]>>]
               /\ pick' = [pick EXCEPT ![r].files = files, ![r].status = "received"]
               /\ Goes(r, "done")
               /\ UNCHANGED ratings
          ELSE Refused(r)

\* createService: the row is there before its first history row.
CreateService(r) ==
    /\ Target(r) \in Services /\ pc[r] = "new" /\ ~Exists(Target(r))
    /\ row' = [row EXCEPT ![Target(r)] =
                 [Absent EXCEPT !.status = "not_started", !.lastEdit = r]]
    /\ pick' = [pick EXCEPT ![r].status = "not_started"]
    /\ Goes(r, "history")
    /\ UNCHANGED <<images, history, ratings>>

-----------------------------------------------------------------------------
(* Edits *)

\* The SELECT of updateOrderAddress, updateFault, updateService and of the
\* three cancellations.
Editable(r) == Owned(r) /\ row[Target(r)].status = FirstStatus(Target(r))

SelectForEdit(r) ==
    /\ pc[r] = "new"
    /\ IF Editable(r)
       THEN Sees(r) /\ Goes(r, "write") /\ UNCHANGED <<row, images, history, ratings>>
       ELSE Refused(r)

UpdateDetails(r) ==
    /\ pc[r] = "write" /\ Target(r) \notin Faults
    /\ row' = [row EXCEPT ![Target(r)].lastEdit = r]
    /\ Goes(r, "done")
    /\ UNCHANGED <<images, history, ratings, pick>>

UpdateOrderAddress(r) == Target(r) \in Orders /\ (SelectForEdit(r) \/ UpdateDetails(r))
UpdateService(r) == Target(r) \in Services /\ (SelectForEdit(r) \/ UpdateDetails(r))

\* UPDATE fault_reports inside the transaction: takes the row lock.
UpdateFaultRow(r) ==
    /\ pc[r] = "write" /\ Unlocked(Target(r), r)
    /\ \E files \in (SUBSET Files) \cup {None} : pick' = [pick EXCEPT ![r].files = files]
    /\ Goes(r, "assets")
    /\ UNCHANGED <<row, images, history, ratings>>

\* syncFaultAssets: validation, DELETE of the rows it sees, INSERT of its own.
SyncFaultAssets(r) ==
    /\ pc[r] = "assets"
    /\ IF pick[r].files = None \/ pick[r].files \subseteq GoodFiles
       THEN /\ pick' = [pick EXCEPT ![r].gone = images[Target(r)]]
            /\ Goes(r, "commit")
            /\ UNCHANGED <<row, images, history, ratings>>
       ELSE Refused(r)

CommitFault(r) ==
    /\ pc[r] = "commit"
    /\ row' = [row EXCEPT ![Target(r)].lastEdit = r]
    /\ images' = IF pick[r].files = None THEN images
                 ELSE [images EXCEPT ![Target(r)] = (@ \ pick[r].gone) \cup pick[r].files]
    /\ Goes(r, "done")
    /\ UNCHANGED <<history, ratings, pick>>

UpdateFault(r) ==
    /\ Target(r) \in Faults
    /\ SelectForEdit(r) \/ UpdateFaultRow(r) \/ SyncFaultAssets(r) \/ CommitFault(r)

-----------------------------------------------------------------------------
(* Cancellations and status changes *)

Writes(r, status) ==
    /\ Unlocked(Target(r), r)
    /\ pick' = [pick EXCEPT ![r].status = status]
    /\ row' = [row EXCEPT ![Target(r)].status = status,
                          ![Target(r)].cancelledAt = @ \/ r \in CancelReqs]
    /\ Goes(r, "history")
    /\ UNCHANGED <<images, history, ratings>>

Cancel(r) == SelectForEdit(r) \/ (pc[r] = "write" /\ Writes(r, "cancelled")) \/ WriteHistory(r)
CancelOrder(r) == Target(r) \in Orders /\ Cancel(r)
CancelFault(r) == Target(r) \in Faults /\ Cancel(r)
CancelService(r) == Target(r) \in Services /\ Cancel(r)

\* adminUpdateOrderStatus and adminUpdateServiceStatus write any status.
SetAnyStatus(r) ==
    \/ /\ pc[r] = "new"
       /\ IF Exists(Target(r))
          THEN \E status \in Statuses(Target(r)) : Writes(r, status)
          ELSE Refused(r)
    \/ WriteHistory(r)
AdminUpdateOrderStatus(r) == Target(r) \in Orders /\ SetAnyStatus(r)
AdminUpdateServiceStatus(r) == Target(r) \in Services /\ SetAnyStatus(r)

FaultNextBackwards(s) == FaultStatus
FaultNext(s) ==
    CASE s = "received" -> {"assigned", "cancelled"}
      [] s = "assigned" -> {"on_the_way", "cancelled"}
      [] s = "on_the_way" -> {"in_progress", "cancelled"}
      [] s = "in_progress" -> {"finished", "cancelled"}
      [] s \in {"finished", "cancelled"} -> {}
FaultTransition(from, to) == from = to \/ to \in FaultNext(from)

\* adminUpdateFaultStatus checks the transition against the status it read.
SelectFault(r) ==
    /\ pc[r] = "new"
    /\ \E status \in FaultStatus :
          IF Exists(Target(r)) /\ FaultTransition(row[Target(r)].status, status)
          THEN /\ pick' = [pick EXCEPT ![r].status = status,
                                       ![r].saw = row[Target(r)].status]
               /\ Goes(r, "write")
               /\ UNCHANGED <<row, images, history, ratings>>
          ELSE Refused(r)
AdminUpdateFaultStatus(r) ==
    /\ Target(r) \in Faults
    /\ SelectFault(r) \/ (pc[r] = "write" /\ Writes(r, pick[r].status)) \/ WriteHistory(r)

-----------------------------------------------------------------------------
(* createItemRating *)

Key(r) == <<Caller[r], Target(r), IF Target(r) \in Orders THEN Rated[r] ELSE None>>
RateableAnyStatus(r) == TRUE
Rateable(r) == row[Target(r)].status = RateableStatus(Target(r))

\* assertRateableProduct: owner and status, then the products of the order.
SelectRatedOrder(r) ==
    /\ pc[r] = "new" /\ Target(r) \in Orders
    /\ IF Owned(r) /\ Rateable(r)
       THEN Goes(r, "check") /\ UNCHANGED <<row, images, history, ratings, pick>>
       ELSE Refused(r)
SelectRatedProduct(r) ==
    /\ pc[r] = "check" /\ Target(r) \in Orders
    /\ IF Rated[r] \in OrderItems[Target(r)]
       THEN Goes(r, "insert") /\ UNCHANGED <<row, images, history, ratings, pick>>
       ELSE Refused(r)

\* assertRateableItem: resolveOwnership, then the status.
ResolveOwnership(r) ==
    /\ pc[r] = "new" /\ Target(r) \notin Orders
    /\ IF Owned(r)
       THEN Goes(r, "check") /\ UNCHANGED <<row, images, history, ratings, pick>>
       ELSE Refused(r)
SelectRatedItem(r) ==
    /\ pc[r] = "check" /\ Target(r) \notin Orders
    /\ IF Rateable(r)
       THEN Goes(r, "insert") /\ UNCHANGED <<row, images, history, ratings, pick>>
       ELSE Refused(r)

\* UNIQUE(user_id, order_id, product_id) and UNIQUE(user_id, item_type, item_id).
Unique(r) == \A q \in ratings : Key(q) # Key(r)
InsertRating(r) ==
    /\ pc[r] = "insert"
    /\ IF Unique(r)
       THEN ratings' = ratings \cup {r} /\ Goes(r, "done") /\ UNCHANGED <<row, images, history, pick>>
       ELSE Refused(r)

CreateItemRating(r) ==
    \/ SelectRatedOrder(r) \/ SelectRatedProduct(r)
    \/ ResolveOwnership(r) \/ SelectRatedItem(r)
    \/ InsertRating(r)

-----------------------------------------------------------------------------
Next ==
    \/ \E r \in CreateReqs : CreateFault(r) \/ CreateService(r) \/ WriteHistory(r)
    \/ \E r \in EditReqs : UpdateOrderAddress(r) \/ UpdateFault(r) \/ UpdateService(r)
    \/ \E r \in CancelReqs : CancelOrder(r) \/ CancelFault(r) \/ CancelService(r)
    \/ \E r \in StatusReqs :
          \/ AdminUpdateOrderStatus(r) \/ AdminUpdateFaultStatus(r)
          \/ AdminUpdateServiceStatus(r)
    \/ \E r \in RatingReqs : CreateItemRating(r)
    \/ \E r \in Reqs : StatementFails(r)

Spec == Init /\ [][Next]_vars
-----------------------------------------------------------------------------
(* Properties *)

PC == {"unmade", "new", "write", "assets", "commit", "check", "insert", "history",
       "done", "failed", "unrecorded"}

\* The shape of the state.
TypeOK ==
    /\ row \in [Items -> Row]
    /\ images \in [Items -> SUBSET Files]
    /\ DOMAIN history = Items
    /\ \A i \in Items : history[i] \in Seq([status : Statuses(i), by : Reqs \cup {None}])
    /\ \A i \in Items : Exists(i) => row[i].status \in Statuses(i)
    /\ ratings \subseteq RatingReqs
    /\ pc \in [Reqs -> PC]
    /\ pick \in [Reqs -> [item : Items, status : AllStatuses \cup {None}, saw : AllStatuses \cup {None},
                          files : (SUBSET Files) \cup {None}, gone : SUBSET Files]]

\* A request that has changed a status and not (or not yet) written its history row.
Unrecorded(i) == {r \in Reqs : Target(r) = i /\ pc[r] \in {"history", "unrecorded"}}
Recorded(i) == {history[i][n] : n \in DOMAIN history[i]}
\* The statuses an item has had.
EverHad(i) == {h.status : h \in Recorded(i)} \cup {pick[r].status : r \in Unrecorded(i)}

\* The audit trail explains the state: an item's status is in its history, or a
\* request that died or is about to write the row had set it; each request has
\* at most one row, with the status that request wrote; a creation that no row
\* records is one whose second statement never ran.
HistoryExplainsStatus ==
    \A i \in Items : Exists(i) =>
        /\ row[i].status \in EverHad(i)
        /\ \A m, n \in DOMAIN history[i] :
              history[i][m].by = history[i][n].by /\ m # n => history[i][m].by = None
        /\ \A h \in Recorded(i) : h.by # None =>
              Target(h.by) = i /\ pc[h.by] = "done" /\ pick[h.by].status = h.status
        /\ \E r \in CreateReqs \cup {None} :
              r \in Unrecorded(i) \/ r \in {h.by : h \in Recorded(i)}

\* createItemRating: a rating is by the item's owner, of a product of the order,
\* and the item had reached delivered or finished, whatever administrators made
\* of its status since.
RatingsAreEarned ==
    \A r \in ratings : LET i == Target(r) IN
        /\ Owner[i] = Caller[r]
        /\ i \in Orders => Rated[r] \in OrderItems[i]
        /\ RateableStatus(i) \in EverHad(i)

\* Concurrent updateFault transactions never mix their image lists: a fault has
\* the images of one request, all of them valid, and those of the edit that
\* committed last when that edit sent images.
FaultImagesAreOneList ==
    \A f \in Faults : Exists(f) =>
        /\ images[f] \subseteq GoodFiles
        /\ images[f] # {} => \E r \in CreateReqs \cup EditReqs :
              Target(r) = f /\ pc[r] = "done" /\ pick[r].files = images[f]
        /\ row[f].lastEdit # None => pick[row[f].lastEdit].files \in {None, images[f]}

\* adminUpdateFaultStatus and cancelFault: a finished or cancelled fault changes
\* its status only by a request that read another one, which the fault has left
\* since, and from which the change was allowed.
TerminalFaultLeftOnlyByStaleRead ==
    [][\A f \in Faults :
          /\ row[f].status \in {"finished", "cancelled"}
          /\ row'[f].status # row[f].status
          => \E r \in CancelReqs \cup StatusReqs :
                /\ Target(r) = f /\ pc[r] = "write" /\ pc'[r] = "history"
                /\ pick[r].saw # row[f].status
                /\ FaultTransition(pick[r].saw, row'[f].status)]_vars

\* A customer's cancellation takes effect only on an item whose processing has
\* not started, as the integration guides say.
CancelledOnlyBeforeProcessing ==
    [][\A i \in Items : row'[i].cancelledAt /\ ~row[i].cancelledAt =>
          row[i].status = FirstStatus(i)]_vars

=============================================================================
