---------------------------- MODULE WorkItemsProofs ----------------------------
(***************************************************************************)
(* The history, the images and the ratings of orders, fault reports and    *)
(* service orders, for every set of items, requests, files and past        *)
(* statuses.                                                               *)
(***************************************************************************)
EXTENDS WorkItems, TLAPS

(* The invariant *)

\* What the SELECT of a request found stays true until it writes: its item is there, and
\* the status it is to write was allowed from the one it read.
Selected ==
    /\ \A r \in Reqs :
          /\ pc[r] \notin {"unmade", "new", "done", "failed"} => Exists(Target(r))
          /\ pc[r] \in {"history", "unrecorded"} => pick[r].status \in Statuses(Target(r))
    /\ \A r \in CancelReqs : pc[r] = "write" => pick[r].saw = FirstStatus(Target(r))
    /\ \A r \in StatusReqs : pc[r] = "write" =>
          /\ Target(r) \in Faults /\ pick[r].saw \in FaultStatus /\ pick[r].status \in FaultStatus
          /\ FaultTransition(pick[r].saw, pick[r].status)

\* An item that is not there has no history.
HistoryIsOfItems == \A i \in Items : ~Exists(i) => history[i] = <<>>

\* What the checks of createItemRating found stays true.
Earning ==
    \A r \in RatingReqs : LET i == Target(r) IN
        /\ pc[r] \in {"check", "insert"} => Owner[i] = Caller[r]
        /\ pc[r] = "insert" /\ i \in Orders => Rated[r] \in OrderItems[i]
        /\ pc[r] = "insert" \/ (pc[r] = "check" /\ i \in Orders) => RateableStatus(i) \in EverHad(i)

\* One transaction of updateFault holds a fault; its DELETE has seen all images that are there.
Locking ==
    /\ \A r, q \in EditReqs : /\ pc[r] \in {"assets", "commit"} /\ pc[q] \in {"assets", "commit"}
                              /\ Target(r) = Target(q)
                              => r = q
    /\ \A r \in EditReqs : pc[r] = "commit" =>
          /\ pick[r].gone = images[Target(r)]
          /\ pick[r].files = None \/ pick[r].files \subseteq GoodFiles

\* The edit a fault names last is one that was answered.
LastEdit ==
    \A f \in Faults : row[f].lastEdit # None =>
        /\ row[f].lastEdit \in CreateReqs \cup EditReqs
        /\ Target(row[f].lastEdit) = f /\ pc[row[f].lastEdit] = "done"

WorkInv ==
    /\ TypeOK /\ Selected /\ HistoryIsOfItems /\ HistoryExplainsStatus
    /\ Earning /\ RatingsAreEarned
    /\ Locking /\ LastEdit /\ FaultImagesAreOneList

-----------------------------------------------------------------------------
(* Steps *)

PickType == [item : Items, status : AllStatuses \cup {None}, saw : AllStatuses \cup {None},
             files : (SUBSET Files) \cup {None}, gone : SUBSET Files]
HistoryType(i) == Seq([status : Statuses(i), by : Reqs \cup {None}])

\* What TypeOK and KindsAssumption say of one request and one item.
LEMMA Typed ==
    ASSUME TypeOK
    PROVE  /\ row \in [Items -> Row] /\ images \in [Items -> SUBSET Files]
           /\ DOMAIN history = Items /\ \A i \in Items : history[i] \in HistoryType(i)
           /\ ratings \subseteq RatingReqs
           /\ pc \in [Reqs -> PC] /\ pick \in [Reqs -> PickType]
           /\ \A r \in Reqs : Target(r) \in Items
  BY DEF TypeOK, Target, PickType, HistoryType

LEMMA Kinds ==
    /\ CreateReqs \subseteq Reqs /\ EditReqs \subseteq Reqs /\ CancelReqs \subseteq Reqs
    /\ StatusReqs \subseteq Reqs /\ RatingReqs \subseteq Reqs
    /\ Orders \subseteq Items /\ Faults \subseteq Items /\ Services \subseteq Items
    /\ None \notin AllStatuses
    /\ \A i \in Items : Statuses(i) \subseteq AllStatuses /\ FirstStatus(i) \in Statuses(i)
    /\ \A i \in Faults : Statuses(i) = FaultStatus /\ FirstStatus(i) = "received"
    /\ \A i \in Items : "cancelled" \in Statuses(i)
  BY KindsAssumption DEF Reqs, Items, Statuses, AllStatuses, FirstStatus, OrderStatus,
                         FaultStatus, ServiceStatus

CreateStep(r) == CreateFault(r) \/ CreateService(r) \/ WriteHistory(r)
EditStep(r) ==
    \/ SelectForEdit(r) \/ UpdateDetails(r)
    \/ Target(r) \in Faults /\ (UpdateFaultRow(r) \/ SyncFaultAssets(r) \/ CommitFault(r))
CancelStep(r) == SelectForEdit(r) \/ (pc[r] = "write" /\ Writes(r, "cancelled")) \/ WriteHistory(r)
SetsAnyStatus(r) ==
    /\ pc[r] = "new" /\ Exists(Target(r)) /\ Target(r) \notin Faults
    /\ \E status \in Statuses(Target(r)) : Writes(r, status)
SetsFaultStatus(r) == Target(r) \in Faults /\ pc[r] = "write" /\ Writes(r, pick[r].status)
StatusStep(r) ==
    \/ pc[r] = "new" /\ Refused(r)
    \/ SetsAnyStatus(r)
    \/ Target(r) \in Faults /\ SelectFault(r)
    \/ SetsFaultStatus(r)
    \/ WriteHistory(r)

Step(r) ==
    \/ r \in CreateReqs /\ CreateStep(r)
    \/ r \in EditReqs /\ EditStep(r)
    \/ r \in CancelReqs /\ CancelStep(r)
    \/ r \in StatusReqs /\ StatusStep(r)
    \/ r \in RatingReqs /\ CreateItemRating(r)
    \/ StatementFails(r)

LEMMA NextIsStep == Next => \E r \in Reqs : Step(r)
<1> SUFFICES ASSUME Next PROVE \E r \in Reqs : Step(r)
  OBVIOUS
<1>1. ASSUME NEW r \in CreateReqs, CreateFault(r) \/ CreateService(r) \/ WriteHistory(r)
      PROVE  Step(r)
  BY <1>1 DEF Step, CreateStep
<1>2. ASSUME NEW r \in EditReqs, UpdateOrderAddress(r) \/ UpdateFault(r) \/ UpdateService(r)
      PROVE  Step(r)
  BY <1>2 DEF Step, EditStep, UpdateOrderAddress, UpdateFault, UpdateService
<1>3. ASSUME NEW r \in CancelReqs, CancelOrder(r) \/ CancelFault(r) \/ CancelService(r)
      PROVE  Step(r)
  BY <1>3 DEF Step, CancelStep, CancelOrder, CancelFault, CancelService, Cancel
<1>4. ASSUME NEW r \in StatusReqs,
             AdminUpdateOrderStatus(r) \/ AdminUpdateFaultStatus(r) \/ AdminUpdateServiceStatus(r)
      PROVE  Step(r)
  BY <1>4, KindsAssumption
     DEF Step, StatusStep, SetsAnyStatus, SetsFaultStatus, AdminUpdateOrderStatus,
              AdminUpdateFaultStatus, AdminUpdateServiceStatus, SetAnyStatus
<1>5. ASSUME NEW r \in RatingReqs, CreateItemRating(r) PROVE Step(r)
  BY <1>5 DEF Step
<1>6. ASSUME NEW r \in Reqs, StatementFails(r) PROVE Step(r)
  BY <1>6 DEF Step
<1> QED  BY <1>1, <1>2, <1>3, <1>4, <1>5, <1>6, Kinds DEF Next

-----------------------------------------------------------------------------
(* Steps that only move a request on *)

Quiet == UNCHANGED <<row, images, history, ratings>>

\* A step of r changes the place and the locals of r alone, and never its item.
Moves(r) ==
    /\ pc \in [Reqs -> PC] /\ pc' \in [Reqs -> PC]
    /\ pc[r] \notin {"unmade", "done", "failed", "unrecorded"}
    /\ pc'[r] \notin {"unmade", "new"}
    /\ \A q \in Reqs \ {r} : pc'[q] = pc[q]
    /\ pick' \in [Reqs -> PickType]
    /\ \A q \in Reqs \ {r} : pick'[q] = pick[q]
    /\ \A q \in Reqs : Target(q)' = Target(q)

LEMMA Going ==
    ASSUME TypeOK, NEW r \in Reqs, NEW there \in PC, Goes(r, there)
    PROVE  /\ pc \in [Reqs -> PC] /\ pc' \in [Reqs -> PC] /\ pc'[r] = there
           /\ \A q \in Reqs \ {r} : pc'[q] = pc[q]
  BY DEF TypeOK, Goes

\* The locals of a request after a statement sets one or two of them.
LEMMA PickSaw ==
    ASSUME TypeOK, NEW r \in Reqs, NEW saw \in AllStatuses \cup {None},
           pick' = [pick EXCEPT ![r].saw = saw]
    PROVE  /\ pick' \in [Reqs -> PickType]
           /\ \A q \in Reqs \ {r} : pick'[q] = pick[q]
           /\ pick'[r].item = pick[r].item /\ pick'[r].saw = saw
  BY Typed DEF PickType

LEMMA PickStatus ==
    ASSUME TypeOK, NEW r \in Reqs, NEW status \in AllStatuses \cup {None},
           pick' = [pick EXCEPT ![r].status = status]
    PROVE  /\ pick' \in [Reqs -> PickType]
           /\ \A q \in Reqs \ {r} : pick'[q] = pick[q]
           /\ pick'[r].item = pick[r].item /\ pick'[r].status = status
           /\ pick'[r].saw = pick[r].saw
  BY Typed DEF PickType

LEMMA PickFiles ==
    ASSUME TypeOK, NEW r \in Reqs, NEW files \in (SUBSET Files) \cup {None},
           pick' = [pick EXCEPT ![r].files = files]
    PROVE  /\ pick' \in [Reqs -> PickType]
           /\ \A q \in Reqs \ {r} : pick'[q] = pick[q]
           /\ pick'[r].item = pick[r].item /\ pick'[r].files = files
  BY Typed DEF PickType

LEMMA PickGone ==
    ASSUME TypeOK, NEW r \in Reqs, NEW gone \in SUBSET Files,
           pick' = [pick EXCEPT ![r].gone = gone]
    PROVE  /\ pick' \in [Reqs -> PickType]
           /\ \A q \in Reqs \ {r} : pick'[q] = pick[q]
           /\ pick'[r].item = pick[r].item
           /\ pick'[r].gone = gone /\ pick'[r].files = pick[r].files
  BY Typed DEF PickType

LEMMA Kept ==
    ASSUME TypeOK, UNCHANGED pick
    PROVE  pick' \in [Reqs -> PickType] /\ \A q \in Reqs : Target(q)' = Target(q)
  BY Typed DEF Target

LEMMA Moving ==
    ASSUME TypeOK, NEW r \in Reqs, NEW there \in PC \ {"unmade", "new"}, Goes(r, there),
           pc[r] \notin {"unmade", "done", "failed", "unrecorded"},
           pick' \in [Reqs -> PickType], \A q \in Reqs \ {r} : pick'[q] = pick[q],
           pick'[r].item = pick[r].item
    PROVE  Moves(r) /\ pc'[r] = there
<1>1. \A q \in Reqs : Target(q)' = Target(q)
  BY DEF Target
<1> QED  BY <1>1, Going DEF Moves

LEMMA QuietType == ASSUME TypeOK, NEW r \in Reqs, Moves(r), Quiet PROVE TypeOK'
  BY DEF TypeOK, Moves, Quiet, Exists, PickType

\* A step that only moves on: what it does to the history's point of view.
QuietMove(r) ==
    /\ Moves(r) /\ Quiet
    /\ pc[r] = "history" => pc'[r] = "unrecorded" /\ pick'[r] = pick[r]

LEMMA RefusedMoves ==
    ASSUME TypeOK, NEW r \in Reqs, Refused(r),
           pc[r] \notin {"unmade", "done", "failed", "unrecorded", "history"}
    PROVE  QuietMove(r) /\ pc'[r] = "failed" /\ pick' = pick
<1>1. pick' \in [Reqs -> PickType] /\ pick' = pick
  BY Kept DEF Refused
<1>2. "failed" \in PC \ {"unmade", "new"}
  BY DEF PC
<1> QED  BY <1>1, <1>2, Moving DEF Refused, Quiet, QuietMove

LEMMA FailsMoves ==
    ASSUME TypeOK, NEW r \in Reqs, StatementFails(r)
    PROVE  /\ QuietMove(r) /\ pick' = pick
           /\ pc'[r] = IF pc[r] = "history" THEN "unrecorded" ELSE "failed"
<1>1. pick' \in [Reqs -> PickType] /\ pick' = pick
  BY Kept DEF StatementFails
<1>2. {"failed", "unrecorded"} \subseteq PC \ {"unmade", "new"}
  BY DEF PC
<1>3. CASE pc[r] = "history"
  BY <1>1, <1>2, <1>3, Moving DEF StatementFails, Quiet, QuietMove
<1>4. CASE pc[r] # "history"
  BY <1>1, <1>2, <1>4, Moving DEF StatementFails, Quiet, QuietMove
<1> QED  BY <1>3, <1>4

LEMMA SelectForEditMoves ==
    ASSUME TypeOK, NEW r \in Reqs, SelectForEdit(r)
    PROVE  /\ QuietMove(r) /\ pc[r] = "new"
           /\ pc'[r] = "failed" \/ (/\ pc'[r] = "write" /\ Exists(Target(r))
                                    /\ pick'[r].saw = FirstStatus(Target(r)))
<1>1. CASE Editable(r)
  <2>1. /\ Goes(r, "write") /\ pc[r] = "new" /\ Quiet
        /\ pick' = [pick EXCEPT ![r].saw = row[Target(r)].status]
    BY <1>1 DEF SelectForEdit, Sees, Quiet
  <2>2. row[Target(r)].status \in AllStatuses \cup {None}
    BY Typed DEF Row
  <2>3. /\ pick' \in [Reqs -> PickType] /\ \A q \in Reqs \ {r} : pick'[q] = pick[q]
        /\ pick'[r].item = pick[r].item /\ pick'[r].saw = row[Target(r)].status
    BY <2>1, <2>2, PickSaw
  <2>4. "write" \in PC \ {"unmade", "new"}
    BY DEF PC
  <2>5. Moves(r) /\ pc'[r] = "write"
    BY <2>1, <2>3, <2>4, Moving
  <2> QED  BY <1>1, <2>1, <2>3, <2>5 DEF QuietMove, Editable, Owned
<1>2. CASE ~Editable(r)
  <2>1. Refused(r) /\ pc[r] = "new"
    BY <1>2 DEF SelectForEdit
  <2> QED  BY <2>1, RefusedMoves
<1> QED  BY <1>1, <1>2

LEMMA UpdateFaultRowMoves ==
    ASSUME TypeOK, NEW r \in Reqs, UpdateFaultRow(r)
    PROVE  QuietMove(r) /\ pc[r] = "write" /\ pc'[r] = "assets"
<1>1. PICK files \in (SUBSET Files) \cup {None} : pick' = [pick EXCEPT ![r].files = files]
  BY DEF UpdateFaultRow
<1>2. /\ pick' \in [Reqs -> PickType] /\ \A q \in Reqs \ {r} : pick'[q] = pick[q]
      /\ pick'[r].item = pick[r].item
  BY <1>1, PickFiles
<1>3. "assets" \in PC \ {"unmade", "new"}
  BY DEF PC
<1>4. Goes(r, "assets") /\ pc[r] = "write" /\ Quiet
  BY DEF UpdateFaultRow, Quiet
<1> QED  BY <1>2, <1>3, <1>4, Moving DEF QuietMove

LEMMA SyncFaultAssetsMoves ==
    ASSUME TypeOK, NEW r \in Reqs, SyncFaultAssets(r)
    PROVE  /\ QuietMove(r) /\ pc[r] = "assets"
           /\ pc'[r] = "failed" \/ (/\ pc'[r] = "commit" /\ pick'[r].gone = images[Target(r)]
                                    /\ pick'[r].files = None \/ pick'[r].files \subseteq GoodFiles)
<1>1. CASE pick[r].files = None \/ pick[r].files \subseteq GoodFiles
  <2>1. /\ Goes(r, "commit") /\ pc[r] = "assets" /\ Quiet
        /\ pick' = [pick EXCEPT ![r].gone = images[Target(r)]]
    BY <1>1 DEF SyncFaultAssets, Quiet
  <2>2. images[Target(r)] \in SUBSET Files
    BY Typed
  <2>3. /\ pick' \in [Reqs -> PickType] /\ \A q \in Reqs \ {r} : pick'[q] = pick[q]
        /\ pick'[r].item = pick[r].item
        /\ pick'[r].gone = images[Target(r)] /\ pick'[r].files = pick[r].files
    BY <2>1, <2>2, PickGone
  <2>4. "commit" \in PC \ {"unmade", "new"}
    BY DEF PC
  <2> QED  BY <1>1, <2>1, <2>3, <2>4, Moving DEF QuietMove
<1>2. CASE ~(pick[r].files = None \/ pick[r].files \subseteq GoodFiles)
  <2>1. Refused(r) /\ pc[r] = "assets"
    BY <1>2 DEF SyncFaultAssets
  <2> QED  BY <2>1, RefusedMoves
<1> QED  BY <1>1, <1>2

LEMMA SelectFaultMoves ==
    ASSUME TypeOK, NEW r \in Reqs, SelectFault(r)
    PROVE  /\ QuietMove(r) /\ pc[r] = "new"
           /\ \/ pc'[r] = "failed"
              \/ /\ pc'[r] = "write" /\ Exists(Target(r))
                 /\ pick'[r].saw = row[Target(r)].status /\ pick'[r].status \in FaultStatus
                 /\ FaultTransition(pick'[r].saw, pick'[r].status)
<1>1. PICK status \in FaultStatus :
         IF Exists(Target(r)) /\ FaultTransition(row[Target(r)].status, status)
         THEN /\ pick' = [pick EXCEPT ![r].status = status, ![r].saw = row[Target(r)].status]
              /\ Goes(r, "write")
              /\ UNCHANGED <<row, images, history, ratings>>
         ELSE Refused(r)
  BY DEF SelectFault
<1>2. CASE Exists(Target(r)) /\ FaultTransition(row[Target(r)].status, status)
  <2>1. /\ Goes(r, "write") /\ pc[r] = "new" /\ Quiet
        /\ pick' = [pick EXCEPT ![r].status = status, ![r].saw = row[Target(r)].status]
    BY <1>1, <1>2 DEF SelectFault, Quiet
  <2>2. row[Target(r)].status \in AllStatuses \cup {None} /\ status \in AllStatuses \cup {None}
    BY Typed DEF Row, AllStatuses
  <2>3. /\ pick' \in [Reqs -> PickType] /\ \A q \in Reqs \ {r} : pick'[q] = pick[q]
        /\ pick'[r].item = pick[r].item
        /\ pick'[r].status = status /\ pick'[r].saw = row[Target(r)].status
    <3>1. ASSUME NEW saw \in AllStatuses \cup {None}, saw = row[Target(r)].status
          PROVE  /\ pick' \in [Reqs -> PickType] /\ \A q \in Reqs \ {r} : pick'[q] = pick[q]
                 /\ pick'[r].item = pick[r].item
                 /\ pick'[r].status = status /\ pick'[r].saw = saw
      <4>1. pick' = [pick EXCEPT ![r].status = status, ![r].saw = saw]
        BY <2>1, <3>1
      <4> QED  BY <4>1, <2>2, Typed, ZenonT(60) DEF PickType
    <3> QED  BY <3>1, <2>2
  <2>4. "write" \in PC \ {"unmade", "new"}
    BY DEF PC
  <2>5. Moves(r) /\ pc'[r] = "write"
    BY <2>1, <2>3, <2>4, Moving
  <2> QED  BY <1>2, <2>1, <2>3, <2>5 DEF QuietMove
<1>3. CASE ~(Exists(Target(r)) /\ FaultTransition(row[Target(r)].status, status))
  <2>1. Refused(r) /\ pc[r] = "new"
    BY <1>1, <1>3 DEF SelectFault
  <2> QED  BY <2>1, RefusedMoves
<1> QED  BY <1>2, <1>3

\* The checks of createItemRating.
RatingChecks(r) ==
    \/ SelectRatedOrder(r) \/ SelectRatedProduct(r) \/ ResolveOwnership(r) \/ SelectRatedItem(r)

LEMMA RatingMoves ==
    ASSUME TypeOK, NEW r \in Reqs,
           RatingChecks(r) \/ (InsertRating(r) /\ ~Unique(r))
    PROVE  /\ QuietMove(r) /\ pick' = pick /\ pc[r] \in {"new", "check", "insert"}
           /\ \/ pc'[r] = "failed"
              \/ /\ pc[r] = "new" /\ pc'[r] = "check" /\ Owned(r)
                 /\ Target(r) \in Orders => Rateable(r)
              \/ /\ pc[r] = "check" /\ pc'[r] = "insert"
                 /\ Target(r) \in Orders => Rated[r] \in OrderItems[Target(r)]
                 /\ Target(r) \notin Orders => Rateable(r)
<1>0. pc[r] \in {"new", "check", "insert"}
  BY DEF RatingChecks, SelectRatedOrder, SelectRatedProduct, ResolveOwnership, SelectRatedItem,
         InsertRating
<1>1. CASE Refused(r)
  BY <1>0, <1>1, RefusedMoves
<1>2. CASE ~Refused(r)
  <2>1. PICK there \in {"check", "insert"} :
          /\ Goes(r, there) /\ Quiet /\ pick' = pick
          /\ \/ /\ pc[r] = "new" /\ there = "check" /\ Owned(r)
                /\ Target(r) \in Orders => Rateable(r)
             \/ /\ pc[r] = "check" /\ there = "insert"
                /\ Target(r) \in Orders => Rated[r] \in OrderItems[Target(r)]
                /\ Target(r) \notin Orders => Rateable(r)
    BY <1>2 DEF RatingChecks, SelectRatedOrder, SelectRatedProduct, ResolveOwnership,
                SelectRatedItem, InsertRating, Quiet
  <2>2. there \in PC \ {"unmade", "new"} /\ pick' \in [Reqs -> PickType]
    BY <2>1, Kept DEF PC
  <2>3. Moves(r) /\ pc'[r] = there
    BY <1>0, <2>1, <2>2, Moving
  <2> QED  BY <1>0, <2>1, <2>3 DEF QuietMove
<1> QED  BY <1>1, <1>2

-----------------------------------------------------------------------------
(* Steps that write *)

OneHistory(i, rows) == \A j \in Items : history'[j] = IF j = i THEN rows ELSE history[j]

LEMMA CreateFaultWrites ==
    ASSUME TypeOK, NEW r \in CreateReqs, CreateFault(r), ~Refused(r)
    PROVE  LET f == Target(r) IN
           /\ Moves(r) /\ TypeOK' /\ f \in Faults /\ pc[r] = "new" /\ pc'[r] = "done" /\ ~Exists(f)
           /\ row'[f].status = "received" /\ row'[f].lastEdit = r
           /\ \A i \in Items \ {f} : row'[i] = row[i] /\ images'[i] = images[i]
           /\ images'[f] \subseteq GoodFiles /\ pick'[r].files = images'[f]
           /\ pick'[r].status = "received"
           /\ OneHistory(f, <<[status |-> "received", by |-> r]>>)
           /\ UNCHANGED ratings
<1> DEFINE f == Target(r)
<1>0. /\ r \in Reqs /\ f \in Items /\ f \in Faults /\ pc[r] = "new" /\ ~Exists(f)
      /\ row \in [Items -> Row] /\ images \in [Items -> SUBSET Files]
      /\ DOMAIN history = Items /\ \A i \in Items : history[i] \in HistoryType(i)
      /\ pick \in [Reqs -> PickType] /\ GoodFiles \subseteq Files
  BY Typed, Kinds, KindsAssumption DEF CreateFault
<1>1. PICK files \in SUBSET GoodFiles :
         /\ row' = [row EXCEPT ![f] = [Absent EXCEPT !.status = "received", !.lastEdit = r]]
         /\ images' = [images EXCEPT ![f] = files]
         /\ history' = [history EXCEPT ![f] = <<[status |-> "received", by |-> r]>>]
         /\ pick' = [pick EXCEPT ![r].files = files, ![r].status = "received"]
         /\ Goes(r, "done") /\ UNCHANGED ratings
  BY DEF CreateFault
<1>2. /\ [Absent EXCEPT !.status = "received", !.lastEdit = r] \in Row
      /\ [Absent EXCEPT !.status = "received", !.lastEdit = r].status = "received"
      /\ [Absent EXCEPT !.status = "received", !.lastEdit = r].lastEdit = r
  BY <1>0 DEF Absent, Row, AllStatuses, FaultStatus
<1>3. /\ row' \in [Items -> Row] /\ row'[f].status = "received" /\ row'[f].lastEdit = r
      /\ \A i \in Items \ {f} : row'[i] = row[i]
  BY <1>0, <1>1, <1>2
<1>4. /\ images' \in [Items -> SUBSET Files] /\ images'[f] = files
      /\ \A i \in Items \ {f} : images'[i] = images[i]
  BY <1>0, <1>1
<1>5. DOMAIN history' = Items /\ OneHistory(f, <<[status |-> "received", by |-> r]>>)
  BY <1>0, <1>1 DEF OneHistory
<1>6. \A i \in Items : history'[i] \in HistoryType(i)
  <2>1. [status |-> "received", by |-> r] \in [status : Statuses(f), by : Reqs \cup {None}]
    BY <1>0, Kinds
  <2>2. <<[status |-> "received", by |-> r]>> \in HistoryType(f)
    BY <2>1 DEF HistoryType
  <2> QED  BY <1>0, <1>5, <2>2 DEF OneHistory
<1>7. /\ pick' \in [Reqs -> PickType] /\ \A q \in Reqs \ {r} : pick'[q] = pick[q]
      /\ pick'[r].item = pick[r].item
      /\ pick'[r].files = files /\ pick'[r].status = "received"
  <2>1. "received" \in AllStatuses /\ files \in SUBSET Files
    BY <1>0 DEF AllStatuses, FaultStatus
  <2> QED  BY <1>0, <1>1, <2>1, ZenonT(60) DEF PickType
<1>8. "done" \in PC \ {"unmade", "new"}
  BY DEF PC
<1>9. Moves(r) /\ pc'[r] = "done"
  BY <1>0, <1>1, <1>7, <1>8, Moving
<1>10. \A i \in Items : Exists(i)' => row'[i].status \in Statuses(i)
  <2>1. "received" \in Statuses(f)
    BY <1>0, Kinds
  <2> QED  BY <1>0, <1>3, <2>1 DEF TypeOK, Exists
<1>11. TypeOK'
  BY <1>1, <1>3, <1>4, <1>5, <1>6, <1>9, <1>10 DEF TypeOK, HistoryType, Moves, PickType
<1> QED  BY <1>0, <1>1, <1>3, <1>4, <1>5, <1>7, <1>9, <1>11

LEMMA CreateServiceWrites ==
    ASSUME TypeOK, NEW r \in CreateReqs, CreateService(r)
    PROVE  LET s == Target(r) IN
           /\ Moves(r) /\ TypeOK' /\ s \in Services /\ pc[r] = "new" /\ pc'[r] = "history"
           /\ ~Exists(s) /\ row'[s].status = "not_started"
           /\ \A i \in Items \ {s} : row'[i] = row[i]
           /\ pick'[r].status = "not_started"
           /\ UNCHANGED <<images, history, ratings>>
<1> DEFINE s == Target(r)
<1>0. /\ r \in Reqs /\ s \in Items /\ s \in Services /\ pc[r] = "new" /\ ~Exists(s)
      /\ row \in [Items -> Row]
  BY Typed, Kinds DEF CreateService
<1>1. /\ row' = [row EXCEPT ![s] = [Absent EXCEPT !.status = "not_started", !.lastEdit = r]]
      /\ pick' = [pick EXCEPT ![r].status = "not_started"]
      /\ Goes(r, "history") /\ UNCHANGED <<images, history, ratings>>
  BY DEF CreateService
<1>2. /\ [Absent EXCEPT !.status = "not_started", !.lastEdit = r] \in Row
      /\ [Absent EXCEPT !.status = "not_started", !.lastEdit = r].status = "not_started"
  BY <1>0 DEF Absent, Row, AllStatuses, ServiceStatus
<1>3. /\ row' \in [Items -> Row] /\ row'[s].status = "not_started"
      /\ \A i \in Items \ {s} : row'[i] = row[i]
  BY <1>0, <1>1, <1>2
<1>4. /\ pick' \in [Reqs -> PickType] /\ \A q \in Reqs \ {r} : pick'[q] = pick[q]
      /\ pick'[r].item = pick[r].item /\ pick'[r].status = "not_started"
  <2>1. "not_started" \in AllStatuses
    BY DEF AllStatuses, ServiceStatus
  <2> QED  BY <1>0, <1>1, <2>1, PickStatus
<1>5. "history" \in PC \ {"unmade", "new"}
  BY DEF PC
<1>6. Moves(r) /\ pc'[r] = "history"
  BY <1>0, <1>1, <1>4, <1>5, Moving
<1>7. \A i \in Items : Exists(i)' => row'[i].status \in Statuses(i)
  <2>1. "not_started" \in Statuses(s)
    BY <1>0, KindsAssumption DEF Statuses, ServiceStatus
  <2> QED  BY <1>0, <1>3, <2>1 DEF TypeOK, Exists
<1>8. TypeOK'
  BY <1>1, <1>3, <1>6, <1>7 DEF TypeOK, Moves, PickType
<1> QED  BY <1>0, <1>1, <1>3, <1>4, <1>6, <1>8

LEMMA UpdateDetailsWrites ==
    ASSUME TypeOK, NEW r \in Reqs, UpdateDetails(r)
    PROVE  LET i == Target(r) IN
           /\ Moves(r) /\ TypeOK' /\ i \notin Faults /\ pc[r] = "write" /\ pc'[r] = "done"
           /\ row'[i].status = row[i].status
           /\ \A j \in Items \ {i} : row'[j] = row[j]
           /\ UNCHANGED <<images, history, ratings, pick>>
<1> DEFINE i == Target(r)
<1>0. i \in Items /\ i \notin Faults /\ pc[r] = "write" /\ row \in [Items -> Row]
  BY Typed DEF UpdateDetails
<1>1. /\ row' = [row EXCEPT ![i].lastEdit = r]
      /\ Goes(r, "done") /\ UNCHANGED <<images, history, ratings, pick>>
  BY DEF UpdateDetails
<1>2. /\ row' \in [Items -> Row] /\ row'[i].status = row[i].status
      /\ \A j \in Items \ {i} : row'[j] = row[j]
  BY <1>0, <1>1 DEF Row
<1>3. "done" \in PC \ {"unmade", "new"} /\ pick' \in [Reqs -> PickType]
  BY <1>1, Kept DEF PC
<1>4. Moves(r) /\ pc'[r] = "done"
  BY <1>0, <1>1, <1>3, Moving
<1>5. \A j \in Items : Exists(j)' => row'[j].status \in Statuses(j)
  BY <1>2 DEF TypeOK, Exists
<1>6. TypeOK'
  BY <1>1, <1>2, <1>4, <1>5 DEF TypeOK, Moves, PickType
<1> QED  BY <1>0, <1>1, <1>2, <1>4, <1>6

LEMMA CommitFaultWrites ==
    ASSUME TypeOK, NEW r \in Reqs, CommitFault(r), Target(r) \in Faults
    PROVE  LET f == Target(r) IN
           /\ Moves(r) /\ TypeOK' /\ pc[r] = "commit" /\ pc'[r] = "done"
           /\ row'[f].status = row[f].status /\ row'[f].lastEdit = r
           /\ \A i \in Items \ {f} : row'[i] = row[i] /\ images'[i] = images[i]
           /\ images'[f] = IF pick[r].files = None THEN images[f]
                           ELSE (images[f] \ pick[r].gone) \cup pick[r].files
           /\ UNCHANGED <<history, ratings, pick>>
<1> DEFINE f == Target(r)
<1>0. /\ f \in Items /\ pc[r] = "commit" /\ row \in [Items -> Row]
      /\ images \in [Items -> SUBSET Files] /\ pick \in [Reqs -> PickType]
  BY Typed DEF CommitFault
<1>1. /\ row' = [row EXCEPT ![f].lastEdit = r]
      /\ images' = IF pick[r].files = None THEN images
                   ELSE [images EXCEPT ![f] = (@ \ pick[r].gone) \cup pick[r].files]
      /\ Goes(r, "done") /\ UNCHANGED <<history, ratings, pick>>
  BY DEF CommitFault
<1>2. /\ row' \in [Items -> Row] /\ row'[f].status = row[f].status /\ row'[f].lastEdit = r
      /\ \A i \in Items \ {f} : row'[i] = row[i]
  BY <1>0, <1>1 DEF Row
<1>3. /\ images' \in [Items -> SUBSET Files] /\ \A i \in Items \ {f} : images'[i] = images[i]
      /\ images'[f] = IF pick[r].files = None THEN images[f]
                      ELSE (images[f] \ pick[r].gone) \cup pick[r].files
  <2>1. pick[r].files # None => pick[r].files \in SUBSET Files
    BY <1>0 DEF PickType
  <2> QED  BY <1>0, <1>1, <2>1
<1>4. "done" \in PC \ {"unmade", "new"} /\ pick' \in [Reqs -> PickType]
  BY <1>1, Kept DEF PC
<1>5. Moves(r) /\ pc'[r] = "done"
  BY <1>0, <1>1, <1>4, Moving
<1>6. \A i \in Items : Exists(i)' => row'[i].status \in Statuses(i)
  BY <1>2 DEF TypeOK, Exists
<1>7. TypeOK'
  BY <1>1, <1>2, <1>3, <1>5, <1>6 DEF TypeOK, Moves, PickType
<1> QED  BY <1>0, <1>1, <1>2, <1>3, <1>5, <1>7

\* A request that changes a status: the row has it, its history not yet.
LEMMA StatusWrites ==
    ASSUME TypeOK, NEW r \in Reqs, NEW status \in Statuses(Target(r)), Writes(r, status),
           pc[r] \in {"new", "write"}
    PROVE  LET i == Target(r) IN
           /\ Moves(r) /\ TypeOK' /\ pc'[r] = "history" /\ pick'[r].status = status
           /\ row'[i].status = status /\ row'[i].lastEdit = row[i].lastEdit
           /\ \A j \in Items \ {i} : row'[j] = row[j]
           /\ UNCHANGED <<images, history, ratings>>
<1> DEFINE i == Target(r)
<1>0. i \in Items /\ row \in [Items -> Row] /\ status \in AllStatuses
  BY Typed, Kinds
<1>1. /\ row' = [row EXCEPT ![i].status = status, ![i].cancelledAt = @ \/ r \in CancelReqs]
      /\ pick' = [pick EXCEPT ![r].status = status]
      /\ Goes(r, "history") /\ UNCHANGED <<images, history, ratings>>
  BY DEF Writes
<1>2. /\ row' \in [Items -> Row]
      /\ row'[i].status = status /\ row'[i].lastEdit = row[i].lastEdit
      /\ \A j \in Items \ {i} : row'[j] = row[j]
  <2>1. ASSUME NEW b \in BOOLEAN,
               row' = [row EXCEPT ![i].status = status, ![i].cancelledAt = b]
        PROVE  /\ row' \in [Items -> Row]
               /\ row'[i].status = status /\ row'[i].lastEdit = row[i].lastEdit
               /\ \A j \in Items \ {i} : row'[j] = row[j]
    BY <1>0, <2>1 DEF Row
  <2>2. (row[i].cancelledAt \/ r \in CancelReqs) \in BOOLEAN
    OBVIOUS
  <2>3. row' = [row EXCEPT ![i].status = status,
                           ![i].cancelledAt = (row[i].cancelledAt \/ r \in CancelReqs)]
    BY <1>1
  <2> QED  BY <2>1, <2>2, <2>3
<1>3. /\ pick' \in [Reqs -> PickType] /\ \A q \in Reqs \ {r} : pick'[q] = pick[q]
      /\ pick'[r].item = pick[r].item /\ pick'[r].status = status
  BY <1>0, <1>1, PickStatus
<1>4. "history" \in PC \ {"unmade", "new"}
  BY DEF PC
<1>5. Moves(r) /\ pc'[r] = "history"
  BY <1>1, <1>3, <1>4, Moving
<1>6. \A j \in Items : Exists(j)' => row'[j].status \in Statuses(j)
  BY <1>2 DEF TypeOK, Exists
<1>7. TypeOK'
  BY <1>1, <1>2, <1>5, <1>6 DEF TypeOK, Moves, PickType
<1> QED  BY <1>1, <1>2, <1>3, <1>5, <1>7

LEMMA HistoryWrites ==
    ASSUME TypeOK, NEW r \in Reqs, WriteHistory(r), pick[r].status \in Statuses(Target(r))
    PROVE  /\ Moves(r) /\ TypeOK' /\ pc[r] = "history" /\ pc'[r] = "done"
           /\ OneHistory(Target(r), Append(history[Target(r)],
                                           [status |-> pick[r].status, by |-> r]))
           /\ UNCHANGED <<row, images, ratings, pick>>
<1> DEFINE i == Target(r)
           h == [status |-> pick[r].status, by |-> r]
<1>0. /\ i \in Items /\ pc[r] = "history"
      /\ DOMAIN history = Items /\ \A j \in Items : history[j] \in HistoryType(j)
  BY Typed DEF WriteHistory
<1>1. /\ history' = [history EXCEPT ![i] = Append(history[i], h)]
      /\ Goes(r, "done") /\ UNCHANGED <<row, images, ratings, pick>>
  BY DEF WriteHistory, HistoryRow
<1>2. DOMAIN history' = Items /\ OneHistory(i, Append(history[i], h))
  BY <1>0, <1>1 DEF OneHistory
<1>3. \A j \in Items : history'[j] \in HistoryType(j)
  <2>1. h \in [status : Statuses(i), by : Reqs \cup {None}]
    OBVIOUS
  <2>2. Append(history[i], h) \in HistoryType(i)
    BY <1>0, <2>1 DEF HistoryType
  <2> QED  BY <1>0, <1>2, <2>2 DEF OneHistory
<1>4. "done" \in PC \ {"unmade", "new"} /\ pick' \in [Reqs -> PickType]
  BY <1>1, Kept DEF PC
<1>5. Moves(r) /\ pc'[r] = "done"
  BY <1>0, <1>1, <1>4, Moving
<1>6. TypeOK'
  BY <1>1, <1>2, <1>3, <1>5 DEF TypeOK, HistoryType, Moves, PickType, Exists
<1> QED  BY <1>0, <1>1, <1>2, <1>5, <1>6

LEMMA RatingWrites ==
    ASSUME TypeOK, NEW r \in RatingReqs, InsertRating(r), Unique(r)
    PROVE  /\ Moves(r) /\ TypeOK' /\ pc[r] = "insert" /\ pc'[r] = "done"
           /\ ratings' = ratings \cup {r} /\ UNCHANGED <<row, images, history, pick>>
<1>0. /\ r \in Reqs /\ pc[r] = "insert" /\ ratings' = ratings \cup {r}
      /\ Goes(r, "done") /\ UNCHANGED <<row, images, history, pick>>
  BY Kinds DEF InsertRating
<1>1. "done" \in PC \ {"unmade", "new"} /\ pick' \in [Reqs -> PickType]
  BY <1>0, Kept DEF PC
<1>2. Moves(r) /\ pc'[r] = "done"
  BY <1>0, <1>1, Moving
<1>3. TypeOK'
  BY <1>0, <1>2 DEF TypeOK, Moves, PickType, Exists
<1> QED  BY <1>0, <1>2, <1>3

-----------------------------------------------------------------------------
(* Kinds of steps *)

WritesStatus(r) ==
    /\ r \in CancelReqs \cup StatusReqs /\ pc[r] \in {"new", "write"} /\ Exists(Target(r))
    /\ \E status \in Statuses(Target(r)) : Writes(r, status)

\* A step of r moves it on or is one of the seven that write.
Kind(r) ==
    \/ QuietMove(r)
    \/ r \in CreateReqs /\ CreateFault(r) /\ ~Refused(r)
    \/ r \in CreateReqs /\ CreateService(r)
    \/ r \in EditReqs /\ UpdateDetails(r)
    \/ r \in EditReqs /\ CommitFault(r) /\ Target(r) \in Faults
    \/ WritesStatus(r)
    \/ WriteHistory(r) /\ pick[r].status \in Statuses(Target(r))
    \/ r \in RatingReqs /\ InsertRating(r) /\ Unique(r)

LEMMA StepKind == ASSUME TypeOK, Selected, NEW r \in Reqs, Step(r) PROVE Kind(r)
<1>1. CASE r \in CreateReqs /\ CreateStep(r)
  <2>1. CASE CreateFault(r) /\ Refused(r)
    <3>1. pc[r] = "new"
      BY <2>1 DEF CreateFault
    <3> QED  BY <2>1, <3>1, RefusedMoves DEF Kind
  <2>2. CASE WriteHistory(r)
    BY <2>2 DEF Kind, Selected, WriteHistory
  <2> QED  BY <1>1, <2>1, <2>2 DEF Kind, CreateStep
<1>2. CASE r \in EditReqs /\ EditStep(r)
  BY <1>2, SelectForEditMoves, UpdateFaultRowMoves, SyncFaultAssetsMoves DEF Kind, EditStep
<1>3. CASE r \in CancelReqs /\ CancelStep(r)
  <2>1. CASE pc[r] = "write" /\ Writes(r, "cancelled")
    <3>1. Target(r) \in Items /\ Exists(Target(r))
      BY <2>1, Typed DEF Selected
    <3>2. "cancelled" \in Statuses(Target(r))
      BY <3>1, Kinds
    <3> QED  BY <1>3, <2>1, <3>1, <3>2 DEF Kind, WritesStatus
  <2>2. CASE WriteHistory(r)
    BY <2>2 DEF Kind, Selected, WriteHistory
  <2> QED  BY <1>3, <2>1, <2>2, SelectForEditMoves DEF Kind, CancelStep
<1>4. CASE r \in StatusReqs /\ StatusStep(r)
  <2>1. CASE pc[r] = "new" /\ Refused(r)
    BY <2>1, RefusedMoves DEF Kind
  <2>2. CASE SetsAnyStatus(r)
    BY <1>4, <2>2 DEF Kind, SetsAnyStatus, WritesStatus
  <2>3. CASE SelectFault(r)
    BY <2>3, SelectFaultMoves DEF Kind
  <2>4. CASE SetsFaultStatus(r)
    <3>1. /\ pc[r] = "write" /\ Writes(r, pick[r].status) /\ Exists(Target(r))
          /\ Target(r) \in Faults /\ pick[r].status \in FaultStatus
      BY <1>4, <2>4 DEF SetsFaultStatus, Selected
    <3>2. pick[r].status \in Statuses(Target(r))
      BY <3>1, Kinds
    <3> QED  BY <1>4, <3>1, <3>2 DEF Kind, WritesStatus
  <2>5. CASE WriteHistory(r)
    BY <2>5 DEF Kind, Selected, WriteHistory
  <2> QED  BY <1>4, <2>1, <2>2, <2>3, <2>4, <2>5 DEF StatusStep
<1>5. CASE r \in RatingReqs /\ CreateItemRating(r)
  BY <1>5, RatingMoves DEF Kind, CreateItemRating, RatingChecks
<1>6. CASE StatementFails(r)
  BY <1>6, FailsMoves DEF Kind
<1> QED  BY <1>1, <1>2, <1>3, <1>4, <1>5, <1>6 DEF Step

\* What a step of any kind does to the statuses of items.
LEMMA KindMoves ==
    ASSUME TypeOK, NEW r \in Reqs, Kind(r)
    PROVE  Moves(r) /\ TypeOK' /\ \A i \in Items : Exists(i) => Exists(i)'
<1>1. CASE QuietMove(r)
  BY <1>1, QuietType DEF QuietMove, Quiet, Exists
<1>2. CASE r \in CreateReqs /\ CreateFault(r) /\ ~Refused(r)
  BY <1>2, CreateFaultWrites DEF Exists
<1>3. CASE r \in CreateReqs /\ CreateService(r)
  BY <1>3, CreateServiceWrites DEF Exists
<1>4. CASE UpdateDetails(r)
  BY <1>4, UpdateDetailsWrites, Typed DEF Exists
<1>5. CASE CommitFault(r) /\ Target(r) \in Faults
  BY <1>5, CommitFaultWrites, Typed DEF Exists
<1>6. CASE WritesStatus(r)
  <2>1. PICK status \in Statuses(Target(r)) : Writes(r, status) /\ pc[r] \in {"new", "write"}
    BY <1>6 DEF WritesStatus
  <2>2. status # None
    BY Kinds, Typed
  <2> QED  BY <2>1, <2>2, StatusWrites, Typed DEF Exists
<1>7. CASE WriteHistory(r) /\ pick[r].status \in Statuses(Target(r))
  BY <1>7, HistoryWrites DEF Exists
<1>8. CASE r \in RatingReqs /\ InsertRating(r) /\ Unique(r)
  BY <1>8, RatingWrites DEF Exists
<1> QED  BY <1>1, <1>2, <1>3, <1>4, <1>5, <1>6, <1>7, <1>8 DEF Kind

-----------------------------------------------------------------------------
(* The history *)

\* Rows of a sequence.
LEMMA ElementOfRows == ASSUME NEW S, NEW s \in Seq(S), NEW n \in DOMAIN s PROVE s[n] \in S
  OBVIOUS

LEMMA AppendedRows ==
    ASSUME NEW S, NEW s \in Seq(S), NEW h \in S
    PROVE  \A t : t = Append(s, h) =>
              {t[n] : n \in DOMAIN t} = {s[n] : n \in DOMAIN s} \cup {h}
<1> SUFFICES ASSUME NEW t, t = Append(s, h)
             PROVE  {t[n] : n \in DOMAIN t} = {s[n] : n \in DOMAIN s} \cup {h}
  OBVIOUS
<1>1. \A n \in DOMAIN s : n \in DOMAIN t /\ t[n] = s[n]
  OBVIOUS
<1>2. \A n \in DOMAIN t : (n \in DOMAIN s /\ t[n] = s[n]) \/ t[n] = h
  OBVIOUS
<1>3. Len(s) + 1 \in DOMAIN t /\ t[Len(s) + 1] = h
  OBVIOUS
<1> QED  BY <1>1, <1>2, <1>3

\* A step that leaves the history of i, and a row r has still to write in it.
Unwritten(r, i) ==
    /\ history'[i] = history[i]
    /\ Target(r) = i /\ pc[r] = "history"
       => pc'[r] = "unrecorded" /\ pick'[r].status = pick[r].status

LEMMA EverHadKept ==
    ASSUME TypeOK, NEW r \in Reqs, Moves(r), NEW i \in Items, Unwritten(r, i)
    PROVE  /\ Recorded(i)' = Recorded(i)
           /\ \A q \in Unrecorded(i) : q \in Unrecorded(i)' /\ pick'[q].status = pick[q].status
           /\ EverHad(i) \subseteq EverHad(i)'
<1>1. Recorded(i)' = Recorded(i)
  BY DEF Unwritten, Recorded
<1>2. ASSUME NEW q \in Unrecorded(i)
      PROVE  q \in Unrecorded(i)' /\ pick'[q].status = pick[q].status
  <2>1. q \in Reqs /\ Target(q) = i /\ pc[q] \in {"history", "unrecorded"} /\ Target(q)' = Target(q)
    BY DEF Unrecorded, Moves
  <2>2. CASE q = r
    <3>1. pc'[q] = "unrecorded" /\ pick'[q].status = pick[q].status
      BY <2>1, <2>2 DEF Unwritten, Moves
    <3> QED  BY <2>1, <3>1 DEF Unrecorded
  <2>3. CASE q # r
    <3>1. pc'[q] = pc[q] /\ pick'[q] = pick[q]
      BY <2>1, <2>3 DEF Moves
    <3> QED  BY <2>1, <3>1 DEF Unrecorded
  <2> QED  BY <2>2, <2>3
<1>3. EverHad(i) \subseteq EverHad(i)'
  BY <1>1, <1>2 DEF EverHad
<1> QED  BY <1>1, <1>2, <1>3

\* A new row of the history: what r has written is recorded.
LEMMA EverHadRecorded ==
    ASSUME TypeOK, NEW r \in Reqs, WriteHistory(r), NEW i \in Items, Target(r) = i,
           pick[r].status \in Statuses(i),
           NEW h \in [status : Statuses(i), by : Reqs \cup {None}],
           h = [status |-> pick[r].status, by |-> r]
    PROVE  /\ Recorded(i)' = Recorded(i) \cup {h}
           /\ \A q \in Unrecorded(i) \ {r} : q \in Unrecorded(i)' /\ pick'[q].status = pick[q].status
           /\ EverHad(i) \subseteq EverHad(i)'
<1>0. /\ Moves(r) /\ pc[r] = "history" /\ i \in Items /\ history[i] \in HistoryType(i)
      /\ history'[i] = Append(history[i], h) /\ UNCHANGED pick
  BY HistoryWrites, Typed DEF OneHistory
<1>1. Recorded(i)' = Recorded(i) \cup {h}
  <2>1. history[i] \in Seq([status : Statuses(i), by : Reqs \cup {None}])
    BY <1>0 DEF HistoryType
  <2> QED  BY <1>0, <2>1, AppendedRows, SMTT(30) DEF Recorded
<1>2. ASSUME NEW q \in Unrecorded(i) \ {r}
      PROVE  q \in Unrecorded(i)' /\ pick'[q].status = pick[q].status
  BY <1>0 DEF Unrecorded, Moves
<1>3. ASSUME NEW s \in EverHad(i) PROVE s \in EverHad(i)'
  <2>1. CASE s \in {x.status : x \in Recorded(i)}
    BY <1>1, <2>1 DEF EverHad
  <2>2. ASSUME NEW q \in Unrecorded(i), s = pick[q].status PROVE s \in EverHad(i)'
    <3>1. CASE q = r
      <4>1. h \in Recorded(i)' /\ h.status = s
        BY <1>1, <2>2, <3>1
      <4> QED  BY <4>1 DEF EverHad
    <3>2. CASE q # r
      BY <1>2, <2>2, <3>2 DEF EverHad
    <3> QED  BY <3>1, <3>2
  <2> QED  BY <2>1, <2>2 DEF EverHad
<1> QED  BY <1>1, <1>2, <1>3

\* What one item's history explains.
OwnRows(i) == \A h \in Recorded(i) : h.by # None =>
                 Target(h.by) = i /\ pc[h.by] = "done" /\ pick[h.by].status = h.status
OneRowEach(i) == \A m, n \in DOMAIN history[i] :
                    history[i][m].by = history[i][n].by /\ m # n => history[i][m].by = None
Created(i) == \E r \in CreateReqs \cup {None} :
                 r \in Unrecorded(i) \/ r \in {h.by : h \in Recorded(i)}
Explained(i) == row[i].status \in EverHad(i) /\ OneRowEach(i) /\ OwnRows(i) /\ Created(i)

LEMMA Explaining == HistoryExplainsStatus <=> \A i \in Items : Exists(i) => Explained(i)
  BY DEF HistoryExplainsStatus, Explained, OneRowEach, OwnRows, Created

LEMMA RowsKept ==
    ASSUME TypeOK, NEW r \in Reqs, Moves(r), NEW i \in Items, Unwritten(r, i), OneRowEach(i), OwnRows(i)
    PROVE  OneRowEach(i)' /\ OwnRows(i)' /\ (Created(i) => Created(i)')
<1>1. Recorded(i)' = Recorded(i) /\ \A q \in Unrecorded(i) : q \in Unrecorded(i)'
  BY EverHadKept
<1>2. OneRowEach(i)'
  BY DEF OneRowEach, Unwritten
<1>3. ASSUME NEW h \in Recorded(i), h.by # None
      PROVE  /\ (Target(h.by) = i)' /\ pc'[h.by] = "done" /\ pick'[h.by].status = h.status
  <2>1. h.by \in Reqs
    <3>1. PICK n \in DOMAIN history[i] : h = history[i][n]
      BY DEF Recorded
    <3>2. history[i][n] \in [status : Statuses(i), by : Reqs \cup {None}]
      <4>1. history[i] \in Seq([status : Statuses(i), by : Reqs \cup {None}])
        BY Typed DEF HistoryType
      <4> QED  BY <3>1, <4>1, ElementOfRows
    <3> QED  BY <1>3, <3>1, <3>2
  <2>2. Target(h.by) = i /\ pc[h.by] = "done" /\ pick[h.by].status = h.status
    BY <1>3 DEF OwnRows
  <2>3. h.by # r
    BY <2>2 DEF Moves
  <2> QED  BY <2>1, <2>2, <2>3 DEF Moves
<1>4. OwnRows(i)'
  BY <1>1, <1>3 DEF OwnRows
<1>5. Created(i) => Created(i)'
  BY <1>1 DEF Created
<1> QED  BY <1>2, <1>4, <1>5

\* What a step does to the status and the history of one item.
ChangesItem(r, i) ==
    /\ Target(r) = i
    /\ \/ r \in CreateReqs /\ CreateFault(r) /\ ~Refused(r)
       \/ r \in CreateReqs /\ CreateService(r)
       \/ WritesStatus(r)
       \/ WriteHistory(r) /\ pick[r].status \in Statuses(i)

LEMMA KindOfItem ==
    ASSUME TypeOK, NEW r \in Reqs, Kind(r), NEW i \in Items
    PROVE  ChangesItem(r, i) \/ (Unwritten(r, i) /\ row'[i].status = row[i].status)
<1>0. Target(r) \in Items
  BY Typed
<1>1. CASE QuietMove(r)
  BY <1>1 DEF QuietMove, Quiet, Unwritten
<1>2. CASE r \in CreateReqs /\ CreateFault(r) /\ ~Refused(r)
  <2>1. CASE i = Target(r)
    BY <1>2, <2>1 DEF ChangesItem
  <2>2. CASE i # Target(r)
    <3>1. row'[i] = row[i] /\ history'[i] = history[i]
      <4>1. OneHistory(Target(r), <<[status |-> "received", by |-> r]>>) /\ row'[i] = row[i]
        BY <1>2, <2>2, CreateFaultWrites
      <4> QED  BY <2>2, <4>1 DEF OneHistory
    <3> QED  BY <2>2, <3>1 DEF Unwritten
  <2> QED  BY <2>1, <2>2
<1>3. CASE r \in CreateReqs /\ CreateService(r)
  BY <1>3, CreateServiceWrites DEF Unwritten, ChangesItem
<1>4. CASE UpdateDetails(r)
  BY <1>4, UpdateDetailsWrites DEF Unwritten
<1>5. CASE CommitFault(r) /\ Target(r) \in Faults
  BY <1>5, CommitFaultWrites DEF Unwritten
<1>6. CASE WritesStatus(r)
  <2>1. PICK status \in Statuses(Target(r)) : Writes(r, status) /\ pc[r] \in {"new", "write"}
    BY <1>6 DEF WritesStatus
  <2> QED  BY <1>6, <2>1, StatusWrites DEF Unwritten, ChangesItem
<1>7. CASE WriteHistory(r) /\ pick[r].status \in Statuses(Target(r))
  BY <1>7, HistoryWrites DEF OneHistory, Unwritten, ChangesItem
<1>8. CASE r \in RatingReqs /\ InsertRating(r) /\ Unique(r)
  BY <1>8, RatingWrites DEF Unwritten
<1> QED  BY <1>1, <1>2, <1>3, <1>4, <1>5, <1>6, <1>7, <1>8 DEF Kind

\* An item that comes to be: its first row is committed with it, or is still to be written.
LEMMA FaultExplained ==
    ASSUME TypeOK, NEW r \in CreateReqs, CreateFault(r), ~Refused(r),
           NEW i \in Items, Target(r) = i
    PROVE  Explained(i)'
<1> DEFINE h == [status |-> "received", by |-> r]
<1>1. /\ row'[i].status = "received" /\ history'[i] = <<h>> /\ pick'[r].status = "received"
      /\ pc'[r] = "done" /\ Target(r)' = i
  BY CreateFaultWrites, Kinds DEF OneHistory, Moves
<1>2. Recorded(i)' = {h}
  BY <1>1 DEF Recorded
<1>3. h.status = "received" /\ h.by = r
  OBVIOUS
<1>4. OneRowEach(i)'
  BY <1>1 DEF OneRowEach
<1>5. OwnRows(i)' /\ Created(i)' /\ "received" \in EverHad(i)'
  BY <1>1, <1>2, <1>3 DEF OwnRows, Created, EverHad
<1> QED  BY <1>1, <1>4, <1>5 DEF Explained

LEMMA ServiceExplained ==
    ASSUME TypeOK, HistoryIsOfItems, NEW r \in CreateReqs, CreateService(r),
           NEW i \in Items, Target(r) = i
    PROVE  Explained(i)'
<1>1. /\ row'[i].status = "not_started" /\ history'[i] = <<>> /\ pick'[r].status = "not_started"
      /\ pc'[r] = "history" /\ Target(r)' = i
  BY CreateServiceWrites, Kinds DEF Moves, HistoryIsOfItems
<1>2. r \in Unrecorded(i)' /\ Recorded(i)' = {}
  BY <1>1, Kinds DEF Unrecorded, Recorded
<1>3. OneRowEach(i)' /\ OwnRows(i)' /\ Created(i)' /\ "not_started" \in EverHad(i)'
  BY <1>1, <1>2 DEF OneRowEach, OwnRows, Created, EverHad
<1> QED  BY <1>1, <1>3 DEF Explained

LEMMA StatusExplained ==
    ASSUME TypeOK, NEW r \in Reqs, WritesStatus(r), NEW i \in Items, Target(r) = i, Explained(i)
    PROVE  Explained(i)' /\ EverHad(i) \subseteq EverHad(i)'
<1>1. PICK status \in Statuses(i) : Writes(r, status) /\ pc[r] \in {"new", "write"}
  BY DEF WritesStatus
<1>2. /\ Moves(r) /\ Unwritten(r, i) /\ row'[i].status = pick'[r].status
      /\ pc'[r] = "history" /\ Target(r)' = i
  BY <1>1, StatusWrites DEF Moves, Unwritten
<1>3. r \in Unrecorded(i)'
  BY <1>2 DEF Unrecorded
<1>4. row'[i].status \in EverHad(i)'
  BY <1>2, <1>3 DEF EverHad
<1>5. OneRowEach(i)' /\ OwnRows(i)' /\ Created(i)'
  BY <1>2, RowsKept DEF Explained
<1> QED  BY <1>2, <1>4, <1>5, EverHadKept DEF Explained

\* A row is written by a request that had none.
LEMMA RowExplained ==
    ASSUME TypeOK, NEW r \in Reqs, WriteHistory(r), NEW i \in Items, Target(r) = i,
           pick[r].status \in Statuses(i), Explained(i)
    PROVE  Explained(i)' /\ EverHad(i) \subseteq EverHad(i)'
<1>0. PICK h \in [status : Statuses(i), by : Reqs \cup {None}] :
         h = [status |-> pick[r].status, by |-> r] /\ h.status = pick[r].status /\ h.by = r
  <2>1. /\ [status |-> pick[r].status, by |-> r] \in [status : Statuses(i), by : Reqs \cup {None}]
        /\ [status |-> pick[r].status, by |-> r].status = pick[r].status
        /\ [status |-> pick[r].status, by |-> r].by = r
    OBVIOUS
  <2> QED  BY <2>1, Zenon
<1>1. /\ Moves(r) /\ pc[r] = "history" /\ pc'[r] = "done"
      /\ history'[i] = Append(history[i], h) /\ UNCHANGED <<row, pick>>
      /\ \A q \in Reqs : Target(q)' = Target(q)
  BY <1>0, HistoryWrites DEF OneHistory, Moves
<1>2. /\ Recorded(i)' = Recorded(i) \cup {h}
      /\ \A q \in Unrecorded(i) \ {r} : q \in Unrecorded(i)'
      /\ EverHad(i) \subseteq EverHad(i)'
  BY <1>0, EverHadRecorded
<1>3. history[i] \in Seq([status : Statuses(i), by : Reqs \cup {None}])
  BY Typed DEF HistoryType
<1>4. \A x \in Recorded(i) : x.by = r => r = None
  BY <1>1 DEF Explained, OwnRows
<1>5. OneRowEach(i)'
  <2>1. ASSUME NEW n \in DOMAIN history[i] PROVE history[i][n].by = r => r = None
    BY <1>4 DEF Recorded
  <2>2. ASSUME NEW n \in DOMAIN history'[i]
        PROVE  \/ n \in DOMAIN history[i] /\ history'[i][n] = history[i][n]
               \/ n = Len(history[i]) + 1 /\ history'[i][n] = h
    BY <1>1, <1>3
  <2> QED  BY <1>0, <2>1, <2>2 DEF OneRowEach, Explained
<1>6. OwnRows(i)'
  <2>1. ASSUME NEW x \in Recorded(i), x.by # None
        PROVE  Target(x.by)' = i /\ pc'[x.by] = "done" /\ pick'[x.by].status = x.status
    <3>1. PICK n \in DOMAIN history[i] : x = history[i][n]
      BY DEF Recorded
    <3>2. x \in [status : Statuses(i), by : Reqs \cup {None}]
      BY <1>3, <3>1, ElementOfRows
    <3>3. x.by \in Reqs \ {r}
      BY <1>4, <2>1, <3>2
    <3> QED  BY <1>1, <2>1, <3>3 DEF Explained, OwnRows, Moves
  <2> QED  BY <1>0, <1>1, <1>2, <2>1 DEF OwnRows
<1>7. Created(i)'
  <2>1. r \in {x.by : x \in Recorded(i)'}
    BY <1>0, <1>2
  <2> QED  BY <1>2, <2>1 DEF Explained, Created
<1> QED  BY <1>1, <1>2, <1>5, <1>6, <1>7 DEF Explained

LEMMA HistoryStep ==
    ASSUME TypeOK, Selected, HistoryIsOfItems, HistoryExplainsStatus, NEW r \in Reqs, Kind(r)
    PROVE  /\ HistoryIsOfItems' /\ HistoryExplainsStatus'
           /\ \A i \in Items : Exists(i) => EverHad(i) \subseteq EverHad(i)'
<1>0. Moves(r) /\ TypeOK' /\ \A i \in Items : Exists(i) => Exists(i)'
  BY KindMoves
<1>1. ASSUME NEW i \in Items, ~Exists(i), ~Exists(i)' PROVE history'[i] = <<>>
  <2>1. CASE Unwritten(r, i)
    BY <1>1, <2>1 DEF Unwritten, HistoryIsOfItems
  <2>2. CASE ChangesItem(r, i)
    <3>1. CASE r \in CreateReqs /\ CreateFault(r) /\ ~Refused(r)
      <4>1. row'[i].status = "received"
        BY <2>2, <3>1, CreateFaultWrites DEF ChangesItem
      <4>2. "received" # None
        BY Kinds DEF AllStatuses, OrderStatus
      <4> QED  BY <1>1, <4>1, <4>2 DEF Exists
    <3>2. CASE WriteHistory(r) /\ pick[r].status \in Statuses(i)
      BY <1>1, <2>2, <3>2 DEF ChangesItem, WriteHistory, Selected
    <3>3. CASE r \in CreateReqs /\ CreateService(r)
      BY <1>1, <3>3 DEF CreateService, HistoryIsOfItems
    <3>4. CASE WritesStatus(r)
      BY <1>1, <2>2, <3>4 DEF ChangesItem, WritesStatus
    <3> QED  BY <2>2, <3>1, <3>2, <3>3, <3>4 DEF ChangesItem
  <2> QED  BY <2>1, <2>2, KindOfItem
<1>2. HistoryIsOfItems'
  BY <1>0, <1>1 DEF HistoryIsOfItems
<1>3. ASSUME NEW i \in Items, Exists(i)
      PROVE  Explained(i)' /\ EverHad(i) \subseteq EverHad(i)'
  <2>0. Explained(i)
    BY <1>3, Explaining
  <2>1. CASE Unwritten(r, i) /\ row'[i].status = row[i].status
    BY <1>0, <2>0, <2>1, EverHadKept, RowsKept DEF Explained
  <2>2. CASE ChangesItem(r, i)
    <3>1. CASE (r \in CreateReqs /\ CreateFault(r)) \/ (r \in CreateReqs /\ CreateService(r))
      BY <1>3, <2>2, <3>1 DEF ChangesItem, CreateFault, CreateService
    <3>2. CASE WritesStatus(r)
      BY <2>0, <2>2, <3>2, StatusExplained DEF ChangesItem
    <3>3. CASE WriteHistory(r) /\ pick[r].status \in Statuses(i)
      BY <2>0, <2>2, <3>3, RowExplained DEF ChangesItem
    <3> QED  BY <2>2, <3>1, <3>2, <3>3 DEF ChangesItem
  <2> QED  BY <2>1, <2>2, KindOfItem
<1>4. ASSUME NEW i \in Items, ~Exists(i), Exists(i)' PROVE Explained(i)'
  <2>1. ~(Unwritten(r, i) /\ row'[i].status = row[i].status)
    BY <1>4 DEF Exists
  <2>2. ChangesItem(r, i)
    BY <2>1, KindOfItem
  <2>3. CASE r \in CreateReqs /\ CreateFault(r) /\ ~Refused(r)
    BY <2>2, <2>3, FaultExplained DEF ChangesItem
  <2>4. CASE r \in CreateReqs /\ CreateService(r)
    BY <2>2, <2>4, ServiceExplained DEF ChangesItem
  <2>5. CASE WritesStatus(r)
    BY <1>4, <2>2, <2>5 DEF ChangesItem, WritesStatus
  <2>6. CASE WriteHistory(r)
    BY <1>4, <2>6 DEF WriteHistory, Exists
  <2> QED  BY <2>2, <2>3, <2>4, <2>5, <2>6 DEF ChangesItem
<1>5. \A i \in Items : Exists(i)' => Explained(i)'
  BY <1>3, <1>4
<1>6. HistoryExplainsStatus'
  BY <1>5 DEF HistoryExplainsStatus, Explained, OneRowEach, OwnRows, Created
<1> QED  BY <1>2, <1>3, <1>6

-----------------------------------------------------------------------------
(* What a request has found *)

LEMMA SelectedNow ==
    ASSUME TypeOK, Selected, NEW r \in Reqs, Step(r), NEW i \in Items, Target(r) = i
    PROVE  /\ pc'[r] \notin {"done", "failed"} => Exists(i)'
           /\ pc'[r] \in {"history", "unrecorded"} => pick'[r].status \in Statuses(i)
           /\ r \in CancelReqs /\ pc'[r] = "write" => pick'[r].saw = FirstStatus(i)
           /\ r \in StatusReqs /\ pc'[r] = "write" =>
                 /\ i \in Faults /\ pick'[r].saw \in FaultStatus /\ pick'[r].status \in FaultStatus
                 /\ FaultTransition(pick'[r].saw, pick'[r].status)
<1>0. Kind(r) /\ Moves(r) /\ \A j \in Items : Exists(j) => Exists(j)'
  BY StepKind, KindMoves
<1>1. CASE r \in CreateReqs /\ CreateStep(r)
  <2>0. r \notin CancelReqs /\ r \notin StatusReqs
    BY <1>1, KindsAssumption
  <2>1. CASE CreateFault(r) /\ ~Refused(r)
    BY <1>1, <2>0, <2>1, CreateFaultWrites
  <2>2. CASE CreateFault(r) /\ Refused(r)
    <3>1. pc[r] = "new"
      BY <2>2 DEF CreateFault
    <3> QED  BY <2>0, <2>2, <3>1, RefusedMoves
  <2>3. CASE CreateService(r)
    <3>1. row'[i].status = "not_started" /\ pick'[r].status = "not_started" /\ i \in Services
      BY <1>1, <2>3, CreateServiceWrites
    <3>2. "not_started" \in Statuses(i) /\ "not_started" # None
      BY <3>1, KindsAssumption DEF Statuses, ServiceStatus, AllStatuses
    <3> QED  BY <2>0, <3>1, <3>2 DEF Exists
  <2>4. CASE WriteHistory(r)
    <3>1. pc'[r] = "done"
      BY <2>4 , Typed DEF WriteHistory, Goes
    <3> QED  BY <3>1
  <2> QED  BY <1>1, <2>1, <2>2, <2>3, <2>4 DEF CreateStep
<1>2. CASE (r \in EditReqs \/ r \in CancelReqs) /\ SelectForEdit(r)
  <2>1. r \notin StatusReqs
    BY <1>2, KindsAssumption
  <2> QED  BY <1>0, <1>2, <2>1, SelectForEditMoves DEF Exists
<1>3. CASE r \in EditReqs /\ EditStep(r) /\ ~SelectForEdit(r)
  <2>1. pc[r] \in {"write", "assets", "commit"} /\ pc'[r] \in {"assets", "commit", "done", "failed"}
    BY <1>3, UpdateDetailsWrites, UpdateFaultRowMoves, SyncFaultAssetsMoves, CommitFaultWrites
       DEF EditStep
  <2>2. Exists(i)
    BY <2>1 DEF Selected
  <2> QED  BY <1>0, <2>1, <2>2
<1>4. CASE WritesStatus(r)
  <2>1. PICK status \in Statuses(i) : Writes(r, status) /\ pc[r] \in {"new", "write"}
    BY <1>4 DEF WritesStatus
  <2>2. pc'[r] = "history" /\ pick'[r].status = status
    BY <2>1, StatusWrites
  <2> QED  BY <1>0, <1>4, <2>2 DEF WritesStatus
<1>5. CASE WriteHistory(r)
  <2>1. pc'[r] = "done"
    BY <1>5, Typed DEF WriteHistory, Goes
  <2> QED  BY <2>1
<1>6. CASE r \in CancelReqs /\ pc[r] = "write" /\ Writes(r, "cancelled")
  <2>1. WritesStatus(r)
    BY <1>6, Kinds DEF Selected, WritesStatus
  <2> QED  BY <1>4, <2>1
<1>7. CASE r \in StatusReqs /\ StatusStep(r)
  <2>1. CASE pc[r] = "new" /\ Refused(r)
    BY <2>1, RefusedMoves
  <2>2. CASE SetsAnyStatus(r)
    BY <1>4, <1>7, <2>2 DEF SetsAnyStatus, WritesStatus
  <2>3. CASE Target(r) \in Faults /\ SelectFault(r)
    <3>1. r \notin CancelReqs
      BY <1>7, KindsAssumption
    <3>2. Exists(i) => row[i].status \in FaultStatus
      BY <2>3, Kinds DEF TypeOK
    <3> QED  BY <1>0, <2>3, <3>1, <3>2, SelectFaultMoves
  <2>4. CASE SetsFaultStatus(r)
    <3>1. WritesStatus(r)
      <4>1. /\ pc[r] = "write" /\ Writes(r, pick[r].status) /\ Exists(Target(r))
            /\ Target(r) \in Faults /\ pick[r].status \in FaultStatus
        BY <1>7, <2>4 DEF SetsFaultStatus, Selected
      <4> QED  BY <1>7, <4>1, Kinds DEF WritesStatus
    <3> QED  BY <1>4, <3>1
  <2> QED  BY <1>5, <1>7, <2>1, <2>2, <2>3, <2>4 DEF StatusStep
<1>8. CASE r \in RatingReqs /\ CreateItemRating(r)
  <2>1. CASE InsertRating(r) /\ Unique(r)
    BY <1>8, <2>1, RatingWrites
  <2>2. CASE ~(InsertRating(r) /\ Unique(r))
    <3>1. RatingChecks(r) \/ (InsertRating(r) /\ ~Unique(r))
      BY <1>8, <2>2 DEF CreateItemRating, RatingChecks
    <3>2. pc'[r] \in {"failed", "check", "insert"} /\ (pc[r] = "new" /\ pc'[r] = "check" => Owned(r))
      BY <3>1, RatingMoves
    <3>3. pc'[r] = "failed" \/ Exists(i)
      BY <3>1, <3>2, RatingMoves DEF Selected, Owned
    <3> QED  BY <1>0, <3>2, <3>3
  <2> QED  BY <2>1, <2>2
<1>9. CASE StatementFails(r)
  <2>1. /\ pick' = pick /\ pc'[r] = IF pc[r] = "history" THEN "unrecorded" ELSE "failed"
    BY <1>9, FailsMoves
  <2> QED  BY <1>0, <2>1 DEF Selected
<1> QED  BY <1>1, <1>2, <1>3, <1>5, <1>6, <1>7, <1>8, <1>9 DEF Step, EditStep, CancelStep

LEMMA SelectedStep == ASSUME TypeOK, Selected, NEW r \in Reqs, Step(r) PROVE Selected'
<1>0. Moves(r) /\ \A j \in Items : Exists(j) => Exists(j)'
  BY StepKind, KindMoves
<1>1. ASSUME NEW q \in Reqs, NEW i \in Items, Target(q) = i
      PROVE  /\ pc'[q] \notin {"unmade", "new", "done", "failed"} => Exists(i)'
             /\ pc'[q] \in {"history", "unrecorded"} => pick'[q].status \in Statuses(i)
             /\ q \in CancelReqs /\ pc'[q] = "write" => pick'[q].saw = FirstStatus(i)
             /\ q \in StatusReqs /\ pc'[q] = "write" =>
                   /\ i \in Faults /\ pick'[q].saw \in FaultStatus
                   /\ pick'[q].status \in FaultStatus
                   /\ FaultTransition(pick'[q].saw, pick'[q].status)
  <2>1. CASE q = r
    BY <1>1, <2>1, SelectedNow
  <2>2. CASE q # r
    <3>1. pc'[q] = pc[q] /\ pick'[q] = pick[q]
      BY <1>0, <2>2 DEF Moves
    <3> QED  BY <1>0, <1>1, <3>1 DEF Selected
  <2> QED  BY <2>1, <2>2
<1>2. \A q \in Reqs : Target(q)' \in Items /\ Target(q)' = Target(q)
  BY <1>0, Typed DEF Moves
<1>3. CancelReqs \subseteq Reqs /\ StatusReqs \subseteq Reqs
  BY Kinds
<1> QED  BY <1>1, <1>2, <1>3, Typed DEF Selected

-----------------------------------------------------------------------------
(* Ratings *)

LEMMA OnlyItemsHad ==
    ASSUME TypeOK, Selected, HistoryIsOfItems, NEW i \in Items, NEW s \in EverHad(i)
    PROVE  Exists(i)
<1>1. CASE s \in {h.status : h \in Recorded(i)}
  <2>1. history[i] # <<>>
    BY <1>1 DEF Recorded
  <2> QED  BY <2>1 DEF HistoryIsOfItems
<1>2. CASE s \in {pick[q].status : q \in Unrecorded(i)}
  BY <1>2 DEF Unrecorded, Selected
<1> QED  BY <1>1, <1>2 DEF EverHad

\* What one request has found.
EarningOf(r, i, there) ==
    /\ there \in {"check", "insert"} => Owner[i] = Caller[r]
    /\ there = "insert" /\ i \in Orders => Rated[r] \in OrderItems[i]
    /\ there = "insert" \/ (there = "check" /\ i \in Orders) => RateableStatus(i) \in EverHad(i)

LEMMA EarningNow ==
    ASSUME TypeOK, Selected, HistoryIsOfItems, HistoryExplainsStatus, Earning,
           NEW r \in RatingReqs, Step(r), NEW i \in Items, Target(r) = i
    PROVE  EarningOf(r, i, pc'[r])
<1>0. /\ r \in Reqs /\ r \notin CreateReqs /\ r \notin EditReqs /\ r \notin CancelReqs
      /\ r \notin StatusReqs
  BY KindsAssumption, Kinds
<1>1. CASE StatementFails(r)
  BY <1>0, <1>1, FailsMoves DEF EarningOf
<1>2. CASE InsertRating(r) /\ Unique(r)
  BY <1>2, RatingWrites DEF EarningOf
<1>3. CASE CreateItemRating(r) /\ ~(InsertRating(r) /\ Unique(r))
  <2>1. RatingChecks(r) \/ (InsertRating(r) /\ ~Unique(r))
    BY <1>3 DEF CreateItemRating, RatingChecks
  <2>2. /\ pc[r] \in {"new", "check", "insert"}
        /\ \/ pc'[r] = "failed"
           \/ /\ pc[r] = "new" /\ pc'[r] = "check" /\ Owned(r)
              /\ i \in Orders => Rateable(r)
           \/ /\ pc[r] = "check" /\ pc'[r] = "insert"
              /\ i \in Orders => Rated[r] \in OrderItems[i]
              /\ i \notin Orders => Rateable(r)
    BY <1>0, <2>1, RatingMoves
  <2>3. pc'[r] # "failed" => Exists(i)
    BY <1>0, <2>2 DEF Owned, Selected
  <2>4. Exists(i) /\ Rateable(r) => RateableStatus(i) \in EverHad(i)
    BY Explaining DEF Explained, Rateable
  <2>5. /\ pc[r] \in {"check", "insert"} => Owner[i] = Caller[r]
        /\ pc[r] = "check" /\ i \in Orders => RateableStatus(i) \in EverHad(i)
    BY DEF Earning
  <2> QED  BY <2>2, <2>3, <2>4, <2>5 DEF EarningOf, Owned
<1> QED  BY <1>0, <1>1, <1>2, <1>3 DEF Step

LEMMA EarningStep ==
    ASSUME TypeOK, Selected, HistoryIsOfItems, HistoryExplainsStatus, Earning, RatingsAreEarned,
           NEW r \in Reqs, Step(r)
    PROVE  Earning' /\ RatingsAreEarned'
<1>0. /\ Kind(r) /\ Moves(r) /\ \A i \in Items : Exists(i) => EverHad(i) \subseteq EverHad(i)'
      /\ RatingReqs \subseteq Reqs
  BY StepKind, KindMoves, HistoryStep, Kinds
<1>1. ASSUME NEW i \in Items, NEW s \in EverHad(i) PROVE s \in EverHad(i)'
  BY <1>0, <1>1, OnlyItemsHad
<1>2. ASSUME NEW q \in RatingReqs, NEW i \in Items, Target(q) = i
      PROVE  /\ pc'[q] \in {"check", "insert"} => Owner[i] = Caller[q]
             /\ pc'[q] = "insert" /\ i \in Orders => Rated[q] \in OrderItems[i]
             /\ pc'[q] = "insert" \/ (pc'[q] = "check" /\ i \in Orders)
                => RateableStatus(i) \in EverHad(i)'
  <2>1. EarningOf(q, i, pc'[q])
    <3>1. CASE q = r
      BY <1>2, <3>1, EarningNow
    <3>2. CASE q # r
      BY <1>0, <1>2, <3>2 DEF Moves, Earning, EarningOf
    <3> QED  BY <3>1, <3>2
  <2> QED  BY <1>1, <2>1 DEF EarningOf
<1>3. \A q \in Reqs : Target(q)' \in Items /\ Target(q)' = Target(q)
  BY <1>0, Typed DEF Moves
<1>4. Earning'
  BY <1>0, <1>2, <1>3 DEF Earning
<1>5. ASSUME NEW q \in ratings', NEW i \in Items, Target(q) = i
      PROVE  /\ Owner[i] = Caller[q] /\ (i \in Orders => Rated[q] \in OrderItems[i])
             /\ RateableStatus(i) \in EverHad(i)'
  <2>1. CASE q \in ratings
    BY <1>1, <1>5, <2>1 DEF RatingsAreEarned
  <2>2. CASE q \notin ratings
    <3>1. r \in RatingReqs /\ InsertRating(r) /\ Unique(r)
      BY <1>0, <2>2, CreateFaultWrites, CreateServiceWrites DEF Kind, QuietMove, Quiet,
         UpdateDetails, CommitFault, WritesStatus, Writes, WriteHistory
    <3>2. q = r /\ pc[r] = "insert"
      BY <2>2, <3>1, RatingWrites
    <3> QED  BY <1>1, <1>5, <3>1, <3>2 DEF Earning
  <2> QED  BY <2>1, <2>2
<1>6. ratings' \subseteq Reqs
  BY <1>0, KindMoves DEF TypeOK
<1> QED  BY <1>3, <1>4, <1>5, <1>6 DEF RatingsAreEarned

-----------------------------------------------------------------------------
(* Images *)

\* Other items are left alone.
LEMMA OthersStay ==
    ASSUME TypeOK, NEW r \in Reqs, NEW i \in Items, Target(r) # i,
           (CreateFault(r) /\ ~Refused(r)) \/ CommitFault(r)
    PROVE  row'[i] = row[i] /\ images'[i] = images[i]
<1>0. row \in [Items -> Row] /\ images \in [Items -> SUBSET Files]
  BY Typed
<1>1. CASE CreateFault(r) /\ ~Refused(r)
  <2>1. \E v, w : row' = [row EXCEPT ![Target(r)] = v] /\ images' = [images EXCEPT ![Target(r)] = w]
    BY <1>1 DEF CreateFault
  <2> QED  BY <1>0, <2>1
<1>2. CASE CommitFault(r)
  <2>1. /\ row' = [row EXCEPT ![Target(r)].lastEdit = r]
        /\ \E w : images' = images \/ images' = [images EXCEPT ![Target(r)] = w]
    BY <1>2 DEF CommitFault
  <2> QED  BY <1>0, <2>1
<1> QED  BY <1>1, <1>2

\* What a step does to the images and the last edit of one fault.
LEMMA KindOfFault ==
    ASSUME TypeOK, NEW r \in Reqs, Kind(r), NEW f \in Faults
    PROVE  \/ /\ images'[f] = images[f] /\ row'[f].lastEdit = row[f].lastEdit
              /\ Exists(f)' => Exists(f)
           \/ Target(r) = f /\ r \in CreateReqs /\ CreateFault(r) /\ ~Refused(r)
           \/ Target(r) = f /\ r \in EditReqs /\ CommitFault(r)
<1>0. f \in Items /\ f \notin Services /\ Target(r) \in Items
  BY Kinds, KindsAssumption, Typed
<1>1. CASE QuietMove(r)
  BY <1>1 DEF QuietMove, Quiet, Exists
<1>2. CASE r \in CreateReqs /\ CreateFault(r) /\ ~Refused(r) /\ Target(r) # f
  <2>1. row'[f] = row[f] /\ images'[f] = images[f]
    BY <1>0, <1>2, OthersStay
  <2> QED  BY <2>1 DEF Exists
<1>3. CASE r \in CreateReqs /\ CreateService(r)
  <2>1. row'[f] = row[f] /\ images'[f] = images[f]
    BY <1>0, <1>3, CreateServiceWrites
  <2> QED  BY <2>1 DEF Exists
<1>4. CASE UpdateDetails(r)
  <2>1. row'[f] = row[f] /\ images'[f] = images[f]
    BY <1>0, <1>4, UpdateDetailsWrites
  <2> QED  BY <2>1 DEF Exists
<1>5. CASE CommitFault(r) /\ Target(r) \in Faults /\ Target(r) # f
  <2>1. row'[f] = row[f] /\ images'[f] = images[f]
    BY <1>0, <1>5, OthersStay
  <2> QED  BY <2>1 DEF Exists
<1>6. CASE WritesStatus(r)
  <2>1. PICK status \in Statuses(Target(r)) : Writes(r, status) /\ pc[r] \in {"new", "write"}
    BY <1>6 DEF WritesStatus
  <2>2. /\ images' = images /\ row'[f].lastEdit = row[f].lastEdit
        /\ Target(r) # f => row'[f] = row[f]
    BY <1>0, <2>1, StatusWrites
  <2> QED  BY <1>6, <2>2 DEF Exists, WritesStatus
<1>7. CASE WriteHistory(r) /\ pick[r].status \in Statuses(Target(r))
  BY <1>7, HistoryWrites DEF Exists
<1>8. CASE r \in RatingReqs /\ InsertRating(r) /\ Unique(r)
  BY <1>8, RatingWrites DEF Exists
<1> QED  BY <1>1, <1>2, <1>3, <1>4, <1>5, <1>6, <1>7, <1>8 DEF Kind

\* An edit goes into its transaction when no other holds the fault.
LEMMA EditNow ==
    ASSUME TypeOK, NEW r \in EditReqs, Step(r), pc'[r] \in {"assets", "commit"}
    PROVE  /\ pc[r] \in {"assets", "commit"} \/ Unlocked(Target(r), r)
           /\ pc'[r] = "commit" =>
                 /\ pick'[r].gone = images[Target(r)]
                 /\ pick'[r].files = None \/ pick'[r].files \subseteq GoodFiles
           /\ Quiet
<1>0. /\ r \in Reqs /\ r \notin CreateReqs /\ r \notin CancelReqs
      /\ r \notin StatusReqs /\ r \notin RatingReqs
  BY KindsAssumption, Kinds
<1>1. CASE StatementFails(r)
  BY <1>0, <1>1, FailsMoves
<1>2. CASE SelectForEdit(r) \/ UpdateDetails(r) \/ (CommitFault(r) /\ Target(r) \in Faults)
  BY <1>0, <1>2, SelectForEditMoves, UpdateDetailsWrites, CommitFaultWrites
<1>3. CASE UpdateFaultRow(r)
  BY <1>0, <1>3, UpdateFaultRowMoves DEF QuietMove, UpdateFaultRow
<1>4. CASE SyncFaultAssets(r)
  BY <1>0, <1>4, SyncFaultAssetsMoves DEF QuietMove
<1> QED  BY <1>0, <1>1, <1>2, <1>3, <1>4 DEF Step, EditStep

LEMMA LockingStep ==
    ASSUME TypeOK, Selected, Locking, NEW r \in Reqs, Step(r)
    PROVE  Locking'
<1>0. Kind(r) /\ Moves(r) /\ EditReqs \subseteq Reqs
  BY StepKind, KindMoves, Kinds
<1>1. \A q \in Reqs : Target(q)' = Target(q)
  BY <1>0 DEF Moves
<1>2. ASSUME NEW q \in EditReqs, pc'[q] \in {"assets", "commit"}, q # r, r \in EditReqs,
             pc'[r] \in {"assets", "commit"}
      PROVE  Target(q) # Target(r)
  <2>1. pc[q] \in {"assets", "commit"}
    BY <1>0, <1>2 DEF Moves
  <2>2. pc[r] \in {"assets", "commit"} \/ Unlocked(Target(r), r)
    BY <1>2, EditNow
  <2> QED  BY <1>2, <2>1, <2>2 DEF Locking, Unlocked
<1>3. ASSUME NEW q \in EditReqs, NEW s \in EditReqs, pc'[q] \in {"assets", "commit"},
             pc'[s] \in {"assets", "commit"}, Target(q) = Target(s)
      PROVE  q = s
  <2>1. CASE q # r /\ s # r
    <3>1. pc'[q] = pc[q] /\ pc'[s] = pc[s]
      BY <1>0, <2>1 DEF Moves
    <3> QED  BY <1>3, <3>1 DEF Locking
  <2> QED  BY <1>2, <1>3, <2>1
<1>4. ASSUME NEW q \in EditReqs, pc'[q] = "commit", NEW i \in Items, Target(q) = i
      PROVE  /\ pick'[q].gone = images'[i]
             /\ pick'[q].files = None \/ pick'[q].files \subseteq GoodFiles
  <2>1. CASE q = r
    BY <1>4, <2>1, EditNow DEF Quiet
  <2>2. CASE q # r
    <3>1. /\ pc[q] = "commit" /\ pick'[q] = pick[q] /\ Exists(i)
      BY <1>0, <1>4, <2>2 DEF Moves, Selected
    <3>2. /\ pick'[q].gone = images[i]
          /\ pick'[q].files = None \/ pick'[q].files \subseteq GoodFiles
      BY <1>4, <3>1 DEF Locking
    <3>3. images'[i] = images[i]
      <4>1. CASE r \in CreateReqs /\ CreateFault(r) /\ ~Refused(r)
        <5>1. Target(r) # i
          BY <3>1, <4>1 DEF CreateFault
        <5> QED  BY <4>1, <5>1, OthersStay
      <4>2. CASE r \in EditReqs /\ CommitFault(r) /\ Target(r) \in Faults
        <5>1. Target(r) # i
          BY <1>4, <2>2, <3>1, <4>2 DEF CommitFault, Locking
        <5> QED  BY <4>2, <5>1, OthersStay
      <4> QED  BY <1>0, <4>1, <4>2 DEF Kind, QuietMove, Quiet, CreateService, UpdateDetails,
                  WritesStatus, Writes, WriteHistory, InsertRating
    <3> QED  BY <3>2, <3>3
  <2> QED  BY <2>1, <2>2
<1> QED  BY <1>0, <1>1, <1>3, <1>4, Typed DEF Locking

\* The images of one fault.
OneList(f) ==
    /\ images[f] \subseteq GoodFiles
    /\ images[f] # {} => \E q \in CreateReqs \cup EditReqs :
          Target(q) = f /\ pc[q] = "done" /\ pick[q].files = images[f]
    /\ row[f].lastEdit # None => pick[row[f].lastEdit].files \in {None, images[f]}
LastEditOf(f) ==
    row[f].lastEdit # None =>
        /\ row[f].lastEdit \in CreateReqs \cup EditReqs
        /\ Target(row[f].lastEdit) = f /\ pc[row[f].lastEdit] = "done"

LEMMA ImagesStep ==
    ASSUME TypeOK, Selected, Locking, LastEdit, FaultImagesAreOneList, NEW r \in Reqs, Step(r)
    PROVE  LastEdit' /\ FaultImagesAreOneList'
<1>0. Kind(r) /\ Moves(r) /\ CreateReqs \cup EditReqs \subseteq Reqs
  BY StepKind, KindMoves, Kinds
<1>1. ASSUME NEW q \in CreateReqs \cup EditReqs, pc[q] = "done"
      PROVE  pc'[q] = "done" /\ pick'[q] = pick[q] /\ Target(q)' = Target(q)
  BY <1>0, <1>1 DEF Moves
<1>2. ASSUME NEW f \in Faults PROVE LastEditOf(f)' /\ (Exists(f)' => OneList(f)')
  <2>0. f \in Items /\ LastEditOf(f) /\ (Exists(f) => OneList(f))
    BY Kinds DEF LastEdit, LastEditOf, FaultImagesAreOneList, OneList
  <2>1. CASE images'[f] = images[f] /\ row'[f].lastEdit = row[f].lastEdit /\ (Exists(f)' => Exists(f))
    <3>1. LastEditOf(f)'
      BY <1>1, <2>0, <2>1 DEF LastEditOf
    <3>2. row'[f].lastEdit # None =>
            pick'[row'[f].lastEdit].files = pick[row[f].lastEdit].files
      BY <1>1, <2>0, <2>1 DEF LastEditOf
    <3>3. ASSUME Exists(f)' PROVE OneList(f)'
      <4>1. OneList(f)
        BY <2>0, <2>1, <3>3
      <4>2. images'[f] # {} => \E q \in CreateReqs \cup EditReqs :
              Target(q)' = f /\ pc'[q] = "done" /\ pick'[q].files = images'[f]
        BY <1>1, <2>1, <4>1 DEF OneList
      <4> QED  BY <2>1, <3>2, <4>1, <4>2 DEF OneList
    <3> QED  BY <3>1, <3>3
  <2>2. CASE Target(r) = f /\ r \in CreateReqs /\ CreateFault(r) /\ ~Refused(r)
    <3>1. /\ row'[f].lastEdit = r /\ pc'[r] = "done" /\ Target(r)' = f
          /\ images'[f] \subseteq GoodFiles /\ pick'[r].files = images'[f]
      BY <1>0, <2>2, CreateFaultWrites, ZenonT(60) DEF Moves
    <3> QED  BY <2>2, <3>1 DEF LastEditOf, OneList
  <2>3. CASE Target(r) = f /\ r \in EditReqs /\ CommitFault(r)
    <3>1. /\ row'[f].lastEdit = r /\ pc'[r] = "done" /\ Target(r)' = f /\ pick' = pick
          /\ pc[r] = "commit"
          /\ images'[f] = IF pick[r].files = None THEN images[f]
                          ELSE (images[f] \ pick[r].gone) \cup pick[r].files
      BY <1>0, <2>3, CommitFaultWrites, ZenonT(60) DEF Moves
    <3>2. /\ pick[r].gone = images[f] /\ OneList(f)
          /\ pick[r].files = None \/ pick[r].files \subseteq GoodFiles
      BY <1>0, <2>0, <2>3, <3>1 DEF Locking, Selected
    <3>3. LastEditOf(f)'
      BY <2>3, <3>1 DEF LastEditOf
    <3>4. CASE pick[r].files = None
      <4>1. images'[f] # {} => \E q \in CreateReqs \cup EditReqs :
              Target(q)' = f /\ pc'[q] = "done" /\ pick'[q].files = images'[f]
        BY <1>1, <3>1, <3>2, <3>4 DEF OneList
      <4> QED  BY <3>1, <3>2, <3>3, <3>4, <4>1 DEF OneList
    <3>5. CASE pick[r].files # None
      <4>1. images'[f] = pick'[r].files /\ images'[f] \subseteq GoodFiles
        BY <3>1, <3>2, <3>5
      <4> QED  BY <2>3, <3>1, <3>3, <4>1 DEF OneList
    <3> QED  BY <3>4, <3>5
  <2> QED  BY <1>0, <2>1, <2>2, <2>3, KindOfFault
<1> QED  BY <1>2 DEF LastEdit, LastEditOf, FaultImagesAreOneList, OneList

-----------------------------------------------------------------------------
(* All together *)

LEMMA InitInv == Init => WorkInv
<1> SUFFICES ASSUME Init PROVE WorkInv
  OBVIOUS
<1>1. PICK w \in Worlds :
        /\ row = [i \in Items |->
                    IF i # w.item \/ w.past = <<>> THEN Absent
                    ELSE [Absent EXCEPT !.status = w.past[Len(w.past)]]]
        /\ history = [i \in Items |-> IF i # w.item THEN <<>> ELSE
                        [n \in DOMAIN w.past |-> [status |-> w.past[n], by |-> None]]]
        /\ pc = [r \in Reqs |-> IF r \in w.calls THEN "new" ELSE "unmade"]
        /\ pick = [r \in Reqs |-> [item |-> w.item, status |-> None, saw |-> None,
                                   files |-> None, gone |-> {}]]
  BY DEF Init
<1>2. images = [i \in Items |-> {}] /\ ratings = {}
  BY DEF Init
<1>3. w.item \in Items /\ w.past \in Seq(Statuses(w.item)) /\ None \notin AllStatuses
  BY KindsAssumption
<1>4. ASSUME NEW i \in Items
      PROVE  \/ row[i] = Absent /\ history[i] = <<>>
             \/ /\ i = w.item /\ w.past # <<>>
                /\ row[i] = [Absent EXCEPT !.status = w.past[Len(w.past)]]
                /\ history[i] = [n \in DOMAIN w.past |-> [status |-> w.past[n], by |-> None]]
  BY <1>1, <1>3
<1>5. w.past # <<>> => Len(w.past) \in DOMAIN w.past /\ w.past[Len(w.past)] \in Statuses(w.item)
  BY <1>3
<1>6. \A r \in Reqs : pc[r] \in {"new", "unmade"}
  BY <1>1
<1>7. \A i \in Items : row[i] \in Row /\ row[i].lastEdit = None
                       /\ (row[i].status # None => row[i].status \in Statuses(i))
  <2>1. Absent \in Row /\ Absent.lastEdit = None /\ Absent.status = None
    BY DEF Absent, Row
  <2>2. ASSUME NEW s \in Statuses(w.item)
        PROVE  /\ [Absent EXCEPT !.status = s] \in Row
               /\ [Absent EXCEPT !.status = s].lastEdit = None
               /\ [Absent EXCEPT !.status = s].status = s
    <3>1. s \in AllStatuses
      BY <1>3, Kinds
    <3> QED  BY <3>1 DEF Absent, Row
  <2> QED  BY <1>4, <1>5, <2>1, <2>2
<1>8. ASSUME NEW i \in Items PROVE history[i] \in Seq([status : Statuses(i), by : Reqs \cup {None}])
  <2>1. CASE history[i] = <<>>
    BY <2>1
  <2>2. CASE i = w.item /\ history[i] = [n \in DOMAIN w.past |-> [status |-> w.past[n], by |-> None]]
    <3>1. ASSUME NEW n \in DOMAIN w.past
          PROVE  [status |-> w.past[n], by |-> None] \in [status : Statuses(i), by : Reqs \cup {None}]
      <4>1. w.past[n] \in Statuses(i)
        BY <1>3, <2>2, ElementOfRows
      <4> QED  BY <4>1
    <3>2. DOMAIN w.past = 1..Len(w.past) /\ Len(w.past) \in Nat
      BY <1>3
    <3> QED  BY <2>2, <3>1, <3>2
  <2> QED  BY <1>4, <2>1, <2>2
<1>9. TypeOK
  <2>1. row \in [Items -> Row] /\ images \in [Items -> SUBSET Files] /\ ratings \subseteq RatingReqs
    BY <1>1, <1>2, <1>7
  <2>2. DOMAIN history = Items
    BY <1>1
  <2>3. pc \in [Reqs -> PC]
    BY <1>1 DEF PC
  <2>4. pick \in [Reqs -> PickType]
    BY <1>1, <1>3 DEF PickType
  <2> QED  BY <1>7, <1>8, <2>1, <2>2, <2>3, <2>4 DEF TypeOK, Exists, PickType
<1>10. Selected /\ Earning /\ Locking
  BY <1>6, Kinds DEF Selected, Earning, Locking
<1>11. HistoryIsOfItems
  <2>1. ASSUME NEW i \in Items, i = w.item, w.past # <<>>,
               row[i] = [Absent EXCEPT !.status = w.past[Len(w.past)]]
        PROVE  Exists(i)
    <3>1. w.past[Len(w.past)] # None
      BY <1>3, <1>5, <2>1, Kinds
    <3> QED  BY <2>1, <3>1 DEF Absent, Exists
  <2> QED  BY <1>4, <2>1 DEF HistoryIsOfItems
<1>12. HistoryExplainsStatus
  <2>1. ASSUME NEW i \in Items, Exists(i) PROVE Explained(i)
    <3>0. /\ i = w.item /\ w.past # <<>>
          /\ row[i] = [Absent EXCEPT !.status = w.past[Len(w.past)]]
          /\ history[i] = [n \in DOMAIN w.past |-> [status |-> w.past[n], by |-> None]]
      <4>1. Absent.status = None
        BY DEF Absent
      <4>2. row[i] # Absent
        BY <2>1, <4>1 DEF Exists
      <4> QED  BY <1>4, <4>2
    <3>1. ASSUME NEW n \in DOMAIN history[i]
          PROVE  history[i][n].status = w.past[n] /\ history[i][n].by = None
      BY <3>0, <3>1
    <3>2. Len(w.past) \in DOMAIN history[i]
      BY <1>5, <3>0
    <3>3. row[i].status = w.past[Len(w.past)]
      BY <3>0 DEF Absent
    <3>4. row[i].status \in EverHad(i)
      <4>1. history[i][Len(w.past)] \in Recorded(i)
        BY <3>2 DEF Recorded
      <4> QED  BY <3>1, <3>2, <3>3, <4>1 DEF EverHad
    <3>5. OneRowEach(i) /\ OwnRows(i)
      BY <3>1 DEF OneRowEach, OwnRows, Recorded
    <3>6. Created(i)
      BY <3>1, <3>2 DEF Created, Recorded
    <3> QED  BY <3>4, <3>5, <3>6 DEF Explained
  <2> QED  BY <2>1, Explaining
<1>13. RatingsAreEarned
  BY <1>2 DEF RatingsAreEarned
<1>14. LastEdit
  BY <1>7, Kinds DEF LastEdit
<1>15. FaultImagesAreOneList
  BY <1>2, <1>7, Kinds DEF FaultImagesAreOneList
<1> QED  BY <1>9, <1>10, <1>11, <1>12, <1>13, <1>14, <1>15 DEF WorkInv

LEMMA StepInv == WorkInv /\ [Next]_vars => WorkInv'
<1>1. ASSUME WorkInv, NEW r \in Reqs, Step(r) PROVE WorkInv'
  <2>1. Kind(r) /\ TypeOK'
    BY <1>1, StepKind, KindMoves DEF WorkInv
  <2>2. HistoryIsOfItems' /\ HistoryExplainsStatus'
    BY <1>1, <2>1, HistoryStep DEF WorkInv
  <2>3. Selected' /\ Locking'
    BY <1>1, SelectedStep, LockingStep DEF WorkInv
  <2>4. Earning' /\ RatingsAreEarned'
    BY <1>1, EarningStep DEF WorkInv
  <2>5. LastEdit' /\ FaultImagesAreOneList'
    BY <1>1, ImagesStep DEF WorkInv
  <2> QED  BY <2>1, <2>2, <2>3, <2>4, <2>5 DEF WorkInv
<1>2. ASSUME WorkInv, UNCHANGED vars PROVE WorkInv'
  <2>0. UNCHANGED <<row, images, history, ratings, pc, pick>>
    BY <1>2 DEF vars
  <2>1. TypeOK' /\ Selected' /\ HistoryIsOfItems' /\ LastEdit' /\ Locking'
    BY <1>2, <2>0 DEF WorkInv, TypeOK, Exists, Selected, HistoryIsOfItems, LastEdit, Locking, Target
  <2>2. HistoryExplainsStatus' /\ FaultImagesAreOneList'
    BY <1>2, <2>0 DEF WorkInv, HistoryExplainsStatus, FaultImagesAreOneList, EverHad, Recorded,
                      Unrecorded, Exists, Target
  <2>3. Earning' /\ RatingsAreEarned'
    BY <1>2, <2>0 DEF WorkInv, Earning, RatingsAreEarned, EverHad, Recorded, Unrecorded, Target
  <2> QED  BY <2>1, <2>2, <2>3 DEF WorkInv
<1> QED  BY <1>1, <1>2, NextIsStep

\* The inductive invariant of items, their history, images and ratings.
THEOREM WorkItemsInvariant == Spec => []WorkInv
<1> QED  BY InitInv, StepInv, PTL DEF Spec

\* The state of WorkItems keeps its shape.
THEOREM WorkItemsTypes == Spec => []TypeOK
<1>1. WorkInv => TypeOK
  BY DEF WorkInv
<1> QED  BY <1>1, WorkItemsInvariant, PTL

\* INSERT INTO ..._status_history: the history and the requests that died before writing
\* it explain every status, for any items and any requests.
THEOREM HistoryExplains == Spec => []HistoryExplainsStatus
<1>1. WorkInv => HistoryExplainsStatus
  BY DEF WorkInv
<1> QED  BY <1>1, WorkItemsInvariant, PTL

\* createItemRating: a rating is of an item of its user that had been delivered or finished.
THEOREM RatingsEarned == Spec => []RatingsAreEarned
<1>1. WorkInv => RatingsAreEarned
  BY DEF WorkInv
<1> QED  BY <1>1, WorkItemsInvariant, PTL

\* updateFault: concurrent edits leave the image list of one of them.
THEOREM ImagesAreOneList == Spec => []FaultImagesAreOneList
<1>1. WorkInv => FaultImagesAreOneList
  BY DEF WorkInv
<1> QED  BY <1>1, WorkItemsInvariant, PTL

\* adminUpdateFaultStatus and cancelFault: what takes a fault out of a terminal status had
\* read another one, from which it was allowed to.
THEOREM TerminalFaults == Spec => TerminalFaultLeftOnlyByStaleRead
<1> DEFINE Stale(f) ==
      /\ row[f].status \in {"finished", "cancelled"}
      /\ row'[f].status # row[f].status
      => \E r \in CancelReqs \cup StatusReqs :
            /\ Target(r) = f /\ pc[r] = "write" /\ pc'[r] = "history"
            /\ pick[r].saw # row[f].status
            /\ FaultTransition(pick[r].saw, row'[f].status)
<1>1. ASSUME WorkInv, NEW r \in Reqs, Step(r), NEW f \in Faults,
             row[f].status \in {"finished", "cancelled"}, row'[f].status # row[f].status
      PROVE  /\ r \in CancelReqs \cup StatusReqs
             /\ Target(r) = f /\ pc[r] = "write" /\ pc'[r] = "history"
             /\ pick[r].saw # row[f].status
             /\ FaultTransition(pick[r].saw, row'[f].status)
  <2>0. /\ TypeOK /\ Selected /\ f \in Items /\ Exists(f) /\ Kind(r)
    BY <1>1, Kinds, StepKind DEF WorkInv, Exists, AllStatuses, FaultStatus
  <2>1. ChangesItem(r, f)
    BY <1>1, <2>0, KindOfItem
  <2>2. WritesStatus(r) /\ Target(r) = f
    BY <1>1, <2>0, <2>1 DEF ChangesItem, CreateFault, CreateService, WriteHistory
  <2>3. r \notin CreateReqs \cup EditReqs \cup RatingReqs
    BY <2>2, KindsAssumption DEF WritesStatus
  <2>4. pc'[r] = "history" /\ pc[r] \in {"new", "write"} /\ row'[f].status = pick'[r].status
    <3>1. PICK status \in Statuses(Target(r)) : Writes(r, status) /\ pc[r] \in {"new", "write"}
      BY <2>2 DEF WritesStatus
    <3> QED  BY <2>0, <2>2, <3>1, StatusWrites
  <2>5. CASE r \in CancelReqs /\ pc[r] = "write" /\ Writes(r, "cancelled")
    <3>1. pick[r].saw = "received"
      BY <2>0, <2>2, <2>5, Kinds DEF Selected
    <3>2. row'[f].status = "cancelled"
      BY <2>0, <2>2, <2>5, Kinds, StatusWrites
    <3>3. FaultTransition("received", "cancelled")
      BY DEF FaultTransition, FaultNext
    <3> QED  BY <1>1, <2>2, <2>4, <2>5, <3>1, <3>2, <3>3
  <2>6. CASE r \in StatusReqs /\ SetsFaultStatus(r)
    <3>1. /\ pc[r] = "write" /\ Writes(r, pick[r].status)
          /\ pick[r].status \in FaultStatus /\ FaultTransition(pick[r].saw, pick[r].status)
      BY <2>0, <2>6 DEF SetsFaultStatus, Selected
    <3>2. row'[f].status = pick[r].status
      BY <1>1, <2>0, <2>2, <3>1, Kinds, StatusWrites
    <3>3. pick[r].saw = row[f].status => pick[r].status = row[f].status
      BY <1>1, <3>1 DEF FaultTransition, FaultNext
    <3> QED  BY <1>1, <2>2, <2>4, <2>6, <3>1, <3>2, <3>3
  <2>7. ~QuietMove(r)
    BY <1>1 DEF QuietMove, Quiet
  <2> QED  BY <1>1, <2>0, <2>1, <2>2, <2>3, <2>5, <2>6, <2>7, SelectForEditMoves, SelectFaultMoves,
              FailsMoves, RefusedMoves
           DEF Step, CancelStep, StatusStep, SetsAnyStatus, WriteHistory
<1>2. WorkInv /\ [Next]_vars => [\A f \in Faults : Stale(f)]_vars
  BY <1>1, NextIsStep
<1> QED  BY <1>2, WorkItemsInvariant, PTL DEF Spec, TerminalFaultLeftOnlyByStaleRead
=============================================================================
