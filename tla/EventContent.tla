----------------------------- MODULE EventContent -----------------------------
(***************************************************************************)
(* One event under edition and moderation: its status and review columns,  *)
(* its text and ticket type, its images, the objects these have in MinIO   *)
(* and the queue of objects still to be deleted (EventsService,            *)
(* AdminService, MaintenanceService).                                      *)
(*                                                                         *)
(* submit, approve, reject and cancel lock the Event row and are one step. *)
(* Every edit reads the event, and writes later what follows from the      *)
(* status it read: the requests in flight hold that reading.               *)
(*                                                                         *)
(* An upload of an image is an object put, a row inserted, and the object  *)
(* removed if the insert fails; a removal is a row deleted, the object     *)
(* removed, and a row of MediaDeletion if that fails.  The maintenance job *)
(* works off these.  Requests fail and the server crashes in between, at   *)
(* most MaxFailures times.  A COMMIT whose answer is lost is not modelled. *)
(***************************************************************************)
EXTENDS Integers, FiniteSets

CONSTANTS
  Request,       \* slots of concurrent edit requests
  Image,         \* ids of images, with the keys of their objects; a fresh
                 \*   UUID is one that nothing uses
  Content,       \* what title, dates and the other columns may say
  Null,          \* no image, no submission
  GalleryLimit,  \* 6 in addImage()
  MaxPosition,   \* bound: highest position of an image
  MaxFailures    \* bound: failures of calls and crashes

ASSUME ContentAssumption ==
  /\ Null \notin Image /\ Null \notin Content
  /\ GalleryLimit \in Nat \ {0} /\ MaxPosition \in Nat /\ MaxFailures \in Nat
  /\ IsFiniteSet(Image) /\ IsFiniteSet(Request)

VARIABLES
  status,        \* Event.status
  marks,         \* those of the columns submittedAt, ... that are not null
  content,       \* the event's other columns
  sale,          \* "open" with an active ticket type that has capacity
  kind,          \* EventImage.kind, "NONE" without a row
  position,      \* EventImage.position, 0 without a row
  store,         \* objects in MinIO
  queue,         \* MediaDeletion
  lost,          \* objects that nobody will remove: of an upload whose undoing
                 \*   failed, or of a request that a crash ended
  request,       \* Request -> where it is and what it has read
  failures,      \* failures so far
  agreed         \* history: the content as it was submitted, or the event
                 \*   cancelled, if no edit was in flight then; else Null

eventVars == <<status, marks, content, sale>>
rowVars == <<kind, position>>
vars == <<eventVars, rowVars, store, queue, lost, request, failures, agreed>>

LifeCycle == INSTANCE EventLifeCycle

Mark == {"submittedAt", "reviewedAt", "rejectionReason", "publishedAt"}

Op == {"update", "capacity", "cover", "gallery", "reorder", "remove"}

RequestState ==
  [pc : {"idle", "write", "put", "insert", "undo", "delete", "erase"},
   op : Op, seen : {"REJECTED", "another"}, image : Image \cup {Null}, at : 0..MaxPosition,
   rows : SUBSET Image]

Idle == [pc |-> "idle", op |-> "update", seen |-> "another", image |-> Null, at |-> 0,
         rows |-> {}]

TypeOK ==
  /\ status \in LifeCycle!Status
  /\ marks \subseteq Mark
  /\ content \in Content
  /\ sale \in {"closed", "open"}
  /\ kind \in [Image -> {"NONE", "COVER", "GALLERY"}]
  /\ position \in [Image -> 0..MaxPosition]
  /\ store \subseteq Image /\ queue \subseteq Image /\ lost \subseteq Image
  /\ request \in [Request -> RequestState]
  /\ failures \in 0..MaxFailures
  /\ agreed \in Content \cup {Null}

\* create(): a draft without images and types.
Init ==
  /\ status = "DRAFT" /\ marks = {} /\ content \in Content /\ sale = "closed"
  /\ kind = [i \in Image |-> "NONE"] /\ position = [i \in Image |-> 0]
  /\ store = {} /\ queue = {} /\ lost = {}
  /\ request = [r \in Request |-> Idle]
  /\ failures = 0
  /\ agreed = Null

Rows == {i \in Image : kind[i] # "NONE"}

Gallery == {i \in Image : kind[i] = "GALLERY"}

Cover == {i \in Image : kind[i] = "COVER"}

\* Edits that have read the event and not written yet.
Pending == {r \in Request : request[r].pc \in {"write", "put", "insert", "delete"}}

Agreed == IF Pending = {} THEN content ELSE Null

Fail == failures < MaxFailures /\ failures' = failures + 1

-----------------------------------------------------------------------------
(* Moderation, under the lock of the Event row *)

\* Mutant: a new submission keeps the old reason.
SubmitMarks_KeepsReason == (marks \cup {"submittedAt"}) \ {"reviewedAt", "publishedAt"}

SubmitMarks == (marks \cup {"submittedAt"}) \ {"reviewedAt", "rejectionReason", "publishedAt"}

Submit ==
  /\ status \in {"DRAFT", "REJECTED"}
  /\ Cover # {} /\ sale = "open"
  /\ status' = "PENDING_REVIEW"
  /\ marks' = SubmitMarks
  /\ agreed' = Agreed
  /\ UNCHANGED <<content, sale, rowVars, store, queue, lost, request, failures>>

Approve ==
  /\ status = "PENDING_REVIEW"
  /\ status' = "PUBLISHED"
  /\ marks' = (marks \cup {"publishedAt", "reviewedAt"}) \ {"rejectionReason"}
  /\ UNCHANGED <<content, sale, rowVars, store, queue, lost, request, failures, agreed>>

Reject ==
  /\ status = "PENDING_REVIEW"
  /\ status' = "REJECTED"
  /\ marks' = marks \cup {"reviewedAt", "rejectionReason"}
  /\ agreed' = Null
  /\ UNCHANGED <<content, sale, rowVars, store, queue, lost, request, failures>>

\* What it does to checkouts, orders and tickets is in Reservations.
Cancel ==
  /\ status' = "CANCELLED"
  /\ agreed' = Agreed
  /\ UNCHANGED <<marks, content, sale, rowVars, store, queue, lost, request, failures>>

-----------------------------------------------------------------------------
(* Edits: the read *)

\* Mutant: the capacity's own rule for every edit.
Editable_Published(op) == {"DRAFT", "REJECTED", "PUBLISHED"}

\* assertContentEditable(), and updateCapacity()'s own rule.
Editable(op) ==
  {"DRAFT", "REJECTED"} \cup (IF op = "capacity" THEN {"PUBLISHED"} ELSE {})

Start(r, pc, op, i, at, rows) ==
  /\ request[r].pc = "idle"
  /\ status \in Editable(op)
  /\ request' = [request EXCEPT ![r] =
                   [pc |-> pc, op |-> op, image |-> i, at |-> at, rows |-> rows,
                    seen |-> IF status = "REJECTED" THEN "REJECTED" ELSE "another"]]
  /\ UNCHANGED <<eventVars, rowVars, store, queue, lost, failures, agreed>>

ReadEdit(r, op) ==
  /\ op \in {"update", "capacity"}
  /\ Start(r, "write", op, Null, 0, {})

\* A cover is at 0, a gallery image after every image there is.
NextPosition(k, p) ==
  IF k = "COVER" THEN p = 0
                 ELSE /\ \A i \in Rows : position[i] < p
                      /\ p = 1 \/ \E i \in Rows : position[i] = p - 1

\* Mutant: a gallery is never full.
HasRoom_NoLimit(k) == k = "COVER" => Cover = {}

HasRoom(k) == IF k = "COVER" THEN Cover = {} ELSE Cardinality(Gallery) < GalleryLimit

ReadAdd(r, k, p) ==
  /\ HasRoom(k) /\ NextPosition(k, p)
  /\ Start(r, "put", IF k = "COVER" THEN "cover" ELSE "gallery", Null, p, {})

ReadReorder(r) ==
  /\ Gallery # {}
  /\ Start(r, "write", "reorder", Null, 0, Gallery)

ReadRemove(r, i) ==
  /\ i \in Rows
  /\ Start(r, "delete", "remove", i, 0, {})

-----------------------------------------------------------------------------
(* Edits: the write *)

\* Mutant: every edit writes DRAFT.
Reset_Always(seen) ==
  /\ status' = "DRAFT"
  /\ marks' = marks

\* reviewReset(): an edit of an event that was read as rejected.
Reset(seen) ==
  IF seen = "REJECTED"
  THEN /\ status' = "DRAFT"
       /\ marks' = marks \ {"submittedAt", "reviewedAt", "rejectionReason"}
  ELSE UNCHANGED <<status, marks>>

Finish(r) == request' = [request EXCEPT ![r] = Idle]

Goto(r, pc) == request' = [request EXCEPT ![r].pc = pc]

\* update(), createTicketType(), updateTicketType(): "update"; and the event's part
\* of updateCapacity().  Units are in Capacity.
Write(r) ==
  /\ request[r].pc = "write" /\ request[r].op # "reorder"
  /\ \/ request[r].op = "update" /\ content' \in Content /\ UNCHANGED sale
     \/ sale' \in {"closed", "open"} /\ UNCHANGED content
  /\ Reset(request[r].seen)
  /\ Finish(r)
  /\ UNCHANGED <<rowVars, store, queue, lost, failures, agreed>>

\* The gallery that was read takes the positions 1..n; a row that is gone or a
\* position that another image has rolls the transaction back.
Reorder(r, f) ==
  LET rows == request[r].rows
  IN /\ request[r].pc = "write" /\ request[r].op = "reorder"
     /\ rows \subseteq Rows
     /\ f \in [rows -> 1..Cardinality(rows)]
     /\ \A i, j \in rows : f[i] = f[j] => i = j
     /\ \A i \in rows, j \in Rows \ rows : f[i] # position[j]
     /\ position' = [i \in Image |-> IF i \in rows THEN f[i] ELSE position[i]]
     /\ Reset(request[r].seen)
     /\ Finish(r)
     /\ UNCHANGED <<content, sale, kind, store, queue, lost, failures, agreed>>

\* A request ends before it has changed anything: refused, failed, rolled back.
Refuse(r) ==
  /\ request[r].pc \in {"write", "put", "delete"}
  /\ Finish(r)
  /\ UNCHANGED <<eventVars, rowVars, store, queue, lost, failures, agreed>>

Fresh(i) ==
  /\ i \notin Rows \cup store \cup queue
  /\ \A r \in Request : request[r].image # i /\ i \notin request[r].rows

\* The object is stored under a new key.
Put(r, i) ==
  /\ request[r].pc = "put"
  /\ Fresh(i)
  /\ store' = store \cup {i}
  /\ request' = [request EXCEPT ![r].pc = "insert", ![r].image = i]
  /\ UNCHANGED <<eventVars, rowVars, queue, lost, failures, agreed>>

\* Mutant: the unique key is on the id alone.
Taken_Never(p) == FALSE

\* The unique key on event and position.
Taken(p) == \E i \in Rows : position[i] = p

\* Mutant: the form's own value is stored.
KindOf_Raw(op) == op

KindOf(op) == IF op = "cover" THEN "COVER" ELSE "GALLERY"

Insert(r) ==
  LET i == request[r].image
  IN /\ request[r].pc = "insert"
     /\ ~Taken(request[r].at)
     /\ kind' = [kind EXCEPT ![i] = KindOf(request[r].op)]
     /\ position' = [position EXCEPT ![i] = request[r].at]
     /\ Reset(request[r].seen)
     /\ Finish(r)
     /\ UNCHANGED <<content, sale, store, queue, lost, failures, agreed>>

InsertFails(r) ==
  /\ request[r].pc = "insert"
  /\ \/ Taken(request[r].at) /\ UNCHANGED failures
     \/ Fail
  /\ Goto(r, "undo")
  /\ UNCHANGED <<eventVars, rowVars, store, queue, lost, agreed>>

\* removeImage(): the row goes; if it has gone already, nothing happens.
Delete(r) ==
  LET i == request[r].image
  IN /\ request[r].pc = "delete"
     /\ i \in Rows
     /\ kind' = [kind EXCEPT ![i] = "NONE"]
     /\ position' = [position EXCEPT ![i] = 0]
     /\ Reset(request[r].seen)
     /\ Goto(r, "erase")
     /\ UNCHANGED <<content, sale, store, queue, lost, failures, agreed>>

-----------------------------------------------------------------------------
(* Objects *)

\* The object of a removed image, or of an upload that failed, is removed.
Erase(r) ==
  /\ request[r].pc \in {"erase", "undo"}
  /\ store' = store \ {request[r].image}
  /\ Finish(r)
  /\ UNCHANGED <<eventVars, rowVars, queue, lost, failures, agreed>>

\* Mutant: the failed removal is only logged.
Queued_Logged(i) == queue

\* The upsert of MediaDeletion.
Queued(i) == queue \cup {i}

\* An upload's failed removal is ignored, an image's is queued.
EraseFails(r) ==
  /\ Fail
  /\ \/ request[r].pc = "erase" /\ queue' = Queued(request[r].image) /\ UNCHANGED lost
     \/ request[r].pc = "undo" /\ lost' = lost \cup {request[r].image} /\ UNCHANGED queue
  /\ Finish(r)
  /\ UNCHANGED <<eventVars, rowVars, store, agreed>>

\* Mutant: the row of the queue goes before the object.
JobForgets_First(i) == i \in queue

\* The job deletes the queue's row after the object.
JobForgets(i) == i \in queue \ store

\* cleanup(): an attempt that fails leaves the row for a later one.
JobErase(i) ==
  /\ i \in queue
  /\ store' = store \ {i}
  /\ UNCHANGED <<eventVars, rowVars, queue, lost, request, failures, agreed>>

JobForget(i) ==
  /\ JobForgets(i)
  /\ queue' = queue \ {i}
  /\ UNCHANGED <<eventVars, rowVars, store, lost, request, failures, agreed>>

\* The server stops: its requests end where they are.
Crash ==
  /\ Fail
  /\ lost' = lost \cup {i \in store : \E r \in Request :
                request[r].image = i /\ request[r].pc \in {"insert", "undo", "erase"}}
  /\ request' = [r \in Request |-> Idle]
  /\ UNCHANGED <<eventVars, rowVars, store, queue, agreed>>

-----------------------------------------------------------------------------
Edit(r) ==
  \/ \E op \in Op : ReadEdit(r, op)
  \/ \E k \in {"COVER", "GALLERY"}, p \in 0..MaxPosition : ReadAdd(r, k, p)
  \/ ReadReorder(r)
  \/ \E i \in Image : ReadRemove(r, i) \/ Put(r, i)
  \/ Write(r) \/ Refuse(r) \/ Insert(r) \/ InsertFails(r) \/ Delete(r)
  \/ \E f \in [request[r].rows -> 1..MaxPosition] : Reorder(r, f)
  \/ Erase(r) \/ EraseFails(r)

Next ==
  \/ Submit \/ Approve \/ Reject \/ Cancel
  \/ \E r \in Request : Edit(r)
  \/ \E i \in Image : JobErase(i) \/ JobForget(i)
  \/ Crash

Spec == Init /\ [][Next]_vars

-----------------------------------------------------------------------------
(* Properties *)

\* The columns of the review agree with the status, also when edits that read
\* an older status write late (reviewReset, submit, approve, reject).
ReviewTrail ==
  /\ status = "DRAFT" => marks \cap {"submittedAt", "reviewedAt", "rejectionReason"} = {}
  /\ status = "PENDING_REVIEW" =>
       marks \cap {"submittedAt", "reviewedAt", "rejectionReason"} = {"submittedAt"}
  /\ status = "REJECTED" => {"submittedAt", "reviewedAt", "rejectionReason"} \subseteq marks
  /\ status = "PUBLISHED" =>
       /\ {"submittedAt", "reviewedAt", "publishedAt"} \subseteq marks
       /\ "rejectionReason" \notin marks

\* RN23, as far as it goes: an event under review, on sale or cancelled is what was
\* agreed, and under review it has its cover and ticket type, unless an edit was in
\* flight when it was submitted or cancelled (assertContentEditable, submit, cancel).
StaysAsAgreed ==
  agreed # Null =>
    /\ status \in {"PENDING_REVIEW", "PUBLISHED", "CANCELLED"}
    /\ content = agreed
    /\ status = "PENDING_REVIEW" => sale = "open"
    /\ status \in {"PENDING_REVIEW", "PUBLISHED"} => Cover # {}

\* RN22 and RN15 under the same condition: such an event moves as EventLifeCycle
\* promises, and never back to the organiser's drafts.
AgreedLifeCycle == [][agreed # Null => LifeCycle!Next \/ UNCHANGED status]_vars

Uploads == {r \in Request : request[r].pc \in {"put", "insert"} /\ request[r].op = "gallery"}

\* addImage() counts before the upload.  Uploads in flight may take a full gallery
\* over its limit, but by fewer images than there are concurrent requests.
GalleryNearLimit ==
  Cardinality(Gallery) >= GalleryLimit =>
    Cardinality(Gallery) + Cardinality(Uploads) < GalleryLimit + Cardinality(Request)

\* One cover: the count before the upload is not enough, the unique key on the
\* position is (addImage, schema.prisma).
OneCover == \A i, j \in Cover : i = j

\* Every image that is shown has its object, and every object is an image's, in
\* the queue, in a request's hands, or lost by a failure (addImage, removeImage).
MediaInv ==
  /\ Rows \subseteq store
  /\ store \subseteq Rows \cup queue \cup lost \cup
       {request[r].image : r \in {q \in Request :
          request[q].pc \in {"insert", "undo", "erase"}}}
  /\ lost # {} => failures > 0

-----------------------------------------------------------------------------
(* What the documents say and the code does not do *)

\* docs/03-regras-de-negocio.md, RN22: "eventos seguem `DRAFT/REJECTED →
\* PENDING_REVIEW → PUBLISHED ou REJECTED`".  An edit that read REJECTED writes
\* DRAFT over whatever the event has become since.
ImplementsLifeCycle == LifeCycle!Spec
=============================================================================
