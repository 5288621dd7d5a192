-------------------------- MODULE EventContentProofs --------------------------
(***************************************************************************)
(* For every number of requests and images and every limit of the gallery: *)
(* types; the review's columns agree with the status; an event that was    *)
(* submitted or cancelled with no edit in flight stays as it was agreed;   *)
(* rows have their objects and no object is forgotten; one cover; and the  *)
(* gallery passes its limit by fewer images than there are requests.       *)
(***************************************************************************)
EXTENDS EventContent, FiniteSetTheorems, TLAPS

USE ContentAssumption DEF ContentAssumption

-----------------------------------------------------------------------------
(* Types *)

\* Whoever has stored an object, or is about to delete one, knows which.
HasImage ==
  \A r \in Request : request[r].pc \in {"insert", "undo", "delete", "erase"} =>
                        request[r].image \in Image

\* A request that ends, moves on or has stored its object is well typed.
LEMMA FinishedRequest ==
  ASSUME TypeOK, NEW r \in Request, Finish(r)
  PROVE  request' \in [Request -> RequestState]
BY DEF TypeOK, Finish, RequestState, Idle, Op

\* A request that goes on to its next step is well typed.
LEMMA MovedRequest ==
  ASSUME TypeOK, NEW r \in Request, NEW pc \in {"insert", "undo", "erase"}, Goto(r, pc)
  PROVE  request' \in [Request -> RequestState]
<1>1. request \in [Request -> RequestState]
  BY DEF TypeOK
<1>2. [request[r] EXCEPT !.pc = pc] \in RequestState
  BY <1>1 DEF RequestState
<1> QED BY <1>1, <1>2 DEF Goto

\* A request that has stored its file is well typed.
LEMMA StoredRequest ==
  ASSUME TypeOK, NEW r \in Request, NEW i \in Image, Put(r, i)
  PROVE  request' \in [Request -> RequestState]
<1>1. request \in [Request -> RequestState]
  BY DEF TypeOK
<1>2. [request[r] EXCEPT !.pc = "insert", !.image = i] \in RequestState
  BY <1>1 DEF RequestState
<1> QED BY <1>1, <1>2 DEF Put

\* A request that starts an upload, a write or a removal is well typed.
LEMMA StartedRequest ==
  ASSUME TypeOK, NEW r \in Request, NEW op \in Op,
         NEW pc \in {"write", "put", "delete"}, NEW i \in Image \cup {Null},
         NEW at \in 0..MaxPosition, NEW rows \in SUBSET Image,
         Start(r, pc, op, i, at, rows)
  PROVE  TypeOK'
BY DEF TypeOK, Start, RequestState, eventVars, rowVars

\* An edit's reset of the review leaves the status and the marks well typed.
LEMMA ResetType ==
  ASSUME TypeOK, NEW seen, Reset(seen)
  PROVE  status' \in LifeCycle!Status /\ marks' \subseteq Mark
BY DEF TypeOK, Reset, LifeCycle!Status

\* Every step keeps the state well typed.
LEMMA TypeStep ==
  ASSUME TypeOK, HasImage, [Next]_vars
  PROVE  TypeOK'
<1> USE DEF eventVars, rowVars
<1>1. CASE Submit
  BY <1>1 DEF Submit, TypeOK, SubmitMarks, Agreed, Mark, LifeCycle!Status
<1>2. CASE Approve  BY <1>2 DEF Approve, TypeOK, Mark, LifeCycle!Status
<1>3. CASE Reject  BY <1>3 DEF Reject, TypeOK, Mark, LifeCycle!Status
<1>4. CASE Cancel  BY <1>4 DEF Cancel, TypeOK, Agreed, LifeCycle!Status
<1>5. ASSUME NEW r \in Request, Edit(r)
      PROVE  TypeOK'
  <2>1. ASSUME NEW op \in Op, ReadEdit(r, op)  PROVE TypeOK'
    BY <2>1, StartedRequest DEF ReadEdit
  <2>2. ASSUME NEW k \in {"COVER", "GALLERY"}, NEW p \in 0..MaxPosition, ReadAdd(r, k, p)
        PROVE  TypeOK'
    BY <2>2, StartedRequest DEF ReadAdd, Op
  <2>3. CASE ReadReorder(r)
    BY <2>3, StartedRequest DEF ReadReorder, Op, Gallery
  <2>4. ASSUME NEW i \in Image, ReadRemove(r, i)  PROVE TypeOK'
    BY <2>4, StartedRequest DEF ReadRemove, Op
  <2>5. ASSUME NEW i \in Image, Put(r, i)  PROVE TypeOK'
    BY <2>5, StoredRequest DEF Put, TypeOK
  <2>6. CASE Write(r)
    BY <2>6, FinishedRequest, ResetType DEF Write, TypeOK
  <2>7. CASE Refuse(r)
    BY <2>7, FinishedRequest DEF Refuse, TypeOK
  <2>8. CASE Insert(r)
    <3>1. request[r] \in RequestState  BY DEF TypeOK
    <3>2. /\ kind' \in [Image -> {"NONE", "COVER", "GALLERY"}]
          /\ position' \in [Image -> 0..MaxPosition]
      BY <2>8, <3>1 DEF Insert, TypeOK, RequestState, KindOf
    <3> QED BY <2>8, <3>2, FinishedRequest, ResetType DEF Insert, TypeOK
  <2>9. CASE InsertFails(r)
    BY <2>9, MovedRequest DEF InsertFails, Fail, TypeOK
  <2>10. CASE Delete(r)
    <3>1. kind' \in [Image -> {"NONE", "COVER", "GALLERY"}]
      BY <2>10 DEF Delete, TypeOK
    <3>2. 0 \in 0..MaxPosition
      OBVIOUS
    <3>3. position' \in [Image -> 0..MaxPosition]
      BY <2>10, <3>2 DEF Delete, TypeOK
    <3> QED BY <2>10, <3>1, <3>3, MovedRequest, ResetType DEF Delete, TypeOK
  <2>11. ASSUME NEW f \in [request[r].rows -> 1..MaxPosition], Reorder(r, f)  PROVE TypeOK'
    <3>1. position' \in [Image -> 0..MaxPosition]
      BY <2>11 DEF Reorder, TypeOK
    <3> QED BY <2>11, <3>1, FinishedRequest, ResetType DEF Reorder, TypeOK
  <2>12. CASE Erase(r)
    BY <2>12, FinishedRequest DEF Erase, TypeOK
  <2>13. CASE EraseFails(r)
    <3>1. request[r].image \in Image  BY <2>13 DEF HasImage, EraseFails
    <3> QED BY <2>13, <3>1, FinishedRequest DEF EraseFails, Fail, Queued, TypeOK
  <2> QED BY <1>5, <2>1, <2>2, <2>3, <2>4, <2>5, <2>6, <2>7, <2>8, <2>9, <2>10, <2>11,
             <2>12, <2>13 DEF Edit
<1>6. ASSUME NEW i \in Image, JobErase(i)  PROVE TypeOK'
  BY <1>6 DEF JobErase, TypeOK
<1>7. ASSUME NEW i \in Image, JobForget(i)  PROVE TypeOK'
  BY <1>7 DEF JobForget, TypeOK
<1>8. CASE Crash
  BY <1>8 DEF Crash, Fail, TypeOK, RequestState, Idle, Op
<1>9. CASE UNCHANGED vars
  BY <1>9 DEF vars, TypeOK
<1> QED BY <1>1, <1>2, <1>3, <1>4, <1>5, <1>6, <1>7, <1>8, <1>9 DEF Next

\* No step leaves a request past its upload without an image.
LEMMA ImageStep ==
  ASSUME TypeOK, HasImage, [Next]_vars
  PROVE  HasImage'
<1> USE DEF HasImage
<1>1. request \in [Request -> RequestState]  BY DEF TypeOK
<1>2. ASSUME NEW r \in Request, Finish(r)
      PROVE  HasImage'
  BY <1>1, <1>2 DEF Finish, Idle
<1>3. ASSUME NEW r \in Request, NEW pc \in {"undo", "erase"}, Goto(r, pc),
             request[r].pc \in {"insert", "delete"}
      PROVE  HasImage'
  BY <1>1, <1>3 DEF Goto, RequestState
<1>4. ASSUME NEW r \in Request, NEW op, NEW pc, NEW i, NEW at, NEW rows,
             pc = "delete" => i \in Image, pc \in {"write", "put", "delete"},
             Start(r, pc, op, i, at, rows)
      PROVE  HasImage'
  BY <1>1, <1>4 DEF Start
<1>5. ASSUME NEW r \in Request, Edit(r)
      PROVE  HasImage'
  <2>1. ASSUME NEW op \in Op, ReadEdit(r, op)  PROVE HasImage'
    BY <2>1, <1>4 DEF ReadEdit
  <2>2. ASSUME NEW k \in {"COVER", "GALLERY"}, NEW p \in 0..MaxPosition, ReadAdd(r, k, p)
        PROVE  HasImage'
    BY <2>2, <1>4 DEF ReadAdd
  <2>3. CASE ReadReorder(r)  BY <2>3, <1>4 DEF ReadReorder
  <2>4. ASSUME NEW i \in Image, ReadRemove(r, i)  PROVE HasImage'
    BY <2>4, <1>4 DEF ReadRemove
  <2>5. ASSUME NEW i \in Image, Put(r, i)  PROVE HasImage'
    BY <1>1, <2>5 DEF Put, RequestState
  <2>6. CASE Write(r)  BY <2>6, <1>2 DEF Write
  <2>7. CASE Refuse(r)  BY <2>7, <1>2 DEF Refuse
  <2>8. CASE Insert(r)  BY <2>8, <1>2 DEF Insert
  <2>9. CASE InsertFails(r)  BY <2>9, <1>3 DEF InsertFails
  <2>10. CASE Delete(r)  BY <2>10, <1>3 DEF Delete
  <2>11. ASSUME NEW f \in [request[r].rows -> 1..MaxPosition], Reorder(r, f)  PROVE HasImage'
    BY <2>11, <1>2 DEF Reorder
  <2>12. CASE Erase(r)  BY <2>12, <1>2 DEF Erase
  <2>13. CASE EraseFails(r)  BY <2>13, <1>2 DEF EraseFails
  <2> QED BY <1>5, <2>1, <2>2, <2>3, <2>4, <2>5, <2>6, <2>7, <2>8, <2>9, <2>10, <2>11,
             <2>12, <2>13 DEF Edit
<1>6. ASSUME NEW i \in Image, JobErase(i)  PROVE HasImage'
  BY <1>6 DEF JobErase
<1>7. ASSUME NEW i \in Image, JobForget(i)  PROVE HasImage'
  BY <1>7 DEF JobForget
<1>8. CASE Crash  BY <1>8 DEF Crash, Idle
<1>9. CASE UNCHANGED vars  BY <1>9 DEF vars
<1>10. CASE Submit \/ Approve \/ Reject \/ Cancel
  BY <1>10 DEF Submit, Approve, Reject, Cancel
<1> QED BY <1>5, <1>6, <1>7, <1>8, <1>9, <1>10 DEF Next

\* Every reachable state is well typed.
THEOREM ContentTyped == Spec => [](TypeOK /\ HasImage)
<1>1. Init => TypeOK /\ HasImage
  BY DEF Init, TypeOK, HasImage, Mark, RequestState, Idle, Op, LifeCycle!Status
<1>2. TypeOK /\ HasImage /\ [Next]_vars => (TypeOK /\ HasImage)'
  BY TypeStep, ImageStep
<1> QED BY <1>1, <1>2, PTL DEF Spec

-----------------------------------------------------------------------------
(* Status and review *)

Revised == status' = "DRAFT" /\ marks' = marks \ {"submittedAt", "reviewedAt", "rejectionReason"}

\* Edits, the job and crashes leave the status, or take it to DRAFT with its columns.
LEMMA StatusStep ==
  ASSUME Next, ~(Submit \/ Approve \/ Reject \/ Cancel)
  PROVE  UNCHANGED <<status, marks>> \/ Revised
<1> USE DEF eventVars, Reset, Revised
<1>1. ASSUME NEW r \in Request, Edit(r)
      PROVE  UNCHANGED <<status, marks>> \/ Revised
  <2>1. CASE Write(r)  BY <2>1 DEF Write
  <2>2. CASE Insert(r)  BY <2>2 DEF Insert
  <2>3. CASE Delete(r)  BY <2>3 DEF Delete
  <2>4. ASSUME NEW f, Reorder(r, f)  PROVE UNCHANGED <<status, marks>> \/ Revised
    BY <2>4 DEF Reorder
  <2>5. CASE \/ \E op \in Op : ReadEdit(r, op)
             \/ \E k \in {"COVER", "GALLERY"}, p \in 0..MaxPosition : ReadAdd(r, k, p)
             \/ ReadReorder(r)
             \/ \E i \in Image : ReadRemove(r, i)
    BY <2>5 DEF ReadEdit, ReadAdd, ReadReorder, ReadRemove, Start
  <2>6. CASE (\E i \in Image : Put(r, i)) \/ Refuse(r) \/ InsertFails(r)
    BY <2>6 DEF Put, Refuse, InsertFails
  <2>7. CASE Erase(r) \/ EraseFails(r)  BY <2>7 DEF Erase, EraseFails
  <2> QED BY <1>1, <2>1, <2>2, <2>3, <2>4, <2>5, <2>6, <2>7 DEF Edit
<1>2. CASE \E i \in Image : JobErase(i) \/ JobForget(i)
  BY <1>2 DEF JobErase, JobForget
<1>3. CASE Crash  BY <1>3 DEF Crash
<1> QED BY <1>1, <1>2, <1>3 DEF Next

\* No step lets the status and the review's trail part.
LEMMA ReviewStep ==
  ASSUME ReviewTrail, [Next]_vars
  PROVE  ReviewTrail'
<1>1. CASE Submit  BY <1>1 DEF ReviewTrail, Submit, SubmitMarks
<1>2. CASE Approve  BY <1>2 DEF ReviewTrail, Approve
<1>3. CASE Reject  BY <1>3 DEF ReviewTrail, Reject
<1>4. CASE Cancel  BY <1>4 DEF ReviewTrail, Cancel
<1>5. CASE Next /\ ~(Submit \/ Approve \/ Reject \/ Cancel)
  <2>1. CASE UNCHANGED <<status, marks>>  BY <2>1 DEF ReviewTrail
  <2>2. CASE Revised  BY <2>2 DEF ReviewTrail, Revised
  <2> QED BY <1>5, <2>1, <2>2, StatusStep
<1>6. CASE UNCHANGED vars  BY <1>6 DEF ReviewTrail, vars, eventVars
<1> QED BY <1>1, <1>2, <1>3, <1>4, <1>5, <1>6

\* The columns of the review agree with the status, whatever edits are late.
THEOREM ReviewIsTraced == Spec => []ReviewTrail
<1>1. Init => ReviewTrail  BY DEF Init, ReviewTrail
<1>2. ReviewTrail /\ [Next]_vars => ReviewTrail'  BY ReviewStep
<1> QED BY <1>1, <1>2, PTL DEF Spec

\* StaysAsAgreed needs that nothing is in flight but changes of capacity that
\* have not read REJECTED, and these only once the event is on sale.
AgreedInv ==
  /\ StaysAsAgreed
  /\ agreed # Null =>
       /\ status = "PENDING_REVIEW" => Pending = {}
       /\ \A r \in Pending : /\ request[r].pc = "write" /\ request[r].op = "capacity"
                             /\ request[r].seen = "another"

\* A request that starts is no other edit than one of capacity while its event is
\* as agreed; one that ends or is not pending adds nothing.
LEMMA PendingStep ==
  ASSUME TypeOK, AgreedInv, agreed # Null, agreed' = agreed, status' = status,
         content' = content, sale' = sale \/ status # "PENDING_REVIEW", kind' = kind,
         NEW r \in Request, NEW state, request' = [request EXCEPT ![r] = state],
         \/ state.pc \notin {"write", "put", "insert", "delete"}
         \/ /\ status # "PENDING_REVIEW"
            /\ state.pc = "write" /\ state.op = "capacity" /\ state.seen = "another"
  PROVE  AgreedInv'
<1>1. /\ r \in Pending' => /\ status # "PENDING_REVIEW"
                          /\ state.pc = "write" /\ state.op = "capacity"
                          /\ state.seen = "another"
      /\ \A q \in Request : q # r => request'[q] = request[q]
      /\ request'[r] = state
  BY DEF Pending, TypeOK
<1>2. StaysAsAgreed'
  BY DEF AgreedInv, StaysAsAgreed, Cover
<1>3. \A q \in Pending' : q # r => q \in Pending
  BY <1>1 DEF Pending
<1>4. status' = "PENDING_REVIEW" => Pending' = {}
  BY <1>1, <1>3 DEF AgreedInv
<1>5. \A q \in Pending' : /\ request'[q].pc = "write" /\ request'[q].op = "capacity"
                          /\ request'[q].seen = "another"
  BY <1>1, <1>3 DEF AgreedInv, Pending
<1> QED BY <1>2, <1>4, <1>5 DEF AgreedInv

\* Steps of requests while the event is as agreed.
LEMMA AgreedEdit ==
  ASSUME TypeOK, AgreedInv, agreed # Null, NEW r \in Request, Edit(r)
  PROVE  AgreedInv' /\ UNCHANGED status
<1> DEFINE Open == {"PENDING_REVIEW", "PUBLISHED", "CANCELLED"}
<1>1. status \in Open  BY DEF AgreedInv, StaysAsAgreed
<1>2. r \in Pending => /\ status # "PENDING_REVIEW"
                       /\ request[r].pc = "write" /\ request[r].op = "capacity"
                       /\ request[r].seen = "another"
  BY DEF AgreedInv
<1>3. ASSUME NEW op, NEW pc, NEW i, NEW at, NEW rows, Start(r, pc, op, i, at, rows),
             pc # "write" => op # "capacity"
      PROVE  AgreedInv' /\ UNCHANGED status
  <2>1. op = "capacity" /\ status = "PUBLISHED"
    BY <1>1, <1>3 DEF Start, Editable
  <2> DEFINE state == [pc |-> pc, op |-> op, image |-> i, at |-> at, rows |-> rows,
                       seen |-> "another"]
  <2>2. request' = [request EXCEPT ![r] = state]
    BY <1>3, <2>1 DEF Start
  <2>3. state.pc = "write" /\ state.op = "capacity" /\ state.seen = "another"
    BY <1>3, <2>1
  <2> QED BY <1>3, <2>1, <2>2, <2>3, PendingStep DEF Start, eventVars, rowVars
<1>4. ASSUME Finish(r), agreed' = agreed, status' = status, content' = content,
             sale' = sale \/ status # "PENDING_REVIEW", kind' = kind
      PROVE  AgreedInv'
  BY <1>4, PendingStep DEF Finish, Idle
<1>5. ASSUME NEW op \in Op, ReadEdit(r, op)  PROVE AgreedInv' /\ UNCHANGED status
  BY <1>5, <1>3 DEF ReadEdit
<1>6. ASSUME NEW k, NEW p, ReadAdd(r, k, p)  PROVE AgreedInv' /\ UNCHANGED status
  <2>1. (IF k = "COVER" THEN "cover" ELSE "gallery") # "capacity"
    OBVIOUS
  <2> QED BY <1>6, <1>3, <2>1 DEF ReadAdd
<1>7. CASE ReadReorder(r)  BY <1>7, <1>3 DEF ReadReorder
<1>8. ASSUME NEW i, ReadRemove(r, i)  PROVE AgreedInv' /\ UNCHANGED status
  BY <1>8, <1>3 DEF ReadRemove
<1>9. CASE Write(r)
  <2>1. r \in Pending  BY <1>9 DEF Write, Pending
  <2>2. /\ status' = status /\ content' = content /\ kind' = kind /\ agreed' = agreed
        /\ Finish(r) /\ status # "PENDING_REVIEW"
    BY <1>9, <1>2, <2>1 DEF Write, Reset, rowVars
  <2> QED BY <2>2, <1>4
<1>10. CASE Refuse(r)  BY <1>10, <1>4 DEF Refuse, eventVars, rowVars
<1>11. CASE Erase(r)  BY <1>11, <1>4 DEF Erase, eventVars, rowVars
<1>12. CASE EraseFails(r)  BY <1>12, <1>4 DEF EraseFails, eventVars, rowVars
<1>13. ~Insert(r) /\ ~InsertFails(r) /\ ~Delete(r) /\ \A i : ~Put(r, i)
  BY <1>2 DEF Insert, InsertFails, Delete, Put, Pending
<1>14. \A f : ~Reorder(r, f)
  BY <1>2 DEF Reorder, Pending
<1> QED BY <1>5, <1>6, <1>7, <1>8, <1>9, <1>10, <1>11, <1>12, <1>13, <1>14 DEF Edit

\* Nothing but a submission or a cancellation agrees on a content.
LEMMA NothingAgreed ==
  ASSUME agreed = Null, [Next]_vars, ~Submit, ~Cancel
  PROVE  agreed' = Null
<1>1. ASSUME NEW r \in Request, Edit(r)
      PROVE  agreed' = agreed
  BY <1>1 DEF Edit, ReadEdit, ReadAdd, ReadReorder, ReadRemove, Start, Put, Write, Refuse,
     Insert, InsertFails, Delete, Reorder, Erase, EraseFails
<1> QED BY <1>1 DEF Next, Approve, Reject, JobErase, JobForget, Crash, vars

\* What the organizer agreed to stands, and the status follows its life cycle.
LEMMA AgreedStep ==
  ASSUME TypeOK, AgreedInv, [Next]_vars
  PROVE  AgreedInv' /\ (agreed # Null => LifeCycle!Next \/ UNCHANGED status)
<1> USE DEF LifeCycle!Next, LifeCycle!Go, LifeCycle!Status, eventVars, rowVars
<1>1. CASE Submit
  <2>1. AgreedInv'
    BY <1>1 DEF Submit, Agreed, AgreedInv, StaysAsAgreed, Pending, Cover
  <2> QED BY <1>1, <2>1 DEF Submit, LifeCycle!Submit
<1>2. CASE Cancel
  <2>1. AgreedInv'
    BY <1>2 DEF Cancel, Agreed, AgreedInv, StaysAsAgreed, Pending
  <2> QED BY <1>2, <2>1 DEF Cancel, LifeCycle!Cancel, TypeOK
<1>3. CASE agreed = Null /\ ~Submit /\ ~Cancel
  BY <1>3, NothingAgreed DEF AgreedInv, StaysAsAgreed
<1>4. CASE agreed # Null /\ Approve
  <2>1. AgreedInv'
    BY <1>4 DEF Approve, AgreedInv, StaysAsAgreed, Pending, Cover
  <2> QED BY <1>4, <2>1 DEF Approve, LifeCycle!Approve
<1>5. CASE Reject
  BY <1>5 DEF Reject, AgreedInv, StaysAsAgreed, LifeCycle!Reject
<1>6. ASSUME agreed # Null, NEW r \in Request, Edit(r)
      PROVE  AgreedInv' /\ UNCHANGED status
  BY <1>6, AgreedEdit
<1>7. CASE \/ \E i \in Image : JobErase(i) \/ JobForget(i)
           \/ UNCHANGED vars
  BY <1>7 DEF JobErase, JobForget, vars, AgreedInv, StaysAsAgreed, Pending, Cover
<1>8. CASE Crash
  BY <1>8 DEF Crash, AgreedInv, StaysAsAgreed, Pending, Cover, Idle
<1> QED BY <1>1, <1>2, <1>3, <1>4, <1>5, <1>6, <1>7, <1>8 DEF Next

\* An event submitted or cancelled with no edit in flight stays as it was agreed.
THEOREM AgreedStays == Spec => []StaysAsAgreed
<1>1. Init => AgreedInv  BY DEF Init, AgreedInv, StaysAsAgreed
<1>2. TypeOK /\ AgreedInv /\ [Next]_vars => AgreedInv'  BY AgreedStep
<1>3. AgreedInv => StaysAsAgreed  BY DEF AgreedInv
<1> QED BY <1>1, <1>2, <1>3, ContentTyped, PTL DEF Spec

\* And its status moves as EventLifeCycle promises.
THEOREM AgreedFollowsLifeCycle == Spec => AgreedLifeCycle
<1>1. Init => AgreedInv  BY DEF Init, AgreedInv, StaysAsAgreed
<1>2. TypeOK /\ AgreedInv /\ [Next]_vars =>
        /\ AgreedInv'
        /\ [agreed # Null => LifeCycle!Next \/ UNCHANGED status]_vars
  BY AgreedStep
<1> QED BY <1>1, <1>2, ContentTyped, PTL DEF Spec, AgreedLifeCycle

-----------------------------------------------------------------------------
(* Images and objects *)

\* Who has an image in hand: an upload's key is its own; a removed image is in one
\* request's hands, and others may only find out that its row is gone.
Own ==
  /\ Rows \subseteq store /\ queue \cap Rows = {}
  /\ \A r \in Request : request[r].pc \in {"idle", "write", "put"} => request[r].image = Null
  /\ \A r \in Request : request[r].pc \in {"insert", "undo"} =>
       /\ request[r].image \in store \ (Rows \cup queue)
       /\ \A q \in Request : /\ q # r => request[q].image # request[r].image
                             /\ request[r].image \notin request[q].rows
  /\ \A r \in Request : request[r].pc = "erase" =>
       /\ request[r].image \notin Rows
       /\ \A q \in Request : q # r /\ request[q].image = request[r].image =>
                                request[q].pc = "delete"

\* A request other than r is as it was.
LEMMA OthersStay ==
  ASSUME TypeOK, NEW r \in Request, NEW state, request' = [request EXCEPT ![r] = state]
  PROVE  request'[r] = state /\ \A q \in Request : q # r => request'[q] = request[q]
BY DEF TypeOK

\* A request that ends gives up its image and touches no other's.
LEMMA OwnFinish ==
  ASSUME TypeOK, HasImage, Own, NEW r \in Request, Finish(r), kind' = kind,
         store' = store, queue' = queue
  PROVE  Own'
<1>1. request'[r] = Idle /\ \A q \in Request : q # r => request'[q] = request[q]
  BY OthersStay DEF Finish
<1> QED BY <1>1 DEF Own, Rows, Idle, HasImage

\* A request that starts has nothing in hand but the image of the row it deletes.
LEMMA OwnStart ==
  ASSUME TypeOK, HasImage, Own, NEW r \in Request, NEW op, NEW pc \in {"write", "put", "delete"},
         NEW i, NEW at, NEW rows, Start(r, pc, op, i, at, rows),
         pc = "delete" => i \in Rows, pc # "delete" => i = Null, rows \subseteq Rows
  PROVE  Own'
<1>1. /\ request'[r].pc = pc /\ request'[r].image = i /\ request'[r].rows = rows
      /\ \A q \in Request : q # r => request'[q] = request[q]
  BY DEF Start, TypeOK
<1>2. kind' = kind /\ store' = store /\ queue' = queue
  BY DEF Start, rowVars
<1>3. Null \notin Image /\ Rows \subseteq Image
  BY DEF Rows
<1> QED BY <1>1, <1>2, <1>3 DEF Own, Rows, HasImage

\* A stored file belongs to the one request that stored it.
LEMMA OwnPut ==
  ASSUME TypeOK, HasImage, Own, NEW r \in Request, NEW i \in Image, Put(r, i)
  PROVE  Own'
<1>1. /\ request'[r].pc = "insert" /\ request'[r].image = i
      /\ \A q \in Request : q # r => request'[q] = request[q]
      /\ \A q \in Request : request'[q].rows = request[q].rows
  BY DEF Put, TypeOK, RequestState
<1>2. kind' = kind /\ store' = store \cup {i} /\ queue' = queue /\ Fresh(i)
  BY DEF Put, rowVars
<1> QED BY <1>1, <1>2 DEF Own, Rows, HasImage, Fresh

\* A row takes over the file of the request that inserts it.
LEMMA OwnInsert ==
  ASSUME TypeOK, HasImage, Own, NEW r \in Request, Insert(r)
  PROVE  Own'
<1> DEFINE i == request[r].image
<1>1. request'[r] = Idle /\ \A q \in Request : q # r => request'[q] = request[q]
  BY OthersStay DEF Insert, Finish
<1>2. i \in Image /\ i \in store \ (Rows \cup queue)
      /\ \A q \in Request : q # r => request[q].image # i
  BY DEF Insert, HasImage, Own
<1>3. store' = store /\ queue' = queue /\ Rows' = Rows \cup {i}
  BY <1>2 DEF Insert, Rows, TypeOK, KindOf
<1> QED BY <1>1, <1>2, <1>3 DEF Own, HasImage, Idle

\* A deleted row leaves its file to the one request that deleted it.
LEMMA OwnDelete ==
  ASSUME TypeOK, HasImage, Own, NEW r \in Request, Delete(r)
  PROVE  Own'
<1> DEFINE i == request[r].image
<1>1. /\ request'[r].pc = "erase" /\ request'[r].image = i
      /\ \A q \in Request : q # r => request'[q] = request[q]
      /\ \A q \in Request : request'[q].rows = request[q].rows
  BY DEF Delete, Goto, TypeOK, RequestState
<1>2. store' = store /\ queue' = queue /\ Rows' = Rows \ {i} /\ i \in Rows
  BY DEF Delete, Rows, TypeOK
<1>3. \A q \in Request : q # r /\ request[q].image = i => request[q].pc = "delete"
  <2>1. \A q \in Request : request[q].pc \in
          {"idle", "write", "put", "insert", "undo", "delete", "erase"}
    BY DEF TypeOK, RequestState
  <2> QED BY <1>2, <2>1 DEF Own, Rows
<1> QED BY <1>1, <1>2, <1>3 DEF Own, HasImage

\* An erased file, or one whose removal is queued, is nobody's.
LEMMA OwnErase ==
  ASSUME TypeOK, HasImage, Own, NEW r \in Request, Erase(r) \/ EraseFails(r)
  PROVE  Own'
<1> DEFINE i == request[r].image
<1>1. request'[r] = Idle /\ \A q \in Request : q # r => request'[q] = request[q]
  BY OthersStay DEF Erase, EraseFails, Finish
<1>2. i \in Image /\ i \notin Rows
      /\ \A q \in Request : q # r /\ request[q].image = i => request[q].pc = "delete"
  BY DEF Erase, EraseFails, HasImage, Own
<1>3. CASE Erase(r)
  BY <1>1, <1>2, <1>3 DEF Erase, Own, HasImage, Idle, Rows, rowVars
<1>4. CASE EraseFails(r)
  BY <1>1, <1>2, <1>4 DEF EraseFails, Queued, Own, HasImage, Idle, Rows, rowVars
<1> QED BY <1>3, <1>4

\* Whatever step is taken, a file has one owner.
LEMMA OwnStep ==
  ASSUME TypeOK, HasImage, Own, [Next]_vars
  PROVE  Own'
<1>1. ASSUME NEW r \in Request, Edit(r)
      PROVE  Own'
  <2>1. ASSUME NEW op \in Op, ReadEdit(r, op)  PROVE Own'
    BY <2>1, OwnStart DEF ReadEdit
  <2>2. ASSUME NEW k, NEW p, ReadAdd(r, k, p)  PROVE Own'
    BY <2>2, OwnStart DEF ReadAdd
  <2>3. CASE ReadReorder(r)
    <3>1. Gallery \subseteq Rows  BY DEF Gallery, Rows
    <3> QED BY <2>3, <3>1, OwnStart DEF ReadReorder
  <2>4. ASSUME NEW i \in Image, ReadRemove(r, i)  PROVE Own'
    BY <2>4, OwnStart DEF ReadRemove
  <2>5. ASSUME NEW i \in Image, Put(r, i)  PROVE Own'  BY <2>5, OwnPut
  <2>6. CASE Write(r)  BY <2>6, OwnFinish DEF Write, rowVars
  <2>7. CASE Refuse(r)  BY <2>7, OwnFinish DEF Refuse, rowVars
  <2>8. CASE Insert(r)  BY <2>8, OwnInsert
  <2>9. CASE InsertFails(r)
    <3>1. /\ request[r].pc = "insert" /\ request'[r].pc = "undo"
          /\ request'[r].image = request[r].image
          /\ \A q \in Request : q # r => request'[q] = request[q]
          /\ \A q \in Request : request'[q].rows = request[q].rows
      BY <2>9 DEF InsertFails, Goto, TypeOK, RequestState
    <3>2. kind' = kind /\ store' = store /\ queue' = queue
      BY <2>9 DEF InsertFails, rowVars
    <3> QED BY <3>1, <3>2 DEF Own, Rows, HasImage
  <2>10. CASE Delete(r)  BY <2>10, OwnDelete
  <2>11. ASSUME NEW f, Reorder(r, f)  PROVE Own'
    BY <2>11, OwnFinish DEF Reorder
  <2>12. CASE Erase(r)  BY <2>12, OwnErase
  <2>13. CASE EraseFails(r)  BY <2>13, OwnErase
  <2> QED BY <1>1, <2>1, <2>2, <2>3, <2>4, <2>5, <2>6, <2>7, <2>8, <2>9, <2>10, <2>11,
             <2>12, <2>13 DEF Edit
<1>2. ASSUME NEW i \in Image, JobErase(i)  PROVE Own'
  BY <1>2 DEF JobErase, Own, Rows, HasImage, rowVars
<1>3. ASSUME NEW i \in Image, JobForget(i)  PROVE Own'
  BY <1>3 DEF JobForget, Own, Rows, HasImage, rowVars
<1>4. CASE Crash  BY <1>4 DEF Crash, Own, Rows, Idle, rowVars
<1>5. CASE UNCHANGED vars  BY <1>5 DEF vars, rowVars, Own, Rows
<1>6. CASE Submit \/ Approve \/ Reject \/ Cancel
  BY <1>6 DEF Submit, Approve, Reject, Cancel, Own, Rows, rowVars
<1> QED BY <1>1, <1>2, <1>3, <1>4, <1>5, <1>6 DEF Next

\* Nobody is lost as long as somebody holds, shows or will delete it.
Kept(i) ==
  \/ i \in Rows \cup queue \cup lost
  \/ \E r \in Request : request[r].image = i /\ request[r].pc \in {"insert", "undo", "erase"}

AllKept == (\A i \in store : Kept(i)) /\ (lost # {} => failures > 0)

\* A step of one request that ends or moves on keeps what the others keep.
LEMMA KeptByOthers ==
  ASSUME TypeOK, NEW r \in Request, NEW state, request' = [request EXCEPT ![r] = state],
         queue \subseteq queue', lost \subseteq lost',
         NEW i \in store, i \in Rows => i \in Rows', AllKept, i # request[r].image
  PROVE  Kept(i)'
<1>1. \A q \in Request : q # r => request'[q] = request[q]
  BY OthersStay
<1> QED BY <1>1 DEF AllKept, Kept

\* Whatever step is taken, no row loses its file.
LEMMA KeptStep ==
  ASSUME TypeOK, HasImage, Own, AllKept, [Next]_vars
  PROVE  AllKept'
<1> USE DEF eventVars, rowVars
<1>1. ASSUME NEW r \in Request, Edit(r)
      PROVE  AllKept'
  <2>1. ASSUME UNCHANGED <<kind, store, queue, lost, failures>>, request[r].image = Null,
               NEW state, request' = [request EXCEPT ![r] = state]
        PROVE  AllKept'
    <3>1. \A i \in store' : Kept(i)'
      BY <2>1, KeptByOthers DEF TypeOK, Rows
    <3> QED BY <2>1, <3>1 DEF AllKept
  <2>2. request[r].pc \in {"idle", "write", "put"} => request[r].image = Null
    BY DEF Own
  <2>3. CASE \/ \E op \in Op : ReadEdit(r, op)
             \/ \E k \in {"COVER", "GALLERY"}, p \in 0..MaxPosition : ReadAdd(r, k, p)
             \/ ReadReorder(r)
             \/ \E i \in Image : ReadRemove(r, i)
    BY <2>3, <2>2, <2>1 DEF ReadEdit, ReadAdd, ReadReorder, ReadRemove, Start
  <2>4. ASSUME NEW i \in Image, Put(r, i)  PROVE AllKept'
    <3>1. /\ request'[r].pc = "insert" /\ request'[r].image = i
          /\ \A q \in Request : q # r => request'[q] = request[q]
      BY <2>4 DEF Put, TypeOK, RequestState
    <3>2. store' = store \cup {i} /\ UNCHANGED <<kind, queue, lost, failures>>
          /\ request[r].pc = "put"
      BY <2>4 DEF Put
    <3> QED BY <3>1, <3>2 DEF AllKept, Kept, Rows
  <2>5. CASE Write(r)  BY <2>5, <2>2, <2>1 DEF Write, Finish
  <2>6. CASE Refuse(r)
    <3>1. request[r].pc = "delete" => request[r].pc \notin {"insert", "undo", "erase"}
      OBVIOUS
    <3>2. \A q \in Request : q # r => request'[q] = request[q]
      BY <2>6, OthersStay DEF Refuse, Finish
    <3> QED BY <2>6, <3>2 DEF Refuse, AllKept, Kept, Rows
  <2>7. CASE Insert(r)
    <3>1. request[r].image \in Image  BY <2>7 DEF Insert, HasImage
    <3>2. Rows' = Rows \cup {request[r].image}
      BY <2>7, <3>1 DEF Insert, Rows, TypeOK, KindOf
    <3>3. request' = [request EXCEPT ![r] = Idle] /\ UNCHANGED <<store, queue, lost, failures>>
      BY <2>7 DEF Insert, Finish
    <3>4. \A i \in store : i # request[r].image => Kept(i)'
      BY <3>2, <3>3, KeptByOthers
    <3> QED BY <3>2, <3>3, <3>4 DEF AllKept, Kept
  <2>8. CASE InsertFails(r)
    <3>1. /\ request'[r].pc = "undo" /\ request'[r].image = request[r].image
          /\ \A q \in Request : q # r => request'[q] = request[q]
      BY <2>8 DEF InsertFails, Goto, TypeOK, RequestState
    <3>2. UNCHANGED <<kind, store, queue, lost>> /\ failures' >= failures
      BY <2>8 DEF InsertFails, Fail, TypeOK
    <3>3. \A i \in store' : Kept(i)'
      BY <3>1, <3>2 DEF AllKept, Kept, Rows
    <3>4. failures \in Nat /\ failures' \in Nat
      BY <2>8 DEF InsertFails, Fail, TypeOK
    <3>5. lost # {} => failures' > 0
      BY <3>2, <3>4 DEF AllKept
    <3> QED BY <3>2, <3>3, <3>5 DEF AllKept
  <2>9. CASE Delete(r)
    <3>1. /\ request'[r].pc = "erase" /\ request'[r].image = request[r].image
          /\ \A q \in Request : q # r => request'[q] = request[q]
      BY <2>9 DEF Delete, Goto, TypeOK, RequestState
    <3>2. Rows' = Rows \ {request[r].image} /\ UNCHANGED <<store, queue, lost, failures>>
      BY <2>9 DEF Delete, Rows, TypeOK
    <3>3. request[r].pc = "delete"  BY <2>9 DEF Delete
    <3> QED BY <3>1, <3>2, <3>3 DEF AllKept, Kept
  <2>10. ASSUME NEW f, Reorder(r, f)  PROVE AllKept'
    BY <2>10, <2>2, <2>1 DEF Reorder, Finish
  <2>11. CASE Erase(r)
    <3>1. \A i \in store : i # request[r].image => Kept(i)'
      BY <2>11, KeptByOthers DEF Erase, Finish, Rows
    <3> QED BY <2>11, <3>1 DEF Erase, AllKept
  <2>12. CASE EraseFails(r)
    <3>1. /\ request' = [request EXCEPT ![r] = Idle] /\ UNCHANGED <<kind, store>>
          /\ request[r].image \in queue' \cup lost'
          /\ queue \subseteq queue' /\ lost \subseteq lost' /\ failures' = failures + 1
      BY <2>12 DEF EraseFails, Finish, Queued, Fail
    <3>2. \A i \in store : i # request[r].image => Kept(i)'
      BY <3>1, KeptByOthers DEF Rows
    <3>3. \A i \in store' : Kept(i)'
      BY <3>1, <3>2 DEF Kept
    <3>4. failures' > 0
      BY <3>1 DEF TypeOK
    <3> QED BY <3>3, <3>4 DEF AllKept
  <2> QED BY <1>1, <2>3, <2>4, <2>5, <2>6, <2>7, <2>8, <2>9, <2>10, <2>11, <2>12 DEF Edit
<1>2. ASSUME NEW i \in Image, JobErase(i)  PROVE AllKept'
  BY <1>2 DEF JobErase, AllKept, Kept, Rows
<1>3. ASSUME NEW i \in Image, JobForget(i)  PROVE AllKept'
  BY <1>3 DEF JobForget, JobForgets, AllKept, Kept, Rows
<1>4. CASE Crash
  <2>1. \A i \in store' : Kept(i)'
    BY <1>4 DEF Crash, AllKept, Kept, Rows
  <2>2. failures' > 0  BY <1>4 DEF Crash, Fail, TypeOK
  <2> QED BY <2>1, <2>2 DEF AllKept
<1>5. CASE UNCHANGED vars  BY <1>5 DEF vars, AllKept, Kept, Rows
<1>6. CASE Submit \/ Approve \/ Reject \/ Cancel
  BY <1>6 DEF Submit, Approve, Reject, Cancel, AllKept, Kept, Rows
<1> QED BY <1>1, <1>2, <1>3, <1>4, <1>5, <1>6 DEF Next

\* No image without its object, no object that is not accounted for.
THEOREM MediaIsKept == Spec => []MediaInv
<1>1. Init => Own /\ AllKept
  BY DEF Init, Own, AllKept, Rows, Idle
<1>2. TypeOK /\ HasImage /\ Own /\ AllKept /\ [Next]_vars => (Own /\ AllKept)'
  BY OwnStep, KeptStep
<1>3. Own /\ AllKept => MediaInv
  BY DEF Own, AllKept, Kept, MediaInv
<1> QED BY <1>1, <1>2, <1>3, ContentTyped, PTL DEF Spec

-----------------------------------------------------------------------------
(* Positions, the cover and the gallery *)

\* A cover is at 0 and the gallery after it; so are the uploads, and so is what a
\* reordering has read of the rows that still are.
Places ==
  /\ \A i \in Rows : kind[i] = "COVER" <=> position[i] = 0
  /\ \A i, j \in Rows : position[i] = position[j] => i = j
  /\ \A r \in Request : request[r].pc \in {"put", "insert"} =>
       \/ request[r].op = "cover" /\ request[r].at = 0
       \/ request[r].op = "gallery" /\ request[r].at > 0
  /\ \A r \in Request : \A i \in request[r].rows \cap Rows : kind[i] = "GALLERY"

\* A request that moves on without a write leaves the gallery's places alone.
LEMMA PlacesMove ==
  ASSUME TypeOK, Places, NEW r \in Request, UNCHANGED <<kind, position>>,
         \/ Finish(r)
         \/ Goto(r, "undo")
         \/ \E i \in Image : Put(r, i)
  PROVE  Places'
<1>1. /\ request'[r].pc \in {"put", "insert"} =>
           /\ request[r].pc \in {"put", "insert"}
           /\ request'[r].op = request[r].op /\ request'[r].at = request[r].at
      /\ request'[r].rows \subseteq request[r].rows
      /\ \A q \in Request : q # r => request'[q] = request[q]
  <2>1. CASE Finish(r)  BY <2>1 DEF Finish, Idle, TypeOK
  <2>2. CASE Goto(r, "undo")  BY <2>2 DEF Goto, TypeOK, RequestState
  <2>3. CASE \E i \in Image : Put(r, i)
    <3>1. PICK i \in Image : Put(r, i)  BY <2>3
    <3>2. request \in [Request -> RequestState]  BY DEF TypeOK
    <3>3. request[r].pc = "put"  BY <3>1 DEF Put
    <3>4. request'[r] = [request[r] EXCEPT !.pc = "insert", !.image = i]
      BY <3>1, <3>2 DEF Put
    <3>5. /\ request'[r].op = request[r].op /\ request'[r].at = request[r].at
          /\ request'[r].rows = request[r].rows
      BY <3>2, <3>4 DEF RequestState
    <3>6. \A q \in Request : q # r => request'[q] = request[q]
      BY <3>1, <3>2 DEF Put
    <3> QED BY <3>3, <3>5, <3>6
  <2> QED BY <2>1, <2>2, <2>3
<1> QED BY <1>1 DEF Places, Rows

\* A request that starts has measured the gallery as it is.
LEMMA PlacesStart ==
  ASSUME TypeOK, Places, NEW r \in Request, NEW op, NEW pc, NEW i, NEW at, NEW rows,
         Start(r, pc, op, i, at, rows), rows \subseteq Gallery,
         pc = "put" => (op = "cover" /\ at = 0) \/ (op = "gallery" /\ at > 0), pc # "insert"
  PROVE  Places'
<1>1. /\ request'[r].pc = pc /\ request'[r].op = op /\ request'[r].at = at
      /\ request'[r].rows = rows
      /\ \A q \in Request : q # r => request'[q] = request[q]
  BY DEF Start, TypeOK
<1>2. UNCHANGED <<kind, position>>
  BY DEF Start, rowVars
<1> QED BY <1>1, <1>2 DEF Places, Rows, Gallery

\* An inserted row takes a cover's place or one of the gallery's.
LEMMA PlacesInsert ==
  ASSUME TypeOK, HasImage, Own, Places, NEW r \in Request, Insert(r)
  PROVE  Places'
<1> DEFINE i == request[r].image  at == request[r].at
<1>1. request'[r] = Idle /\ \A q \in Request : q # r => request'[q] = request[q]
  BY OthersStay DEF Insert, Finish
<1>2. /\ i \in Image \ Rows /\ request[r].pc = "insert"
      /\ \A q \in Request : i \notin request[q].rows
  BY DEF Insert, HasImage, Own
<1>3. /\ kind' = [kind EXCEPT ![i] = KindOf(request[r].op)]
      /\ position' = [position EXCEPT ![i] = at]
      /\ \A j \in Rows : position[j] # at
  BY DEF Insert, Taken
<1>4. /\ Rows' = Rows \cup {i}
      /\ kind'[i] = KindOf(request[r].op) /\ position'[i] = at
      /\ \A j \in Rows : kind'[j] = kind[j] /\ position'[j] = position[j]
  BY <1>2, <1>3 DEF Rows, TypeOK, KindOf
<1>5. kind'[i] = "COVER" <=> position'[i] = 0
  BY <1>2, <1>4 DEF Places, KindOf, TypeOK, RequestState
<1>6. \A q \in Request : \A j \in request'[q].rows \cap Rows' : kind'[j] = "GALLERY"
  BY <1>1, <1>2, <1>4 DEF Places, Idle
<1>7. \A q \in Request : request'[q].pc \in {"put", "insert"} =>
       \/ request'[q].op = "cover" /\ request'[q].at = 0
       \/ request'[q].op = "gallery" /\ request'[q].at > 0
  BY <1>1 DEF Places, Idle
<1>8. /\ \A j \in Rows' : kind'[j] = "COVER" <=> position'[j] = 0
      /\ \A j, k \in Rows' : position'[j] = position'[k] => j = k
  BY <1>3, <1>4, <1>5 DEF Places
<1> QED BY <1>6, <1>7, <1>8 DEF Places

\* A reorder gives the images it was sent places of the gallery.
LEMMA PlacesReorder ==
  ASSUME TypeOK, Places, NEW r \in Request, NEW f, Reorder(r, f)
  PROVE  Places'
<1> DEFINE rows == request[r].rows
<1>1. request'[r] = Idle /\ \A q \in Request : q # r => request'[q] = request[q]
  BY OthersStay DEF Reorder, Finish
<1>2. /\ rows \subseteq Rows /\ Rows' = Rows /\ kind' = kind
      /\ \A i \in rows : kind[i] = "GALLERY"
  BY DEF Reorder, Places, Rows
<1>3. IsFiniteSet(rows)
  BY FS_Subset DEF TypeOK, RequestState
<1>4. \A i \in rows : f[i] > 0
  BY <1>3, FS_CardinalityType DEF Reorder
<1>5. \A i \in Image : position'[i] = IF i \in rows THEN f[i] ELSE position[i]
  BY DEF Reorder
<1>6. \A i \in Rows : kind[i] = "COVER" <=> position'[i] = 0
  <2>1. Rows \subseteq Image  BY DEF Rows
  <2>2. ASSUME NEW i \in rows  PROVE kind[i] = "COVER" <=> position'[i] = 0
    BY <1>2, <1>4, <1>5, <2>1
  <2>3. ASSUME NEW i \in Rows \ rows  PROVE kind[i] = "COVER" <=> position'[i] = 0
    BY <1>5, <2>1 DEF Places
  <2> QED BY <2>2, <2>3
<1>7. \A i, j \in Rows : position'[i] = position'[j] => i = j
  <2>1. Rows \subseteq Image  BY DEF Rows
  <2>2. /\ \A i, j \in rows : f[i] = f[j] => i = j
        /\ \A i \in rows, j \in Rows \ rows : f[i] # position[j]
    BY DEF Reorder
  <2> QED BY <1>2, <1>5, <2>1, <2>2 DEF Places
<1>8. \A q \in Request : \/ request'[q].rows = {} /\ request'[q].pc = "idle"
                        \/ request'[q] = request[q]
  BY <1>1 DEF Idle
<1>9. \A q \in Request : \A i \in request'[q].rows \cap Rows' : kind'[i] = "GALLERY"
  BY <1>2, <1>8 DEF Places
<1>10. \A q \in Request : request'[q].pc \in {"put", "insert"} =>
       \/ request'[q].op = "cover" /\ request'[q].at = 0
       \/ request'[q].op = "gallery" /\ request'[q].at > 0
  BY <1>8 DEF Places
<1>11. \A i \in Rows' : kind'[i] = "COVER" <=> position'[i] = 0
  BY <1>2, <1>6
<1>12. \A i, j \in Rows' : position'[i] = position'[j] => i = j
  BY <1>2, <1>7
<1> QED BY <1>9, <1>10, <1>11, <1>12 DEF Places

\* Whatever step is taken, covers and gallery keep to their places.
LEMMA PlacesStep ==
  ASSUME TypeOK, HasImage, Own, Places, [Next]_vars
  PROVE  Places'
<1> USE DEF rowVars
<1>1. ASSUME NEW r \in Request, Edit(r)
      PROVE  Places'
  <2>1. ASSUME NEW op \in Op, ReadEdit(r, op)  PROVE Places'
    BY <2>1, PlacesStart DEF ReadEdit
  <2>2. ASSUME NEW k \in {"COVER", "GALLERY"}, NEW p \in 0..MaxPosition, ReadAdd(r, k, p)
        PROVE  Places'
    <3>1. k = "GALLERY" => p > 0
      <4>1. \A i \in Rows : position[i] \in Nat  BY DEF TypeOK, Rows
      <4> QED BY <2>2, <4>1 DEF ReadAdd, NextPosition
    <3> QED BY <2>2, <3>1, PlacesStart DEF ReadAdd, NextPosition
  <2>3. CASE ReadReorder(r)  BY <2>3, PlacesStart DEF ReadReorder
  <2>4. ASSUME NEW i \in Image, ReadRemove(r, i)  PROVE Places'
    BY <2>4, PlacesStart DEF ReadRemove
  <2>5. ASSUME NEW i \in Image, Put(r, i)  PROVE Places'
    BY <2>5, PlacesMove DEF Put
  <2>6. CASE Write(r)  BY <2>6, PlacesMove DEF Write
  <2>7. CASE Refuse(r)  BY <2>7, PlacesMove DEF Refuse
  <2>8. CASE Insert(r)  BY <2>8, PlacesInsert
  <2>9. CASE InsertFails(r)  BY <2>9, PlacesMove DEF InsertFails
  <2>10. CASE Delete(r)
    <3>1. Rows' = Rows \ {request[r].image}
          /\ \A i \in Rows' : kind'[i] = kind[i] /\ position'[i] = position[i]
      BY <2>10 DEF Delete, Rows, TypeOK
    <3>2. /\ request'[r].pc = "erase" /\ request'[r].rows = request[r].rows
          /\ \A q \in Request : q # r => request'[q] = request[q]
      BY <2>10 DEF Delete, Goto, TypeOK, RequestState
    <3> QED BY <3>1, <3>2 DEF Places
  <2>11. ASSUME NEW f, Reorder(r, f)  PROVE Places'
    BY <2>11, PlacesReorder
  <2>12. CASE Erase(r)  BY <2>12, PlacesMove DEF Erase
  <2>13. CASE EraseFails(r)  BY <2>13, PlacesMove DEF EraseFails
  <2> QED BY <1>1, <2>1, <2>2, <2>3, <2>4, <2>5, <2>6, <2>7, <2>8, <2>9, <2>10, <2>11,
             <2>12, <2>13 DEF Edit
<1>2. CASE \E i \in Image : JobErase(i) \/ JobForget(i)
  BY <1>2 DEF JobErase, JobForget, Places, Rows
<1>3. CASE Crash  BY <1>3 DEF Crash, Places, Rows, Idle
<1>4. CASE UNCHANGED vars  BY <1>4 DEF vars, Places, Rows
<1>5. CASE Submit \/ Approve \/ Reject \/ Cancel
  BY <1>5 DEF Submit, Approve, Reject, Cancel, Places, Rows
<1> QED BY <1>1, <1>2, <1>3, <1>4, <1>5 DEF Next

\* Concurrent uploads of covers leave one.
THEOREM CoverIsOne == Spec => []OneCover
<1>1. Init => Own /\ Places
  BY DEF Init, Own, Places, Rows, Idle
<1>2. TypeOK /\ HasImage /\ Own /\ Places /\ [Next]_vars => (Own /\ Places)'
  BY OwnStep, PlacesStep
<1>3. Places => OneCover
  BY DEF Places, OneCover, Cover, Rows
<1> QED BY <1>1, <1>2, <1>3, ContentTyped, PTL DEF Spec

\* Steps that add neither an image to the gallery nor an upload.
LEMMA GalleryShrinks ==
  ASSUME GalleryNearLimit, Gallery' \subseteq Gallery, Uploads' \subseteq Uploads
  PROVE  GalleryNearLimit'
<1>1. IsFiniteSet(Gallery) /\ IsFiniteSet(Uploads)
  BY FS_Subset DEF Gallery, Uploads
<1>2. /\ Cardinality(Gallery') <= Cardinality(Gallery)
      /\ Cardinality(Uploads') <= Cardinality(Uploads)
  BY <1>1, FS_Subset
<1>3. /\ Cardinality(Gallery) \in Nat /\ Cardinality(Gallery') \in Nat
      /\ Cardinality(Uploads) \in Nat /\ Cardinality(Uploads') \in Nat
      /\ Cardinality(Request) \in Nat
  BY <1>1, FS_Subset, FS_CardinalityType
<1> QED BY <1>2, <1>3 DEF GalleryNearLimit

\* An upload that has room when it counts.
LEMMA GalleryHasRoom ==
  ASSUME Gallery' = Gallery, Cardinality(Gallery) < GalleryLimit
  PROVE  GalleryNearLimit'
<1>1. Cardinality(Gallery) \in Nat
  BY FS_Subset, FS_CardinalityType DEF Gallery
<1> QED BY <1>1 DEF GalleryNearLimit

\* An upload that comes in was one of those in flight.
LEMMA GalleryGrows ==
  ASSUME TypeOK, GalleryNearLimit, NEW r \in Uploads, NEW i \in Image,
         Gallery' = Gallery \cup {i}, Uploads' = Uploads \ {r}
  PROVE  GalleryNearLimit'
<1>1. IsFiniteSet(Gallery) /\ IsFiniteSet(Uploads) /\ r \in Request
  BY FS_Subset DEF Gallery, Uploads
<1>2. /\ Cardinality(Gallery) \in Nat /\ Cardinality(Uploads) \in Nat
      /\ Cardinality(Request) \in Nat
  BY <1>1, FS_CardinalityType
<1>3. Cardinality(Uploads') = Cardinality(Uploads) - 1
  BY <1>1, FS_RemoveElement
<1>4. Cardinality(Gallery') <= Cardinality(Gallery) + 1 /\ Cardinality(Gallery') \in Nat
  <2>1. /\ IsFiniteSet(Gallery')
        /\ Cardinality(Gallery') = Cardinality(Gallery) + IF i \in Gallery THEN 0 ELSE 1
    BY <1>1, <1>2, FS_AddElement, SMTT(30)
  <2> QED BY <1>2, <2>1
<1>5. Cardinality(Uploads) <= Cardinality(Request)
  BY FS_Subset DEF Uploads
<1> QED BY <1>2, <1>3, <1>4, <1>5 DEF GalleryNearLimit

\* Whatever step is taken, the gallery outgrows its limit only by uploads in flight.
LEMMA GalleryStep ==
  ASSUME TypeOK, HasImage, Own, Places, GalleryNearLimit, [Next]_vars
  PROVE  GalleryNearLimit'
<1> USE DEF rowVars
<1>1. ASSUME NEW r \in Request, Edit(r)
      PROVE  GalleryNearLimit'
  <2>1. ASSUME UNCHANGED kind, NEW state, request' = [request EXCEPT ![r] = state],
               state.pc \notin {"put", "insert"} \/ state.op # "gallery"
        PROVE  GalleryNearLimit'
    <3>1. Uploads' \subseteq Uploads
      BY <2>1, OthersStay DEF Uploads
    <3> QED BY <2>1, <3>1, GalleryShrinks DEF Gallery
  <2>2. ASSUME NEW op, NEW pc, NEW i, NEW at, NEW rows, Start(r, pc, op, i, at, rows),
               pc \notin {"put", "insert"} \/ op # "gallery"
        PROVE  GalleryNearLimit'
    BY <2>2, <2>1 DEF Start
  <2>3. ASSUME NEW k \in {"COVER", "GALLERY"}, NEW p, ReadAdd(r, k, p)
        PROVE  GalleryNearLimit'
    <3>1. CASE k = "COVER"  BY <2>3, <3>1, <2>2 DEF ReadAdd
    <3>2. CASE k = "GALLERY"
      BY <2>3, <3>2, GalleryHasRoom DEF ReadAdd, HasRoom, Start, Gallery
    <3> QED BY <3>1, <3>2
  <2>4. CASE \/ \E op \in Op : ReadEdit(r, op)
             \/ ReadReorder(r)
             \/ \E i \in Image : ReadRemove(r, i)
    BY <2>4, <2>2 DEF ReadEdit, ReadReorder, ReadRemove
  <2>5. ASSUME NEW i \in Image, Put(r, i)  PROVE GalleryNearLimit'
    <3>1. /\ request[r].pc = "put" /\ request'[r].op = request[r].op
          /\ \A q \in Request : q # r => request'[q] = request[q]
      BY <2>5 DEF Put, TypeOK, RequestState
    <3>2. Uploads' \subseteq Uploads  BY <3>1 DEF Uploads
    <3> QED BY <2>5, <3>2, GalleryShrinks DEF Put, Gallery
  <2>6. CASE Write(r) \/ Refuse(r) \/ Erase(r) \/ EraseFails(r)
    BY <2>6, <2>1 DEF Write, Refuse, Erase, EraseFails, Finish, Idle
  <2>7. ASSUME NEW f, Reorder(r, f)  PROVE GalleryNearLimit'
    BY <2>7, <2>1 DEF Reorder, Finish, Idle
  <2>8. CASE Insert(r)
    <3>1. request[r].image \in Image \ Rows  BY <2>8 DEF Insert, HasImage, Own
    <3>2. request'[r] = Idle /\ \A q \in Request : q # r => request'[q] = request[q]
      BY <2>8, OthersStay DEF Insert, Finish
    <3>3. CASE request[r].op = "gallery"
      <4>1. Gallery' = Gallery \cup {request[r].image}
        BY <2>8, <3>1, <3>3 DEF Insert, Gallery, TypeOK, KindOf
      <4>2. r \in Uploads /\ Uploads' = Uploads \ {r}
        BY <2>8, <3>2, <3>3 DEF Insert, Uploads, Idle
      <4> QED BY <3>1, <4>1, <4>2, GalleryGrows
    <3>4. CASE request[r].op # "gallery"
      <4>1. Uploads' \subseteq Uploads
        BY <3>2 DEF Uploads, Idle
      <4>2. request[r].op = "cover"
        BY <2>8, <3>4 DEF Insert, Places
      <4>3. Gallery' \subseteq Gallery
        BY <2>8, <3>1, <4>2 DEF Insert, Gallery, TypeOK, KindOf
      <4> QED BY <4>1, <4>3, GalleryShrinks
    <3> QED BY <3>3, <3>4
  <2>9. CASE InsertFails(r)
    <3>1. /\ request'[r].pc = "undo"
          /\ \A q \in Request : q # r => request'[q] = request[q]
      BY <2>9 DEF InsertFails, Goto, TypeOK, RequestState
    <3>2. Uploads' \subseteq Uploads  BY <3>1 DEF Uploads
    <3> QED BY <2>9, <3>2, GalleryShrinks DEF InsertFails, Gallery
  <2>10. CASE Delete(r)
    <3>1. /\ request'[r].pc = "erase"
          /\ \A q \in Request : q # r => request'[q] = request[q]
      BY <2>10 DEF Delete, Goto, TypeOK, RequestState
    <3>2. Uploads' \subseteq Uploads  BY <3>1 DEF Uploads
    <3>3. Gallery' \subseteq Gallery  BY <2>10 DEF Delete, Gallery, TypeOK
    <3> QED BY <3>2, <3>3, GalleryShrinks
  <2> QED BY <1>1, <2>3, <2>4, <2>5, <2>6, <2>7, <2>8, <2>9, <2>10 DEF Edit
<1>2. CASE \/ \E i \in Image : JobErase(i) \/ JobForget(i)
           \/ Submit \/ Approve \/ Reject \/ Cancel \/ UNCHANGED vars
  <2>1. Gallery' = Gallery /\ Uploads' = Uploads
    BY <1>2 DEF JobErase, JobForget, Submit, Approve, Reject, Cancel, vars, Gallery, Uploads
  <2> QED BY <2>1, GalleryShrinks
<1>3. CASE Crash
  <2>1. Gallery' = Gallery /\ Uploads' = {}
    BY <1>3 DEF Crash, Gallery, Uploads, Idle
  <2> QED BY <2>1, GalleryShrinks
<1> QED BY <1>1, <1>2, <1>3 DEF Next

\* However many uploads overlap, the gallery passes its limit by fewer images than
\* there are requests, and not at all when requests do not overlap.
THEOREM GalleryStaysNearLimit ==
  Spec => /\ []GalleryNearLimit
          /\ [](Cardinality(Gallery) < GalleryLimit + Cardinality(Request) \/ Request = {})
<1>1. Init => Own /\ Places /\ GalleryNearLimit
  <2>1. Init => Own /\ Places  BY DEF Init, Own, Places, Rows, Idle
  <2>2. Init => Gallery = {}  BY DEF Init, Gallery
  <2> QED BY <2>1, <2>2, FS_EmptySet DEF GalleryNearLimit
<1>2. TypeOK /\ HasImage /\ Own /\ Places /\ GalleryNearLimit /\ [Next]_vars =>
        (Own /\ Places /\ GalleryNearLimit)'
  BY OwnStep, PlacesStep, GalleryStep
<1>3. GalleryNearLimit =>
        Cardinality(Gallery) < GalleryLimit + Cardinality(Request) \/ Request = {}
  <2>1. /\ Cardinality(Gallery) \in Nat /\ Cardinality(Uploads) \in Nat
        /\ Cardinality(Request) \in Nat
    BY FS_Subset, FS_CardinalityType DEF Gallery, Uploads
  <2>2. Cardinality(Request) = 0 => Request = {}
    BY FS_EmptySet
  <2> QED BY <2>1, <2>2 DEF GalleryNearLimit
<1> QED BY <1>1, <1>2, <1>3, ContentTyped, PTL DEF Spec
=============================================================================
