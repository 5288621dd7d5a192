-------------------------- MODULE ReservationsProofs --------------------------
(***************************************************************************)
(* Theorems about Reservations for every number of users, events, types,   *)
(* units, checkouts, keys and concurrent requests, and every TTL and lag.  *)
(***************************************************************************)
EXTENDS Reservations, FiniteSetTheorems, TLAPS

-----------------------------------------------------------------------------
(* Type correctness *)

\* What a transaction of create() carries and what a request may ask for.
LEMMA RecentType == ASSUME TypeOK, NEW t \in Recent PROVE t \in Nat
BY DEF Recent, TypeOK

\* What can be ordered of an event is a selection of units per type.
LEMMA OrderableType == ASSUME NEW e, NEW i \in Orderable(e) PROVE i \in Items
<1>1. UNION {0..MaxPerOrder[y] : y \in TicketType} \subseteq Nat
  BY ReservationsAssumption
<1> QED BY <1>1 DEF Orderable, Items

\* The empty tables are well typed.
LEMMA InitType == Init => TypeOK
BY ReservationsAssumption
   DEF Init, TypeOK, AbsentRow, Available, NoItems, CheckoutRow, Items,
       UnitStatus, CheckoutStatus

\* Freeing units leaves the stock well typed.
LEMMA FreedType ==
  ASSUME TypeOK, NEW S
  PROVE  Freed(S) \in [Unit -> [status : UnitStatus, checkout : Checkout \cup {Null}]]
BY DEF Freed, Available, TypeOK, UnitStatus

\* A stale checkout is closed as expired or as abandoned.
LEMMA StaleStatusType ==
  ASSUME NEW c, NEW t PROVE StaleStatus(c, t) \in {"EXPIRED", "ABANDONED"}
BY DEF StaleStatus

\* Closing a row, or renewing its presence, keeps it a row.
LEMMA ClosedRow ==
  ASSUME NEW r \in CheckoutRow, NEW s \in CheckoutStatus
  PROVE  [r EXCEPT !.status = s] \in CheckoutRow
BY DEF CheckoutRow

\* A heartbeat leaves a checkout's row well typed.
LEMMA PresentRow ==
  ASSUME NEW r \in CheckoutRow, NEW t \in Nat
  PROVE  [r EXCEPT !.lastHeartbeatAt = t] \in CheckoutRow
BY DEF CheckoutRow

\* A new status leaves a checkout's row well typed.
LEMMA ClosedType ==
  ASSUME TypeOK, NEW c \in Checkout, NEW s \in CheckoutStatus
  PROVE  /\ [checkout EXCEPT ![c].status = s] \in [Checkout -> CheckoutRow]
         /\ [checkout[c] EXCEPT !.status = s] \in CheckoutRow
BY ClosedRow DEF TypeOK

\* The commit of create() leaves the tables well typed.
LEMMA CreateCommitType ==
  ASSUME TypeOK, NEW p \in Request, NEW c \in Checkout, NEW e \in Event,
         NEW i \in Orderable(e), NEW S \in SUBSET Unit, CreateCommit(p, c, e, i, S)
  PROVE  TypeOK'
<1> DEFINE tx == create[p]
<1>1. tx \in CreateTx
  BY DEF CreateCommit, TypeOK
<1>2. NewCheckout(tx, e, i) \in CheckoutRow
  BY <1>1, OrderableType, ReservationsAssumption
     DEF NewCheckout, CheckoutRow, CheckoutStatus, CreateTx
<1>3. AfterCreate(tx, c, e, i) \in [Checkout -> CheckoutRow]
  <2>1. ASSUME NEW d \in Checkout
        PROVE  [checkout[d] EXCEPT !.status = StaleStatus(d, tx.at)] \in CheckoutRow
    BY StaleStatusType, ClosedType DEF CheckoutStatus
  <2> QED BY <1>2, <2>1 DEF AfterCreate, TypeOK
<1>4. unit' \in [Unit -> [status : UnitStatus, checkout : Checkout \cup {Null}]]
  BY FreedType DEF CreateCommit, UnitStatus
<1>5. idempotency' \in [User -> [Key -> Checkout \cup {Null}]]
  BY <1>1 DEF CreateCommit, TypeOK, CreateTx
<1> QED BY <1>3, <1>4, <1>5 DEF CreateCommit, TypeOK

\* A release leaves the tables it writes well typed.
LEMMA ReleaseAsType ==
  ASSUME TypeOK, NEW c \in Checkout, NEW s \in CheckoutStatus, ReleaseAs(c, s)
  PROVE  /\ checkout' \in [Checkout -> CheckoutRow]
         /\ unit' \in [Unit -> [status : UnitStatus, checkout : Checkout \cup {Null}]]
<1>1. CASE Active(c)
  <2>1. /\ checkout' = [checkout EXCEPT ![c].status = s]
        /\ unit' = Freed(HeldBy(c))
    BY <1>1 DEF ReleaseAs
  <2> QED BY <2>1, FreedType, ClosedType
<1>2. CASE ~Active(c)
  BY <1>2 DEF ReleaseAs, TypeOK
<1> QED BY <1>1, <1>2

\* Every step leaves the tables well typed.
LEMMA NextType == TypeOK /\ [Next]_vars => TypeOK'
<1> SUFFICES ASSUME TypeOK, [Next]_vars PROVE TypeOK'
  OBVIOUS
<1>1. ASSUME NEW p \in Request, NEW u \in User, NEW k \in Key, NEW t \in Recent,
             CreateFind(p, u, k, t)
      PROVE TypeOK'
  BY <1>1, RecentType DEF CreateFind, TypeOK, CreateTx
<1>2. ASSUME NEW p \in Request, NEW c \in Checkout, NEW e \in Event,
             NEW S \in SUBSET Unit, NEW i \in Orderable(e), CreateCommit(p, c, e, i, S)
      PROVE TypeOK'
  BY <1>2, CreateCommitType
<1>3. ASSUME NEW p \in Request, CreateAbort(p) PROVE TypeOK'
  BY <1>3 DEF CreateAbort, TypeOK
<1>4. ASSUME NEW c \in Checkout, NEW t \in Recent, Heartbeat(c, t) PROVE TypeOK'
  <2>1. checkout' \in [Checkout -> CheckoutRow]
    BY <1>4, RecentType, PresentRow DEF Heartbeat, TypeOK
  <2> QED BY <1>4, <2>1, StaleStatusType DEF Heartbeat, TypeOK
<1>5. ASSUME NEW c \in Checkout, NEW t \in Recent, SeeStale(c, t) PROVE TypeOK'
  BY <1>5, StaleStatusType DEF SeeStale, TypeOK
<1>6. ASSUME ReleaseStale PROVE TypeOK'
  BY <1>6, StaleStatusType DEF ReleaseStale, TypeOK
<1>7. ASSUME NEW c \in Checkout, NEW s \in {"EXPIRED", "ABANDONED"}, Release(c, s)
      PROVE TypeOK'
  BY <1>7, ReleaseAsType DEF Release, TypeOK, CheckoutStatus
<1>8. ASSUME NEW c \in Checkout, Cancel(c) PROVE TypeOK'
  BY <1>8, ReleaseAsType DEF Cancel, TypeOK, CheckoutStatus
<1>9. ASSUME NEW c \in Checkout, NEW t \in Recent, Confirm(c, t) PROVE TypeOK'
  <2>1. unit' \in [Unit -> [status : UnitStatus, checkout : Checkout \cup {Null}]]
    BY <1>9 DEF Confirm, TypeOK, UnitStatus
  <2>2. checkout' \in [Checkout -> CheckoutRow]
    BY <1>9, ClosedType DEF Confirm, CheckoutStatus
  <2>3. ticket' \in [Checkout -> [Unit -> TicketStatus \cup {"NONE"}]]
    BY <1>9 DEF Confirm, TypeOK, TicketStatus
  <2> QED BY <1>9, <2>1, <2>2, <2>3 DEF Confirm, TypeOK, OrderStatus
<1>10. ASSUME NEW c \in Checkout, NEW t \in Recent, CancelOrder(c, t) PROVE TypeOK'
  <2>1. ticket' \in [Checkout -> [Unit -> TicketStatus \cup {"NONE"}]]
    BY <1>10 DEF CancelOrder, TypeOK, TicketStatus
  <2> QED BY <1>10, <2>1, FreedType DEF CancelOrder, TypeOK, OrderStatus
<1>11. ASSUME NEW c \in Checkout, NEW x \in Unit, Validate(c, x) PROVE TypeOK'
  BY <1>11 DEF Validate, TypeOK, TicketStatus
<1>12. ASSUME NEW e \in Event, CancelEvent(e) PROVE TypeOK'
  <2>1. checkout' \in [Checkout -> CheckoutRow]
    BY <1>12, ClosedType DEF CancelEvent, TypeOK, CheckoutStatus
  <2>2. ticket' \in [Checkout -> [Unit -> TicketStatus \cup {"NONE"}]]
    BY <1>12 DEF CancelEvent, TypeOK, TicketStatus
  <2>3. order' \in [Checkout -> OrderStatus \cup {"NONE"}]
    BY <1>12 DEF CancelEvent, TypeOK, OrderStatus
  <2> QED BY <1>12, <2>1, <2>2, <2>3, FreedType DEF CancelEvent, TypeOK
<1>13. ASSUME Tick PROVE TypeOK'
  BY <1>13 DEF Tick, TypeOK
<1>14. ASSUME NEW c \in Checkout, NEW s \in {"EXPIRED", "ABANDONED"}, ReleaseFails(c, s)
       PROVE TypeOK'
  BY <1>14 DEF ReleaseFails, TypeOK
<1>15. ASSUME Crash PROVE TypeOK'
  BY <1>15 DEF Crash, TypeOK
<1>16. CASE UNCHANGED vars
  BY <1>16 DEF vars, TypeOK
<1> QED
  BY <1>1, <1>2, <1>3, <1>4, <1>5, <1>6, <1>7, <1>8, <1>9, <1>10, <1>11, <1>12,
     <1>13, <1>14, <1>15, <1>16 DEF Next

\* The tables keep their types: every row, status and reference is one the
\* schema allows, whatever the handlers and jobs do.
THEOREM TypeCorrect == Spec => []TypeOK
BY InitType, NextType, PTL DEF Spec

-----------------------------------------------------------------------------
(* The inductive invariant *)

\* The empty tables meet the stock's invariant.
LEMMA InitStockInv == Init => StockInv
BY ReservationsAssumption
   DEF Init, StockInv, HeldByActive, HeldIsWanted, SoldToOneOrder, Owns, Standing,
       TicketsFollowOrder, OrderEndsCheckout, OneActivePerUser, LockedUsers,
       FoundIsCurrent, CancelledEventIsClosed, Active, Available, AbsentRow

\* Time, the release decisions, the keys and the failures are not part of it.
LEMMA QuietStep ==
  ASSUME StockInv, UNCHANGED <<event, checkout, unit, order, ticket, create>>
  PROVE  StockInv'
BY DEF StockInv, HeldByActive, HeldIsWanted, SoldToOneOrder, Owns, Standing,
       TicketsFollowOrder, OrderEndsCheckout, OneActivePerUser, LockedUsers,
       FoundIsCurrent, CancelledEventIsClosed, Active, ActiveOf

\* Transactions that end, or none: what is left of them stays true.
LEMMA TxEnds ==
  ASSUME StockInv, UNCHANGED <<event, checkout, unit, order, ticket>>,
         \A p \in Request : create'[p] \in {create[p], Null}
  PROVE  StockInv'
<1>1. LockedUsers' /\ FoundIsCurrent'
  BY DEF StockInv, LockedUsers, FoundIsCurrent, ActiveOf, Active
<1> QED
  BY <1>1 DEF StockInv, HeldByActive, HeldIsWanted, SoldToOneOrder, Owns, Standing,
       TicketsFollowOrder, OrderEndsCheckout, OneActivePerUser,
       CancelledEventIsClosed, Active

\* create() takes the lock of a user no other open transaction has, and sees
\* every active checkout of that user.
LEMMA CreateFindStep ==
  ASSUME TypeOK, StockInv, NEW p \in Request, NEW u \in User, NEW k \in Key,
         NEW t \in Recent, CreateFind(p, u, k, t)
  PROVE  StockInv'
<1> PICK f \in Checkout \cup {Null} :
      /\ IF f = Null THEN ActiveOf(u) = {} ELSE f \in ActiveOf(u) /\ Stale(f, t)
      /\ create' = [create EXCEPT ![p] = [user |-> u, key |-> k, at |-> t, found |-> f]]
  BY DEF CreateFind
<1>1. create'[p].user = u /\ create'[p].found = f
  BY DEF TypeOK
<1>2. \A q \in Request : q # p => create'[q] = create[q]
  BY DEF TypeOK
<1>3. LockedUsers'
  BY <1>1, <1>2 DEF StockInv, LockedUsers, CreateFind, UserUnlocked
<1>4. ActiveOf(u) \subseteq {f}
  BY DEF StockInv, OneActivePerUser, ActiveOf
<1>5. f # Null => checkout[f].status # "ABSENT"
  BY DEF ActiveOf, Active
<1>6. FoundIsCurrent'
  <2> SUFFICES ASSUME NEW q \in Request, create'[q] # Null
               PROVE  /\ ActiveOf(create'[q].user) \subseteq {create'[q].found}
                      /\ create'[q].found # Null =>
                           checkout[create'[q].found].status # "ABSENT"
    BY DEF FoundIsCurrent, CreateFind, ActiveOf, Active
  <2>1. CASE q = p
    BY <2>1, <1>1, <1>4, <1>5
  <2>2. CASE q # p
    BY <2>2, <1>2 DEF StockInv, FoundIsCurrent
  <2> QED BY <2>1, <2>2
<1> QED
  BY <1>3, <1>6 DEF CreateFind, StockInv, HeldByActive, HeldIsWanted, SoldToOneOrder,
       Owns, Standing, TicketsFollowOrder, OrderEndsCheckout, OneActivePerUser,
       CancelledEventIsClosed, Active

\* A finite pick of a type is non-empty only if some quantity was asked for.
LEMMA PickedIsWanted ==
  ASSUME NEW S \in SUBSET Unit, NEW i \in Items, Picks(S, i), NEW x \in S
  PROVE  i[TypeOf[x]] > 0
<1>1. TypeOf[x] \in TicketType /\ i[TypeOf[x]] \in Nat
  BY ReservationsAssumption DEF Items
<1>2. OfType(S, TypeOf[x]) \subseteq Unit /\ x \in OfType(S, TypeOf[x])
  BY DEF OfType
<1>3. IsFiniteSet(OfType(S, TypeOf[x]))
  BY <1>2, FS_Subset, ReservationsAssumption
<1>4. Cardinality(OfType(S, TypeOf[x])) # 0
  BY <1>2, <1>3, FS_EmptySet
<1>5. Cardinality(OfType(S, TypeOf[x])) = i[TypeOf[x]]
  BY <1>1 DEF Picks
<1> QED BY <1>1, <1>4, <1>5

\* What a commit of create() does to the Checkout rows: one new, the one found
\* closed, whatever it was, and the others kept.
LEMMA CommitRows ==
  ASSUME TypeOK, StockInv, NEW p \in Request, NEW c \in Checkout, NEW e \in Event,
         NEW i \in Orderable(e), NEW S \in SUBSET Unit, CreateCommit(p, c, e, i, S)
  PROVE  /\ create[p] \in CreateTx /\ create[p] # Null /\ create[p].found # c
         /\ checkout[c].status = "ABSENT"
         /\ checkout'[c].status = "ACTIVE" /\ checkout'[c].user = create[p].user
         /\ checkout'[c].event = e /\ checkout'[c].items = i
         /\ \A d \in Checkout \ {c} :
              /\ checkout'[d].user = checkout[d].user /\ checkout'[d].event = checkout[d].event
              /\ checkout'[d].items = checkout[d].items
              /\ d # create[p].found => checkout'[d].status = checkout[d].status
              /\ d = create[p].found => checkout'[d].status \in {"EXPIRED", "ABANDONED"}
                                        /\ checkout[d].status # "ABSENT"
<1> DEFINE tx == create[p]
<1>1. tx \in CreateTx /\ tx # Null
  BY DEF CreateCommit, TypeOK
<1>2. checkout[c].status = "ABSENT" /\ checkout' = AfterCreate(tx, c, e, i)
  BY DEF CreateCommit
<1>3. /\ checkout'[c].status = "ACTIVE" /\ checkout'[c].user = tx.user
      /\ checkout'[c].event = e /\ checkout'[c].items = i
  BY <1>2 DEF AfterCreate, NewCheckout
<1>4. tx.found # c
  BY <1>1, <1>2, ReservationsAssumption DEF StockInv, FoundIsCurrent
<1>5. ASSUME NEW d \in Checkout \ {c}
      PROVE /\ checkout'[d].user = checkout[d].user /\ checkout'[d].event = checkout[d].event
            /\ checkout'[d].items = checkout[d].items
            /\ d # tx.found => checkout'[d].status = checkout[d].status
            /\ d = tx.found => checkout'[d].status \in {"EXPIRED", "ABANDONED"}
                               /\ checkout[d].status # "ABSENT"
  <2>1. CASE d = tx.found
    <3>1. checkout'[d] = [checkout[d] EXCEPT !.status = StaleStatus(d, tx.at)]
      BY <2>1, <1>2 DEF AfterCreate
    <3>2. checkout[d] \in CheckoutRow
      BY DEF TypeOK
    <3>3. d # Null
      BY ReservationsAssumption
    <3> QED BY <2>1, <3>1, <3>2, <3>3, <1>1, StaleStatusType
            DEF CheckoutRow, StockInv, FoundIsCurrent
  <2>2. CASE d # tx.found
    BY <2>2, <1>2 DEF AfterCreate
  <2> QED BY <2>1, <2>2
<1> QED BY <1>1, <1>2, <1>3, <1>4, <1>5

\* The commit of create() keeps the stock's invariant.
LEMMA CreateCommitStep ==
  ASSUME TypeOK, StockInv, NEW p \in Request, NEW c \in Checkout, NEW e \in Event,
         NEW i \in Orderable(e), NEW S \in SUBSET Unit, CreateCommit(p, c, e, i, S)
  PROVE  StockInv'
<1> DEFINE tx == create[p]
           old == HeldBy(tx.found)
<1>1. tx \in CreateTx /\ tx # Null
  BY DEF CreateCommit, TypeOK
<1>2. /\ checkout[c].status = "ABSENT" /\ event[e] = "PUBLISHED"
      /\ S \subseteq AvailableUnits \cup old /\ Picks(S, i)
      /\ create' = [create EXCEPT ![p] = Null]
      /\ UNCHANGED <<event, order, ticket>>
  BY DEF CreateCommit, OnSale
<1>3. \A x \in Unit : unit'[x] = IF x \in S THEN [status |-> "HELD", checkout |-> c]
                                 ELSE IF x \in old THEN Available ELSE unit[x]
  BY DEF CreateCommit, Freed
<1>4. /\ checkout'[c].status = "ACTIVE" /\ checkout'[c].user = tx.user
      /\ checkout'[c].event = e /\ checkout'[c].items = i
  BY CommitRows
<1>5. tx.found # c
  BY CommitRows
<1>6. \A d \in Checkout \ {c} :
        /\ checkout'[d].user = checkout[d].user /\ checkout'[d].event = checkout[d].event
        /\ checkout'[d].items = checkout[d].items
        /\ d # tx.found => checkout'[d].status = checkout[d].status
        /\ d = tx.found => checkout'[d].status \in {"EXPIRED", "ABANDONED"}
                           /\ checkout[d].status # "ABSENT"
  BY CommitRows
<1>7. \A x \in S : unit[x].status = "AVAILABLE" \/ unit[x].status = "HELD"
  BY <1>2 DEF AvailableUnits, HeldBy
<1>8. \A x \in Unit : unit'[x].status = "SOLD" <=> unit[x].status = "SOLD"
  BY <1>3, <1>7 DEF Available, HeldBy
<1>9. HeldByActive'
  <2> SUFFICES ASSUME NEW x \in Unit
               PROVE  IF unit'[x].status = "HELD"
                      THEN unit'[x].checkout # Null /\ checkout'[unit'[x].checkout].status = "ACTIVE"
                      ELSE unit'[x].checkout = Null
    BY DEF HeldByActive, Active
  <2>1. CASE x \in S
    BY <2>1, <1>3, <1>4, ReservationsAssumption
  <2>2. CASE x \notin S /\ x \in old
    BY <2>2, <1>3 DEF Available
  <2>3. CASE x \notin S /\ x \notin old
    <3>1. unit'[x] = unit[x]
      BY <2>3, <1>3
    <3>2. CASE unit[x].status = "HELD"
      <4>1. /\ unit[x].checkout \in Checkout /\ checkout[unit[x].checkout].status = "ACTIVE"
            /\ unit[x].checkout # Null
        BY <3>2 DEF StockInv, HeldByActive, Active, TypeOK
      <4>2. unit[x].checkout # tx.found
        BY <2>3, <3>2 DEF HeldBy, TypeOK
      <4> QED BY <3>1, <3>2, <4>1, <4>2, <1>2, <1>6
    <3>3. CASE unit[x].status # "HELD"
      BY <3>1, <3>3 DEF StockInv, HeldByActive
    <3> QED BY <3>2, <3>3
  <2> QED BY <2>1, <2>2, <2>3
<1>10. HeldIsWanted'
  <2> SUFFICES ASSUME NEW x \in Unit, unit'[x].status = "HELD"
               PROVE  checkout'[unit'[x].checkout].items[TypeOf[x]] > 0
    BY DEF HeldIsWanted
  <2>1. CASE x \in S
    BY <2>1, <1>2, <1>3, <1>4, OrderableType, PickedIsWanted
  <2>2. CASE x \notin S
    <3>1. unit'[x] = unit[x]
      BY <2>2, <1>3 DEF Available
    <3>2. unit[x].checkout \in Checkout \ {c}
      BY <3>1, <1>2 DEF StockInv, HeldByActive, Active, TypeOK
    <3> QED BY <3>1, <3>2, <1>6 DEF StockInv, HeldIsWanted
  <2> QED BY <2>1, <2>2
<1>11. SoldToOneOrder'
  BY <1>2, <1>8 DEF StockInv, SoldToOneOrder, Owns, Standing
<1>12. TicketsFollowOrder'
  BY <1>2 DEF StockInv, TicketsFollowOrder
<1>13. OrderEndsCheckout'
  BY <1>2, <1>4, <1>6 DEF StockInv, OrderEndsCheckout
<1>14. \A q \in Request : create'[q] = IF q = p THEN Null ELSE create[q]
  BY <1>2 DEF TypeOK
<1>15. OneActivePerUser'
  <2>1. \A d \in Checkout \ {c} :
          checkout'[d].status = "ACTIVE" =>
            checkout[d].status = "ACTIVE" /\ checkout[d].user # tx.user
    BY <1>1, <1>6 DEF StockInv, FoundIsCurrent, ActiveOf, Active
  <2> QED BY <2>1, <1>4, <1>6 DEF StockInv, OneActivePerUser, Active
<1>16. LockedUsers'
  BY <1>14 DEF StockInv, LockedUsers
<1>17. FoundIsCurrent'
  <2> SUFFICES ASSUME NEW q \in Request, create'[q] # Null
               PROVE  /\ \A d \in Checkout :
                           checkout'[d].status = "ACTIVE" /\ checkout'[d].user = create'[q].user
                             => d = create'[q].found
                      /\ create'[q].found # Null =>
                           checkout'[create'[q].found].status # "ABSENT"
    BY DEF FoundIsCurrent, ActiveOf, Active
  <2>1. q # p /\ create'[q] = create[q] /\ create[q] \in CreateTx
    BY <1>14 DEF TypeOK
  <2>2. create[q].user # tx.user
    BY <2>1, <1>1 DEF StockInv, LockedUsers
  <2>3. \A d \in Checkout : checkout[d].status = "ACTIVE" /\ checkout[d].user = create[q].user
                              => d = create[q].found
    BY <2>1 DEF StockInv, FoundIsCurrent, ActiveOf, Active
  <2>4. create[q].found # Null => /\ checkout[create[q].found].status # "ABSENT"
                                  /\ create[q].found \in Checkout \ {c}
    BY <2>1, <1>2 DEF StockInv, FoundIsCurrent, CreateTx
  <2> QED BY <2>1, <2>2, <2>3, <2>4, <1>4, <1>6
<1>18. CancelledEventIsClosed'
  BY <1>2, <1>4, <1>6 DEF StockInv, CancelledEventIsClosed, OrderEndsCheckout,
     TicketsFollowOrder, Active
<1> QED
  BY <1>9, <1>10, <1>11, <1>12, <1>13, <1>15, <1>16, <1>17, <1>18 DEF StockInv

\* Every held unit points to a checkout, an active one.
LEMMA HeldInCheckout ==
  ASSUME TypeOK, StockInv, NEW x \in Unit, unit[x].status = "HELD"
  PROVE  /\ unit[x].checkout \in Checkout /\ checkout[unit[x].checkout].status = "ACTIVE"
         /\ unit[x] = [status |-> "HELD", checkout |-> unit[x].checkout]
BY DEF StockInv, HeldByActive, Active, TypeOK

\* A step that activates no checkout keeps the facts about users and locks.
LEMMA UsersKept ==
  ASSUME TypeOK, StockInv, UNCHANGED create,
         \A d \in Checkout :
           /\ checkout'[d].user = checkout[d].user
           /\ checkout'[d].status = "ACTIVE" => checkout[d].status = "ACTIVE"
           /\ checkout[d].status # "ABSENT" => checkout'[d].status # "ABSENT"
  PROVE  OneActivePerUser' /\ LockedUsers' /\ FoundIsCurrent'
<1>1. OneActivePerUser' /\ LockedUsers'
  BY DEF StockInv, OneActivePerUser, LockedUsers, Active
<1>2. FoundIsCurrent'
  <2> SUFFICES ASSUME NEW q \in Request, create[q] # Null
               PROVE  /\ \A d \in Checkout :
                           checkout'[d].status = "ACTIVE" /\ checkout'[d].user = create[q].user
                             => d = create[q].found
                      /\ create[q].found # Null =>
                           checkout'[create[q].found].status # "ABSENT"
    BY DEF FoundIsCurrent, ActiveOf, Active
  <2>1. create[q].found \in Checkout \cup {Null}
    BY DEF TypeOK, CreateTx
  <2>2. /\ \A d \in Checkout : checkout[d].status = "ACTIVE" /\ checkout[d].user = create[q].user
                               => d = create[q].found
        /\ create[q].found # Null => checkout[create[q].found].status # "ABSENT"
    BY DEF StockInv, FoundIsCurrent, ActiveOf, Active
  <2> QED BY <2>1, <2>2
<1> QED BY <1>1, <1>2

\* A heartbeat keeps the stock's invariant.
LEMMA HeartbeatStep ==
  ASSUME TypeOK, StockInv, NEW c \in Checkout, NEW t \in Recent, Heartbeat(c, t)
  PROVE  StockInv'
<1>1. \A d \in Checkout :
        /\ checkout'[d].status = checkout[d].status /\ checkout'[d].user = checkout[d].user
        /\ checkout'[d].event = checkout[d].event /\ checkout'[d].items = checkout[d].items
  <2>1. checkout[c] \in CheckoutRow
    BY DEF TypeOK
  <2>2. \/ checkout' = checkout
        \/ checkout' = [checkout EXCEPT ![c] = [checkout[c] EXCEPT !.lastHeartbeatAt = t]]
    BY DEF Heartbeat, TypeOK
  <2>3. \A d \in Checkout :
          \/ checkout'[d] = checkout[d]
          \/ d = c /\ checkout'[c] = [checkout[c] EXCEPT !.lastHeartbeatAt = t]
    BY <2>2 DEF TypeOK
  <2> QED BY <2>1, <2>3 DEF CheckoutRow
<1>2. UNCHANGED <<event, unit, order, ticket, create>>
  BY DEF Heartbeat
<1>3. HeldByActive' /\ HeldIsWanted'
  BY <1>1, <1>2, HeldInCheckout DEF StockInv, HeldByActive, HeldIsWanted, Active
<1>4. OneActivePerUser' /\ LockedUsers' /\ FoundIsCurrent'
  BY <1>1, <1>2, UsersKept
<1> QED
  BY <1>1, <1>2, <1>3, <1>4 DEF StockInv, SoldToOneOrder, Owns, Standing, TicketsFollowOrder,
     OrderEndsCheckout, CancelledEventIsClosed, Active

\* Closing some active checkouts (D) and freeing what they held keeps the
\* stock whole: release(), cancel() and the first half of an event's end.
LEMMA CloseStep ==
  ASSUME TypeOK, StockInv, NEW D \in SUBSET Checkout,
         \A d \in D : Active(d) /\ checkout'[d].status \in CheckoutStatus \ {"ACTIVE", "CONFIRMED"},
         \A d \in Checkout \ D : checkout'[d].status = checkout[d].status,
         \A d \in Checkout : /\ checkout'[d].user = checkout[d].user
                             /\ checkout'[d].event = checkout[d].event
                             /\ checkout'[d].items = checkout[d].items,
         unit' = Freed(UNION {HeldBy(d) : d \in D}),
         UNCHANGED create
  PROVE  /\ HeldByActive' /\ HeldIsWanted' /\ OneActivePerUser'
         /\ LockedUsers' /\ FoundIsCurrent'
         /\ \A x \in Unit : unit'[x].status = "SOLD" <=> unit[x].status = "SOLD"
<1>1. \A x \in Unit :
        unit'[x] = IF \E d \in D : unit[x] = [status |-> "HELD", checkout |-> d]
                   THEN Available ELSE unit[x]
  BY SMTT(30) DEF Freed, HeldBy
<1>2. \A x \in Unit : unit'[x].status = "SOLD" <=> unit[x].status = "SOLD"
  <2> SUFFICES ASSUME NEW x \in Unit
               PROVE  unit'[x].status = "SOLD" <=> unit[x].status = "SOLD"
    OBVIOUS
  <2>1. CASE \E d \in D : unit[x] = [status |-> "HELD", checkout |-> d]
    <3>1. unit'[x].status = "AVAILABLE" /\ unit[x].status = "HELD"
      BY <1>1, <2>1 DEF Available
    <3> QED BY <3>1
  <2>2. CASE ~\E d \in D : unit[x] = [status |-> "HELD", checkout |-> d]
    BY <1>1, <2>2
  <2> QED BY <2>1, <2>2
<1>3. \A x \in Unit :
        unit'[x].status = "HELD" =>
          unit'[x] = unit[x] /\ unit[x].checkout \in Checkout \ D
  <2> SUFFICES ASSUME NEW x \in Unit, unit'[x].status = "HELD"
               PROVE  unit'[x] = unit[x] /\ unit[x].checkout \in Checkout \ D
    OBVIOUS
  <2>1. unit'[x] = unit[x]
    BY <1>1 DEF Available
  <2>2. unit[x].checkout \in Checkout
    BY <2>1 DEF StockInv, HeldByActive, TypeOK
  <2>3. unit[x] = [status |-> "HELD", checkout |-> unit[x].checkout]
    BY <2>1 DEF TypeOK
  <2> QED BY <1>1, <2>1, <2>2, <2>3 DEF Available
<1>4. HeldByActive'
  <2>1. \A x \in Unit : unit'[x].status # "HELD" => unit'[x].checkout = Null
    BY <1>1 DEF StockInv, HeldByActive, Available
  <2> QED BY <1>3, <2>1 DEF StockInv, HeldByActive, Active
<1>5. HeldIsWanted'
  BY <1>3 DEF StockInv, HeldIsWanted
<1>6. \A d \in Checkout : checkout'[d].status = "ACTIVE" => checkout[d].status = "ACTIVE"
  BY DEF Active
<1>7. \A d \in Checkout : checkout[d].status # "ABSENT" => checkout'[d].status # "ABSENT"
  BY DEF CheckoutStatus
<1>8. OneActivePerUser' /\ LockedUsers' /\ FoundIsCurrent'
  BY <1>6, <1>7, UsersKept
<1> QED BY <1>2, <1>4, <1>5, <1>8

\* A release, by whichever job or request, keeps the stock's invariant.
LEMMA ReleaseAsStep ==
  ASSUME TypeOK, StockInv, NEW c \in Checkout,
         NEW s \in CheckoutStatus \ {"ACTIVE", "CONFIRMED"}, ReleaseAs(c, s),
         UNCHANGED <<event, order, ticket, create>>
  PROVE  StockInv'
<1>1. CASE ~Active(c)
  <2>1. UNCHANGED <<checkout, unit>>
    BY <1>1 DEF ReleaseAs
  <2> QED BY <2>1, QuietStep
<1>2. CASE Active(c)
  <2>1. /\ checkout' = [checkout EXCEPT ![c] = [checkout[c] EXCEPT !.status = s]]
        /\ unit' = Freed(HeldBy(c))
    BY <1>2 DEF ReleaseAs
  <2>2. checkout[c] \in CheckoutRow
    BY DEF TypeOK
  <2>3. /\ checkout'[c].status = s
        /\ \A d \in Checkout \ {c} : checkout'[d].status = checkout[d].status
        /\ \A d \in Checkout : /\ checkout'[d].user = checkout[d].user
                               /\ checkout'[d].event = checkout[d].event
                               /\ checkout'[d].items = checkout[d].items
    BY <2>1, <2>2 DEF TypeOK, CheckoutRow
  <2>4. HeldBy(c) = UNION {HeldBy(d) : d \in {c}}
    OBVIOUS
  <2>5. /\ HeldByActive' /\ HeldIsWanted' /\ OneActivePerUser'
        /\ LockedUsers' /\ FoundIsCurrent'
        /\ \A x \in Unit : unit'[x].status = "SOLD" <=> unit[x].status = "SOLD"
    <3> DEFINE D == {c}
    <3>1. /\ D \in SUBSET Checkout
          /\ \A d \in D : Active(d) /\ checkout'[d].status \in CheckoutStatus \ {"ACTIVE", "CONFIRMED"}
          /\ \A d \in Checkout \ D : checkout'[d].status = checkout[d].status
          /\ unit' = Freed(UNION {HeldBy(d) : d \in D})
      BY <1>2, <2>1, <2>3, <2>4
    <3> HIDE DEF D
    <3> QED BY <2>3, <3>1, CloseStep
  <2>6. SoldToOneOrder' /\ TicketsFollowOrder'
    BY <2>5 DEF StockInv, SoldToOneOrder, Owns, Standing, TicketsFollowOrder
  <2>7. OrderEndsCheckout' /\ CancelledEventIsClosed'
    BY <1>2, <2>3 DEF StockInv, OrderEndsCheckout, CancelledEventIsClosed, Active,
       CheckoutStatus
  <2> QED BY <2>5, <2>6, <2>7 DEF StockInv
<1> QED BY <1>1, <1>2

\* The tickets of a confirmation are exactly the units the checkout held.
LEMMA ConfirmStep ==
  ASSUME TypeOK, StockInv, NEW c \in Checkout, NEW t \in Recent, Confirm(c, t)
  PROVE  StockInv'
<1>1. /\ order[c] = "NONE" /\ checkout[c].status = "ACTIVE"
      /\ event[checkout[c].event] = "PUBLISHED"
      /\ UNCHANGED <<event, create>>
  BY DEF Confirm, Confirmable, Active
<1>2. checkout[c] \in CheckoutRow
  BY DEF TypeOK
<1>3. /\ checkout'[c].status = "CONFIRMED"
      /\ \A d \in Checkout \ {c} : checkout'[d].status = checkout[d].status
      /\ \A d \in Checkout : /\ checkout'[d].user = checkout[d].user
                             /\ checkout'[d].event = checkout[d].event
                             /\ checkout'[d].items = checkout[d].items
  BY <1>2 DEF Confirm, TypeOK, CheckoutRow
<1>4. order'[c] = "CONFIRMED" /\ \A d \in Checkout \ {c} : order'[d] = order[d]
  BY DEF Confirm, TypeOK
<1>5. \A x \in Unit : unit'[x] = IF x \in HeldBy(c)
                                 THEN [status |-> "SOLD", checkout |-> Null] ELSE unit[x]
  BY DEF Confirm
<1>6. \A x \in Unit : unit[x].checkout = c <=> x \in HeldBy(c)
  BY ReservationsAssumption DEF StockInv, HeldByActive, HeldBy, TypeOK
<1>7. \A x \in HeldBy(c) : checkout[c].items[TypeOf[x]] > 0
  BY DEF StockInv, HeldIsWanted, HeldBy
<1>8. \A x \in Unit : ticket'[c][x] = IF x \in HeldBy(c) THEN "ISSUED" ELSE "NONE"
  BY <1>6, <1>7 DEF Confirm, TypeOK
<1>9. \A d \in Checkout \ {c} : ticket'[d] = ticket[d]
  BY DEF Confirm, TypeOK
<1>10. \A x \in Unit : unit'[x].status = "HELD" =>
         unit'[x] = unit[x] /\ unit[x].checkout \in Checkout \ {c}
  BY <1>5, <1>6 DEF StockInv, HeldByActive, TypeOK
<1>11. HeldByActive'
  BY <1>3, <1>5, <1>10 DEF StockInv, HeldByActive, Active
<1>12. HeldIsWanted'
  BY <1>3, <1>10 DEF StockInv, HeldIsWanted
<1>13. SoldToOneOrder'
  <2>1. \A x \in Unit, d \in Checkout \ {c} : Owns(d, x)' <=> Owns(d, x)
    BY <1>4, <1>9 DEF Owns, Standing
  <2>2. \A x \in Unit : Owns(c, x)' <=> x \in HeldBy(c)
    BY <1>4, <1>8 DEF Owns, Standing
  <2>3. \A x \in Unit : ~Owns(c, x)
    BY <1>1 DEF Owns, Standing
  <2>4. \A x \in HeldBy(c), d \in Checkout : ~Owns(d, x)
    BY DEF StockInv, SoldToOneOrder, HeldBy
  <2>5. \A x \in Unit : unit'[x].status = "SOLD" <=> (x \in HeldBy(c) \/ unit[x].status = "SOLD")
    BY <1>5
  <2> QED BY <2>1, <2>2, <2>3, <2>4, <2>5 DEF StockInv, SoldToOneOrder
<1>14. TicketsFollowOrder'
  BY <1>4, <1>8, <1>9 DEF StockInv, TicketsFollowOrder
<1>15. OrderEndsCheckout'
  BY <1>1, <1>3, <1>4 DEF StockInv, OrderEndsCheckout
<1>16. OneActivePerUser' /\ LockedUsers' /\ FoundIsCurrent'
  BY <1>1, <1>3, UsersKept
<1>17. CancelledEventIsClosed'
  BY <1>1, <1>3, <1>4, <1>9 DEF StockInv, CancelledEventIsClosed, Active
<1> QED BY <1>11, <1>12, <1>13, <1>14, <1>15, <1>16, <1>17 DEF StockInv

\* A customer's cancellation frees units nobody else owns.
LEMMA CancelOrderStep ==
  ASSUME TypeOK, StockInv, NEW c \in Checkout, NEW t \in Recent, CancelOrder(c, t)
  PROVE  StockInv'
<1>1. /\ order[c] = "CONFIRMED" /\ \A x \in Unit : ticket[c][x] # "USED"
      /\ UNCHANGED <<event, checkout, create>>
  BY DEF CancelOrder, Refundable
<1>2. order'[c] = "CANCELLED_BY_CUSTOMER" /\ \A d \in Checkout \ {c} : order'[d] = order[d]
  BY DEF CancelOrder, TypeOK
<1>3. /\ \A d \in Checkout \ {c} : ticket'[d] = ticket[d]
      /\ \A x \in Unit : ticket'[c][x] = IF ticket[c][x] = "ISSUED" THEN "CANCELLED"
                                         ELSE ticket[c][x]
  BY DEF CancelOrder, TypeOK
<1>4. \A x \in Unit : Owns(c, x) <=> ticket[c][x] # "NONE"
  BY <1>1 DEF Owns, Standing
<1>5. \A x \in Unit : unit'[x] = IF Owns(c, x) THEN Available ELSE unit[x]
  BY <1>4 DEF CancelOrder, Freed, StockInv, SoldToOneOrder
<1>6. SoldToOneOrder'
  <2>1. \A x \in Unit, d \in Checkout \ {c} : Owns(d, x)' <=> Owns(d, x)
    BY <1>2, <1>3 DEF Owns, Standing
  <2>2. \A x \in Unit : ~Owns(c, x)'
    BY <1>2 DEF Owns, Standing
  <2>3. \A x \in Unit : unit'[x].status = "SOLD" <=> (unit[x].status = "SOLD" /\ ~Owns(c, x))
    BY <1>5 DEF Available
  <2> QED BY <2>1, <2>2, <2>3 DEF StockInv, SoldToOneOrder
<1>7. HeldByActive' /\ HeldIsWanted'
  BY <1>1, <1>5 DEF StockInv, HeldByActive, HeldIsWanted, Active, Available
<1>8. ticket \in [Checkout -> [Unit -> TicketStatus \cup {"NONE"}]]
  BY DEF TypeOK
<1>9. TicketsFollowOrder'
  BY <1>1, <1>2, <1>3, <1>8 DEF StockInv, TicketsFollowOrder, TicketStatus
<1>10. OrderEndsCheckout' /\ CancelledEventIsClosed'
  BY <1>1, <1>2, <1>3 DEF StockInv, OrderEndsCheckout, CancelledEventIsClosed, Active
<1>11. OneActivePerUser' /\ LockedUsers' /\ FoundIsCurrent'
  BY <1>1 DEF StockInv, OneActivePerUser, LockedUsers, FoundIsCurrent, ActiveOf, Active
<1> QED BY <1>6, <1>7, <1>9, <1>10, <1>11 DEF StockInv

\* A validation at the gate keeps the stock's invariant.
LEMMA ValidateStep ==
  ASSUME TypeOK, StockInv, NEW c \in Checkout, NEW x \in Unit, Validate(c, x)
  PROVE  StockInv'
<1>1. /\ ticket[c][x] = "ISSUED" /\ event[checkout[c].event] # "CANCELLED"
      /\ UNCHANGED <<event, checkout, unit, order, create>>
  BY DEF Validate
<1>2. \A d \in Checkout, z \in Unit :
        ticket'[d][z] = IF d = c /\ z = x THEN "USED" ELSE ticket[d][z]
  BY DEF Validate, TypeOK
<1>3. order[c] = "CONFIRMED"
  BY <1>1 DEF StockInv, TicketsFollowOrder, TypeOK, OrderStatus
<1>4. SoldToOneOrder'
  <2>1. \A d \in Checkout, z \in Unit : Owns(d, z)' <=> Owns(d, z)
    BY <1>1, <1>2 DEF Owns, Standing
  <2> QED BY <1>1, <2>1 DEF StockInv, SoldToOneOrder
<1>5. TicketsFollowOrder'
  BY <1>1, <1>2, <1>3 DEF StockInv, TicketsFollowOrder
<1>6. CancelledEventIsClosed'
  BY <1>1, <1>2 DEF StockInv, CancelledEventIsClosed, Active
<1> QED
  BY <1>1, <1>4, <1>5, <1>6 DEF StockInv, HeldByActive, HeldIsWanted, OrderEndsCheckout,
     OneActivePerUser, LockedUsers, FoundIsCurrent, ActiveOf, Active

\* The end of an event keeps the stock's invariant.
LEMMA CancelEventStep ==
  ASSUME TypeOK, StockInv, NEW e \in Event, CancelEvent(e)
  PROVE  StockInv'
<1> DEFINE closed == {c \in Checkout : Active(c) /\ checkout[c].event = e}
<1>1. /\ event' = [event EXCEPT ![e] = "CANCELLED"]
      /\ unit' = Freed(UNION {HeldBy(c) : c \in closed})
      /\ UNCHANGED create
  BY DEF CancelEvent
<1>2. \A c \in Checkout : checkout'[c] = IF c \in closed
                                         THEN [checkout[c] EXCEPT !.status = "CANCELLED"]
                                         ELSE checkout[c]
  BY DEF CancelEvent
<1>3. \A c \in Checkout :
        /\ checkout'[c].user = checkout[c].user /\ checkout'[c].event = checkout[c].event
        /\ checkout'[c].items = checkout[c].items
        /\ checkout'[c].status = IF c \in closed THEN "CANCELLED" ELSE checkout[c].status
  <2> SUFFICES ASSUME NEW c \in Checkout
      PROVE /\ checkout'[c].user = checkout[c].user /\ checkout'[c].event = checkout[c].event
            /\ checkout'[c].items = checkout[c].items
            /\ checkout'[c].status = IF c \in closed THEN "CANCELLED" ELSE checkout[c].status
    OBVIOUS
  <2>1. checkout[c] \in CheckoutRow
    BY DEF TypeOK
  <2> QED BY <1>2, <2>1 DEF CheckoutRow
<1>4. \A c \in Checkout :
        order'[c] = IF order[c] = "CONFIRMED" /\ checkout[c].event = e
                    THEN "CANCELLED_BY_EVENT" ELSE order[c]
  BY DEF CancelEvent
<1>5. \A c \in Checkout, x \in Unit :
        ticket'[c][x] = IF checkout[c].event = e /\ ticket[c][x] \in {"ISSUED", "USED"}
                        THEN "CANCELLED" ELSE ticket[c][x]
  BY DEF CancelEvent
<1>6. /\ HeldByActive' /\ HeldIsWanted' /\ OneActivePerUser'
      /\ LockedUsers' /\ FoundIsCurrent'
      /\ \A x \in Unit : unit'[x].status = "SOLD" <=> unit[x].status = "SOLD"
  <2>1. /\ closed \in SUBSET Checkout
        /\ \A d \in closed : Active(d) /\ checkout'[d].status \in CheckoutStatus \ {"ACTIVE", "CONFIRMED"}
        /\ \A d \in Checkout \ closed : checkout'[d].status = checkout[d].status
    BY <1>3 DEF CheckoutStatus
  <2> HIDE DEF closed
  <2> QED BY <1>1, <1>3, <2>1, CloseStep
<1>7. SoldToOneOrder'
  <2>1. \A c \in Checkout, x \in Unit : Owns(c, x)' <=> Owns(c, x)
    BY <1>4, <1>5 DEF Owns, Standing
  <2> QED BY <1>6, <2>1 DEF StockInv, SoldToOneOrder
<1>8. ticket \in [Checkout -> [Unit -> TicketStatus \cup {"NONE"}]]
  BY DEF TypeOK
<1>9. TicketsFollowOrder'
  <2> SUFFICES ASSUME NEW c \in Checkout, NEW x \in Unit
      PROVE /\ order'[c] = "NONE" => ticket'[c][x] = "NONE"
            /\ order'[c] = "CONFIRMED" => ticket'[c][x] # "CANCELLED"
            /\ order'[c] \in {"CANCELLED_BY_CUSTOMER", "CANCELLED_BY_EVENT"} =>
                 ticket'[c][x] \in {"NONE", "CANCELLED"}
    BY DEF TicketsFollowOrder
  <2>1. ticket[c][x] \in {"ISSUED", "USED", "CANCELLED", "NONE"}
    BY <1>8 DEF TicketStatus
  <2> QED BY <1>4, <1>5, <2>1 DEF StockInv, TicketsFollowOrder
<1>10. OrderEndsCheckout'
  BY <1>3, <1>4 DEF StockInv, OrderEndsCheckout, Active
<1>11. CancelledEventIsClosed'
  <2> SUFFICES ASSUME NEW c \in Checkout, checkout'[c].event # Null,
                      event'[checkout'[c].event] = "CANCELLED"
               PROVE  /\ checkout'[c].status # "ACTIVE" /\ order'[c] # "CONFIRMED"
                      /\ \A x \in Unit : ticket'[c][x] \in {"NONE", "CANCELLED"}
    BY DEF CancelledEventIsClosed, Active
  <2>1. CASE checkout[c].event = e
    <3>1. \A x \in Unit : ticket[c][x] \in {"ISSUED", "USED", "CANCELLED", "NONE"}
      BY <1>8 DEF TicketStatus
    <3> QED BY <2>1, <3>1, <1>3, <1>4, <1>5 DEF Active
  <2>2. CASE checkout[c].event # e
    <3>1. event[checkout[c].event] = "CANCELLED"
      <4>1. checkout[c].event \in Event
        BY <1>3 DEF TypeOK, CheckoutRow
      <4> QED BY <2>2, <4>1, <1>1, <1>3 DEF TypeOK
    <3> QED BY <2>2, <3>1, <1>3, <1>4, <1>5 DEF StockInv, CancelledEventIsClosed, Active
  <2> QED BY <2>1, <2>2
<1> QED BY <1>6, <1>7, <1>9, <1>10, <1>11 DEF StockInv

\* Every step keeps the stock's invariant.
LEMMA NextStockInv == TypeOK /\ StockInv /\ [Next]_vars => StockInv'
<1> SUFFICES ASSUME TypeOK, StockInv, [Next]_vars PROVE StockInv'
  OBVIOUS
<1>1. ASSUME NEW p \in Request, NEW u \in User, NEW k \in Key, NEW t \in Recent,
             CreateFind(p, u, k, t)
      PROVE StockInv'
  BY <1>1, CreateFindStep
<1>2. ASSUME NEW p \in Request, NEW c \in Checkout, NEW e \in Event,
             NEW S \in SUBSET Unit, NEW i \in Orderable(e), CreateCommit(p, c, e, i, S)
      PROVE StockInv'
  BY <1>2, CreateCommitStep
<1>3. ASSUME NEW p \in Request, CreateAbort(p) PROVE StockInv'
  BY <1>3, TxEnds DEF CreateAbort, TypeOK
<1>4. ASSUME NEW c \in Checkout, NEW t \in Recent, Heartbeat(c, t) PROVE StockInv'
  BY <1>4, HeartbeatStep
<1>5. ASSUME NEW c \in Checkout, NEW t \in Recent, SeeStale(c, t) PROVE StockInv'
  BY <1>5, QuietStep DEF SeeStale
<1>6. ASSUME ReleaseStale PROVE StockInv'
  BY <1>6, QuietStep DEF ReleaseStale
<1>7. ASSUME NEW c \in Checkout, NEW s \in {"EXPIRED", "ABANDONED"}, Release(c, s)
      PROVE StockInv'
  BY <1>7, ReleaseAsStep DEF Release, CheckoutStatus
<1>8. ASSUME NEW c \in Checkout, Cancel(c) PROVE StockInv'
  BY <1>8, ReleaseAsStep DEF Cancel, CheckoutStatus
<1>9. ASSUME NEW c \in Checkout, NEW t \in Recent, Confirm(c, t) PROVE StockInv'
  BY <1>9, ConfirmStep
<1>10. ASSUME NEW c \in Checkout, NEW t \in Recent, CancelOrder(c, t) PROVE StockInv'
  BY <1>10, CancelOrderStep
<1>11. ASSUME NEW c \in Checkout, NEW x \in Unit, Validate(c, x) PROVE StockInv'
  BY <1>11, ValidateStep
<1>12. ASSUME NEW e \in Event, CancelEvent(e) PROVE StockInv'
  BY <1>12, CancelEventStep
<1>13. ASSUME Tick PROVE StockInv'
  BY <1>13, QuietStep DEF Tick
<1>14. ASSUME NEW c \in Checkout, NEW s \in {"EXPIRED", "ABANDONED"}, ReleaseFails(c, s)
       PROVE StockInv'
  BY <1>14, QuietStep DEF ReleaseFails
<1>15. ASSUME Crash PROVE StockInv'
  BY <1>15, TxEnds DEF Crash
<1>16. CASE UNCHANGED vars
  BY <1>16, QuietStep DEF vars
<1> QED
  BY <1>1, <1>2, <1>3, <1>4, <1>5, <1>6, <1>7, <1>8, <1>9, <1>10, <1>11, <1>12,
     <1>13, <1>14, <1>15, <1>16 DEF Next

-----------------------------------------------------------------------------
(* The theorems *)

\* The inductive invariant: what the locks of create(), confirm(), release()
\* and the cancellations keep between them, in every reachable state.
THEOREM StockIsKept == Spec => []StockInv
BY InitStockInv, InitType, NextType, NextStockInv, PTL DEF Spec

\* A unit is held exactly while an active checkout holds it.
THEOREM HeldOnlyByActive == Spec => []HeldByActive
<1>1. StockInv => HeldByActive
  BY DEF StockInv
<1> QED BY <1>1, StockIsKept, PTL

\* No unit is ever sold to two orders, and none is sold to nobody.
THEOREM NeverOversold == Spec => []SoldToOneOrder
<1>1. StockInv => SoldToOneOrder
  BY DEF StockInv
<1> QED BY <1>1, StockIsKept, PTL

\* A user never has two active checkouts.
THEOREM OneCheckoutAtATime == Spec => []OneActivePerUser
<1>1. StockInv => OneActivePerUser
  BY DEF StockInv
<1> QED BY <1>1, StockIsKept, PTL

\* A cancelled event keeps no active checkout, confirmed order or usable ticket.
THEOREM CancelledEventStaysClosed == Spec => []CancelledEventIsClosed
<1>1. StockInv => CancelledEventIsClosed
  BY DEF StockInv
<1> QED BY <1>1, StockIsKept, PTL
=============================================================================
