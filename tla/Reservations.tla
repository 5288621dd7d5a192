----------------------------- MODULE Reservations -----------------------------
(***************************************************************************)
(* The stock and its buyers: checkouts, ticket units, orders and tickets,  *)
(* as CheckoutsService, OrdersService and EventsService.cancel change them. *)
(*                                                                         *)
(* One action is one database transaction (or one single-statement write). *)
(* The row locks each transaction takes make it atomic at its commit; what *)
(* the code reads BEFORE the locks that protect it is a step of its own:   *)
(*   - create() finds the user's active checkout without locking that row, *)
(*     and writes it later in the same transaction (CreateFind, then       *)
(*     CreateCommit);                                                      *)
(*   - releaseStale(), active() and heartbeat() decide that a checkout is  *)
(*     stale and release() acts on the decision later (`releasing').       *)
(* A handler's `now' is read before its write commits, so a write may use  *)
(* any clock value of the last Lag ticks (Recent).                         *)
(*                                                                         *)
(* Payments are left to module Payments; prices, profiles, ticket types    *)
(* that are off sale and the wording of errors are abstracted: they only   *)
(* make create() and confirm() fail, which changes nothing here.           *)
(***************************************************************************)
EXTENDS Integers, FiniteSets

CONSTANTS
  User, Event, TicketType, Unit,  \* the rows that exist from the start
  Checkout,                       \* ids randomUUID() may return
  Key,                            \* Idempotency-Key values
  Request,                        \* concurrent POST /checkouts handlers
  Null,                           \* the database's NULL
  EventOf,                        \* TicketType -> Event
  TypeOf,                         \* Unit -> TicketType
  MaxPerOrder,                    \* TicketType -> limit of one checkout
  StartsAt,                       \* Event -> clock value
  TTL, Presence,                  \* CHECKOUT_TTL_SECONDS, CHECKOUT_PRESENCE_SECONDS
  CancelWindow,                   \* the 48 hours before an event
  Lag,                            \* bound: how old a handler's `now' may be
  Horizon,                        \* bound: the last clock value
  MaxFailures                     \* bound: lost calls and process crashes

ASSUME ReservationsAssumption ==
  /\ EventOf \in [TicketType -> Event]
  /\ TypeOf \in [Unit -> TicketType]
  /\ MaxPerOrder \in [TicketType -> Nat]
  /\ StartsAt \in [Event -> Nat]
  /\ TTL \in Nat /\ Presence \in Nat /\ CancelWindow \in Nat
  /\ Lag \in Nat /\ Horizon \in Nat /\ MaxFailures \in Nat
  /\ Null \notin User \cup Event \cup Checkout
  /\ Null \notin [user : User, key : Key, at : Nat, found : Checkout \cup {Null}]
  /\ IsFiniteSet(Unit)

VARIABLES
  now,          \* the wall clock
  event,        \* Event -> its status
  checkout,     \* Checkout -> its row
  unit,         \* Unit -> its row: status and checkoutId
  order,        \* Checkout -> status of the order made from it (checkoutId is unique)
  ticket,       \* Checkout -> Unit -> status of the ticket that order issued
  idempotency,  \* User, Key -> resourceId of scope checkout:create
  create,       \* Request -> the create transaction it has open, or Null
  releasing,    \* calls of release() decided on and not yet run
  failures      \* lost calls and crashes so far

vars == <<now, event, checkout, unit, order, ticket, idempotency, create,
          releasing, failures>>

CheckoutStatus == {"ACTIVE", "CONFIRMED", "EXPIRED", "ABANDONED", "CANCELLED"}
OrderStatus == {"CONFIRMED", "CANCELLED_BY_CUSTOMER", "CANCELLED_BY_EVENT"}
TicketStatus == {"ISSUED", "USED", "CANCELLED"}
UnitStatus == {"AVAILABLE", "HELD", "SOLD"}

Items == [TicketType -> Nat]

CheckoutRow == [status : CheckoutStatus \cup {"ABSENT"},
                user : User \cup {Null}, event : Event \cup {Null},
                items : Items, expiresAt : Nat, lastHeartbeatAt : Nat]

CreateTx == [user : User, key : Key, at : Nat, found : Checkout \cup {Null}]

TypeOK ==
  /\ now \in Nat
  /\ event \in [Event -> {"PUBLISHED", "CANCELLED"}]
  /\ checkout \in [Checkout -> CheckoutRow]
  /\ unit \in [Unit -> [status : UnitStatus, checkout : Checkout \cup {Null}]]
  /\ order \in [Checkout -> OrderStatus \cup {"NONE"}]
  /\ ticket \in [Checkout -> [Unit -> TicketStatus \cup {"NONE"}]]
  /\ idempotency \in [User -> [Key -> Checkout \cup {Null}]]
  /\ create \in [Request -> CreateTx \cup {Null}]
  /\ releasing \subseteq Checkout \X {"EXPIRED", "ABANDONED"}
  /\ failures \in Nat

NoItems == [y \in TicketType |-> 0]

AbsentRow == [status |-> "ABSENT", user |-> Null, event |-> Null,
              items |-> NoItems, expiresAt |-> 0, lastHeartbeatAt |-> 0]

Available == [status |-> "AVAILABLE", checkout |-> Null]

Init ==
  /\ now = 0
  /\ event = [e \in Event |-> "PUBLISHED"]
  /\ checkout = [c \in Checkout |-> AbsentRow]
  /\ unit = [x \in Unit |-> Available]
  /\ order = [c \in Checkout |-> "NONE"]
  /\ ticket = [c \in Checkout |-> [x \in Unit |-> "NONE"]]
  /\ idempotency = [u \in User |-> [k \in Key |-> Null]]
  /\ create = [p \in Request |-> Null]
  /\ releasing = {}
  /\ failures = 0

-----------------------------------------------------------------------------
(* What the handlers read and write *)

Recent == {t \in 0..now : now <= t + Lag}

Active(c) == checkout[c].status = "ACTIVE"

\* Mutant: presence alone decides, the absolute deadline is forgotten.
Stale_PresenceOnly(c, t) == checkout[c].lastHeartbeatAt + Presence <= t

Stale(c, t) == \/ checkout[c].expiresAt <= t
               \/ checkout[c].lastHeartbeatAt + Presence <= t

\* Mutant: the terminal reason is stored as the status.
StaleStatus_Reason(c, t) ==
  IF checkout[c].expiresAt <= t THEN "TTL_EXPIRED" ELSE "PRESENCE_LOST"

\* The terminal status a stale checkout is given.
StaleStatus(c, t) == IF checkout[c].expiresAt <= t THEN "EXPIRED" ELSE "ABANDONED"

ActiveOf(u) == {c \in Checkout : Active(c) /\ checkout[c].user = u}

HeldBy(c) == {x \in Unit : unit[x] = [status |-> "HELD", checkout |-> c]}

AvailableUnits == {x \in Unit : unit[x].status = "AVAILABLE"}

Freed(S) == [x \in Unit |-> IF x \in S THEN Available ELSE unit[x]]

OfType(S, y) == {x \in S : TypeOf[x] = y}

\* The quantities of a request: one event's types, each within its limit.
Orderable(e) ==
  {i \in [TicketType -> UNION {0..MaxPerOrder[y] : y \in TicketType}] :
     /\ i # NoItems
     /\ \A y \in TicketType : /\ i[y] <= MaxPerOrder[y]
                              /\ i[y] > 0 => EventOf[y] = e}

\* Mutant: whatever the SELECT returned is enough.
Picks_Partial(S, i) == \A y \in TicketType : Cardinality(OfType(S, y)) <= i[y]

\* S is what SELECT ... LIMIT quantity FOR UPDATE SKIP LOCKED took of each type.
Picks(S, i) == \A y \in TicketType : Cardinality(OfType(S, y)) = i[y]

-----------------------------------------------------------------------------
(* create() *)

\* Mutant: the User row is read without FOR UPDATE.
UserUnlocked_Always(u) == TRUE

\* FOR UPDATE on the User row: one create transaction of a user at a time.
UserUnlocked(u) == \A q \in Request : create[q] # Null => create[q].user # u

\* The transaction opens, takes the user's lock and looks for an active
\* checkout; one that is not stale refuses the request.
CreateFind(p, u, k, t) ==
  /\ create[p] = Null
  /\ UserUnlocked(u)
  /\ \E f \in Checkout \cup {Null} :
       /\ IF f = Null THEN ActiveOf(u) = {} ELSE f \in ActiveOf(u) /\ Stale(f, t)
       /\ create' = [create EXCEPT ![p] =
                       [user |-> u, key |-> k, at |-> t, found |-> f]]
  /\ UNCHANGED <<now, event, checkout, unit, order, ticket, idempotency,
                 releasing, failures>>

\* Mutant: only the event's date is checked.
OnSale_AnyStatus(e, t) == StartsAt[e] > t

\* The event as create() reads it, under its shared lock.
OnSale(e, t) == event[e] = "PUBLISHED" /\ StartsAt[e] > t

\* Mutant: the record is upserted, not created.
KeyUnused_Upsert(tx) == TRUE

\* The unique constraint on (userId, scope, key).
KeyUnused(tx) == idempotency[tx.user][tx.key] = Null

NewCheckout(tx, e, i) ==
  [status |-> "ACTIVE", user |-> tx.user, event |-> e, items |-> i,
   expiresAt |-> tx.at + TTL, lastHeartbeatAt |-> tx.at]

\* The Checkout rows after the commit: c is created, and the stale checkout
\* found earlier is closed whatever its row says by now.
AfterCreate(tx, c, e, i) ==
  [d \in Checkout |->
     IF d = c THEN NewCheckout(tx, e, i)
     ELSE IF d = tx.found
          THEN [checkout[d] EXCEPT !.status = StaleStatus(d, tx.at)]
          ELSE checkout[d]]

\* The rest of the transaction: free the stale checkout's units, check the
\* event, reserve every type or fail, and store the key (unique per user).
CreateCommit(p, c, e, i, S) ==
  LET tx == create[p]
      old == HeldBy(tx.found)
  IN /\ tx # Null
     /\ checkout[c].status = "ABSENT"
     /\ OnSale(e, tx.at)
     /\ i \in Orderable(e)
     /\ S \subseteq AvailableUnits \cup old /\ Picks(S, i)
     /\ KeyUnused(tx)
     /\ tx.at + TTL <= Horizon
     /\ checkout' = AfterCreate(tx, c, e, i)
     /\ unit' = [x \in Unit |->
                   IF x \in S THEN [status |-> "HELD", checkout |-> c]
                              ELSE Freed(old)[x]]
     /\ idempotency' = [idempotency EXCEPT ![tx.user][tx.key] = c]
     /\ create' = [create EXCEPT ![p] = Null]
     /\ UNCHANGED <<now, event, order, ticket, releasing, failures>>

\* Any refusal, a lost deadlock or a timeout rolls the transaction back.
CreateAbort(p) ==
  /\ create[p] # Null
  /\ create' = [create EXCEPT ![p] = Null]
  /\ UNCHANGED <<now, event, checkout, unit, order, ticket, idempotency,
                 releasing, failures>>

-----------------------------------------------------------------------------
(* Presence and release *)

\* The client's heartbeat; one that arrives too late releases the checkout.
Heartbeat(c, t) ==
  /\ Active(c)
  /\ IF Stale(c, t)
     THEN /\ releasing' = releasing \cup {<<c, StaleStatus(c, t)>>}
          /\ UNCHANGED checkout
     ELSE /\ checkout' = [checkout EXCEPT ![c].lastHeartbeatAt = t]
          /\ UNCHANGED releasing
  /\ UNCHANGED <<now, event, unit, order, ticket, idempotency, create, failures>>

\* active() and createPaymentSession() release the stale checkout they read.
SeeStale(c, t) ==
  /\ Active(c) /\ Stale(c, t)
  /\ releasing' = releasing \cup {<<c, StaleStatus(c, t)>>}
  /\ UNCHANGED <<now, event, checkout, unit, order, ticket, idempotency,
                 create, failures>>

\* The job that runs every 10 seconds lists the stale checkouts.
ReleaseStale ==
  /\ releasing' = releasing \cup
       {<<c, StaleStatus(c, now)>> : c \in {d \in Checkout : Active(d) /\ Stale(d, now)}}
  /\ UNCHANGED <<now, event, checkout, unit, order, ticket, idempotency,
                 create, failures>>

\* Mutant: the row is closed and the units stay where they are.
ReleaseAs_KeepsUnits(c, s) ==
  /\ checkout' = IF Active(c) THEN [checkout EXCEPT ![c].status = s] ELSE checkout
  /\ UNCHANGED unit

\* release(): under the Checkout lock, an active checkout gives its units back.
ReleaseAs(c, s) ==
  IF Active(c)
  THEN /\ checkout' = [checkout EXCEPT ![c].status = s]
       /\ unit' = Freed(HeldBy(c))
  ELSE UNCHANGED <<checkout, unit>>

Release(c, s) ==
  /\ <<c, s>> \in releasing
  /\ ReleaseAs(c, s)
  /\ releasing' = releasing \ {<<c, s>>}
  /\ UNCHANGED <<now, event, order, ticket, idempotency, create, failures>>

\* The buyer leaves: cancel() calls release() with no stale decision behind it.
Cancel(c) ==
  /\ checkout[c].status # "ABSENT"
  /\ ReleaseAs(c, "CANCELLED")
  /\ UNCHANGED <<now, event, order, ticket, idempotency, create, releasing,
                 failures>>

-----------------------------------------------------------------------------
(* Orders, tickets and the gate *)

\* Mutant: the status read before the transaction is trusted.
Confirmable_Unlocked(c, t) == order[c] = "NONE" /\ checkout[c].status # "ABSENT"

\* What the transaction checks again under the Checkout lock.
Confirmable(c, t) ==
  /\ order[c] = "NONE"
  /\ Active(c) /\ ~Stale(c, t)
  /\ event[checkout[c].event] = "PUBLISHED"

\* finalizePaidCheckout()'s transaction, under the Event (shared) and
\* Checkout locks; authorisation of the payment is in module Payments.
Confirm(c, t) ==
  /\ Confirmable(c, t)
  /\ order' = [order EXCEPT ![c] = "CONFIRMED"]
  /\ ticket' = [ticket EXCEPT ![c] =
                  [x \in Unit |->
                     IF unit[x].checkout = c /\ checkout[c].items[TypeOf[x]] > 0
                     THEN "ISSUED" ELSE "NONE"]]
  /\ unit' = [x \in Unit |->
                IF x \in HeldBy(c) THEN [status |-> "SOLD", checkout |-> Null]
                                   ELSE unit[x]]
  /\ checkout' = [checkout EXCEPT ![c].status = "CONFIRMED"]
  /\ UNCHANGED <<now, event, idempotency, create, releasing, failures>>

\* Mutant: an order that was cancelled already may be cancelled again.
Refundable_Again(c, t) ==
  /\ order[c] # "NONE"
  /\ t + CancelWindow < StartsAt[checkout[c].event]
  /\ \A x \in Unit : ticket[c][x] # "USED"

\* Mutant: nobody asks the gate.
Refundable_Used(c, t) ==
  /\ order[c] = "CONFIRMED"
  /\ t + CancelWindow < StartsAt[checkout[c].event]

\* What cancelOrder() checks under the Order lock.
Refundable(c, t) ==
  /\ order[c] = "CONFIRMED"
  /\ t + CancelWindow < StartsAt[checkout[c].event]
  /\ \A x \in Unit : ticket[c][x] # "USED"

\* cancelOrder()'s transaction, under the Event (shared) and Order locks.
CancelOrder(c, t) ==
  /\ Refundable(c, t)
  /\ unit' = Freed({x \in Unit : ticket[c][x] # "NONE" /\ unit[x].status = "SOLD"})
  /\ ticket' = [ticket EXCEPT ![c] =
                  [x \in Unit |->
                     IF ticket[c][x] = "ISSUED" THEN "CANCELLED" ELSE ticket[c][x]]]
  /\ order' = [order EXCEPT ![c] = "CANCELLED_BY_CUSTOMER"]
  /\ UNCHANGED <<now, event, checkout, idempotency, create, releasing, failures>>

\* validate(): the gate reads a QR code, under Event, Order and Ticket locks.
Validate(c, x) ==
  /\ ticket[c][x] = "ISSUED"
  /\ event[checkout[c].event] # "CANCELLED"
  /\ ticket' = [ticket EXCEPT ![c][x] = "USED"]
  /\ UNCHANGED <<now, event, checkout, unit, order, idempotency, create,
                 releasing, failures>>

\* EventsService.cancel(): the Event row is locked for update, so no create,
\* confirm, cancelOrder or validate of this event is in progress.
CancelEvent(e) ==
  LET closed == {c \in Checkout : Active(c) /\ checkout[c].event = e}
      ended == {c \in Checkout : order[c] = "CONFIRMED" /\ checkout[c].event = e}
  IN /\ event' = [event EXCEPT ![e] = "CANCELLED"]
     /\ checkout' = [c \in Checkout |->
                       IF c \in closed THEN [checkout[c] EXCEPT !.status = "CANCELLED"]
                                       ELSE checkout[c]]
     /\ unit' = Freed(UNION {HeldBy(c) : c \in closed})
     /\ order' = [c \in Checkout |->
                    IF c \in ended THEN "CANCELLED_BY_EVENT" ELSE order[c]]
     /\ ticket' = [c \in Checkout |-> [x \in Unit |->
                     IF checkout[c].event = e /\ ticket[c][x] \in {"ISSUED", "USED"}
                     THEN "CANCELLED" ELSE ticket[c][x]]]
     /\ UNCHANGED <<now, idempotency, create, releasing, failures>>

-----------------------------------------------------------------------------
(* Time and failures *)

Tick ==
  /\ now < Horizon
  /\ now' = now + 1
  /\ UNCHANGED <<event, checkout, unit, order, ticket, idempotency, create,
                 releasing, failures>>

\* A release() call fails (the database refuses it): the decision is lost.
ReleaseFails(c, s) ==
  /\ <<c, s>> \in releasing
  /\ failures < MaxFailures
  /\ failures' = failures + 1
  /\ releasing' = releasing \ {<<c, s>>}
  /\ UNCHANGED <<now, event, checkout, unit, order, ticket, idempotency, create>>

\* The server stops: every call in flight is lost, open transactions roll back.
Crash ==
  /\ failures < MaxFailures
  /\ failures' = failures + 1
  /\ releasing' = {}
  /\ create' = [p \in Request |-> Null]
  /\ UNCHANGED <<now, event, checkout, unit, order, ticket, idempotency>>

Next ==
  \/ \E p \in Request, u \in User, k \in Key, t \in Recent : CreateFind(p, u, k, t)
  \/ \E p \in Request, c \in Checkout, e \in Event, S \in SUBSET Unit :
       \E i \in Orderable(e) : CreateCommit(p, c, e, i, S)
  \/ \E p \in Request : CreateAbort(p)
  \/ \E c \in Checkout, t \in Recent : Heartbeat(c, t)
  \/ \E c \in Checkout, t \in Recent : SeeStale(c, t)
  \/ ReleaseStale
  \/ \E c \in Checkout, s \in {"EXPIRED", "ABANDONED"} : Release(c, s)
  \/ \E c \in Checkout : Cancel(c)
  \/ \E c \in Checkout, t \in Recent : Confirm(c, t)
  \/ \E c \in Checkout, t \in Recent : CancelOrder(c, t)
  \/ \E c \in Checkout, x \in Unit : Validate(c, x)
  \/ \E e \in Event : CancelEvent(e)
  \/ Tick
  \/ \E c \in Checkout, s \in {"EXPIRED", "ABANDONED"} : ReleaseFails(c, s)
  \/ Crash

Spec == Init /\ [][Next]_vars

\* The clock advances, the job keeps firing and a release it starts is run:
\* nothing is assumed of buyers, organisers, the gate or create transactions.
Fairness ==
  /\ WF_vars(Tick)
  /\ WF_vars(ReleaseStale)
  /\ \A c \in Checkout, s \in {"EXPIRED", "ABANDONED"} : WF_vars(Release(c, s))

FairSpec == Spec /\ Fairness

-----------------------------------------------------------------------------
(* Safety *)

\* The order's tickets still own their units (an event's cancellation keeps
\* the units sold, a customer's gives them back).
Standing(c) == order[c] \in {"CONFIRMED", "CANCELLED_BY_EVENT"}

Owns(c, x) == Standing(c) /\ ticket[c][x] # "NONE"

\* A unit is HELD exactly while the checkout it points to is active, and
\* points to no checkout otherwise: no release, confirmation or cancellation
\* leaves a unit stuck in a closed checkout.
HeldByActive ==
  \A x \in Unit :
    IF unit[x].status = "HELD"
    THEN unit[x].checkout # Null /\ Active(unit[x].checkout)
    ELSE unit[x].checkout = Null

\* A unit is SOLD exactly when one standing order has a ticket for it, and it
\* never has two: reservation, confirmation and cancellations in any order
\* neither oversell a unit nor lose one.
SoldToOneOrder ==
  /\ \A x \in Unit : unit[x].status = "SOLD" <=> \E c \in Checkout : Owns(c, x)
  /\ \A x \in Unit, c, d \in Checkout : Owns(c, x) /\ Owns(d, x) => c = d

\* A checkout holds the whole of its selection while it is active, and an
\* order has a ticket for each unit of it: never a part of a type, never one
\* type without the others (create, confirm).
AllOrNothing ==
  \A c \in Checkout :
    \A y \in TicketType :
      /\ Active(c) => Cardinality(OfType(HeldBy(c), y)) = checkout[c].items[y]
      /\ order[c] # "NONE" =>
           LET issued == {x \in Unit : ticket[c][x] # "NONE"}
           IN Cardinality(OfType(issued, y)) = checkout[c].items[y]

\* A user has one active checkout at most, however many tabs create at once
\* (the User row lock of create).
OneActivePerUser ==
  \A c, d \in Checkout :
    Active(c) /\ Active(d) /\ checkout[c].user = checkout[d].user => c = d

\* Every checkout is the one some key of its user answers with: retries and
\* races with one Idempotency-Key never make a second checkout.
OneCheckoutPerKey ==
  \A c \in Checkout :
    checkout[c].status # "ABSENT" =>
      \E k \in Key : idempotency[checkout[c].user][k] = c

\* Cancelling an event leaves nothing behind: no active checkout, confirmed
\* order or usable ticket of it, now or later (the Event row locks).
CancelledEventIsClosed ==
  \A c \in Checkout :
    checkout[c].event # Null /\ event[checkout[c].event] = "CANCELLED" =>
      /\ ~Active(c)
      /\ order[c] # "CONFIRMED"
      /\ \A x \in Unit : ticket[c][x] \in {"NONE", "CANCELLED"}

\* A customer's cancellation never refunds a ticket the gate has accepted,
\* whichever of validate and cancelOrder comes first.
UsedIsNeverRefunded ==
  [][\A c \in Checkout, x \in Unit :
       /\ ticket[c][x] = "USED" => order'[c] # "CANCELLED_BY_CUSTOMER"
       /\ order[c] = "CANCELLED_BY_CUSTOMER" => ticket'[c][x] # "USED"]_vars

-----------------------------------------------------------------------------
(* The inductive invariant behind the theorems of ReservationsProofs *)

\* A unit is held only by a selection that asked for its type, so that
\* confirm(), which issues tickets type by type, misses none.
HeldIsWanted ==
  \A x \in Unit :
    unit[x].status = "HELD" => checkout[unit[x].checkout].items[TypeOf[x]] > 0

TicketsFollowOrder ==
  \A c \in Checkout, x \in Unit :
    /\ order[c] = "NONE" => ticket[c][x] = "NONE"
    /\ order[c] = "CONFIRMED" => ticket[c][x] # "CANCELLED"
    /\ order[c] \in {"CANCELLED_BY_CUSTOMER", "CANCELLED_BY_EVENT"} =>
         ticket[c][x] \in {"NONE", "CANCELLED"}

OrderEndsCheckout ==
  \A c \in Checkout :
    /\ checkout[c].status \in {"ABSENT", "ACTIVE"} => order[c] = "NONE"
    /\ checkout[c].status # "ABSENT" => checkout[c].event \in Event

LockedUsers ==
  \A p, q \in Request :
    create[p] # Null /\ create[q] # Null /\ create[p].user = create[q].user => p = q

\* While a create transaction has the user's lock, no other checkout of the
\* user than the one it found can be active.
FoundIsCurrent ==
  \A p \in Request :
    create[p] # Null =>
      /\ ActiveOf(create[p].user) \subseteq {create[p].found}
      /\ create[p].found # Null => checkout[create[p].found].status # "ABSENT"

\* The safety properties together with the facts their induction needs: what
\* the locks of create(), confirm() and the cancellations keep between them.
StockInv ==
  /\ HeldByActive /\ HeldIsWanted /\ SoldToOneOrder
  /\ TicketsFollowOrder /\ OrderEndsCheckout
  /\ OneActivePerUser /\ LockedUsers /\ FoundIsCurrent
  /\ CancelledEventIsClosed

-----------------------------------------------------------------------------
(* The abstract stock that the tables implement *)

\* A checkout is a claim; its lot is the units it holds or its order owns.
ClaimState ==
  [c \in Checkout |->
     IF order[c] = "CANCELLED_BY_CUSTOMER" THEN "ended"
     ELSE IF Standing(c) THEN "sold"
     ELSE IF checkout[c].status = "ABSENT" THEN "new"
     ELSE IF Active(c) THEN "holding" ELSE "ended"]

ClaimLot == [c \in Checkout |-> HeldBy(c) \cup {x \in Unit : Owns(c, x)}]

Abstract == INSTANCE Stock WITH Claim <- Checkout, state <- ClaimState, lot <- ClaimLot

\* Every behaviour of the checkouts, orders and jobs is one of the abstract
\* stock: lots are taken, sold and returned whole, and never shared, even
\* when create() overwrites the status of a checkout confirmed meanwhile.
ImplementsStock == Abstract!Spec

-----------------------------------------------------------------------------
(* Liveness *)

\* An active checkout never blocks its units for ever: whatever the buyer
\* does it ends, confirmed or released, even if calls fail or the server
\* crashes in between (heartbeats never extend the TTL, the job retries).
ActiveEnds == \A c \in Checkout : Active(c) ~> ~Active(c)
=============================================================================
