------------------------------ MODULE StockProofs ------------------------------
(***************************************************************************)
(* What the inductive invariant of ReservationsProofs buys: whole lots,    *)
(* one checkout per Idempotency-Key, no refund of an accepted ticket, and  *)
(* that the tables implement the abstract stock of module Stock.           *)
(***************************************************************************)
EXTENDS ReservationsProofs

-----------------------------------------------------------------------------
(* What a step that opens no checkout does to the rows *)

\* A step that writes at most the status and the presence of a row.
LEMMA StatusWrite ==
  ASSUME TypeOK, NEW c \in Checkout, NEW s, NEW t,
         \/ checkout' = [checkout EXCEPT ![c].status = s]
         \/ checkout' = [checkout EXCEPT ![c].lastHeartbeatAt = t] /\ s = checkout[c].status
  PROVE  /\ \A d \in Checkout :
              /\ checkout'[d].user = checkout[d].user /\ checkout'[d].event = checkout[d].event
              /\ checkout'[d].items = checkout[d].items
              /\ d # c => checkout'[d].status = checkout[d].status
         /\ checkout'[c].status = s
<1>1. \A d \in Checkout : checkout[d] \in CheckoutRow
  BY DEF TypeOK
<1>2. CASE checkout' = [checkout EXCEPT ![c].status = s]
  BY <1>1, <1>2 DEF TypeOK, CheckoutRow
<1>3. CASE checkout' = [checkout EXCEPT ![c].lastHeartbeatAt = t] /\ s = checkout[c].status
  BY <1>1, <1>3 DEF TypeOK, CheckoutRow
<1> QED BY <1>2, <1>3

\* What the rows keep while nothing but create() gives a checkout its user,
\* event and items, or makes it active.
RowsKept ==
  /\ UNCHANGED idempotency
  /\ \A d \in Checkout :
       /\ checkout'[d].user = checkout[d].user /\ checkout'[d].event = checkout[d].event
       /\ checkout'[d].items = checkout[d].items
       /\ checkout'[d].status = "ABSENT" <=> checkout[d].status = "ABSENT"
       /\ checkout'[d].status = "ACTIVE" => checkout[d].status = "ACTIVE"

\* A release keeps the rows and makes no checkout active.
LEMMA ReleaseRows ==
  ASSUME TypeOK, NEW c \in Checkout, NEW s \in {"EXPIRED", "ABANDONED", "CANCELLED"},
         ReleaseAs(c, s), UNCHANGED idempotency
  PROVE  RowsKept
<1>1. CASE Active(c)
  <2>1. checkout' = [checkout EXCEPT ![c].status = s]
    BY <1>1 DEF ReleaseAs
  <2> QED BY <1>1, <2>1, StatusWrite DEF RowsKept, Active
<1>2. CASE ~Active(c)
  BY <1>2 DEF ReleaseAs, RowsKept
<1> QED BY <1>1, <1>2

\* The end of an event keeps the rows and makes no checkout active.
LEMMA CancelEventRows ==
  ASSUME TypeOK, NEW e \in Event, CancelEvent(e)
  PROVE  RowsKept
<1> SUFFICES ASSUME NEW d \in Checkout
             PROVE  /\ checkout'[d].user = checkout[d].user
                    /\ checkout'[d].event = checkout[d].event
                    /\ checkout'[d].items = checkout[d].items
                    /\ checkout'[d].status = "ABSENT" <=> checkout[d].status = "ABSENT"
                    /\ checkout'[d].status = "ACTIVE" => checkout[d].status = "ACTIVE"
  BY DEF CancelEvent, RowsKept
<1>1. checkout[d] \in CheckoutRow
  BY DEF TypeOK
<1>2. \/ checkout'[d] = checkout[d]
      \/ Active(d) /\ checkout'[d] = [checkout[d] EXCEPT !.status = "CANCELLED"]
  BY DEF CancelEvent
<1> QED BY <1>1, <1>2 DEF CheckoutRow, Active

\* Every step keeps them but the commit of a create transaction.
LEMMA OtherRows ==
  ASSUME TypeOK, [Next]_vars
  PROVE  \/ RowsKept
         \/ \E p \in Request, c \in Checkout, e \in Event, S \in SUBSET Unit :
              \E i \in Orderable(e) : CreateCommit(p, c, e, i, S)
<1>1. ASSUME UNCHANGED <<checkout, idempotency>> PROVE RowsKept
  BY <1>1 DEF RowsKept
<1>2. ASSUME NEW c \in Checkout, NEW t \in Recent, Heartbeat(c, t) PROVE RowsKept
  <2>1. CASE Stale(c, t)
    BY <1>1, <1>2, <2>1 DEF Heartbeat
  <2>2. CASE ~Stale(c, t)
    <3>1. checkout' = [checkout EXCEPT ![c].lastHeartbeatAt = t]
      BY <1>2, <2>2 DEF Heartbeat
    <3> QED BY <1>2, <3>1, StatusWrite DEF Heartbeat, RowsKept
  <2> QED BY <2>1, <2>2
<1>3. ASSUME NEW c \in Checkout, NEW s \in {"EXPIRED", "ABANDONED"}, Release(c, s)
      PROVE RowsKept
  BY <1>3, ReleaseRows DEF Release
<1>4. ASSUME NEW c \in Checkout, Cancel(c) PROVE RowsKept
  BY <1>4, ReleaseRows DEF Cancel
<1>5. ASSUME NEW c \in Checkout, NEW t \in Recent, Confirm(c, t) PROVE RowsKept
  <2>1. checkout' = [checkout EXCEPT ![c].status = "CONFIRMED"] /\ UNCHANGED idempotency
    BY <1>5 DEF Confirm
  <2>2. checkout[c].status = "ACTIVE"
    BY <1>5 DEF Confirm, Confirmable, Active
  <2> QED BY <2>1, <2>2, StatusWrite DEF RowsKept
<1>6. ASSUME NEW e \in Event, CancelEvent(e) PROVE RowsKept
  BY <1>6, CancelEventRows
<1>7. CASE UNCHANGED vars
  BY <1>1, <1>7 DEF vars
<1> QED
  BY <1>1, <1>2, <1>3, <1>4, <1>5, <1>6, <1>7
     DEF Next, CreateFind, CreateAbort, SeeStale, ReleaseStale, CancelOrder, Validate,
         Tick, ReleaseFails, Crash

\* The steps that move units, orders or tickets; the others touch only rows,
\* keys, open transactions, decisions and the clock.
LEMMA StepKinds ==
  ASSUME [Next]_vars
  PROVE  \/ UNCHANGED <<unit, order, ticket>>
         \/ \E c \in Checkout, s \in {"EXPIRED", "ABANDONED"} : Release(c, s)
         \/ \E c \in Checkout : Cancel(c)
         \/ \E c \in Checkout, t \in Recent : Confirm(c, t) \/ CancelOrder(c, t)
         \/ \E c \in Checkout, x \in Unit : Validate(c, x)
         \/ \E e \in Event : CancelEvent(e)
         \/ \E p \in Request, c \in Checkout, e \in Event, S \in SUBSET Unit :
              \E i \in Orderable(e) : CreateCommit(p, c, e, i, S)
<1>1. ASSUME NEW p \in Request,
             \/ \E u \in User, k \in Key, t \in Recent : CreateFind(p, u, k, t)
             \/ CreateAbort(p)
      PROVE  UNCHANGED <<unit, order, ticket>>
  BY <1>1 DEF CreateFind, CreateAbort
<1>2. ASSUME NEW c \in Checkout, NEW t \in Recent, Heartbeat(c, t) \/ SeeStale(c, t)
      PROVE  UNCHANGED <<unit, order, ticket>>
  BY <1>2 DEF Heartbeat, SeeStale
<1>3. ASSUME NEW c \in Checkout, NEW s \in {"EXPIRED", "ABANDONED"}, ReleaseFails(c, s)
      PROVE  UNCHANGED <<unit, order, ticket>>
  BY <1>3 DEF ReleaseFails
<1>4. ASSUME ReleaseStale \/ Tick \/ Crash \/ UNCHANGED vars
      PROVE  UNCHANGED <<unit, order, ticket>>
  BY <1>4 DEF ReleaseStale, Tick, Crash, vars
<1> QED BY <1>1, <1>2, <1>3, <1>4 DEF Next

-----------------------------------------------------------------------------
(* One checkout per Idempotency-Key *)

\* No step gives an idempotency key a second checkout.
LEMMA KeyStep ==
  ASSUME TypeOK, StockInv, OneCheckoutPerKey, [Next]_vars
  PROVE  OneCheckoutPerKey'
<1>1. CASE RowsKept
  BY <1>1 DEF OneCheckoutPerKey, RowsKept
<1>2. ASSUME NEW p \in Request, NEW c \in Checkout, NEW e \in Event,
             NEW S \in SUBSET Unit, NEW i \in Orderable(e), CreateCommit(p, c, e, i, S)
      PROVE  OneCheckoutPerKey'
  <2> DEFINE tx == create[p]
  <2>1. /\ tx \in CreateTx
        /\ idempotency[tx.user][tx.key] = Null
        /\ idempotency' = [idempotency EXCEPT ![tx.user][tx.key] = c]
    BY <1>2 DEF CreateCommit, KeyUnused, TypeOK
  <2>2. \A u \in User, k \in Key :
          idempotency'[u][k] = IF u = tx.user /\ k = tx.key THEN c ELSE idempotency[u][k]
    BY <2>1 DEF TypeOK, CreateTx
  <2> SUFFICES ASSUME NEW d \in Checkout, checkout'[d].status # "ABSENT"
               PROVE  \E k \in Key : idempotency'[checkout'[d].user][k] = d
    BY DEF OneCheckoutPerKey
  <2>3. CASE d = c
    BY <1>2, <2>1, <2>2, <2>3, CommitRows DEF CreateTx
  <2>4. CASE d # c
    <3>1. checkout[d].status # "ABSENT" /\ checkout'[d].user = checkout[d].user
      BY <1>2, <2>4, CommitRows
    <3>2. PICK k \in Key : idempotency[checkout[d].user][k] = d
      BY <3>1 DEF OneCheckoutPerKey
    <3>3. idempotency'[checkout[d].user][k] = d
      <4>1. ~(checkout[d].user = tx.user /\ k = tx.key)
        BY <2>1, <3>2, ReservationsAssumption
      <4>2. CASE checkout[d].user \in User
        BY <4>1, <4>2, <2>2, <3>2
      <4>3. CASE checkout[d].user = Null
        BY <4>1, <4>3, <2>1, <3>2, ReservationsAssumption DEF TypeOK, CreateTx
      <4> QED BY <4>2, <4>3 DEF TypeOK, CheckoutRow
    <3> QED BY <3>1, <3>3
  <2> QED BY <2>3, <2>4
<1> QED BY <1>1, <1>2, OtherRows

\* Retries and races with one Idempotency-Key never make a second checkout:
\* every checkout is the answer of a key of its user, in every reachable state.
THEOREM OneCheckoutForEachKey == Spec => []OneCheckoutPerKey
<1>1. Init => OneCheckoutPerKey
  BY DEF Init, OneCheckoutPerKey, AbsentRow
<1> QED BY <1>1, KeyStep, TypeCorrect, StockIsKept, PTL DEF Spec

-----------------------------------------------------------------------------
(* The gate and the refund *)

\* Only cancelOrder() refunds, after asking the gate; only validate() uses.
LEMMA GateStep ==
  ASSUME TypeOK, StockInv, [Next]_vars, NEW c \in Checkout, NEW x \in Unit
  PROVE  /\ order'[c] = "CANCELLED_BY_CUSTOMER" =>
              order[c] = "CANCELLED_BY_CUSTOMER" \/ ticket[c][x] # "USED"
         /\ ticket'[c][x] = "USED" => ticket[c][x] \in {"ISSUED", "USED"}
<1>1. CASE UNCHANGED <<order, ticket>>
  <2>1. ticket[c][x] \in {"ISSUED", "USED", "CANCELLED", "NONE"}
    BY DEF TypeOK, TicketStatus
  <2> QED BY <1>1, <2>1
<1>2. ASSUME NEW d \in Checkout, NEW t \in Recent, Confirm(d, t)
      PROVE /\ order'[c] # "CANCELLED_BY_CUSTOMER" \/ order[c] = "CANCELLED_BY_CUSTOMER"
            /\ ticket'[c][x] # "USED" \/ ticket[c][x] = "USED"
  BY <1>2 DEF Confirm, TypeOK
<1>3. ASSUME NEW d \in Checkout, NEW t \in Recent, CancelOrder(d, t)
      PROVE /\ \/ order'[c] # "CANCELLED_BY_CUSTOMER" \/ order[c] = "CANCELLED_BY_CUSTOMER"
               \/ ticket[c][x] # "USED"
            /\ ticket'[c][x] # "USED" \/ ticket[c][x] = "USED"
  BY <1>3 DEF CancelOrder, Refundable, TypeOK
<1>4. ASSUME NEW d \in Checkout, NEW z \in Unit, Validate(d, z)
      PROVE /\ UNCHANGED order
            /\ ticket'[c][x] = "USED" => ticket[c][x] \in {"ISSUED", "USED"}
  BY <1>4 DEF Validate, TypeOK
<1>5. ASSUME NEW e \in Event, CancelEvent(e)
      PROVE /\ order'[c] # "CANCELLED_BY_CUSTOMER" \/ order[c] = "CANCELLED_BY_CUSTOMER"
            /\ ticket'[c][x] # "USED" \/ ticket[c][x] = "USED"
  BY <1>5 DEF CancelEvent
<1>6. /\ \A d \in Checkout, s \in {"EXPIRED", "ABANDONED"} :
           Release(d, s) \/ Cancel(d) => UNCHANGED <<order, ticket>>
      /\ \A p \in Request, d \in Checkout, e \in Event, S \in SUBSET Unit :
           \A i \in Orderable(e) : CreateCommit(p, d, e, i, S) => UNCHANGED <<order, ticket>>
  BY DEF Release, Cancel, CreateCommit
<1>7. CASE \E d \in Checkout, t \in Recent : Confirm(d, t) \/ CancelOrder(d, t)
  BY <1>2, <1>3, <1>7
<1>8. CASE \E d \in Checkout, z \in Unit : Validate(d, z)
  BY <1>4, <1>8
<1>9. CASE \E e \in Event : CancelEvent(e)
  BY <1>5, <1>9
<1> QED BY <1>1, <1>6, <1>7, <1>8, <1>9, StepKinds

\* A customer's cancellation and the gate exclude each other, in either order.
THEOREM NoRefundOfAUsedTicket == Spec => UsedIsNeverRefunded
<1>1. TypeOK /\ StockInv /\ [Next]_vars =>
        [\A c \in Checkout, x \in Unit :
           /\ ticket[c][x] = "USED" => order'[c] # "CANCELLED_BY_CUSTOMER"
           /\ order[c] = "CANCELLED_BY_CUSTOMER" => ticket'[c][x] # "USED"]_vars
  <2> SUFFICES ASSUME TypeOK, StockInv, [Next]_vars, NEW c \in Checkout, NEW x \in Unit
               PROVE  /\ ticket[c][x] = "USED" => order'[c] # "CANCELLED_BY_CUSTOMER"
                      /\ order[c] = "CANCELLED_BY_CUSTOMER" => ticket'[c][x] # "USED"
    OBVIOUS
  <2>1. order[c] = "CANCELLED_BY_CUSTOMER" => ticket[c][x] \in {"NONE", "CANCELLED"}
    BY DEF StockInv, TicketsFollowOrder
  <2> QED BY <2>1, GateStep
<1> QED BY <1>1, TypeCorrect, StockIsKept, PTL DEF Spec, UsedIsNeverRefunded
-----------------------------------------------------------------------------
(* Whole lots *)

\* A selection is whole if nothing, or all of it, is there.
Issued(c) == {x \in Unit : ticket[c][x] # "NONE"}

\* Freeing units a checkout does not hold leaves it what it holds.
LEMMA FreedHeld ==
  ASSUME NEW d \in Checkout, NEW X, X \cap HeldBy(d) = {}, unit' = Freed(X)
  PROVE  HeldBy(d)' = HeldBy(d)
BY DEF HeldBy, Freed, Available

\* Two checkouts never hold the same unit, and a closed one holds none.
LEMMA HeldApart ==
  ASSUME NEW c, NEW d, c # d
  PROVE  HeldBy(c) \cap HeldBy(d) = {}
BY DEF HeldBy

\* A checkout that is not active, or none, holds no unit.
LEMMA ClosedHoldsNone ==
  ASSUME TypeOK, StockInv, NEW c \in Checkout \cup {Null}, c # Null => ~Active(c)
  PROVE  HeldBy(c) = {}
BY DEF HeldBy, StockInv, HeldByActive

\* What a commit of create() does to the units: the new checkout holds what
\* was picked, the one found nothing, and the others what they held.
LEMMA CommitUnits ==
  ASSUME TypeOK, StockInv, NEW p \in Request, NEW c \in Checkout, NEW e \in Event,
         NEW i \in Orderable(e), NEW S \in SUBSET Unit, CreateCommit(p, c, e, i, S)
  PROVE  /\ HeldBy(c)' = S
         /\ \A d \in Checkout \ {c} :
              HeldBy(d)' = IF d = create[p].found THEN {} ELSE HeldBy(d)
<1> DEFINE old == HeldBy(create[p].found)
<1>1. \A x \in Unit : unit'[x] = IF x \in S THEN [status |-> "HELD", checkout |-> c]
                                 ELSE IF x \in old THEN Available ELSE unit[x]
  BY DEF CreateCommit, Freed
<1>2. S \subseteq AvailableUnits \cup old
  BY DEF CreateCommit
<1>3. checkout[c].status = "ABSENT" /\ create[p].found # c
  BY CommitRows
<1>4. HeldBy(c) = {}
  BY <1>3, ClosedHoldsNone DEF Active
<1>5. HeldBy(c)' = S
  BY <1>1, <1>4 DEF HeldBy, Available
<1>6. ASSUME NEW d \in Checkout \ {c}
      PROVE  HeldBy(d)' = IF d = create[p].found THEN {} ELSE HeldBy(d)
  <2>1. CASE d = create[p].found
    BY <1>1, <2>1 DEF HeldBy, Available
  <2>2. CASE d # create[p].found
    <3>1. S \cap HeldBy(d) = {} /\ old \cap HeldBy(d) = {}
      BY <1>2, <2>2, HeldApart DEF AvailableUnits, HeldBy
    <3> QED BY <1>1, <2>2, <3>1 DEF HeldBy, Available
  <2> QED BY <2>1, <2>2
<1> QED BY <1>5, <1>6

\* The tickets a confirmation issues are the units the checkout held, and it
\* takes none of another's.
LEMMA ConfirmUnits ==
  ASSUME TypeOK, StockInv, NEW c \in Checkout, NEW t \in Recent, Confirm(c, t)
  PROVE  /\ Issued(c)' = HeldBy(c) /\ HeldBy(c)' = {}
         /\ \A d \in Checkout \ {c} : HeldBy(d)' = HeldBy(d) /\ Issued(d)' = Issued(d)
<1>1. \A x \in Unit : unit'[x] = IF x \in HeldBy(c)
                                 THEN [status |-> "SOLD", checkout |-> Null] ELSE unit[x]
  BY DEF Confirm
<1>2. \A x \in Unit : unit[x].checkout = c <=> x \in HeldBy(c)
  BY ReservationsAssumption DEF StockInv, HeldByActive, HeldBy, TypeOK
<1>3. \A x \in HeldBy(c) : checkout[c].items[TypeOf[x]] > 0
  BY DEF StockInv, HeldIsWanted, HeldBy
<1>4. \A x \in Unit : ticket'[c][x] = IF x \in HeldBy(c) THEN "ISSUED" ELSE "NONE"
  BY <1>2, <1>3 DEF Confirm, TypeOK
<1>5. Issued(c)' = HeldBy(c)
  BY <1>4 DEF Issued, HeldBy
<1>6. ASSUME NEW d \in Checkout \ {c} PROVE HeldBy(d)' = HeldBy(d) /\ Issued(d)' = Issued(d)
  <2>1. HeldBy(c) \cap HeldBy(d) = {}
    BY HeldApart
  <2>2. ticket'[d] = ticket[d]
    BY DEF Confirm, TypeOK
  <2> QED BY <1>1, <2>1, <2>2 DEF HeldBy, Issued
<1>7. HeldBy(c)' = {}
  BY <1>1 DEF HeldBy
<1> QED BY <1>5, <1>6, <1>7

\* What keeps selections whole: a checkout that is active holds what it held
\* or a pick of what it asks for, and an order has its tickets or is new and
\* issues what the checkout held.
LEMMA WholeKept ==
  ASSUME AllOrNothing,
         \A d \in Checkout : checkout'[d].status = "ACTIVE" =>
           \/ Active(d) /\ HeldBy(d)' = HeldBy(d) /\ checkout'[d].items = checkout[d].items
           \/ Picks(HeldBy(d)', checkout'[d].items),
         \A d \in Checkout : order'[d] # "NONE" =>
           /\ checkout'[d].items = checkout[d].items
           /\ \/ order[d] # "NONE" /\ Issued(d)' = Issued(d)
              \/ Active(d) /\ Issued(d)' = HeldBy(d)
  PROVE  AllOrNothing'
<1> SUFFICES ASSUME NEW d \in Checkout, NEW y \in TicketType
    PROVE  /\ checkout'[d].status = "ACTIVE" =>
                Cardinality(OfType(HeldBy(d)', y)) = checkout'[d].items[y]
           /\ order'[d] # "NONE" =>
                Cardinality(OfType(Issued(d)', y)) = checkout'[d].items[y]
  BY DEF AllOrNothing, Active, Issued, OfType
<1>1. /\ Active(d) => Cardinality(OfType(HeldBy(d), y)) = checkout[d].items[y]
      /\ order[d] # "NONE" => Cardinality(OfType(Issued(d), y)) = checkout[d].items[y]
  BY DEF AllOrNothing, Issued
<1>2. ASSUME checkout'[d].status = "ACTIVE"
      PROVE  Cardinality(OfType(HeldBy(d)', y)) = checkout'[d].items[y]
  BY <1>1, <1>2 DEF Picks
<1>3. ASSUME order'[d] # "NONE"
      PROVE  Cardinality(OfType(Issued(d)', y)) = checkout'[d].items[y]
  BY <1>1, <1>3
<1> QED BY <1>2, <1>3

\* A step that moves no unit, order or ticket keeps selections whole.
LEMMA QuietWhole ==
  ASSUME AllOrNothing, UNCHANGED <<unit, order, ticket>>, RowsKept
  PROVE  AllOrNothing'
<1>1. \A d \in Checkout : HeldBy(d)' = HeldBy(d) /\ Issued(d)' = Issued(d)
  BY DEF HeldBy, Issued
<1> QED BY <1>1, WholeKept DEF RowsKept, Active

\* A release frees the whole of a selection.
LEMMA ReleaseWhole ==
  ASSUME TypeOK, AllOrNothing, NEW c \in Checkout,
         NEW s \in {"EXPIRED", "ABANDONED", "CANCELLED"}, ReleaseAs(c, s),
         UNCHANGED <<order, ticket, idempotency>>
  PROVE  AllOrNothing'
<1>1. RowsKept
  BY ReleaseRows
<1>2. CASE Active(c)
  <2>1. checkout' = [checkout EXCEPT ![c].status = s] /\ unit' = Freed(HeldBy(c))
    BY <1>2 DEF ReleaseAs
  <2>2. checkout'[c].status # "ACTIVE"
    BY <2>1, StatusWrite
  <2>3. \A d \in Checkout \ {c} : HeldBy(d)' = HeldBy(d)
    BY <2>1, FreedHeld, HeldApart
  <2>4. \A d \in Checkout : Issued(d)' = Issued(d)
    BY DEF Issued
  <2> QED BY <1>1, <2>2, <2>3, <2>4, WholeKept DEF RowsKept, Active
<1>3. CASE ~Active(c)
  BY <1>1, <1>3, QuietWhole DEF ReleaseAs
<1> QED BY <1>2, <1>3

\* The commit of create() holds the whole of a selection.
LEMMA CommitWhole ==
  ASSUME TypeOK, StockInv, AllOrNothing, NEW p \in Request, NEW c \in Checkout, NEW e \in Event,
         NEW i \in Orderable(e), NEW S \in SUBSET Unit, CreateCommit(p, c, e, i, S)
  PROVE  AllOrNothing'
<1>1. Picks(HeldBy(c)', checkout'[c].items)
  <2>1. Picks(S, i)
    BY DEF CreateCommit
  <2> QED BY <2>1, CommitRows, CommitUnits
<1>2. \A d \in Checkout \ {c} : checkout'[d].status = "ACTIVE" =>
        Active(d) /\ HeldBy(d)' = HeldBy(d) /\ checkout'[d].items = checkout[d].items
  BY CommitRows, CommitUnits DEF Active
<1>3. \A d \in Checkout : order'[d] # "NONE" =>
        /\ order[d] # "NONE" /\ Issued(d)' = Issued(d)
        /\ checkout'[d].items = checkout[d].items
  <2>1. UNCHANGED <<order, ticket>>
    BY DEF CreateCommit
  <2>2. order[c] = "NONE"
    BY CommitRows DEF StockInv, OrderEndsCheckout
  <2> QED BY <2>1, <2>2, CommitRows DEF Issued
<1> QED BY <1>1, <1>2, <1>3, WholeKept

\* A cancelled order frees only sold units and keeps every ticket issued.
LEMMA CancelOrderUnits ==
  ASSUME TypeOK, StockInv, NEW c \in Checkout, NEW t \in Recent, CancelOrder(c, t)
  PROVE  \A d \in Checkout : HeldBy(d)' = HeldBy(d) /\ Issued(d)' = Issued(d)
<1> SUFFICES ASSUME NEW d \in Checkout
             PROVE  HeldBy(d)' = HeldBy(d) /\ Issued(d)' = Issued(d)
  OBVIOUS
<1> DEFINE X == {x \in Unit : ticket[c][x] # "NONE" /\ unit[x].status = "SOLD"}
<1>1. X \cap HeldBy(d) = {} /\ unit' = Freed(X)
  BY DEF CancelOrder, HeldBy
<1> HIDE DEF X
<1>2. HeldBy(d)' = HeldBy(d)
  BY <1>1, FreedHeld
<1>3. Issued(d)' = Issued(d)
  BY DEF CancelOrder, Issued, TypeOK
<1> QED BY <1>2, <1>3

\* The end of an event frees what its active checkouts hold, and nothing else.
LEMMA CancelEventUnits ==
  ASSUME TypeOK, StockInv, NEW e \in Event, CancelEvent(e)
  PROVE  \A d \in Checkout :
           /\ Issued(d)' = Issued(d)
           /\ HeldBy(d)' = IF Active(d) /\ checkout[d].event = e THEN {} ELSE HeldBy(d)
<1> SUFFICES ASSUME NEW d \in Checkout
             PROVE  /\ Issued(d)' = Issued(d)
                    /\ HeldBy(d)' = IF Active(d) /\ checkout[d].event = e THEN {} ELSE HeldBy(d)
  OBVIOUS
<1> DEFINE closed == {c \in Checkout : Active(c) /\ checkout[c].event = e}
           X == UNION {HeldBy(c) : c \in closed}
<1>1. unit' = Freed(X)
  BY DEF CancelEvent
<1>2. Issued(d)' = Issued(d)
  BY DEF CancelEvent, Issued
<1>3. CASE d \in closed
  <2>1. HeldBy(d) \subseteq X
    BY <1>3
  <2> HIDE DEF X
  <2>2. HeldBy(d)' = {}
    BY <1>1, <2>1 DEF HeldBy, Freed, Available
  <2> QED BY <1>2, <1>3, <2>2
<1>4. CASE d \notin closed
  <2>1. X \cap HeldBy(d) = {}
    BY <1>4, HeldApart
  <2> HIDE DEF X
  <2>2. HeldBy(d)' = HeldBy(d)
    BY <1>1, <2>1, FreedHeld
  <2> QED BY <1>2, <1>4, <2>2
<1> QED BY <1>3, <1>4

\* Whatever step is taken, selections stay whole.
LEMMA WholeStep ==
  ASSUME TypeOK, StockInv, AllOrNothing, [Next]_vars
  PROVE  AllOrNothing'
<1>1. CASE \E p \in Request, c \in Checkout, e \in Event, S \in SUBSET Unit :
             \E i \in Orderable(e) : CreateCommit(p, c, e, i, S)
  BY <1>1, CommitWhole
<1>2. CASE RowsKept /\ UNCHANGED <<unit, order, ticket>>
  BY <1>2, QuietWhole
<1>3. ASSUME NEW c \in Checkout, NEW s \in {"EXPIRED", "ABANDONED"}, Release(c, s)
      PROVE  AllOrNothing'
  BY <1>3, ReleaseWhole DEF Release
<1>4. ASSUME NEW c \in Checkout, Cancel(c) PROVE AllOrNothing'
  BY <1>4, ReleaseWhole DEF Cancel
<1>5. ASSUME NEW c \in Checkout, NEW t \in Recent, Confirm(c, t), RowsKept
      PROVE  AllOrNothing'
  <2>1. Active(c) /\ order[c] = "NONE" /\ \A d \in Checkout \ {c} : order'[d] = order[d]
    BY <1>5 DEF Confirm, Confirmable, TypeOK
  <2>2. checkout'[c].status = "CONFIRMED"
    BY <1>5, StatusWrite DEF Confirm
  <2> QED BY <1>5, <2>1, <2>2, ConfirmUnits, WholeKept DEF RowsKept, Active
<1>6. ASSUME NEW c \in Checkout, NEW t \in Recent, CancelOrder(c, t), RowsKept
      PROVE  AllOrNothing'
  <2>1. order[c] # "NONE" /\ \A d \in Checkout \ {c} : order'[d] = order[d]
    BY <1>6 DEF CancelOrder, Refundable, TypeOK
  <2> QED BY <1>6, <2>1, CancelOrderUnits, WholeKept DEF RowsKept, Active
<1>7. ASSUME NEW c \in Checkout, NEW x \in Unit, Validate(c, x), RowsKept
      PROVE  AllOrNothing'
  <2>1. UNCHANGED <<unit, order>>
    BY <1>7 DEF Validate
  <2>2. \A d \in Checkout : HeldBy(d)' = HeldBy(d) /\ Issued(d)' = Issued(d)
    BY <1>7 DEF Validate, HeldBy, Issued, TypeOK
  <2> QED BY <1>7, <2>1, <2>2, WholeKept DEF RowsKept, Active
<1>8. ASSUME NEW e \in Event, CancelEvent(e), RowsKept PROVE AllOrNothing'
  <2>1. \A d \in Checkout : order'[d] # "NONE" => order[d] # "NONE"
    BY <1>8 DEF CancelEvent
  <2>2. \A d \in Checkout : checkout'[d].status = "ACTIVE" =>
          ~(Active(d) /\ checkout[d].event = e)
    <3>1. \A d \in Checkout : checkout[d] \in CheckoutRow
      BY DEF TypeOK
    <3> QED BY <1>8, <3>1 DEF CancelEvent, CheckoutRow
  <2> QED BY <1>8, <2>1, <2>2, CancelEventUnits, WholeKept DEF RowsKept, Active
<1>9. \/ UNCHANGED <<unit, order, ticket>>
      \/ \E c \in Checkout, s \in {"EXPIRED", "ABANDONED"} : Release(c, s)
      \/ \E c \in Checkout : Cancel(c)
      \/ \E c \in Checkout, t \in Recent : Confirm(c, t) \/ CancelOrder(c, t)
      \/ \E c \in Checkout, x \in Unit : Validate(c, x)
      \/ \E e \in Event : CancelEvent(e)
      \/ \E p \in Request, c \in Checkout, e \in Event, S \in SUBSET Unit :
           \E i \in Orderable(e) : CreateCommit(p, c, e, i, S)
  BY StepKinds
<1> QED BY <1>1, <1>2, <1>3, <1>4, <1>5, <1>6, <1>7, <1>8, <1>9, OtherRows

\* A checkout holds the whole of its selection or nothing, and an order has a
\* ticket for each unit of it, however many requests, jobs and cancellations
\* run at once.
THEOREM SelectionsStayWhole == Spec => []AllOrNothing
<1>1. Init => AllOrNothing
  BY DEF Init, AllOrNothing, AbsentRow, Active
<1> QED BY <1>1, WholeStep, TypeCorrect, StockIsKept, PTL DEF Spec
-----------------------------------------------------------------------------
(* The tables implement the abstract stock *)

\* The claims' states and lots are functions of the checkouts.
LEMMA ClaimsType == /\ ClaimState = [c \in Checkout |-> ClaimState[c]]
                    /\ ClaimLot = [c \in Checkout |-> ClaimLot[c]]
                    /\ \A c \in Checkout : ClaimLot[c] = HeldBy(c) \cup {x \in Unit : Owns(c, x)}
BY DEF ClaimState, ClaimLot

\* The same of the state a step leads to.
LEMMA ClaimsAfter == /\ ClaimState' = [c \in Checkout |-> ClaimState'[c]]
                     /\ ClaimLot' = [c \in Checkout |-> ClaimLot'[c]]
BY DEF ClaimState, ClaimLot

\* A step that changes no claim's state and no claim's lot is a stutter.
LEMMA SameClaims ==
  ASSUME \A c \in Checkout : ClaimState'[c] = ClaimState[c] /\ ClaimLot'[c] = ClaimLot[c]
  PROVE  UNCHANGED <<ClaimState, ClaimLot>>
BY DEF ClaimState, ClaimLot

\* A claim's state depends on its order and on whether its row is there and active.
LEMMA SameState ==
  ASSUME NEW c \in Checkout, order'[c] = order[c],
         checkout'[c].status = "ABSENT" <=> checkout[c].status = "ABSENT",
         checkout'[c].status = "ACTIVE" <=> checkout[c].status = "ACTIVE"
  PROVE  ClaimState'[c] = ClaimState[c]
BY DEF ClaimState, Standing, Active

\* Its lot, on what it holds, its order's standing and its tickets.
LEMMA SameLot ==
  ASSUME NEW c \in Checkout, HeldBy(c)' = HeldBy(c), Standing(c)' <=> Standing(c),
         Issued(c)' = Issued(c)
  PROVE  ClaimLot'[c] = ClaimLot[c]
BY DEF ClaimLot, Owns, Issued

\* An active checkout is a holder; what it holds is its lot.
LEMMA ActiveClaim ==
  ASSUME TypeOK, StockInv, NEW c \in Checkout, Active(c)
  PROVE  /\ ClaimState[c] = "holding" /\ order[c] = "NONE" /\ ~Standing(c)
         /\ ClaimLot[c] = HeldBy(c)
<1>1. order[c] = "NONE"
  BY DEF StockInv, OrderEndsCheckout, Active
<1> QED BY <1>1 DEF ClaimState, ClaimLot, Standing, Owns, Active

\* The units of a standing order are sold: nobody holds them.
LEMMA OwnedNotHeld ==
  ASSUME StockInv, NEW c \in Checkout, NEW x \in Unit, Owns(c, x)
  PROVE  unit[x].status = "SOLD"
BY DEF StockInv, SoldToOneOrder

\* Closing active checkouts (D) drops their lots, whole.
LEMMA DropStep ==
  ASSUME TypeOK, StockInv, NEW D \in SUBSET Checkout,
         \A d \in D : Active(d) /\ order'[d] = "NONE" /\ HeldBy(d)' = {}
                      /\ checkout'[d].status \notin {"ABSENT", "ACTIVE"},
         \A d \in Checkout \ D :
           /\ ClaimState'[d] = ClaimState[d] /\ ClaimLot'[d] = ClaimLot[d]
  PROVE  Abstract!Drop(D) /\ D \in SUBSET Abstract!Holding
<1>1. D \in SUBSET Abstract!Holding
  BY ActiveClaim DEF Abstract!Holding
<1>2. \A d \in D : ClaimState'[d] = "ended" /\ ClaimLot'[d] = {}
  BY DEF ClaimState, ClaimLot, Standing, Owns, Active
<1>3. ClaimState' = [c \in Checkout |-> IF c \in D THEN "ended" ELSE ClaimState[c]]
  <2>1. \A c \in Checkout : ClaimState'[c] = IF c \in D THEN "ended" ELSE ClaimState[c]
    BY <1>2
  <2> QED BY <2>1, ClaimsAfter
<1>4. ClaimLot' = [c \in Checkout |-> IF c \in D THEN {} ELSE ClaimLot[c]]
  <2>1. \A c \in Checkout : ClaimLot'[c] = IF c \in D THEN {} ELSE ClaimLot[c]
    BY <1>2
  <2> QED BY <2>1, ClaimsAfter
<1> QED BY <1>1, <1>3, <1>4 DEF Abstract!Drop

\* release() drops the lot of the one checkout it closes.
LEMMA ReleaseRefines ==
  ASSUME TypeOK, StockInv, NEW c \in Checkout,
         NEW s \in {"EXPIRED", "ABANDONED", "CANCELLED"}, ReleaseAs(c, s),
         UNCHANGED <<order, ticket>>
  PROVE  [Abstract!Next]_<<ClaimState, ClaimLot>>
<1>1. \A d \in Checkout : (Standing(d)' <=> Standing(d)) /\ Issued(d)' = Issued(d)
  BY DEF Standing, Issued
<1>2. CASE Active(c)
  <2>1. checkout' = [checkout EXCEPT ![c].status = s] /\ unit' = Freed(HeldBy(c))
    BY <1>2 DEF ReleaseAs
  <2>2. HeldBy(c)' = {}
    BY <2>1 DEF HeldBy, Freed, Available
  <2>3. order'[c] = "NONE" /\ checkout'[c].status \notin {"ABSENT", "ACTIVE"}
    BY <1>2, <2>1, StatusWrite, ActiveClaim
  <2>4. ASSUME NEW d \in Checkout \ {c}
        PROVE  ClaimState'[d] = ClaimState[d] /\ ClaimLot'[d] = ClaimLot[d]
    <3>1. HeldBy(d)' = HeldBy(d)
      BY <2>1, FreedHeld, HeldApart
    <3>2. checkout'[d].status = checkout[d].status
      BY <2>1, StatusWrite
    <3> QED BY <1>1, <3>1, <3>2, SameState, SameLot
  <2>5. \E D \in SUBSET Abstract!Holding : Abstract!Drop(D)
    <3> DEFINE D == {c}
    <3>1. /\ D \in SUBSET Checkout
          /\ \A d \in D : Active(d) /\ order'[d] = "NONE" /\ HeldBy(d)' = {}
                          /\ checkout'[d].status \notin {"ABSENT", "ACTIVE"}
          /\ \A d \in Checkout \ D :
               ClaimState'[d] = ClaimState[d] /\ ClaimLot'[d] = ClaimLot[d]
      BY <1>2, <2>2, <2>3, <2>4
    <3> HIDE DEF D
    <3> QED BY <3>1, DropStep
  <2> QED BY <2>5 DEF Abstract!Next
<1>3. CASE ~Active(c)
  <2>1. UNCHANGED <<checkout, unit>>
    BY <1>3 DEF ReleaseAs
  <2>2. \A d \in Checkout : HeldBy(d)' = HeldBy(d)
    BY <2>1 DEF HeldBy
  <2> QED BY <1>1, <2>1, <2>2, SameState, SameLot, SameClaims
<1> QED BY <1>2, <1>3

\* The end of an event drops the lots of its active checkouts; its orders,
\* confirmed or cancelled by it, keep theirs.
LEMMA CancelEventRefines ==
  ASSUME TypeOK, StockInv, NEW e \in Event, CancelEvent(e)
  PROVE  [Abstract!Next]_<<ClaimState, ClaimLot>>
<1> DEFINE closed == {c \in Checkout : Active(c) /\ checkout[c].event = e}
<1>1. \A c \in Checkout :
        /\ (Standing(c)' <=> Standing(c)) /\ Issued(c)' = Issued(c)
        /\ order'[c] = "CANCELLED_BY_CUSTOMER" <=> order[c] = "CANCELLED_BY_CUSTOMER"
  BY CancelEventUnits DEF CancelEvent, Standing
<1>2. \A c \in Checkout :
        /\ c \in closed => checkout'[c].status = "CANCELLED" /\ HeldBy(c)' = {}
        /\ c \notin closed => checkout'[c].status = checkout[c].status /\ HeldBy(c)' = HeldBy(c)
  <2>1. \A c \in Checkout : checkout[c] \in CheckoutRow
    BY DEF TypeOK
  <2> QED BY <2>1, CancelEventUnits DEF CancelEvent, CheckoutRow
<1>3. \A c \in closed : order'[c] = "NONE"
  BY ActiveClaim DEF CancelEvent
<1>4. \A c \in Checkout \ closed :
        ClaimState'[c] = ClaimState[c] /\ ClaimLot'[c] = ClaimLot[c]
  BY <1>1, <1>2, SameLot DEF ClaimState, Active
<1>5. \E D \in SUBSET Abstract!Holding : Abstract!Drop(D)
  <2>1. /\ closed \in SUBSET Checkout
        /\ \A d \in closed : Active(d) /\ order'[d] = "NONE" /\ HeldBy(d)' = {}
                             /\ checkout'[d].status \notin {"ABSENT", "ACTIVE"}
    BY <1>2, <1>3
  <2> HIDE DEF closed
  <2> QED BY <1>4, <2>1, DropStep
<1> QED BY <1>5 DEF Abstract!Next

\* confirm() sells the lot of the checkout it confirms.
LEMMA ConfirmRefines ==
  ASSUME TypeOK, StockInv, NEW c \in Checkout, NEW t \in Recent, Confirm(c, t)
  PROVE  [Abstract!Next]_<<ClaimState, ClaimLot>>
<1>1. Active(c) /\ order'[c] = "CONFIRMED" /\ \A d \in Checkout \ {c} : order'[d] = order[d]
  BY DEF Confirm, Confirmable, TypeOK
<1>2. \A d \in Checkout \ {c} : checkout'[d].status = checkout[d].status
  BY StatusWrite DEF Confirm
<1>3. ClaimState[c] = "holding" /\ ClaimLot[c] = HeldBy(c)
  BY <1>1, ActiveClaim
<1>4. ClaimState'[c] = "sold"
  BY <1>1 DEF ClaimState, Standing
<1>5. ClaimLot'[c] = HeldBy(c)
  BY <1>1, ConfirmUnits DEF ClaimLot, Owns, Standing, Issued
<1>6. \A d \in Checkout \ {c} : ClaimState'[d] = ClaimState[d] /\ ClaimLot'[d] = ClaimLot[d]
  BY <1>1, <1>2, ConfirmUnits, SameState, SameLot DEF Standing
<1>7. ClaimLot' = ClaimLot
  BY <1>3, <1>5, <1>6 DEF ClaimLot
<1>8. ClaimState' = [ClaimState EXCEPT ![c] = "sold"]
  BY <1>4, <1>6 DEF ClaimState
<1>9. Abstract!Sell(c)
  BY <1>3, <1>7, <1>8 DEF Abstract!Sell
<1> QED BY <1>9 DEF Abstract!Next

\* A cancelled order returns the whole lot of its checkout.
LEMMA CancelOrderRefines ==
  ASSUME TypeOK, StockInv, NEW c \in Checkout, NEW t \in Recent, CancelOrder(c, t)
  PROVE  [Abstract!Next]_<<ClaimState, ClaimLot>>
<1>1. /\ order[c] = "CONFIRMED" /\ order'[c] = "CANCELLED_BY_CUSTOMER"
      /\ \A d \in Checkout \ {c} : order'[d] = order[d]
      /\ UNCHANGED checkout
  BY DEF CancelOrder, Refundable, TypeOK
<1>2. ~Active(c)
  BY <1>1 DEF StockInv, OrderEndsCheckout, Active
<1>3. ClaimState[c] = "sold" /\ ClaimState'[c] = "ended"
  BY <1>1 DEF ClaimState, Standing
<1>4. HeldBy(c)' = {}
  BY <1>2, ClosedHoldsNone, CancelOrderUnits
<1>5. ClaimLot'[c] = {}
  BY <1>1, <1>4 DEF ClaimLot, Owns, Standing
<1>6. \A d \in Checkout \ {c} : ClaimState'[d] = ClaimState[d] /\ ClaimLot'[d] = ClaimLot[d]
  BY <1>1, CancelOrderUnits, SameState, SameLot DEF Standing
<1>7. ClaimState' = [ClaimState EXCEPT ![c] = "ended"] /\ ClaimLot' = [ClaimLot EXCEPT ![c] = {}]
  BY <1>3, <1>5, <1>6 DEF ClaimState, ClaimLot
<1>8. Abstract!Return(c)
  BY <1>3, <1>7 DEF Abstract!Return
<1> QED BY <1>8 DEF Abstract!Next

\* A request for something picks something.
LEMMA PickedIsSome ==
  ASSUME NEW e \in Event, NEW i \in Orderable(e), NEW S \in SUBSET Unit, Picks(S, i)
  PROVE  S # {}
<1>1. i \in Items /\ i # NoItems
  BY OrderableType DEF Orderable
<1>2. PICK y \in TicketType : i[y] # 0
  BY <1>1 DEF Items, NoItems
<1>3. Cardinality(OfType(S, y)) # 0
  BY <1>2 DEF Picks
<1>4. OfType(S, y) # {}
  BY <1>3, FS_EmptySet
<1> QED BY <1>4 DEF OfType

\* A commit of create() takes a lot for a new claim; the stale checkout it
\* found drops its own, unless it has ended, or was sold, meanwhile.
LEMMA CommitRefines ==
  ASSUME TypeOK, StockInv, NEW p \in Request, NEW c \in Checkout, NEW e \in Event,
         NEW i \in Orderable(e), NEW S \in SUBSET Unit, CreateCommit(p, c, e, i, S)
  PROVE  [Abstract!Next]_<<ClaimState, ClaimLot>>
<1> DEFINE f == create[p].found
           D == {d \in Checkout : d = f /\ Active(d)}
<1>1. /\ f # c /\ checkout[c].status = "ABSENT" /\ checkout'[c].status = "ACTIVE"
      /\ HeldBy(c)' = S
      /\ \A d \in Checkout \ {c} : HeldBy(d)' = IF d = f THEN {} ELSE HeldBy(d)
  BY CommitRows, CommitUnits
<1>2. \A d \in Checkout \ {c} :
        /\ d # f => checkout'[d].status = checkout[d].status
        /\ d = f => /\ checkout'[d].status \in {"EXPIRED", "ABANDONED"}
                    /\ checkout[d].status # "ABSENT"
  BY CommitRows
<1>3. UNCHANGED <<order, ticket>> /\ S \subseteq AvailableUnits \cup HeldBy(f) /\ Picks(S, i)
  BY DEF CreateCommit
<1>4. order[c] = "NONE"
  BY <1>1 DEF StockInv, OrderEndsCheckout
<1>5. ClaimState[c] = "new" /\ ClaimState'[c] = "holding" /\ ClaimLot'[c] = S
  BY <1>1, <1>3, <1>4 DEF ClaimState, ClaimLot, Standing, Owns, Active
<1>6. D \in SUBSET Abstract!Holding /\ c \notin D
  BY <1>1, ActiveClaim DEF Abstract!Holding, Active
<1>7. \A d \in D : ClaimState'[d] = "ended" /\ ClaimLot'[d] = {}
  <2> SUFFICES ASSUME NEW d \in D PROVE ClaimState'[d] = "ended" /\ ClaimLot'[d] = {}
    OBVIOUS
  <2>1. d \in Checkout \ {c} /\ d = f /\ order'[d] = "NONE"
    BY <1>3, <1>6, ActiveClaim
  <2> QED BY <1>1, <1>2, <2>1 DEF ClaimState, ClaimLot, Standing, Owns, Active
<1>8. ASSUME NEW d \in Checkout \ {c}, d \notin D
      PROVE  ClaimState'[d] = ClaimState[d] /\ ClaimLot'[d] = ClaimLot[d]
  <2>1. (Standing(d)' <=> Standing(d)) /\ Issued(d)' = Issued(d)
    BY <1>3 DEF Standing, Issued
  <2>2. CASE d = f
    <3>1. ~Active(d) /\ HeldBy(d) = {}
      BY <1>8, <2>2, ClosedHoldsNone
    <3> QED BY <1>1, <1>2, <1>3, <2>1, <2>2, <3>1, SameState, SameLot DEF Active
  <2>3. CASE d # f
    BY <1>1, <1>2, <1>3, <2>1, <2>3, SameState, SameLot
  <2> QED BY <2>2, <2>3
<1>9. \A d \in Checkout \ D : ClaimLot[d] \cap S = {}
  <2> SUFFICES ASSUME NEW d \in Checkout \ D, NEW x \in S, x \in ClaimLot[d] PROVE FALSE
    OBVIOUS
  <2>1. unit[x].status = "AVAILABLE" \/ x \in HeldBy(f)
    BY <1>3 DEF AvailableUnits
  <2>2. CASE Owns(d, x)
    BY <2>1, <2>2, OwnedNotHeld DEF HeldBy
  <2>3. CASE x \in HeldBy(d)
    <3>1. d = f
      BY <2>1, <2>3 DEF HeldBy
    <3> QED BY <2>3, <3>1, ClosedHoldsNone
  <2> QED BY <2>2, <2>3, ClaimsType
<1>10. ClaimState' = [d \in Checkout |->
                        IF d = c THEN "holding" ELSE IF d \in D THEN "ended" ELSE ClaimState[d]]
  BY <1>5, <1>7, <1>8 DEF ClaimState
<1>11. ClaimLot' = [d \in Checkout |->
                      IF d = c THEN S ELSE IF d \in D THEN {} ELSE ClaimLot[d]]
  BY <1>5, <1>7, <1>8 DEF ClaimLot
<1>12. S # {}
  BY <1>3, PickedIsSome
<1> HIDE DEF D
<1>13. Abstract!Take(c, S, D)
  BY <1>5, <1>9, <1>10, <1>11, <1>12 DEF Abstract!Take
<1> QED BY <1>6, <1>13 DEF Abstract!Next

\* Steps that move no claim: heartbeats, decisions, transactions that open or
\* end in nothing, the gate, the clock and the failures.
LEMMA QuietRefines ==
  ASSUME TypeOK, StockInv, [Next]_vars, UNCHANGED <<unit, order, ticket>>
  PROVE  \/ UNCHANGED <<ClaimState, ClaimLot>>
         \/ \E c \in Checkout, s \in {"EXPIRED", "ABANDONED"} : Release(c, s)
         \/ \E c \in Checkout : Cancel(c)
         \/ \E c \in Checkout, t \in Recent : Confirm(c, t) \/ CancelOrder(c, t)
         \/ \E e \in Event : CancelEvent(e)
         \/ \E p \in Request, c \in Checkout, e \in Event, S \in SUBSET Unit :
              \E i \in Orderable(e) : CreateCommit(p, c, e, i, S)
<1>1. \A d \in Checkout :
        HeldBy(d)' = HeldBy(d) /\ (Standing(d)' <=> Standing(d)) /\ Issued(d)' = Issued(d)
  BY DEF HeldBy, Standing, Issued
<1>2. ASSUME \A d \in Checkout : checkout'[d].status = checkout[d].status
      PROVE  UNCHANGED <<ClaimState, ClaimLot>>
  BY <1>1, <1>2, SameState, SameLot, SameClaims
<1>3. ASSUME NEW c \in Checkout, NEW t \in Recent, Heartbeat(c, t)
      PROVE  \A d \in Checkout : checkout'[d].status = checkout[d].status
  <2>1. CASE Stale(c, t)
    BY <1>3, <2>1 DEF Heartbeat
  <2>2. CASE ~Stale(c, t)
    <3>1. checkout' = [checkout EXCEPT ![c].lastHeartbeatAt = t]
      BY <1>3, <2>2 DEF Heartbeat
    <3> QED BY <3>1, StatusWrite
  <2> QED BY <2>1, <2>2
<1>4. ASSUME UNCHANGED checkout PROVE UNCHANGED <<ClaimState, ClaimLot>>
  BY <1>2, <1>4
<1> QED
  BY <1>2, <1>3, <1>4
     DEF Next, vars, CreateFind, CreateAbort, SeeStale, ReleaseStale, Validate, Tick,
         ReleaseFails, Crash

\* A validation at the gate changes no claim.
LEMMA ValidateRefines ==
  ASSUME TypeOK, NEW c \in Checkout, NEW x \in Unit, Validate(c, x)
  PROVE  UNCHANGED <<ClaimState, ClaimLot>>
<1>1. UNCHANGED <<unit, order, checkout>>
  BY DEF Validate
<1>2. \A d \in Checkout :
        HeldBy(d)' = HeldBy(d) /\ (Standing(d)' <=> Standing(d)) /\ Issued(d)' = Issued(d)
  BY DEF Validate, HeldBy, Standing, Issued, TypeOK
<1> QED BY <1>1, <1>2, SameState, SameLot, SameClaims

\* Every step of the tables is a step or a stutter of the abstract stock.
LEMMA StepRefines ==
  ASSUME TypeOK, StockInv, [Next]_vars
  PROVE  [Abstract!Next]_<<ClaimState, ClaimLot>>
<1>1. \A c \in Checkout, s \in {"EXPIRED", "ABANDONED"} :
        Release(c, s) => [Abstract!Next]_<<ClaimState, ClaimLot>>
  BY ReleaseRefines DEF Release
<1>2. \A c \in Checkout : Cancel(c) => [Abstract!Next]_<<ClaimState, ClaimLot>>
  BY ReleaseRefines DEF Cancel
<1>3. \A c \in Checkout, t \in Recent :
        Confirm(c, t) \/ CancelOrder(c, t) => [Abstract!Next]_<<ClaimState, ClaimLot>>
  BY ConfirmRefines, CancelOrderRefines
<1>4. \A c \in Checkout, x \in Unit :
        Validate(c, x) => [Abstract!Next]_<<ClaimState, ClaimLot>>
  BY ValidateRefines
<1>5. \A e \in Event : CancelEvent(e) => [Abstract!Next]_<<ClaimState, ClaimLot>>
  BY CancelEventRefines
<1>6. \A p \in Request, c \in Checkout, e \in Event, S \in SUBSET Unit :
        \A i \in Orderable(e) :
          CreateCommit(p, c, e, i, S) => [Abstract!Next]_<<ClaimState, ClaimLot>>
  BY CommitRefines
<1> QED BY <1>1, <1>2, <1>3, <1>4, <1>5, <1>6, StepKinds, QuietRefines

\* The empty tables are the abstract stock's initial state.
LEMMA InitRefines == Init => Abstract!Init
<1> SUFFICES ASSUME Init PROVE Abstract!Init
  OBVIOUS
<1>1. \A c \in Checkout : ClaimState[c] = "new" /\ ClaimLot[c] = {}
  BY DEF Init, ClaimState, ClaimLot, Standing, Owns, HeldBy, Active, AbsentRow, Available
<1> QED BY <1>1 DEF Abstract!Init, ClaimState, ClaimLot

\* The tables, jobs and handlers implement the abstract stock: every step
\* takes, sells or returns one lot whole, drops lots of holders, or moves none.
THEOREM TablesImplementStock == Spec => ImplementsStock
<1>1. TypeOK /\ StockInv /\ [Next]_vars => [Abstract!Next]_<<ClaimState, ClaimLot>>
  BY StepRefines
<1> QED
  BY <1>1, InitRefines, TypeCorrect, StockIsKept, PTL DEF Spec, ImplementsStock, Abstract!Spec
-----------------------------------------------------------------------------
(* What the abstract stock promises *)

\* One step of the abstract stock keeps lots apart, and with claims under way.
LEMMA AbstractStep ==
  ASSUME Abstract!TypeOK, Abstract!Disjoint, [Abstract!Next]_<<ClaimState, ClaimLot>>
  PROVE  Abstract!TypeOK' /\ Abstract!Disjoint'
<1> USE DEF Abstract!TypeOK, Abstract!Disjoint
<1>1. ASSUME NEW D \in SUBSET Abstract!Holding, Abstract!Drop(D)
      PROVE  Abstract!TypeOK' /\ Abstract!Disjoint'
  BY <1>1 DEF Abstract!Drop
<1>2. ASSUME NEW c \in Checkout, NEW S \in SUBSET Unit, NEW D \in SUBSET Abstract!Holding,
             Abstract!Take(c, S, D)
      PROVE  Abstract!TypeOK' /\ Abstract!Disjoint'
  <2>1. \A d \in Checkout : ClaimLot'[d] = IF d = c THEN S ELSE IF d \in D THEN {} ELSE ClaimLot[d]
    BY <1>2 DEF Abstract!Take
  <2>2. \A d \in Checkout :
          ClaimState'[d] = IF d = c THEN "holding" ELSE IF d \in D THEN "ended" ELSE ClaimState[d]
    BY <1>2 DEF Abstract!Take
  <2>3. \A d \in Checkout \ D : ClaimLot[d] \cap S = {}
    BY <1>2 DEF Abstract!Take
  <2>4. Abstract!TypeOK'
    BY <1>2 DEF Abstract!Take
  <2>5. Abstract!Disjoint'
    BY <2>1, <2>2, <2>3
  <2> QED BY <2>4, <2>5
<1>3. ASSUME NEW c \in Checkout, Abstract!Sell(c)
      PROVE  Abstract!TypeOK' /\ Abstract!Disjoint'
  BY <1>3 DEF Abstract!Sell
<1>4. ASSUME NEW c \in Checkout, Abstract!Return(c)
      PROVE  Abstract!TypeOK' /\ Abstract!Disjoint'
  BY <1>4 DEF Abstract!Return
<1>5. CASE UNCHANGED <<ClaimState, ClaimLot>>
  BY <1>5
<1> QED BY <1>1, <1>2, <1>3, <1>4, <1>5 DEF Abstract!Next

\* Read back from the abstract stock: no unit, held or sold, is ever in the
\* lots of two checkouts, and a checkout that ended owns none.
THEOREM LotsAreDisjoint == Spec => []Abstract!Disjoint
<1>1. Abstract!Init => Abstract!TypeOK /\ Abstract!Disjoint
  BY DEF Abstract!Init, Abstract!TypeOK, Abstract!Disjoint
<1>2. Abstract!TypeOK /\ Abstract!Disjoint /\ [Abstract!Next]_<<ClaimState, ClaimLot>> =>
        Abstract!TypeOK' /\ Abstract!Disjoint'
  BY AbstractStep
<1> QED BY <1>1, <1>2, TablesImplementStock, PTL DEF ImplementsStock, Abstract!Spec
=============================================================================
