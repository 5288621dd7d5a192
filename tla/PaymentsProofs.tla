---------------------------- MODULE PaymentsProofs ----------------------------
(***************************************************************************)
(* For every number of buyers' requests, webhook deliveries, sessions and  *)
(* failures: the state is well typed, orders are made only from payments   *)
(* that succeeded, and no answered webhook has dropped a payment.          *)
(*                                                                         *)
(* PaymentInv carries the induction.  A webhook that is answered without   *)
(* an order has run Reverse, which refunds only a payment that succeeded:  *)
(* so handlers must remember that their event was sent, and a sent event   *)
(* that the intent succeeded, which no step takes back.  A webhook that    *)
(* finds no checkout would be answered at once: so a browser must never    *)
(* have a secret whose reference is not stored yet.                        *)
(***************************************************************************)
EXTENDS Payments, TLAPS

USE PaymentsAssumption DEF PaymentsAssumption, Handler

\* Every step keeps the state well typed.
LEMMA TypeStep ==
  ASSUME TypeOK, [Next]_vars
  PROVE  TypeOK'
<1> USE DEF TypeOK, Goto, stripe, rows, GatewayCancel, Answer, Refused
<1>1. CASE Pay  BY <1>1 DEF Pay
<1>2. ASSUME NEW s \in Session, \/ SessionOpen(s) \/ SessionCreate(s)
                                \/ SessionStore(s) \/ SessionFails(s)
      PROVE  TypeOK'
  <2>1. CASE SessionOpen(s)  BY <2>1 DEF SessionOpen, Resume
  <2>2. CASE SessionCreate(s)  BY <2>2 DEF SessionCreate
  <2>3. CASE SessionStore(s)
    <3>1. /\ reference' \in {"null", "stored"}
          /\ session' \in [Session -> {"idle", "create", "store"}]
      BY <2>3 DEF SessionStore, Resume
    <3>2. /\ secret' \in {"server", "browser"}
          /\ reversing' \subseteq {"session", "release", "order"}
      BY <2>3 DEF SessionStore, Resume
    <3>3. UNCHANGED <<status, presence, order, intent, refund, event, pc, create,
                      failures>>
      BY <2>3 DEF SessionStore, Resume
    <3> QED BY <3>1, <3>2, <3>3
  <2>4. CASE SessionFails(s)  BY <2>4 DEF SessionFails
  <2> QED BY <1>2, <2>1, <2>2, <2>3, <2>4
<1>3. ASSUME NEW h \in Handler, Confirm(h) \/ Receive(h) \/ Proceed(h)
      PROVE  TypeOK'
  <2>1. CASE Confirm(h)  BY <2>1 DEF Confirm
  <2>2. CASE Receive(h)  BY <2>2 DEF Receive, Signed
  <2>3. CASE FindOrder(h)  BY <2>3 DEF FindOrder
  <2>4. CASE ReadCandidate(h)  BY <2>4 DEF ReadCandidate
  <2>5. CASE Authorize(h)  BY <2>5 DEF Authorize
  <2>6. CASE Record(h)  BY <2>6 DEF Record
  <2>7. CASE Commit(h)  BY <2>7 DEF Commit
  <2>8. CASE Undo(h)  BY <2>8 DEF Undo
  <2>9. CASE Reverse(h)  BY <2>9 DEF Reverse
  <2> QED BY <1>3, <2>1, <2>2, <2>3, <2>4, <2>5, <2>6, <2>7, <2>8, <2>9 DEF Proceed
<1>4. ASSUME NEW h \in Handler, UndoFails(h) \/ HandlerFails(h)
      PROVE  TypeOK'
  <2>1. CASE UndoFails(h)  BY <2>1 DEF UndoFails
  <2>2. CASE HandlerFails(h)  BY <2>2 DEF HandlerFails
  <2> QED BY <1>4, <2>1, <2>2
<1>5. CASE Lapse  BY <1>5 DEF Lapse
<1>6. CASE LateHeartbeat  BY <1>6 DEF LateHeartbeat
<1>7. CASE Release  BY <1>7 DEF Release
<1>8. CASE CreateFinds  BY <1>8 DEF CreateFinds
<1>9. CASE CreateCloses  BY <1>9 DEF CreateCloses
<1>10. CASE CancelEvent  BY <1>10 DEF CancelEvent
<1>11. CASE CancelOrder  BY <1>11 DEF CancelOrder
<1>12. ASSUME NEW r \in reversing, ReverseAfter(r) \/ ReverseAfterFails(r)
       PROVE  TypeOK'
  <2>1. CASE ReverseAfter(r)  BY <2>1 DEF ReverseAfter
  <2>2. CASE ReverseAfterFails(r)  BY <2>2 DEF ReverseAfterFails
  <2> QED BY <1>12, <2>1, <2>2
<1>13. CASE Crash  BY <1>13 DEF Crash
<1>14. CASE UNCHANGED vars  BY <1>14 DEF vars
<1> QED
  BY <1>1, <1>2, <1>3, <1>4, <1>5, <1>6, <1>7, <1>8, <1>9, <1>10, <1>11, <1>12,
     <1>13, <1>14 DEF Next

\* Every reachable state is well typed: no handler, session or row is ever in
\* a place the code does not have.
THEOREM PaymentsTyped == Spec => []TypeOK
<1>1. Init => TypeOK
  BY DEF Init, TypeOK
<1>2. TypeOK /\ [Next]_vars => TypeOK'
  BY TypeStep
<1> QED BY <1>1, <1>2, PTL DEF Spec

-----------------------------------------------------------------------------

\* The payment session: a secret leaves the server only with its reference.
LEMMA SessionStep ==
  ASSUME TypeOK, PaymentInv, NEW s \in Session,
         \/ SessionOpen(s) \/ SessionCreate(s)
         \/ SessionStore(s) \/ SessionFails(s)
  PROVE  PaymentInv'
<1> USE DEF PaymentInv, PaidIsReferenced, HandlersHavePayment, OrderIsPaid,
            AckedIsSettled, TypeOK, stripe, rows
<1>1. CASE SessionOpen(s)  BY <1>1 DEF SessionOpen, Resume
<1>2. CASE SessionCreate(s)  BY <1>2 DEF SessionCreate
<1>3. CASE SessionStore(s)  BY <1>3 DEF SessionStore, Resume
<1>4. CASE SessionFails(s)  BY <1>4 DEF SessionFails
<1> QED BY <1>1, <1>2, <1>3, <1>4

\* A gateway call never takes a success back, and refunds what succeeded.
LEMMA GatewayCancelKeepsPayment ==
  ASSUME TypeOK, GatewayCancel
  PROVE  /\ intent = "succeeded" <=> intent' = "succeeded"
         /\ refund = "made" => refund' = "made"
         /\ intent = "succeeded" => refund' = "made"
BY DEF TypeOK, GatewayCancel

\* A confirmation, by a buyer's request or by a webhook: each step of it leaves
\* its handler where HandlersHavePayment allows, and answers only when settled.
LEMMA HandlerStep ==
  ASSUME TypeOK, PaymentInv, NEW h \in Handler,
         \/ Confirm(h) \/ Receive(h) \/ Proceed(h)
         \/ UndoFails(h) \/ HandlerFails(h)
  PROVE  PaymentInv'
<1> USE DEF PaymentInv, PaidIsReferenced, HandlersHavePayment, OrderIsPaid,
            AckedIsSettled, TypeOK, stripe, rows, Goto, Answer
<1>1. CASE Confirm(h)  BY <1>1 DEF Confirm
<1>2. CASE Receive(h)  BY <1>2 DEF Receive, Signed
<1>3. CASE FindOrder(h)  BY <1>3 DEF FindOrder
<1>4. CASE ReadCandidate(h)  BY <1>4 DEF ReadCandidate, Refused
<1>5. CASE Authorize(h)  BY <1>5 DEF Authorize, Approved, Refused
<1>6. CASE Record(h)  BY <1>6 DEF Record
<1>7. CASE Commit(h)  BY <1>7 DEF Commit
<1>8. CASE Undo(h)
  BY <1>8, GatewayCancelKeepsPayment DEF Undo, Refused
<1>9. CASE UndoFails(h)  BY <1>9 DEF UndoFails, Refused
<1>10. CASE Reverse(h)
  BY <1>10, GatewayCancelKeepsPayment DEF Reverse
<1>11. CASE HandlerFails(h)  BY <1>11 DEF HandlerFails
<1> QED
  BY <1>1, <1>2, <1>3, <1>4, <1>5, <1>6, <1>7, <1>8, <1>9, <1>10,
     <1>11 DEF Proceed

\* The buyer's payment, the clock, closings, cancellations and lost calls.
LEMMA EnvironmentStep ==
  ASSUME TypeOK, PaymentInv,
         \/ Pay \/ Lapse \/ LateHeartbeat \/ Release
         \/ CreateFinds \/ CreateCloses \/ CancelEvent \/ CancelOrder \/ Crash
         \/ \E r \in reversing : ReverseAfter(r) \/ ReverseAfterFails(r)
  PROVE  PaymentInv'
<1> USE DEF PaymentInv, PaidIsReferenced, HandlersHavePayment, OrderIsPaid,
            AckedIsSettled, TypeOK, stripe, rows
<1>1. CASE Pay  BY <1>1 DEF Pay
<1>2. CASE Lapse  BY <1>2 DEF Lapse
<1>3. CASE LateHeartbeat  BY <1>3 DEF LateHeartbeat
<1>4. CASE Release  BY <1>4 DEF Release
<1>5. CASE CreateFinds  BY <1>5 DEF CreateFinds
<1>6. CASE CreateCloses  BY <1>6 DEF CreateCloses
<1>7. CASE CancelEvent  BY <1>7 DEF CancelEvent
<1>8. CASE CancelOrder  BY <1>8 DEF CancelOrder
<1>9. CASE Crash  BY <1>9 DEF Crash
<1>10. ASSUME NEW r \in reversing, ReverseAfter(r) \/ ReverseAfterFails(r)
       PROVE  PaymentInv'
  <2>1. CASE ReverseAfter(r)
    BY <2>1, GatewayCancelKeepsPayment DEF ReverseAfter
  <2>2. CASE ReverseAfterFails(r)
    BY <2>2 DEF ReverseAfterFails
  <2> QED BY <1>10, <2>1, <2>2
<1> QED BY <1>1, <1>2, <1>3, <1>4, <1>5, <1>6, <1>7, <1>8, <1>9, <1>10

\* PaymentInv holds always: the facts the handlers' places carry.
THEOREM PaymentIsKept == Spec => []PaymentInv
<1>1. Init => PaymentInv
  BY DEF Init, PaymentInv, PaidIsReferenced, HandlersHavePayment, OrderIsPaid,
         AckedIsSettled
<1>2. TypeOK /\ PaymentInv /\ [Next]_vars => PaymentInv'
  <2> SUFFICES ASSUME TypeOK, PaymentInv, [Next]_vars
               PROVE  PaymentInv'
    OBVIOUS
  <2>1. CASE UNCHANGED vars
    BY <2>1 DEF vars, PaymentInv, PaidIsReferenced, HandlersHavePayment,
                OrderIsPaid, AckedIsSettled
  <2>2. CASE Next
    BY <2>2, SessionStep, HandlerStep, EnvironmentStep DEF Next
  <2> QED BY <2>1, <2>2
<1> QED BY <1>1, <1>2, PaymentsTyped, PTL DEF Spec

\* Tickets are issued only for a payment that Stripe says has succeeded,
\* whatever the interleaving of buyers, webhooks, closings and crashes.
THEOREM OrdersArePaid == Spec => []OrderIsPaid
<1>1. PaymentInv => OrderIsPaid
  BY DEF PaymentInv
<1> QED BY <1>1, PaymentIsKept, PTL

\* A webhook answered with 200 has settled its payment, by an order or by a
\* refund, so Stripe may stop retrying.
THEOREM AnsweredWebhooksAreSettled == Spec => []AckedIsSettled
<1>1. PaymentInv => AckedIsSettled
  BY DEF PaymentInv
<1> QED BY <1>1, PaymentIsKept, PTL
=============================================================================
