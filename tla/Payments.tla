------------------------------- MODULE Payments -------------------------------
(***************************************************************************)
(* The payment of one checkout: the payment session, Stripe's PaymentIntent *)
(* and its webhook, the confirmation that turns the payment into an order,  *)
(* and the reversals that give the money back.                              *)
(*                                                                         *)
(* finalizePaidCheckout() is run by the buyer's confirm requests (Client)   *)
(* and by webhook deliveries (Hook), possibly at once.  Each await between  *)
(* two reads or writes of shared state is a step boundary; the transaction  *)
(* that makes the order is one step (Commit), under the Checkout row lock.  *)
(*                                                                         *)
(* A PaymentIntent belongs to one checkout (Stripe's idempotency key is     *)
(* made of the checkout's id), so one checkout is enough: payments of two   *)
(* checkouts share no state.  The checkout is a paid one under the          *)
(* STRIPE_TEST provider: free checkouts and the simulated gateway have no   *)
(* intent, no webhook and nothing to reverse.  paymentStatus is left out:   *)
(* the code writes it and shows it, and decides nothing from it.            *)
(***************************************************************************)
EXTENDS Naturals

CONSTANTS
  Client,       \* POST /checkouts/:id/confirm requests
  Hook,         \* POST /payments/stripe/webhook deliveries
  Session,      \* POST /checkouts/:id/payment-session requests
  MaxFailures   \* bound: failed calls and process crashes

ASSUME PaymentsAssumption ==
  /\ Client \cap Hook = {}
  /\ MaxFailures \in Nat

Handler == Client \cup Hook

VARIABLES
  status,     \* Checkout.status; every closed status is "CLOSED"
  presence,   \* what the clock says of it: "present", "absent" or "expired"
  reference,  \* Checkout.paymentReference: "null" or "stored"
  order,      \* the order made from it: "NONE", "CONFIRMED" or "CANCELLED"
  intent,     \* Stripe: status of the PaymentIntent
  refund,     \* Stripe: the intent's refund, "none" or "made"
  event,      \* Stripe: payment_intent.succeeded is "unsent", "sent" or "acked"
  secret,     \* where the intent's client secret is: "server" or "browser"
  pc,         \* Handler -> where finalizePaidCheckout() is
  session,    \* Session -> where createPaymentSession() is
  create,     \* create() of another checkout: "idle" or "closing" the stale one
  reversing,  \* reversePayment() calls due after a commit and not yet made
  failures    \* failed calls and crashes so far

vars == <<status, presence, reference, order, intent, refund, event, secret,
          pc, session, create, reversing, failures>>

rows == <<status, presence, reference, order>>

stripe == <<intent, refund, event, secret>>

TypeOK ==
  /\ status \in {"ACTIVE", "CONFIRMED", "CLOSED"}
  /\ presence \in {"present", "absent", "expired"}
  /\ reference \in {"null", "stored"}
  /\ order \in {"NONE", "CONFIRMED", "CANCELLED"}
  /\ intent \in {"none", "requires", "succeeded", "canceled"}
  /\ refund \in {"none", "made"}
  /\ event \in {"unsent", "sent", "acked"}
  /\ secret \in {"server", "browser"}
  /\ pc \in [Handler -> {"idle", "find", "candidate", "authorize", "record",
                         "commit", "undo", "reverse"}]
  /\ session \in [Session -> {"idle", "create", "store"}]
  /\ create \in {"idle", "closing"}
  /\ reversing \subseteq {"session", "release", "order"}
  /\ failures \in Nat

Init ==
  /\ status = "ACTIVE" /\ presence = "present" /\ reference = "null"
  /\ order = "NONE"
  /\ intent = "none" /\ refund = "none" /\ event = "unsent" /\ secret = "server"
  /\ pc = [h \in Handler |-> "idle"]
  /\ session = [s \in Session |-> "idle"]
  /\ create = "idle"
  /\ reversing = {}
  /\ failures = 0

Goto(h, place) == pc' = [pc EXCEPT ![h] = place]

-----------------------------------------------------------------------------
(* Stripe *)

\* The buyer pays in the Payment Element; Stripe will report it.
Pay ==
  /\ secret = "browser" /\ intent = "requires"
  /\ intent' = "succeeded"
  /\ event' = "sent"
  /\ UNCHANGED <<rows, refund, secret, pc, session, create, reversing,
                 failures>>

\* PaymentGateway.cancel(): refund a payment, cancel an intent not yet paid.
GatewayCancel ==
  /\ refund' = IF intent = "succeeded" THEN "made" ELSE refund
  /\ intent' = IF intent = "requires" THEN "canceled" ELSE intent

-----------------------------------------------------------------------------
(* createPaymentSession() *)

\* resumePayment(): the intent's client secret is the answer, whatever its status.
Resume == secret' = "browser"

\* An active and present checkout gets a session; one that has a reference
\* resumes its intent.
SessionOpen(s) ==
  /\ session[s] = "idle"
  /\ status = "ACTIVE" /\ presence = "present"
  /\ IF reference = "stored"
     THEN Resume /\ UNCHANGED session
     ELSE session' = [session EXCEPT ![s] = "create"] /\ UNCHANGED secret
  /\ UNCHANGED <<rows, intent, refund, event, pc, create, reversing,
                 failures>>

\* Mutant: the answer is sent before the reference is stored.
SessionCreate_Answers(s) ==
  /\ session[s] = "create"
  /\ intent' = IF intent = "none" THEN "requires" ELSE intent
  /\ session' = [session EXCEPT ![s] = "store"]
  /\ secret' = "browser"
  /\ UNCHANGED <<rows, refund, event, pc, create, reversing, failures>>

\* Stripe makes the intent, or returns the one the same key made before.
SessionCreate(s) ==
  /\ session[s] = "create"
  /\ intent' = IF intent = "none" THEN "requires" ELSE intent
  /\ session' = [session EXCEPT ![s] = "store"]
  /\ UNCHANGED <<rows, refund, event, secret, pc, create, reversing,
                 failures>>

\* The conditional update: the first session of an active checkout stores the
\* reference, a later one resumes, and a closed checkout reverses the intent.
SessionStore(s) ==
  /\ session[s] = "store"
  /\ session' = [session EXCEPT ![s] = "idle"]
  /\ reference' = IF status = "ACTIVE" THEN "stored" ELSE reference
  /\ IF reference' = "stored"
     THEN Resume /\ UNCHANGED reversing
     ELSE reversing' = reversing \cup {"session"} /\ UNCHANGED secret
  /\ UNCHANGED <<status, presence, order, intent, refund, event, pc, create,
                 failures>>

-----------------------------------------------------------------------------
(* confirm(), handlePaymentWebhook() and finalizePaidCheckout() *)

\* Mutant: only the paymentReference is looked at.
Approved_ByReference == reference = "stored"

\* PaymentGateway.authorize(): Stripe says the intent has succeeded (it still
\* says so after a refund).
Approved == intent = "succeeded"

\* Mutant: a refused request waits at a place no step leaves from.
Refused_Waits(h) == IF h \in Hook THEN "reverse" ELSE "refused"

\* Where a refusal takes a handler: a webhook reverses the payment, a buyer's
\* request answers with the problem.
Refused(h) == IF h \in Hook THEN "reverse" ELSE "idle"

\* A webhook that ends well answers 200, and Stripe stops retrying.
Answer(h) == event' = IF h \in Hook THEN "acked" ELSE event

\* The buyer's request, with a key that was not answered before.
Confirm(h) ==
  /\ h \in Client /\ pc[h] = "idle"
  /\ Goto(h, "find")
  /\ UNCHANGED <<rows, stripe, session, create, reversing, failures>>

\* parseWebhook(): of Stripe's events only the success of the intent is followed;
\* the others write paymentStatus or nothing.
Signed == event # "unsent"

\* Stripe delivers the event, again and again until it is answered with 200,
\* and perhaps once more after that.  A reference nobody stored is ignored.
Receive(h) ==
  /\ h \in Hook /\ pc[h] = "idle"
  /\ Signed
  /\ IF reference = "stored" THEN Goto(h, "find") /\ UNCHANGED event
                             ELSE Answer(h) /\ UNCHANGED pc
  /\ UNCHANGED <<rows, intent, refund, secret, session, create, reversing,
                 failures>>

\* An order that exists is the answer.
FindOrder(h) ==
  /\ pc[h] = "find"
  /\ IF order = "NONE" THEN Goto(h, "candidate") /\ UNCHANGED event
                       ELSE Goto(h, "idle") /\ Answer(h)
  /\ UNCHANGED <<rows, intent, refund, secret, session, create, reversing,
                 failures>>

\* The checkout is read without a lock: one that is not active, or has no
\* payment to authorise, is refused.
ReadCandidate(h) ==
  /\ pc[h] = "candidate"
  /\ Goto(h, IF status = "ACTIVE" /\ reference = "stored"
             THEN "authorize" ELSE Refused(h))
  /\ UNCHANGED <<rows, stripe, session, create, reversing, failures>>

Authorize(h) ==
  /\ pc[h] = "authorize"
  /\ Goto(h, IF Approved THEN "record" ELSE Refused(h))
  /\ UNCHANGED <<rows, stripe, session, create, reversing, failures>>

\* The authorised reference is written back, whatever happened meanwhile.
Record(h) ==
  /\ pc[h] = "record"
  /\ reference' = "stored"
  /\ Goto(h, "commit")
  /\ UNCHANGED <<status, presence, order, stripe, session, create, reversing,
                 failures>>

\* Mutant: an order that is missing is taken for one that was made.
Commit_Lenient(h) ==
  /\ pc[h] = "commit"
  /\ \/ /\ order # "NONE" \/ status # "ACTIVE" \/ presence # "present"
        /\ Goto(h, "idle") /\ Answer(h)
        /\ UNCHANGED <<status, order>>
     \/ /\ order = "NONE" /\ status = "ACTIVE" /\ presence = "present"
        /\ order' = "CONFIRMED" /\ status' = "CONFIRMED"
        /\ Goto(h, "idle") /\ Answer(h)
  /\ UNCHANGED <<presence, reference, intent, refund, secret, session,
                 create, reversing, failures>>

\* The transaction: an order made meanwhile is the answer, a present checkout
\* is confirmed, any other one has its payment undone.
Commit(h) ==
  /\ pc[h] = "commit"
  /\ \/ /\ order # "NONE"
        /\ Goto(h, "idle") /\ Answer(h)
        /\ UNCHANGED <<status, order>>
     \/ /\ order = "NONE" /\ status = "ACTIVE" /\ presence = "present"
        /\ order' = "CONFIRMED" /\ status' = "CONFIRMED"
        /\ Goto(h, "idle") /\ Answer(h)
     \/ /\ order = "NONE" /\ (status # "ACTIVE" \/ presence # "present")
        /\ Goto(h, "undo")
        /\ UNCHANGED <<status, order, event>>
  /\ UNCHANGED <<presence, reference, intent, refund, secret, session,
                 create, reversing, failures>>

\* reversePayment() in the catch of finalizePaidCheckout().
Undo(h) ==
  /\ pc[h] = "undo"
  /\ GatewayCancel
  /\ Goto(h, Refused(h))
  /\ UNCHANGED <<rows, event, secret, session, create, reversing, failures>>

\* ... which only logs a failure of the gateway.
UndoFails(h) ==
  /\ pc[h] = "undo"
  /\ failures < MaxFailures
  /\ failures' = failures + 1
  /\ Goto(h, Refused(h))
  /\ UNCHANGED <<rows, stripe, session, create, reversing>>

\* Mutant: the webhook reverses leniently: it answers 200 whatever happened.
Reverse_Lenient(h) ==
  /\ pc[h] = "reverse"
  /\ \/ GatewayCancel /\ UNCHANGED failures
     \/ /\ failures < MaxFailures /\ failures' = failures + 1
        /\ UNCHANGED <<intent, refund>>
  /\ Goto(h, "idle") /\ Answer(h)
  /\ UNCHANGED <<rows, secret, session, create, reversing>>

\* The strict reversal of a webhook that was refused: it answers 200 only if
\* the gateway did its part (a failure is HandlerFails: not 200, no answer).
Reverse(h) ==
  /\ pc[h] = "reverse"
  /\ GatewayCancel
  /\ Goto(h, "idle") /\ Answer(h)
  /\ UNCHANGED <<rows, secret, session, create, reversing, failures>>

-----------------------------------------------------------------------------
(* What else happens to the checkout and its order *)

\* Seconds pass without a heartbeat, or the 15 minutes end.
Lapse ==
  /\ presence # "expired"
  /\ presence' \in {"absent", "expired"} \ {presence}
  /\ UNCHANGED <<status, reference, order, stripe, pc, session, create,
                 reversing, failures>>

\* A heartbeat whose clock was read before the presence ran out is written now.
LateHeartbeat ==
  /\ status = "ACTIVE" /\ presence = "absent"
  /\ presence' = "present"
  /\ UNCHANGED <<status, reference, order, stripe, pc, session, create,
                 reversing, failures>>

\* release(): the job, a late request or the buyer closes the checkout, then
\* reverses the payment it read in the transaction.
Release ==
  /\ status = "ACTIVE"
  /\ status' = "CLOSED"
  /\ reversing' = reversing \cup (IF reference = "stored" THEN {"release"} ELSE {})
  /\ UNCHANGED <<presence, reference, order, stripe, pc, session, create,
                 failures>>

\* create() reads the user's stale checkout ...
CreateFinds ==
  /\ status = "ACTIVE" /\ presence # "present"
  /\ create' = "closing"
  /\ UNCHANGED <<rows, stripe, pc, session, reversing, failures>>

\* ... and closes it, whatever became of it, and forgets its payment.
CreateCloses ==
  /\ create = "closing" /\ create' = "idle"
  /\ status' = "CLOSED"
  /\ UNCHANGED <<presence, reference, order, stripe, pc, session, reversing,
                 failures>>

\* EventsService.cancel() closes checkouts and orders and reverses no payment.
CancelEvent ==
  /\ status' = IF status = "ACTIVE" THEN "CLOSED" ELSE status
  /\ order' = IF order = "CONFIRMED" THEN "CANCELLED" ELSE order
  /\ UNCHANGED <<presence, reference, stripe, pc, session, create, reversing,
                 failures>>

\* cancelOrder(): the transaction leaves an order that is not confirmed alone,
\* and the payment is reversed either way.
CancelOrder ==
  /\ order # "NONE"
  /\ order' = "CANCELLED"
  /\ reversing' = reversing \cup {"order"}
  /\ UNCHANGED <<status, presence, reference, stripe, pc, session, create,
                 failures>>

\* The reversal that follows a commit.
ReverseAfter(r) ==
  /\ r \in reversing
  /\ GatewayCancel
  /\ reversing' = reversing \ {r}
  /\ UNCHANGED <<rows, event, secret, pc, session, create, failures>>

-----------------------------------------------------------------------------
(* Failures *)

\* The gateway refuses; the error is logged and nobody tries again.
ReverseAfterFails(r) ==
  /\ r \in reversing
  /\ failures < MaxFailures
  /\ failures' = failures + 1
  /\ reversing' = reversing \ {r}
  /\ UNCHANGED <<rows, stripe, pc, session, create>>

\* A database or gateway error, or a buyer without a profile, ends a handler
\* with a status that is not 200.
HandlerFails(h) ==
  /\ pc[h] # "idle"
  /\ failures < MaxFailures
  /\ failures' = failures + 1
  /\ Goto(h, "idle")
  /\ UNCHANGED <<rows, stripe, session, create, reversing>>

\* The gateway or the database fails createPaymentSession().
SessionFails(s) ==
  /\ session[s] # "idle"
  /\ failures < MaxFailures
  /\ failures' = failures + 1
  /\ session' = [session EXCEPT ![s] = "idle"]
  /\ UNCHANGED <<rows, stripe, pc, create, reversing>>

\* The server stops: every handler and every reversal in memory is lost.
Crash ==
  /\ failures < MaxFailures
  /\ failures' = failures + 1
  /\ pc' = [h \in Handler |-> "idle"]
  /\ session' = [s \in Session |-> "idle"]
  /\ create' = "idle"
  /\ reversing' = {}
  /\ UNCHANGED <<rows, stripe>>

-----------------------------------------------------------------------------

\* The code after the first await of a confirmation.
Proceed(h) ==
  \/ FindOrder(h) \/ ReadCandidate(h) \/ Authorize(h) \/ Record(h)
  \/ Commit(h) \/ Undo(h) \/ Reverse(h)

Next ==
  \/ Pay
  \/ \E s \in Session : SessionOpen(s) \/ SessionCreate(s) \/ SessionStore(s)
  \/ \E s \in Session : SessionFails(s)
  \/ \E h \in Handler : Confirm(h) \/ Receive(h) \/ Proceed(h)
  \/ \E h \in Handler : UndoFails(h) \/ HandlerFails(h)
  \/ Lapse \/ LateHeartbeat
  \/ Release \/ CreateFinds \/ CreateCloses \/ CancelEvent \/ CancelOrder
  \/ \E r \in reversing : ReverseAfter(r) \/ ReverseAfterFails(r)
  \/ Crash

Spec == Init /\ [][Next]_vars

\* Stripe retries an event until it is answered and a webhook's handler runs
\* on; no buyer's request, reversal after a commit or job need ever run.
Fairness ==
  /\ WF_vars(event = "sent" /\ \E h \in Hook : Receive(h))
  /\ \A h \in Hook : WF_vars(Proceed(h))

FairSpec == Spec /\ Fairness

-----------------------------------------------------------------------------
(* Properties *)

\* An order is made only from a payment that Stripe says has succeeded,
\* whichever of the buyer's requests and webhooks makes it (finalizePaidCheckout).
OrderIsPaid == order # "NONE" => intent = "succeeded"

\* Stripe is told to stop retrying only when the payment has become an order
\* or was given back: no failure, crash, release or lost session in between
\* makes the webhook drop a payment (handlePaymentWebhook).
AckedIsSettled == event = "acked" => order # "NONE" \/ refund = "made"

\* A payment that succeeds is settled in the end, by an order or a refund, even
\* if the buyer closes the browser, the checkout closes first and calls fail.
PaidIsSettled == intent = "succeeded" ~> (order # "NONE" \/ refund = "made")

-----------------------------------------------------------------------------
(* The invariant behind the theorems of PaymentsProofs *)

\* A browser can pay only what the checkout row points to, so a webhook always
\* finds its checkout.
PaidIsReferenced ==
  /\ secret = "browser" => reference = "stored"
  /\ intent = "succeeded" => secret = "browser"

\* Handlers past the authorisation, and webhooks, have a payment that succeeded.
HandlersHavePayment ==
  /\ \A h \in Handler :
       pc[h] \in {"record", "commit", "undo"} => intent = "succeeded"
  /\ \A h \in Hook : pc[h] # "idle" => event # "unsent"
  /\ \A h \in Client : pc[h] # "reverse"
  /\ event # "unsent" => intent = "succeeded"

\* Orders and refunds come only from payments that succeeded, and every
\* answered webhook has one of the two.
PaymentInv ==
  PaidIsReferenced /\ HandlersHavePayment /\ OrderIsPaid /\ AckedIsSettled

-----------------------------------------------------------------------------
(* What the documents say and the code does not do *)

\* "recuperação idempotente": a webhook delivered beside the buyer's own
\* confirmation leaves a confirmed order as it is, and does not refund it.
ConfirmedIsNotRefunded ==
  [][order = "CONFIRMED" /\ order' = "CONFIRMED" => refund' = refund]_vars

\* "somente um pagamento confirmado e validado no servidor emite ingressos":
\* a payment that was given back issues no tickets.
RefundedMakesNoOrder == [][refund = "made" /\ order = "NONE" => order' = "NONE"]_vars
=============================================================================
