------------------------------- MODULE Purchase -------------------------------
(***************************************************************************)
(* The pages of a purchase in one tab of the browser: the event's page     *)
(* with its ticket selector, the checkout page with its card form, and the *)
(* way between them.  The handlers of a page are asynchronous: each sends  *)
(* a request, the buyer goes on clicking what is enabled, and the rest of  *)
(* the handler runs when the answer comes.  A request that fails on the    *)
(* way (openapi-fetch rejects) ends its handler where it waits.            *)
(*                                                                         *)
(* The server is reduced to the checkout the buyer has in hand and its     *)
(* payment intent; Reservations and Payments model it in full.  The two    *)
(* pages are never restored by the browser once left (the dynamic routes   *)
(* are served with no-store): a page that is opened starts afresh.         *)
(***************************************************************************)
EXTENDS Integers, FiniteSets

CONSTANTS
  MaxCheckouts,   \* checkouts the buyer opens, a bound for TLC
  MaxPerOrder,    \* TicketType.maxPerOrder
  Available       \* free units the page was told of

VARIABLES
  route,    \* the page the tab shows
  shop,     \* React state of EventDetails and TicketSelector
  pay,      \* React state and refs of CheckoutExperience
  wire,     \* requests under way
  server    \* the buyer's last checkout and its payment

vars == <<route, shop, pay, wire, server>>

Providers == {"FREE", "SIMULATED", "STRIPE_TEST"}
Min2(a, b) == IF a < b THEN a ELSE b

\* What each page holds when it is mounted.
FreshShop == [loading |-> TRUE, open |-> FALSE, busy |-> FALSE,
              dialog |-> FALSE, quantity |-> 0]
FreshPay == [loading |-> TRUE, seen |-> "none", error |-> FALSE,
             ended |-> FALSE, session |-> "none", paid |-> FALSE,
             sessionLoading |-> TRUE, busy |-> FALSE, confirmed |-> FALSE,
             inProgress |-> FALSE, beating |-> FALSE, going |-> "none"]

Init ==
  /\ route = "event"
  /\ shop = FreshShop
  /\ pay = FreshPay
  /\ wire = [load |-> TRUE, create |-> FALSE, undo |-> FALSE, session |-> FALSE,
             beat |-> FALSE, cancel |-> FALSE, exit |-> FALSE,
             confirm |-> "none", card |-> "none"]
  /\ server = [opened |-> 0, status |-> "none", provider |-> "none",
               intent |-> "none"]

(***************************************************************************)
(* Going from page to page.  What was asked by a page left behind goes on, *)
(* and its answer finds nobody, except the card form's: its closure still  *)
(* confirms the checkout and takes the tab to the order.                   *)
(***************************************************************************)
LeftBehind ==
  [wire EXCEPT !.load = FALSE, !.create = FALSE, !.undo = FALSE,
               !.session = FALSE, !.beat = FALSE, !.cancel = FALSE,
               !.confirm = IF @ = "form" THEN "orphan"
                           ELSE IF @ = "orphan" THEN @ ELSE "none",
               !.card = IF @ = "none" THEN "none" ELSE "orphan"]

Show(r, w) ==
  /\ route' = r
  /\ shop' = FreshShop
  /\ pay' = FreshPay
  /\ wire' = [w EXCEPT !.load = r \in {"event", "checkout"}]

(***************************************************************************)
(* The event's page                                                        *)
(***************************************************************************)
OnEvent == route = "event" /\ UNCHANGED route /\ UNCHANGED pay

\* The event arrives, or an error that leaves the panel without a selector.
EventLoaded ==
  /\ OnEvent /\ wire.load
  /\ \E open \in BOOLEAN :
       shop' = [shop EXCEPT !.loading = FALSE, !.open = open]
  /\ wire' = [wire EXCEPT !.load = FALSE]
  /\ UNCHANGED server

\* The plus and minus buttons; the quantity is clamped to what may be asked.
Select(delta) ==
  /\ OnEvent /\ shop.open /\ Available > 0
  /\ LET wanted == Min2(shop.quantity + delta, Min2(Available, MaxPerOrder))
     IN shop' = [shop EXCEPT !.quantity = IF wanted < 0 THEN 0 ELSE wanted]
  /\ UNCHANGED <<wire, server>>

MayReserve == shop.open /\ ~shop.dialog /\ shop.quantity > 0 /\ ~shop.busy
                /\ Available > 0

StartCheckout ==
  /\ OnEvent /\ MayReserve
  /\ shop' = [shop EXCEPT !.busy = TRUE]
  /\ wire' = [wire EXCEPT !.create = TRUE]
  /\ UNCHANGED server

\* The server opens a checkout, unless the buyer has an active one.
Reserved ==
  /\ server.status # "ACTIVE" /\ server.opened < MaxCheckouts
  /\ \E p \in Providers :
       server' = [opened |-> server.opened + 1, status |-> "ACTIVE",
                  provider |-> p, intent |-> "none"]

\* The tab leaves for the page of its checkout, still busy.
CheckoutOpened ==
  /\ route = "event" /\ wire.create
  /\ Reserved
  /\ Show("checkout", [LeftBehind EXCEPT !.card = "none", !.confirm = "none"])

\* A refusal: the dialog offers the active checkout, a session or profile
\* problem takes the tab elsewhere, anything else is a toast.
CheckoutRefused ==
  /\ route = "event" /\ wire.create
  /\ \/ /\ server.status = "ACTIVE"
        /\ shop' = [shop EXCEPT !.dialog = TRUE, !.busy = FALSE]
        /\ wire' = [wire EXCEPT !.create = FALSE]
        /\ UNCHANGED <<route, pay>>
     \/ /\ server.status # "ACTIVE"
        /\ shop' = [shop EXCEPT !.busy = FALSE]
        /\ wire' = [wire EXCEPT !.create = FALSE]
        /\ UNCHANGED <<route, pay>>
     \/ Show("away", [LeftBehind EXCEPT !.card = "none", !.confirm = "none"])
  /\ UNCHANGED server

\* The dialog closes whichever way; its cancel button also sends the request.
CloseDialog ==
  /\ OnEvent /\ shop.dialog
  /\ shop' = [shop EXCEPT !.dialog = FALSE]
  /\ \E cancelling \in {FALSE, ~wire.undo} :
       wire' = [wire EXCEPT !.undo = @ \/ cancelling]
  /\ UNCHANGED server

Closed(s) == IF s.status = "ACTIVE" THEN [s EXCEPT !.status = "CLOSED"] ELSE s

\* An answer to the dialog's request closes a dialog opened meanwhile too.
PreviousCancelled ==
  /\ OnEvent /\ wire.undo
  /\ \/ /\ server' = Closed(server)
        /\ shop' = [shop EXCEPT !.dialog = FALSE]
     \/ UNCHANGED <<shop, server>>
  /\ wire' = [wire EXCEPT !.undo = FALSE]

Resume ==
  /\ route = "event" /\ shop.dialog
  /\ Show("checkout", LeftBehind)
  /\ UNCHANGED server

(***************************************************************************)
(* The checkout page: loading, the payment session, the clock              *)
(***************************************************************************)
OnCheckout == route = "checkout" /\ UNCHANGED route /\ UNCHANGED shop

Terminal == pay.seen \notin {"none", "ACTIVE"}

\* The page learns its checkout once; the effects that wait for an active one
\* start the session and the heartbeat, one that is confirmed goes to its order.
CheckoutLoaded ==
  /\ OnCheckout /\ wire.load
  /\ \/ LET live == server.status = "ACTIVE"
            done == server.status = "CONFIRMED"
        IN /\ server.status # "none"
           /\ pay' = [pay EXCEPT !.loading = FALSE, !.seen = server.status,
                                 !.sessionLoading = live, !.beating = live,
                                 !.busy = done]
           /\ wire' = [wire EXCEPT !.load = FALSE, !.session = live, !.beat = live,
                                   !.confirm = IF done THEN "page" ELSE @]
     \/ /\ pay' = [pay EXCEPT !.loading = FALSE, !.error = TRUE]
        /\ wire' = [wire EXCEPT !.load = FALSE]
  /\ UNCHANGED server

\* The session's answer: a payment already made confirms the checkout at once.
SessionAnswered ==
  /\ OnCheckout /\ wire.session
  /\ \/ /\ server.status = "ACTIVE"
        /\ LET intent == IF server.provider = "STRIPE_TEST"
                         THEN IF server.intent = "none" THEN "PENDING" ELSE server.intent
                         ELSE "SUCCEEDED"
               paid == server.provider = "STRIPE_TEST" /\ intent = "SUCCEEDED"
               confirming == paid /\ ~pay.confirmed
           IN /\ server' = [server EXCEPT !.intent = intent]
              /\ pay' = [pay EXCEPT !.session = server.provider, !.paid = paid,
                                    !.sessionLoading = FALSE,
                                    !.busy = @ \/ confirming]
              /\ wire' = [wire EXCEPT !.session = FALSE,
                                      !.confirm = IF confirming THEN "page" ELSE @]
     \/ /\ pay' = [pay EXCEPT !.sessionLoading = FALSE]
        /\ wire' = [wire EXCEPT !.session = FALSE]
        /\ UNCHANGED server

\* The countdown reaches zero on the page's own clock, set by the server's.
CountdownEnds ==
  /\ OnCheckout /\ pay.seen = "ACTIVE" /\ ~pay.ended
  /\ pay' = [pay EXCEPT !.ended = TRUE, !.error = TRUE]
  /\ UNCHANGED <<wire, server>>

Beat ==
  /\ OnCheckout /\ pay.beating /\ ~wire.beat
  /\ wire' = [wire EXCEPT !.beat = TRUE]
  /\ UNCHANGED <<pay, server>>

\* 410 stops the heartbeat for good; an answer that is late or lost does not.
BeatAnswered ==
  /\ OnCheckout /\ wire.beat
  /\ pay' = IF pay.beating /\ server.status # "ACTIVE"
            THEN [pay EXCEPT !.beating = FALSE, !.error = TRUE] ELSE pay
  /\ wire' = [wire EXCEPT !.beat = FALSE]
  /\ UNCHANGED server

(***************************************************************************)
(* Cancelling and confirming                                               *)
(***************************************************************************)
MayCancel == pay.seen # "none" /\ ~pay.busy /\ ~Terminal

Cancel ==
  /\ OnCheckout /\ MayCancel
  /\ pay' = [pay EXCEPT !.busy = TRUE]
  /\ wire' = [wire EXCEPT !.cancel = TRUE]
  /\ UNCHANGED server

\* The server answers 200 also when it found the checkout closed or confirmed.
CancelAnswered ==
  /\ OnCheckout /\ wire.cancel
  /\ \/ /\ server' = Closed(server)
        /\ pay' = [pay EXCEPT !.busy = FALSE, !.going = "event"]
     \/ /\ pay' = [pay EXCEPT !.busy = FALSE]
        /\ UNCHANGED server
  /\ wire' = [wire EXCEPT !.cancel = FALSE]

MayConfirm == pay.session \in {"FREE", "SIMULATED"} /\ ~pay.sessionLoading
                /\ ~pay.busy /\ ~pay.error /\ ~Terminal /\ ~pay.ended

Confirm ==
  /\ OnCheckout /\ MayConfirm
  /\ pay' = [pay EXCEPT !.busy = TRUE]
  /\ wire' = [wire EXCEPT !.confirm = "page"]
  /\ UNCHANGED server

Payable(s) == s.status = "CONFIRMED" \/ (s.status = "ACTIVE" /\ s.intent = "SUCCEEDED")

\* A confirmed checkout leaves for its order; a refusal enables the page again.
\* The form's call ends with onProgress(false) whatever happens.
ConfirmAnswered ==
  /\ OnCheckout /\ wire.confirm \in {"page", "form"}
  /\ \/ /\ Payable(server)
        /\ server' = [server EXCEPT !.status = "CONFIRMED"]
        /\ pay' = [pay EXCEPT !.confirmed = TRUE, !.going = "order",
                              !.busy = wire.confirm = "page",
                              !.inProgress = @ /\ wire.confirm = "page"]
     \/ /\ pay' = [pay EXCEPT !.busy = FALSE,
                              !.inProgress = @ /\ wire.confirm = "page"]
        /\ UNCHANGED server
  /\ wire' = [wire EXCEPT !.confirm = "none"]

\* The confirmation of a form whose page is gone still moves the tab.
OrphanConfirmed ==
  /\ wire.confirm = "orphan"
  /\ \/ /\ Payable(server)
        /\ server' = [server EXCEPT !.status = "CONFIRMED"]
        /\ Show("order", [LeftBehind EXCEPT !.confirm = "none"])
     \/ /\ wire' = [wire EXCEPT !.confirm = "none"]
        /\ UNCHANGED <<route, shop, pay, server>>

(***************************************************************************)
(* The card form                                                           *)
(***************************************************************************)
CardForm == pay.session = "STRIPE_TEST" /\ ~pay.sessionLoading

\* Its button is enabled.  Stripe.js takes one confirmation at a time.
MayPay == CardForm /\ ~pay.busy /\ ~pay.error /\ ~Terminal /\ ~pay.ended
            /\ wire.card = "none"

OnProgress(p, value) == [p EXCEPT !.inProgress = value, !.busy = value]

SubmitCard ==
  /\ OnCheckout /\ MayPay
  /\ pay' = OnProgress(pay, TRUE)
  /\ wire' = [wire EXCEPT !.card = "mine"]
  /\ UNCHANGED server

\* An error, or an answer that is still processing, enables the page again.
CardRefused ==
  /\ OnCheckout /\ wire.card = "mine"
  /\ pay' = OnProgress(pay, FALSE)
  /\ wire' = [wire EXCEPT !.card = "none"]
  /\ \E outcome \in {server.intent} \cup
                    (IF server.intent = "PENDING" THEN {"PROCESSING"} ELSE {}) :
       server' = [server EXCEPT !.intent = outcome]

CardPaid ==
  /\ OnCheckout /\ wire.card = "mine" /\ server.intent = "PENDING"
  /\ server' = [server EXCEPT !.intent = "SUCCEEDED"]
  /\ wire' = [wire EXCEPT !.card = "none", !.confirm = "form"]
  /\ UNCHANGED pay

OrphanCard ==
  /\ wire.card = "orphan"
  /\ \/ /\ server.intent = "PENDING"
        /\ server' = [server EXCEPT !.intent = "SUCCEEDED"]
        /\ wire' = [wire EXCEPT !.card = "none", !.confirm = "orphan"]
     \/ /\ wire' = [wire EXCEPT !.card = "none"]
        /\ UNCHANGED server
  /\ UNCHANGED <<route, shop, pay>>

(***************************************************************************)
(* Leaving the checkout page                                               *)
(***************************************************************************)
\* Mutant: the exit handler forgets the payment under way.
CancelsOnExit_InProgress == pay.seen = "ACTIVE" /\ ~pay.confirmed

CancelsOnExit == pay.seen = "ACTIVE" /\ ~pay.confirmed /\ ~pay.inProgress

\* The tab is closed, reloaded, or sent to the bank and back: pagehide.  A charge
\* already at the bank goes on without the page.
Unload ==
  /\ route = "checkout"
  /\ \E r \in {"away", "checkout"} :
       Show(r, [LeftBehind EXCEPT !.exit = @ \/ CancelsOnExit,
                                  !.card = "none", !.confirm = "none"])
  /\ server' = IF wire.card # "none" /\ server.intent = "PENDING"
               THEN [server EXCEPT !.intent = "PROCESSING"] ELSE server

\* The link back is a navigation inside the application: no pagehide.
Back ==
  /\ route = "checkout"
  /\ Show("event", LeftBehind)
  /\ UNCHANGED server

\* router.replace takes effect.
Arrive ==
  /\ route = "checkout" /\ pay.going # "none"
  /\ Show(pay.going, LeftBehind)
  /\ UNCHANGED server

\* The keepalive request sent by a page that is gone.
ExitCancelled ==
  /\ wire.exit
  /\ wire' = [wire EXCEPT !.exit = FALSE]
  /\ \/ server' = Closed(server)
     \/ UNCHANGED server
  /\ UNCHANGED <<route, shop, pay>>

(***************************************************************************)
(* The network and the server                                              *)
(***************************************************************************)
\* A request of the page in front fails, before the server saw it or after: its
\* promise rejects, and what the handler would do next is not done.
Lost ==
  /\ route \in {"event", "checkout"}
  /\ \E f \in {"load", "create", "undo", "session", "beat", "cancel"} :
       /\ wire[f]
       /\ wire' = [wire EXCEPT ![f] = FALSE]
       /\ \/ UNCHANGED server
          \/ f = "create" /\ Reserved
          \/ f \in {"undo", "cancel"} /\ server' = Closed(server)
  /\ UNCHANGED <<route, shop, pay>>

\* Mutant: the form's handler has no finally.
AfterLoss_NoFinally == pay

\* A confirmation that rejects; only the card form's has a finally.
AfterLoss == IF wire.confirm = "form" THEN OnProgress(pay, FALSE) ELSE pay

ConfirmLost ==
  /\ OnCheckout /\ wire.confirm \in {"page", "form"}
  /\ wire' = [wire EXCEPT !.confirm = "none"]
  /\ pay' = AfterLoss
  /\ \/ UNCHANGED server
     \/ Payable(server) /\ server' = [server EXCEPT !.status = "CONFIRMED"]

\* Expiry, abandonment or another tab end the checkout.
ServerCloses ==
  /\ server.status = "ACTIVE"
  /\ server' = Closed(server)
  /\ UNCHANGED <<route, shop, pay, wire>>

\* A payment still processing succeeds, and the webhook confirms the checkout.
Webhook ==
  /\ \/ /\ server.intent = "PROCESSING"
        /\ server' = [server EXCEPT !.intent = "SUCCEEDED"]
     \/ /\ server.status = "ACTIVE" /\ server.intent = "SUCCEEDED"
        /\ server.provider = "STRIPE_TEST"
        /\ server' = [server EXCEPT !.status = "CONFIRMED"]
  /\ UNCHANGED <<route, shop, pay, wire>>

Reopen ==
  /\ route \in {"away", "order"}
  /\ Show("event", LeftBehind)
  /\ UNCHANGED server

Next ==
  \/ EventLoaded \/ StartCheckout \/ CheckoutOpened \/ CheckoutRefused
  \/ \E delta \in {-1, 1} : Select(delta)
  \/ CloseDialog \/ PreviousCancelled \/ Resume
  \/ CheckoutLoaded \/ SessionAnswered \/ CountdownEnds \/ Beat \/ BeatAnswered
  \/ Cancel \/ CancelAnswered \/ Confirm \/ ConfirmAnswered \/ OrphanConfirmed
  \/ SubmitCard \/ CardRefused \/ CardPaid \/ OrphanCard
  \/ Unload \/ Back \/ Arrive \/ ExitCancelled
  \/ Lost \/ ConfirmLost \/ ServerCloses \/ Webhook \/ Reopen

\* Every request is answered or fails.
FairSpec ==
  /\ Init /\ [][Next]_vars
  /\ WF_vars(CardRefused \/ CardPaid)
  /\ WF_vars(ConfirmAnswered \/ ConfirmLost)

(***************************************************************************)
(* Properties                                                              *)
(***************************************************************************)
\* While the bank takes the money of a form in front, the page sends no cancel
\* of its own: neither the button nor the exit handler, whatever the answers of
\* the session, of an earlier cancel or of an earlier confirmation did to busy.
NoCancelWhileCharging ==
  [][(\/ ~wire.cancel /\ wire'.cancel
      \/ ~wire.exit /\ wire'.exit)
       => ~(wire.card = "mine" /\ server.intent = "PENDING")]_vars

\* A payment in progress always ends: the page may be left and cancel again,
\* even when the confirmation fails on its way.
ProgressEnds == pay.inProgress ~> ~pay.inProgress

------------------------------------------------------------------------------
(* The inductive invariant behind the theorem of PagesProofs *)

Fields ==
  /\ DOMAIN pay = DOMAIN FreshPay
  /\ DOMAIN wire = {"load", "create", "undo", "session", "beat", "cancel", "exit", "confirm", "card"}
  /\ DOMAIN server = {"opened", "status", "provider", "intent"}

Confirming == wire.confirm \in {"page", "form"}

\* Until its payment leaves the form's hands, a page that charges is busy and waits
\* for no answer that could enable it, one that is enabled waits for no cancel and
\* no confirmation, and one that waits for a cancel confirms nothing.
PurchaseInv ==
  /\ Fields
  /\ route # "checkout" =>
       pay = FreshPay /\ ~wire.session /\ ~wire.cancel /\ ~Confirming /\ wire.card # "mine"
  /\ route = "checkout" => ~wire.create
  /\ route = "checkout" /\ wire.load =>
       pay = FreshPay /\ ~wire.session /\ ~wire.cancel /\ ~Confirming /\ wire.card # "mine"
  /\ server.status = "CONFIRMED" => server.intent = "SUCCEEDED"
  /\ wire.session => pay.session = "none"
  /\ pay.session # "none" => server.intent # "none"
  /\ pay.session \in {"FREE", "SIMULATED"} => server.intent = "SUCCEEDED"
  /\ wire.card = "mine" => pay.session = "STRIPE_TEST"
  /\ server.intent \in {"none", "PENDING"} =>
       /\ ~(wire.cancel /\ Confirming)
       /\ ~pay.busy => ~wire.cancel /\ ~Confirming
       /\ wire.card = "mine" => pay.busy /\ pay.inProgress /\ ~wire.cancel /\ ~Confirming
===============================================================================
