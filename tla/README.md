# Formal models of the ticket platform

TLA+ models of the backend (`src/backend`, NestJS + Prisma + MySQL/InnoDB) and of
the pages that keep state (`src/frontend`), the TLC runs that check them and the
theorems TLAPS proves about them. The subject is what tests hardly reach:
concurrent buyers, tabs, jobs, webhooks and organisers over the same rows, and
answers that come late, twice, out of order or never.

    tlc -workers 2 -config MCReservations_stock.cfg MCReservations
    tlapm ReservationsProofs.tla

`PROJECT.json` lists the components, the runs, one mutant per property, the source
lines of every definition, the findings, the hazards and the theorems.

## 1. The system

### Inventory

| Part | State | Operations | What must hold |
|---|---|---|---|
| Reservations (`checkouts.service.ts`) | `Checkout`, `CheckoutItem`, `TicketUnit`, `IdempotencyRecord` | create, active, heartbeat, cancel, confirm, job `releaseStale` (10 s), `release` | units are AVAILABLE, HELD by one active checkout or SOLD to one order; all or nothing; one active checkout per user; one checkout per key; every checkout ends |
| Payments (`checkouts.service.ts`, `stripe-test.gateway.ts`, webhook controller) | `paymentReference`, Stripe's intent and refund | payment-session, confirm, webhook, reversal | tickets only for a payment that succeeded; a payment is settled by an order or a refund; nothing is refunded under a confirmed order |
| Orders, tickets, gate (`orders.service.ts`) | `Order`, `IssuedTicket` | cancelOrder, validate, lists | a used ticket is not refunded, a refunded one not admitted; units come back once |
| Events (`events.service.ts`) | `Event`, `TicketType` | create, update, submit, cancel, types | a cancelled event leaves nothing alive; an event under review is immutable |
| Moderation (`admin.service.ts`) | `Event.status` | approve, reject | only PENDING_REVIEW is moderated |
| Capacity (`events.service.ts` 200-224) | `TicketUnit` rows, `TicketType.capacity` | updateCapacity | capacity is the number of units and never below those reserved or sold |
| Media (`events.service.ts` 226-288, `maintenance.service.ts`) | `EventImage`, `MediaDeletion`, object store | add, reorder, remove, cleanup | a cover and six gallery images at most; no row without an object, no object that nobody knows of |
| Invitations, roles (`invitations.service.ts`, `organizer.service.ts`) | `StaffInvitation`, `EventStaff`, `User.role` | invite, revoke, accept, expire, activate | one pending invitation per e-mail and event; roles only accumulate |
| Rate limiter (`bootstrap.ts` 39-68) | map in memory | count a request, sweep | at most `limit` per window and address |
| Profile (`profile.service.ts`) | `UserProfile` | save, CPF check | valid and unique CPF |
| Analytics (`analytics.service.ts`), admin lists (`admin.service.ts` 13-53, 90-162) | none | a query for the events, then eleven at once; paged lists | sections that agree but for the rows that changed between the queries |
| Seed (`prisma/seed.ts`) | every table, the bucket | upserts, look-ups, uploads, one purchase | completes when run again, whatever the payment provider; no row without its object |
| Purchase pages (`EventDetails`, `TicketSelector`, `CheckoutExperience`) | React state and refs | select, reserve, pay, confirm, cancel, heartbeat, exit | no cancel while a card is charged; a payment in progress ends |
| Home page (`HomeExperience`, `HeroCarousel`) | text, suggestions, list, slides | type, choose, page, slide | suggestions of the text in the box; a list asks for pages its filters have |
| Address forms (`ProfileExperience`, `EventEditor`, `lib/cep.ts`) | fields, CEP status | type, look up, save | the street is that of the CEP |
| Gate page (`GateExperience`) | camera, answer | scan, type, reset | the answer is that of the last code |
| Administration's lists (`AdminEvents`, `AdminRecords`) | page, filter | filter, page, retry | the same; a retry repeats the last request |
| QR, auth, audit, mail, health, config | signatures, library sessions, append-only log | sign, guards, probes | no state another part decides from |

### How the parts interact

Through rows and their locks. `create` locks User, then units, then Event (shared);
`confirm` locks Event (shared), then Checkout; `release` locks Checkout; event
cancellation locks Event, its active checkouts, orders and tickets; `cancelOrder`
and `validate` lock Event (shared) and Order. Stripe calls the webhook, at least
once and in any order, and the webhook runs the same `finalizePaidCheckout` as the
buyer's request. Jobs and handlers of one Node process interleave at every `await`.
The pages and the seed know each other only through what the API keeps.

### What is hard

* Reads before the lock that protects them: `create` (line 69, written at 74),
  `releaseStale`/`heartbeat`/`active` (decided before `release` locks),
  `finalizePaidCheckout` (225-237 before the transaction of 243).
* A clock value read at the start of a handler and written later (180, 184).
* Work after a commit that a crash or a gateway failure loses (361, `orders.service.ts` 60-63).
* At-least-once webhooks beside the buyer's own confirmation.
* A job as the only way out for abandoned checkouts.
* Edits of an event, invitations and roles decided from reads without a lock.
* Rows and objects in two systems, each of which may fail alone.
* A script killed between any two of its calls and run again over what it left.
* React handlers whose second half runs in a later render, or after the page is gone.

`PROJECT.json` has the full list under `hazards`, each at its line, with the
properties that cover it or the reason why none does.

## 2. Plan

Done: 1 to 6. The order is that of what a mistake would cost.

1. `Stock` (abstract), `Reservations`, `MCReservations`, `ReservationsProofs`.
2. `Payments`, `MCPayments`, `PaymentsProofs`.
3. `Capacity`, `MCCapacity`, `CapacityProofs`.
4. `EventLifeCycle` (abstract), `EventContent`: edits, moderation and media, which share
   the event's row and its check-then-act reads (RN15, RN22, RN23, DEC-009), with
   `MCEventContent` and `EventContentProofs`.
5. `Accounts`: invitations, roles, profiles (RN19), `MCAccounts`, `AccountsProofs`.
6. The programs around the API, `Purchase`, `SearchBox`, `AddressForm`, `Gate`, `Lists`,
   `Carousel`, `Seed`, `Limiter`, `Analytics`, composed by `Clients`, with `MCClients`.
7. `LockOrder`: the lock requests of create, confirm, release, event cancellation and
   cancelOrder, deadlock detection and the three attempts of `withDeadlockRetry`.
8. A composition of `Reservations` and `Payments` with one clock, and the abstract
   specification of settlement that both implement.

Every invariant and action property of a passing run is a theorem (section 5);
`StockProofs`, `PagesProofs` and `BackstageProofs` came last. Theorems to come: those of
modules 7 and 8.

## 3. Modules

| Module | Models |
|---|---|
| `Stock` | what the stock promises: claims take, sell, return or drop indivisible lots and never share a unit |
| `Reservations` | create, presence, release, confirmation, order cancellation, gate, event cancellation, time and failures |
| `MCReservations` + 2 cfg | small instances |
| `ReservationsProofs` | type correctness and `StockInv` |
| `StockProofs` | whole lots, keys, refunds, and that `Reservations` implements `Stock` |
| `Payments` | sessions, intent, webhook, confirmation read by read, reversals |
| `MCPayments` + 3 cfg | small instances |
| `PaymentsProofs` | type correctness and `PaymentInv` |
| `Capacity` | updateCapacity statement by statement against buyers and other updates |
| `MCCapacity` + 2 cfg | small instances |
| `CapacityProofs` | type correctness, `OccupiedAreKept`, the backing of the capacity by units |
| `EventLifeCycle` | what the platform promises of an event's status |
| `EventContent` | edits, types, capacity, submission, moderation, cancellation, images, their objects and the deletion queue |
| `MCEventContent` + 2 cfg | small instances |
| `EventContentProofs` | type correctness, review, agreed content, media, cover, gallery |
| `Accounts` | invitations read and written late, roles, profiles, the clock and the job |
| `MCAccounts` + 2 cfg | small instances |
| `AccountsProofs` | type correctness, one pending invitation, staff only by acceptance, roles backed and kept |
| `Purchase` | the event and checkout pages of one tab, their requests, the exit handler |
| `SearchBox` | the two suggestion boxes of the home page |
| `AddressForm` | the CEP lookup of the profile and of the event editor |
| `Gate` | the page at the door: readers, manual form, one answer |
| `Lists` | the paged lists of home and administration |
| `Carousel` | the carousel's slides |
| `Seed` | the seed script call by call, killed and run again in a living database |
| `Limiter` | the authentication limiter |
| `Analytics` | the report's concurrent queries over a platform that sells, with `Capacity` for the units of a type |
| `Clients`, `MCClients` + 1 cfg | those nine programs, one at a time, and their instance |
| `PagesProofs` | the properties of `Gate`, `SearchBox`, `AddressForm`, `Lists`, `Carousel` and `Purchase` |
| `BackstageProofs` | those of `Seed`, `Limiter` and `Analytics` |

### Reservations

State. `checkout`, `unit`, `order`, `ticket`, `event` are the tables. An order is
stored under its checkout (`Order.checkoutId` is unique) and its tickets under
checkout and unit. `idempotency` is the table's scope `checkout:create`. `create`
holds the transactions open between the read of line 69 and their commit;
`releasing` the calls of `release` decided and not yet run. `now` is the clock and
`failures` counts lost calls and crashes.

Actions. `CreateFind` is `create` up to line 72, `CreateCommit` the rest of the
transaction and its commit, `CreateAbort` every way it ends without one. `Heartbeat`,
`SeeStale` (`active`, `createPaymentSession`), `ReleaseStale` (the job), `Release`,
`Cancel`, `Confirm` (the transaction of `finalizePaidCheckout`), `CancelOrder`,
`Validate` and `CancelEvent` are one handler or transaction each.

Why a transaction is one step. Under READ COMMITTED with the locks listed above, two
transactions that write common rows are ordered by those locks, and each checks its
guards after taking them. The one exception, `create`, reads a checkout whose row it
locks only when it writes it, and is split there. In the window where `create` has
already locked the units (73) and not yet the Checkout row (74), a confirmation or a
release of that checkout holds Checkout and waits for the units: InnoDB detects the
cycle, rolls one of them back and `withDeadlockRetry` runs it again, so neither
observes the other half done. A rolled-back attempt changes nothing, and is
`CreateAbort` or no step at all.

Clock. A handler reads `now` at its start and writes later; `Recent` lets every action
use any value of the last `Lag` ticks. The job's decision and the release it starts are
separate steps, so a release may come arbitrarily late.

Abstracted: prices, sale windows and inactive types (they only refuse, as `CreateAbort`
does), profile and e-mail checks (same), the order of units within a type (any free
unit may be picked: `SKIP LOCKED` skips what others hold), the batch of 100 of the job
(the next round takes the rest), ownership checks, audit rows.

### Payments

One checkout with its intent, because Stripe's idempotency key is made of the
checkout's id and no two payments share state. `status` merges the closed statuses;
`presence` is what the clock says at an instant (a heartbeat written late may revive
an `absent` checkout, never an `expired` one). `pc` is where each run of
`finalizePaidCheckout` is: `find` (225), `candidate` (230), `authorize` (233),
`record` (237), `commit` (243), `undo` (297), `reverse` (220). `session` is the same
for `createPaymentSession`. `reversing` has the reversals due after a commit.

Stripe is modelled from how the gateway uses it: an intent is paid once and only by a
browser with its secret, a refund leaves its status `succeeded`, an event is delivered
until it is answered with 200 and possibly again. A gateway call that retrieves the
intent and then cancels or refunds it is one step: if the buyer pays in between, Stripe
refuses to cancel, which is the failure of that call.

Left out: `paymentStatus` (never read to decide), the events other than
`payment_intent.succeeded` (they write only that column), free checkouts and the
simulated gateway (no intent, nothing to reverse), livemode, amount and metadata
checks (the intent is the one this server made for this checkout).

### Capacity

One ticket type of a published event: its `capacity` and its numbered `unit` rows.
`update` is where each PATCH of the capacity is, with the capacity it `read`, the one
it was asked for and the numbers (`rows`) it found to add or remove. `updateCapacity`
takes no lock and is READ COMMITTED, so its reads are steps: `Read` (201), `Count`
(208), `Measure` (211 or 215). The statements that write (213 or 217, and 219) are one
step with the commit: the rows they touch stay locked, reservations skip locked rows,
and of two updates that write at once the order of line 219 is the order of their steps.
`Reserve`, `Sell` and `GiveBack` are what the checkout and order handlers do to units;
which units a reservation takes is left open, as `SKIP LOCKED` leaves it.

### EventContent

One event: `status`, the review columns that are set (`marks`), its text (`content`),
whether it has something to sell (`sale`), its images by `kind` and `position`, the
objects in `store`, the rows of `MediaDeletion` (`queue`) and the objects nobody will
remove (`lost`). `submit`, `approve`, `reject` and `cancel` lock the row and are one step.
An edit is at least two: `ReadEdit` is the read and `assertContentEditable`, `Write` the
transaction that follows, with the reset of line 27 decided from the status read. An
upload is `ReadAdd`, `Put` (the object), `Insert` (the row; `Taken` is the unique
position) or `InsertFails` with the object's removal; a removal is `ReadRemove`,
`Delete`, `Erase` or `EraseFails`, which queues the key. When the removal after a failed
insert fails too, the code queues nothing: the key joins `lost`. `JobErase` and
`JobForget` are the two calls of the maintenance job. `Crash` loses all requests.
`agreed` is a history variable, the content that was submitted or cancelled.

Left out: image formats and sizes, the job's delay between attempts (it may run at any
time), a COMMIT whose answer is lost.

### Accounts

`invitation` is the table, with `key` for `dedupKey`; `role`, `staff` and `profile` the
others. `InviteRead`/`InviteWrite`, `RevokeRead`/`RevokeWrite` and `AcceptRead` with
`AcceptWrite` or `AcceptExpires` are the halves of the handlers before and after their
decision; `request.seen` holds the roles of the session. `Activate` locks the row and is
one step; `Cleanup` is the job's `updateMany`. `ListStaff` expires on reading. The mail
sent after an invitation is stored decides nothing: `InviteWrite` covers both outcomes,
and an invitation that was never delivered ends like any other (`PendingEnds`). An
accepted invitation may still end `REVOKED` or `EXPIRED`, since the write does not look
at the status again; the place it gave remains, which is why `StaffIsAccepted` speaks of
`acceptedAt`.

### The clients

`Clients` chooses one of nine programs at the start and runs it alone: they share no
state but what the API keeps, and each module has of that what its program sees
(`server` in `Purchase`, `used` in `Gate`, `db` and `objects` in `Seed`, `events`, `sale`
and the type of `Capacity` in `Analytics`). `Reservations`, `Payments` and `Capacity` model the API's side in full.

A page's state is one record of React state and refs (`shop`, `pay`, `screen`, `boxes`,
...), a handler is split where it awaits: the first part sends (`wire`, `posted`,
`fetches`, `lookups`, `asking`), the answer is an action of its own, and `Lost` is
openapi-fetch's rejection, which ends the handler where it stands. Effects run in the
step that changes what they depend on. Timers (debounce, countdown, heartbeat) may fire
at any time.

* `Purchase`: `Orphan...` actions are handlers that go on after their page is gone;
  `Unload` is `pagehide` or the effect's cleanup with its keep-alive cancel.
* `AddressForm`: a value is named by its source, so a street that survives a change of
  CEP is told from one typed or stored.
* `Lists`: `list.of` is the request whose answer is on the screen, `last` the one made
  last. `KeptPage` is where the two kinds of list differ: the catalogue takes its page
  from the answer, the administration keeps the page that was chosen.
* `Seed`: `Script` is the list of calls the fixtures give (`SEED_DEMO_DATA=true`); `found`
  is what a call read for the next one. `Crash` kills it, `Rerun` is a start after an
  error, `Restart` one after a success, and the application cancels events, sells,
  shrinks and grows meanwhile (`Meddle`). Its own checkout holds a unit until confirmed,
  or until its presence has lapsed and the job or the next `create` closes it
  (`Abandoned`). `provider` decides whether the confirmation is approved: with Stripe the
  script has no payment to show.
* `Limiter`: one table per process; `Restart` forgets it. `passed` is a history variable:
  what passed of each address up to every moment, from which the attempts of any window
  are a difference.
* `Analytics`: one section of the report is followed. `Ask` is the first query, each of
  the others a step (`Read`) that keeps the rows it found; what the API answers is their
  number. The ranking holds at most `Top` events (`take: 10`). Buyers, the gate and event
  cancellations move the checkouts of several events (`sale`); the type of one event and
  its units are an instance of `Capacity`, so that one update moves the capacity by any
  amount and may leave the units off it for good. `touched` is a history variable, the
  rows changed since the report was asked for. Every ticket has one price: with several,
  the sums would add amounts to the numbers of rows.

### Observed

The models show more than the five findings of section 4. Where a document says otherwise,
a property of a passing run tells how far the code goes:

* `docs/05-decisoes.md:11` (DEC-009) and `backend/README.md:147` allow six gallery images.
  An upload counts the images before it stores its object and never again
  (`events.service.ts:233`). The unique position stops most overlaps, but not an upload
  whose position has become free: with limit 2, one request reads the empty gallery
  (position 1), others add positions 1 and 2, remove the first and add position 3, and the
  first request inserts the third image. `GalleryNearLimit` bounds the excess by the
  requests that overlap.
* The same sentences say that removals that fail enter a persistent queue. When the row of
  an upload is refused, the failed removal of its object is swallowed
  (`events.service.ts:248`) and nothing is queued: the object stays in the bucket and
  nobody knows of it, without any crash. `MediaInv` accounts for such objects as `lost`;
  the removal of an image (283) does queue its failure.
* `README.md:30` calls the seed one-shot and idempotent, and `README.md:41-58` documents
  `PAYMENT_PROVIDER=stripe_test` for `docker compose up`. The seed confirms a checkout for
  which it has opened no payment (`seed.ts:428`), which Stripe's gateway never approves
  (`stripe-test.gateway.ts:31`, `checkouts.service.ts:236`): it ends in an error every time,
  and the API, which waits for its success (`docker-compose.yml:112`), does not start on a
  new database. `SeedEnds` says both: it completes with simulated payments, never with
  Stripe.
* `docs/02-requisitos.md:11` (RF07) calls the confirmation of a checkout immutable. `create`
  reads the buyer's earlier checkout without its lock (`checkouts.service.ts:69`) and closes
  it by its id alone (74), also when a confirmation with a clock value read just before the
  lapse has been committed in between: the confirmed checkout becomes ABANDONED. The stock
  and the order are safe even so: `SoldToOneOrder` and `ImplementsStock` hold with it.

And behaviour that contradicts no sentence of the documents:

* Lists: the answer of an earlier filter may overwrite a later one, and is shown under the
  filter chosen since (`HomeExperience.tsx:120`, `AdminRecords.tsx:37`). On the home page
  a late failure also sets the page that "Tentar novamente" asks for, with the newer
  filters, and a late success does not take an error message away. `RequestsFitChoice`
  says what holds in spite of that.
* A request that rejects leaves its spinner on: lists, gate and event page have no `finally`.
* The availability filter is applied after the page is cut (`events.service.ts:80`).
* Gate: a camera stopped, or a code typed and accepted, while the reader is starting
  leaves that reader on and out of reach; an audit failure after the commit answers
  with an error for a ticket that is now used.
* Address: a form loaded again looks up its stored CEP and may replace the stored street;
  saving another panel of the event editor reloads the form over unsaved edits; a CEP the
  directory refused is accepted by the profile when it is typed again.
* Purchase: cancel answers 200 for a confirmed checkout as well; the link back keeps the
  reservation; a charge left PROCESSING can be followed by a cancel.
* Seed: run again it publishes an event that was cancelled since and writes its users'
  roles again (`seed.ts:57`, `339-357`).
* The report ends in an error when a type is created between two of its queries
  (`analytics.service.ts:59`).
* `release` does not check again that a checkout is stale: a heartbeat between the
  decision and the release does not save it (`checkouts.service.ts:345`).

## 4. Runs

| Run | Instance | Shows |
|---|---|---|
| `stock` | 2 buyers, 1 unit, 2 checkouts, TTL 3, presence 2, clock 0..4, 1 failure or crash | `TypeOK`, `HeldByActive`, `SoldToOneOrder`, `UsedIsNeverRefunded`, the refinement `ImplementsStock`, and `ActiveEnds` under `Fairness` |
| `tabs` | 1 buyer, 2 concurrent creates with 2 keys, 2 types of one event (3 units), TTL 1, lag 1, clock 0..2 | the inductive `StockInv`, `AllOrNothing`, `OneActivePerUser`, `OneCheckoutPerKey`, `CancelledEventIsClosed` |
| `payments` | 1 buyer's confirm, 2 webhooks, 2 sessions, 2 failures | `OrderIsPaid`, `AckedIsSettled`, `PaymentInv`, and `PaidIsSettled` under `Fairness` |
| `refund` | 1 confirm, 1 webhook, no failure | violation of `ConfirmedIsNotRefunded` |
| `reuse` | 1 confirm, 1 webhook, no failure | violation of `RefundedMakesNoOrder` |
| `updates` | 2 requests, capacity 2, numbers up to 3 | `OccupiedAreKept`, `CurrentReadKeepsBacking` |
| `shrink` | 1 request, 2 units | violation of `CapacityCoversOccupied` |
| `content` | 2 edits, 3 images, gallery limit 2, positions to 3, 1 failure or crash | `ReviewTrail`, `StaysAsAgreed`, `AgreedLifeCycle`, `GalleryNearLimit`, `OneCover`, `MediaInv` |
| `lifecycle` | 1 edit, no failure | violation of `ImplementsLifeCycle` |
| `accounts` | 2 users, 1 event, 2 invitations, 2 requests, TTL 1, clock 0..2 | `OnePending`, `StaffIsAccepted`, `RolesAreBacked`, `RolesKept`, and `PendingEnds` under `Fairness` |
| `role` | 1 user, 1 invitation, 1 request | violation of `RolesAccumulate` |
| `clients` | below | `NoCancelWhileCharging`, `ProgressEnds`, `SuggestionsFitText`, `AddressFitsCep`, `AnswerFitsCode`, `RequestsFitChoice`, `SlidesAroundFront`, `SeedEnds`, `CoverStored`, `LimitHolds`, `TornByChangedRowsOnly` |

Each property of a passing run has a mutant: an operator beside the one it replaces
(`..._AnyStatus`, `..._KeepsUnits`, ...) with a bug a change could bring in, under
which TLC finds the property violated. The `TypeOK` of `Payments`, `Capacity`,
`EventContent` and `Accounts` is proved and needs no run.

Bounds. `Horizon` bounds the clock; checkouts are created only while their deadline
fits (`at + TTL <= Horizon`), so each of them can lapse, expire and be released. `Lag`
is how old a handler's clock may be: 1 tick is enough to reorder any two clock reads
around a deadline, and 0 is used where time is not the question. `MaxFailures` bounds
lost calls and crashes; a longer run of failures only repeats the same loss. Two
checkouts are enough for every property that relates two owners of one unit or two
checkouts of one user (each mentions at most two); two types, one of them with one unit,
for partial selections. `MaxSequence` bounds the numbers of units: 3 lets two requests create the
same number, remove the same unit, and cross one that grows with one that shrinks.
In `content` two edits are enough for a stale write over any other action, and with a
gallery limit of 2 the third image passes the limit by an upload counted too early.
In `accounts` the second request makes the race, the second invitation the competition
for one key, and clock 2 lets both expire.

`clients`: 2 checkouts one after the other, with 1 unit on offer (the earlier one is
still active, or another buyer has the unit); 2 texts and 3 changes, so a text may be
left and typed again, with 1 suggestion each; 2 CEPs, one without a street, 3 acts; 3
tickets of which 2 are admitted, 2 readers and 4 codes; filters with 3, 1 and no pages
and 4 requests; up to 8 featured events, one above what the carousel takes; a seed of
capacity 2, with each payment provider, killed or restarted once and disturbed once; 2
addresses, limit 2, a window of 2 ticks, a table that is swept above 1 entry, 3 attempts
in each of 5 moments; 2 events, 2 checkouts and a ranking of 1 event, so that it is full
and lacks part of the revenue, 1 update of a capacity of 1 to any up to 2 beside a buyer
of its units. `which` has only one first state where the program that runs is another.
The unbounded cases of the safety properties in section 5 do not rest on these bounds.

Fairness. `Reservations`: the clock advances, Nest's interval keeps firing the job, and
a `release` call that was started is run (the only exception counts in `failures`).
Nothing is assumed of buyers, organisers, the gate or of `create` transactions.
`Payments`: Stripe redelivers an event until it is answered 200, and a handler that has
started runs on; failures are finite, as Stripe retries for days. Buyers'
requests, the job and the reversals after a commit need never run. `Accounts`: the clock
and the job. `Purchase`: a card that was submitted is answered, and a confirmation is
answered or fails. `Seed`: a script that runs takes its next step, and its own abandoned
checkout is closed, by the job of a running API or, when the next `create` comes, by that;
kills are finite. Nothing starts a seed again that ended in an error (`restart: "no"`), so
`SeedEnds` has that as its premise: if whoever runs it starts it after each failure, and
payments are simulated, it completes. The other programs assume nothing.

### Findings

* `refund`: `finalizePaidCheckout` reads the order (225) and the checkout (230) in two
  steps. A webhook between which the buyer's confirmation commits sees no order and a
  checkout that is not active, and reverses the payment of a confirmed order, where
  `docs/06-api.md:25` promises an idempotent recovery.
* `reuse`: a refused confirmation refunds (297) and leaves the checkout active; a
  heartbeat with an older clock revives it and the next confirmation is approved,
  since a refunded intent is still `succeeded` (`docs/03-regras-de-negocio.md:20`).
* `shrink`: a unit reserved after `updateCapacity` listed it is not deleted, and the
  capacity is lowered as if it had been, below the units held
  (`docs/03-regras-de-negocio.md:13`, RN11).
* `lifecycle`: an edit that read REJECTED writes DRAFT over the status the event has by
  then, also PUBLISHED or CANCELLED (`docs/03-regras-de-negocio.md:24`, RN22). While no
  edit was in flight at the submission the life cycle holds (`AgreedLifeCycle`).
* `role`: `acceptStaff` writes roles computed from the session and takes away one that
  was gained since (`docs/01-visao-geral.md:22`).

## 5. Proofs

For every value of the constants that satisfies the modules' assumptions (finite set of
units; `Null` outside the ids; disjoint sets of clients and hooks; natural bounds; names
that stand for texts and CEPs told apart, a limit and a window that are numbers).

`ReservationsProofs`: `TypeCorrect`, then `StockIsKept` (`Spec => []StockInv`) and its
consequences `HeldOnlyByActive`, `NeverOversold`, `OneCheckoutAtATime`,
`CancelledEventStaysClosed`. The safety properties are not inductive alone. `Confirm`
sells the units the checkout holds and issues tickets type by type, so `SoldToOneOrder`
needs that held units are of wanted types (`HeldIsWanted`). `CancelOrder` frees units
through its tickets, which needs that orders and tickets agree (`TicketsFollowOrder`)
and that an order exists only after its checkout has ended (`OrderEndsCheckout`).
`OneActivePerUser` survives `CreateCommit` because a user's lock is held by one
transaction (`LockedUsers`) and nobody else can give that user an active checkout while
it is (`FoundIsCurrent`); it is also why overwriting a confirmed checkout's status does
no harm to the stock. One lemma per action shows that `StockInv` is kept.

`StockProofs` builds on `StockInv`. `OneCheckoutForEachKey`: only the commit of `create`
writes keys and opens rows, and it writes one of each. `NoRefundOfAUsedTicket` is an
action property that follows from `TicketsFollowOrder`. `SelectionsStayWhole` (`Spec =>
[]AllOrNothing`) counts: the commit picks as many free units of each type as were asked
for, a confirmation turns the held units into tickets one for one, and every other step
leaves the two sets or empties a closed checkout's; `FreedHeld`, `HeldApart` and
`ClosedHoldsNone` say why the steps of one checkout do not touch the units of another.
`TablesImplementStock` (`Spec => ImplementsStock`) maps each action to one of `Stock`:
`CreateCommit` is `Take` (with the stale checkout dropped in the same step),
`Release` and `CancelEvent` are `Drop` (of the active checkouts of that event),
`Confirm` is `Sell`, `CancelOrder` is `Return`, and what is left moves no lot.
`AbstractStep` shows that `Stock` keeps its promise `Disjoint`, so `LotsAreDisjoint`
reads it back for the tables.

`PaymentsProofs`: `PaymentsTyped`, `PaymentIsKept` (`Spec => []PaymentInv`),
`OrdersArePaid`, `AnsweredWebhooksAreSettled`. `PaymentInv` adds to the two safety
properties what a handler's place means (past the authorisation the intent has
succeeded; a webhook's event was sent) and that a browser has a secret only after the
reference is stored, so no webhook is answered for lack of a checkout.

`CapacityProofs`, for any number of requests: `CapacityTyped`, `OccupiedUnitsStay`
(`Spec => OccupiedAreKept`) and `BackingIsKept` (`Spec =>
CurrentReadKeepsBacking`: a capacity written from a read that is still current is backed
by units). `CapacityIsBacked` concludes `Spec => []UnitsBackCapacity` from `Alone`, one
request at a time. `UnitsBackCapacity` is not inductive: `Write` removes a list made
earlier, so the induction carries that the list is as long as the two capacities differ
(`ListIsExact`, which the proofs define) and that a single request still knows the type's capacity
(`KnowsCapacity`); the theorems on cardinalities do the rest. Without `Alone`
`UnitsBackCapacity` fails: two requests that start from one capacity both write, and the
second total has no rows behind it.

`EventContentProofs`: `ContentTyped`, then `ReviewIsTraced` (the review columns fit the
status and survive late edits), `AgreedStays` and `AgreedFollowsLifeCycle` (nothing
changes an event submitted or cancelled while no edit was in flight: the induction
carries that no request in flight has a reading from before), `MediaIsKept` (a row has
its object, an object without a row is in a request's hands, queued or lost) through the
strengthening `Own`, by which every key in flight belongs to one request; `CoverIsOne`
through `Places` (a position has one row and the cover is at position 0), and
`GalleryStaysNearLimit`, by counting: a gallery at its limit and the uploads in flight
exceed it by fewer images than there are requests.

`AccountsProofs`: `AccountsTyped`, `OnlyOnePending` through `OneKey` (the unique key is
set exactly while an invitation is pending), `StaffIsFromAcceptance`, and
`RolesStandOnTables` (`RolesAreBacked`) and `RolesAreKept`
through `RolesInv` (`Backed`: what a session has read is backed by what the tables
still hold).

`PagesProofs` and `BackstageProofs` are about `Clients`: `ClientsSpec` implies the
property of each program, whichever program runs, since a step of one is a step or a
stutter of every other (`PagesNext`, `BackstageNext`).

* `AnswersFitCodes`, by `GateInv`: one code is under way at most, the one sent last, and
  none once the reference lets another through.
* `SuggestionsFit`, by `SearchInv`: a request the box listens to asks for the text typed,
  and no timer runs beside it. The invariant is needed because an answer in time is put on
  the screen without a second look at the text.
* `AddressesFit`, by `AddressInv`: a lookup that is not aborted is for the CEP in the form,
  and a field that differs from its snapshot was filled for that CEP, typed or loaded since.
* `RequestsFitTheChoice`, an action property, by `ListInv`: the filters in the state are
  those of the last request, in the administration the page too, and an answer to that
  request brings its page and the number of pages of its filters. The invariant says
  nothing of the rows of a late answer, and the property holds for the others only.
* `SlidesStandAround`, by `CarouselInv` and arithmetic on a circle of at most seven.
* `NoCancelDuringACharge`, an action property, by `PurchaseInv`: while the payment is in the
  form's hands the page is busy and waits for no answer that could enable it. It says for
  each request on the wire what the page knows; `PurchaseStep` has a case per action.
* `CoversAreStored`, by `CoverInv`, on the order of the seed's script: `Ordered` says which
  call follows which, it holds for `Script`, and each step that needs an object comes after
  the call that stores it. Killing and starting again moves to the first call.
* `LimitsHold`, by `LimiterInv`: a bucket's counter is what passed since it began, and
  without a bucket nothing passed at this moment and at most `Limit` in the last window.
  Any window of `TTL` moments meets two buckets, hence twice the limit and not once.
* `ReportsTornByChangedRowsOnly`, by `ReportInv`: until the report is composed, the rows a
  query found are those it would find now, but for the rows in `touched`. It relates each
  answer to the tables and not to other answers, so that the order of the queries does
  not matter; two answers then differ by rows of `touched`, and the theorems on
  cardinalities turn that into the numbers of the report. For the ranking it adds that
  one with fewer than `Top` events has all that sell.

Only model-checked: liveness (`ActiveEnds`, `PaidIsSettled`, `PendingEnds`,
`ProgressEnds`, `SeedEnds`), since neither fairness nor ENABLED is within the prover's
reach. The properties of the runs that expect a violation are refuted, not proved.

## 6. Not modelled

* To come: the order of row locks and its retries (`LockOrder`, section 2).
* Authentication and authorisation: Better Auth's sessions and `set-role`, guards that
  read the session; their effect is the actor of each action.
* Encryption of CPFs and QR signatures (cryptography); check digits of a CPF.
* Audit, mail, health, configuration, problem bodies: no state another part decides from.
* The removal of idempotency records after 24 hours, a COMMIT whose answer is lost.
* Detail queries and the names, dates and hours of the report (read-only).
* Pages that load once and call one route (orders, tickets, the editor's panels,
  sessions), layout, and the vendored components of `components/ui`.
* Shell scripts, migrations and container files.
