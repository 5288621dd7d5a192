-------------------------------- MODULE Clients --------------------------------
(***************************************************************************)
(* The programs around the transactions of the backend: the pages of the   *)
(* browser, the seed script, the limiter in front of the routes and the    *)
(* report of the sales.  They share no state but what the API keeps, which *)
(* each module reduces to what its program sees; which one runs is chosen  *)
(* at the start.  The seed is extended, the others are instances.          *)
(***************************************************************************)
EXTENDS Seed

CONSTANTS
  MaxCheckouts, MaxPerOrder, Available,                  \* Purchase
  Words, MaxFound, MaxEdits,                             \* SearchBox
  Ceps, WithStreet, MaxActs,                             \* AddressForm
  Tickets, Issued, MaxReaders, MaxScans,                 \* Gate
  Filters, Pages, MaxAsked,                              \* Lists
  MaxFeatured,                                           \* Carousel
  Keys, Limit, TTL, MaxBuckets, Horizon, MaxAttempts,    \* Limiter
  EventId, Main, CheckoutId, Top,                        \* Analytics
  Update, Initial, MaxSequence                           \* and its Capacity

\* What the names of texts and CEPs stand for is told apart.
ASSUME ClientsAssumption ==
  /\ "short" \notin Words
  /\ WithStreet \subseteq Ceps
  /\ Ceps \cap {"empty", "unknown", "partial", "typed", "stored"} = {}
  /\ Pages \in [Filters -> Nat]
  /\ MaxFeatured \in Nat /\ MaxFound \in Nat
  /\ Limit \in Nat /\ TTL \in Nat \ {0} /\ Horizon \in Nat \ {0}
  /\ IsFiniteSet(EventId) /\ IsFiniteSet(CheckoutId) /\ Main \in EventId
  /\ Top \in Nat /\ Initial \in Nat /\ MaxSequence \in Nat

VARIABLES
  which,                                                 \* the program that runs
  route, shop, pay, wire, server,                        \* Purchase
  boxes, skip, fetches, edits,                           \* SearchBox
  page, form, cep, lookups, saved, acts,                 \* AddressForm
  screen, camera, posted, used, scans,                   \* Gate
  kind, list, asking, last, asked,                       \* Lists
  hero,                                                  \* Carousel
  now, authAttempts, passed, tried,                      \* Limiter
  section, events, sale, types, capacity, unit, update,  \* Analytics
  stage, listed, answers, touched

Buying    == INSTANCE Purchase
Searching == INSTANCE SearchBox WITH asked <- fetches
Address   == INSTANCE AddressForm
Door      == INSTANCE Gate
Paging    == INSTANCE Lists
Showing   == INSTANCE Carousel
Limiting  == INSTANCE Limiter
Reporting == INSTANCE Analytics

tab == <<route, shop, pay, wire, server>>
search == <<boxes, skip, fetches, edits>>
address == <<page, form, cep, lookups, saved, acts>>
gate == <<screen, camera, posted, used, scans>>
paged == <<kind, list, asking, last, asked>>
shown == <<hero>>
table == <<now, authAttempts, passed, tried>>
report ==
  <<section, events, sale, types, capacity, unit, update, stage, listed, answers, touched>>

clientsVars ==
  <<which, tab, search, address, gate, paged, shown, vars, table, report>>

Programs == {"buying", "searching", "address", "door", "paging", "showing",
             "seeding", "limiting", "reporting"}

\* Of the first states of a program that does not run one is enough.
ClientsInit ==
  /\ which \in Programs
  /\ Buying!Init /\ Searching!Init /\ Address!Init /\ Door!Init
  /\ Paging!Init /\ Showing!Init /\ Init /\ Limiting!Init
  /\ Reporting!Init
  /\ which # "address" => page.kind = "new"
  /\ which # "paging" => kind = "home" /\ list.filters = CHOOSE f \in Filters : TRUE
  /\ which # "seeding" => objects = {} /\ provider = CHOOSE p \in PaymentProviders : TRUE
  /\ which # "reporting" =>
       section = "sales" /\ events = [e \in EventId |-> "LIVE"]

Buys ==
  /\ which = "buying" /\ Buying!Next
  /\ UNCHANGED <<which, search, address, gate, paged, shown, vars, table, report>>

Searches ==
  /\ which = "searching" /\ Searching!Next
  /\ UNCHANGED <<which, tab, address, gate, paged, shown, vars, table, report>>

FillsIn ==
  /\ which = "address" /\ Address!Next
  /\ UNCHANGED <<which, tab, search, gate, paged, shown, vars, table, report>>

LetsIn ==
  /\ which = "door" /\ Door!Next
  /\ UNCHANGED <<which, tab, search, address, paged, shown, vars, table, report>>

Turns ==
  /\ which = "paging" /\ Paging!Next
  /\ UNCHANGED <<which, tab, search, address, gate, shown, vars, table, report>>

Shows ==
  /\ which = "showing" /\ Showing!Next
  /\ UNCHANGED <<which, tab, search, address, gate, paged, vars, table, report>>

Seeds ==
  /\ which = "seeding" /\ Next
  /\ UNCHANGED <<which, tab, search, address, gate, paged, shown, table, report>>

Limits ==
  /\ which = "limiting" /\ Limiting!Next
  /\ UNCHANGED <<which, tab, search, address, gate, paged, shown, vars, report>>

Reports ==
  /\ which = "reporting" /\ Reporting!Next
  /\ UNCHANGED <<which, tab, search, address, gate, paged, shown, vars, table>>

ClientsNext ==
  \/ Buys \/ Searches \/ FillsIn \/ LetsIn \/ Turns \/ Shows
  \/ Seeds \/ Limits \/ Reports

\* The fairness of the programs that have one, when they run.
ClientsSpec ==
  /\ ClientsInit /\ [][ClientsNext]_clientsVars
  /\ WF_tab(which = "buying" /\ (Buying!CardRefused \/ Buying!CardPaid))
  /\ WF_tab(which = "buying" /\ (Buying!ConfirmAnswered \/ Buying!ConfirmLost))
  /\ WF_vars(which = "seeding" /\ Step)
  /\ WF_vars(which = "seeding" /\ Abandoned)

-----------------------------------------------------------------------------
(* Properties of the programs *)

\* While the bank takes the money of a form in front, the page sends no cancel
\* of its own: neither the button nor the exit handler.
NoCancelWhileCharging == Buying!NoCancelWhileCharging

\* A payment in progress always ends, even when its confirmation fails on its way.
ProgressEnds == Buying!ProgressEnds

\* The suggestions on the screen are those of the text in the box.
SuggestionsFitText == Searching!SuggestionsFitText

\* The address a lookup filled in is that of the CEP in the form.
AddressFitsCep == Address!AddressFitsCep

\* The answer at the gate is that of the last code sent.
AnswerFitsCode == Door!AnswerFitsCode

\* Unless a late answer is on the screen a list asks for pages that exist, and Retry
\* repeats the request made last, in the administration in any case.
RequestsFitChoice == Paging!RequestsFitChoice

\* The slides stand around the front one by the shortest way.
SlidesAroundFront == Showing!SlidesAroundFront

\* A seed that is started again after each failure completes, whatever a kill or its
\* own earlier checkout has left, with simulated payments, and never with Stripe.
SeedEnds == which = "seeding" => SeedCompletes

\* An address passes at most twice the limit in the length of one window, and is
\* refused for its own attempts only.
LimitHolds == Limiting!LimitHolds

\* The sections of a report disagree by no more than the rows that changed meanwhile.
TornByChangedRowsOnly == Reporting!TornByChangedRowsOnly
===============================================================================
