--------------------------------- MODULE Seed ---------------------------------
(***************************************************************************)
(* prisma/seed.ts, the script that fills a database with its first users,  *)
(* events, images, units and one order (SEED_DEMO_DATA is true, as in the  *)
(* compose file).  It runs at every start of the compose file and may be   *)
(* killed between any two of its calls, in the midst of an application     *)
(* that serves; it may then be run again.  Its idempotence is made of      *)
(* look-ups, upserts and unique keys, and its objects are stored in        *)
(* another system than their rows.                                         *)
(***************************************************************************)
EXTENDS Integers, FiniteSets, Sequences

CONSTANTS
  Capacity,          \* units of a ticket type of the fixtures
  PaymentProviders,  \* the values of PAYMENT_PROVIDER
  MaxCrashes,        \* kills, stalls and further starts of the script
  MaxMeddling        \* what the application does meanwhile, one bound for all of it

ASSUME SeedAssumption ==
  /\ Capacity \in Nat \ {0} /\ MaxCrashes \in Nat /\ MaxMeddling \in Nat
  /\ PaymentProviders \subseteq {"simulated", "stripe_test"}

VARIABLES
  provider, \* of payments, in the environment that the compose file passes on
  at,       \* the step of Script to come, 0 after an error
  found,    \* what it read and has yet to use
  db,       \* the rows
  objects,  \* the keys of the bucket
  spent     \* crashes and meddling so far

vars == <<provider, at, found, db, objects, spent>>

(***************************************************************************)
(* The fixtures, the main one last but two, and the script they make       *)
(***************************************************************************)
Fixture(slug, gallery, tickets) == [slug |-> slug, gallery |-> gallery, tickets |-> tickets]

fixtures ==
  << Fixture("corrida", 0, <<"kit">>),
     Fixture("aurora", 0, <<"pista", "meia">>),
     Fixture("sabores", 0, <<"entrada", "passaporte">>),
     Fixture("futuro", 2, <<"standard", "estudante">>),
     Fixture("indie", 0, <<"pista", "meia">>),
     Fixture("luzes", 0, <<"plateia", "balcao">>),
     Fixture("museu", 0, <<"entrada", "meia">>) >>

Users == <<"admin", "organizer", "gate", "customer">>
Slugs == {fixtures[i].slug : i \in DOMAIN fixtures}
Types == UNION {{<<fixtures[i].slug, t>> : t \in {fixtures[i].tickets[j] : j \in DOMAIN fixtures[i].tickets}}
                : i \in DOMAIN fixtures}
Featured == "indie"
Full == <<Featured, "pista">>

Do(what, on) == <<[what |-> what, on |-> on]>>

\* One call after the other, each a step of its own.
EnsureUser(i) == Do("createUser", Users[i]) \o Do("updateUser", Users[i])

EventSteps(f) ==
  Do("event", f.slug)
    \o Do("putCover", f.slug) \o Do("coverRow", f.slug) \o Do("oldCover", f.slug)
    \o (IF f.gallery = 0 THEN <<>>
        ELSE Do("gallery", <<f.slug, "one">>) \o Do("galleryRow", <<f.slug, "one">>)
               \o Do("gallery", <<f.slug, "two">>) \o Do("galleryRow", <<f.slug, "two">>))
    \o Do("findType", <<f.slug, f.tickets[1]>>) \o Do("saveType", <<f.slug, f.tickets[1]>>)
    \o Do("units", <<f.slug, f.tickets[1]>>)
    \o (IF Len(f.tickets) = 1 THEN <<>>
        ELSE Do("findType", <<f.slug, f.tickets[2]>>)
               \o Do("saveType", <<f.slug, f.tickets[2]>>)
               \o Do("units", <<f.slug, f.tickets[2]>>))
    \o Do("staff", f.slug)

Script ==
  EnsureUser(1) \o EnsureUser(2) \o EnsureUser(3) \o EnsureUser(4)
    \o Do("profile", "customer") \o Do("profile", "organizer") \o Do("categories", "none")
    \o EventSteps(fixtures[1]) \o EventSteps(fixtures[2]) \o EventSteps(fixtures[3])
    \o EventSteps(fixtures[4]) \o EventSteps(fixtures[5]) \o EventSteps(fixtures[6])
    \o EventSteps(fixtures[7])
    \o Do("legacy", "none") \o Do("findOrder", "none")
    \o Do("checkout", "none") \o Do("confirm", "none")

(***************************************************************************)
(* A database that is empty, or that an older script left: a festival that *)
(* is no longer a fixture, and the event in the middle with a cover and a  *)
(* gallery stored under other keys.                                        *)
(***************************************************************************)
Nothing == [users |-> [u \in {Users[i] : i \in DOMAIN Users} |-> "none"],
            profiles |-> {}, categories |-> FALSE,
            event |-> [s \in Slugs |-> "none"],
            cover |-> [s \in Slugs |-> "none"],
            gallery |-> [n \in {"one", "two"} |-> "none"],
            capacity |-> [t \in Types |-> 0], units |-> [t \in Types |-> {}],
            sold |-> {}, staff |-> {}, legacy |-> "none",
            checkout |-> "none", held |-> 0, order |-> FALSE]

Older == [Nothing EXCEPT !.event["futuro"] = "PUBLISHED", !.cover["futuro"] = "older",
                         !.gallery["one"] = "older", !.legacy = "PUBLISHED"]

Idle == [old |-> "none", units |-> 0]

Init ==
  /\ provider \in PaymentProviders
  /\ at = 1
  /\ found = Idle
  /\ \/ db = Nothing /\ objects = {}
     \/ db = Older /\ objects = {<<"futuro", "older">>, <<"futuro", "olderOne">>}
  /\ spent = [crashes |-> 0, meddling |-> 0]

(***************************************************************************)
(* The steps                                                               *)
(***************************************************************************)
Failed == 0
Running == at \in DOMAIN Script
Is(what) == Running /\ Script[at].what = what
On == Script[at].on

Goes(d, o) ==
  /\ at' = at + 1
  /\ db' = d
  /\ objects' = o
  /\ UNCHANGED <<provider, spent>>

\* A call that throws: finally closes the application, the process ends in error.
Throws ==
  /\ at' = Failed
  /\ found' = Idle
  /\ UNCHANGED <<provider, db, objects, spent>>

\* Mutant: the user is created without looking for it.
CreateUser_Blind(u) ==
  IF db.users[u] # "none" THEN Throws
  ELSE Goes([db EXCEPT !.users[u] = "plain"], objects) /\ UNCHANGED found

\* ensureUser(): created without its domain roles unless it is there ...
CreateUser(u) ==
  /\ Goes([db EXCEPT !.users[u] = IF @ = "none" THEN "plain" ELSE @], objects)
  /\ UNCHANGED found

User == Is("createUser") /\ CreateUser(On)

\* ... and given them in a second call.
Role ==
  /\ Is("updateUser")
  /\ Goes([db EXCEPT !.users[On] = "complete"], objects)
  /\ UNCHANGED found

\* Upserts and an update that find or make their row.
Profile ==
  /\ Is("profile")
  /\ Goes([db EXCEPT !.profiles = @ \cup {On}], objects)
  /\ UNCHANGED found

Categories ==
  /\ Is("categories")
  /\ Goes([db EXCEPT !.categories = TRUE], objects)
  /\ UNCHANGED found

Staff ==
  /\ Is("staff")
  /\ Goes([db EXCEPT !.staff = @ \cup {On}], objects)
  /\ UNCHANGED found

Legacy ==
  /\ Is("legacy")
  /\ Goes([db EXCEPT !.legacy = IF @ = "none" THEN @ ELSE "CANCELLED"], objects)
  /\ UNCHANGED found

\* The upsert publishes the event, a cancelled one too.
Event ==
  /\ Is("event")
  /\ Goes([db EXCEPT !.event[On] = "PUBLISHED"], objects)
  /\ UNCHANGED found

PutCover ==
  /\ Is("putCover")
  /\ Goes(db, objects \cup {<<On, "seed">>})
  /\ UNCHANGED found

\* Mutant: the object that is replaced is removed before its row is changed.
CoverRow_RemoveFirst(s) ==
  /\ Goes(IF db.cover[s] \in {"none", "seed"} \/ <<s, db.cover[s]>> \notin objects
          THEN [db EXCEPT !.cover[s] = "seed"] ELSE db,
          objects \ ({<<s, db.cover[s]>>} \ {<<s, "seed">>}))
  /\ found' = [found EXCEPT !.old = db.cover[s]]

\* The row takes the new key, and the old one is remembered.
CoverRow(s) ==
  /\ Goes([db EXCEPT !.cover[s] = "seed"], objects)
  /\ found' = [found EXCEPT !.old = db.cover[s]]

Cover == Is("coverRow") /\ CoverRow(On)

\* The old object is removed, or its removal fails and is forgotten.
OldCover ==
  /\ Is("oldCover")
  /\ \/ found.old \notin {"none", "seed"}
        /\ Goes(db, objects \ {<<On, found.old>>})
     \/ Goes(db, objects)
  /\ found' = Idle

PutGallery ==
  /\ Is("gallery")
  /\ Goes(db, objects \cup {On})
  /\ UNCHANGED found

\* A row of the same key is written again, a position that is taken is left.
GalleryRow ==
  /\ Is("galleryRow")
  /\ Goes([db EXCEPT !.gallery[On[2]] = IF @ = "none" THEN "seed" ELSE @], objects)
  /\ UNCHANGED found

\* ensureTicketType(): counts the units, saves the larger capacity, adds units.
FindType ==
  /\ Is("findType")
  /\ Goes(db, objects)
  /\ found' = [found EXCEPT !.units = IF db.capacity[On] = 0 THEN 0
                                      ELSE Cardinality(db.units[On])]

Wanted == IF found.units > Capacity THEN found.units ELSE Capacity

SaveType ==
  /\ Is("saveType")
  /\ Goes([db EXCEPT !.capacity[On] = Wanted], objects)
  /\ UNCHANGED found

\* createMany(): what is there already is skipped.
Units ==
  /\ Is("units")
  /\ Goes([db EXCEPT !.units[On] = @ \cup 1 .. Wanted], objects)
  /\ found' = Idle

\* An order of the customer for the main event ends the script.
FindOrder ==
  /\ Is("findOrder")
  /\ at' = IF db.order THEN Len(Script) + 1 ELSE at + 1
  /\ UNCHANGED <<provider, found, db, objects, spent>>

Free == db.units[Full] \ (db.sold \cup {db.held})

\* create(): one unit of the main type, unless a checkout of an earlier run is
\* still active, the event was cancelled or nothing is left.
Checkout ==
  /\ Is("checkout")
  /\ IF \/ db.checkout = "ACTIVE"
        \/ db.event[Featured] # "PUBLISHED"
        \/ Free = {}
     THEN Throws
     ELSE /\ Goes([db EXCEPT !.checkout = "ACTIVE",
                             !.held = CHOOSE u \in Free : \A v \in Free : u <= v], objects)
          /\ UNCHANGED found

\* authorize(): Stripe approves a payment that is looked up by its reference, and the
\* script has opened none for its checkout.
Approved == provider = "simulated"

\* finalizePaidCheckout(), which throws before it writes, or in its transaction.
Confirm ==
  /\ Is("confirm")
  /\ IF db.checkout # "ACTIVE" \/ ~Approved \/ db.event[Featured] # "PUBLISHED" THEN Throws
     ELSE /\ Goes([db EXCEPT !.checkout = "CONFIRMED", !.order = TRUE,
                             !.sold = @ \cup {db.held}, !.held = 0], objects)
          /\ UNCHANGED found

Step ==
  \/ User \/ Role \/ Profile \/ Categories \/ Event \/ PutCover \/ Cover \/ OldCover
  \/ PutGallery \/ GalleryRow \/ Staff \/ Legacy
  \/ FindType \/ SaveType \/ Units \/ FindOrder \/ Checkout \/ Confirm

Done == at = Len(Script) + 1

(***************************************************************************)
(* What happens around it                                                  *)
(***************************************************************************)
Crash ==
  /\ Running /\ spent.crashes < MaxCrashes
  /\ at' = Failed
  /\ found' = Idle
  /\ spent' = [spent EXCEPT !.crashes = @ + 1]
  /\ UNCHANGED <<provider, db, objects>>

\* A script that failed may be run again: the compose file does not do it by itself.
Rerun ==
  /\ at = Failed /\ at' = 1
  /\ UNCHANGED <<provider, found, db, objects, spent>>

\* The next start of the compose file.
Restart ==
  /\ Done /\ spent.crashes < MaxCrashes
  /\ at' = 1
  /\ spent' = [spent EXCEPT !.crashes = @ + 1]
  /\ UNCHANGED <<provider, found, db, objects>>

\* The checkout of a run that was killed is abandoned, that of the present run if
\* it stalls for longer than its presence lasts.
Abandoned ==
  /\ db.checkout = "ACTIVE"
  /\ Is("confirm") => spent.crashes < MaxCrashes
  /\ spent' = IF Is("confirm") THEN [spent EXCEPT !.crashes = @ + 1] ELSE spent
  /\ db' = [db EXCEPT !.checkout = "none", !.held = 0]
  /\ UNCHANGED <<provider, at, found, objects>>

Meddle(d) ==
  /\ spent.meddling < MaxMeddling
  /\ db' = d
  /\ spent' = [spent EXCEPT !.meddling = @ + 1]
  /\ UNCHANGED <<provider, at, found, objects>>

\* The application serves the main event meanwhile: it is cancelled, a unit is
\* sold (not the last one: the script could not complete), its organizer changes
\* the capacity, the highest free units going first.
EventCancelled ==
  /\ db.event[Featured] = "PUBLISHED"
  /\ Meddle([db EXCEPT !.event[Featured] = "CANCELLED"])

Sold ==
  /\ db.event[Featured] = "PUBLISHED" /\ Cardinality(Free) > 1
  /\ \E u \in Free : Meddle([db EXCEPT !.sold = @ \cup {u}])

Shrunk ==
  /\ db.event[Featured] = "PUBLISHED" /\ db.capacity[Full] > 1 /\ Free # {}
  /\ LET u == CHOOSE v \in Free : \A w \in Free : w <= v
     IN Meddle([db EXCEPT !.capacity[Full] = @ - 1, !.units[Full] = @ \ {u}])

Grown ==
  /\ db.event[Featured] = "PUBLISHED" /\ db.units[Full] # {}
  /\ LET high == CHOOSE v \in db.units[Full] : \A w \in db.units[Full] : w <= v
     IN Meddle([db EXCEPT !.capacity[Full] = @ + 1, !.units[Full] = @ \cup {high + 1}])

Next ==
  \/ Step \/ Crash \/ Rerun \/ Restart \/ Abandoned
  \/ EventCancelled \/ Sold \/ Shrunk \/ Grown

\* The process runs; a checkout whose presence has lapsed is closed, by the job or by
\* the next create().  Nothing starts a seed that failed.
FairSpec ==
  /\ Init /\ [][Next]_vars
  /\ WF_vars(Step) /\ WF_vars(Abandoned)

(***************************************************************************)
(* Properties                                                              *)
(***************************************************************************)
\* With simulated payments a seed that is started again after each failure completes:
\* no state that a kill anywhere, or its own earlier checkout, has left prevents it.
\* With Stripe it never does: its order is one that nobody pays.
SeedCompletes ==
  /\ []<>(at # Failed) => (provider = "simulated" /\ ~Done ~> Done)
  /\ [](provider = "stripe_test" => ~Done)

\* At every moment, in a crash too, the cover a row names is in the bucket.
CoverStored ==
  \A s \in Slugs : db.cover[s] # "none" => <<s, db.cover[s]>> \in objects

------------------------------------------------------------------------------
(* The inductive invariant behind the theorem of BackstageProofs *)

\* The row that names a new cover is written when its object is there, and the old
\* object is removed when no row names it any more.
CoverInv ==
  /\ "cover" \in DOMAIN db /\ DOMAIN db.cover = Slugs
  /\ Is("coverRow") => <<On, "seed">> \in objects
  /\ Is("oldCover") => db.cover[On] = "seed"
  /\ CoverStored
===============================================================================
