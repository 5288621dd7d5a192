------------------------------ MODULE Analytics -------------------------------
(***************************************************************************)
(* The report of an organizer's events.  A first query finds the events;   *)
(* the others run at once, each on the database as it is when its turn     *)
(* comes, outside a transaction, while the platform goes on selling.  The  *)
(* sections of the report are built from different queries; one of them,   *)
(* chosen at the start, is followed, with the tables its queries read.     *)
(*                                                                         *)
(* Every checkout is for one ticket at one price, of an event that is      *)
(* PUBLISHED.  The type of Main and its units are those of Capacity, with  *)
(* its updates; another event, a draft, may get a type of one unit.  The   *)
(* report is asked for without dates, and its list of the latest orders is *)
(* left out.                                                               *)
(***************************************************************************)
EXTENDS Integers, FiniteSets

CONSTANTS
  EventId,     \* the organizer's events, those not created yet among them
  Main,        \* the one whose ticket type is that of Capacity
  CheckoutId,    \* checkouts that may be started
  Top,         \* events in the ranking, ten in the code
  Update, Initial, MaxSequence    \* of Capacity

VARIABLES
  section,     \* of the report
  events,      \* EventId -> "NONE", "LIVE" or "CANCELLED"
  sale,        \* CheckoutId -> its event and its fate
  types,       \* the events that have a ticket type
  capacity, unit, update,         \* the type of Main
  stage,       \* "idle", "reading", "answered" or "failed"
  listed,      \* events the first query found
  answers,     \* rows found by the queries answered so far
  touched      \* rows changed since the report was asked for

Type == INSTANCE Capacity

typeVars == <<capacity, unit, update>>

reportVars == <<section, events, sale, types, typeVars, stage, listed, answers, touched>>

\* A checkout: not started, open, ended without an order, or with one whose ticket
\* is issued, used, or cancelled with the order.
Fates == {"NONE", "ACTIVE", "ENDED", "ISSUED", "USED", "CANCELLED"}

Ordered == {"ISSUED", "USED", "CANCELLED"}
Standing == {"ISSUED", "USED"}

Sections == {"funnel", "occupancy", "sales", "tickets"}

Init ==
  /\ section \in Sections
  /\ events \in [EventId -> {"NONE", "LIVE"}] /\ events[Main] = "LIVE"
  /\ sale = [c \in CheckoutId |-> [event |-> Main, fate |-> "NONE"]]
  /\ types = {Main} /\ Type!Init
  /\ stage = "idle" /\ listed = {} /\ answers = [q \in {} |-> {}] /\ touched = {}

------------------------------------------------------------------------------
(* The platform *)

\* The rows of R change; a report that is being read may have them old or new.
Changes(R) ==
  /\ touched' = IF stage = "reading" THEN touched \cup R ELSE touched
  /\ UNCHANGED <<section, stage, listed, answers>>

Sells == section # "occupancy" /\ UNCHANGED <<types, typeVars>>

Reserve(c, e) ==
  /\ Sells
  /\ events[e] = "LIVE" /\ sale[c].fate = "NONE"
  /\ sale' = [sale EXCEPT ![c] = [event |-> e, fate |-> "ACTIVE"]]
  /\ Changes({c}) /\ UNCHANGED events

\* A checkout's end or confirmation, a ticket read at the gate, an order cancelled.
Moves == {<<"ACTIVE", "ENDED">>, <<"ACTIVE", "ISSUED">>,
          <<"ISSUED", "USED">>, <<"ISSUED", "CANCELLED">>}

Move(c, m) ==
  /\ Sells
  /\ sale[c].fate = m[1]
  /\ sale' = [sale EXCEPT ![c].fate = m[2]]
  /\ Changes({c}) /\ UNCHANGED events

FateAtCancel(fate) ==
  CASE fate = "ACTIVE" -> "ENDED" [] fate \in Standing -> "CANCELLED" [] OTHER -> fate

\* The cancellation of an event ends all its checkouts and orders in one write.
CancelEvent(e) ==
  /\ Sells
  /\ events[e] # "NONE"
  /\ events' = [events EXCEPT ![e] = "CANCELLED"]
  /\ sale' = [c \in CheckoutId |->
                IF sale[c].event = e THEN [event |-> e, fate |-> FateAtCancel(sale[c].fate)]
                                     ELSE sale[c]]
  /\ Changes({c \in CheckoutId : sale[c].event = e})

CreateEvent(e) ==
  /\ events[e] = "NONE"
  /\ events' = [events EXCEPT ![e] = "LIVE"]
  /\ Changes({}) /\ UNCHANGED <<sale, types, typeVars>>

\* A type and its units are created in one transaction.
CreateTicketType(e) ==
  /\ section = "occupancy"
  /\ events[e] = "LIVE" /\ e \notin types
  /\ types' = types \cup {e}
  /\ Changes({e}) /\ UNCHANGED <<events, sale, typeVars>>

\* Buyers and updates of the capacity; those that leave the capacity and the set
\* of units as they are do not touch the type.
ChangeUnits ==
  /\ section = "occupancy"
  /\ Type!Next
  /\ Changes(IF capacity' = capacity /\ Type!Rows' = Type!Rows THEN {} ELSE {Main})
  /\ UNCHANGED <<events, sale, types>>

------------------------------------------------------------------------------
(* get() *)

Queries ==
  CASE section = "funnel" -> {"checkoutGroups", "activeReservations", "allOrders"}
    [] section = "occupancy" -> {"ticketTypes", "unitGroups"}
    [] section = "sales" -> {"allOrders", "confirmedOrders", "ranking"}
    [] section = "tickets" -> {"issuedTickets", "usedTickets", "validations"}

\* The first query: what the others find is of these events.
Ask ==
  /\ stage # "reading"
  /\ stage' = "reading"
  /\ listed' = {e \in EventId : events[e] # "NONE"}
  /\ answers' = [q \in {} |-> {}]
  /\ touched' = {}
  /\ UNCHANGED <<section, events, sale, types, typeVars>>

Of(F) == {c \in CheckoutId : sale[c].event \in listed /\ sale[c].fate \in F}

\* Mutant: the ranking forgets that an order may have been cancelled.
Ranked_All == Of(Ordered)

\* The orders the ranking adds up.
Ranked == Of(Standing)

\* With one price the events that earn most are those with most orders.
IsRanking(R) ==
  LET OrdersOf(e) == {c \in Ranked : sale[c].event = e}
      selling == {e \in listed : OrdersOf(e) # {}}
  IN /\ R \subseteq selling
     /\ Cardinality(R) <= Top /\ (Cardinality(R) < Top => R = selling)
     /\ \A e \in R, f \in selling \ R : Cardinality(OrdersOf(f)) <= Cardinality(OrdersOf(e))

CapacityOf(t) == IF t = Main THEN capacity ELSE 1

UnitsOf(t) == IF t = Main THEN Type!Rows ELSE {1}

\* The rows a query finds, whose number is what it answers.  Of the active
\* checkouts those whose buyer is away are not counted as reservations.
Finds(q) ==
  CASE q = "checkoutGroups" -> {[ACTIVE |-> Of({"ACTIVE"}), CONFIRMED |-> Of(Ordered)]}
    [] q = "activeReservations" -> SUBSET Of({"ACTIVE"})
    [] q \in {"allOrders", "issuedTickets"} -> {Of(Ordered)}
    [] q = "confirmedOrders" -> {Of(Standing)}
    [] q = "ranking" -> {[events |-> R, orders |-> {c \in Ranked : sale[c].event \in R}] :
                           R \in {S \in SUBSET listed : IsRanking(S)}}
    [] q \in {"usedTickets", "validations"} -> {Of({"USED"})}
    [] q = "ticketTypes" -> {[t \in types \cap listed |-> CapacityOf(t)]}
    [] q = "unitGroups" -> {[t \in types \cap listed |-> UnitsOf(t)]}

Read(q) ==
  /\ stage = "reading" /\ q \notin DOMAIN answers
  /\ \E rows \in Finds(q) :
       answers' = [r \in DOMAIN answers \cup {q} |-> IF r = q THEN rows ELSE answers[r]]
  /\ UNCHANGED <<section, events, sale, types, typeVars, stage, listed, touched>>

\* Units whose type the other query did not list have no row to be counted in.
Unplaced == {t \in DOMAIN answers.unitGroups :
               answers.unitGroups[t] # {} /\ t \notin DOMAIN answers.ticketTypes}

Complete == stage = "reading" /\ DOMAIN answers = Queries

\* Unplaced units end the report in an error.
Composed ==
  /\ Complete
  /\ stage' = IF section = "occupancy" /\ Unplaced # {} THEN "failed" ELSE "answered"
  /\ UNCHANGED <<section, events, sale, types, typeVars, listed, answers, touched>>

Next ==
  \/ \E c \in CheckoutId, e \in EventId : Reserve(c, e)
  \/ \E c \in CheckoutId, m \in Moves : Move(c, m)
  \/ \E e \in EventId : CancelEvent(e) \/ CreateEvent(e) \/ CreateTicketType(e)
  \/ ChangeUnits
  \/ Ask \/ Composed
  \/ \E q \in Queries : Read(q)

Spec == Init /\ [][Next]_reportVars

------------------------------------------------------------------------------
(* Properties *)

\* A number of one query exceeds that of another by no more than the rows that
\* changed while the report was made.
Within(A, B) == Cardinality(A) <= Cardinality(B) + Cardinality(touched)

Near(A, B) == Within(A, B) /\ Within(B, A)

FunnelAgrees ==
  /\ Within(answers.activeReservations, answers.checkoutGroups.ACTIVE)
  /\ Near(answers.checkoutGroups.CONFIRMED, answers.allOrders)

\* What the ranking lacks of the revenue is of events beyond the last of the
\* ranking, when it is full.
SalesAgree ==
  LET R == answers.ranking.events
  IN /\ Within(answers.ranking.orders, answers.confirmedOrders)
     /\ Within({c \in answers.confirmedOrders : sale[c].event \in R}, answers.ranking.orders)
     /\ Cardinality(R) < Top => Within(answers.confirmedOrders, answers.ranking.orders)
     /\ Within(answers.confirmedOrders, answers.allOrders)

TicketsAgree ==
  /\ Near(answers.usedTickets, answers.validations)
  /\ Within(answers.usedTickets, answers.issuedTickets)

\* The units of a type that did not change exceed its capacity, or miss it, on the
\* report by what they do in the tables.
OccupancyAgrees ==
  \A t \in (DOMAIN answers.ticketTypes \cap DOMAIN answers.unitGroups) \ touched :
    Cardinality(answers.unitGroups[t]) - answers.ticketTypes[t]
      = Cardinality(UnitsOf(t)) - CapacityOf(t)

\* The sections of a report disagree by no more than the rows that changed between
\* its queries, in whatever order these were answered and however many rows one
\* write changed; and it fails only if a ticket type was created meanwhile.
TornByChangedRowsOnly ==
  /\ Complete => CASE section = "funnel" -> FunnelAgrees
                   [] section = "sales" -> SalesAgree
                   [] section = "tickets" -> TicketsAgree
                   [] section = "occupancy" -> OccupancyAgrees
  /\ stage = "failed" => touched \cap (types \ {Main}) # {}
------------------------------------------------------------------------------
(* The inductive invariant behind the theorem of BackstageProofs: until the *)
(* report is composed, the rows a query found are those it would find now,  *)
(* but for the rows that changed                                            *)

Tables ==
  /\ section \in Sections
  /\ events \in [EventId -> {"NONE", "LIVE", "CANCELLED"}] /\ events[Main] # "NONE"
  /\ sale \in [CheckoutId -> [event : EventId, fate : Fates]]
  /\ types \subseteq EventId /\ Main \in types
  /\ touched \subseteq CheckoutId \cup EventId

Has(q) == q \in DOMAIN answers

\* The rows A, once found, and those found now.
Same(A, B) == A \subseteq CheckoutId /\ A \ touched = B \ touched

FunnelRead ==
  /\ Has("checkoutGroups") => /\ Same(answers.checkoutGroups.ACTIVE, Of({"ACTIVE"}))
                              /\ Same(answers.checkoutGroups.CONFIRMED, Of(Ordered))
  /\ Has("activeReservations") =>
       /\ answers.activeReservations \subseteq CheckoutId
       /\ answers.activeReservations \ touched \subseteq Of({"ACTIVE"})
  /\ Has("allOrders") => Same(answers.allOrders, Of(Ordered))

OrdersAt(R) == {c \in Of(Standing) : sale[c].event \in R}

SalesRead ==
  /\ Has("allOrders") => Same(answers.allOrders, Of(Ordered))
  /\ Has("confirmedOrders") => Same(answers.confirmedOrders, Of(Standing))
  /\ Has("ranking") =>
       /\ Same(answers.ranking.orders, OrdersAt(answers.ranking.events))
       /\ Cardinality(answers.ranking.events) < Top =>
            Of(Standing) \ touched \subseteq answers.ranking.orders

TicketsRead ==
  /\ Has("issuedTickets") => Same(answers.issuedTickets, Of(Ordered))
  /\ Has("usedTickets") => Same(answers.usedTickets, Of({"USED"}))
  /\ Has("validations") => Same(answers.validations, Of({"USED"}))

\* Types are only added, and one that a query did not find changed since.
Found(D) == D \subseteq types \cap listed /\ Main \in D /\ (types \cap listed) \ D \subseteq touched

OccupancyRead ==
  /\ Has("ticketTypes") =>
       /\ Found(DOMAIN answers.ticketTypes)
       /\ \A t \in DOMAIN answers.ticketTypes \ touched : answers.ticketTypes[t] = CapacityOf(t)
  /\ Has("unitGroups") =>
       /\ Found(DOMAIN answers.unitGroups)
       /\ \A t \in DOMAIN answers.unitGroups \ touched : answers.unitGroups[t] = UnitsOf(t)

SectionRead ==
  CASE section = "funnel" -> FunnelRead
    [] section = "sales" -> SalesRead
    [] section = "tickets" -> TicketsRead
    [] section = "occupancy" -> OccupancyRead

ReportInv ==
  /\ Tables
  /\ stage = "reading" => Main \in listed /\ SectionRead
  /\ stage = "failed" => touched \cap (types \ {Main}) # {}
===============================================================================
