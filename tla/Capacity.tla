------------------------------- MODULE Capacity -------------------------------
(***************************************************************************)
(* The capacity of one ticket type and its numbered units, as organisers   *)
(* change the one (EventsService.updateCapacity) while buyers reserve, buy *)
(* and return the others.                                                  *)
(*                                                                         *)
(* updateCapacity() takes no lock: it reads the type before its            *)
(* transaction, and under READ COMMITTED each of its statements sees the   *)
(* commits that came before that statement.  So each read is a step.  The  *)
(* statements that write, with the commit, are one step: a unit that they  *)
(* touch is locked until the commit, and SKIP LOCKED reservations pass by. *)
(*                                                                         *)
(* The event is PUBLISHED, the only status in which units are reserved and *)
(* capacity may change; who may change it is not modelled.                 *)
(***************************************************************************)
EXTENDS Integers, FiniteSets

CONSTANTS
  Update,        \* concurrent PATCH .../capacity requests
  Initial,       \* capacity the type was created with
  MaxSequence    \* bound: the highest number a unit may get

ASSUME CapacityAssumption ==
  /\ Initial \in Nat /\ MaxSequence \in Nat
  /\ Initial <= MaxSequence

VARIABLES
  capacity,      \* TicketType.capacity
  unit,          \* number -> status of the TicketUnit row, "NONE" without a row
  update         \* Update -> where its request is and what it has read

vars == <<capacity, unit, update>>

Sequence == 1..MaxSequence

UpdateState ==
  [pc : {"idle", "count", "measure", "write"}, read : Nat, target : Nat,
   rows : SUBSET Sequence]

Idle == [pc |-> "idle", read |-> 0, target |-> 0, rows |-> {}]

TypeOK ==
  /\ capacity \in Nat
  /\ unit \in [Sequence -> {"NONE", "AVAILABLE", "HELD", "SOLD"}]
  /\ update \in [Update -> UpdateState]

Init ==
  /\ capacity = Initial
  /\ unit = [x \in Sequence |-> IF x <= Initial THEN "AVAILABLE" ELSE "NONE"]
  /\ update = [w \in Update |-> Idle]

Rows == {x \in Sequence : unit[x] # "NONE"}

Free == {x \in Sequence : unit[x] = "AVAILABLE"}

Occupied == Rows \ Free

-----------------------------------------------------------------------------
(* Buyers *)

\* create(): units of a type are held together, if they are free.
Reserve(S) ==
  /\ S # {} /\ S \subseteq Free
  /\ unit' = [x \in Sequence |-> IF x \in S THEN "HELD" ELSE unit[x]]
  /\ UNCHANGED <<capacity, update>>

\* confirm() sells a held unit.
Sell(x) ==
  /\ unit[x] = "HELD"
  /\ unit' = [unit EXCEPT ![x] = "SOLD"]
  /\ UNCHANGED <<capacity, update>>

\* release() and the cancellations give units back.
GiveBack(x) ==
  /\ unit[x] \in {"HELD", "SOLD"}
  /\ unit' = [unit EXCEPT ![x] = "AVAILABLE"]
  /\ UNCHANGED <<capacity, update>>

-----------------------------------------------------------------------------
(* updateCapacity() *)

Goto(w, place) == update' = [update EXCEPT ![w].pc = place]

Refuse(w) == update' = [update EXCEPT ![w] = Idle]

\* The type is read, capacity and all, before the transaction.
Read(w, n) ==
  /\ update[w].pc = "idle"
  /\ update' = [update EXCEPT ![w] =
                  [pc |-> "count", read |-> capacity, target |-> n, rows |-> {}]]
  /\ UNCHANGED <<capacity, unit>>

\* Units that are not free are counted, and the new capacity compared.
Count(w) ==
  /\ update[w].pc = "count"
  /\ IF update[w].target < Cardinality(Occupied) THEN Refuse(w)
                                                  ELSE Goto(w, "measure")
  /\ UNCHANGED <<capacity, unit>>

IsHighest(h) == (h = 0 \/ h \in Rows) /\ \A x \in Rows : x <= h

\* The numbers that follow the highest one.
Added(h, n) == {x \in Sequence : h < x /\ x <= h + n}

\* S is the n highest free numbers.
Removed(S, n) ==
  /\ S \subseteq Free /\ Cardinality(S) = n
  /\ \A x \in S, y \in Free \ S : y < x

\* The difference to the capacity read at first is looked for: numbers to
\* add, or free units to remove; too few of these refuse the request.
Measure(w) ==
  LET u == update[w]
      Found(S) == update' = [update EXCEPT ![w].pc = "write", ![w].rows = S]
  IN /\ u.pc = "measure"
     /\ \/ /\ u.target >= u.read
           /\ \E h \in 0..MaxSequence :
                /\ IsHighest(h)
                /\ h + (u.target - u.read) <= MaxSequence
                /\ Found(Added(h, u.target - u.read))
        \/ /\ u.target < u.read
           /\ Cardinality(Free) >= u.read - u.target
           /\ \E S \in SUBSET Sequence :
                Removed(S, u.read - u.target) /\ Found(S)
        \/ /\ u.target < u.read
           /\ Cardinality(Free) < u.read - u.target
           /\ Refuse(w)
     /\ UNCHANGED <<capacity, unit>>

\* Mutant: the DELETE has lost its condition on the status.
Deletable_Any(x) == TRUE

\* The DELETE's own condition on the status.
Deletable(x) == unit[x] = "AVAILABLE"

\* Mutant: createMany skips the numbers that exist.
Insertable_SkipDuplicates(S) == TRUE

\* The primary key: no number may exist already.
Insertable(S) == S \cap Rows = {}

\* Mutant: the capacity is moved by the difference instead of set.
NewCapacity_Relative(u) == capacity + u.target - u.read

NewCapacity(u) == u.target

\* Units are created, or those of the list that are still free are deleted,
\* and the capacity becomes what was asked.  A number that exists already
\* fails the request.
Write(w) ==
  LET u == update[w]
  IN /\ u.pc = "write"
     /\ \/ /\ u.target >= u.read
           /\ Insertable(u.rows)
           /\ unit' = [x \in Sequence |->
                         IF x \in u.rows \ Rows THEN "AVAILABLE" ELSE unit[x]]
           /\ capacity' = NewCapacity(u)
        \/ /\ u.target >= u.read
           /\ ~Insertable(u.rows)
           /\ UNCHANGED <<capacity, unit>>
        \/ /\ u.target < u.read
           /\ unit' = [x \in Sequence |->
                         IF x \in u.rows /\ Deletable(x) THEN "NONE" ELSE unit[x]]
           /\ capacity' = NewCapacity(u)
     /\ Refuse(w)

\* An error or a crash rolls the transaction back.
Abort(w) ==
  /\ update[w].pc # "idle"
  /\ Refuse(w)
  /\ UNCHANGED <<capacity, unit>>

Next ==
  \/ \E S \in SUBSET Sequence : Reserve(S)
  \/ \E x \in Sequence : Sell(x) \/ GiveBack(x)
  \/ \E w \in Update, n \in 0..MaxSequence : Read(w, n)
  \/ \E w \in Update : Count(w) \/ Measure(w) \/ Write(w) \/ Abort(w)

Spec == Init /\ [][Next]_vars

-----------------------------------------------------------------------------
(* Properties *)

\* A unit that somebody holds or has bought is never removed, although the
\* list of units to remove is older than the removal (updateCapacity).
OccupiedAreKept ==
  [][\A x \in Sequence : unit[x] \in {"HELD", "SOLD"} => unit'[x] # "NONE"]_vars

\* The capacity on display is backed by units.
UnitsBackCapacity == Cardinality(Rows) >= capacity

\* No request is about to write with a capacity that has changed since Read.
ReadsAreCurrent == \A w \in Update : update[w].pc = "write" => update[w].read = capacity

\* Whatever buyers do between the statements of a request, it leaves a capacity
\* that units back, provided no other request has written since its first read.
CurrentReadKeepsBacking ==
  [][UnitsBackCapacity /\ ReadsAreCurrent => UnitsBackCapacity']_vars

-----------------------------------------------------------------------------
(* What the documents say and the code does not do *)

\* docs/03-regras-de-negocio.md, RN11: "capacidade nunca pode cair abaixo das
\* unidades reservadas ou vendidas".  updateCapacity() counts these before it
\* writes the capacity, and a reservation may come in between.
CapacityCoversOccupied == capacity >= Cardinality(Occupied)
=============================================================================
