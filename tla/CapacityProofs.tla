---------------------------- MODULE CapacityProofs ----------------------------
(***************************************************************************)
(* For every initial capacity, every bound on the numbers and every number *)
(* of concurrent requests: the state is well typed and no unit that is     *)
(* held or sold is removed.  A capacity written from a read that is still  *)
(* current is backed by units; so it always is when requests do not        *)
(* overlap.                                                                *)
(*                                                                         *)
(* UnitsBackCapacity is not inductive: what Write removes was chosen       *)
(* earlier, from a capacity read earlier still.  ListIsExact says that the *)
(* list is as long as the two capacities differ, and KnowsCapacity that a  *)
(* single request still knows the type's.                                  *)
(***************************************************************************)
EXTENDS Capacity, FiniteSetTheorems, TLAPS

USE CapacityAssumption DEF CapacityAssumption

\* A request that moves on, with or without a list of numbers, is well typed.
LEMMA MovedUpdate ==
  ASSUME TypeOK, NEW w \in Update, NEW S \in SUBSET Sequence,
         NEW place \in {"idle", "count", "measure", "write"},
         \/ update' = [update EXCEPT ![w].pc = place]
         \/ update' = [update EXCEPT ![w].pc = place, ![w].rows = S]
         \/ update' = [update EXCEPT ![w] = Idle]
  PROVE  update' \in [Update -> UpdateState]
<1>1. update \in [Update -> UpdateState]
  BY DEF TypeOK
<1>2. CASE update' = [update EXCEPT ![w].pc = place]
  BY <1>1, <1>2 DEF UpdateState
<1>3. CASE update' = [update EXCEPT ![w].pc = place, ![w].rows = S]
  <2>1. [[update[w] EXCEPT !.pc = place] EXCEPT !.rows = S] \in UpdateState
    BY <1>1 DEF UpdateState
  <2>2. update' = [update EXCEPT ![w] = [[update[w] EXCEPT !.pc = place] EXCEPT !.rows = S]]
    BY <1>1, <1>3
  <2> QED BY <1>1, <2>1, <2>2
<1>4. CASE update' = [update EXCEPT ![w] = Idle]
  BY <1>1, <1>4 DEF UpdateState, Idle
<1> QED BY <1>2, <1>3, <1>4

\* Every step keeps the state well typed.
LEMMA TypeStep ==
  ASSUME TypeOK, [Next]_vars
  PROVE  TypeOK'
<1> USE DEF TypeOK, UpdateState, Idle, Goto, Refuse, Sequence
<1>1. ASSUME NEW S \in SUBSET Sequence, Reserve(S)
      PROVE  TypeOK'
  BY <1>1 DEF Reserve
<1>2. ASSUME NEW x \in Sequence, Sell(x) \/ GiveBack(x)
      PROVE  TypeOK'
  <2>1. CASE Sell(x)  BY <2>1 DEF Sell
  <2>2. CASE GiveBack(x)  BY <2>2 DEF GiveBack
  <2> QED BY <1>2, <2>1, <2>2
<1>3. ASSUME NEW w \in Update, NEW n \in 0..MaxSequence, Read(w, n)
      PROVE  TypeOK'
  BY <1>3 DEF Read
<1>4. ASSUME NEW w \in Update, Count(w) \/ Measure(w) \/ Write(w) \/ Abort(w)
      PROVE  TypeOK'
  <2>1. CASE Count(w)
    <3>1. CASE Refuse(w)  BY <2>1, <3>1, MovedUpdate DEF Count
    <3>2. CASE Goto(w, "measure")  BY <2>1, <3>2, MovedUpdate DEF Count
    <3> QED BY <2>1, <3>1, <3>2 DEF Count
  <2>2. CASE Measure(w)
    <3>1. ASSUME NEW S \in SUBSET Sequence,
                 update' = [update EXCEPT ![w].pc = "write", ![w].rows = S]
          PROVE  update' \in [Update -> UpdateState]
      BY <3>1, MovedUpdate
    <3>2. ASSUME Refuse(w)
          PROVE  update' \in [Update -> UpdateState]
      BY <3>2, MovedUpdate
    <3>3. \A h, n : Added(h, n) \in SUBSET Sequence
      BY DEF Added
    <3>4. update' \in [Update -> UpdateState]
      <4> HIDE DEF TypeOK, UpdateState, Idle, Sequence, Refuse
      <4> QED BY <2>2, <3>1, <3>2, <3>3 DEF Measure
    <3> QED BY <2>2, <3>4 DEF Measure
  <2>3. CASE Write(w)
    <3>1. update' \in [Update -> UpdateState]
      BY <2>3 DEF Write
    <3>2. update[w].target \in Nat
      OBVIOUS
    <3>3. /\ capacity' \in Nat
          /\ unit' \in [Sequence -> {"NONE", "AVAILABLE", "HELD", "SOLD"}]
      BY <2>3, <3>2 DEF Write, NewCapacity
    <3> QED BY <3>1, <3>3
  <2>4. CASE Abort(w)  BY <2>4 DEF Abort
  <2> QED BY <1>4, <2>1, <2>2, <2>3, <2>4
<1>5. CASE UNCHANGED vars  BY <1>5 DEF vars
<1> QED BY <1>1, <1>2, <1>3, <1>4, <1>5 DEF Next

\* Every reachable state is well typed: the capacity is never negative, and a
\* unit is always in one of its three states or gone.
THEOREM CapacityTyped == Spec => []TypeOK
<1>1. Init => TypeOK
  BY DEF Init, TypeOK, UpdateState, Idle, Sequence
<1>2. TypeOK /\ [Next]_vars => TypeOK'
  BY TypeStep
<1> QED BY <1>1, <1>2, PTL DEF Spec

-----------------------------------------------------------------------------

\* A step keeps the rows of units that are held or sold.
LEMMA OccupiedStep ==
  ASSUME TypeOK, Next, NEW x \in Sequence, unit[x] \in {"HELD", "SOLD"}
  PROVE  unit'[x] # "NONE"
<1> USE DEF TypeOK
<1>1. ASSUME NEW S \in SUBSET Sequence, Reserve(S)
      PROVE  unit'[x] # "NONE"
  BY <1>1 DEF Reserve
<1>2. ASSUME NEW y \in Sequence, Sell(y) \/ GiveBack(y)
      PROVE  unit'[x] # "NONE"
  <2>1. CASE Sell(y)  BY <2>1 DEF Sell
  <2>2. CASE GiveBack(y)  BY <2>2 DEF GiveBack
  <2> QED BY <1>2, <2>1, <2>2
<1>3. ASSUME NEW w \in Update, NEW n \in 0..MaxSequence, Read(w, n)
      PROVE  unit'[x] # "NONE"
  BY <1>3 DEF Read
<1>4. ASSUME NEW w \in Update, Count(w) \/ Measure(w) \/ Write(w) \/ Abort(w)
      PROVE  unit'[x] # "NONE"
  <2>1. CASE Count(w)  BY <2>1 DEF Count
  <2>2. CASE Measure(w)  BY <2>2 DEF Measure
  <2>3. CASE Write(w)  BY <2>3 DEF Write, Deletable
  <2>4. CASE Abort(w)  BY <2>4 DEF Abort
  <2> QED BY <1>4, <2>1, <2>2, <2>3, <2>4
<1> QED BY <1>1, <1>2, <1>3, <1>4 DEF Next

\* However many requests cut the capacity while buyers reserve: a unit that is
\* held or sold keeps its row.
THEOREM OccupiedUnitsStay == Spec => OccupiedAreKept
<1>1. TypeOK /\ [Next]_vars =>
        [\A x \in Sequence : unit[x] \in {"HELD", "SOLD"} => unit'[x] # "NONE"]_vars
  BY OccupiedStep
<1> QED BY <1>1, CapacityTyped, PTL DEF Spec, OccupiedAreKept

-----------------------------------------------------------------------------

\* Sets of numbers can be counted.
LEMMA NumbersAreFinite ==
  ASSUME NEW S \in SUBSET Sequence
  PROVE  IsFiniteSet(S) /\ Cardinality(S) \in Nat
<1>1. IsFiniteSet(Sequence)
  BY FS_Interval DEF Sequence
<1>2. IsFiniteSet(S)
  BY <1>1, FS_Subset
<1> QED BY <1>2, FS_CardinalityType

\* A request adds as many numbers as it needs, when the bound lets it.
LEMMA AddedCount ==
  ASSUME NEW h \in Nat, NEW n \in Nat, h + n <= MaxSequence
  PROVE  Cardinality(Added(h, n)) = n
<1>1. Added(h, n) = (h + 1)..(h + n)
  BY DEF Added, Sequence
<1>2. h + 1 \in Int /\ h + n \in Int
  OBVIOUS
<1>3. Cardinality((h + 1)..(h + n)) = IF h + 1 > h + n THEN 0 ELSE (h + n) - (h + 1) + 1
  BY <1>2, FS_Interval
<1> QED BY <1>1, <1>3

\* Only Write changes which units there are, or the capacity.
LEMMA RowsStep ==
  ASSUME TypeOK, [Next]_vars, \A w \in Update : ~Write(w)
  PROVE  Rows' = Rows /\ capacity' = capacity
<1>1. ASSUME NEW S \in SUBSET Sequence, Reserve(S)
      PROVE  Rows' = Rows /\ capacity' = capacity
  BY <1>1 DEF Reserve, Rows, Free, TypeOK
<1>2. ASSUME NEW x \in Sequence, Sell(x) \/ GiveBack(x)
      PROVE  Rows' = Rows /\ capacity' = capacity
  <2>1. CASE Sell(x)  BY <2>1 DEF Sell, Rows, TypeOK
  <2>2. CASE GiveBack(x)  BY <2>2 DEF GiveBack, Rows, TypeOK
  <2> QED BY <1>2, <2>1, <2>2
<1>3. ASSUME NEW w \in Update, NEW n \in 0..MaxSequence, Read(w, n)
      PROVE  Rows' = Rows /\ capacity' = capacity
  BY <1>3 DEF Read, Rows
<1>4. ASSUME NEW w \in Update, Count(w) \/ Measure(w) \/ Abort(w)
      PROVE  Rows' = Rows /\ capacity' = capacity
  <2>1. CASE Count(w)  BY <2>1 DEF Count, Rows
  <2>2. CASE Measure(w)  BY <2>2 DEF Measure, Rows
  <2>3. CASE Abort(w)  BY <2>3 DEF Abort, Rows
  <2> QED BY <1>4, <2>1, <2>2, <2>3
<1>5. CASE UNCHANGED vars  BY <1>5 DEF vars, Rows
<1> QED BY <1>1, <1>2, <1>3, <1>4, <1>5 DEF Next

\* A request that is about to write has a list as long as the capacities it knows differ.
ListIsExact ==
  \A w \in Update :
    LET u == update[w]
    IN u.pc = "write" =>
         Cardinality(u.rows) = IF u.target < u.read THEN u.read - u.target
                                                    ELSE u.target - u.read

\* Measure finds a list of the right length, and nothing else makes a list.
LEMMA ListStep ==
  ASSUME TypeOK, ListIsExact, [Next]_vars
  PROVE  ListIsExact'
<1> USE DEF TypeOK, UpdateState, ListIsExact
<1>1. CASE UNCHANGED update  BY <1>1
<1>2. ASSUME NEW w \in Update, update' = [update EXCEPT ![w] = Idle]
      PROVE  ListIsExact'
  BY <1>2 DEF Idle
<1>3. ASSUME NEW w \in Update, NEW n \in 0..MaxSequence, Read(w, n)
      PROVE  ListIsExact'
  BY <1>3 DEF Read
<1>4. ASSUME NEW w \in Update, Goto(w, "measure")
      PROVE  ListIsExact'
  BY <1>4 DEF Goto
<1>5. ASSUME NEW w \in Update, Measure(w)
      PROVE  ListIsExact'
  <2> DEFINE u == update[w]
  <2>0. u.read \in Nat /\ u.target \in Nat
    OBVIOUS
  <2>1. ASSUME u.target >= u.read, NEW h \in 0..MaxSequence,
               h + (u.target - u.read) <= MaxSequence,
               update' = [update EXCEPT ![w].pc = "write",
                                        ![w].rows = Added(h, u.target - u.read)]
        PROVE  ListIsExact'
    <3>1. Cardinality(Added(h, u.target - u.read)) = u.target - u.read
      BY <2>0, <2>1, AddedCount
    <3> QED BY <2>0, <2>1, <3>1
  <2>2. ASSUME u.target < u.read, NEW S \in SUBSET Sequence,
               Removed(S, u.read - u.target),
               update' = [update EXCEPT ![w].pc = "write", ![w].rows = S]
        PROVE  ListIsExact'
    <3>1. Cardinality(S) = u.read - u.target
      BY <2>2 DEF Removed
    <3> QED BY <2>0, <2>2, <3>1
  <2>3. CASE Refuse(w)  BY <1>2, <2>3 DEF Refuse
  <2> QED BY <1>5, <2>1, <2>2, <2>3 DEF Measure
<1>6. ASSUME \/ \E S \in SUBSET Sequence : Reserve(S)
             \/ \E x \in Sequence : Sell(x) \/ GiveBack(x)
             \/ UNCHANGED vars
      PROVE  UNCHANGED update
  BY <1>6 DEF Reserve, Sell, GiveBack, vars
<1>7. ASSUME NEW w \in Update, Count(w)
      PROVE  Refuse(w) \/ Goto(w, "measure")
  BY <1>7 DEF Count
<1>8. ASSUME NEW w \in Update, Write(w) \/ Abort(w)
      PROVE  Refuse(w)
  BY <1>8 DEF Write, Abort
<1> HIDE DEF TypeOK, UpdateState, ListIsExact
<1> QED BY <1>1, <1>2, <1>3, <1>4, <1>5, <1>6, <1>7, <1>8 DEF Next, Refuse

\* The lists are of the right length at every moment.
LEMMA ListsAreExact == Spec => []ListIsExact
<1>1. Init => ListIsExact
  BY DEF Init, Idle, ListIsExact
<1>2. TypeOK /\ ListIsExact /\ [Next]_vars => ListIsExact'
  BY ListStep
<1> QED BY <1>1, <1>2, CapacityTyped, PTL DEF Spec

-----------------------------------------------------------------------------

\* Write from a current read leaves as many units as the capacity it writes.
LEMMA WriteBacks ==
  ASSUME TypeOK, ListIsExact, UnitsBackCapacity,
         NEW w \in Update, update[w].read = capacity, Write(w)
  PROVE  UnitsBackCapacity'
<1> USE DEF TypeOK, UpdateState
<1> DEFINE u == update[w]
<1>0. /\ u.read \in Nat /\ u.target \in Nat /\ u.rows \in SUBSET Sequence
      /\ u.pc = "write" /\ u.read = capacity
      /\ u.target < u.read => Cardinality(u.rows) = u.read - u.target
      /\ u.target >= u.read => Cardinality(u.rows) = u.target - u.read
  BY DEF Write, ListIsExact
<1>1. /\ Rows \in SUBSET Sequence /\ IsFiniteSet(Rows) /\ Cardinality(Rows) \in Nat
      /\ Cardinality(Rows) >= capacity
      /\ IsFiniteSet(u.rows) /\ Cardinality(u.rows) \in Nat
  <2>1. Rows \in SUBSET Sequence
    BY DEF Rows
  <2>2. IsFiniteSet(Rows) /\ Cardinality(Rows) \in Nat
    BY <2>1, NumbersAreFinite
  <2>3. IsFiniteSet(u.rows) /\ Cardinality(u.rows) \in Nat
    BY <1>0, NumbersAreFinite
  <2> QED BY <2>1, <2>2, <2>3 DEF UnitsBackCapacity
<1>2. ASSUME u.target >= u.read, u.rows \cap Rows = {}, capacity' = u.target,
             unit' = [x \in Sequence |->
                        IF x \in u.rows \ Rows THEN "AVAILABLE" ELSE unit[x]]
      PROVE  UnitsBackCapacity'
  <2>1. Rows' = Rows \cup u.rows
    BY <1>0, <1>2 DEF Rows
  <2>2. Cardinality(Rows \cup u.rows) =
          Cardinality(Rows) + Cardinality(u.rows) - Cardinality(Rows \cap u.rows)
    BY <1>1, FS_Union
  <2>3. Cardinality(Rows \cap u.rows) = 0
    BY <1>2, FS_EmptySet
  <2>4. Cardinality(Rows \cup u.rows) >= u.target
    BY <1>0, <1>1, <1>2, <2>2, <2>3
  <2> QED BY <1>2, <2>1, <2>4 DEF UnitsBackCapacity
<1>3. ASSUME UNCHANGED <<capacity, unit>>
      PROVE  UnitsBackCapacity'
  BY <1>3 DEF UnitsBackCapacity, Rows
<1>4. ASSUME u.target < u.read, capacity' = u.target,
             unit' = [x \in Sequence |->
                        IF x \in u.rows /\ Deletable(x) THEN "NONE" ELSE unit[x]]
      PROVE  UnitsBackCapacity'
  <2> DEFINE gone == {x \in u.rows : Deletable(x)}
  <2>1. Rows' = Rows \ gone
    BY <1>0, <1>4 DEF Rows
  <2>2. /\ gone \in SUBSET u.rows
        /\ IsFiniteSet(gone)
        /\ Cardinality(gone) <= Cardinality(u.rows)
    BY <1>1, FS_Subset
  <2>3. /\ IsFiniteSet(Rows \cap gone)
        /\ Cardinality(Rows \cap gone) <= Cardinality(gone)
    BY <1>1, <2>2, FS_Intersection
  <2>4. Cardinality(Rows \ gone) = Cardinality(Rows) - Cardinality(Rows \cap gone)
    BY <1>1, FS_Difference
  <2>5. Cardinality(gone) \in Nat /\ Cardinality(Rows \cap gone) \in Nat
    BY <2>2, <2>3, FS_CardinalityType
  <2>6. Cardinality(Rows \ gone) >= u.target
    <3> HIDE DEF gone, u
    <3> QED BY <1>0, <1>1, <1>4, <2>2, <2>3, <2>4, <2>5
  <2> QED BY <1>4, <2>1, <2>6 DEF UnitsBackCapacity
<1> QED BY <1>2, <1>3, <1>4 DEF Write, NewCapacity, Insertable

\* A step keeps the backing when no request is about to write from a stale read.
LEMMA BackingStep ==
  ASSUME TypeOK, ListIsExact, UnitsBackCapacity, ReadsAreCurrent, [Next]_vars
  PROVE  UnitsBackCapacity'
<1>1. ASSUME NEW w \in Update, Write(w)
      PROVE  UnitsBackCapacity'
  <2>1. update[w].read = capacity
    BY <1>1 DEF Write, ReadsAreCurrent
  <2> QED BY <1>1, <2>1, WriteBacks
<1>2. CASE \A w \in Update : ~Write(w)
  BY <1>2, RowsStep DEF UnitsBackCapacity
<1> QED BY <1>1, <1>2

\* For any number of requests, and whatever buyers do in between: a capacity
\* written from a read that is still current is backed by units.
THEOREM BackingIsKept == Spec => CurrentReadKeepsBacking
<1>1. TypeOK /\ ListIsExact /\ [Next]_vars =>
        [UnitsBackCapacity /\ ReadsAreCurrent => UnitsBackCapacity']_vars
  BY BackingStep
<1> QED BY <1>1, CapacityTyped, ListsAreExact, PTL DEF Spec, CurrentReadKeepsBacking

-----------------------------------------------------------------------------

\* One request at a time.
Alone == \A v, w \in Update : v = w

\* What a single request knows.
KnowsCapacity == \A w \in Update : update[w].pc # "idle" => update[w].read = capacity

\* Nobody but the single request changes the capacity, and then it is done.
LEMMA KnowledgeStep ==
  ASSUME TypeOK, Alone, KnowsCapacity, [Next]_vars
  PROVE  KnowsCapacity'
<1> USE DEF TypeOK, UpdateState, KnowsCapacity
<1>1. CASE \E S \in SUBSET Sequence : Reserve(S)  BY <1>1 DEF Reserve
<1>2. CASE \E x \in Sequence : Sell(x)  BY <1>2 DEF Sell
<1>3. CASE \E x \in Sequence : GiveBack(x)  BY <1>3 DEF GiveBack
<1>4. CASE UNCHANGED vars  BY <1>4 DEF vars
<1>5. ASSUME NEW w \in Update, NEW n \in 0..MaxSequence, Read(w, n)
      PROVE  KnowsCapacity'
  BY <1>5 DEF Read
<1>6. ASSUME NEW w \in Update, Count(w) \/ Measure(w) \/ Write(w) \/ Abort(w)
      PROVE  KnowsCapacity'
  <2>0. \A v \in Update : v = w
    BY DEF Alone
  <2>1. CASE Count(w)  BY <2>1 DEF Count, Goto, Refuse, Idle
  <2>2. CASE Measure(w)
    <3>1. update[w].read = capacity /\ capacity' = capacity
      BY <2>2 DEF Measure
    <3>2. ASSUME NEW S, update' = [update EXCEPT ![w].pc = "write", ![w].rows = S]
          PROVE  KnowsCapacity'
      BY <2>0, <3>1, <3>2
    <3>3. CASE Refuse(w)  BY <2>0, <3>3 DEF Refuse, Idle
    <3> QED BY <2>2, <3>2, <3>3 DEF Measure
  <2>3. CASE Write(w)  BY <2>0, <2>3 DEF Write, Refuse, Idle
  <2>4. CASE Abort(w)  BY <2>4 DEF Abort, Refuse, Idle
  <2> QED BY <1>6, <2>1, <2>2, <2>3, <2>4
<1> QED BY <1>1, <1>2, <1>3, <1>4, <1>5, <1>6 DEF Next

\* When requests do not overlap, the capacity is backed by units in every state.
THEOREM CapacityIsBacked == Alone => (Spec => []UnitsBackCapacity)
<1> SUFFICES ASSUME Alone PROVE Spec => []UnitsBackCapacity
  OBVIOUS
<1>1. Init => UnitsBackCapacity /\ KnowsCapacity
  <2> SUFFICES ASSUME Init PROVE UnitsBackCapacity /\ KnowsCapacity
    OBVIOUS
  <2>1. Rows = 1..Initial
    BY DEF Init, Rows, Sequence
  <2>2. Cardinality(1..Initial) = Initial
    BY FS_Interval
  <2> QED BY <2>1, <2>2 DEF Init, Idle, UnitsBackCapacity, KnowsCapacity
<1>2. /\ TypeOK /\ ListIsExact
      /\ UnitsBackCapacity /\ KnowsCapacity /\ [Next]_vars
      => UnitsBackCapacity' /\ KnowsCapacity'
  <2> SUFFICES ASSUME TypeOK, ListIsExact, UnitsBackCapacity, KnowsCapacity,
                      [Next]_vars
               PROVE  UnitsBackCapacity' /\ KnowsCapacity'
    OBVIOUS
  <2>1. ReadsAreCurrent
    BY DEF ReadsAreCurrent, KnowsCapacity
  <2> QED BY <2>1, BackingStep, KnowledgeStep
<1> QED BY <1>1, <1>2, CapacityTyped, ListsAreExact, PTL DEF Spec
=============================================================================
