--------------------------------- MODULE Stock ---------------------------------
(***************************************************************************)
(* What the stock promises, whatever the tables, locks and jobs behind it: *)
(* numbered units are claimed, sold or given back as indivisible lots.     *)
(* A claim takes a lot of free units in one step, owns exactly that lot    *)
(* until it ends, ends once, and no two claims ever share a unit.          *)
(* Module Reservations implements it (ImplementsStock).         *)
(***************************************************************************)
CONSTANTS Claim, Unit

VARIABLES
  state,   \* Claim -> "new", "holding", "sold" or "ended"
  lot      \* Claim -> the units it owns

TypeOK ==
  /\ state \in [Claim -> {"new", "holding", "sold", "ended"}]
  /\ lot \in [Claim -> SUBSET Unit]

Init ==
  /\ state = [c \in Claim |-> "new"]
  /\ lot = [c \in Claim |-> {}]

Holding == {c \in Claim : state[c] = "holding"}

\* Some holders (D) drop their lots: a release, or the end of an event.
Drop(D) ==
  /\ state' = [c \in Claim |-> IF c \in D THEN "ended" ELSE state[c]]
  /\ lot' = [c \in Claim |-> IF c \in D THEN {} ELSE lot[c]]

\* A new claim takes a lot nobody else keeps; a holder it replaces (D) drops
\* its own in the same step.
Take(c, S, D) ==
  /\ state[c] = "new"
  /\ S # {}
  /\ \A d \in Claim \ D : lot[d] \cap S = {}
  /\ state' = [d \in Claim |->
                 IF d = c THEN "holding" ELSE IF d \in D THEN "ended" ELSE state[d]]
  /\ lot' = [d \in Claim |-> IF d = c THEN S ELSE IF d \in D THEN {} ELSE lot[d]]

\* A holder buys its lot, all of it and nothing else.
Sell(c) ==
  /\ state[c] = "holding"
  /\ state' = [state EXCEPT ![c] = "sold"]
  /\ UNCHANGED lot

\* A buyer returns the whole lot.
Return(c) ==
  /\ state[c] = "sold"
  /\ state' = [state EXCEPT ![c] = "ended"]
  /\ lot' = [lot EXCEPT ![c] = {}]

Next ==
  \/ \E D \in SUBSET Holding : Drop(D)
  \/ \E c \in Claim, S \in SUBSET Unit, D \in SUBSET Holding : Take(c, S, D)
  \/ \E c \in Claim : Sell(c)
  \/ \E c \in Claim : Return(c)

Spec == Init /\ [][Next]_<<state, lot>>

\* No unit belongs to two claims, and only a claim under way owns any.
Disjoint ==
  /\ \A c, d \in Claim : c # d => lot[c] \cap lot[d] = {}
  /\ \A c \in Claim : lot[c] # {} => state[c] \in {"holding", "sold"}
=============================================================================
