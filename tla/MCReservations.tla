---------------------------- MODULE MCReservations ----------------------------
(* Small instances of Reservations for TLC. *)
EXTENDS Reservations, TLC

CONSTANTS u1, u2, e1, e2, y1, y2, x1, x2, x3

\* One event with one ticket type.
OneTypeEventOf == [y \in TicketType |-> e1]
OneTypeOf == [x \in Unit |-> y1]

\* Two types of one event, the second with a single unit.
TwoTypeOf == [x \in Unit |-> IF x = x3 THEN y2 ELSE y1]

AnyQuantity == [y \in TicketType |-> 2]

\* The event starts after the last clock value, and cancelling an order is
\* possible until just before that.
Later == [e \in Event |-> Horizon + 2]

Symmetry == Permutations(Request) \cup Permutations(User) \cup Permutations(Checkout)
              \cup Permutations(Unit)

\* With TwoTypeOf, x1 and x2 are alike.
TwoTypeSymmetry == Permutations(Request) \cup Permutations(Checkout) \cup Permutations(User)
                     \cup Permutations(Key) \cup Permutations({x1, x2})
=============================================================================
