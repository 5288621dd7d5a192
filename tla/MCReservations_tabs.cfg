\* One buyer creates from two tabs, with two keys, selections of two types, one
\* of them with a single unit; handlers read the clock a tick before they write.
CONSTANTS
  User = {u1}  Event = {e1}  TicketType = {y1, y2}  Unit = {x1, x2, x3}
  Checkout = {c1, c2}  Key = {k1, k2}  Request = {r1, r2}
  u1 = u1  u2 = u2  e1 = e1  e2 = e2  y1 = y1  y2 = y2
  x1 = x1  x2 = x2  x3 = x3  Null = Null
  EventOf <- OneTypeEventOf  TypeOf <- TwoTypeOf  MaxPerOrder <- AnyQuantity  StartsAt <- Later
  TTL = 1  Presence = 1  CancelWindow = 1  Lag = 1  Horizon = 2  MaxFailures = 0
SPECIFICATION Spec
SYMMETRY TwoTypeSymmetry
INVARIANTS StockInv AllOrNothing CancelledEventIsClosed OneActivePerUser OneCheckoutPerKey
