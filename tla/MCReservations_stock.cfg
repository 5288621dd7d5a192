\* Two buyers compete for the last unit of a type; a call of the job may fail
\* or the server crash once.
CONSTANTS
  User = {u1, u2}  Event = {e1}  TicketType = {y1}  Unit = {x1}
  Checkout = {c1, c2}  Key = {k1}  Request = {r1}
  u1 = u1  u2 = u2  e1 = e1  e2 = e2  y1 = y1  y2 = y2
  x1 = x1  x2 = x2  x3 = x3  Null = Null
  EventOf <- OneTypeEventOf  TypeOf <- OneTypeOf  MaxPerOrder <- AnyQuantity  StartsAt <- Later
  TTL = 3  Presence = 2  CancelWindow = 1  Lag = 0  Horizon = 4  MaxFailures = 1
SPECIFICATION FairSpec
INVARIANTS TypeOK HeldByActive SoldToOneOrder
PROPERTIES UsedIsNeverRefunded ImplementsStock ActiveEnds
