SPECIFICATION FairSpec
CONSTANTS
  Client = {c1}
  Hook = {h1, h2}
  Session = {s1, s2}
  MaxFailures = 2
INVARIANTS
  OrderIsPaid
  AckedIsSettled
  PaymentInv
PROPERTY PaidIsSettled
