\* Two staff requests at once over two invitations, one of which may have to wait
\* for the other to end.
CONSTANTS
  User = {u1, u2}  Event = {e1}  Invitation = {i1, i2}  Cpf = {c1}  Request = {r1, r2}
  Null = Null  TTL = 1  Horizon = 2
SPECIFICATION FairSpec
INVARIANTS OnePending StaffIsAccepted RolesAreBacked
PROPERTIES RolesKept PendingEnds
