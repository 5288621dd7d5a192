\* An acceptance is written after the user has become an organizer.
CONSTANTS
  User = {u1}  Event = {e1}  Invitation = {i1}  Cpf = {c1}  Request = {r1}
  Null = Null  TTL = 1  Horizon = 1
SPECIFICATION Spec
PROPERTIES RolesAccumulate
