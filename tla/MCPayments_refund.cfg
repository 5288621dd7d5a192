SPECIFICATION Spec
CONSTANTS
  Client = {c1}
  Hook = {h1}
  Session = {s1}
  MaxFailures = 0
PROPERTY ConfirmedIsNotRefunded
