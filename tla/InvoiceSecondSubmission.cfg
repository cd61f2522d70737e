SPECIFICATION Spec
CONSTANTS
  Workers = {w1, w2}
  Payloads = {p1, p2}
  NoPayload = NoPayload
  Ops <- StoringAndSendingOps
  Crashes = FALSE
  MaxRows = 1
  MaxRenders = 3
  MaxSessions = 3
INVARIANTS
  IssuedOnce
