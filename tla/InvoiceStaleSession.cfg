SPECIFICATION Spec
CONSTANTS
  Workers = {w1}
  Payloads = {p1, p2}
  NoPayload = NoPayload
  Ops <- StoringAndSendingOps
  Crashes = FALSE
  MaxRows = 1
  MaxRenders = 2
  MaxSessions = 2
PROPERTIES
  FailedUnopenedIsReleased
