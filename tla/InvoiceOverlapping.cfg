SPECIFICATION FairSpec
CONSTANTS
  Workers = {w1, w2}
  Payloads = {p1, p2}
  NoPayload = NoPayload
  Ops <- EveryOp
  Crashes = FALSE
  MaxRows = 1
  MaxRenders = 1
  MaxSessions = 2
INVARIANTS
  AcceptedIsIssued
PROPERTIES
  InFlightIsSettled
