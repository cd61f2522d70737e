SPECIFICATION Spec
CONSTANTS
  Workers = {w1}
  Payloads = {p1, p2}
  NoPayload = NoPayload
  Ops <- EveryOp
  Crashes = TRUE
  MaxRows = 2
  MaxRenders = 3
  MaxSessions = 3
INVARIANTS
  TypeOK
  IssuedOnce
  ClosedWhileLive
  SettledOnItsBytes
PROPERTIES
  IssuedIsFinal
  RehearsedIsSubmitted
  ImplementsIssuance
