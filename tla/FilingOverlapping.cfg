SPECIFICATION FairSpec
CONSTANTS
  Workers = {w1, w2}
  Ops <- EveryOp
  Crashes = FALSE
  MaxFiles = 1
  MaxSessions = 2
  MaxDay = 1
INVARIANTS
  ReceiptIsAccepted
PROPERTIES
  InFlightIsSettled
