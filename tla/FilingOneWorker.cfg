SPECIFICATION Spec
CONSTANTS
  Workers = {w1}
  Ops <- FilingOps
  Crashes = TRUE
  MaxFiles = 2
  MaxSessions = 3
  MaxDay = 2
INVARIANTS
  TypeOK
  SubmittedOnce
  HeldWhileLive
  ReceiptIsItsOwn
PROPERTIES
  ImplementsAnnualFiling
