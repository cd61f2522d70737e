SPECIFICATION Spec
CONSTANTS
  Workers = {w1, w2}
  Ops <- SendingOps
  Crashes = FALSE
  MaxFiles = 1
  MaxSessions = 2
  MaxDay = 1
INVARIANTS
  RefusedIsUnfiled
