SPECIFICATION Spec
CONSTANTS
  None = None
  DaysOff <- MCDaysOff
  LeadTimes = {0, 1, 3, 7, 14}
  Sellers <- MCSellers
  Registers <- MCRegisters
  Wages <- MCWages
  HealthWages <- MCHealthWages
  Years = {2025, 2026, 2027, 2028}
  RequestMonths <- MCMonths
  EnteredYears = {2027}
  RequestYears = {2026}
  Days <- MCDays
  MaxRows = 2
  MaxMarks = 1
INVARIANTS
  TypeOK
  OncePerPeriod
  DeductedOnce
  BandIsTheHighestReached
  OfferIsWhatCanBeRecorded
  RingsFromTheFeed
  ChargedAsAnnounced
  OfferedCanBeDone
  ContributionsOnlyLower
