SPECIFICATION FairSpec
CONSTANTS
  Workers = {w1}
  Ops <- EveryOp
  Crashes = FALSE
  Currencies = {"EUR", "PLN"}
  Totals = {0, 3, 5}
  RateBefore <- TwoYears
  TextPlace <- EighthToTenth
  Scale = 2
  Missing = Missing
  MaxDocs = 3
  MaxInvoices = 1
  MaxSales = 1
INVARIANTS
  TypeOK
  OneCorrection
  RevenueAddsUp
  PaymentIsOfWhatIsOwed
  SalesHaveAnInflow
PROPERTIES
  RevenueIsFrozen
  GapsAreFilled
