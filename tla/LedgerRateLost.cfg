SPECIFICATION Spec
CONSTANTS
  Workers = {w1}
  Ops <- SellingOps
  Crashes = FALSE
  Currencies = {"EUR"}
  Totals = {2, 3}
  RateBefore <- TwoYears
  TextPlace <- FirstAndSecond
  Scale = 2
  Missing = Missing
  MaxDocs = 2
  MaxInvoices = 1
  MaxSales = 1
INVARIANTS
  SalesKeepTheirRate
