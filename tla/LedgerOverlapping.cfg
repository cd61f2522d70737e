SPECIFICATION Spec
CONSTANTS
  Workers = {w1, w2}
  Ops <- SellingOps
  Crashes = TRUE
  Currencies = {"EUR"}
  Totals = {0, 3}
  RateBefore <- TwoYears
  TextPlace <- FirstAndSecond
  Scale = 2
  Missing = Missing
  MaxDocs = 2
  MaxInvoices = 1
  MaxSales = 2
PROPERTIES
  SaleIsCovered
