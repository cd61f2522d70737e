SPECIFICATION Spec
CONSTANTS
  FirstYear = 2026
  LastYear = 2027
  FirstWeekday = 3
  None = None
  Gone = Gone
  Visitors = {visitor}
  Accounts = {account, closed}
  Deactivated = {closed}
  Forms <- MCForms
  Countries = {"PL", "CH"}
  Poland = "PL"
  Toggles <- MCToggles
  Files <- MCFiles
  Services <- MCServices
  Feeds <- MCFeeds
  Today <- MCToday
  InvoiceMonths <- MCInvoiceMonths
  MaxInvoices = 2
INVARIANTS
  TypeOK
  ExportedComesBack
  CountsAgree
  PeriodIsAccountedFor
  StaleIsSaid
PROPERTIES
  SharesKeepTheCap
  ContractsAreKept
