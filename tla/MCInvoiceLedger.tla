--------------------------- MODULE MCInvoiceLedger ---------------------------
(* The instances of InvoiceLedger that the runs check.                     *)
EXTENDS InvoiceLedger

EveryOp == AllOps

\* Being paid and selling, over invoices and corrections that are issued.
SellingOps == {"invoice", "correct", "issue", "pay", "sell", "unsell"}

\* One and a half, and two and a half, in halves.
TwoYears == <<3, 5>>

\* The texts of an invoice that is the eighth document of its month and of the
\* corrections after it, the others being of other contracts: "-8" comes before
\* every "-KOR-", and "-KOR-10" before "-KOR-9".
EighthToTenth == <<1, 3, 2>>

\* As the first two of a month sort.
FirstAndSecond == <<1, 2>>
=============================================================================
