-------------------------- MODULE MCInvoiceSending --------------------------
(* The sets of requests that the runs of InvoiceSending serve.             *)
EXTENDS InvoiceSending

\* Every request a signed-in owner can make about an invoice.
EveryOp == AllOps

\* The requests that keep the row and send it.
StoringAndSendingOps == {"save", "send", "status"}
=============================================================================
