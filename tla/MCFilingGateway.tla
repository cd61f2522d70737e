--------------------------- MODULE MCFilingGateway ---------------------------
(* The sets of requests that the runs of FilingGateway serve. *)
EXTENDS FilingGateway

EveryOp == AllOps

\* Everything but taking a filing off again by hand.
FilingOps == AllOps \ {"unrecord"}

SendingOps == {"produce", "send", "status"}
=============================================================================
