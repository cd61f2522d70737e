-------------------------- MODULE InvoiceIssuance ---------------------------
(***************************************************************************)
(* What the ledger promises about one invoice, without saying how: it is   *)
(* open, in flight or issued; a tax authority outside comes to hold at     *)
(* most one document for it, and only while it is in flight; and it never  *)
(* opens again once such a document exists.                                *)
(***************************************************************************)
CONSTANTS Documents, NoDocument

VARIABLES
  phase,    \* whose move it is
  document  \* the document that stands as the invoice, outside this system

vars == <<phase, document>>

Init == phase = "open" /\ document = NoDocument

\* The invoice leaves its owner's hands.
Submit == phase = "open" /\ phase' = "inFlight" /\ UNCHANGED document

\* It is issued: from here on somebody else holds it.
Issue ==
  /\ phase = "inFlight"
  /\ document = NoDocument
  /\ document' \in Documents
  /\ UNCHANGED phase

\* It comes back, refused or never having arrived.
Return ==
  /\ phase = "inFlight"
  /\ document = NoDocument
  /\ phase' = "open"
  /\ UNCHANGED document

\* The ledger learns that it was issued.
Learn ==
  /\ phase = "inFlight"
  /\ document # NoDocument
  /\ phase' = "issued"
  /\ UNCHANGED document

\* Its owner issues it without KSeF.
IssueElsewhere == phase = "open" /\ phase' = "issued" /\ UNCHANGED document

Next == Submit \/ Issue \/ Return \/ Learn \/ IssueElsewhere

Spec == Init /\ [][Next]_vars
=============================================================================
