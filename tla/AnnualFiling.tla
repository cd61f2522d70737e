--------------------------- MODULE AnnualFiling ----------------------------
(***************************************************************************)
(* What the program promises about a year's files, without saying how they *)
(* are sent: a file is drawn up, leaves the taxpayer's hands, and comes    *)
(* back or is filed; the tax office takes each at most once, and only      *)
(* while it is out; and whatever the tax office has taken, or may yet      *)
(* take, is neither sent again nor thrown away.                            *)
(***************************************************************************)
EXTENDS Naturals

CONSTANT Files

VARIABLES
  files,   \* what the taxpayer knows of each file
  office,  \* what the tax office has of it
  day

vars == <<files, office, day>>

\* on is the day a file in flight was sent, and the filing date of a filed one.
File(standing, purpose, made, on, receipt) ==
  [standing |-> standing, purpose |-> purpose, made |-> made, on |-> on, receipt |-> receipt]

Blank(standing) == File(standing, "first", 0, 0, "none")

Init ==
  /\ files = [f \in Files |-> Blank("none")]
  /\ office = [f \in Files |-> "nothing"]
  /\ day = 1

Becomes(f, file) ==
  /\ files' = [files EXCEPT ![f] = file]
  /\ UNCHANGED <<office, day>>

\* What a file is, and when it was made, does not change.
Moves(f, standing, on, receipt) ==
  Becomes(f, File(standing, files[f].purpose, files[f].made, on, receipt))

\* A file is a correction once anything has been filed for the year.
Purpose ==
  IF \E f \in Files : files[f].standing = "filed" THEN "correction" ELSE "first"

\* The next file is drawn up, of what was so on one of the days up to this one.
Produce(f) ==
  /\ \A g \in Files : files[g].standing = "none" <=> g >= f
  /\ \E made \in 1..day : Becomes(f, File("draft", Purpose, made, 0, "none"))

Send(f) ==
  /\ files[f].standing = "draft"
  /\ office[f] = "nothing"
  /\ Moves(f, "inFlight", day, "none")

\* It comes back, refused or never having arrived.
Return(f) ==
  /\ files[f].standing = "inFlight"
  /\ office[f] = "nothing"
  /\ Moves(f, "draft", 0, "none")

\* The taxpayer learns that it is filed, as of the day it was sent.
Learn(f) ==
  /\ files[f].standing = "inFlight"
  /\ office[f] = "accepted"
  /\ Moves(f, "filed", files[f].on, "official")

\* The taxpayer files it elsewhere, or says when it was filed.
Record(f) ==
  /\ files[f].standing \in {"draft", "filed"}
  /\ \E on \in files[f].made..day : Moves(f, "filed", on, "none")

\* It was not filed after all: the tax office does not have it, and nothing
\* drawn up since corrects it.
Retract(f) ==
  /\ files[f].standing = "filed"
  /\ office[f] = "nothing"
  /\ \A g \in Files :
       g > f /\ files[g].standing \in {"draft", "inFlight", "filed"} => files[g].purpose = "first"
  /\ Moves(f, "draft", 0, "none")

Discard(f) ==
  /\ files[f].standing = "draft"
  /\ office[f] = "nothing"
  /\ Becomes(f, Blank("discarded"))

Decides(f, from, to) ==
  /\ office[f] = from
  /\ office' = [office EXCEPT ![f] = to]
  /\ UNCHANGED <<files, day>>

\* The tax office is handed the file, and accepts or refuses it.
Receive(f) == files[f].standing = "inFlight" /\ Decides(f, "nothing", "processing")
Accept(f) == Decides(f, "processing", "accepted")
Refuse(f) == Decides(f, "processing", "nothing")

NextDay == day' = day + 1 /\ UNCHANGED <<files, office>>

Step(f) == Produce(f) \/ Send(f) \/ Return(f) \/ Learn(f) \/ Record(f) \/ Retract(f)
           \/ Discard(f) \/ Receive(f) \/ Accept(f) \/ Refuse(f)

Next == NextDay \/ \E f \in Files : Step(f)

Spec == Init /\ [][Next]_vars
=============================================================================
