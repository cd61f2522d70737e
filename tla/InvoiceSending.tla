--------------------------- MODULE InvoiceSending ---------------------------
(***************************************************************************)
(* One invoice of the ledger and everything that is done to it: the row in *)
(* SQLite, the requests that read it and write it back, and KSeF, the      *)
(* national invoice system, on the other side of the network.              *)
(*                                                                         *)
(* A request loads the row once and then works from that copy, which every *)
(* later update refreshes. Statements commit one by one, the send path     *)
(* refusing to run inside a transaction, so a step here is one statement   *)
(* (with the refresh that follows it) or one call to KSeF, and a request   *)
(* may die between any two of them.                                        *)
(*                                                                         *)
(* The details of an invoice are a member of Payloads, kept apart as the   *)
(* row's own columns (head) and its lines, because an edit writes the two  *)
(* in turn. A rendering is those details and the timestamp it was taken at.*)
(***************************************************************************)
EXTENDS Naturals, FiniteSets

CONSTANTS
  Workers,      \* the requests that can be served at the same time
  Ops,          \* which requests arrive
  Crashes,      \* whether a request may die part way
  Payloads,     \* the details an invoice can be submitted with
  NoPayload,    \* the lines of an invoice that has none yet
  MaxRows,      \* bound: rows ever created under this invoice's number
  MaxRenders,   \* bound: FA(3) renderings ever taken
  MaxSessions   \* bound: KSeF sessions ever opened

AllOps == {"save", "send", "rehearse", "status", "delete", "issue", "seller"}

ASSUME OpsAssumption == Ops \subseteq AllOps
ASSUME CrashesAssumption == Crashes \in BOOLEAN
ASSUME PayloadsAssumption == NoPayload \notin Payloads
ASSUME BoundsAssumption ==
  MaxRows \in Nat /\ MaxRenders \in Nat /\ MaxSessions \in Nat \ {0}

VARIABLES
  row,        \* the Invoice row, as committed
  rows,       \* how many rows the number has had, the source of primary keys
  clock,      \* the timestamp of the last rendering
  seller,     \* whether the seller row still holds the invoice's NIP and a token
  ksef,       \* what KSeF holds for each session this application opened
  rehearsed,  \* the bytes a sandbox KSeF last accepted for these details
  pc,         \* where each request stands
  goal,       \* whether a request that freezes goes on to send or to rehearse
  mem,        \* each request's own copy of the row
  session     \* the session each request has opened, 0 before it has one

dbVars == <<row, rows, clock, seller>>
reqVars == <<pc, goal, mem, session>>
vars == <<row, rows, clock, seller, ksef, rehearsed, pc, goal, mem, session>>

-----------------------------------------------------------------------------
(* The row.                                                                *)

States == {"draft", "sending", "accepted", "rejected", "issued"}
Editable == {"draft", "rejected"}

Sessions == 1..MaxSessions

\* A document no one has rendered: the column is null.
NoXml == [head |-> NoPayload, lines |-> NoPayload, at |-> 0]

Renderings ==
  [head : Payloads \cup {NoPayload}, lines : Payloads \cup {NoPayload}, at : 0..MaxRenders]

Rows == [pk : 0..MaxRows, state : States, head : Payloads \cup {NoPayload},
         lines : Payloads \cup {NoPayload}, xml : Renderings,
         sess : 0..MaxSessions, ref : 0..MaxSessions, resume : 0..MaxSessions,
         number : 0..MaxSessions]

\* sess, ref and resume are session_reference, invoice_reference and
\* session_state: one invoice goes into a session, so the session names all
\* three. number is the KSeF number, by the session that was first given it.
FreshRow(pk, payload, lines) ==
  [pk |-> pk, state |-> "draft", head |-> payload, lines |-> lines, xml |-> NoXml,
   sess |-> 0, ref |-> 0, resume |-> 0, number |-> 0]

NoRow == FreshRow(0, NoPayload, NoPayload)

\* The row a request loaded is still the one under that primary key.
Here(w) == row.pk # 0 /\ row.pk = mem[w].pk

-----------------------------------------------------------------------------
(* KSeF. A session is opened, one invoice is put in it, and KSeF decides.   *)

Verdicts == {"unused", "open", "processing", "accepted", "duplicate", "rejected"}
Decided == {"accepted", "duplicate", "rejected"}

\* KSeF may hold the document as an invoice already, or may yet.
Live(s) == ksef[s].verdict \in {"processing", "accepted"}

\* The session that was accepted with these very bytes, 0 when there is none.
AcceptedUnder(xml) ==
  IF \E s \in Sessions : ksef[s] = [xml |-> xml, verdict |-> "accepted"]
  THEN CHOOSE s \in Sessions : ksef[s] = [xml |-> xml, verdict |-> "accepted"]
  ELSE 0

Decide(s) ==
  /\ ksef[s].verdict = "processing"
  /\ \E verdict \in IF AcceptedUnder(ksef[s].xml) # 0 THEN {"duplicate"}
                    ELSE {"accepted", "rejected"} :
       ksef' = [ksef EXCEPT ![s].verdict = verdict]
  /\ UNCHANGED <<dbVars, reqVars, rehearsed>>

-----------------------------------------------------------------------------
(* What requests have in common.                                           *)

Places == {"idle", "create", "rewrite", "lines", "render", "freeze", "claim",
           "open", "record", "submit", "reference", "fail", "trial", "ask",
           "settle", "delete", "issue"}
Goals == {"none", "send", "rehearse"}

Goto(w, place) == pc' = [pc EXCEPT ![w] = place]

\* An update of the row, and the refresh_from_db that follows it.
Write(w, updated) == row' = updated /\ mem' = [mem EXCEPT ![w] = updated]

\* The request answers, and its copy of the row goes with it.
Finish(w) ==
  /\ Goto(w, "idle")
  /\ goal' = [goal EXCEPT ![w] = "none"]
  /\ mem' = [mem EXCEPT ![w] = NoRow]
  /\ session' = [session EXCEPT ![w] = 0]

\* The request answers having changed nothing more: an error, or nothing to do.
GiveUp(w) == Finish(w) /\ UNCHANGED <<dbVars, ksef, rehearsed>>

\* Every view begins by loading the row.
Load(w, op, place, purpose) ==
  /\ op \in Ops
  /\ pc[w] = "idle"
  /\ row.pk # 0
  /\ mem' = [mem EXCEPT ![w] = row]
  /\ goal' = [goal EXCEPT ![w] = purpose]
  /\ Goto(w, place)
  /\ UNCHANGED <<dbVars, ksef, rehearsed, session>>

\* refresh_from_db finds no row: the owner deleted it meanwhile.
Vanished(w) ==
  /\ pc[w] \notin {"idle", "create", "render", "open", "submit", "trial", "ask"}
  /\ ~Here(w)
  /\ GiveUp(w)

\* The process serving the request dies.
Crash(w) == Crashes /\ pc[w] # "idle" /\ GiveUp(w)

-----------------------------------------------------------------------------
(* Storing what was submitted: a new row, or the one the number has.       *)

LoadToCreate(w) ==
  /\ "save" \in Ops
  /\ pc[w] = "idle"
  /\ row.pk = 0
  /\ Goto(w, "create")
  /\ UNCHANGED <<dbVars, ksef, rehearsed, goal, mem, session>>

Create(w) ==
  /\ pc[w] = "create"
  /\ row.pk = 0
  /\ rows < MaxRows
  /\ rows' = rows + 1
  /\ \E payload \in Payloads : Write(w, FreshRow(rows + 1, payload, NoPayload))
  /\ rehearsed' = NoXml
  /\ Goto(w, "lines")
  /\ UNCHANGED <<clock, seller, ksef, goal, session>>

\* Two requests creating the same number: the constraint refuses the second.
CreateRefused(w) == pc[w] = "create" /\ (row.pk # 0 \/ rows = MaxRows) /\ GiveUp(w)

RewritesAnything(r) == TRUE
MayRewrite(r) == r.state \in Editable

LoadToRewrite(w) == MayRewrite(row) /\ Load(w, "save", "rewrite", "none")

RewrittenKeepingXml(r, loaded, payload) ==
  [r EXCEPT !.head = payload,
            !.state = IF loaded.state = "rejected" THEN "draft" ELSE @,
            !.resume = IF loaded.state = "rejected" THEN 0 ELSE @]

\* The frozen document goes, being of other details. A verdict goes with it,
\* judging by the state the request loaded rather than the one the row is in.
\* session_reference and invoice_reference stay as they were.
Rewritten(r, loaded, payload) ==
  [r EXCEPT !.head = payload,
            !.xml = NoXml,
            !.state = IF loaded.state = "rejected" THEN "draft" ELSE @,
            !.resume = IF loaded.state = "rejected" THEN 0 ELSE @]

Rewrite(w) ==
  /\ pc[w] = "rewrite"
  /\ Here(w)
  /\ \E payload \in Payloads :
       /\ mem[w].head # payload \/ mem[w].lines # payload
       /\ Write(w, Rewritten(row, mem[w], payload))
  /\ rehearsed' = NoXml
  /\ Goto(w, "lines")
  /\ UNCHANGED <<rows, clock, seller, ksef, goal, session>>

StoredWithLines(r, loaded) == [r EXCEPT !.lines = loaded.head]

\* invoice_save answers here; invoice_send and invoice_rehearse hand the copy
\* on, which has nothing frozen in it.
ReplaceLines(w) ==
  /\ pc[w] = "lines"
  /\ Here(w)
  /\ row' = StoredWithLines(row, mem[w])
  /\ UNCHANGED <<rows, clock, seller, ksef, rehearsed>>
  /\ \/ Finish(w)
     \/ /\ seller
        /\ \E purpose \in Goals \cap Ops :
             /\ purpose = "rehearse" => mem[w].state = "draft"
             /\ goal' = [goal EXCEPT ![w] = purpose]
        /\ Goto(w, "render")
        /\ UNCHANGED <<mem, session>>

-----------------------------------------------------------------------------
(* Freezing: rendering the document once, and keeping the bytes.           *)

AfterFreezeByName(purpose) == purpose
AfterFreeze(purpose) == IF purpose = "send" THEN "claim" ELSE "trial"

\* A copy that already has its bytes is not rendered again.
RendersAlways(r) == TRUE
MustRender(r) == r.xml = NoXml

\* The details submitted are the ones the copy has: nothing is stored, and the
\* bytes it may have stay good for what the request was made for.
Resubmit(w) ==
  /\ pc[w] = "rewrite"
  /\ mem[w].head \in Payloads /\ mem[w].lines = mem[w].head
  /\ seller
  /\ \E purpose \in Goals \cap Ops :
       /\ purpose = "rehearse" => mem[w].state = "draft"
       /\ goal' = [goal EXCEPT ![w] = purpose]
       /\ Goto(w, IF MustRender(mem[w]) THEN "render" ELSE AfterFreeze(purpose))
  /\ UNCHANGED <<dbVars, ksef, rehearsed, mem, session>>

SavedUnchanged(w) ==
  /\ pc[w] = "rewrite"
  /\ mem[w].head \in Payloads /\ mem[w].lines = mem[w].head
  /\ GiveUp(w)

LoadToSend(w) ==
  /\ seller
  /\ Load(w, "send", IF MustRender(row) THEN "render" ELSE "claim", "send")

LoadToRehearse(w) ==
  /\ seller
  /\ row.state = "draft"
  /\ Load(w, "rehearse", IF MustRender(row) THEN "render" ELSE "trial", "rehearse")

\* The header comes from the copy and the lines are read now. mem[w].xml holds
\* the rendering until it is written.
Render(w) ==
  /\ pc[w] = "render"
  /\ clock < MaxRenders
  /\ clock' = clock + 1
  /\ mem' = [mem EXCEPT ![w].xml =
               [head  |-> mem[w].head,
                lines |-> IF Here(w) THEN row.lines ELSE NoPayload,
                at    |-> clock + 1]]
  /\ Goto(w, "freeze")
  /\ UNCHANGED <<row, rows, seller, ksef, rehearsed, goal, session>>

\* The document fails its schema, or the schema cannot be fetched.
RenderRefused(w) == pc[w] = "render" /\ GiveUp(w)

\* Whatever the row holds by now is overwritten.
Freeze(w) ==
  /\ pc[w] = "freeze"
  /\ Here(w)
  /\ Write(w, [row EXCEPT !.xml = mem[w].xml])
  /\ Goto(w, AfterFreeze(goal[w]))
  /\ UNCHANGED <<rows, clock, seller, ksef, rehearsed, goal, session>>

\* A rehearsal sends the copy's bytes to a KSeF that issues nothing, and comes
\* back with a verdict, or with none.
Rehearse(w) ==
  /\ pc[w] = "trial"
  /\ rehearsed' = mem[w].xml
  /\ Finish(w)
  /\ UNCHANGED <<dbVars, ksef>>

RehearsalFails(w) == pc[w] = "trial" /\ GiveUp(w)

-----------------------------------------------------------------------------
(* Sending.                                                                *)

ClaimsUnlessAccepted(r) == r.state # "accepted"
MayClaim(r) == r.state = "draft"

\* Compare-and-swap from draft; losing it ends the request with a conflict.
ClaimForSending(w) ==
  /\ pc[w] = "claim"
  /\ Here(w)
  /\ MayClaim(row)
  /\ Write(w, [row EXCEPT !.state = "sending"])
  /\ Goto(w, "open")
  /\ UNCHANGED <<rows, clock, seller, ksef, rehearsed, goal, session>>

ClaimLost(w) == pc[w] = "claim" /\ Here(w) /\ ~MayClaim(row) /\ GiveUp(w)

\* Authenticating under the invoice's NIP and opening the session. KSeF numbers
\* its sessions in the order they are opened.
OpenSession(w) ==
  /\ pc[w] = "open"
  /\ seller
  /\ \E s \in Sessions :
       /\ \A t \in Sessions : ksef[t].verdict = "unused" <=> t >= s
       /\ ksef' = [ksef EXCEPT ![s].verdict = "open"]
       /\ session' = [session EXCEPT ![w] = s]
  /\ Goto(w, "record")
  /\ UNCHANGED <<dbVars, rehearsed, goal, mem>>

\* KSeF is unreachable, or turns the credential down: a KSeFException.
OpenFails(w) ==
  /\ pc[w] = "open"
  /\ Goto(w, "fail")
  /\ UNCHANGED <<dbVars, ksef, rehearsed, goal, mem, session>>

\* The seller's NIP was changed since the claim. The InvoiceStateError this
\* raises is not one send() handles.
OpenRefused(w) == pc[w] = "open" /\ ~seller /\ GiveUp(w)

RecordSession(w) ==
  /\ pc[w] = "record"
  /\ Here(w)
  /\ Write(w, [row EXCEPT !.sess = session[w], !.resume = session[w]])
  /\ Goto(w, "submit")
  /\ UNCHANGED <<rows, clock, seller, ksef, rehearsed, goal, session>>

\* KSeF takes the bytes; whether its answer arrives is another matter.
SendInvoice(w) ==
  /\ pc[w] = "submit"
  /\ mem[w].xml # NoXml
  /\ ksef' = [ksef EXCEPT ![session[w]] = [xml |-> mem[w].xml, verdict |-> "processing"]]
  /\ \E place \in {"reference", "fail"} : Goto(w, place)
  /\ UNCHANGED <<dbVars, rehearsed, goal, mem, session>>

SendFails(w) ==
  /\ pc[w] = "submit"
  /\ mem[w].xml # NoXml
  /\ Goto(w, "fail")
  /\ UNCHANGED <<dbVars, ksef, rehearsed, goal, mem, session>>

\* The refreshed copy has lost its bytes to an edit: a TypeError, uncaught.
NothingToSend(w) == pc[w] = "submit" /\ mem[w].xml = NoXml /\ GiveUp(w)

\* Closing the session after this changes nothing on the row, however it goes.
RecordReference(w) ==
  /\ pc[w] = "reference"
  /\ Here(w)
  /\ row' = [row EXCEPT !.ref = session[w]]
  /\ Finish(w)
  /\ UNCHANGED <<rows, clock, seller, ksef, rehearsed>>

AlwaysReleases(copy) == TRUE
NeverReachedKsef(copy) == copy.sess = 0

\* A failed send goes back to draft where the copy names no session, and
\* otherwise stays in flight with the error noted.
RecordFailure(w) ==
  /\ pc[w] = "fail"
  /\ Here(w)
  /\ row' = IF NeverReachedKsef(mem[w]) /\ row.state = "sending"
            THEN [row EXCEPT !.state = "draft"]
            ELSE row
  /\ Finish(w)
  /\ UNCHANGED <<rows, clock, seller, ksef, rehearsed>>

-----------------------------------------------------------------------------
(* Asking KSeF what became of an invoice in flight.                        *)

ResolvableOnceNumbered(r) == r.state = "sending" /\ r.number # 0
Resolvable(r) == r.state = "sending" /\ r.ref # 0 /\ r.resume # 0

LoadForStatus(w) == Resolvable(row) /\ Load(w, "status", "ask", "none")

AnsweredOnceTaken(s) == ksef[s].verdict # "open"
Answered(s) == ksef[s].verdict \in Decided

\* The session resumed has to be the one the invoice was put into.
Ask(w) ==
  /\ pc[w] = "ask"
  /\ seller
  /\ mem[w].ref = mem[w].resume
  /\ Answered(mem[w].ref)
  /\ Goto(w, "settle")
  /\ UNCHANGED <<dbVars, ksef, rehearsed, goal, mem, session>>

\* KSeF is still processing, does not answer, or knows no such invoice.
AskUnanswered(w) == pc[w] = "ask" /\ GiveUp(w)

SettledBy(r, s) ==
  IF ksef[s].verdict = "rejected"
  THEN [r EXCEPT !.state = "rejected"]
  ELSE [r EXCEPT !.state = "accepted", !.number = AcceptedUnder(ksef[s].xml)]

\* Compare-and-swap from sending; a poll that comes second changes nothing.
MaySettle(r) == r.state = "sending"

Settle(w) ==
  /\ pc[w] = "settle"
  /\ Here(w)
  /\ row' = IF MaySettle(row) THEN SettledBy(row, mem[w].ref) ELSE row
  /\ Finish(w)
  /\ UNCHANGED <<rows, clock, seller, ksef, rehearsed>>

-----------------------------------------------------------------------------
(* The owner's other requests.                                             *)

LoadToDelete(w) == MayRewrite(row) /\ Load(w, "delete", "delete", "none")

Delete(w) ==
  /\ pc[w] = "delete"
  /\ Here(w)
  /\ row' = NoRow
  /\ rehearsed' = NoXml
  /\ Finish(w)
  /\ UNCHANGED <<rows, clock, seller, ksef>>

\* Issuing outside KSeF, when the contract is configured that way at the time.
MayIssueUnsettled(r) == r.state \in {"draft", "sending"}
MayIssue(r) == r.state = "draft"

LoadToIssue(w) == MayIssue(row) /\ Load(w, "issue", "issue", "none")

MarkIssued(w) ==
  /\ pc[w] = "issue"
  /\ Here(w)
  /\ row' = [row EXCEPT !.state = "issued"]
  /\ Finish(w)
  /\ UNCHANGED <<rows, clock, seller, ksef, rehearsed>>

\* Editing the seller: its NIP or its token goes, or comes back.
EditSeller(w) ==
  /\ "seller" \in Ops
  /\ pc[w] = "idle"
  /\ seller' = ~seller
  /\ UNCHANGED <<row, rows, clock, ksef, rehearsed, reqVars>>

-----------------------------------------------------------------------------
(* The specification.                                                      *)

\* A draft is stored under the number, or nothing is yet.
Init ==
  /\ \/ row = NoRow /\ "save" \in Ops
     \/ row \in {FreshRow(1, payload, payload) : payload \in Payloads}
  /\ rows = row.pk
  /\ row.pk <= MaxRows
  /\ clock = 0
  /\ seller = TRUE
  /\ ksef = [s \in Sessions |-> [xml |-> NoXml, verdict |-> "unused"]]
  /\ rehearsed = NoXml
  /\ pc = [w \in Workers |-> "idle"]
  /\ goal = [w \in Workers |-> "none"]
  /\ mem = [w \in Workers |-> NoRow]
  /\ session = [w \in Workers |-> 0]

Storing(w) == LoadToCreate(w) \/ Create(w) \/ CreateRefused(w)
              \/ LoadToRewrite(w) \/ Rewrite(w) \/ ReplaceLines(w)
              \/ Resubmit(w) \/ SavedUnchanged(w)

Freezing(w) == LoadToSend(w) \/ LoadToRehearse(w) \/ Render(w) \/ RenderRefused(w)
               \/ Freeze(w) \/ Rehearse(w) \/ RehearsalFails(w)

Sending(w) == ClaimForSending(w) \/ ClaimLost(w) \/ OpenSession(w) \/ OpenFails(w)
              \/ OpenRefused(w) \/ RecordSession(w) \/ SendInvoice(w) \/ SendFails(w)
              \/ NothingToSend(w) \/ RecordReference(w) \/ RecordFailure(w)

Resolving(w) == LoadForStatus(w) \/ Ask(w) \/ AskUnanswered(w) \/ Settle(w)

Other(w) == LoadToDelete(w) \/ Delete(w) \/ LoadToIssue(w) \/ MarkIssued(w)
            \/ EditSeller(w) \/ Vanished(w) \/ Crash(w)

Handle(w) == Storing(w) \/ Freezing(w) \/ Sending(w) \/ Resolving(w) \/ Other(w)

Next ==
  \/ \E w \in Workers : Handle(w)
  \/ \E s \in Sessions : Decide(s)

Spec == Init /\ [][Next]_vars

\* What runs by itself: a request once begun goes on, KSeF decides, and the
\* invoice's page polls while it shows an invoice in flight. Opening the page
\* or getting an answer from KSeF is possible again and again rather than all
\* the time, hence strong fairness for those two.
Fairness ==
  /\ \A w \in Workers : WF_vars(Handle(w) /\ pc[w] # "idle")
  /\ SF_vars(\E w \in Workers : LoadForStatus(w))
  /\ SF_vars(\E w \in Workers : Ask(w))
  /\ \A s \in Sessions : WF_vars(Decide(s))

FairSpec == Spec /\ Fairness

-----------------------------------------------------------------------------
(* Properties.                                                             *)

\* The committed row, KSeF's sessions and the requests have the values their
\* columns and places allow.
TypeOK ==
  /\ row \in Rows
  /\ rows \in 0..MaxRows
  /\ clock \in 0..MaxRenders
  /\ seller \in BOOLEAN
  /\ ksef \in [Sessions -> [xml : Renderings, verdict : Verdicts]]
  /\ rehearsed \in Renderings
  /\ pc \in [Workers -> Places]
  /\ goal \in [Workers -> Goals]
  /\ mem \in [Workers -> Rows]
  /\ session \in [Workers -> 0..MaxSessions]

\* KSeF never issues two invoices for this one: whatever fails, is retried or
\* rewritten, at most one submission is accepted or may still be. This is what
\* the claim, the frozen bytes and the unresolved failure are together for.
IssuedOnce == \A s, t \in Sessions : Live(s) /\ Live(t) => s = t

\* While KSeF holds the document, or may come to, the row is neither editable
\* nor gone, so nothing lets it be rewritten, deleted or sent again.
ClosedWhileLive ==
  \A s \in Sessions : Live(s) => row.pk # 0 /\ row.state \in {"sending", "accepted"}

\* A verdict on the row is KSeF's verdict on the very bytes the row holds. An
\* accepted row's number is that of the document with those bytes, and the
\* details the row shows are the ones in it.
SettledOnItsBytes ==
  /\ row.state = "accepted" =>
       /\ row.number # 0
       /\ ksef[row.number] = [xml |-> row.xml, verdict |-> "accepted"]
       /\ row.xml.head = row.head
       /\ row.xml.lines = row.lines
  /\ row.state = "rejected" =>
       \E s \in Sessions : ksef[s] = [xml |-> row.xml, verdict |-> "rejected"]

\* Whatever requests overlap, the row never says accepted, and its revenue is
\* never counted, without a document that KSeF accepted under its number.
AcceptedIsIssued ==
  row.state = "accepted" => row.number # 0 /\ ksef[row.number].verdict = "accepted"

\* Once an invoice is issued, by KSeF or by its owner, its details, its bytes
\* and its state never change again, and the row never goes.
IssuedIsFinal ==
  [][row.state \in {"accepted", "issued"} =>
       /\ row'.pk = row.pk
       /\ row'.state = row.state
       /\ row'.head = row.head
       /\ row'.lines = row.lines
       /\ row.state = "accepted" => row'.xml = row.xml]_vars

\* What production receives is what was rehearsed: an unedited invoice that a
\* sandbox accepted is submitted with exactly the bytes the sandbox saw.
RehearsedIsSubmitted ==
  [][\A s \in Sessions :
       ksef[s].verdict = "open" /\ ksef'[s].verdict = "processing" =>
         rehearsed \in {NoXml, ksef'[s].xml}]_vars

\* An invoice in flight whose references are those of one session does not stay
\* in flight under them: somebody looking at it is enough for KSeF's verdict to
\* reach the row, whatever else is asked of the invoice meanwhile, once the
\* seller keeps its NIP and token.
InFlightIsSettled ==
  <>[]seller =>
    \A s \in Sessions :
      (row.state = "sending" /\ row.ref = s /\ row.resume = s)
        ~> ~(row.state = "sending" /\ row.ref = s /\ row.resume = s)

\* The promise of InvoiceIssuance: the row says who may move, and the document
\* is the one KSeF accepted.
Phase ==
  CASE row.state = "sending" -> "inFlight"
    [] row.state \in {"accepted", "issued"} -> "issued"
    [] OTHER -> "open"

IssuedDocument ==
  IF \E s \in Sessions : ksef[s].verdict = "accepted"
  THEN ksef[CHOOSE s \in Sessions : ksef[s].verdict = "accepted"].xml
  ELSE NoXml

Issuance == INSTANCE InvoiceIssuance
              WITH Documents <- Renderings, NoDocument <- NoXml,
                   phase <- Phase, document <- IssuedDocument

\* Storing, sending, failing, polling and KSeF's own decisions together do no
\* more than the promise allows: a row never opens over an issued document,
\* and is never recorded as issued before there is one.
ImplementsIssuance == Issuance!Spec

-----------------------------------------------------------------------------
(* Why it is issued once: the inductive invariant behind IssuedOnce. It    *)
(* takes one of two disciplines. Either requests are served one at a time, *)
(* as the deployment's single worker does; or they overlap, and none of    *)
(* them stores, discards or issues the invoice meanwhile.                  *)

OneAtATime == \A v, w \in Workers : v = w
NothingRewritten == Ops \cap {"save", "delete", "issue"} = {}

SendingPlaces == {"open", "record", "submit", "reference", "fail"}
AskingPlaces == {"ask", "settle"}
RewritingPlaces == {"create", "rewrite", "lines", "delete", "issue"}

NothingLive == \A s \in Sessions : ~Live(s)

\* Past the claim a request has the row in flight to itself, and KSeF can only
\* hold what it has put in its own session.
SenderInv(w) ==
  /\ pc[w] \in SendingPlaces => Here(w) /\ row.state = "sending"
  /\ pc[w] \in {"open", "record", "submit"} => NothingLive
  /\ pc[w] \in {"record", "submit"} =>
       session[w] \in Sessions /\ ksef[session[w]].verdict = "open"
  /\ pc[w] = "submit" => mem[w].sess = session[w] /\ row.resume = session[w]
  /\ pc[w] = "reference" =>
       session[w] \in Sessions /\ \A s \in Sessions : Live(s) => s = session[w]
  /\ pc[w] = "fail" /\ mem[w].sess = 0 => NothingLive

\* A poll asks about the references the row still has.
AskerInv(w) ==
  /\ pc[w] \in AskingPlaces => mem[w].ref \in Sessions
  /\ pc[w] \in AskingPlaces /\ Here(w) /\ row.state = "sending" =>
       row.ref = mem[w].ref /\ row.resume = mem[w].resume
  /\ pc[w] = "settle" =>
       /\ mem[w].ref = mem[w].resume
       /\ ksef[mem[w].ref].verdict \in Decided

\* The check a request made before it rewrites the row still stands.
RewriterInv(w) ==
  /\ pc[w] \in RewritingPlaces => ~NothingRewritten
  /\ pc[w] \in {"rewrite", "delete"} /\ Here(w) => row.state \in Editable
  /\ pc[w] = "rewrite" /\ Here(w) => row.state = mem[w].state
  /\ pc[w] \in {"lines", "issue"} /\ Here(w) => row.state = "draft"

\* What an invoice in flight can be asked about is what KSeF may hold of it.
ReferenceInv ==
  row.state = "sending" /\ row.ref # 0 /\ row.ref = row.resume =>
    \A s \in Sessions : Live(s) => s = row.ref

\* Where nothing is rewritten, a reference is only ever recorded once.
FirstReferenceInv ==
  NothingRewritten =>
    /\ row.state = "draft" => row.ref = 0
    /\ \A w \in Workers : pc[w] \in SendingPlaces => row.ref = 0
    /\ \A w \in Workers : pc[w] \in AskingPlaces => row.ref # 0

OneSender ==
  \A v, w \in Workers : pc[v] \in SendingPlaces /\ pc[w] \in SendingPlaces => v = w

IssuingInv ==
  /\ TypeOK
  /\ IssuedOnce
  /\ ClosedWhileLive
  /\ OneSender
  /\ ReferenceInv
  /\ FirstReferenceInv
  /\ \A w \in Workers : SenderInv(w) /\ AskerInv(w) /\ RewriterInv(w)

-----------------------------------------------------------------------------
(* What the code says of itself, and does not do.                          *)

\* _record_failure: failing before a session exists means nothing was
\* submitted, so the invoice goes back to being a draft.
FailedUnopenedIsReleased ==
  [][\A w \in Workers :
       pc[w] = "fail" /\ pc'[w] = "idle" /\ session[w] = 0 /\ Here(w) /\ row.state = "sending"
         => row'.state = "draft"]_vars

=============================================================================
