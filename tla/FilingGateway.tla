--------------------------- MODULE FilingGateway ---------------------------
(***************************************************************************)
(* The JPK_EWP files of one taxpayer for one year, the requests that       *)
(* produce, send, poll, record and discard them, and the Ministry's        *)
(* document gateway, which takes a document in three calls (a session is   *)
(* opened, the document uploaded, the session finished) and processes it   *)
(* afterwards.                                                             *)
(*                                                                         *)
(* A file's bytes are never rendered again, so the file itself stands for  *)
(* them. A step is one committed statement with the refresh that follows,  *)
(* or one call to the gateway.                                             *)
(***************************************************************************)
EXTENDS Naturals, FiniteSets

CONSTANTS
  Workers,      \* the requests that can be served at the same time
  Ops,          \* which requests arrive
  Crashes,      \* whether a request may die part way
  MaxFiles,     \* bound: files ever produced for the year
  MaxSessions,  \* bound: sessions ever opened with the gateway
  MaxDay        \* bound: days that pass

AllOps == {"produce", "send", "status", "record", "unrecord", "delete"}

ASSUME OpsAssumption == Ops \subseteq AllOps
ASSUME CrashesAssumption == Crashes \in BOOLEAN
ASSUME BoundsAssumption ==
  MaxFiles \in Nat \ {0} /\ MaxSessions \in Nat \ {0} /\ MaxDay \in Nat \ {0}

VARIABLES
  filings,   \* the Filing rows, by file
  produced,  \* how many files there have been
  day,       \* today, in Poland
  gateway,   \* the sessions, in the order the gateway opened them
  pc,        \* where each request stands
  mem,       \* each request's own copy of the row it is about
  session    \* the session each request has opened, 0 before it has one

dbVars == <<filings, produced>>
reqVars == <<pc, mem, session>>
vars == <<filings, produced, day, gateway, pc, mem, session>>

-----------------------------------------------------------------------------
(* The rows.                                                               *)

Files == 1..MaxFiles
Sessions == 1..MaxSessions

\* "gone" stands for a row not there, yet or any more.
States == {"gone", "produced", "sending", "filed", "rejected"}
Sendable == {"produced", "rejected"}

\* upo is the session whose receipt the row has; a receipt typed in is none of
\* the gateway's, and so 0 too.
Rows == [file : 0..MaxFiles, state : States, purpose : {"first", "correction"},
         made : 0..MaxDay, ref : 0..MaxSessions, sent : 0..MaxDay,
         filedOn : 0..MaxDay, upo : 0..MaxSessions]

NewRow(file, state, purpose, made) ==
  [file |-> file, state |-> state, purpose |-> purpose, made |-> made,
   ref |-> 0, sent |-> 0, filedOn |-> 0, upo |-> 0]

NoRow == NewRow(0, "gone", "first", 0)

File(w) == mem[w].file
Row(w) == filings[File(w)]

Here(w) == File(w) # 0 /\ Row(w).state # "gone"

-----------------------------------------------------------------------------
(* The gateway. A session is open until a document is stored in it, and is *)
(* processed once it has been finished; one left unfinished is abandoned,  *)
(* which its status reports as a refusal.                                  *)

Verdicts == {"unused", "open", "stored", "processing", "accepted", "rejected"}

\* The tax office has the document, or may come to.
Live(s) == gateway[s].verdict \in {"processing", "accepted"}

\* A document filed before is refused, whatever session it comes in.
Decide(s) ==
  /\ gateway[s].verdict = "processing"
  /\ \E verdict \in IF \E t \in Sessions : gateway[t].file = gateway[s].file
                                           /\ gateway[t].verdict = "accepted"
                    THEN {"rejected"} ELSE {"accepted", "rejected"} :
       gateway' = [gateway EXCEPT ![s].verdict = verdict]
  /\ UNCHANGED <<dbVars, day, reqVars>>

Abandon(s) ==
  /\ gateway[s].verdict \in {"open", "stored"}
  /\ gateway' = [gateway EXCEPT ![s].verdict = "rejected"]
  /\ UNCHANGED <<dbVars, day, reqVars>>

NextDay ==
  /\ day < MaxDay
  /\ day' = day + 1
  /\ UNCHANGED <<dbVars, gateway, reqVars>>

-----------------------------------------------------------------------------
(* What requests have in common.                                           *)

Places == {"idle", "produce", "claim", "open", "release", "reference", "upload",
           "finish", "unresolved", "ask", "settle", "record", "unrecord", "delete"}

Goto(w, place) == pc' = [pc EXCEPT ![w] = place]

\* An update of the row, and the refresh_from_db that follows it.
Write(w, updated) ==
  /\ filings' = [filings EXCEPT ![File(w)] = updated]
  /\ mem' = [mem EXCEPT ![w] = updated]

Finish(w) ==
  /\ Goto(w, "idle")
  /\ mem' = [mem EXCEPT ![w] = NoRow]
  /\ session' = [session EXCEPT ![w] = 0]

\* The last statement of a request, after which it answers.
Conclude(w, updated) ==
  /\ filings' = [filings EXCEPT ![File(w)] = updated]
  /\ Finish(w)
  /\ UNCHANGED <<produced, day, gateway>>

GiveUp(w) == Finish(w) /\ UNCHANGED <<dbVars, day, gateway>>

Load(w, op, f, place) ==
  /\ op \in Ops
  /\ pc[w] = "idle"
  /\ filings[f].state # "gone"
  /\ mem' = [mem EXCEPT ![w] = filings[f]]
  /\ Goto(w, place)
  /\ UNCHANGED <<dbVars, day, gateway, session>>

\* The row went meanwhile: refresh_from_db, or save, finds nothing to work on.
Vanished(w) ==
  /\ pc[w] \notin {"idle", "produce", "open", "upload", "finish", "ask"}
  /\ ~Here(w)
  /\ GiveUp(w)

Crash(w) == Crashes /\ pc[w] # "idle" /\ GiveUp(w)

-----------------------------------------------------------------------------
(* Producing a file. Its purpose is decided by what is filed when it is    *)
(* rendered, and is in its bytes from then on.                             *)

SupersedingAny == \E f \in Files : filings[f].state # "gone"
Superseding == \E f \in Files : filings[f].state = "filed"

Produce(w) ==
  /\ "produce" \in Ops
  /\ pc[w] = "idle"
  /\ mem' = [mem EXCEPT ![w] =
               NewRow(0, "gone", IF Superseding THEN "correction" ELSE "first", day)]
  /\ Goto(w, "produce")
  /\ UNCHANGED <<dbVars, day, gateway, session>>

Store(w) ==
  /\ pc[w] = "produce"
  /\ produced < MaxFiles
  /\ produced' = produced + 1
  /\ filings' = [filings EXCEPT ![produced + 1] = NewRow(produced + 1, "produced", mem[w].purpose, mem[w].made)]
  /\ Finish(w)
  /\ UNCHANGED <<day, gateway>>

\* The year cannot be expressed, the schema refuses it or cannot be fetched, or
\* the bound on files is reached.
StoreRefused(w) == pc[w] = "produce" /\ GiveUp(w)

-----------------------------------------------------------------------------
(* Sending.                                                                *)

LoadToSend(w) == \E f \in Files : Load(w, "send", f, "claim")

\* Packaging fails, or the seller no longer is who the file names.
SendRefused(w) == pc[w] = "claim" /\ GiveUp(w)

MayClaim(r) == r.state \in Sendable

\* The reference of a refused attempt goes.
Claimed(r) == [r EXCEPT !.state = "sending", !.sent = day, !.ref = 0]

\* Compare-and-swap to sending.
ClaimForSending(w) ==
  /\ pc[w] = "claim"
  /\ Here(w)
  /\ MayClaim(Row(w))
  /\ Write(w, Claimed(Row(w)))
  /\ Goto(w, "open")
  /\ UNCHANGED <<produced, day, gateway, session>>

ClaimLost(w) == pc[w] = "claim" /\ Here(w) /\ ~MayClaim(Row(w)) /\ GiveUp(w)

\* The gateway numbers its sessions as it opens them. An answer that is lost,
\* or cannot be read, releases the claim over a session nobody will use. The
\* session keeps the file and the day it was claimed on.
OpenSession(w) ==
  /\ pc[w] = "open"
  /\ \E s \in Sessions :
       /\ \A t \in Sessions : gateway[t].verdict = "unused" <=> t >= s
       /\ gateway' = [gateway EXCEPT ![s] =
                        [file |-> File(w), verdict |-> "open", sent |-> mem[w].sent]]
       /\ \/ session' = [session EXCEPT ![w] = s] /\ Goto(w, "reference")
          \/ Goto(w, "release") /\ UNCHANGED session
  /\ UNCHANGED <<dbVars, day, mem>>

OpenFails(w) ==
  /\ pc[w] = "open"
  /\ Goto(w, "release")
  /\ UNCHANGED <<dbVars, day, gateway, mem, session>>

\* Compare-and-swap, silent where the row has moved on.
ReleasedToDraft(r) == [r EXCEPT !.state = "draft", !.sent = 0]
Released(r) == [r EXCEPT !.state = "produced", !.sent = 0]

ReleaseClaim(w) ==
  /\ pc[w] = "release"
  /\ Here(w)
  /\ Conclude(w, IF Row(w).state = "sending" THEN Released(Row(w)) ELSE Row(w))

Referenced(r, s) == [r EXCEPT !.ref = s]

RecordReference(w) ==
  /\ pc[w] = "reference"
  /\ Here(w)
  /\ Write(w, Referenced(Row(w), session[w]))
  /\ Goto(w, "upload")
  /\ UNCHANGED <<produced, day, gateway, session>>

\* The answer names no session: a KeyError, outside what send() handles.
ReferenceMissing(w) == pc[w] = "reference" /\ GiveUp(w)

\* Storage takes the document, and says so or is not heard.
Upload(w) ==
  /\ pc[w] = "upload"
  /\ gateway[session[w]].verdict = "open"
  /\ gateway' = [gateway EXCEPT ![session[w]].verdict = "stored"]
  /\ \E place \in {"finish", "unresolved"} : Goto(w, place)
  /\ UNCHANGED <<dbVars, day, mem, session>>

\* Finishing the session is what hands the document over.
FinishUpload(w) ==
  /\ pc[w] = "finish"
  /\ gateway[session[w]].verdict = "stored"
  /\ gateway' = [gateway EXCEPT ![session[w]].verdict = "processing"]
  /\ \/ Finish(w)
     \/ Goto(w, "unresolved") /\ UNCHANGED <<mem, session>>
  /\ UNCHANGED <<dbVars, day>>

TransferFails(w) ==
  /\ pc[w] \in {"upload", "finish"}
  /\ Goto(w, "unresolved")
  /\ UNCHANGED <<dbVars, day, gateway, mem, session>>

\* An attempt that failed with a session open stays in flight, its error noted.
AfterFailureReleased(r) == Released(r)
AfterFailure(r) == r

RecordUnresolvedFailure(w) ==
  /\ pc[w] = "unresolved"
  /\ Here(w)
  /\ Conclude(w, IF Row(w).state = "sending" THEN AfterFailure(Row(w)) ELSE Row(w))

-----------------------------------------------------------------------------
(* Asking the gateway. Any file with a reference can be asked about, in    *)
(* whatever state it is.                                                   *)

Resolvable(r) == r.ref # 0

LoadForStatus(w) ==
  \E f \in Files : Resolvable(filings[f]) /\ Load(w, "status", f, "ask")

\* A code of 200 or above; anything above it is a refusal.
AnsweredOnAcceptance(s) == gateway[s].verdict = "accepted"
Answered(s) == gateway[s].verdict \in {"accepted", "rejected"}

Ask(w) ==
  /\ pc[w] = "ask"
  /\ Answered(mem[w].ref)
  /\ Goto(w, "settle")
  /\ UNCHANGED <<dbVars, day, gateway, mem, session>>

\* Still being processed, or no answer.
AskUnanswered(w) == pc[w] = "ask" /\ GiveUp(w)

FiledToday(copy) == day
FiledOn(copy) == copy.sent

\* What the verdict on the reference the copy has makes of the row.
SettledByRowReference(r, copy) ==
  IF gateway[copy.ref].verdict = "accepted"
  THEN [r EXCEPT !.state = "filed", !.filedOn = FiledOn(copy), !.upo = r.ref]
  ELSE [r EXCEPT !.state = "rejected"]

SettledBy(r, copy) ==
  IF gateway[copy.ref].verdict = "accepted"
  THEN [r EXCEPT !.state = "filed", !.filedOn = FiledOn(copy), !.upo = copy.ref]
  ELSE [r EXCEPT !.state = "rejected"]

\* Compare-and-swap from sending, whatever reference the row has by now.
Settle(w) ==
  /\ pc[w] = "settle"
  /\ Here(w)
  /\ Conclude(w, IF Row(w).state = "sending" THEN SettledBy(Row(w), mem[w]) ELSE Row(w))

-----------------------------------------------------------------------------
(* The owner's own record, and discarding a file.                          *)

MayRecord(r) == r.state # "sending"

\* The form is filled in with a date, or with none.
LoadToRecord(w) ==
  \E f \in Files, op \in {"record", "unrecord"} :
    MayRecord(filings[f]) /\ Load(w, op, f, op)

RecordedOn(r, filedOn) == [r EXCEPT !.state = "filed", !.filedOn = filedOn, !.upo = 0]
Unrecorded(r) == [r EXCEPT !.state = "produced", !.filedOn = 0, !.upo = 0]

\* No day before the file was produced, nor after today.
Record(w) ==
  /\ pc[w] = "record"
  /\ Here(w)
  /\ \E filedOn \in Row(w).made..day :
       Conclude(w, RecordedOn(Row(w), filedOn))

Unrecord(w) ==
  /\ pc[w] = "unrecord"
  /\ Here(w)
  /\ Conclude(w, Unrecorded(Row(w)))

MayDiscardUnlessFiled(r) == r.state # "filed"
MayDiscard(r) == r.state \notin {"filed", "sending"}

LoadToDelete(w) ==
  \E f \in Files : MayDiscard(filings[f]) /\ Load(w, "delete", f, "delete")

Delete(w) ==
  /\ pc[w] = "delete"
  /\ Here(w)
  /\ Conclude(w, NoRow)

-----------------------------------------------------------------------------
(* The specification.                                                      *)

\* Nothing has been produced for the year.
Init ==
  /\ filings = [f \in Files |-> NoRow]
  /\ produced = 0
  /\ day = 1
  /\ gateway = [s \in Sessions |-> [file |-> 0, verdict |-> "unused", sent |-> 0]]
  /\ pc = [w \in Workers |-> "idle"]
  /\ mem = [w \in Workers |-> NoRow]
  /\ session = [w \in Workers |-> 0]

Producing(w) == Produce(w) \/ Store(w) \/ StoreRefused(w)

Sending(w) == LoadToSend(w) \/ SendRefused(w) \/ ClaimForSending(w) \/ ClaimLost(w)
              \/ OpenSession(w) \/ OpenFails(w) \/ ReleaseClaim(w)
              \/ RecordReference(w) \/ ReferenceMissing(w) \/ Upload(w)
              \/ FinishUpload(w) \/ TransferFails(w) \/ RecordUnresolvedFailure(w)

Resolving(w) == LoadForStatus(w) \/ Ask(w) \/ AskUnanswered(w) \/ Settle(w)

Recording(w) == LoadToRecord(w) \/ Record(w) \/ Unrecord(w) \/ LoadToDelete(w) \/ Delete(w)

Handle(w) == Producing(w) \/ Sending(w) \/ Resolving(w) \/ Recording(w)
             \/ Vanished(w) \/ Crash(w)

Processing(s) == Decide(s) \/ Abandon(s)

Next ==
  \/ \E w \in Workers : Handle(w)
  \/ \E s \in Sessions : Processing(s)
  \/ NextDay

Spec == Init /\ [][Next]_vars

\* A request once begun goes on, the gateway processes what it holds, and the
\* file's page polls while it shows a file in flight. Opening that page, and
\* getting an answer, is possible again and again rather than all the time.
Poll(w, f) ==
  filings[f].state = "sending" /\ Resolvable(filings[f]) /\ Load(w, "status", f, "ask")

Fairness ==
  /\ \A w \in Workers : WF_vars(Handle(w) /\ pc[w] # "idle")
  /\ \A f \in Files : /\ SF_vars(\E w \in Workers : Poll(w, f))
                      /\ SF_vars(\E w \in Workers : Ask(w) /\ File(w) = f)
  /\ \A s \in Sessions : WF_vars(Processing(s))

FairSpec == Spec /\ Fairness

-----------------------------------------------------------------------------
(* Properties.                                                             *)

\* The rows, the gateway's sessions and the requests have the values their
\* columns and places allow.
TypeOK ==
  /\ filings \in [Files -> Rows]
  /\ produced \in 0..MaxFiles
  /\ day \in 1..MaxDay
  /\ gateway \in [Sessions -> [file : 0..MaxFiles, verdict : Verdicts, sent : 0..MaxDay]]
  /\ pc \in [Workers -> Places]
  /\ mem \in [Workers -> Rows]
  /\ session \in [Workers -> 0..MaxSessions]

\* A file is submitted once: whatever is lost, retried or refused, the tax
\* office holds, or may come to hold, one submission of it.
SubmittedOnce ==
  \A s, t \in Sessions : Live(s) /\ Live(t) /\ gateway[s].file = gateway[t].file => s = t

\* While the tax office holds a file, or may come to, its row is there and says
\* so: it is in flight or filed, so it can be neither sent again nor discarded.
HeldWhileLive ==
  \A s \in Sessions : Live(s) => filings[gateway[s].file].state \in {"sending", "filed"}

\* The receipt a row has is the gateway's for this very file, and the filing
\* date is the day of the claim that submission was made under, not of any
\* other attempt and not the day somebody asked.
ReceiptIsItsOwn ==
  \A f \in Files : LET s == filings[f].upo IN
    s # 0 => /\ gateway[s].file = f
             /\ gateway[s].verdict = "accepted"
             /\ filings[f].filedOn = gateway[s].sent

\* Whatever requests overlap, and whatever the owner records meanwhile, a receipt
\* is never that of a submission the gateway did not accept.
ReceiptIsAccepted ==
  \A f \in Files : filings[f].upo # 0 =>
    gateway[filings[f].upo].verdict = "accepted" /\ gateway[filings[f].upo].file = f

\* A correction is only produced over a file that was filed before it.
CorrectsWhatWasFiled ==
  \A f \in Files : filings[f].state # "gone" /\ filings[f].purpose = "correction" =>
    \E g \in Files : g < f /\ filings[g].state = "filed"

\* What is promised of a year's files. A file is a draft until it is claimed,
\* and again once it is released or refused; what the gateway is processing, or
\* has accepted, is what the tax office has.
Standing(r, f) ==
  CASE r.state \in Sendable -> "draft"
    [] r.state = "sending" -> "inFlight"
    [] r.state = "filed" -> "filed"
    [] OTHER -> IF f <= produced THEN "discarded" ELSE "none"

DatedOn(r) ==
  CASE r.state = "sending" -> r.sent
    [] r.state = "filed" -> r.filedOn
    [] OTHER -> 0

Receipt(r) == IF r.state = "filed" /\ r.upo # 0 THEN "official" ELSE "none"

PromisedFile(r, f) ==
  [standing |-> Standing(r, f), purpose |-> r.purpose, made |-> r.made,
   on |-> DatedOn(r), receipt |-> Receipt(r)]

OfficeHas(f) ==
  LET Has(verdict) == \E s \in Sessions : gateway[s].file = f /\ gateway[s].verdict = verdict IN
  CASE Has("accepted") -> "accepted"
    [] ~Has("accepted") /\ Has("processing") -> "processing"
    [] OTHER -> "nothing"

Promise == INSTANCE AnnualFiling
             WITH files <- [f \in Files |-> PromisedFile(filings[f], f)],
                  office <- [f \in Files |-> OfficeHas(f)]

\* Claiming, uploading, losing answers, polling, recording and discarding
\* together do no more to a year's files than is promised: none is sent again,
\* taken back or discarded while the tax office has it or may come to, each is
\* filed as of the day it was sent, and a file is a correction exactly when
\* something had been filed by the time it was stored.
ImplementsAnnualFiling == Promise!Spec

\* A file in flight that has its reference does not stay in flight under it:
\* somebody looking at it is enough for the gateway's answer to reach the row.
InFlightIsSettled ==
  \A f \in Files : \A s \in Sessions :
    (filings[f].state = "sending" /\ filings[f].ref = s)
      ~> ~(filings[f].state = "sending" /\ filings[f].ref = s)

-----------------------------------------------------------------------------
(* What the code says of itself, and does not do.                          *)

\* record_rejection: a refused file means the period is still unfiled, so
\* nothing of it is with the tax office.
RefusedIsUnfiled ==
  \A s \in Sessions : Live(s) => filings[gateway[s].file].state # "rejected"

=============================================================================
