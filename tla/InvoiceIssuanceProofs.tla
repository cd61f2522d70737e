----------------------- MODULE InvoiceIssuanceProofs -----------------------
(* What an invoice's verdict, bytes and number are worth, and that sending *)
(* an invoice implements the promise of InvoiceIssuance.                   *)
EXTENDS InvoiceSendingProofs

-----------------------------------------------------------------------------
(* KSeF's answers: true however requests overlap.                          *)

\* Opened by a request and not sent to yet.
HasOpenSession(w) == pc[w] \in {"record", "submit"}

\* A session is its request's own until something is put in it, a duplicate is
\* one of a document that was accepted, and a verdict once asked for is there.
VerdictInv ==
  /\ \A w \in Workers : HasOpenSession(w) =>
       session[w] \in Sessions /\ ksef[session[w]].verdict = "open"
  /\ \A v, w \in Workers : HasOpenSession(v) /\ HasOpenSession(w) /\ session[v] = session[w] => v = w
  /\ \A w \in Workers : pc[w] \in AskingPlaces => mem[w].ref \in Sessions
  /\ \A w \in Workers : pc[w] = "settle" => ksef[mem[w].ref].verdict \in Decided
  /\ \A s \in Sessions : ksef[s].verdict = "duplicate" =>
       \E t \in Sessions : ksef[t] = [xml |-> ksef[s].xml, verdict |-> "accepted"]
  /\ \A s \in Sessions : ksef[s].verdict \notin {"unused", "open"} => ksef[s].xml # NoXml

\* The accepted document with given bytes is found by them.
LEMMA AcceptedUnderFound ==
  ASSUME NEW xml, \E t \in Sessions : ksef[t] = [xml |-> xml, verdict |-> "accepted"]
  PROVE  /\ AcceptedUnder(xml) \in Sessions
         /\ AcceptedUnder(xml) # 0
         /\ ksef[AcceptedUnder(xml)] = [xml |-> xml, verdict |-> "accepted"]
  BY DEF AcceptedUnder, Sessions

\* Where none is found, there is none.
LEMMA AcceptedUnderNone ==
  ASSUME NEW xml, AcceptedUnder(xml) = 0
  PROVE  \A t \in Sessions : ksef[t] # [xml |-> xml, verdict |-> "accepted"]
  BY AcceptedUnderFound

\* A request is in the middle of a call to KSeF only by the steps that lead
\* there.
LEMMA LocalVerdicts ==
  ASSUME TypeOK, NEW w \in Workers, Handle(w), ~OpenSession(w), ~SendInvoice(w)
  PROVE  /\ ksef' = ksef
         /\ HasOpenSession(w)' => HasOpenSession(w) /\ session'[w] = session[w]
         /\ pc'[w] = "ask" => mem'[w] = row /\ Resolvable(row)
         /\ pc'[w] = "settle" => Ask(w) /\ mem'[w] = mem[w]
  <1>1. CASE Storing(w)
    BY <1>1 DEF TypeOK, HasOpenSession, Storing, LoadToCreate, Create, CreateRefused,
         LoadToRewrite, Rewrite, ReplaceLines, Resubmit, SavedUnchanged, AfterFreeze,
         GiveUp, Finish, Load, Write, Goto
  <1>2. CASE Freezing(w)
    BY <1>2 DEF TypeOK, HasOpenSession, Freezing, LoadToSend, LoadToRehearse, Render,
         RenderRefused, Freeze, Rehearse, RehearsalFails, AfterFreeze,
         GiveUp, Finish, Load, Write, Goto
  <1>3. CASE Sending(w)
    BY <1>3 DEF TypeOK, HasOpenSession, Sending, ClaimForSending, ClaimLost, OpenFails,
         OpenRefused, RecordSession, SendFails, NothingToSend, RecordReference, RecordFailure,
         GiveUp, Finish, Write, Goto
  <1>4. CASE Resolving(w)
    BY <1>4 DEF TypeOK, HasOpenSession, Resolving, LoadForStatus, Ask, AskUnanswered, Settle,
         GiveUp, Finish, Load, Goto
  <1>5. CASE Other(w)
    BY <1>5 DEF TypeOK, HasOpenSession, Other, LoadToDelete, Delete, LoadToIssue, MarkIssued,
         EditSeller, Vanished, Crash, GiveUp, Finish, Load, Goto, reqVars
  <1>6. QED
    BY <1>1, <1>2, <1>3, <1>4, <1>5 DEF Handle

\* The program starts with nothing sent.
LEMMA InitVerdicts == Init => VerdictInv
  BY DEF Init, VerdictInv, HasOpenSession, AskingPlaces, Decided

\* Every step keeps VerdictInv.
LEMMA VerdictStep == TypeOK /\ VerdictInv /\ [Next]_vars => VerdictInv'
  <1> SUFFICES ASSUME TypeOK, VerdictInv, [Next]_vars
               PROVE  VerdictInv'
    OBVIOUS
  <1>1. ASSUME NEW w \in Workers, Handle(w), ~OpenSession(w), ~SendInvoice(w)
        PROVE  VerdictInv'
    <2>1. /\ OthersUnchanged(w)
          /\ ksef' = ksef
          /\ HasOpenSession(w)' => HasOpenSession(w) /\ session'[w] = session[w]
      BY <1>1, OneRequestSteps, LocalVerdicts
    <2>2. pc'[w] = "ask" => mem'[w].ref \in Sessions
      <3>1. pc'[w] = "ask" => mem'[w] = row /\ Resolvable(row)
        BY <1>1, LocalVerdicts
      <3>2. row.ref \in 0..MaxSessions
        BY DEF TypeOK, Rows
      <3>3. QED
        BY <3>1, <3>2, BoundsAssumption DEF Resolvable, Sessions
    <2>3. pc'[w] = "settle" => mem'[w].ref \in Sessions /\ ksef[mem'[w].ref].verdict \in Decided
      BY <1>1, LocalVerdicts DEF Ask, Answered, VerdictInv, AskingPlaces
    <2>4. QED
      BY <2>1, <2>2, <2>3 DEF VerdictInv, OthersUnchanged, HasOpenSession, AskingPlaces
  <1>2. ASSUME NEW w \in Workers, OpenSession(w)
        PROVE  VerdictInv'
    <2>1. OthersUnchanged(w)
      BY <1>2, OneRequestSteps DEF Handle, Sending
    <2>2. PICK s \in Sessions : /\ \A t \in Sessions : ksef[t].verdict = "unused" <=> t >= s
                                /\ ksef' = [ksef EXCEPT ![s].verdict = "open"]
                                /\ session' = [session EXCEPT ![w] = s]
      BY <1>2 DEF OpenSession
    <2>3. ksef[s].verdict = "unused"
      BY <2>2 DEF Sessions
    <2>4. /\ ksef'[s].verdict = "open"
          /\ \A t \in Sessions : t # s => ksef'[t] = ksef[t]
          /\ session'[w] = s /\ pc'[w] = "record"
      BY <1>2, <2>2 DEF OpenSession, TypeOK, Goto
    <2>5. ASSUME NEW v \in Workers, v # w
          PROVE  /\ HasOpenSession(v)' => session'[v] \in Sessions /\ session'[v] # s
                                          /\ ksef'[session'[v]].verdict = "open"
                 /\ pc'[v] \in AskingPlaces => mem'[v].ref \in Sessions
                 /\ pc'[v] = "settle" => ksef'[mem'[v].ref].verdict \in Decided
      BY <2>1, <2>3, <2>4, <2>5 DEF VerdictInv, OthersUnchanged, HasOpenSession, AskingPlaces, Decided
    <2>6. ASSUME NEW t \in Sessions, ksef'[t].verdict = "duplicate"
          PROVE  \E u \in Sessions : ksef'[u] = [xml |-> ksef'[t].xml, verdict |-> "accepted"]
      <3>1. PICK u \in Sessions : ksef[u] = [xml |-> ksef[t].xml, verdict |-> "accepted"]
        BY <2>4, <2>6 DEF VerdictInv
      <3>2. u # s
        BY <2>3, <3>1
      <3>3. QED
        BY <2>4, <2>6, <3>1, <3>2
    <2>7. \A t \in Sessions : ksef'[t].verdict \notin {"unused", "open"} => ksef'[t].xml # NoXml
      BY <2>4 DEF VerdictInv
    <2>8. QED
      BY <2>1, <2>4, <2>5, <2>6, <2>7 DEF VerdictInv, HasOpenSession, OthersUnchanged, AskingPlaces
  <1>3. ASSUME NEW w \in Workers, SendInvoice(w)
        PROVE  VerdictInv'
    <2>1. OthersUnchanged(w)
      BY <1>3, OneRequestSteps DEF Handle, Sending
    <2>2. session[w] \in Sessions /\ ksef[session[w]].verdict = "open" /\ HasOpenSession(w)
      BY <1>3 DEF SendInvoice, VerdictInv, HasOpenSession
    <2>3. /\ ksef'[session[w]] = [xml |-> mem[w].xml, verdict |-> "processing"]
          /\ \A t \in Sessions : t # session[w] => ksef'[t] = ksef[t]
          /\ pc'[w] \in {"reference", "fail"} /\ mem[w].xml # NoXml
      BY <1>3, <2>2 DEF SendInvoice, TypeOK, Goto
    <2>4. ASSUME NEW v \in Workers, v # w
          PROVE  /\ HasOpenSession(v)' => HasOpenSession(v) /\ session'[v] = session[v]
                                          /\ session[v] # session[w]
                 /\ HasOpenSession(v)' => session'[v] \in Sessions
                                          /\ ksef'[session'[v]].verdict = "open"
                 /\ pc'[v] \in AskingPlaces => mem'[v].ref \in Sessions
                 /\ pc'[v] = "settle" => ksef'[mem'[v].ref].verdict \in Decided
      BY <2>1, <2>2, <2>3, <2>4 DEF VerdictInv, OthersUnchanged, HasOpenSession, AskingPlaces, Decided
    <2>5. ASSUME NEW t \in Sessions, ksef'[t].verdict = "duplicate"
          PROVE  \E u \in Sessions : ksef'[u] = [xml |-> ksef'[t].xml, verdict |-> "accepted"]
      <3>1. PICK u \in Sessions : ksef[u] = [xml |-> ksef[t].xml, verdict |-> "accepted"]
        BY <2>3, <2>5 DEF VerdictInv
      <3>2. u # session[w]
        BY <2>2, <3>1
      <3>3. QED
        BY <2>3, <2>5, <3>1, <3>2
    <2>6. \A t \in Sessions : ksef'[t].verdict \notin {"unused", "open"} => ksef'[t].xml # NoXml
      BY <2>3 DEF VerdictInv
    <2>7. QED
      BY <2>3, <2>4, <2>5, <2>6 DEF VerdictInv, HasOpenSession, AskingPlaces
  <1>4. ASSUME NEW s \in Sessions, Decide(s)
        PROVE  VerdictInv'
    <2>1. PICK verdict \in IF AcceptedUnder(ksef[s].xml) # 0 THEN {"duplicate"}
                           ELSE {"accepted", "rejected"} :
            ksef' = [ksef EXCEPT ![s].verdict = verdict]
      BY <1>4 DEF Decide
    <2>2. /\ ksef[s].verdict = "processing"
          /\ verdict \in {"duplicate", "accepted", "rejected"}
          /\ verdict = "duplicate" => AcceptedUnder(ksef[s].xml) # 0
      BY <1>4, <2>1 DEF Decide
    <2>3. /\ ksef'[s].verdict = verdict /\ ksef'[s].xml = ksef[s].xml
          /\ \A t \in Sessions : t # s => ksef'[t] = ksef[t]
          /\ pc' = pc /\ mem' = mem /\ session' = session
      BY <1>4, <2>1 DEF Decide, TypeOK, reqVars
    <2>4. ASSUME NEW t \in Sessions, ksef'[t].verdict = "duplicate"
          PROVE  \E u \in Sessions : ksef'[u] = [xml |-> ksef'[t].xml, verdict |-> "accepted"]
      <3>1. \E u \in Sessions : ksef[u] = [xml |-> ksef[t].xml, verdict |-> "accepted"]
        <4>1. CASE t = s
          BY <2>2, <2>3, <2>4, <4>1 DEF AcceptedUnder
        <4>2. CASE t # s
          BY <2>3, <2>4, <4>2 DEF VerdictInv
        <4>3. QED
          BY <4>1, <4>2
      <3>2. PICK u \in Sessions : ksef[u] = [xml |-> ksef[t].xml, verdict |-> "accepted"]
        BY <3>1
      <3>3. u # s
        BY <2>2, <3>2
      <3>4. QED
        BY <2>3, <3>2, <3>3
    <2>5. \A t \in Sessions : ksef'[t].verdict \notin {"unused", "open"} => ksef'[t].xml # NoXml
      BY <2>2, <2>3 DEF VerdictInv
    <2>6. QED
      BY <2>2, <2>3, <2>4, <2>5 DEF VerdictInv, HasOpenSession, AskingPlaces, Decided
  <1>5. CASE UNCHANGED vars
    BY <1>5 DEF vars, VerdictInv, HasOpenSession
  <1>6. QED
    BY <1>1, <1>2, <1>3, <1>4, <1>5 DEF Next

\* Only a verdict makes the row accepted, and it numbers it.
LEMMA AcceptedBySettling ==
  ASSUME TypeOK, NEW w \in Workers, Handle(w), row'.state = "accepted"
  PROVE  \/ row.state = "accepted" /\ row'.number = row.number
         \/ Settle(w) /\ MaySettle(row) /\ row' = SettledBy(row, mem[w].ref)
  <1>1. CASE Storing(w)
    <2>1. CASE Create(w)
      <3>1. PICK payload \in Payloads : row' = FreshRow(rows + 1, payload, NoPayload)
        BY <2>1 DEF Create, Write
      <3>2. row'.state = "draft"
        BY <3>1 DEF FreshRow
      <3>3. QED
        BY <3>2
    <2>2. CASE Rewrite(w)
      <3>1. PICK payload \in Payloads : row' = Rewritten(row, mem[w], payload)
        BY <2>2 DEF Rewrite, Write
      <3>2. QED
        BY <3>1 DEF TypeOK, Rows, Rewritten
    <2>3. CASE ReplaceLines(w)
      BY <2>3 DEF TypeOK, Rows, ReplaceLines, StoredWithLines
    <2>4. CASE row' = row
      BY <2>4
    <2>5. QED
      BY <1>1, <2>1, <2>2, <2>3, <2>4 DEF Storing, LoadToCreate, CreateRefused,
           LoadToRewrite, Resubmit, SavedUnchanged, GiveUp, Load, dbVars
  <1>2. CASE Freezing(w)
    BY <1>2 DEF TypeOK, Rows, Freezing, LoadToSend, LoadToRehearse, Render, RenderRefused,
         Freeze, Rehearse, RehearsalFails, GiveUp, Load, Write, dbVars
  <1>3. CASE Sending(w)
    BY <1>3 DEF TypeOK, Rows, Sending, ClaimForSending, ClaimLost, OpenSession, OpenFails,
         OpenRefused, RecordSession, SendInvoice, SendFails, NothingToSend, RecordReference,
         RecordFailure, GiveUp, Write, dbVars
  <1>4. CASE Resolving(w)
    BY <1>4 DEF Resolving, LoadForStatus, Ask, AskUnanswered, Settle, GiveUp, Load, dbVars
  <1>5. CASE Other(w)
    BY <1>5 DEF TypeOK, Rows, Other, LoadToDelete, Delete, LoadToIssue, MarkIssued, EditSeller,
         Vanished, Crash, GiveUp, Load, NoRow, FreshRow, dbVars
  <1>6. QED
    BY <1>1, <1>2, <1>3, <1>4, <1>5 DEF Handle

\* KSeF's word on a session, once given, is final.
DecidedStays ==
  \A s \in Sessions : ksef[s].verdict \in Decided => ksef'[s] = ksef[s]

\* What KSeF has decided stays decided, about the same bytes.
LEMMA VerdictsAreFinal ==
  ASSUME TypeOK, VerdictInv, [Next]_vars
  PROVE  DecidedStays
  <1>1. ASSUME NEW w \in Workers, Handle(w), ~OpenSession(w), ~SendInvoice(w)
        PROVE  DecidedStays
    BY <1>1, LocalVerdicts DEF DecidedStays
  <1>2. ASSUME NEW w \in Workers, OpenSession(w)
        PROVE  DecidedStays
    <2>1. PICK s \in Sessions : /\ \A t \in Sessions : ksef[t].verdict = "unused" <=> t >= s
                                /\ ksef' = [ksef EXCEPT ![s].verdict = "open"]
      BY <1>2 DEF OpenSession
    <2>2. ksef[s].verdict = "unused"
      BY <2>1 DEF Sessions
    <2>3. QED
      BY <2>1, <2>2 DEF DecidedStays, Decided, TypeOK
  <1>3. ASSUME NEW w \in Workers, SendInvoice(w)
        PROVE  DecidedStays
    <2>1. session[w] \in Sessions /\ ksef[session[w]].verdict = "open"
      BY <1>3 DEF SendInvoice, VerdictInv, HasOpenSession
    <2>2. QED
      BY <1>3, <2>1 DEF SendInvoice, DecidedStays, Decided, TypeOK
  <1>4. ASSUME NEW s \in Sessions, Decide(s)
        PROVE  DecidedStays
    BY <1>4 DEF Decide, DecidedStays, Decided, TypeOK
  <1>5. CASE UNCHANGED vars
    BY <1>5 DEF vars, DecidedStays
  <1>6. QED
    BY <1>1, <1>2, <1>3, <1>4, <1>5 DEF Next

\* A poll that settles the row as accepted gives it the number of a document
\* KSeF accepted with the bytes the poll asked about.
LEMMA SettledAsAccepted ==
  ASSUME TypeOK, VerdictInv, NEW w \in Workers, Settle(w), NEW r \in Rows,
         SettledBy(r, mem[w].ref).state = "accepted", r.state = "sending"
  PROVE  LET n == SettledBy(r, mem[w].ref).number IN
           n \in Sessions /\ ksef[n] = [xml |-> ksef[mem[w].ref].xml, verdict |-> "accepted"]
  <1> DEFINE s == mem[w].ref
  <1>1. s \in Sessions /\ ksef[s].verdict \in Decided
    BY DEF Settle, VerdictInv, AskingPlaces
  <1>2. ksef[s].verdict # "rejected"
    BY DEF SettledBy, Rows
  <1>3. \E t \in Sessions : ksef[t] = [xml |-> ksef[s].xml, verdict |-> "accepted"]
    <2>1. CASE ksef[s].verdict = "accepted"
      <3>1. ksef[s] = [xml |-> ksef[s].xml, verdict |-> "accepted"]
        BY <1>1, <2>1 DEF TypeOK
      <3>2. QED
        BY <1>1, <3>1
    <2>2. CASE ksef[s].verdict = "duplicate"
      BY <1>1, <2>2 DEF VerdictInv
    <2>3. QED
      BY <1>1, <1>2, <2>1, <2>2 DEF Decided
  <1>4. SettledBy(r, s).number = AcceptedUnder(ksef[s].xml)
    BY <1>2 DEF SettledBy, Rows
  <1>5. QED
    BY <1>3, <1>4, AcceptedUnderFound

\* Every step keeps it that an accepted row has the number of an accepted
\* document.
LEMMA AcceptedStep == TypeOK /\ VerdictInv /\ AcceptedIsIssued /\ [Next]_vars => AcceptedIsIssued'
  <1> SUFFICES ASSUME TypeOK, VerdictInv, AcceptedIsIssued, [Next]_vars, row'.state = "accepted"
               PROVE  row'.number # 0 /\ ksef'[row'.number].verdict = "accepted"
    BY DEF AcceptedIsIssued
  <1>1. DecidedStays
    BY VerdictsAreFinal
  <1>2. ASSUME row.state = "accepted", row'.number = row.number
        PROVE  row'.number # 0 /\ ksef'[row'.number].verdict = "accepted"
    <2>1. row.number \in Sessions /\ ksef[row.number].verdict = "accepted"
      BY <1>2, BoundsAssumption DEF AcceptedIsIssued, TypeOK, Rows, Sessions
    <2>2. QED
      BY <1>1, <1>2, <2>1 DEF DecidedStays, Decided, Sessions
  <1>3. ASSUME NEW w \in Workers, Settle(w), MaySettle(row), row' = SettledBy(row, mem[w].ref)
        PROVE  row'.number # 0 /\ ksef'[row'.number].verdict = "accepted"
    <2>1. row'.number \in Sessions /\ ksef[row'.number].verdict = "accepted"
      <3>1. row \in Rows /\ row.state = "sending" /\ SettledBy(row, mem[w].ref).state = "accepted"
        BY <1>3 DEF MaySettle, TypeOK
      <3>2. LET n == SettledBy(row, mem[w].ref).number IN
              n \in Sessions /\ ksef[n] = [xml |-> ksef[mem[w].ref].xml, verdict |-> "accepted"]
        BY <1>3, <3>1, SettledAsAccepted
      <3>3. QED
        BY <1>3, <3>2
    <2>2. QED
      BY <1>1, <2>1 DEF DecidedStays, Decided, Sessions
  <1>4. ASSUME NEW w \in Workers, Handle(w)
        PROVE  row'.number # 0 /\ ksef'[row'.number].verdict = "accepted"
    BY <1>2, <1>3, <1>4, AcceptedBySettling
  <1>5. ASSUME NEW s \in Sessions, Decide(s)
        PROVE  row'.number # 0 /\ ksef'[row'.number].verdict = "accepted"
    BY <1>2, <1>5 DEF Decide, dbVars
  <1>6. CASE UNCHANGED vars
    BY <1>2, <1>6 DEF vars
  <1>7. QED
    BY <1>4, <1>5, <1>6 DEF Next

\* Whatever requests overlap, the row never says accepted without a document
\* that KSeF accepted under its number.
THEOREM AcceptedAlwaysIssued == Spec => []AcceptedIsIssued
  <1>1. Init => AcceptedIsIssued
    BY DEF Init, NoRow, FreshRow, AcceptedIsIssued
  <1>2. QED
    BY <1>1, InitVerdicts, VerdictStep, AcceptedStep, TypeCorrect, PTL DEF Spec

-----------------------------------------------------------------------------
(* The bytes: what one request at a time keeps.                            *)

\* What the row shows, what is frozen in it and what KSeF was given are the
\* same document.
RowBytes ==
  /\ row.xml # NoXml => row.xml.head = row.head /\ row.xml.lines = row.lines
  /\ row.state \in {"sending", "accepted", "rejected"} => row.xml # NoXml
  /\ row.state = "accepted" =>
       row.number \in Sessions /\ ksef[row.number] = [xml |-> row.xml, verdict |-> "accepted"]
  /\ row.state = "rejected" =>
       \E s \in Sessions : ksef[s] = [xml |-> row.xml, verdict |-> "rejected"]
  /\ row.state = "sending" /\ row.ref # 0 /\ row.ref = row.resume => ksef[row.ref].xml = row.xml
  /\ row.state = "draft" => row.ref = 0 \/ row.ref # row.resume
  /\ row.ref # 0 => row.sess # 0 /\ ksef[row.ref].verdict \notin {"unused", "open"}
  /\ rehearsed \in {NoXml, row.xml}

\* The request's copy is the row, but for the lines it has just replaced and
\* the bytes it has just rendered.
RequestBytes(w) ==
  /\ pc[w] \notin {"idle", "create"} => Here(w)
  /\ pc[w] \notin {"idle", "create", "render", "freeze"} => mem[w] = row
  /\ pc[w] \in {"render", "freeze"} => mem[w].head = row.head
  /\ pc[w] \in {"lines", "render", "freeze"} => row.xml = NoXml
  /\ pc[w] = "freeze" =>
       mem[w].xml # NoXml /\ mem[w].xml.head = row.head /\ mem[w].xml.lines = row.lines
  /\ pc[w] \in {"claim", "trial"} \cup SendingPlaces => row.xml # NoXml
  /\ pc[w] \in {"submit", "reference"} => row.resume = session[w] /\ row.sess # 0
  /\ pc[w] = "reference" =>
       session[w] \in Sessions /\ ksef[session[w]].xml = row.xml
       /\ ksef[session[w]].verdict \notin {"unused", "open"}

BytesInv == RowBytes /\ \A w \in Workers : RequestBytes(w)

\* What the proof of every step starts from.
BytesContext == OneAtATime /\ IssuingInv /\ VerdictInv /\ BytesInv

\* The program starts with a draft no one has rendered.
LEMMA InitBytes == Init => BytesInv
  BY DEF Init, NoRow, FreshRow, BytesInv, RowBytes, RequestBytes, SendingPlaces

\* What has been put in a session stays in it.
KsefKeeps ==
  \A s \in Sessions : ksef[s].verdict \notin {"unused", "open"} =>
    /\ ksef'[s].verdict \notin {"unused", "open"}
    /\ ksef'[s].xml = ksef[s].xml
    /\ ksef[s].verdict \in Decided => ksef'[s] = ksef[s]

\* With one request at a time only its own copy matters.
LEMMA AloneBytes ==
  ASSUME OneAtATime, NEW w \in Workers, RowBytes', RequestBytes(w)'
  PROVE  BytesInv'
  BY DEF OneAtATime, BytesInv

\* A step that writes nothing keeps what is known of the row, whatever KSeF does.
LEMMA QuietRowBytes ==
  ASSUME RowBytes, TypeOK, KsefKeeps, row' = row, rehearsed' = rehearsed
  PROVE  RowBytes'
  <1>1. row \in Rows /\ row.ref \in 0..MaxSessions /\ row.number \in 0..MaxSessions
    BY DEF TypeOK, Rows
  <1>2. row.ref # 0 => row.ref \in Sessions
    BY <1>1, BoundsAssumption DEF Sessions
  <1>3. \A s \in Sessions : ksef[s].verdict \in Decided => ksef'[s] = ksef[s]
    BY DEF KsefKeeps, Decided
  <1>4. row.state = "accepted" =>
          row.number \in Sessions /\ ksef'[row.number] = [xml |-> row.xml, verdict |-> "accepted"]
    BY <1>3 DEF RowBytes, Decided
  <1>5. row.state = "rejected" =>
          \E s \in Sessions : ksef'[s] = [xml |-> row.xml, verdict |-> "rejected"]
    BY <1>3 DEF RowBytes, Decided
  <1>6. row.ref # 0 => /\ row.sess # 0 /\ ksef'[row.ref].verdict \notin {"unused", "open"}
                       /\ ksef'[row.ref].xml = ksef[row.ref].xml
    BY <1>2 DEF RowBytes, KsefKeeps
  <1>7. QED
    BY <1>4, <1>5, <1>6 DEF RowBytes

\* A request that loads the row and goes on with that copy.
LEMMA LoadBytes ==
  ASSUME BytesContext, NEW w \in Workers, NEW op, NEW place, NEW purpose, Load(w, op, place, purpose),
         place \in {"rewrite", "render", "claim", "trial", "ask", "delete", "issue"},
         place = "render" => row.xml = NoXml,
         place \in {"claim", "trial"} => row.xml # NoXml
  PROVE  BytesInv'
  <1>1. /\ row' = row /\ ksef' = ksef /\ rehearsed' = rehearsed
        /\ pc'[w] = place /\ mem'[w] = row /\ row.pk # 0
    BY DEF Load, BytesContext, IssuingInv, TypeOK, Goto, dbVars
  <1>2. RowBytes'
    BY <1>1, QuietRowBytes DEF BytesContext, BytesInv, IssuingInv, KsefKeeps
  <1>3. RequestBytes(w)'
    BY <1>1 DEF RequestBytes, Here, SendingPlaces
  <1>4. QED
    BY <1>2, <1>3, AloneBytes DEF BytesContext

\* A request that answers.
LEMMA FinishBytes ==
  ASSUME BytesContext, NEW w \in Workers, Finish(w), RowBytes'
  PROVE  BytesInv'
  <1>1. pc'[w] = "idle"
    BY DEF Finish, BytesContext, IssuingInv, TypeOK, Goto
  <1>2. RequestBytes(w)'
    BY <1>1 DEF RequestBytes, SendingPlaces
  <1>3. QED
    BY <1>2, AloneBytes DEF BytesContext

\* A request that answers having changed nothing.
LEMMA GiveUpBytes ==
  ASSUME BytesContext, NEW w \in Workers, GiveUp(w)
  PROVE  BytesInv'
  <1>1. RowBytes'
    BY QuietRowBytes DEF GiveUp, dbVars, BytesContext, BytesInv, IssuingInv, KsefKeeps
  <1>2. QED
    BY <1>1, FinishBytes DEF GiveUp

\* Storing drops the frozen bytes with the details they were taken of.
LEMMA StoringBytes ==
  ASSUME BytesContext, NEW w \in Workers, Storing(w)
  PROVE  BytesInv'
  <1> USE DEF BytesContext
  <1>0. TypeOK /\ RowBytes /\ RequestBytes(w) /\ RewriterInv(w) /\ row \in Rows /\ mem[w] \in Rows
    BY DEF BytesInv, IssuingInv, TypeOK
  <1>1. CASE LoadToCreate(w)
    <2>1. /\ row' = row /\ ksef' = ksef /\ rehearsed' = rehearsed /\ pc'[w] = "create"
      BY <1>0, <1>1 DEF LoadToCreate, TypeOK, Goto, dbVars
    <2>2. RowBytes'
      BY <1>0, <2>1, QuietRowBytes DEF KsefKeeps
    <2>3. RequestBytes(w)'
      BY <2>1 DEF RequestBytes, SendingPlaces
    <2>4. QED
      BY <2>2, <2>3, AloneBytes
  <1>2. CASE Create(w)
    <2>1. PICK payload \in Payloads : Write(w, FreshRow(rows + 1, payload, NoPayload))
      BY <1>2 DEF Create
    <2>2. /\ row' = FreshRow(rows + 1, payload, NoPayload) /\ mem'[w] = row'
          /\ pc'[w] = "lines" /\ rehearsed' = NoXml
      BY <1>0, <1>2, <2>1 DEF Create, Write, TypeOK, Goto
    <2>3. /\ row'.pk = rows + 1 /\ row'.state = "draft" /\ row'.xml = NoXml /\ row'.ref = 0
      BY <2>2 DEF FreshRow
    <2>4. row'.pk # 0
      BY <1>0, <2>3, BoundsAssumption DEF TypeOK
    <2>5. RowBytes'
      BY <2>2, <2>3 DEF RowBytes
    <2>6. RequestBytes(w)'
      BY <2>2, <2>3, <2>4 DEF RequestBytes, Here, SendingPlaces
    <2>7. QED
      BY <2>5, <2>6, AloneBytes
  <1>3. CASE LoadToRewrite(w)
    BY <1>3, LoadBytes DEF LoadToRewrite
  <1>4. CASE Rewrite(w)
    <2>1. PICK payload \in Payloads : Write(w, Rewritten(row, mem[w], payload))
      BY <1>4 DEF Rewrite
    <2>2. /\ row' = Rewritten(row, mem[w], payload) /\ mem'[w] = row'
          /\ pc'[w] = "lines" /\ rehearsed' = NoXml /\ ksef' = ksef
      BY <1>0, <1>4, <2>1 DEF Rewrite, Write, TypeOK, Goto
    <2>3. mem[w] = row /\ row.state \in {"draft", "rejected"} /\ row.pk # 0
      BY <1>0, <1>4 DEF Rewrite, RewriterInv, RequestBytes, Editable, Here
    <2>4. /\ row'.pk = row.pk /\ row'.state = "draft" /\ row'.xml = NoXml
          /\ row'.ref = row.ref /\ row'.sess = row.sess
          /\ row'.resume = IF row.state = "rejected" THEN 0 ELSE row.resume
      BY <1>0, <2>2, <2>3 DEF Rewritten, Rows
    <2>5. row'.ref = 0 \/ row'.ref # row'.resume
      BY <1>0, <2>3, <2>4 DEF RowBytes
    <2>6. RowBytes'
      BY <1>0, <2>2, <2>4, <2>5 DEF RowBytes
    <2>7. RequestBytes(w)'
      BY <2>2, <2>3, <2>4 DEF RequestBytes, Here, SendingPlaces
    <2>8. QED
      BY <2>6, <2>7, AloneBytes
  <1>5. CASE ReplaceLines(w)
    <2>1. /\ row' = StoredWithLines(row, mem[w]) /\ ksef' = ksef /\ rehearsed' = rehearsed
          /\ row.state = "draft" /\ row.xml = NoXml /\ mem[w].head = row.head
          /\ row.pk # 0 /\ mem[w].pk = row.pk
      BY <1>0, <1>5 DEF ReplaceLines, RewriterInv, RequestBytes, Here
    <2>2. /\ row'.pk = row.pk /\ row'.state = "draft" /\ row'.xml = NoXml /\ row'.ref = row.ref
          /\ row'.head = row.head /\ row'.sess = row.sess /\ row'.resume = row.resume
      BY <1>0, <2>1 DEF StoredWithLines, Rows
    <2>3. RowBytes'
      BY <1>0, <2>1, <2>2 DEF RowBytes
    <2>4. CASE Finish(w)
      BY <2>3, <2>4, FinishBytes
    <2>5. CASE ~Finish(w)
      <3>1. pc'[w] = "render" /\ mem' = mem
        BY <1>0, <1>5, <2>5 DEF ReplaceLines, Goto, TypeOK
      <3>2. RequestBytes(w)'
        BY <2>1, <2>2, <3>1 DEF RequestBytes, Here, SendingPlaces
      <3>3. QED
        BY <2>3, <3>2, AloneBytes
    <2>6. QED
      BY <2>4, <2>5
  <1>6. CASE Resubmit(w)
    <2>1. /\ row' = row /\ ksef' = ksef /\ rehearsed' = rehearsed /\ mem' = mem
          /\ mem[w] = row /\ row.pk # 0
      BY <1>0, <1>6 DEF Resubmit, dbVars, RequestBytes, Here
    <2>2. /\ pc'[w] \in {"render", "claim", "trial"}
          /\ pc'[w] = "render" => row.xml = NoXml
          /\ pc'[w] # "render" => row.xml # NoXml
      BY <1>0, <1>6, <2>1 DEF Resubmit, MustRender, AfterFreeze, Goto, TypeOK
    <2>3. RowBytes'
      BY <1>0, <2>1, QuietRowBytes DEF KsefKeeps
    <2>4. RequestBytes(w)'
      BY <2>1, <2>2 DEF RequestBytes, Here, SendingPlaces
    <2>5. QED
      BY <2>3, <2>4, AloneBytes
  <1>7. CASE CreateRefused(w) \/ SavedUnchanged(w)
    BY <1>7, GiveUpBytes DEF CreateRefused, SavedUnchanged
  <1>8. QED
    BY <1>1, <1>2, <1>3, <1>4, <1>5, <1>6, <1>7 DEF Storing

\* Freezing writes the bytes taken of the details the row still has.
LEMMA FreezingBytes ==
  ASSUME BytesContext, NEW w \in Workers, Freezing(w)
  PROVE  BytesInv'
  <1> USE DEF BytesContext
  <1>0. TypeOK /\ RowBytes /\ RequestBytes(w) /\ row \in Rows /\ mem[w] \in Rows
    BY DEF BytesInv, IssuingInv, TypeOK
  <1>1. CASE LoadToSend(w)
    BY <1>1, LoadBytes DEF LoadToSend, MustRender
  <1>2. CASE LoadToRehearse(w)
    BY <1>2, LoadBytes DEF LoadToRehearse, MustRender
  <1>3. CASE Render(w)
    <2>1. /\ row' = row /\ ksef' = ksef /\ rehearsed' = rehearsed /\ pc'[w] = "freeze"
          /\ row.xml = NoXml /\ mem[w].head = row.head /\ Here(w)
      BY <1>0, <1>3 DEF Render, RequestBytes, TypeOK, Goto
    <2>2. /\ mem'[w].pk = mem[w].pk /\ mem'[w].head = mem[w].head
          /\ mem'[w].xml = [head |-> mem[w].head, lines |-> row.lines, at |-> clock + 1]
      BY <1>0, <1>3, <2>1 DEF Render, TypeOK, Rows
    <2>3. mem'[w].xml # NoXml
      <3>1. clock + 1 # 0
        BY <1>0, BoundsAssumption DEF TypeOK
      <3>2. QED
        BY <2>2, <3>1 DEF NoXml
    <2>4. RowBytes'
      BY <1>0, <2>1, QuietRowBytes DEF KsefKeeps
    <2>5. RequestBytes(w)'
      BY <2>1, <2>2, <2>3 DEF RequestBytes, Here, SendingPlaces
    <2>6. QED
      BY <2>4, <2>5, AloneBytes
  <1>4. CASE Freeze(w)
    <2>1. /\ row' = [row EXCEPT !.xml = mem[w].xml] /\ mem'[w] = row' /\ ksef' = ksef
          /\ rehearsed' = rehearsed /\ pc'[w] \in {"claim", "trial"}
      BY <1>0, <1>4 DEF Freeze, Write, Goto, AfterFreeze, TypeOK
    <2>2. /\ row.xml = NoXml /\ row.pk # 0 /\ mem[w].xml # NoXml
          /\ mem[w].xml.head = row.head /\ mem[w].xml.lines = row.lines
      BY <1>0, <1>4 DEF Freeze, RequestBytes, Here
    <2>3. row.state \notin {"sending", "accepted", "rejected"} /\ rehearsed = NoXml
      BY <1>0, <2>2 DEF RowBytes
    <2>4. /\ row'.pk = row.pk /\ row'.state = row.state /\ row'.xml = mem[w].xml
          /\ row'.head = row.head /\ row'.lines = row.lines
          /\ row'.ref = row.ref /\ row'.sess = row.sess /\ row'.resume = row.resume
      BY <1>0, <2>1 DEF Rows
    <2>5. RowBytes'
      BY <1>0, <2>1, <2>2, <2>3, <2>4 DEF RowBytes
    <2>6. RequestBytes(w)'
      BY <2>1, <2>2, <2>4 DEF RequestBytes, Here, SendingPlaces
    <2>7. QED
      BY <2>5, <2>6, AloneBytes
  <1>5. CASE Rehearse(w)
    <2>1. row' = row /\ ksef' = ksef /\ rehearsed' = row.xml
      BY <1>0, <1>5 DEF Rehearse, RequestBytes, dbVars
    <2>2. RowBytes'
      BY <1>0, <2>1 DEF RowBytes
    <2>3. QED
      BY <1>5, <2>2, FinishBytes DEF Rehearse
  <1>6. CASE RenderRefused(w) \/ RehearsalFails(w)
    BY <1>6, GiveUpBytes DEF RenderRefused, RehearsalFails
  <1>7. QED
    BY <1>1, <1>2, <1>3, <1>4, <1>5, <1>6 DEF Freezing

\* Sending puts the row's own bytes in the session whose references it records.
LEMMA SendingBytes ==
  ASSUME BytesContext, NEW w \in Workers, Sending(w)
  PROVE  BytesInv'
  <1> USE DEF BytesContext
  <1>0. /\ TypeOK /\ RowBytes /\ RequestBytes(w) /\ SenderInv(w)
        /\ row \in Rows /\ mem[w] \in Rows
        /\ row.ref # 0 => row.ref \in Sessions
    <2>1. TypeOK /\ RowBytes /\ RequestBytes(w) /\ SenderInv(w)
      BY DEF BytesInv, IssuingInv
    <2>2. row \in Rows /\ mem[w] \in Rows
      BY <2>1 DEF TypeOK
    <2>3. row.ref # 0 => row.ref \in Sessions
      BY <2>2, BoundsAssumption DEF Rows, Sessions
    <2>4. QED
      BY <2>1, <2>2, <2>3
  <1>1. CASE ClaimForSending(w)
    <2>1. /\ row' = [row EXCEPT !.state = "sending"] /\ mem'[w] = row' /\ ksef' = ksef
          /\ rehearsed' = rehearsed /\ pc'[w] = "open" /\ row.state = "draft"
          /\ row.xml # NoXml /\ row.pk # 0
      BY <1>0, <1>1 DEF ClaimForSending, MayClaim, Write, Goto, TypeOK, RequestBytes, Here
    <2>2. /\ row'.pk = row.pk /\ row'.state = "sending" /\ row'.xml = row.xml
          /\ row'.head = row.head /\ row'.lines = row.lines
          /\ row'.ref = row.ref /\ row'.sess = row.sess /\ row'.resume = row.resume
      BY <1>0, <2>1 DEF Rows
    <2>3. RowBytes'
      BY <1>0, <2>1, <2>2 DEF RowBytes
    <2>4. RequestBytes(w)'
      BY <2>1, <2>2 DEF RequestBytes, Here, SendingPlaces
    <2>5. QED
      BY <2>3, <2>4, AloneBytes
  <1>2. CASE OpenSession(w)
    <2>1. PICK s \in Sessions : /\ \A t \in Sessions : ksef[t].verdict = "unused" <=> t >= s
                                /\ ksef' = [ksef EXCEPT ![s].verdict = "open"]
      BY <1>2 DEF OpenSession
    <2>2. ksef[s].verdict = "unused"
      BY <2>1 DEF Sessions
    <2>3. KsefKeeps
      BY <1>0, <2>1, <2>2 DEF KsefKeeps, TypeOK
    <2>4. /\ row' = row /\ mem' = mem /\ rehearsed' = rehearsed /\ pc'[w] = "record"
          /\ mem[w] = row /\ row.xml # NoXml /\ row.pk # 0
      BY <1>0, <1>2 DEF OpenSession, Goto, TypeOK, RequestBytes, Here, SendingPlaces, dbVars
    <2>5. RowBytes'
      BY <1>0, <2>3, <2>4, QuietRowBytes
    <2>6. RequestBytes(w)'
      BY <2>4 DEF RequestBytes, Here, SendingPlaces
    <2>7. QED
      BY <2>5, <2>6, AloneBytes
  <1>3. CASE OpenFails(w) \/ SendFails(w)
    <2>1. /\ row' = row /\ mem' = mem /\ ksef' = ksef /\ rehearsed' = rehearsed /\ pc'[w] = "fail"
          /\ mem[w] = row /\ row.xml # NoXml /\ row.pk # 0
      BY <1>0, <1>3
         DEF OpenFails, SendFails, Goto, TypeOK, RequestBytes, Here, SendingPlaces, dbVars
    <2>2. RowBytes'
      BY <1>0, <2>1, QuietRowBytes DEF KsefKeeps
    <2>3. RequestBytes(w)'
      BY <2>1 DEF RequestBytes, Here, SendingPlaces
    <2>4. QED
      BY <2>2, <2>3, AloneBytes
  <1>4. CASE RecordSession(w)
    <2>1. /\ row' = [row EXCEPT !.sess = session[w], !.resume = session[w]] /\ mem'[w] = row'
          /\ ksef' = ksef /\ rehearsed' = rehearsed /\ pc'[w] = "submit" /\ session' = session
          /\ row.state = "sending" /\ row.xml # NoXml /\ row.pk # 0
          /\ session[w] \in Sessions /\ ksef[session[w]].verdict = "open"
      BY <1>0, <1>4
         DEF RecordSession, Write, Goto, TypeOK, RequestBytes, Here, SendingPlaces, SenderInv
    <2>2. /\ row'.pk = row.pk /\ row'.state = row.state /\ row'.xml = row.xml
          /\ row'.head = row.head /\ row'.lines = row.lines
          /\ row'.ref = row.ref /\ row'.sess = session[w] /\ row'.resume = session[w]
      BY <1>0, <2>1 DEF Rows
    <2>3. session[w] # 0 /\ (row.ref # 0 => row.ref # session[w])
      BY <1>0, <2>1 DEF RowBytes, Sessions
    <2>4. RowBytes'
      BY <1>0, <2>1, <2>2, <2>3 DEF RowBytes
    <2>5. RequestBytes(w)'
      BY <2>1, <2>2, <2>3 DEF RequestBytes, Here, SendingPlaces
    <2>6. QED
      BY <2>4, <2>5, AloneBytes
  <1>5. CASE SendInvoice(w)
    <2>1. /\ row' = row /\ mem' = mem /\ rehearsed' = rehearsed /\ session' = session
          /\ pc'[w] \in {"reference", "fail"}
          /\ mem[w] = row /\ row.xml # NoXml /\ row.pk # 0
          /\ row.resume = session[w] /\ row.sess # 0
          /\ session[w] \in Sessions /\ ksef[session[w]].verdict = "open"
      BY <1>0, <1>5
         DEF SendInvoice, Goto, TypeOK, RequestBytes, Here, SendingPlaces, SenderInv, dbVars
    <2>2. /\ ksef'[session[w]] = [xml |-> row.xml, verdict |-> "processing"]
          /\ \A t \in Sessions : t # session[w] => ksef'[t] = ksef[t]
      BY <1>0, <1>5, <2>1 DEF SendInvoice, TypeOK
    <2>3. KsefKeeps
      BY <2>1, <2>2 DEF KsefKeeps
    <2>4. RowBytes'
      BY <1>0, <2>1, <2>3, QuietRowBytes
    <2>5. RequestBytes(w)'
      BY <2>1, <2>2 DEF RequestBytes, Here, SendingPlaces
    <2>6. QED
      BY <2>4, <2>5, AloneBytes
  <1>6. CASE RecordReference(w)
    <2>1. /\ row' = [row EXCEPT !.ref = session[w]] /\ ksef' = ksef /\ rehearsed' = rehearsed
          /\ row.state = "sending" /\ row.xml # NoXml /\ row.resume = session[w] /\ row.sess # 0
          /\ session[w] \in Sessions /\ ksef[session[w]].xml = row.xml
          /\ ksef[session[w]].verdict \notin {"unused", "open"}
      BY <1>0, <1>6 DEF RecordReference, RequestBytes, SendingPlaces, SenderInv
    <2>2. /\ row'.state = row.state /\ row'.xml = row.xml
          /\ row'.head = row.head /\ row'.lines = row.lines
          /\ row'.ref = session[w] /\ row'.sess = row.sess /\ row'.resume = row.resume
      BY <1>0, <2>1 DEF Rows
    <2>3. RowBytes'
      BY <1>0, <2>1, <2>2 DEF RowBytes
    <2>4. QED
      BY <1>6, <2>3, FinishBytes DEF RecordReference
  <1>7. CASE RecordFailure(w)
    <2>1. ksef' = ksef /\ rehearsed' = rehearsed /\ mem[w] = row
      BY <1>0, <1>7 DEF RecordFailure, RequestBytes
    <2>2. RowBytes'
      <3>1. CASE row' = row
        BY <1>0, <2>1, <3>1, QuietRowBytes DEF KsefKeeps
      <3>2. CASE row' # row
        <4>1. row.sess = 0 /\ row' = [row EXCEPT !.state = "draft"]
          BY <1>7, <2>1, <3>2 DEF RecordFailure, NeverReachedKsef
        <4>2. /\ row'.state = "draft" /\ row'.xml = row.xml
              /\ row'.head = row.head /\ row'.lines = row.lines
              /\ row'.ref = row.ref /\ row'.sess = row.sess /\ row'.resume = row.resume
          BY <1>0, <4>1 DEF Rows
        <4>3. row.ref = 0
          BY <1>0, <4>1 DEF RowBytes
        <4>4. QED
          BY <1>0, <2>1, <4>2, <4>3 DEF RowBytes
      <3>3. QED
        BY <3>1, <3>2
    <2>3. QED
      BY <1>7, <2>2, FinishBytes DEF RecordFailure
  <1>8. CASE ClaimLost(w) \/ OpenRefused(w) \/ NothingToSend(w)
    BY <1>8, GiveUpBytes DEF ClaimLost, OpenRefused, NothingToSend
  <1>9. QED
    BY <1>1, <1>2, <1>3, <1>4, <1>5, <1>6, <1>7, <1>8 DEF Sending

\* The verdict a poll settles the row with is the one on the row's own bytes.
LEMMA ResolvingBytes ==
  ASSUME BytesContext, NEW w \in Workers, Resolving(w)
  PROVE  BytesInv'
  <1> USE DEF BytesContext
  <1>0. /\ TypeOK /\ RowBytes /\ RequestBytes(w) /\ AskerInv(w)
        /\ row \in Rows /\ mem[w] \in Rows
    BY DEF BytesInv, IssuingInv, TypeOK
  <1>1. CASE LoadForStatus(w)
    BY <1>1, LoadBytes DEF LoadForStatus
  <1>2. CASE Ask(w)
    <2>1. /\ row' = row /\ mem' = mem /\ ksef' = ksef /\ rehearsed' = rehearsed
          /\ pc'[w] = "settle" /\ mem[w] = row /\ row.pk # 0
      BY <1>0, <1>2 DEF Ask, Goto, TypeOK, RequestBytes, Here, dbVars
    <2>2. RowBytes'
      BY <1>0, <2>1, QuietRowBytes DEF KsefKeeps
    <2>3. RequestBytes(w)'
      BY <2>1 DEF RequestBytes, Here, SendingPlaces
    <2>4. QED
      BY <2>2, <2>3, AloneBytes
  <1>3. CASE AskUnanswered(w)
    BY <1>3, GiveUpBytes DEF AskUnanswered
  <1>4. CASE Settle(w)
    <2>1. ksef' = ksef /\ rehearsed' = rehearsed /\ mem[w] = row
      BY <1>0, <1>4 DEF Settle, RequestBytes
    <2>2. CASE ~MaySettle(row)
      <3>1. row' = row
        BY <1>4, <2>2 DEF Settle
      <3>2. RowBytes'
        BY <1>0, <2>1, <3>1, QuietRowBytes DEF KsefKeeps
      <3>3. QED
        BY <1>4, <3>2, FinishBytes DEF Settle
    <2>3. CASE MaySettle(row)
      <3>1. /\ row.state = "sending" /\ row' = SettledBy(row, row.ref)
            /\ row.ref = row.resume /\ row.ref \in Sessions /\ row.ref # 0
            /\ ksef[row.ref].verdict \in Decided /\ ksef[row.ref].xml = row.xml
        BY <1>0, <1>4, <2>1, <2>3
           DEF Settle, MaySettle, AskerInv, AskingPlaces, Sessions, RowBytes
      <3>2. /\ row'.xml = row.xml /\ row'.head = row.head /\ row'.lines = row.lines
            /\ row'.ref = row.ref /\ row'.sess = row.sess /\ row'.resume = row.resume
            /\ row'.state \in {"accepted", "rejected"}
            /\ row'.state = "rejected" => ksef[row.ref].verdict = "rejected"
        BY <1>0, <3>1 DEF SettledBy, Rows
      <3>3. row'.state = "rejected" => ksef[row.ref] = [xml |-> row.xml, verdict |-> "rejected"]
        BY <1>0, <3>1, <3>2 DEF TypeOK
      <3>4. row'.state = "accepted" =>
              /\ row'.number \in Sessions
              /\ ksef[row'.number] = [xml |-> row.xml, verdict |-> "accepted"]
        BY <1>0, <1>4, <2>1, <3>1, SettledAsAccepted
      <3>5. RowBytes'
        BY <1>0, <2>1, <3>1, <3>2, <3>3, <3>4 DEF RowBytes
      <3>6. QED
        BY <1>4, <3>5, FinishBytes DEF Settle
    <2>4. QED
      BY <2>2, <2>3
  <1>5. QED
    BY <1>1, <1>2, <1>3, <1>4 DEF Resolving

\* Discarding takes the bytes with it, and issuing by hand keeps them.
LEMMA OtherBytes ==
  ASSUME BytesContext, NEW w \in Workers, Other(w)
  PROVE  BytesInv'
  <1> USE DEF BytesContext
  <1>0. /\ TypeOK /\ RowBytes /\ RequestBytes(w) /\ RewriterInv(w) /\ row \in Rows
    BY DEF BytesInv, IssuingInv, TypeOK
  <1>1. CASE LoadToDelete(w) \/ LoadToIssue(w)
    BY <1>1, LoadBytes DEF LoadToDelete, LoadToIssue
  <1>2. CASE Delete(w)
    <2>1. RowBytes'
      BY <1>2 DEF Delete, NoRow, FreshRow, RowBytes
    <2>2. QED
      BY <1>2, <2>1, FinishBytes DEF Delete
  <1>3. CASE MarkIssued(w)
    <2>1. row' = [row EXCEPT !.state = "issued"] /\ ksef' = ksef /\ rehearsed' = rehearsed
      BY <1>3 DEF MarkIssued
    <2>2. /\ row'.state = "issued" /\ row'.xml = row.xml
          /\ row'.head = row.head /\ row'.lines = row.lines
          /\ row'.ref = row.ref /\ row'.sess = row.sess /\ row'.resume = row.resume
      BY <1>0, <2>1 DEF Rows
    <2>3. RowBytes'
      BY <1>0, <2>1, <2>2 DEF RowBytes
    <2>4. QED
      BY <1>3, <2>3, FinishBytes DEF MarkIssued
  <1>4. CASE EditSeller(w)
    <2>1. /\ row' = row /\ ksef' = ksef /\ rehearsed' = rehearsed /\ pc' = pc /\ mem' = mem
          /\ session' = session
      BY <1>4 DEF EditSeller, reqVars
    <2>2. RowBytes'
      BY <1>0, <2>1, QuietRowBytes DEF KsefKeeps
    <2>3. RequestBytes(w)'
      BY <1>0, <2>1 DEF RequestBytes, Here
    <2>4. QED
      BY <2>2, <2>3, AloneBytes
  <1>5. CASE Vanished(w) \/ Crash(w)
    BY <1>5, GiveUpBytes DEF Vanished, Crash
  <1>6. QED
    BY <1>1, <1>2, <1>3, <1>4, <1>5 DEF Other

\* KSeF decides about the bytes it was given.
LEMMA DecideBytes ==
  ASSUME BytesContext, NEW s \in Sessions, Decide(s)
  PROVE  BytesInv'
  <1> USE DEF BytesContext
  <1>1. PICK verdict \in Decided : ksef' = [ksef EXCEPT ![s].verdict = verdict]
    BY DEF Decide, Decided
  <1>2. /\ ksef[s].verdict = "processing" /\ row' = row /\ rehearsed' = rehearsed
        /\ pc' = pc /\ mem' = mem /\ session' = session
    BY DEF Decide, dbVars, reqVars
  <1>3. KsefKeeps
    BY <1>1, <1>2 DEF KsefKeeps, Decided, IssuingInv, TypeOK
  <1>4. RowBytes'
    BY <1>2, <1>3, QuietRowBytes DEF BytesInv, IssuingInv
  <1>5. ASSUME NEW w \in Workers
        PROVE  RequestBytes(w)'
    BY <1>2, <1>3 DEF BytesInv, RequestBytes, Here, KsefKeeps
  <1>6. QED
    BY <1>4, <1>5 DEF BytesInv

\* One request at a time, every step keeps the bytes together.
LEMMA BytesStep == BytesContext /\ [Next]_vars => BytesInv'
  <1> SUFFICES ASSUME BytesContext, [Next]_vars
               PROVE  BytesInv'
    OBVIOUS
  <1>1. ASSUME NEW w \in Workers, Handle(w)
        PROVE  BytesInv'
    BY <1>1, StoringBytes, FreezingBytes, SendingBytes, ResolvingBytes, OtherBytes DEF Handle
  <1>2. ASSUME NEW s \in Sessions, Decide(s)
        PROVE  BytesInv'
    BY <1>2, DecideBytes
  <1>3. CASE UNCHANGED vars
    BY <1>3 DEF vars, BytesContext, BytesInv, RowBytes, RequestBytes, Here
  <1>4. QED
    BY <1>1, <1>2, <1>3 DEF Next

\* The invariants together, one request at a time.
LEMMA BytesAlways == OneAtATime => (Spec => [](IssuingInv /\ VerdictInv /\ BytesInv))
  <1>1. ASSUME OneAtATime PROVE Spec => [](IssuingInv /\ VerdictInv /\ BytesInv)
    <2>1. IssuingInv /\ [Next]_vars => IssuingInv'
      BY <1>1, IssuingStep DEF Discipline
    <2>2. IssuingInv /\ VerdictInv /\ [Next]_vars => VerdictInv'
      BY VerdictStep DEF IssuingInv
    <2>3. IssuingInv /\ VerdictInv /\ BytesInv /\ [Next]_vars => BytesInv'
      BY <1>1, BytesStep DEF BytesContext
    <2>4. QED
      BY <2>1, <2>2, <2>3, InitIssuing, InitVerdicts, InitBytes, PTL DEF Spec
  <1>2. QED
    BY <1>1

\* One request at a time, a verdict on the row is KSeF's verdict on the very
\* bytes the row holds, of the details it shows.
THEOREM VerdictOnItsBytes == OneAtATime => (Spec => []SettledOnItsBytes)
  <1>1. IssuingInv /\ BytesInv => SettledOnItsBytes
    BY DEF BytesInv, RowBytes, SettledOnItsBytes, Sessions
  <1>2. ASSUME OneAtATime PROVE Spec => []SettledOnItsBytes
    BY <1>1, <1>2, BytesAlways, PTL
  <1>3. QED
    BY <1>2

-----------------------------------------------------------------------------
(* What no step does, one request at a time.                               *)

\* The row is only ever written by these.
Writing(w) ==
  \/ Rewrite(w) \/ ReplaceLines(w) \/ Freeze(w) \/ ClaimForSending(w)
  \/ RecordSession(w) \/ RecordReference(w) \/ RecordFailure(w) \/ Settle(w)
  \/ Delete(w) \/ MarkIssued(w)

\* A request changes the row by creating it where there is none, or by writing
\* to the one it loaded.
LEMMA RowChanges ==
  ASSUME NEW w \in Workers, Handle(w), row' # row
  PROVE  Create(w) \/ (Writing(w) /\ Here(w))
  BY DEF Handle, Storing, LoadToCreate, CreateRefused, LoadToRewrite, Rewrite, ReplaceLines,
         Resubmit, SavedUnchanged, Freezing, LoadToSend, LoadToRehearse, Render, RenderRefused,
         Freeze, Rehearse, RehearsalFails, Sending, ClaimForSending, ClaimLost, OpenSession,
         OpenFails, OpenRefused, RecordSession, SendInvoice, SendFails, NothingToSend,
         RecordReference, RecordFailure, Resolving, LoadForStatus, Ask, AskUnanswered, Settle,
         Other, LoadToDelete, Delete, LoadToIssue, MarkIssued, EditSeller, Vanished, Crash,
         GiveUp, Load, dbVars, Writing

\* Where there is no row there is nothing decided.
AbsentIsDraft == row.pk = 0 => row.state = "draft"

\* Every step keeps that: only a discarded row is gone.
LEMMA AbsentStep == TypeOK /\ AbsentIsDraft /\ [Next]_vars => AbsentIsDraft'
  <1> SUFFICES ASSUME TypeOK, AbsentIsDraft, [Next]_vars
               PROVE  AbsentIsDraft'
    OBVIOUS
  <1>1. ASSUME NEW w \in Workers, Handle(w), row' # row
        PROVE  AbsentIsDraft'
    <2>1. CASE Create(w)
      <3>1. PICK payload \in Payloads : row' = FreshRow(rows + 1, payload, NoPayload)
        BY <2>1 DEF Create, Write
      <3>2. QED
        BY <3>1 DEF FreshRow, AbsentIsDraft
    <2>2. CASE Delete(w)
      BY <2>2 DEF Delete, NoRow, FreshRow, AbsentIsDraft
    <2>3. CASE Writing(w) /\ Here(w) /\ ~Delete(w)
      <3>1. row.pk # 0 /\ row \in Rows /\ mem[w] \in Rows
        BY <2>3 DEF Here, TypeOK
      <3>2. row'.pk = row.pk
        BY <2>3, <3>1
           DEF Writing, Rewrite, ReplaceLines, Freeze, ClaimForSending, RecordSession,
               RecordReference, RecordFailure, Settle, MarkIssued, Write, Rewritten,
               StoredWithLines, SettledBy, Rows
      <3>3. QED
        BY <3>1, <3>2 DEF AbsentIsDraft
    <2>4. QED
      BY <1>1, <2>1, <2>2, <2>3, RowChanges
  <1>2. CASE row' = row
    BY <1>2 DEF AbsentIsDraft
  <1>3. QED
    BY <1>1, <1>2 DEF Next, Decide, vars, dbVars

\* What IssuedIsFinal asks of one step.
IssuedStays ==
  row.state \in {"accepted", "issued"} =>
    /\ row'.pk = row.pk
    /\ row'.state = row.state
    /\ row'.head = row.head
    /\ row'.lines = row.lines
    /\ row.state = "accepted" => row'.xml = row.xml

\* No step does anything to an issued row but render it again where KSeF has
\* no part in it.
LEMMA IssuedStep == BytesContext /\ AbsentIsDraft /\ [Next]_vars => IssuedStays
  <1> SUFFICES ASSUME BytesContext, AbsentIsDraft, [Next]_vars,
                      row.state \in {"accepted", "issued"}, row' # row
               PROVE  IssuedStays
    BY DEF IssuedStays
  <1> USE DEF BytesContext
  <1>0. TypeOK /\ RowBytes /\ row \in Rows /\ row.pk # 0
    BY DEF BytesInv, IssuingInv, TypeOK, AbsentIsDraft
  <1>1. PICK w \in Workers : Handle(w)
    BY DEF Next, Decide, vars, dbVars
  <1>2. RequestBytes(w) /\ RewriterInv(w) /\ SenderInv(w)
    BY DEF BytesInv, IssuingInv
  <1>3. Writing(w) /\ Here(w)
    BY <1>0, <1>1, RowChanges DEF Create
  <1>4. CASE Freeze(w)
    <2>1. row' = [row EXCEPT !.xml = mem[w].xml] /\ row.xml = NoXml
      BY <1>2, <1>4 DEF Freeze, Write, RequestBytes
    <2>2. row.state = "issued"
      BY <1>0, <2>1 DEF RowBytes
    <2>3. QED
      BY <1>0, <2>1, <2>2 DEF IssuedStays, Rows
  <1>5. CASE ~Freeze(w)
    <2>1. row.state \in {"draft", "sending", "rejected"}
      BY <1>2, <1>3, <1>5
         DEF Writing, Rewrite, ReplaceLines, ClaimForSending, MayClaim, RecordSession,
             RecordReference, RecordFailure, Settle, MaySettle, Delete, MarkIssued,
             RewriterInv, SenderInv, Editable, SendingPlaces
    <2>2. QED
      BY <2>1
  <1>6. QED
    BY <1>4, <1>5

\* One request at a time, an issued invoice never changes again and never goes.
THEOREM IssuedStaysAsItIs == OneAtATime => (Spec => IssuedIsFinal)
  <1>1. ASSUME OneAtATime PROVE Spec => IssuedIsFinal
    <2>1. Init => AbsentIsDraft
      BY DEF Init, NoRow, FreshRow, AbsentIsDraft
    <2>2. IssuingInv /\ AbsentIsDraft /\ [Next]_vars => AbsentIsDraft'
      BY AbsentStep DEF IssuingInv
    <2>3. IssuingInv /\ VerdictInv /\ BytesInv /\ AbsentIsDraft /\ [Next]_vars => [IssuedStays]_vars
      BY <1>1, IssuedStep DEF BytesContext
    <2>4. Spec => [][IssuedStays]_vars
      BY <1>1, <2>1, <2>2, <2>3, BytesAlways, PTL DEF Spec
    <2>5. QED
      BY <2>4 DEF IssuedIsFinal, IssuedStays
  <1>2. QED
    BY <1>1

\* What RehearsedIsSubmitted asks of one step.
SubmitsRehearsed ==
  \A s \in Sessions :
    ksef[s].verdict = "open" /\ ksef'[s].verdict = "processing" =>
      rehearsed \in {NoXml, ksef'[s].xml}

\* What a step puts in a session is what the row holds, and so what was last
\* rehearsed.
LEMMA RehearsedStep == BytesContext /\ [Next]_vars => SubmitsRehearsed
  <1> SUFFICES ASSUME BytesContext, [Next]_vars, NEW s \in Sessions,
                      ksef[s].verdict = "open", ksef'[s].verdict = "processing"
               PROVE  rehearsed \in {NoXml, ksef'[s].xml}
    BY DEF SubmitsRehearsed
  <1> USE DEF BytesContext
  <1>0. TypeOK /\ RowBytes
    BY DEF BytesInv, IssuingInv
  <1>1. ASSUME NEW w \in Workers, SendInvoice(w)
        PROVE  rehearsed \in {NoXml, ksef'[s].xml}
    <2>1. session[w] \in Sessions /\ mem[w] = row
      BY <1>1 DEF SendInvoice, BytesInv, RequestBytes, IssuingInv, SenderInv
    <2>2. ksef'[s].xml = row.xml
      BY <1>0, <1>1, <2>1 DEF SendInvoice, TypeOK
    <2>3. QED
      BY <1>0, <2>2 DEF RowBytes
  <1>2. ASSUME NEW w \in Workers, OpenSession(w)
        PROVE  FALSE
    BY <1>0, <1>2 DEF OpenSession, TypeOK
  <1>3. ASSUME NEW t \in Sessions, Decide(t)
        PROVE  FALSE
    BY <1>0, <1>3 DEF Decide, TypeOK
  <1>4. QED
    BY <1>0, <1>1, <1>2, <1>3, LocalVerdicts DEF Next, vars

\* One request at a time, what production receives of an invoice that was
\* rehearsed and not edited since is what the sandbox accepted.
THEOREM SubmittedAsRehearsed == OneAtATime => (Spec => RehearsedIsSubmitted)
  <1>1. ASSUME OneAtATime PROVE Spec => RehearsedIsSubmitted
    <2>1. IssuingInv /\ VerdictInv /\ BytesInv /\ [Next]_vars => [SubmitsRehearsed]_vars
      BY <1>1, RehearsedStep DEF BytesContext
    <2>2. Spec => [][SubmitsRehearsed]_vars
      BY <1>1, <2>1, BytesAlways, PTL DEF Spec
    <2>3. QED
      BY <2>2 DEF RehearsedIsSubmitted, SubmitsRehearsed
  <1>2. QED
    BY <1>1

-----------------------------------------------------------------------------
(* Sending an invoice implements the promise of InvoiceIssuance.           *)

\* The document that stands as the invoice is the one session's that was
\* accepted.
LEMMA DocumentAccepted ==
  ASSUME IssuedOnce, NEW s \in Sessions, ksef[s].verdict = "accepted"
  PROVE  IssuedDocument = ksef[s].xml
  <1>1. \A t \in Sessions : ksef[t].verdict = "accepted" => t = s
    BY DEF IssuedOnce, Live
  <1>2. QED
    BY <1>1 DEF IssuedDocument

\* None stands while KSeF has accepted nothing.
LEMMA DocumentNone ==
  ASSUME \A s \in Sessions : ksef[s].verdict # "accepted"
  PROVE  IssuedDocument = NoXml
  BY DEF IssuedDocument

\* It is the same one as long as no session becomes accepted, or stops being.
LEMMA DocumentStands ==
  ASSUME IssuedOnce, IssuedOnce',
         \A s \in Sessions : ksef[s].verdict = "accepted" => ksef'[s] = ksef[s],
         \A s \in Sessions : ksef'[s].verdict = "accepted" => ksef[s].verdict = "accepted"
  PROVE  IssuedDocument' = IssuedDocument
  <1>1. CASE \E s \in Sessions : ksef[s].verdict = "accepted"
    <2>1. PICK s \in Sessions : ksef[s].verdict = "accepted"
      BY <1>1
    <2>2. IssuedDocument = ksef[s].xml /\ ksef'[s] = ksef[s]
      BY <2>1, DocumentAccepted
    <2>3. \A t \in Sessions : ksef'[t].verdict = "accepted" => t = s
      BY <2>1 DEF IssuedOnce, Live
    <2>4. IssuedDocument' = ksef'[s].xml
      BY <2>1, <2>2, <2>3 DEF IssuedDocument
    <2>5. QED
      BY <2>2, <2>4
  <1>2. CASE \A s \in Sessions : ksef[s].verdict # "accepted"
    BY <1>2 DEF IssuedDocument
  <1>3. QED
    BY <1>1, <1>2

\* What the refinement rests on.
IssuanceContext ==
  Discipline /\ IssuingInv /\ VerdictInv /\ AcceptedIsIssued /\ AbsentIsDraft

\* The program starts open, with no document.
LEMMA InitIssuance == Init => Issuance!Init
  <1> SUFFICES ASSUME Init PROVE Issuance!Init
    OBVIOUS
  <1>1. row.state = "draft"
    BY DEF Init, NoRow, FreshRow
  <1>2. IssuedDocument = NoXml
    BY DocumentNone DEF Init
  <1>3. QED
    BY <1>1, <1>2 DEF Issuance!Init, Phase

\* No request's step changes the issued document: only KSeF's decision does.
LEMMA QuietIssuance ==
  ASSUME IssuanceContext, IssuingInv', NEW w \in Workers, Handle(w)
  PROVE  IssuedDocument' = IssuedDocument
  <1> USE DEF IssuanceContext
  <1>0. TypeOK /\ IssuedOnce /\ IssuedOnce'
    BY DEF IssuingInv
  <1>1. CASE ~OpenSession(w) /\ ~SendInvoice(w)
    BY <1>0, <1>1, LocalVerdicts DEF IssuedDocument
  <1>2. CASE OpenSession(w)
    <2>1. PICK s \in Sessions : /\ \A t \in Sessions : ksef[t].verdict = "unused" <=> t >= s
                                /\ ksef' = [ksef EXCEPT ![s].verdict = "open"]
      BY <1>2 DEF OpenSession
    <2>2. ksef[s].verdict = "unused"
      BY <2>1 DEF Sessions
    <2>3. ksef'[s].verdict = "open" /\ \A t \in Sessions : t # s => ksef'[t] = ksef[t]
      BY <1>0, <2>1 DEF TypeOK
    <2>4. /\ \A t \in Sessions : ksef[t].verdict = "accepted" => ksef'[t] = ksef[t]
          /\ \A t \in Sessions : ksef'[t].verdict = "accepted" => ksef[t].verdict = "accepted"
      BY <2>2, <2>3
    <2>5. QED
      BY <1>0, <2>4, DocumentStands
  <1>3. CASE SendInvoice(w)
    <2>1. session[w] \in Sessions /\ ksef[session[w]].verdict = "open"
      BY <1>3 DEF SendInvoice, VerdictInv, HasOpenSession
    <2>2. /\ ksef'[session[w]].verdict = "processing"
          /\ \A t \in Sessions : t # session[w] => ksef'[t] = ksef[t]
      BY <1>0, <1>3, <2>1 DEF SendInvoice, TypeOK
    <2>3. /\ \A t \in Sessions : ksef[t].verdict = "accepted" => ksef'[t] = ksef[t]
          /\ \A t \in Sessions : ksef'[t].verdict = "accepted" => ksef[t].verdict = "accepted"
      BY <2>1, <2>2
    <2>4. QED
      BY <1>0, <2>3, DocumentStands
  <1>4. QED
    BY <1>1, <1>2, <1>3

\* A request's step is a step of the promise, or none: claiming submits, a
\* verdict is learnt or returns the invoice, and only what never reached KSeF
\* is released.
LEMMA HandleIssuance ==
  ASSUME IssuanceContext, IssuingInv', NEW w \in Workers, Handle(w)
  PROVE  [Issuance!Next]_(Issuance!vars)
  <1> USE DEF IssuanceContext
  <1>0. /\ TypeOK /\ row \in Rows /\ mem[w] \in Rows /\ IssuedOnce
        /\ SenderInv(w) /\ AskerInv(w) /\ RewriterInv(w) /\ ReferenceInv
    BY DEF IssuingInv, TypeOK
  <1>1. IssuedDocument' = IssuedDocument
    BY QuietIssuance
  <1>2. CASE Phase' = Phase
    BY <1>1, <1>2 DEF Issuance!vars
  <1>3. CASE Create(w)
    <2>1. PICK payload \in Payloads : row' = FreshRow(rows + 1, payload, NoPayload)
      BY <1>3 DEF Create, Write
    <2>2. row'.state = "draft"
      BY <2>1 DEF FreshRow
    <2>3. row.state = "draft"
      BY <1>3 DEF Create, AbsentIsDraft
    <2>4. QED
      BY <1>2, <2>2, <2>3 DEF Phase
  <1>4. CASE Rewrite(w) \/ ReplaceLines(w) \/ Delete(w)
    <2>1. row.state \in Editable
      BY <1>0, <1>4 DEF Rewrite, ReplaceLines, Delete, RewriterInv, Editable
    <2>2. row'.state \in {"draft", row.state}
      <3>1. CASE Rewrite(w)
        <4>1. PICK payload \in Payloads : row' = Rewritten(row, mem[w], payload)
          BY <3>1 DEF Rewrite, Write
        <4>2. QED
          BY <1>0, <4>1 DEF Rewritten, Rows
      <3>2. CASE ReplaceLines(w)
        BY <1>0, <3>2 DEF ReplaceLines, StoredWithLines, Rows
      <3>3. CASE Delete(w)
        BY <3>3 DEF Delete, NoRow, FreshRow
      <3>4. QED
        BY <1>4, <3>1, <3>2, <3>3
    <2>3. QED
      BY <1>2, <2>1, <2>2 DEF Phase, Editable
  <1>5. CASE Freeze(w) \/ RecordSession(w) \/ RecordReference(w)
    <2>1. row'.state = row.state
      BY <1>0, <1>5 DEF Freeze, RecordSession, RecordReference, Write, Rows
    <2>2. QED
      BY <1>2, <2>1 DEF Phase
  <1>6. CASE ClaimForSending(w)
    <2>1. row.state = "draft" /\ row'.state = "sending"
      BY <1>0, <1>6 DEF ClaimForSending, MayClaim, Write, Rows
    <2>2. QED
      BY <1>1, <2>1 DEF Phase, Issuance!Next, Issuance!Submit
  <1>7. CASE RecordFailure(w)
    <2>1. CASE row' = row
      BY <1>2, <2>1 DEF Phase
    <2>2. CASE row' # row
      <3>1. mem[w].sess = 0 /\ row.state = "sending" /\ row'.state = "draft" /\ pc[w] = "fail"
        BY <1>0, <1>7, <2>2 DEF RecordFailure, NeverReachedKsef, Rows
      <3>2. \A s \in Sessions : ksef[s].verdict # "accepted"
        BY <1>0, <3>1 DEF SenderInv, NothingLive, Live
      <3>3. IssuedDocument = NoXml
        BY <3>2, DocumentNone
      <3>4. QED
        BY <1>1, <3>1, <3>3 DEF Phase, Issuance!Next, Issuance!Return
    <2>3. QED
      BY <2>1, <2>2
  <1>8. CASE Settle(w)
    <2>1. CASE ~MaySettle(row)
      BY <1>2, <1>8, <2>1 DEF Settle, Phase
    <2>2. CASE MaySettle(row)
      <3>1. /\ row.state = "sending" /\ row' = SettledBy(row, mem[w].ref)
            /\ mem[w].ref \in Sessions /\ row.ref = mem[w].ref /\ row.ref = row.resume
        BY <1>0, <1>8, <2>2 DEF Settle, MaySettle, AskerInv, AskingPlaces
      <3>2. row'.state = IF ksef[mem[w].ref].verdict = "rejected" THEN "rejected" ELSE "accepted"
        BY <1>0, <3>1 DEF SettledBy, Rows
      <3>3. CASE ksef[mem[w].ref].verdict = "rejected"
        <4>1. \A s \in Sessions : ksef[s].verdict # "accepted"
          BY <1>0, <3>1, <3>3 DEF ReferenceInv, Live, Sessions
        <4>2. IssuedDocument = NoXml
          BY <4>1, DocumentNone
        <4>3. QED
          BY <1>1, <3>1, <3>2, <3>3, <4>2 DEF Phase, Issuance!Next, Issuance!Return
      <3>4. CASE ksef[mem[w].ref].verdict # "rejected"
        <4>1. PICK n \in Sessions :
                ksef[n] = [xml |-> ksef[mem[w].ref].xml, verdict |-> "accepted"]
          BY <1>0, <1>8, <3>1, <3>2, <3>4, SettledAsAccepted
        <4>2. IssuedDocument = ksef[n].xml
          BY <1>0, <4>1, DocumentAccepted
        <4>3. ksef[n].xml # NoXml
          BY <4>1 DEF VerdictInv
        <4>4. QED
          BY <1>1, <3>1, <3>2, <3>4, <4>2, <4>3 DEF Phase, Issuance!Next, Issuance!Learn
      <3>5. QED
        BY <3>3, <3>4
    <2>3. QED
      BY <2>1, <2>2
  <1>9. CASE MarkIssued(w)
    <2>1. row.state = "draft" /\ row'.state = "issued"
      BY <1>0, <1>9 DEF MarkIssued, RewriterInv, Rows
    <2>2. QED
      BY <1>1, <2>1 DEF Phase, Issuance!Next, Issuance!IssueElsewhere
  <1>10. CASE row' = row
    BY <1>2, <1>10 DEF Phase
  <1>11. QED
    BY <1>3, <1>4, <1>5, <1>6, <1>7, <1>8, <1>9, <1>10, RowChanges DEF Writing

\* KSeF's decision issues the document, once and while it is in flight, or
\* changes nothing of the promise.
LEMMA DecideIssuance ==
  ASSUME IssuanceContext, IssuingInv', NEW s \in Sessions, Decide(s)
  PROVE  [Issuance!Next]_(Issuance!vars)
  <1> USE DEF IssuanceContext
  <1>0. TypeOK /\ row \in Rows /\ IssuedOnce /\ IssuedOnce' /\ ClosedWhileLive
    BY DEF IssuingInv, TypeOK
  <1>1. PICK verdict \in IF AcceptedUnder(ksef[s].xml) # 0 THEN {"duplicate"}
                         ELSE {"accepted", "rejected"} :
          ksef' = [ksef EXCEPT ![s].verdict = verdict]
    BY DEF Decide
  <1>2. ksef[s].verdict = "processing" /\ row' = row
    BY DEF Decide, dbVars
  <1>3. /\ ksef'[s].verdict = verdict /\ ksef'[s].xml = ksef[s].xml
        /\ \A t \in Sessions : t # s => ksef'[t] = ksef[t]
    BY <1>0, <1>1 DEF TypeOK
  <1>4. \A t \in Sessions : ksef[t].verdict # "accepted"
    BY <1>0, <1>2 DEF IssuedOnce, Live
  <1>5. CASE verdict = "accepted"
    <2>1. row.state = "sending"
      <3>1. row.state \in {"sending", "accepted"}
        BY <1>0, <1>2 DEF ClosedWhileLive, Live
      <3>2. row.state = "accepted" => row.number \in Sessions /\ ksef[row.number].verdict = "accepted"
        BY <1>0, BoundsAssumption DEF AcceptedIsIssued, Rows, Sessions
      <3>3. QED
        BY <1>4, <3>1, <3>2
    <2>2. IssuedDocument = NoXml
      BY <1>4, DocumentNone
    <2>3. \A t \in Sessions : ksef'[t].verdict = "accepted" => t = s
      BY <1>3, <1>4
    <2>4. IssuedDocument' = ksef[s].xml
      BY <1>3, <1>5, <2>3 DEF IssuedDocument
    <2>5. ksef[s].xml \in Renderings
      BY <1>0 DEF TypeOK
    <2>6. QED
      BY <1>2, <2>1, <2>2, <2>4, <2>5 DEF Phase, Issuance!Next, Issuance!Issue
  <1>6. CASE verdict # "accepted"
    <2>1. \A t \in Sessions : ksef'[t].verdict # "accepted"
      BY <1>3, <1>4, <1>6
    <2>2. IssuedDocument' = IssuedDocument
      BY <1>4, <2>1 DEF IssuedDocument
    <2>3. QED
      BY <1>2, <2>2 DEF Issuance!vars, Phase
  <1>7. QED
    BY <1>5, <1>6

\* Every step of sending is a step of the promise, or leaves it as it is.
LEMMA IssuanceStep ==
  IssuanceContext /\ IssuingInv' /\ [Next]_vars => [Issuance!Next]_(Issuance!vars)
  <1> SUFFICES ASSUME IssuanceContext, IssuingInv', [Next]_vars
               PROVE  [Issuance!Next]_(Issuance!vars)
    OBVIOUS
  <1>1. CASE Next
    BY <1>1, HandleIssuance, DecideIssuance DEF Next
  <1>2. CASE UNCHANGED vars
    BY <1>2 DEF vars, Issuance!vars, Phase, IssuedDocument
  <1>3. QED
    BY <1>1, <1>2

\* Under either discipline sending an invoice implements the promise: a row is
\* never open over an issued document, and never recorded as issued before
\* there is one.
THEOREM SendingImplementsIssuance == Discipline => (Spec => ImplementsIssuance)
  <1>1. ASSUME Discipline PROVE Spec => ImplementsIssuance
    <2>1. Init => AcceptedIsIssued /\ AbsentIsDraft
      BY DEF Init, NoRow, FreshRow, AcceptedIsIssued, AbsentIsDraft
    <2>2. IssuingInv /\ [Next]_vars => IssuingInv'
      BY <1>1, IssuingStep
    <2>3. IssuingInv /\ VerdictInv /\ [Next]_vars => VerdictInv'
      BY VerdictStep DEF IssuingInv
    <2>4. IssuingInv /\ VerdictInv /\ AcceptedIsIssued /\ [Next]_vars => AcceptedIsIssued'
      BY AcceptedStep DEF IssuingInv
    <2>5. IssuingInv /\ AbsentIsDraft /\ [Next]_vars => AbsentIsDraft'
      BY AbsentStep DEF IssuingInv
    <2>6. IssuingInv /\ VerdictInv /\ AcceptedIsIssued /\ AbsentIsDraft /\ IssuingInv' /\ [Next]_vars
            => [Issuance!Next]_(Issuance!vars)
      BY <1>1, IssuanceStep DEF IssuanceContext
    <2>7. Spec => Issuance!Init /\ [][Issuance!Next]_(Issuance!vars)
      BY <2>1, <2>2, <2>3, <2>4, <2>5, <2>6, InitIssuing, InitVerdicts, InitIssuance, PTL DEF Spec
    <2>8. QED
      BY <2>7 DEF ImplementsIssuance, Issuance!Spec
  <1>2. QED
    BY <1>1

=============================================================================
