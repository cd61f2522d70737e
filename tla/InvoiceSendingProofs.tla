------------------------ MODULE InvoiceSendingProofs ------------------------
(* What holds of InvoiceSending for every set of requests, every payload and *)
(* every bound.                                                            *)
EXTENDS InvoiceSending, TLAPS

\* The bytes of a document no one rendered are a value of the xml column.
LEMMA NoXmlType == NoXml \in Renderings
  BY BoundsAssumption DEF NoXml, Renderings

\* A row stored under a new primary key has the types of its columns.
LEMMA FreshRowType ==
  ASSUME NEW pk \in 0..MaxRows, NEW head \in Payloads \cup {NoPayload},
         NEW lines \in Payloads \cup {NoPayload}
  PROVE  FreshRow(pk, head, lines) \in Rows
  BY NoXmlType, BoundsAssumption DEF FreshRow, Rows, States

\* So has the row that is not there.
LEMMA NoRowType == NoRow \in Rows
  BY FreshRowType, BoundsAssumption DEF NoRow

\* Rewriting the row from a submission keeps the types of its columns,
\* whatever state the request had loaded.
LEMMA RewrittenType ==
  ASSUME NEW r \in Rows, NEW loaded \in Rows, NEW payload \in Payloads
  PROVE  Rewritten(r, loaded, payload) \in Rows
  <1> DEFINE state == IF loaded.state = "rejected" THEN "draft" ELSE r.state
             resume == IF loaded.state = "rejected" THEN 0 ELSE r.resume
  <1>1. state \in States /\ resume \in 0..MaxSessions
    BY BoundsAssumption DEF Rows, States
  <1>2. [r EXCEPT !.head = payload, !.xml = NoXml] \in Rows
    BY NoXmlType DEF Rows
  <1>3. Rewritten(r, loaded, payload)
          = [[r EXCEPT !.head = payload, !.xml = NoXml] EXCEPT !.state = state, !.resume = resume]
    BY DEF Rewritten, Rows
  <1> HIDE DEF state, resume
  <1>4. QED
    BY <1>1, <1>2, <1>3 DEF Rows

\* A verdict's number is a session KSeF has accepted, or none.
LEMMA AcceptedUnderType ==
  ASSUME NEW xml
  PROVE  AcceptedUnder(xml) \in 0..MaxSessions
  BY BoundsAssumption DEF AcceptedUnder, Sessions

\* Writing KSeF's verdict on the row keeps the types of its columns.
LEMMA SettledByType ==
  ASSUME NEW r \in Rows, NEW s
  PROVE  SettledBy(r, s) \in Rows
  BY AcceptedUnderType DEF SettledBy, Rows, States

\* A request that answers without writing anything keeps TypeOK.
LEMMA GiveUpType ==
  ASSUME TypeOK, NEW w \in Workers, Finish(w)
  PROVE  /\ pc' \in [Workers -> Places]
         /\ goal' \in [Workers -> Goals]
         /\ mem' \in [Workers -> Rows]
         /\ session' \in [Workers -> 0..MaxSessions]
  BY NoRowType, BoundsAssumption DEF TypeOK, Finish, Goto, Places, Goals

\* Loading the row gives a request a copy of the right type.
LEMMA LoadType ==
  ASSUME TypeOK, NEW w \in Workers, NEW op, NEW place \in Places, NEW purpose \in Goals,
         Load(w, op, place, purpose)
  PROVE  TypeOK'
  BY DEF TypeOK, Load, Goto, dbVars

\* Updating the row and refreshing the copy from it keeps both typed.
LEMMA WriteType ==
  ASSUME TypeOK, NEW w \in Workers, NEW updated \in Rows, NEW place \in Places,
         Write(w, updated), Goto(w, place)
  PROVE  /\ row' \in Rows
         /\ mem' \in [Workers -> Rows]
         /\ pc' \in [Workers -> Places]
  BY DEF TypeOK, Write, Goto

\* The program starts in a state of the right types.
LEMMA InitType == Init => TypeOK
  BY NoRowType, NoXmlType, FreshRowType, BoundsAssumption
     DEF Init, TypeOK, Places, Goals, FreshRow, NoRow, Verdicts

\* Saving a submission, new or over an existing draft, keeps TypeOK.
LEMMA StoringType ==
  ASSUME TypeOK, NEW w \in Workers, Storing(w)
  PROVE  TypeOK'
  <1>1. CASE LoadToCreate(w)
    BY <1>1 DEF LoadToCreate, TypeOK, Goto, dbVars, Places
  <1>2. CASE Create(w)
    <2>1. PICK payload \in Payloads : Write(w, FreshRow(rows + 1, payload, NoPayload))
      BY <1>2 DEF Create
    <2>2. rows + 1 \in 0..MaxRows
      BY <1>2, BoundsAssumption DEF Create, TypeOK
    <2>3. FreshRow(rows + 1, payload, NoPayload) \in Rows
      BY <2>2, FreshRowType
    <2>4. row' \in Rows /\ mem' \in [Workers -> Rows] /\ pc' \in [Workers -> Places]
      BY <2>1, <2>3, <1>2, WriteType DEF Create, Places
    <2>5. QED
      BY <2>4, <2>2, <1>2, NoXmlType DEF Create, TypeOK
  <1>3. CASE CreateRefused(w)
    BY <1>3, GiveUpType DEF CreateRefused, GiveUp, TypeOK, dbVars
  <1>4. CASE LoadToRewrite(w)
    BY <1>4, LoadType DEF LoadToRewrite, Places, Goals
  <1>5. CASE Rewrite(w)
    <2>1. PICK payload \in Payloads : Write(w, Rewritten(row, mem[w], payload))
      BY <1>5 DEF Rewrite
    <2>2. Rewritten(row, mem[w], payload) \in Rows
      BY RewrittenType DEF TypeOK
    <2>3. row' \in Rows /\ mem' \in [Workers -> Rows] /\ pc' \in [Workers -> Places]
      BY <2>1, <2>2, <1>5, WriteType DEF Rewrite, Places
    <2>4. QED
      BY <2>3, <1>5, NoXmlType DEF Rewrite, TypeOK
  <1>6. CASE ReplaceLines(w)
    <2>1. row' \in Rows
      BY <1>6 DEF ReplaceLines, StoredWithLines, TypeOK, Rows
    <2>2. CASE Finish(w)
      BY <2>1, <2>2, <1>6, GiveUpType DEF ReplaceLines, TypeOK
    <2>3. CASE ~Finish(w)
      BY <2>1, <2>3, <1>6 DEF ReplaceLines, TypeOK, Goto, Places
    <2>4. QED
      BY <2>2, <2>3
  <1>7. CASE Resubmit(w)
    BY <1>7 DEF Resubmit, TypeOK, Goto, dbVars, Places, Goals, AfterFreeze
  <1>8. CASE SavedUnchanged(w)
    BY <1>8, GiveUpType DEF SavedUnchanged, GiveUp, TypeOK, dbVars
  <1>9. QED
    BY <1>1, <1>2, <1>3, <1>4, <1>5, <1>6, <1>7, <1>8 DEF Storing

\* Rendering, freezing and rehearsing keep TypeOK.
LEMMA FreezingType ==
  ASSUME TypeOK, NEW w \in Workers, Freezing(w)
  PROVE  TypeOK'
  <1>1. CASE LoadToSend(w)
    BY <1>1, LoadType DEF LoadToSend, Places, Goals
  <1>2. CASE LoadToRehearse(w)
    BY <1>2, LoadType DEF LoadToRehearse, Places, Goals
  <1>3. CASE Render(w)
    <2> DEFINE xml == [head  |-> mem[w].head,
                       lines |-> IF Here(w) THEN row.lines ELSE NoPayload,
                       at    |-> clock + 1]
    <2>1. clock + 1 \in 0..MaxRenders
      BY <1>3, BoundsAssumption DEF Render, TypeOK
    <2>2. xml \in Renderings
      BY <2>1 DEF Renderings, TypeOK, Rows
    <2>3. [mem[w] EXCEPT !.xml = xml] \in Rows
      BY <2>2 DEF TypeOK, Rows
    <2>4. mem' = [mem EXCEPT ![w] = [mem[w] EXCEPT !.xml = xml]]
      BY <1>3 DEF Render, TypeOK
    <2> HIDE DEF xml
    <2>5. QED
      BY <2>1, <2>3, <2>4, <1>3 DEF Render, TypeOK, Goto, Places
  <1>4. CASE RenderRefused(w)
    BY <1>4, GiveUpType DEF RenderRefused, GiveUp, TypeOK, dbVars
  <1>5. CASE Freeze(w)
    <2>1. [row EXCEPT !.xml = mem[w].xml] \in Rows
      BY DEF TypeOK, Rows
    <2>2. row' \in Rows /\ mem' \in [Workers -> Rows] /\ pc' \in [Workers -> Places]
      BY <2>1, <1>5, WriteType DEF Freeze, AfterFreeze, Places
    <2>3. QED
      BY <2>2, <1>5 DEF Freeze, TypeOK
  <1>6. CASE Rehearse(w)
    BY <1>6, GiveUpType DEF Rehearse, TypeOK, dbVars, Rows
  <1>7. CASE RehearsalFails(w)
    BY <1>7, GiveUpType DEF RehearsalFails, GiveUp, TypeOK, dbVars
  <1>8. QED
    BY <1>1, <1>2, <1>3, <1>4, <1>5, <1>6, <1>7 DEF Freezing

\* Every step of a send, from the claim to its failure, keeps TypeOK.
LEMMA SendingType ==
  ASSUME TypeOK, NEW w \in Workers, Sending(w)
  PROVE  TypeOK'
  <1>1. CASE ClaimForSending(w)
    <2>1. [row EXCEPT !.state = "sending"] \in Rows
      BY DEF TypeOK, Rows, States
    <2>2. row' \in Rows /\ mem' \in [Workers -> Rows] /\ pc' \in [Workers -> Places]
      BY <2>1, <1>1, WriteType DEF ClaimForSending, Places
    <2>3. QED
      BY <2>2, <1>1 DEF ClaimForSending, TypeOK
  <1>2. CASE ClaimLost(w)
    BY <1>2, GiveUpType DEF ClaimLost, GiveUp, TypeOK, dbVars
  <1>3. CASE OpenSession(w)
    <2>1. PICK s \in Sessions : /\ ksef' = [ksef EXCEPT ![s].verdict = "open"]
                                /\ session' = [session EXCEPT ![w] = s]
      BY <1>3 DEF OpenSession
    <2>2. ksef' \in [Sessions -> [xml : Renderings, verdict : Verdicts]]
      BY <2>1 DEF TypeOK, Verdicts
    <2>3. session' \in [Workers -> 0..MaxSessions]
      BY <2>1, BoundsAssumption DEF TypeOK, Sessions
    <2>4. QED
      BY <2>2, <2>3, <1>3 DEF OpenSession, TypeOK, dbVars, Goto, Places
  <1>4. CASE OpenFails(w)
    BY <1>4 DEF OpenFails, TypeOK, dbVars, Goto, Places
  <1>5. CASE OpenRefused(w)
    BY <1>5, GiveUpType DEF OpenRefused, GiveUp, TypeOK, dbVars
  <1>6. CASE RecordSession(w)
    <2>1. [row EXCEPT !.sess = session[w], !.resume = session[w]] \in Rows
      BY DEF TypeOK, Rows
    <2>2. row' \in Rows /\ mem' \in [Workers -> Rows] /\ pc' \in [Workers -> Places]
      BY <2>1, <1>6, WriteType DEF RecordSession, Places
    <2>3. QED
      BY <2>2, <1>6 DEF RecordSession, TypeOK
  <1>7. CASE SendInvoice(w)
    <2>1. mem[w].xml \in Renderings
      BY DEF TypeOK, Rows
    <2>2. ksef' \in [Sessions -> [xml : Renderings, verdict : Verdicts]]
      BY <2>1, <1>7 DEF SendInvoice, TypeOK, Verdicts
    <2>3. QED
      BY <2>2, <1>7 DEF SendInvoice, TypeOK, dbVars, Goto, Places
  <1>8. CASE SendFails(w)
    BY <1>8 DEF SendFails, TypeOK, dbVars, Goto, Places
  <1>9. CASE NothingToSend(w)
    BY <1>9, GiveUpType DEF NothingToSend, GiveUp, TypeOK, dbVars
  <1>10. CASE RecordReference(w)
    <2>1. row' \in Rows
      BY <1>10 DEF RecordReference, TypeOK, Rows
    <2>2. QED
      BY <2>1, <1>10, GiveUpType DEF RecordReference, TypeOK
  <1>11. CASE RecordFailure(w)
    <2>1. row' \in Rows
      BY <1>11 DEF RecordFailure, TypeOK, Rows, States
    <2>2. QED
      BY <2>1, <1>11, GiveUpType DEF RecordFailure, TypeOK
  <1>12. QED
    BY <1>1, <1>2, <1>3, <1>4, <1>5, <1>6, <1>7, <1>8, <1>9, <1>10, <1>11 DEF Sending

\* Polling KSeF and settling the row keep TypeOK.
LEMMA ResolvingType ==
  ASSUME TypeOK, NEW w \in Workers, Resolving(w)
  PROVE  TypeOK'
  <1>1. CASE LoadForStatus(w)
    BY <1>1, LoadType DEF LoadForStatus, Places, Goals
  <1>2. CASE Ask(w)
    BY <1>2 DEF Ask, TypeOK, dbVars, Goto, Places
  <1>3. CASE AskUnanswered(w)
    BY <1>3, GiveUpType DEF AskUnanswered, GiveUp, TypeOK, dbVars
  <1>4. CASE Settle(w)
    <2>1. row' \in Rows
      BY <1>4, SettledByType DEF Settle, TypeOK
    <2>2. QED
      BY <2>1, <1>4, GiveUpType DEF Settle, TypeOK
  <1>5. QED
    BY <1>1, <1>2, <1>3, <1>4 DEF Resolving

\* Deleting, issuing by hand, editing the seller and dying keep TypeOK.
LEMMA OtherType ==
  ASSUME TypeOK, NEW w \in Workers, Other(w)
  PROVE  TypeOK'
  <1>1. CASE LoadToDelete(w)
    BY <1>1, LoadType DEF LoadToDelete, Places, Goals
  <1>2. CASE Delete(w)
    BY <1>2, GiveUpType, NoRowType, NoXmlType DEF Delete, TypeOK
  <1>3. CASE LoadToIssue(w)
    BY <1>3, LoadType DEF LoadToIssue, Places, Goals
  <1>4. CASE MarkIssued(w)
    <2>1. row' \in Rows
      BY <1>4 DEF MarkIssued, TypeOK, Rows, States
    <2>2. QED
      BY <2>1, <1>4, GiveUpType DEF MarkIssued, TypeOK
  <1>5. CASE EditSeller(w)
    BY <1>5 DEF EditSeller, TypeOK, reqVars
  <1>6. CASE Vanished(w)
    BY <1>6, GiveUpType DEF Vanished, GiveUp, TypeOK, dbVars
  <1>7. CASE Crash(w)
    BY <1>7, GiveUpType DEF Crash, GiveUp, TypeOK, dbVars
  <1>8. QED
    BY <1>1, <1>2, <1>3, <1>4, <1>5, <1>6, <1>7 DEF Other

\* KSeF's own decision keeps TypeOK.
LEMMA DecideType ==
  ASSUME TypeOK, NEW s \in Sessions, Decide(s)
  PROVE  TypeOK'
  BY DEF Decide, TypeOK, dbVars, reqVars, Verdicts

\* Every step keeps TypeOK.
LEMMA TypeStep == TypeOK /\ [Next]_vars => TypeOK'
  <1> SUFFICES ASSUME TypeOK, [Next]_vars
               PROVE  TypeOK'
    OBVIOUS
  <1>1. ASSUME NEW w \in Workers, Handle(w)
        PROVE  TypeOK'
    BY <1>1, StoringType, FreezingType, SendingType, ResolvingType, OtherType DEF Handle
  <1>2. ASSUME NEW s \in Sessions, Decide(s)
        PROVE  TypeOK'
    BY <1>2, DecideType
  <1>3. CASE UNCHANGED vars
    BY <1>3 DEF vars, TypeOK
  <1>4. QED
    BY <1>1, <1>2, <1>3 DEF Next

\* Every column of the row, every session of KSeF and every request keeps the
\* values it may have, whatever requests arrive and however they overlap.
THEOREM TypeCorrect == Spec => []TypeOK
  BY InitType, TypeStep, PTL DEF Spec

-----------------------------------------------------------------------------
(* Issued once. The invariant is proved action by action, of one request   *)
(* and then of the others, which the discipline keeps out of the way.      *)

Discipline == OneAtATime \/ NothingRewritten

\* A draft stored under the number has sent nothing.
LEMMA InitIssuing == Init => IssuingInv
  <1> SUFFICES ASSUME Init PROVE IssuingInv
    OBVIOUS
  <1>1. NothingLive
    BY DEF Init, NothingLive, Live
  <1>2. row.state = "draft" /\ row.ref = 0
    BY DEF Init, NoRow, FreshRow
  <1>3. \A w \in Workers : SenderInv(w) /\ AskerInv(w) /\ RewriterInv(w)
    BY DEF Init, SenderInv, AskerInv, RewriterInv, SendingPlaces, AskingPlaces, RewritingPlaces
  <1>4. OneSender
    BY DEF Init, OneSender, SendingPlaces
  <1>5. FirstReferenceInv
    BY <1>2 DEF Init, FirstReferenceInv, SendingPlaces, AskingPlaces
  <1>6. QED
    BY InitType, <1>1, <1>2, <1>3, <1>4, <1>5
       DEF IssuingInv, IssuedOnce, ClosedWhileLive, ReferenceInv, NothingLive

\* What a step of one request leaves alone of the others.
OthersUnchanged(w) ==
  \A v \in Workers : v # w =>
    pc'[v] = pc[v] /\ mem'[v] = mem[v] /\ session'[v] = session[v]

\* What the invariant reads of the row is what it was.
RowStands ==
  /\ row'.pk = row.pk
  /\ row'.state = row.state
  /\ row'.ref = row.ref
  /\ row'.resume = row.resume

\* Every step of the requests touches one of them only.
LEMMA OneRequestSteps ==
  ASSUME TypeOK, NEW w \in Workers, Handle(w)
  PROVE  OthersUnchanged(w)
  BY DEF TypeOK, OthersUnchanged, Handle, Storing, Freezing, Sending, Resolving, Other,
         LoadToCreate, Create, CreateRefused, LoadToRewrite, Rewrite, ReplaceLines,
         Resubmit, SavedUnchanged,
         LoadToSend, LoadToRehearse, Render, RenderRefused, Freeze, Rehearse, RehearsalFails,
         ClaimForSending, ClaimLost, OpenSession, OpenFails, OpenRefused, RecordSession,
         SendInvoice, SendFails, NothingToSend, RecordReference, RecordFailure,
         LoadForStatus, Ask, AskUnanswered, Settle, LoadToDelete, Delete, LoadToIssue,
         MarkIssued, EditSeller, Vanished, Crash, GiveUp, Finish, Load, Write, Goto, reqVars

\* A step that leaves KSeF and what matters of the row alone keeps the
\* invariant when the request that takes it keeps its own part.
LEMMA LocalStep ==
  ASSUME IssuingInv, TypeOK', NEW w \in Workers, OthersUnchanged(w), RowStands, ksef' = ksef,
         (SenderInv(w) /\ AskerInv(w) /\ RewriterInv(w))',
         pc'[w] \in SendingPlaces => pc[w] \in SendingPlaces,
         NothingRewritten /\ pc'[w] \in AskingPlaces => row.ref # 0
  PROVE  IssuingInv'
  <1> USE DEF IssuingInv, TypeOK, RowStands
  <1>1. \A s \in Sessions : Live(s)' <=> Live(s)
    BY DEF Live
  <1>2. ASSUME NEW v \in Workers
        PROVE  (SenderInv(v) /\ AskerInv(v) /\ RewriterInv(v))'
    <2>1. CASE v # w
      BY <2>1, <1>1 DEF OthersUnchanged, SenderInv, AskerInv, RewriterInv, Here, NothingLive
    <2>2. QED
      BY <2>1
  <1>3. OneSender'
    BY DEF OneSender, OthersUnchanged
  <1>4. FirstReferenceInv'
    BY DEF FirstReferenceInv, OthersUnchanged
  <1>5. QED
    BY <1>1, <1>2, <1>3, <1>4 DEF IssuedOnce, ClosedWhileLive, ReferenceInv

\* A request that answers without having changed what matters of the row.
LEMMA QuietFinish ==
  ASSUME IssuingInv, TypeOK', NEW w \in Workers, Finish(w), RowStands, ksef' = ksef
  PROVE  IssuingInv'
  <1>1. pc'[w] = "idle" /\ OthersUnchanged(w)
    BY DEF Finish, Goto, IssuingInv, TypeOK, OthersUnchanged
  <1>2. (SenderInv(w) /\ AskerInv(w) /\ RewriterInv(w))'
    BY <1>1 DEF SenderInv, AskerInv, RewriterInv, SendingPlaces, AskingPlaces, RewritingPlaces
  <1>3. QED
    BY <1>1, <1>2, LocalStep DEF SendingPlaces, AskingPlaces

\* Saving a submission keeps the invariant: an editable row has nothing live.
LEMMA StoringIssuing ==
  ASSUME Discipline, IssuingInv, TypeOK', NEW w \in Workers, Storing(w)
  PROVE  IssuingInv'
  <1> USE DEF IssuingInv, TypeOK
  <1>0. OthersUnchanged(w)
    BY OneRequestSteps DEF Handle
  <1>1. CASE LoadToCreate(w)
    <2>1. pc'[w] = "create" /\ RowStands /\ ksef' = ksef /\ ~NothingRewritten
      BY <1>1 DEF LoadToCreate, Goto, dbVars, RowStands, NothingRewritten
    <2>2. (SenderInv(w) /\ AskerInv(w) /\ RewriterInv(w))'
      BY <2>1 DEF SenderInv, AskerInv, RewriterInv, SendingPlaces, AskingPlaces
    <2>3. QED
      BY <2>1, <2>2, <1>0, LocalStep DEF SendingPlaces, AskingPlaces
  <1>2. CASE Create(w)
    <2>1. PICK payload \in Payloads : Write(w, FreshRow(rows + 1, payload, NoPayload))
      BY <1>2 DEF Create
    <2>2. /\ pc'[w] = "lines"
          /\ ksef' = ksef
          /\ row'.state = "draft"
      BY <1>2, <2>1 DEF Create, Goto, Write, FreshRow
    <2>3. NothingLive
      BY <1>2 DEF Create, NothingLive, ClosedWhileLive
    <2>4. ~NothingRewritten /\ \A v \in Workers : v = w
      BY <1>2 DEF Create, Discipline, OneAtATime, RewriterInv, RewritingPlaces
    <2>5. NothingLive'
      BY <2>2, <2>3 DEF NothingLive, Live
    <2>6. \A v \in Workers : (SenderInv(v) /\ AskerInv(v) /\ RewriterInv(v))'
      BY <2>2, <2>4 DEF SenderInv, AskerInv, RewriterInv, SendingPlaces, AskingPlaces
    <2>7. QED
      BY <2>2, <2>4, <2>5, <2>6
         DEF IssuedOnce, ClosedWhileLive, OneSender, ReferenceInv, FirstReferenceInv, NothingLive
  <1>3. CASE CreateRefused(w)
    BY <1>3, QuietFinish DEF CreateRefused, GiveUp, dbVars, RowStands
  <1>4. CASE LoadToRewrite(w)
    <2>1. /\ pc'[w] = "rewrite" /\ RowStands /\ ksef' = ksef /\ ~NothingRewritten
          /\ mem'[w] = row /\ row' = row /\ row.state \in Editable
      BY <1>4 DEF LoadToRewrite, Load, MayRewrite, Goto, dbVars, RowStands, NothingRewritten
    <2>2. (SenderInv(w) /\ AskerInv(w) /\ RewriterInv(w))'
      BY <2>1 DEF SenderInv, AskerInv, RewriterInv, SendingPlaces, AskingPlaces
    <2>3. QED
      BY <2>1, <2>2, <1>0, LocalStep DEF SendingPlaces, AskingPlaces
  <1>5. CASE Rewrite(w)
    <2>1. PICK payload \in Payloads : Write(w, Rewritten(row, mem[w], payload))
      BY <1>5 DEF Rewrite
    <2>2. row.state \in Editable /\ row.state = mem[w].state /\ pc'[w] = "lines" /\ ksef' = ksef
      BY <1>5 DEF Rewrite, RewriterInv, Goto
    <2>3. row'.state = "draft"
      BY <2>1, <2>2 DEF Write, Rewritten, Rows, Editable
    <2>4. NothingLive
      BY <2>2 DEF NothingLive, ClosedWhileLive, Editable
    <2>5. ~NothingRewritten /\ \A v \in Workers : v = w
      BY <1>5 DEF Rewrite, Discipline, OneAtATime, RewriterInv, RewritingPlaces
    <2>6. NothingLive'
      BY <2>2, <2>4 DEF NothingLive, Live
    <2>7. \A v \in Workers : (SenderInv(v) /\ AskerInv(v) /\ RewriterInv(v))'
      BY <2>2, <2>3, <2>5 DEF SenderInv, AskerInv, RewriterInv, SendingPlaces, AskingPlaces
    <2>8. QED
      BY <2>2, <2>3, <2>5, <2>6, <2>7
         DEF IssuedOnce, ClosedWhileLive, OneSender, ReferenceInv, FirstReferenceInv, NothingLive
  <1>6. CASE ReplaceLines(w)
    <2>1. RowStands /\ ksef' = ksef
      BY <1>6 DEF ReplaceLines, StoredWithLines, RowStands, Rows
    <2>2. pc'[w] \in {"idle", "render"}
      BY <1>6 DEF ReplaceLines, Finish, Goto
    <2>3. (SenderInv(w) /\ AskerInv(w) /\ RewriterInv(w))'
      BY <2>2 DEF SenderInv, AskerInv, RewriterInv, SendingPlaces, AskingPlaces, RewritingPlaces
    <2>4. QED
      BY <2>1, <2>2, <2>3, <1>0, LocalStep DEF SendingPlaces, AskingPlaces
  <1>7. CASE Resubmit(w)
    <2>1. pc'[w] \in {"render", "claim", "trial"} /\ RowStands /\ ksef' = ksef
      BY <1>7 DEF Resubmit, AfterFreeze, Goto, dbVars, RowStands
    <2>2. (SenderInv(w) /\ AskerInv(w) /\ RewriterInv(w))'
      BY <2>1 DEF SenderInv, AskerInv, RewriterInv, SendingPlaces, AskingPlaces, RewritingPlaces
    <2>3. QED
      BY <2>1, <2>2, <1>0, LocalStep DEF SendingPlaces, AskingPlaces
  <1>8. CASE SavedUnchanged(w)
    BY <1>8, QuietFinish DEF SavedUnchanged, GiveUp, dbVars, RowStands
  <1>9. QED
    BY <1>1, <1>2, <1>3, <1>4, <1>5, <1>6, <1>7, <1>8 DEF Storing

\* Rendering, freezing and rehearsing touch nothing the invariant reads.
LEMMA FreezingIssuing ==
  ASSUME IssuingInv, TypeOK', NEW w \in Workers, Freezing(w)
  PROVE  IssuingInv'
  <1> USE DEF IssuingInv, TypeOK
  <1>0. OthersUnchanged(w)
    BY OneRequestSteps DEF Handle
  <1>1. RowStands /\ ksef' = ksef
    BY DEF Freezing, LoadToSend, LoadToRehearse, Render, RenderRefused, Freeze, Rehearse,
           RehearsalFails, Load, Write, GiveUp, RowStands, Rows, dbVars
  <1>2. pc'[w] \in {"idle", "render", "freeze", "claim", "trial"}
    BY DEF Freezing, LoadToSend, LoadToRehearse, Render, RenderRefused, Freeze, Rehearse,
           RehearsalFails, Load, GiveUp, Finish, Goto, AfterFreeze
  <1>3. (SenderInv(w) /\ AskerInv(w) /\ RewriterInv(w))'
    BY <1>2 DEF SenderInv, AskerInv, RewriterInv, SendingPlaces, AskingPlaces, RewritingPlaces
  <1>4. QED
    BY <1>0, <1>1, <1>2, <1>3, LocalStep DEF SendingPlaces, AskingPlaces

\* One request is past the claim and the others are neither there nor asking:
\* what lets it change the row or KSeF.
LEMMA SenderAlone ==
  ASSUME Discipline, IssuingInv, NEW w \in Workers, pc[w] \in SendingPlaces,
         NEW v \in Workers, v # w
  PROVE  pc[v] \notin SendingPlaces \cup AskingPlaces \cup RewritingPlaces
  BY DEF Discipline, OneAtATime, IssuingInv, OneSender, FirstReferenceInv, RewriterInv

\* What it takes for a step of the only sender to keep the invariant.
LEMMA SenderStep ==
  ASSUME Discipline, IssuingInv, TypeOK', NEW w \in Workers, OthersUnchanged(w),
         pc[w] \in SendingPlaces,
         (SenderInv(w) /\ AskerInv(w) /\ RewriterInv(w))',
         IssuedOnce', ClosedWhileLive', ReferenceInv',
         pc'[w] \notin AskingPlaces,
         NothingRewritten => row'.ref = 0 \/ (row'.state # "draft" /\ pc'[w] \notin SendingPlaces)
  PROVE  IssuingInv'
  <1>1. \A v \in Workers : v # w =>
          /\ pc'[v] \notin SendingPlaces \cup AskingPlaces \cup RewritingPlaces
          /\ (SenderInv(v) /\ AskerInv(v) /\ RewriterInv(v))'
    BY SenderAlone
       DEF OthersUnchanged, SenderInv, AskerInv, RewriterInv, SendingPlaces, AskingPlaces, RewritingPlaces
  <1>2. OneSender'
    BY <1>1 DEF OneSender
  <1>3. FirstReferenceInv'
    BY <1>1 DEF FirstReferenceInv
  <1>4. QED
    BY <1>1, <1>2, <1>3 DEF IssuingInv

\* Claiming is from draft, so nobody is sending and KSeF holds nothing live.
LEMMA ClaimIssuing ==
  ASSUME IssuingInv, Discipline, TypeOK', NEW w \in Workers, ClaimForSending(w)
  PROVE  IssuingInv'
  <1> USE DEF IssuingInv, TypeOK
  <1>0. OthersUnchanged(w)
    BY OneRequestSteps DEF Handle, Sending
  <1>1. /\ row.state = "draft" /\ row.pk # 0
        /\ row'.state = "sending" /\ row'.pk = row.pk /\ row'.ref = row.ref /\ row'.resume = row.resume
        /\ mem'[w] = row' /\ pc'[w] = "open" /\ ksef' = ksef
    BY DEF ClaimForSending, MayClaim, Here, Write, Goto, Rows
  <1>2. NothingLive
    BY <1>1 DEF NothingLive, ClosedWhileLive
  <1>3. NothingLive'
    BY <1>1, <1>2 DEF NothingLive, Live
  <1>4. \A v \in Workers : pc[v] \notin SendingPlaces
    BY <1>1 DEF SenderInv
  <1>5. (SenderInv(w) /\ AskerInv(w) /\ RewriterInv(w))'
    BY <1>1, <1>3 DEF SenderInv, AskerInv, RewriterInv, AskingPlaces, RewritingPlaces, Here
  <1>6. \A v \in Workers : v # w => pc[v] \notin AskingPlaces \cup RewritingPlaces
    BY <1>1 DEF Discipline, OneAtATime, FirstReferenceInv, RewriterInv
  <1>7. ASSUME NEW v \in Workers, v # w
        PROVE  (SenderInv(v) /\ AskerInv(v) /\ RewriterInv(v))'
    BY <1>0, <1>4, <1>6, <1>7
       DEF OthersUnchanged, SenderInv, AskerInv, RewriterInv, SendingPlaces, AskingPlaces, RewritingPlaces
  <1>8. OneSender'
    BY <1>0, <1>4 DEF OneSender, OthersUnchanged
  <1>9. FirstReferenceInv'
    <2>1. ASSUME NothingRewritten, NEW v \in Workers, pc'[v] \in AskingPlaces
          PROVE  row'.ref # 0
      BY <2>1, <1>0, <1>1, <1>6 DEF OthersUnchanged, AskingPlaces
    <2>2. QED
      BY <2>1, <1>1 DEF FirstReferenceInv
  <1>10. QED
    BY <1>1, <1>3, <1>5, <1>7, <1>8, <1>9
       DEF IssuedOnce, ClosedWhileLive, ReferenceInv, NothingLive

\* A send keeps the invariant: past the claim it is the only one, and what it
\* submits is the only thing KSeF may hold.
LEMMA SendingIssuing ==
  ASSUME Discipline, IssuingInv, TypeOK', NEW w \in Workers, Sending(w)
  PROVE  IssuingInv'
  <1> USE DEF IssuingInv, TypeOK
  <1>0. OthersUnchanged(w)
    BY OneRequestSteps DEF Handle
  <1>1. CASE ClaimForSending(w)
    BY <1>1, ClaimIssuing
  <1>2. CASE ClaimLost(w) \/ OpenRefused(w) \/ NothingToSend(w)
    BY <1>2, QuietFinish DEF ClaimLost, OpenRefused, NothingToSend, GiveUp, dbVars, RowStands
  <1>3. CASE OpenSession(w)
    <2>1. PICK s \in Sessions : /\ ksef' = [ksef EXCEPT ![s].verdict = "open"]
                                /\ session' = [session EXCEPT ![w] = s]
      BY <1>3 DEF OpenSession
    <2>2. NothingLive /\ row' = row /\ mem' = mem /\ pc[w] = "open" /\ pc'[w] = "record"
      BY <1>3 DEF OpenSession, SenderInv, Goto, dbVars
    <2>3. NothingLive'
      BY <2>1, <2>2 DEF NothingLive, Live
    <2>4. (SenderInv(w) /\ AskerInv(w) /\ RewriterInv(w))'
      BY <2>1, <2>2, <2>3
         DEF SenderInv, AskerInv, RewriterInv, SendingPlaces, AskingPlaces, RewritingPlaces, Here
    <2>5. NothingRewritten => row'.ref = 0
      BY <2>2 DEF FirstReferenceInv, SendingPlaces
    <2>6. QED
      BY <1>0, <2>2, <2>3, <2>4, <2>5, SenderStep
         DEF IssuedOnce, ClosedWhileLive, ReferenceInv, NothingLive, SendingPlaces, AskingPlaces
  <1>4. CASE OpenFails(w) \/ SendFails(w)
    <2>1. /\ NothingLive /\ RowStands /\ row' = row /\ ksef' = ksef /\ mem' = mem
          /\ pc[w] \in SendingPlaces /\ pc'[w] = "fail"
      BY <1>4 DEF OpenFails, SendFails, SenderInv, Goto, dbVars, RowStands, SendingPlaces
    <2>2. NothingLive'
      BY <2>1 DEF NothingLive, Live
    <2>3. (SenderInv(w) /\ AskerInv(w) /\ RewriterInv(w))'
      BY <2>1, <2>2
         DEF SenderInv, AskerInv, RewriterInv, SendingPlaces, AskingPlaces, RewritingPlaces, Here
    <2>4. QED
      BY <1>0, <2>1, <2>3, LocalStep DEF AskingPlaces
  <1>5. CASE RecordSession(w)
    <2>1. /\ pc[w] = "record" /\ pc'[w] = "submit" /\ ksef' = ksef /\ session' = session
          /\ NothingLive /\ Here(w) /\ row.state = "sending"
      BY <1>5 DEF RecordSession, Goto, SenderInv, SendingPlaces
    <2>2. /\ row'.state = row.state /\ row'.pk = row.pk /\ row'.ref = row.ref
          /\ row'.resume = session[w] /\ row'.sess = session[w] /\ mem'[w] = row'
      BY <1>5 DEF RecordSession, Write, Rows
    <2>3. NothingLive'
      BY <2>1 DEF NothingLive, Live
    <2>4. (SenderInv(w) /\ AskerInv(w) /\ RewriterInv(w))'
      BY <2>1, <2>2, <2>3
         DEF SenderInv, AskerInv, RewriterInv, SendingPlaces, AskingPlaces, RewritingPlaces, Here
    <2>5. NothingRewritten => row'.ref = 0
      BY <2>1, <2>2 DEF FirstReferenceInv, SendingPlaces
    <2>6. QED
      BY <1>0, <2>1, <2>3, <2>4, <2>5, SenderStep
         DEF IssuedOnce, ClosedWhileLive, ReferenceInv, NothingLive, SendingPlaces, AskingPlaces
  <1>6. CASE SendInvoice(w)
    <2>1. /\ pc[w] = "submit" /\ pc'[w] \in {"reference", "fail"}
          /\ row' = row /\ mem' = mem /\ session' = session
          /\ NothingLive /\ Here(w) /\ row.state = "sending"
          /\ session[w] \in Sessions /\ mem[w].sess = session[w] /\ row.resume = session[w]
      BY <1>6 DEF SendInvoice, Goto, SenderInv, SendingPlaces, dbVars
    <2>2. ksef' = [ksef EXCEPT ![session[w]] = [xml |-> mem[w].xml, verdict |-> "processing"]]
      BY <1>6 DEF SendInvoice
    <2>3. \A s \in Sessions : Live(s)' => s = session[w]
      BY <2>1, <2>2 DEF NothingLive, Live
    <2>4. (SenderInv(w) /\ AskerInv(w) /\ RewriterInv(w))'
      BY <2>1, <2>3, BoundsAssumption
         DEF SenderInv, AskerInv, RewriterInv, SendingPlaces, AskingPlaces, RewritingPlaces, Here, Sessions
    <2>5. NothingRewritten => row'.ref = 0
      BY <2>1 DEF FirstReferenceInv, SendingPlaces
    <2>6. IssuedOnce' /\ ClosedWhileLive' /\ ReferenceInv'
      BY <2>1, <2>3 DEF IssuedOnce, ClosedWhileLive, ReferenceInv, Here
    <2>7. QED
      BY <1>0, <2>1, <2>4, <2>5, <2>6, SenderStep DEF SendingPlaces, AskingPlaces
  <1>7. CASE RecordReference(w)
    <2>1. /\ pc[w] = "reference" /\ pc'[w] = "idle" /\ ksef' = ksef
          /\ Here(w) /\ row.state = "sending"
          /\ \A s \in Sessions : Live(s) => s = session[w]
      BY <1>7 DEF RecordReference, Finish, Goto, SenderInv, SendingPlaces
    <2>2. row'.state = row.state /\ row'.pk = row.pk /\ row'.ref = session[w]
      BY <1>7 DEF RecordReference, Rows
    <2>3. \A s \in Sessions : Live(s)' <=> Live(s)
      BY <2>1 DEF Live
    <2>4. (SenderInv(w) /\ AskerInv(w) /\ RewriterInv(w))'
      BY <2>1 DEF SenderInv, AskerInv, RewriterInv, SendingPlaces, AskingPlaces, RewritingPlaces
    <2>5. IssuedOnce' /\ ClosedWhileLive' /\ ReferenceInv'
      BY <2>1, <2>2, <2>3 DEF IssuedOnce, ClosedWhileLive, ReferenceInv
    <2>6. QED
      BY <1>0, <2>1, <2>2, <2>4, <2>5, SenderStep DEF SendingPlaces, AskingPlaces
  <1>8. CASE RecordFailure(w)
    <2>1. /\ pc[w] = "fail" /\ pc'[w] = "idle" /\ ksef' = ksef /\ Finish(w)
          /\ Here(w) /\ row.state = "sending"
      BY <1>8 DEF RecordFailure, Finish, Goto, SenderInv, SendingPlaces
    <2>2. CASE row' = row
      BY <2>1, <2>2, QuietFinish DEF RowStands
    <2>3. CASE row' # row
      <3>1. mem[w].sess = 0 /\ row'.state = "draft" /\ row'.ref = row.ref
        BY <1>8, <2>3 DEF RecordFailure, NeverReachedKsef, Rows
      <3>2. NothingLive
        BY <3>1, <2>1 DEF SenderInv
      <3>3. NothingLive'
        BY <3>2, <2>1 DEF NothingLive, Live
      <3>4. (SenderInv(w) /\ AskerInv(w) /\ RewriterInv(w))'
        BY <2>1 DEF SenderInv, AskerInv, RewriterInv, SendingPlaces, AskingPlaces, RewritingPlaces
      <3>5. NothingRewritten => row'.ref = 0
        BY <2>1, <3>1 DEF FirstReferenceInv, SendingPlaces
      <3>6. QED
        BY <1>0, <2>1, <3>1, <3>3, <3>4, <3>5, SenderStep
           DEF IssuedOnce, ClosedWhileLive, ReferenceInv, NothingLive, SendingPlaces, AskingPlaces
    <2>4. QED
      BY <2>2, <2>3
  <1>9. QED
    BY <1>1, <1>2, <1>3, <1>4, <1>5, <1>6, <1>7, <1>8 DEF Sending

\* A poll settles the row on the session it asked about, which is the only one
\* KSeF may hold anything in.
LEMMA ResolvingIssuing ==
  ASSUME Discipline, IssuingInv, TypeOK', NEW w \in Workers, Resolving(w)
  PROVE  IssuingInv'
  <1> USE DEF IssuingInv, TypeOK
  <1>0. OthersUnchanged(w)
    BY OneRequestSteps DEF Handle
  <1>1. CASE LoadForStatus(w)
    <2>1. /\ pc'[w] = "ask" /\ row' = row /\ ksef' = ksef /\ mem'[w] = row
          /\ row.ref # 0 /\ RowStands
      BY <1>1 DEF LoadForStatus, Resolvable, Load, Goto, dbVars, RowStands
    <2>2. (SenderInv(w) /\ AskerInv(w) /\ RewriterInv(w))'
      BY <2>1, BoundsAssumption
         DEF SenderInv, AskerInv, RewriterInv, SendingPlaces, RewritingPlaces, Rows, Sessions
    <2>3. QED
      BY <1>0, <2>1, <2>2, LocalStep DEF SendingPlaces
  <1>2. CASE Ask(w)
    <2>1. /\ pc[w] = "ask" /\ pc'[w] = "settle" /\ row' = row /\ ksef' = ksef /\ mem' = mem
          /\ RowStands /\ mem[w].ref = mem[w].resume
          /\ ksef[mem[w].ref].verdict \in Decided
      BY <1>2 DEF Ask, Answered, Goto, dbVars, RowStands
    <2>2. mem[w].ref \in Sessions
      BY <2>1 DEF AskerInv, AskingPlaces
    <2>3. (SenderInv(w) /\ AskerInv(w) /\ RewriterInv(w))'
      BY <2>1, <2>2 DEF SenderInv, AskerInv, RewriterInv, SendingPlaces, AskingPlaces, RewritingPlaces, Here
    <2>4. QED
      BY <1>0, <2>1, <2>3, LocalStep DEF SendingPlaces, AskingPlaces, FirstReferenceInv
  <1>3. CASE AskUnanswered(w)
    BY <1>3, QuietFinish DEF AskUnanswered, GiveUp, dbVars, RowStands
  <1>4. CASE Settle(w)
    <2>1. /\ pc[w] = "settle" /\ pc'[w] = "idle" /\ ksef' = ksef /\ Finish(w) /\ Here(w)
          /\ mem[w].ref \in Sessions /\ mem[w].ref = mem[w].resume
          /\ ksef[mem[w].ref].verdict \in Decided
      BY <1>4 DEF Settle, Finish, Goto, AskerInv, AskingPlaces
    <2>2. CASE ~MaySettle(row)
      BY <1>4, <2>1, <2>2, QuietFinish DEF Settle, RowStands
    <2>3. CASE MaySettle(row)
      <3>1. /\ row.state = "sending" /\ row.ref = mem[w].ref /\ row.resume = mem[w].ref
            /\ mem[w].ref # 0
        BY <2>1, <2>3, BoundsAssumption DEF MaySettle, AskerInv, AskingPlaces, Sessions
      <3>2. \A s \in Sessions : Live(s) => s = mem[w].ref
        BY <3>1 DEF ReferenceInv
      <3>3. /\ row' = SettledBy(row, mem[w].ref)
            /\ row'.pk = row.pk /\ row'.ref = row.ref /\ row'.resume = row.resume
            /\ row'.state \in {"accepted", "rejected"}
            /\ row'.state = "rejected" => ksef[mem[w].ref].verdict = "rejected"
        BY <1>4, <2>3 DEF Settle, SettledBy, Rows
      <3>4. \A s \in Sessions : Live(s)' <=> Live(s)
        BY <2>1 DEF Live
      <3>5. row'.state = "rejected" => NothingLive
        BY <3>2, <3>3 DEF NothingLive, Live
      <3>6. \A v \in Workers : v # w => pc[v] \notin SendingPlaces /\ pc[v] \notin RewritingPlaces
        BY <2>1, SenderAlone DEF Discipline, OneAtATime, RewriterInv, AskingPlaces
      <3>7. ASSUME NEW v \in Workers
            PROVE  (SenderInv(v) /\ AskerInv(v) /\ RewriterInv(v))'
        <4>1. CASE v = w
          BY <4>1, <2>1 DEF SenderInv, AskerInv, RewriterInv, SendingPlaces, AskingPlaces, RewritingPlaces
        <4>2. CASE v # w
          BY <4>2, <1>0, <2>1, <3>3, <3>6
             DEF OthersUnchanged, SenderInv, AskerInv, RewriterInv, SendingPlaces, AskingPlaces, RewritingPlaces
        <4>3. QED
          BY <4>1, <4>2
      <3>8. OneSender' /\ FirstReferenceInv'
        BY <1>0, <2>1, <3>3 DEF OneSender, FirstReferenceInv, OthersUnchanged, SendingPlaces, AskingPlaces
      <3>9. IssuedOnce' /\ ReferenceInv'
        BY <3>3, <3>4 DEF IssuedOnce, ReferenceInv
      <3>10. ClosedWhileLive'
        BY <2>1, <3>3, <3>4, <3>5 DEF ClosedWhileLive, NothingLive, Here
      <3>11. QED
        BY <3>7, <3>8, <3>9, <3>10
    <2>4. QED
      BY <2>2, <2>3
  <1>5. QED
    BY <1>1, <1>2, <1>3, <1>4 DEF Resolving

\* Deleting and issuing by hand need an editable row, which has nothing live.
LEMMA OtherIssuing ==
  ASSUME Discipline, IssuingInv, TypeOK', NEW w \in Workers, Other(w)
  PROVE  IssuingInv'
  <1> USE DEF IssuingInv, TypeOK
  <1>0. OthersUnchanged(w)
    BY OneRequestSteps DEF Handle
  <1>1. CASE LoadToDelete(w) \/ LoadToIssue(w)
    <2>1. /\ pc'[w] \in {"delete", "issue"} /\ row' = row /\ ksef' = ksef
          /\ RowStands /\ ~NothingRewritten
          /\ pc'[w] = "delete" => row.state \in Editable
          /\ pc'[w] = "issue" => row.state = "draft"
      BY <1>1 DEF LoadToDelete, LoadToIssue, MayRewrite, MayIssue, Load, Goto, dbVars, RowStands,
                  NothingRewritten
    <2>2. (SenderInv(w) /\ AskerInv(w) /\ RewriterInv(w))'
      BY <2>1 DEF SenderInv, AskerInv, RewriterInv, SendingPlaces, AskingPlaces
    <2>3. QED
      BY <1>0, <2>1, <2>2, LocalStep DEF SendingPlaces, AskingPlaces
  <1>2. CASE Delete(w) \/ MarkIssued(w)
    <2>1. /\ pc[w] \in {"delete", "issue"} /\ pc'[w] = "idle" /\ ksef' = ksef /\ Here(w)
          /\ row.state \in Editable
      BY <1>2 DEF Delete, MarkIssued, Finish, Goto, RewriterInv, Editable
    <2>2. NothingLive
      BY <2>1 DEF NothingLive, ClosedWhileLive, Editable
    <2>3. NothingLive'
      BY <2>1, <2>2 DEF NothingLive, Live
    <2>4. ~NothingRewritten /\ \A v \in Workers : v = w
      BY <2>1 DEF Discipline, OneAtATime, RewriterInv, RewritingPlaces
    <2>5. \A v \in Workers : (SenderInv(v) /\ AskerInv(v) /\ RewriterInv(v))'
      BY <2>1, <2>4 DEF SenderInv, AskerInv, RewriterInv, SendingPlaces, AskingPlaces, RewritingPlaces
    <2>6. row'.state # "sending"
      BY <1>2 DEF Delete, MarkIssued, NoRow, FreshRow, Rows
    <2>7. QED
      BY <2>3, <2>4, <2>5, <2>6
         DEF IssuedOnce, ClosedWhileLive, OneSender, ReferenceInv, FirstReferenceInv, NothingLive
  <1>3. CASE EditSeller(w)
    <2>1. row' = row /\ ksef' = ksef /\ pc' = pc /\ mem' = mem /\ session' = session
      BY <1>3 DEF EditSeller, reqVars
    <2>2. \A s \in Sessions : Live(s)' <=> Live(s)
      BY <2>1 DEF Live
    <2>3. ASSUME NEW v \in Workers
          PROVE  (SenderInv(v) /\ AskerInv(v) /\ RewriterInv(v))'
      BY <2>1, <2>2 DEF SenderInv, AskerInv, RewriterInv, Here, NothingLive
    <2>4. QED
      BY <2>1, <2>2, <2>3
         DEF IssuedOnce, ClosedWhileLive, OneSender, ReferenceInv, FirstReferenceInv
  <1>4. CASE Vanished(w) \/ Crash(w)
    BY <1>4, QuietFinish DEF Vanished, Crash, GiveUp, dbVars, RowStands
  <1>5. QED
    BY <1>1, <1>2, <1>3, <1>4 DEF Other

\* KSeF's decision makes nothing live that was not.
LEMMA DecideIssuing ==
  ASSUME IssuingInv, TypeOK', NEW s \in Sessions, Decide(s)
  PROVE  IssuingInv'
  <1> USE DEF IssuingInv, TypeOK
  <1>1. PICK verdict \in Decided : ksef' = [ksef EXCEPT ![s].verdict = verdict]
    BY DEF Decide, Decided
  <1>2. ksef[s].verdict = "processing"
    BY DEF Decide
  <1>3. row' = row /\ pc' = pc /\ mem' = mem /\ session' = session
    BY DEF Decide, dbVars, reqVars
  <1>4. \A t \in Sessions : Live(t)' => Live(t)
    BY <1>1, <1>2 DEF Live
  <1>5. \A t \in Sessions : /\ ksef[t].verdict = "open" => ksef'[t].verdict = "open"
                            /\ ksef[t].verdict \in Decided => ksef'[t].verdict \in Decided
    BY <1>1, <1>2 DEF Decided
  <1>6. ASSUME NEW v \in Workers
        PROVE  (SenderInv(v) /\ AskerInv(v) /\ RewriterInv(v))'
    <2>1. SenderInv(v)'
      BY <1>3, <1>4, <1>5 DEF SenderInv, Here, NothingLive
    <2>2. RewriterInv(v)'
      BY <1>3 DEF RewriterInv, Here
    <2>3. AskerInv(v)'
      BY <1>3, <1>5 DEF AskerInv, Here, AskingPlaces
    <2>4. QED
      BY <2>1, <2>2, <2>3
  <1>7. QED
    BY <1>3, <1>4, <1>6 DEF IssuedOnce, ClosedWhileLive, OneSender, ReferenceInv, FirstReferenceInv

\* Under either discipline every step keeps the invariant.
LEMMA IssuingStep == Discipline /\ IssuingInv /\ [Next]_vars => IssuingInv'
  <1> SUFFICES ASSUME Discipline, IssuingInv, [Next]_vars
               PROVE  IssuingInv'
    OBVIOUS
  <1>1. TypeOK'
    BY TypeStep DEF IssuingInv
  <1>2. ASSUME NEW w \in Workers, Handle(w)
        PROVE  IssuingInv'
    BY <1>1, <1>2, StoringIssuing, FreezingIssuing, SendingIssuing, ResolvingIssuing, OtherIssuing
       DEF Handle
  <1>3. ASSUME NEW s \in Sessions, Decide(s)
        PROVE  IssuingInv'
    BY <1>1, <1>3, DecideIssuing
  <1>4. CASE UNCHANGED vars
    <2>1. \A s \in Sessions : Live(s)' <=> Live(s)
      BY <1>4 DEF vars, Live
    <2>2. ASSUME NEW v \in Workers
          PROVE  (SenderInv(v) /\ AskerInv(v) /\ RewriterInv(v))'
      BY <1>4, <2>1 DEF vars, IssuingInv, SenderInv, AskerInv, RewriterInv, Here, NothingLive
    <2>3. QED
      BY <1>1, <1>4, <2>1, <2>2
         DEF vars, IssuingInv, IssuedOnce, ClosedWhileLive, OneSender, ReferenceInv, FirstReferenceInv
  <1>5. QED
    BY <1>2, <1>3, <1>4 DEF Next

\* For any number of requests, any crashes and any answers of KSeF: as long as
\* either one request is served at a time, or none of those that overlap
\* rewrites the invoice, KSeF issues it at most once.
THEOREM IssuedAtMostOnce == Discipline => (Spec => []IssuedOnce)
  <1>1. IssuingInv => IssuedOnce
    BY DEF IssuingInv
  <1>2. ASSUME Discipline PROVE Spec => []IssuedOnce
    <2>1. IssuingInv /\ [Next]_vars => IssuingInv'
      BY <1>2, IssuingStep
    <2>2. QED
      BY <1>1, <2>1, InitIssuing, PTL DEF Spec
  <1>3. QED
    BY <1>2

\* Under the same discipline an invoice that KSeF holds, or may come to hold,
\* is neither open to its owner nor gone.
THEOREM NeverOpenWhileLive == Discipline => (Spec => []ClosedWhileLive)
  <1>1. IssuingInv => ClosedWhileLive
    BY DEF IssuingInv
  <1>2. ASSUME Discipline PROVE Spec => []ClosedWhileLive
    <2>1. IssuingInv /\ [Next]_vars => IssuingInv'
      BY <1>2, IssuingStep
    <2>2. QED
      BY <1>1, <2>1, InitIssuing, PTL DEF Spec
  <1>3. QED
    BY <1>2
=============================================================================
