------------------------ MODULE FilingGatewayProofs ------------------------
(* What holds of FilingGateway for every set of requests, and whatever the   *)
(* bounds on files, sessions and days are.                                   *)
EXTENDS FilingGateway, TLAPS

-----------------------------------------------------------------------------
(* Where references come from: true however requests overlap.              *)

\* The session has been opened with the gateway, for this file.
OpenedFor(g, s, f) == g[s].verdict # "unused" /\ g[s].file = f

\* What a row, or a request's copy of it, says of the gateway is so.
Truthful(g, r, f) ==
  /\ r.ref # 0 => OpenedFor(g, r.ref, f)
  /\ r.upo # 0 => OpenedFor(g, r.upo, f) /\ g[r.upo].verdict = "accepted"

RowTruthful(f) ==
  /\ filings[f].state # "gone" => filings[f].file = f
  /\ Truthful(gateway, filings[f], f)

RequestTruthful(w) ==
  /\ Truthful(gateway, mem[w], File(w))
  /\ session[w] # 0 => OpenedFor(gateway, session[w], File(w))
  /\ pc[w] = "idle" => session[w] = 0
  /\ pc[w] \in {"ask", "settle"} => mem[w].ref # 0
  /\ pc[w] = "settle" => Answered(mem[w].ref)

ReferenceInv ==
  /\ \A f \in Files : RowTruthful(f)
  /\ \A w \in Workers : RequestTruthful(w)

-----------------------------------------------------------------------------
(* One submission of each file: what keeps it so.                          *)

OneRequest == \A v, w \in Workers : v = w

\* Requests that do not overlap, or that only produce and send.
InTurn == OneRequest \/ Ops \subseteq {"produce", "send"}

\* A date is cleared by hand neither off a file that is with the tax office nor
\* off one corrected since.
WithTheOffice(f) == \E s \in Sessions : Live(s) /\ gateway[s].file = f

CorrectedSince(f) ==
  \E g \in Files : f < g /\ filings[g].state # "gone" /\ filings[g].purpose = "correction"

NoFilingUndone ==
  \A w \in Workers : Unrecord(w) /\ Row(w).state = "filed" =>
    ~WithTheOffice(File(w)) /\ ~CorrectedSince(File(w))

SendingPlaces == {"open", "release", "reference", "upload", "finish", "unresolved"}

\* A request past the claim has the row in flight to itself, under no session
\* or under the one it opened, and nothing it has not finished is with the
\* tax office.
SenderInv(w) ==
  pc[w] \in SendingPlaces =>
    /\ File(w) \in Files
    /\ Row(w).state = "sending"
    /\ Row(w).sent = mem[w].sent
    /\ pc[w] \in {"open", "release", "reference"} => Row(w).ref = 0
    /\ pc[w] \in {"reference", "upload", "finish", "unresolved"} =>
         session[w] # 0 /\ gateway[session[w]].sent = Row(w).sent
    /\ pc[w] \in {"upload", "finish", "unresolved"} => Row(w).ref = session[w]

\* A request that asks, records or discards is the only one, and has a copy
\* of the row as it stands.
CopyIsTheRow(w) == OneRequest /\ File(w) \in Files /\ mem[w] = Row(w)

CopyInv(w) ==
  /\ pc[w] \in {"ask", "settle"} => CopyIsTheRow(w)
  /\ pc[w] = "record" => CopyIsTheRow(w) /\ MayRecord(Row(w))
  /\ pc[w] = "delete" => CopyIsTheRow(w) /\ MayDiscard(Row(w))
  /\ pc[w] = "unrecord" => "unrecord" \in Ops /\ CopyIsTheRow(w) /\ MayRecord(Row(w))

\* A correction being produced has a filed file before it.
ProducerInv(w) ==
  pc[w] = "produce" /\ mem[w].purpose = "correction" =>
    \E g \in Files : g <= produced /\ filings[g].state = "filed"

RequestInv(w) == SenderInv(w) /\ CopyInv(w) /\ ProducerInv(w)

OneSender ==
  \A v, w \in Workers :
    pc[v] \in SendingPlaces /\ pc[w] \in SendingPlaces /\ File(v) = File(w) => v = w

\* What the tax office has, or may come to, is the submission the row names.
HeldInv ==
  \A s \in Sessions : Live(s) =>
    LET f == gateway[s].file IN
      f \in Files /\ filings[f].state \in {"sending", "filed"} /\ filings[f].ref = s

\* The days and the purpose on a row.
RowInv(f) ==
  /\ filings[f].state # "gone" => f <= produced
  /\ filings[f].state = "sending" /\ filings[f].ref # 0 =>
       gateway[filings[f].ref].sent = filings[f].sent
  /\ filings[f].upo # 0 => gateway[filings[f].upo].sent = filings[f].filedOn
  /\ filings[f].state # "gone" /\ filings[f].purpose = "correction" =>
       \E g \in Files : g < f /\ filings[g].state = "filed"

FilingInv ==
  /\ \A w \in Workers : RequestInv(w)
  /\ OneSender
  /\ HeldInv
  /\ \A f \in Files : RowInv(f)

-----------------------------------------------------------------------------
(* Types.                                                                  *)

\* A row that is not there, or has just been produced, has the types of its
\* columns.
LEMMA NewRowType ==
  ASSUME NEW file \in 0..MaxFiles, NEW state \in States,
         NEW purpose \in {"first", "correction"}, NEW made \in 0..MaxDay
  PROVE  NewRow(file, state, purpose, made) \in Rows
  BY BoundsAssumption DEF NewRow, Rows

\* So has the copy a request about no file has.
LEMMA NoRowType == NoRow \in Rows
  BY NewRowType, BoundsAssumption DEF NoRow, States

\* The program starts in a state of the right types.
LEMMA InitType == Init => TypeOK
  BY NoRowType, BoundsAssumption DEF Init, TypeOK, Verdicts, Places

\* A request that answers, or dies, without writing anything keeps TypeOK.
LEMMA GiveUpType ==
  ASSUME TypeOK, NEW w \in Workers, GiveUp(w)
  PROVE  TypeOK'
  BY NoRowType, BoundsAssumption DEF GiveUp, Finish, Goto, TypeOK, dbVars, Places

\* Loading a row gives a request a copy of the right type.
LEMMA LoadType ==
  ASSUME TypeOK, NEW w \in Workers, NEW op, NEW f \in Files, NEW place \in Places,
         Load(w, op, f, place)
  PROVE  TypeOK'
  BY DEF Load, Goto, TypeOK, dbVars

\* Updating a row that is there, and refreshing the copy, keeps both typed.
LEMMA WriteType ==
  ASSUME TypeOK, NEW w \in Workers, NEW updated \in Rows, NEW place \in Places,
         Write(w, updated), Goto(w, place),
         UNCHANGED <<produced, day, gateway, session>>
  PROVE  TypeOK'
  BY DEF Write, Goto, TypeOK

\* The last statement of a request keeps TypeOK, if what it writes is a row.
LEMMA ConcludeType ==
  ASSUME TypeOK, NEW w \in Workers, NEW updated \in Rows, Conclude(w, updated)
  PROVE  TypeOK'
  <1>1. filings' \in [Files -> Rows]
    BY DEF Conclude, TypeOK
  <1>2. /\ mem' \in [Workers -> Rows]
        /\ pc' \in [Workers -> Places]
        /\ session' \in [Workers -> 0..MaxSessions]
    BY NoRowType, BoundsAssumption DEF Conclude, Finish, Goto, TypeOK, Places
  <1>3. QED
    BY <1>1, <1>2 DEF Conclude, TypeOK

\* A request that is about a row that is there is about one of the files.
LEMMA HereIsAFile ==
  ASSUME TypeOK, NEW w \in Workers, Here(w)
  PROVE  File(w) \in Files /\ Row(w) \in Rows
  <1>1. mem[w].file \in 0..MaxFiles
    BY DEF TypeOK, Rows
  <1>2. File(w) \in Files
    BY <1>1, BoundsAssumption DEF Here, File, Files
  <1>3. QED
    BY <1>2 DEF TypeOK, Row

\* A row that is claimed, released, given a reference, or filed or unfiled by
\* hand keeps the types of its columns.
LEMMA UpdatedRowType ==
  ASSUME NEW r \in Rows, NEW date \in 0..MaxDay, NEW s \in 0..MaxSessions
  PROVE  /\ day \in 0..MaxDay => Claimed(r) \in Rows
         /\ Released(r) \in Rows
         /\ Referenced(r, s) \in Rows
         /\ RecordedOn(r, date) \in Rows
         /\ Unrecorded(r) \in Rows
  <1>0. /\ 0 \in 0..MaxDay /\ 0 \in 0..MaxSessions
        /\ {"produced", "sending", "filed"} \subseteq States
    BY BoundsAssumption DEF States
  <1>1. day \in 0..MaxDay => Claimed(r) \in Rows
    BY <1>0 DEF Claimed, Rows
  <1>2. Released(r) \in Rows
    BY <1>0 DEF Released, Rows
  <1>3. Referenced(r, s) \in Rows
    BY DEF Referenced, Rows
  <1>4. RecordedOn(r, date) \in Rows
    BY <1>0 DEF RecordedOn, Rows
  <1>5. Unrecorded(r) \in Rows
    BY <1>0 DEF Unrecorded, Rows
  <1>6. QED
    BY <1>1, <1>2, <1>3, <1>4, <1>5

\* A session that moves on to another verdict is still a session.
LEMMA MovedType ==
  ASSUME TypeOK, NEW s, NEW verdict \in Verdicts,
         gateway' = [gateway EXCEPT ![s].verdict = verdict]
  PROVE  gateway' \in [Sessions -> [file : 0..MaxFiles, verdict : Verdicts, sent : 0..MaxDay]]
  <1>1. CASE s \in Sessions
    BY <1>1 DEF TypeOK
  <1>2. CASE s \notin Sessions
    BY <1>2 DEF TypeOK
  <1>3. QED
    BY <1>1, <1>2

\* Producing a file keeps TypeOK.
LEMMA ProducingType ==
  ASSUME TypeOK, NEW w \in Workers, Producing(w)
  PROVE  TypeOK'
  <1>1. CASE Produce(w)
    <2>1. NewRow(0, "gone", IF Superseding THEN "correction" ELSE "first", day) \in Rows
      BY NewRowType, BoundsAssumption DEF TypeOK, States
    <2>2. QED
      BY <1>1, <2>1 DEF Produce, Goto, TypeOK, dbVars, Places
  <1>2. CASE Store(w)
    <2>1. produced + 1 \in 0..MaxFiles /\ produced + 1 \in Files
      BY <1>2, BoundsAssumption DEF Store, TypeOK, Files
    <2>2. mem[w].purpose \in {"first", "correction"} /\ mem[w].made \in 0..MaxDay
      BY DEF TypeOK, Rows
    <2>3. "produced" \in States
      BY DEF States
    <2>4. NewRow(produced + 1, "produced", mem[w].purpose, mem[w].made) \in Rows
      BY <2>1, <2>2, <2>3, NewRowType
    <2>5. filings' \in [Files -> Rows]
      BY <1>2, <2>4 DEF Store, TypeOK
    <2>6. /\ mem' \in [Workers -> Rows]
          /\ pc' \in [Workers -> Places]
          /\ session' \in [Workers -> 0..MaxSessions]
      BY <1>2, NoRowType, BoundsAssumption DEF Store, Finish, Goto, TypeOK, Places
    <2>7. QED
      BY <1>2, <2>1, <2>5, <2>6 DEF Store, TypeOK
  <1>3. CASE StoreRefused(w)
    BY <1>3, GiveUpType DEF StoreRefused
  <1>4. QED
    BY <1>1, <1>2, <1>3 DEF Producing

\* Sending a file keeps TypeOK.
LEMMA SendingType ==
  ASSUME TypeOK, NEW w \in Workers, Sending(w)
  PROVE  TypeOK'
  <1>1. CASE LoadToSend(w)
    BY <1>1, LoadType DEF LoadToSend, Places
  <1>2. CASE SendRefused(w) \/ ClaimLost(w) \/ ReferenceMissing(w)
    BY <1>2, GiveUpType DEF SendRefused, ClaimLost, ReferenceMissing
  <1>3. CASE ClaimForSending(w)
    <2>1. Claimed(Row(w)) \in Rows
      BY <1>3, HereIsAFile, UpdatedRowType, BoundsAssumption DEF ClaimForSending, TypeOK
    <2>2. QED
      BY <1>3, <2>1, WriteType DEF ClaimForSending, Places
  <1>4. CASE OpenSession(w)
    <2>1. PICK s \in Sessions :
            /\ gateway' = [gateway EXCEPT ![s] =
                             [file |-> File(w), verdict |-> "open", sent |-> mem[w].sent]]
            /\ \/ session' = [session EXCEPT ![w] = s] /\ Goto(w, "reference")
               \/ Goto(w, "release") /\ UNCHANGED session
      BY <1>4 DEF OpenSession
    <2>2. [file |-> File(w), verdict |-> "open", sent |-> mem[w].sent]
            \in [file : 0..MaxFiles, verdict : Verdicts, sent : 0..MaxDay]
      BY DEF TypeOK, File, Rows, Verdicts
    <2>3. s \in 0..MaxSessions
      BY BoundsAssumption DEF Sessions
    <2>4. pc' \in [Workers -> Places] /\ session' \in [Workers -> 0..MaxSessions]
      BY <2>1, <2>3 DEF Goto, TypeOK, Places
    <2>5. QED
      BY <1>4, <2>1, <2>2, <2>4 DEF OpenSession, TypeOK, dbVars
  <1>5. CASE OpenFails(w) \/ TransferFails(w)
    BY <1>5 DEF OpenFails, TransferFails, Goto, TypeOK, dbVars, Places
  <1>6. CASE ReleaseClaim(w)
    <2>1. Released(Row(w)) \in Rows /\ Row(w) \in Rows
      BY <1>6, HereIsAFile, UpdatedRowType, BoundsAssumption DEF ReleaseClaim
    <2>2. QED
      BY <1>6, <2>1, ConcludeType DEF ReleaseClaim
  <1>7. CASE RecordReference(w)
    <2>1. session[w] \in 0..MaxSessions /\ 0 \in 0..MaxDay
      BY BoundsAssumption DEF TypeOK
    <2>2. Row(w) \in Rows
      BY <1>7, HereIsAFile DEF RecordReference
    <2>3. Referenced(Row(w), session[w]) \in Rows
      BY <2>1, <2>2, UpdatedRowType
    <2>4. QED
      BY <1>7, <2>3, WriteType DEF RecordReference, Places
  <1>8. CASE Upload(w)
    <2>1. "stored" \in Verdicts /\ gateway' = [gateway EXCEPT ![session[w]].verdict = "stored"]
      BY <1>8 DEF Upload, Verdicts
    <2>2. pc' \in [Workers -> Places]
      BY <1>8 DEF Upload, Goto, TypeOK, Places
    <2>3. QED
      BY <1>8, <2>1, <2>2, MovedType DEF Upload, TypeOK, dbVars
  <1>9. CASE FinishUpload(w)
    <2>1. mem' \in [Workers -> Rows] /\ pc' \in [Workers -> Places]
          /\ session' \in [Workers -> 0..MaxSessions]
      BY <1>9, NoRowType, BoundsAssumption DEF FinishUpload, Finish, Goto, TypeOK, Places
    <2>2. "processing" \in Verdicts
          /\ gateway' = [gateway EXCEPT ![session[w]].verdict = "processing"]
      BY <1>9 DEF FinishUpload, Verdicts
    <2>3. QED
      BY <1>9, <2>1, <2>2, MovedType DEF FinishUpload, TypeOK, dbVars
  <1>10. CASE RecordUnresolvedFailure(w)
    <2>1. AfterFailure(Row(w)) \in Rows /\ Row(w) \in Rows
      BY <1>10, HereIsAFile DEF RecordUnresolvedFailure, AfterFailure
    <2>2. QED
      BY <1>10, <2>1, ConcludeType DEF RecordUnresolvedFailure
  <1>11. QED
    BY <1>1, <1>2, <1>3, <1>4, <1>5, <1>6, <1>7, <1>8, <1>9, <1>10 DEF Sending

\* Writing the gateway's verdict on a row keeps the types of its columns.
LEMMA SettledByType ==
  ASSUME NEW r \in Rows, NEW copy \in Rows
  PROVE  SettledBy(r, copy) \in Rows
  BY DEF SettledBy, FiledOn, Rows, States

\* Asking the gateway keeps TypeOK.
LEMMA ResolvingType ==
  ASSUME TypeOK, NEW w \in Workers, Resolving(w)
  PROVE  TypeOK'
  <1>1. CASE LoadForStatus(w)
    BY <1>1, LoadType DEF LoadForStatus, Places
  <1>2. CASE Ask(w)
    BY <1>2 DEF Ask, Goto, TypeOK, dbVars, Places
  <1>3. CASE AskUnanswered(w)
    BY <1>3, GiveUpType DEF AskUnanswered
  <1>4. CASE Settle(w)
    <2>1. SettledBy(Row(w), mem[w]) \in Rows /\ Row(w) \in Rows
      BY <1>4, HereIsAFile, SettledByType DEF Settle, TypeOK
    <2>2. QED
      BY <1>4, <2>1, ConcludeType DEF Settle
  <1>5. QED
    BY <1>1, <1>2, <1>3, <1>4 DEF Resolving

\* Recording a filing by hand, and discarding a file, keep TypeOK.
LEMMA RecordingType ==
  ASSUME TypeOK, NEW w \in Workers, Recording(w)
  PROVE  TypeOK'
  <1>1. CASE LoadToRecord(w)
    BY <1>1, LoadType DEF LoadToRecord, Places
  <1>2. CASE Record(w)
    <2>1. PICK filedOn \in Row(w).made..day :
            Conclude(w, RecordedOn(Row(w), filedOn))
      BY <1>2 DEF Record
    <2>2. Row(w) \in Rows
      BY <1>2, HereIsAFile DEF Record
    <2>3. filedOn \in 0..MaxDay
      BY <2>2, BoundsAssumption DEF Rows, TypeOK
    <2>4. RecordedOn(Row(w), filedOn) \in Rows
      BY <2>2, <2>3, UpdatedRowType, BoundsAssumption
    <2>5. QED
      BY <2>1, <2>4, ConcludeType
  <1>3. CASE Unrecord(w)
    <2>1. Unrecorded(Row(w)) \in Rows
      BY <1>3, HereIsAFile, UpdatedRowType, BoundsAssumption DEF Unrecord
    <2>2. QED
      BY <1>3, <2>1, ConcludeType DEF Unrecord
  <1>4. CASE LoadToDelete(w)
    BY <1>4, LoadType DEF LoadToDelete, Places
  <1>5. CASE Delete(w)
    BY <1>5, ConcludeType, NoRowType DEF Delete
  <1>6. QED
    BY <1>1, <1>2, <1>3, <1>4, <1>5 DEF Recording

\* Every step of the program keeps TypeOK.
LEMMA TypeStep == TypeOK /\ [Next]_vars => TypeOK'
  <1> SUFFICES ASSUME TypeOK, [Next]_vars
               PROVE  TypeOK'
    OBVIOUS
  <1>1. ASSUME NEW w \in Workers, Handle(w)
        PROVE  TypeOK'
    BY <1>1, ProducingType, SendingType, ResolvingType, RecordingType, GiveUpType
       DEF Handle, Vanished, Crash
  <1>2. ASSUME NEW s \in Sessions, Processing(s)
        PROVE  TypeOK'
    BY <1>2 DEF Processing, Decide, Abandon, TypeOK, dbVars, reqVars, Verdicts
  <1>3. CASE NextDay
    BY <1>3, BoundsAssumption DEF NextDay, TypeOK, dbVars, reqVars
  <1>4. CASE UNCHANGED vars
    BY <1>4 DEF vars, TypeOK
  <1>5. QED
    BY <1>1, <1>2, <1>3, <1>4 DEF Next

\* The rows, the gateway's sessions and the requests always have the values
\* their columns and places allow, whatever requests overlap.
THEOREM TypeCorrect == Spec => []TypeOK
  BY InitType, TypeStep, PTL DEF Spec

-----------------------------------------------------------------------------
(* The gateway only goes forward, and what was said of it stays so.        *)

\* A session that was opened stays that of its file and day, and a verdict once
\* given stays.
Onward ==
  \A s \in Sessions : gateway[s].verdict # "unused" =>
    /\ gateway'[s].file = gateway[s].file
    /\ gateway'[s].sent = gateway[s].sent
    /\ gateway'[s].verdict # "unused"
    /\ gateway[s].verdict \in {"accepted", "rejected"} =>
         gateway'[s].verdict = gateway[s].verdict

\* Moving a session that has no verdict to another one goes forward.
LEMMA MovesOnward ==
  ASSUME TypeOK, NEW s, NEW verdict \in Verdicts \ {"unused"},
         gateway[s].verdict \in {"open", "stored", "processing"},
         gateway' = [gateway EXCEPT ![s].verdict = verdict]
  PROVE  Onward
  BY DEF Onward, TypeOK

\* A request's step leaves the gateway as it was or goes forward.
LEMMA RequestOnward ==
  ASSUME TypeOK, NEW w \in Workers, Handle(w)
  PROVE  Onward
  <1>1. CASE OpenSession(w)
    <2>1. PICK s \in Sessions :
            /\ \A t \in Sessions : gateway[t].verdict = "unused" <=> t >= s
            /\ gateway' = [gateway EXCEPT ![s] =
                             [file |-> File(w), verdict |-> "open", sent |-> mem[w].sent]]
      BY <1>1 DEF OpenSession
    <2>2. gateway[s].verdict = "unused"
      BY <2>1 DEF Sessions
    <2>3. QED
      BY <2>1, <2>2 DEF Onward, TypeOK
  <1>2. CASE Upload(w)
    BY <1>2, MovesOnward DEF Upload, Verdicts
  <1>3. CASE FinishUpload(w)
    BY <1>3, MovesOnward DEF FinishUpload, Verdicts
  <1>4. CASE gateway' = gateway
    BY <1>4 DEF Onward
  <1>5. CASE Producing(w) \/ Resolving(w) \/ Recording(w) \/ Vanished(w) \/ Crash(w)
    BY <1>5, <1>4
       DEF Producing, Produce, Store, StoreRefused, Resolving, LoadForStatus, Ask,
           AskUnanswered, Settle, Recording, LoadToRecord, Record, Unrecord,
           LoadToDelete, Delete, Vanished, Crash, Load, Conclude, GiveUp
  <1>6. CASE Sending(w)
    BY <1>6, <1>1, <1>2, <1>3, <1>4
       DEF Sending, LoadToSend, SendRefused, ClaimForSending, ClaimLost, OpenFails,
           ReleaseClaim, RecordReference, ReferenceMissing, TransferFails,
           RecordUnresolvedFailure, Load, Conclude, GiveUp
  <1>7. QED
    BY <1>5, <1>6 DEF Handle

\* So does the gateway's own.
LEMMA ProcessingOnward ==
  ASSUME TypeOK, NEW s \in Sessions, Processing(s)
  PROVE  Onward
  <1>1. CASE Decide(s)
    BY <1>1, MovesOnward DEF Decide, Verdicts
  <1>2. CASE Abandon(s)
    BY <1>2, MovesOnward DEF Abandon, Verdicts
  <1>3. QED
    BY <1>1, <1>2 DEF Processing

\* What a row or a copy says of the gateway stays true of it.
LEMMA TruthfulStays ==
  ASSUME TypeOK, Onward, NEW r \in Rows, NEW f, Truthful(gateway, r, f)
  PROVE  Truthful(gateway', r, f)
  <1>1. (r.ref # 0 => r.ref \in Sessions) /\ (r.upo # 0 => r.upo \in Sessions)
    BY BoundsAssumption DEF Rows, Sessions
  <1>2. QED
    BY <1>1 DEF Truthful, OpenedFor, Onward

\* So does what a request that takes no step knows.
LEMMA RequestTruthfulStays ==
  ASSUME TypeOK, Onward, NEW v \in Workers, RequestTruthful(v),
         pc'[v] = pc[v], mem'[v] = mem[v], session'[v] = session[v]
  PROVE  RequestTruthful(v)'
  <1>1. mem[v] \in Rows
    BY DEF TypeOK
  <1>2. Truthful(gateway', mem'[v], File(v)')
    BY <1>1, TruthfulStays DEF RequestTruthful, File
  <1>3. /\ session[v] # 0 => session[v] \in Sessions
        /\ mem[v].ref # 0 => mem[v].ref \in Sessions
    BY <1>1, BoundsAssumption DEF TypeOK, Rows, Sessions
  <1>4. session'[v] # 0 => OpenedFor(gateway', session'[v], File(v)')
    BY <1>3 DEF RequestTruthful, OpenedFor, Onward, File
  <1>5. /\ pc'[v] \in {"ask", "settle"} => mem'[v].ref # 0
        /\ pc'[v] = "settle" => Answered(mem[v].ref)'
    BY <1>3 DEF RequestTruthful, Answered, Onward
  <1>6. QED
    BY <1>2, <1>4, <1>5 DEF RequestTruthful, Answered

\* Nothing of another request changes.
OthersUnchanged(w) ==
  \A v \in Workers \ {w} : pc'[v] = pc[v] /\ mem'[v] = mem[v] /\ session'[v] = session[v]

\* A request's step keeps ReferenceInv if what it writes is true, of the rows
\* and of itself.
LEMMA ReferenceStep ==
  ASSUME TypeOK, ReferenceInv, Onward, NEW w \in Workers, OthersUnchanged(w),
         \A f \in Files : filings'[f] = filings[f] \/ RowTruthful(f)',
         RequestTruthful(w)'
  PROVE  ReferenceInv'
  <1>1. ASSUME NEW f \in Files
        PROVE  RowTruthful(f)'
    <2>1. filings[f] \in Rows
      BY DEF TypeOK
    <2>2. QED
      BY <2>1, TruthfulStays DEF ReferenceInv, RowTruthful
  <1>2. ASSUME NEW v \in Workers
        PROVE  RequestTruthful(v)'
    BY RequestTruthfulStays DEF ReferenceInv, OthersUnchanged
  <1>3. QED
    BY <1>1, <1>2 DEF ReferenceInv

\* A request that has ended knows nothing that could be false.
LEMMA FinishReference ==
  ASSUME TypeOK, NEW w \in Workers, Finish(w)
  PROVE  OthersUnchanged(w) /\ RequestTruthful(w)'
  BY DEF TypeOK, Finish, Goto, OthersUnchanged, RequestTruthful, Truthful, NoRow, NewRow

\* Ending without writing anything keeps ReferenceInv.
LEMMA GiveUpReference ==
  ASSUME TypeOK, ReferenceInv, NEW w \in Workers, GiveUp(w)
  PROVE  ReferenceInv'
  <1>1. OthersUnchanged(w) /\ RequestTruthful(w)'
    BY FinishReference DEF GiveUp
  <1>2. filings' = filings /\ Onward
    BY DEF GiveUp, dbVars, Onward
  <1>3. QED
    BY <1>1, <1>2, ReferenceStep

\* So does ending with a row written, if what is written is true.
LEMMA ConcludeReference ==
  ASSUME TypeOK, ReferenceInv, NEW w \in Workers, NEW updated, Conclude(w, updated),
         updated.state # "gone" => updated.file = File(w),
         Truthful(gateway, updated, File(w))
  PROVE  ReferenceInv'
  <1>1. OthersUnchanged(w) /\ RequestTruthful(w)'
    BY FinishReference DEF Conclude
  <1>2. gateway' = gateway /\ Onward
    BY DEF Conclude, Onward
  <1>3. \A f \in Files : filings'[f] = filings[f] \/ RowTruthful(f)'
    BY <1>2 DEF Conclude, TypeOK, RowTruthful
  <1>4. QED
    BY <1>1, <1>2, <1>3, ReferenceStep

\* Loading a row keeps ReferenceInv: the copy says what the row says.
LEMMA LoadReference ==
  ASSUME TypeOK, ReferenceInv, NEW w \in Workers, NEW op, NEW f \in Files, NEW place \in Places,
         Load(w, op, f, place), place \notin {"idle", "settle"},
         place = "ask" => Resolvable(filings[f])
  PROVE  ReferenceInv'
  <1>1. OthersUnchanged(w) /\ filings' = filings /\ gateway' = gateway /\ Onward
    BY DEF Load, Goto, TypeOK, OthersUnchanged, dbVars, Onward
  <1>2. mem'[w] = filings[f] /\ pc'[w] = place /\ session'[w] = session[w]
    BY DEF Load, Goto, TypeOK
  <1>3. File(w)' = f /\ Truthful(gateway', mem'[w], f)
    BY <1>1, <1>2 DEF Load, File, ReferenceInv, RowTruthful
  <1>4. session[w] = 0
    BY DEF Load, ReferenceInv, RequestTruthful
  <1>5. RequestTruthful(w)'
    BY <1>2, <1>3, <1>4 DEF RequestTruthful, Resolvable
  <1>6. QED
    BY <1>1, <1>5, ReferenceStep
\* A step that only moves the request on, to anywhere but a verdict or the end,
\* keeps ReferenceInv.
LEMMA MoveReference ==
  ASSUME TypeOK, ReferenceInv, NEW w \in Workers, NEW place \in Places \ {"idle", "ask", "settle"},
         Onward, Goto(w, place), UNCHANGED <<filings, mem, session>>
  PROVE  ReferenceInv'
  <1>1. OthersUnchanged(w)
    BY DEF Goto, TypeOK, OthersUnchanged
  <1>2. mem[w] \in Rows /\ (session[w] # 0 => session[w] \in Sessions)
    BY BoundsAssumption DEF TypeOK, Sessions
  <1>3. Truthful(gateway, mem[w], File(w))
        /\ (session[w] # 0 => OpenedFor(gateway, session[w], File(w)))
    BY DEF ReferenceInv, RequestTruthful
  <1>4. Truthful(gateway', mem[w], File(w))
    BY <1>2, <1>3, TruthfulStays
  <1>5. session[w] # 0 => OpenedFor(gateway', session[w], File(w))
    BY <1>2, <1>3 DEF OpenedFor, Onward
  <1>6. pc'[w] = place
    BY DEF Goto, TypeOK
  <1>7. RequestTruthful(w)'
    BY <1>4, <1>5, <1>6 DEF RequestTruthful, File
  <1>8. QED
    BY <1>1, <1>7, ReferenceStep

\* Updating a row that is there with what is true keeps ReferenceInv.
LEMMA WriteReference ==
  ASSUME TypeOK, ReferenceInv, NEW w \in Workers, NEW place \in Places \ {"idle", "ask", "settle"},
         NEW updated, Write(w, updated), Goto(w, place), UNCHANGED <<gateway, session>>,
         updated.file = File(w), Truthful(gateway, updated, File(w))
  PROVE  ReferenceInv'
  <1>1. OthersUnchanged(w) /\ Onward
    BY DEF Write, Goto, TypeOK, OthersUnchanged, Onward
  <1>2. mem'[w] = updated /\ pc'[w] = place /\ session'[w] = session[w]
    BY DEF Write, Goto, TypeOK
  <1>3. File(w)' = File(w) /\ RequestTruthful(w)'
    BY <1>2 DEF ReferenceInv, RequestTruthful, File
  <1>4. \A f \in Files : filings'[f] = filings[f] \/ RowTruthful(f)'
    BY DEF Write, TypeOK, RowTruthful
  <1>5. QED
    BY <1>1, <1>3, <1>4, ReferenceStep

\* The row a request is about names itself, and what it says is true.
LEMMA RowHere ==
  ASSUME TypeOK, ReferenceInv, NEW w \in Workers, Here(w)
  PROVE  /\ File(w) \in Files
         /\ Row(w) \in Rows
         /\ Row(w).file = File(w)
         /\ Truthful(gateway, Row(w), File(w))
  BY HereIsAFile DEF ReferenceInv, RowTruthful, Here, Row

\* Producing a file keeps ReferenceInv.
LEMMA ProducingReference ==
  ASSUME TypeOK, ReferenceInv, NEW w \in Workers, Producing(w)
  PROVE  ReferenceInv'
  <1>1. CASE Produce(w)
    <2>1. OthersUnchanged(w) /\ filings' = filings /\ Onward
      BY <1>1 DEF Produce, Goto, TypeOK, OthersUnchanged, dbVars, Onward
    <2>2. session[w] = 0
      BY <1>1 DEF Produce, ReferenceInv, RequestTruthful
    <2>3. /\ mem'[w].ref = 0 /\ mem'[w].upo = 0
          /\ pc'[w] = "produce" /\ session'[w] = 0
      BY <1>1, <2>2 DEF Produce, Goto, TypeOK, NewRow
    <2>4. RequestTruthful(w)'
      BY <2>3 DEF RequestTruthful, Truthful
    <2>5. QED
      BY <2>1, <2>4, ReferenceStep
  <1>2. CASE Store(w)
    <2>1. OthersUnchanged(w) /\ RequestTruthful(w)'
      BY <1>2, FinishReference DEF Store
    <2>2. Onward
      BY <1>2 DEF Store, Onward
    <2> DEFINE pk == produced + 1
               row == NewRow(pk, "produced", mem[w].purpose, mem[w].made)
    <2>3. filings' = [filings EXCEPT ![pk] = row]
      BY <1>2 DEF Store
    <2>4. row.file = pk /\ Truthful(gateway', row, pk)
      BY DEF NewRow, Truthful
    <2> HIDE DEF pk, row
    <2>5. \A f \in Files : filings'[f] = filings[f] \/ (f = pk /\ filings'[f] = row)
      BY <2>3 DEF TypeOK
    <2>6. ASSUME NEW f \in Files, filings'[f] # filings[f]
          PROVE  RowTruthful(f)'
      BY <2>4, <2>5, <2>6 DEF RowTruthful
    <2>7. QED
      BY <2>1, <2>2, <2>6, ReferenceStep
  <1>3. CASE StoreRefused(w)
    BY <1>3, GiveUpReference DEF StoreRefused
  <1>4. QED
    BY <1>1, <1>2, <1>3 DEF Producing

\* Sending a file keeps ReferenceInv: a session is recorded on the row it was
\* opened for.
LEMMA SendingReference ==
  ASSUME TypeOK, ReferenceInv, NEW w \in Workers, Sending(w)
  PROVE  ReferenceInv'
  <1>0. Onward
    BY RequestOnward DEF Handle
  <1>1. CASE LoadToSend(w)
    BY <1>1, LoadReference DEF LoadToSend, Places
  <1>2. CASE SendRefused(w) \/ ClaimLost(w) \/ ReferenceMissing(w)
    BY <1>2, GiveUpReference DEF SendRefused, ClaimLost, ReferenceMissing
  <1>3. CASE ClaimForSending(w)
    <2>1. Row(w) \in Rows /\ Row(w).file = File(w) /\ Truthful(gateway, Row(w), File(w))
      BY <1>3, RowHere DEF ClaimForSending
    <2>2. Claimed(Row(w)).file = File(w) /\ Truthful(gateway, Claimed(Row(w)), File(w))
      BY <2>1 DEF Claimed, Truthful, Rows
    <2>3. QED
      BY <1>3, <2>2, WriteReference DEF ClaimForSending, Places
  <1>4. CASE OpenSession(w)
    <2>1. PICK s \in Sessions :
            /\ gateway' = [gateway EXCEPT ![s] =
                             [file |-> File(w), verdict |-> "open", sent |-> mem[w].sent]]
            /\ \/ session' = [session EXCEPT ![w] = s] /\ Goto(w, "reference")
               \/ Goto(w, "release") /\ UNCHANGED session
      BY <1>4 DEF OpenSession
    <2>2. CASE session' = [session EXCEPT ![w] = s] /\ Goto(w, "reference")
      <3>1. OthersUnchanged(w) /\ filings' = filings /\ mem' = mem
        BY <1>4, <2>2 DEF OpenSession, Goto, TypeOK, OthersUnchanged, dbVars
      <3>2. session'[w] = s /\ pc'[w] = "reference"
        BY <2>2 DEF Goto, TypeOK
      <3>3. OpenedFor(gateway', s, File(w))
        BY <2>1 DEF OpenedFor, TypeOK
      <3>4. Truthful(gateway', mem[w], File(w))
        BY <1>0, TruthfulStays DEF TypeOK, ReferenceInv, RequestTruthful
      <3>5. RequestTruthful(w)'
        BY <3>1, <3>2, <3>3, <3>4 DEF RequestTruthful, File
      <3>6. QED
        BY <1>0, <3>1, <3>5, ReferenceStep
    <2>3. CASE Goto(w, "release") /\ UNCHANGED session
      BY <1>0, <1>4, <2>3, MoveReference DEF OpenSession, dbVars, Places
    <2>4. QED
      BY <2>1, <2>2, <2>3
  <1>5. CASE OpenFails(w) \/ TransferFails(w)
    BY <1>0, <1>5, MoveReference DEF OpenFails, TransferFails, dbVars, Places
  <1>6. CASE ReleaseClaim(w)
    <2>1. Row(w) \in Rows /\ Row(w).file = File(w) /\ Truthful(gateway, Row(w), File(w))
      BY <1>6, RowHere DEF ReleaseClaim
    <2>2. Released(Row(w)).file = File(w) /\ Truthful(gateway, Released(Row(w)), File(w))
      BY <2>1 DEF Released, Truthful, Rows
    <2>3. QED
      BY <1>6, <2>1, <2>2, ConcludeReference DEF ReleaseClaim
  <1>7. CASE RecordReference(w)
    <2>1. Row(w) \in Rows /\ Row(w).file = File(w) /\ Truthful(gateway, Row(w), File(w))
      BY <1>7, RowHere DEF RecordReference
    <2>2. session[w] # 0 => OpenedFor(gateway, session[w], File(w))
      BY DEF ReferenceInv, RequestTruthful
    <2>3. /\ Referenced(Row(w), session[w]).file = File(w)
          /\ Truthful(gateway, Referenced(Row(w), session[w]), File(w))
      BY <2>1, <2>2 DEF Referenced, Truthful, Rows
    <2>4. QED
      BY <1>7, <2>3, WriteReference DEF RecordReference, Places
  <1>8. CASE Upload(w)
    BY <1>0, <1>8, MoveReference DEF Upload, dbVars, Places
  <1>9. CASE FinishUpload(w)
    <2>1. CASE Finish(w)
      <3>1. OthersUnchanged(w) /\ RequestTruthful(w)' /\ filings' = filings
        BY <1>9, <2>1, FinishReference DEF FinishUpload, dbVars
      <3>2. QED
        BY <1>0, <3>1, ReferenceStep
    <2>2. CASE ~Finish(w)
      BY <1>0, <1>9, <2>2, MoveReference DEF FinishUpload, dbVars, Places
    <2>3. QED
      BY <2>1, <2>2
  <1>10. CASE RecordUnresolvedFailure(w)
    BY <1>10, RowHere, ConcludeReference DEF RecordUnresolvedFailure, AfterFailure
  <1>11. QED
    BY <1>1, <1>2, <1>3, <1>4, <1>5, <1>6, <1>7, <1>8, <1>9, <1>10 DEF Sending

\* Asking the gateway keeps ReferenceInv: the receipt written is that of the
\* session that was asked about, which was accepted.
LEMMA ResolvingReference ==
  ASSUME TypeOK, ReferenceInv, NEW w \in Workers, Resolving(w)
  PROVE  ReferenceInv'
  <1>1. CASE LoadForStatus(w)
    BY <1>1, LoadReference DEF LoadForStatus, Places
  <1>2. CASE Ask(w)
    <2>1. OthersUnchanged(w) /\ filings' = filings /\ Onward
      BY <1>2 DEF Ask, Goto, TypeOK, OthersUnchanged, dbVars, Onward
    <2>2. mem[w].ref # 0
      BY <1>2 DEF Ask, ReferenceInv, RequestTruthful
    <2>3. RequestTruthful(w)'
      BY <1>2, <2>2 DEF Ask, Goto, TypeOK, ReferenceInv, RequestTruthful, File, Answered
    <2>4. QED
      BY <2>1, <2>3, ReferenceStep
  <1>3. CASE AskUnanswered(w)
    BY <1>3, GiveUpReference DEF AskUnanswered
  <1>4. CASE Settle(w)
    <2>1. Row(w) \in Rows /\ Row(w).file = File(w) /\ Truthful(gateway, Row(w), File(w))
      BY <1>4, RowHere DEF Settle
    <2>2. mem[w] \in Rows /\ mem[w].ref # 0 /\ Truthful(gateway, mem[w], File(w))
      BY <1>4 DEF Settle, TypeOK, ReferenceInv, RequestTruthful
    <2>3. /\ SettledBy(Row(w), mem[w]).file = File(w)
          /\ Truthful(gateway, SettledBy(Row(w), mem[w]), File(w))
      <3> DEFINE r == Row(w)
      <3>1. ASSUME NEW copy \in Rows, NEW row \in Rows, row.file = File(w),
                   Truthful(gateway, row, File(w)),
                   copy.ref # 0, Truthful(gateway, copy, File(w))
            PROVE  /\ SettledBy(row, copy).file = File(w)
                   /\ Truthful(gateway, SettledBy(row, copy), File(w))
        BY <3>1 DEF SettledBy, Truthful, Rows
      <3>2. QED
        BY <2>1, <2>2, <3>1
    <2>4. QED
      BY <1>4, <2>1, <2>3, ConcludeReference DEF Settle
  <1>5. QED
    BY <1>1, <1>2, <1>3, <1>4 DEF Resolving

\* Recording by hand, and discarding, keep ReferenceInv: they take the receipt
\* of a session off the row.
LEMMA RecordingReference ==
  ASSUME TypeOK, ReferenceInv, NEW w \in Workers, Recording(w)
  PROVE  ReferenceInv'
  <1>1. CASE LoadToRecord(w)
    BY <1>1, LoadReference DEF LoadToRecord, Places
  <1>2. CASE Record(w)
    <2>1. PICK filedOn \in Row(w).made..day : Conclude(w, RecordedOn(Row(w), filedOn))
      BY <1>2 DEF Record
    <2>2. Row(w) \in Rows /\ Row(w).file = File(w) /\ Truthful(gateway, Row(w), File(w))
      BY <1>2, RowHere DEF Record
    <2>3. /\ RecordedOn(Row(w), filedOn).file = File(w)
          /\ Truthful(gateway, RecordedOn(Row(w), filedOn), File(w))
      BY <2>2 DEF RecordedOn, Truthful, Rows
    <2>4. QED
      BY <2>1, <2>3, ConcludeReference
  <1>3. CASE Unrecord(w)
    <2>1. Row(w) \in Rows /\ Row(w).file = File(w) /\ Truthful(gateway, Row(w), File(w))
      BY <1>3, RowHere DEF Unrecord
    <2>2. /\ Unrecorded(Row(w)).file = File(w)
          /\ Truthful(gateway, Unrecorded(Row(w)), File(w))
      BY <2>1 DEF Unrecorded, Truthful, Rows
    <2>3. QED
      BY <1>3, <2>2, ConcludeReference DEF Unrecord
  <1>4. CASE LoadToDelete(w)
    BY <1>4, LoadReference DEF LoadToDelete, Places
  <1>5. CASE Delete(w)
    BY <1>5, ConcludeReference DEF Delete, NoRow, NewRow, Truthful
  <1>6. QED
    BY <1>1, <1>2, <1>3, <1>4, <1>5 DEF Recording

\* ReferenceInv holds of the program's first state.
LEMMA InitReference == Init => ReferenceInv
  BY DEF Init, ReferenceInv, RowTruthful, RequestTruthful, Truthful, NoRow, NewRow

\* Every step of the program keeps ReferenceInv.
LEMMA ReferenceInvStep == TypeOK /\ ReferenceInv /\ [Next]_vars => ReferenceInv'
  <1> SUFFICES ASSUME TypeOK, ReferenceInv, [Next]_vars
               PROVE  ReferenceInv'
    OBVIOUS
  <1>1. ASSUME NEW w \in Workers, Handle(w)
        PROVE  ReferenceInv'
    BY <1>1, ProducingReference, SendingReference, ResolvingReference, RecordingReference,
       GiveUpReference DEF Handle, Vanished, Crash
  <1>2. ASSUME Onward, UNCHANGED <<filings, pc, mem, session>>
        PROVE  ReferenceInv'
    <2>1. ASSUME NEW f \in Files
          PROVE  RowTruthful(f)'
      BY <1>2, TruthfulStays DEF ReferenceInv, RowTruthful, TypeOK
    <2>2. ASSUME NEW v \in Workers
          PROVE  RequestTruthful(v)'
      BY <1>2, RequestTruthfulStays DEF ReferenceInv
    <2>3. QED
      BY <2>1, <2>2 DEF ReferenceInv
  <1>3. ASSUME NEW s \in Sessions, Processing(s)
        PROVE  ReferenceInv'
    BY <1>2, <1>3, ProcessingOnward DEF Processing, Decide, Abandon, dbVars, reqVars
  <1>4. CASE NextDay
    BY <1>2, <1>4 DEF NextDay, Onward, dbVars, reqVars
  <1>5. CASE UNCHANGED vars
    BY <1>2, <1>5 DEF vars, Onward
  <1>6. QED
    BY <1>1, <1>3, <1>4, <1>5 DEF Next

\* Whatever requests overlap, and whatever the owner records meanwhile, a receipt
\* on a row is that of a submission of that very file which the gateway accepted.
THEOREM ReceiptAlwaysAccepted == Spec => []ReceiptIsAccepted
  <1>1. ReferenceInv => ReceiptIsAccepted
    BY DEF ReferenceInv, RowTruthful, Truthful, OpenedFor, ReceiptIsAccepted
  <1>2. QED
    BY <1>1, InitReference, ReferenceInvStep, TypeCorrect, PTL DEF Spec

-----------------------------------------------------------------------------
(* One submission of each file, step by step.                              *)

\* A filed row stays filed, and no file is taken back from the year.
FiledStays ==
  \A f \in Files : /\ f <= produced => f <= produced'
                   /\ filings[f].state = "filed" => filings'[f].state = "filed"

\* What the tax office has of a file is what this row says it has.
HeldBy(r, f) ==
  \A s \in Sessions : Live(s) /\ gateway[s].file = f =>
    r.state \in {"sending", "filed"} /\ r.ref = s

\* The days on a row are those of the sessions it names.
DatesOf(g, r) ==
  /\ r.state = "sending" /\ r.ref # 0 => g[r.ref].sent = r.sent
  /\ r.upo # 0 => g[r.upo].sent = r.filedOn

\* A request that takes no step, and whose row nobody touches, keeps its part of
\* the invariant.
LEMMA RequestStays ==
  ASSUME TypeOK, ReferenceInv, Onward, FiledStays, NEW v \in Workers, RequestInv(v),
         pc'[v] = pc[v], mem'[v] = mem[v], session'[v] = session[v],
         File(v) \in Files /\ pc[v] \notin {"idle", "produce", "claim"} =>
           filings'[File(v)] = filings[File(v)]
  PROVE  RequestInv(v)'
  <1>1. File(v)' = File(v)
    BY DEF File
  <1>2. SenderInv(v)'
    <2>1. session[v] # 0 => session[v] \in Sessions /\ OpenedFor(gateway, session[v], File(v))
      BY BoundsAssumption DEF TypeOK, Sessions, ReferenceInv, RequestTruthful
    <2>2. session[v] # 0 => gateway'[session[v]].sent = gateway[session[v]].sent
      BY <2>1 DEF OpenedFor, Onward
    <2>3. pc[v] \in SendingPlaces => pc[v] \notin {"idle", "produce", "claim"}
      BY DEF SendingPlaces
    <2>4. QED
      BY <1>1, <2>2, <2>3 DEF RequestInv, SenderInv, Row
  <1>3. CopyInv(v)'
    BY <1>1 DEF RequestInv, CopyInv, CopyIsTheRow, Row, MayRecord, MayDiscard
  <1>4. ProducerInv(v)'
    BY DEF RequestInv, ProducerInv, FiledStays
  <1>5. QED
    BY <1>2, <1>3, <1>4 DEF RequestInv

\* The days on a row stay those of its sessions while the gateway goes forward.
LEMMA DatesStay ==
  ASSUME TypeOK, Onward, NEW r \in Rows, NEW f, Truthful(gateway, r, f), DatesOf(gateway, r)
  PROVE  DatesOf(gateway', r)
  <1>1. (r.ref # 0 => r.ref \in Sessions) /\ (r.upo # 0 => r.upo \in Sessions)
    BY BoundsAssumption DEF Rows, Sessions
  <1>2. QED
    BY <1>1 DEF Truthful, OpenedFor, Onward, DatesOf

\* A step that writes no row keeps the invariant, if it keeps what the gateway
\* has in step with the rows, and the request's own part.
LEMMA QuietStep ==
  ASSUME TypeOK, ReferenceInv, FilingInv, Onward, NEW w \in Workers, OthersUnchanged(w),
         filings' = filings, produced' = produced, HeldInv', RequestInv(w)',
         pc'[w] \in SendingPlaces => pc[w] \in SendingPlaces /\ mem'[w] = mem[w]
  PROVE  FilingInv'
  <1>1. FiledStays
    BY DEF FiledStays, TypeOK
  <1>2. ASSUME NEW v \in Workers
        PROVE  RequestInv(v)'
    BY <1>1, RequestStays DEF OthersUnchanged, FilingInv
  <1>3. OneSender'
    BY DEF FilingInv, OneSender, OthersUnchanged, File
  <1>4. ASSUME NEW f \in Files
        PROVE  RowInv(f)'
    <2>1. filings[f] \in Rows /\ Truthful(gateway, filings[f], f)
      BY DEF TypeOK, ReferenceInv, RowTruthful
    <2>2. DatesOf(gateway, filings[f])
      BY DEF FilingInv, RowInv, DatesOf
    <2>3. DatesOf(gateway', filings[f])
      BY <2>1, <2>2, DatesStay
    <2>4. QED
      BY <2>3 DEF FilingInv, RowInv, DatesOf
  <1>5. QED
    BY <1>2, <1>3, <1>4 DEF FilingInv

\* A step that writes the row the request is about keeps the invariant, if the
\* row as written says what the tax office has of the file, a filed row stays
\* filed, and no other request is sending the file.
LEMMA RowStep ==
  ASSUME TypeOK, ReferenceInv, FilingInv, NEW w \in Workers, OthersUnchanged(w), Here(w),
         NEW updated, filings' = [filings EXCEPT ![File(w)] = updated],
         gateway' = gateway, produced' = produced,
         HeldBy(updated, File(w)), DatesOf(gateway, updated),
         updated.purpose = Row(w).purpose \/ updated.state = "gone",
         Row(w).state = "filed" => updated.state = "filed",
         \A v \in Workers \ {w} : pc[v] \in SendingPlaces => File(v) # File(w),
         pc'[w] \in SendingPlaces => File(w)' = File(w),
         RequestInv(w)'
  PROVE  FilingInv'
  <1>1. File(w) \in Files
    BY HereIsAFile
  <1>2. filings'[File(w)] = updated /\ \A f \in Files : f # File(w) => filings'[f] = filings[f]
    BY <1>1 DEF TypeOK
  <1>3. FiledStays /\ Onward
    BY <1>2 DEF FiledStays, TypeOK, Row, Onward
  <1>4. ASSUME NEW v \in Workers, v # w
        PROVE  RequestInv(v)'
    <2>1. pc'[v] = pc[v] /\ mem'[v] = mem[v] /\ session'[v] = session[v]
      BY <1>4 DEF OthersUnchanged
    <2>2. pc[v] \in SendingPlaces \cup {"idle", "produce", "claim"}
      BY <1>4 DEF FilingInv, RequestInv, CopyInv, CopyIsTheRow, OneRequest, TypeOK, Places, SendingPlaces
    <2>3. RequestInv(v)
      BY DEF FilingInv
    <2>4. File(v) \in Files /\ pc[v] \notin {"idle", "produce", "claim"} =>
            filings'[File(v)] = filings[File(v)]
      BY <1>2, <1>4, <2>2
    <2>5. QED
      BY <1>3, <2>1, <2>3, <2>4, RequestStays
  <1>5. OneSender'
    BY DEF FilingInv, OneSender, OthersUnchanged, File
  <1>6. HeldInv'
    <2> SUFFICES ASSUME NEW s \in Sessions, Live(s)
                 PROVE  LET f == gateway[s].file IN
                          f \in Files /\ filings'[f].state \in {"sending", "filed"}
                          /\ filings'[f].ref = s
      BY DEF HeldInv, Live
    <2>1. CASE gateway[s].file = File(w)
      BY <1>1, <1>2, <2>1 DEF HeldBy
    <2>2. CASE gateway[s].file # File(w)
      BY <1>2, <2>2 DEF FilingInv, HeldInv
    <2>3. QED
      BY <2>1, <2>2
  <1>7. ASSUME NEW f \in Files
        PROVE  RowInv(f)'
    <2>1. CASE f = File(w)
      <3>1. f <= produced
        BY <2>1 DEF FilingInv, RowInv, Here, Row
      <3>2. updated.purpose = "correction" /\ updated.state # "gone" =>
              \E g \in Files : g < f /\ filings[g].state = "filed"
        BY <2>1 DEF FilingInv, RowInv, Here, Row
      <3>3. QED
        BY <1>2, <1>3, <2>1, <3>1, <3>2 DEF RowInv, FiledStays, DatesOf
    <2>2. CASE f # File(w)
      BY <1>2, <1>3, <2>2 DEF FilingInv, RowInv, FiledStays
    <2>3. QED
      BY <2>1, <2>2
  <1>8. QED
    BY <1>4, <1>5, <1>6, <1>7 DEF FilingInv
\* A request that ends has nothing left to keep.
LEMMA FinishFiling ==
  ASSUME TypeOK, NEW w \in Workers, Finish(w)
  PROVE  OthersUnchanged(w) /\ RequestInv(w)' /\ pc'[w] \notin SendingPlaces
  <1>1. pc'[w] = "idle"
    BY DEF Finish, Goto, TypeOK
  <1>2. QED
    BY <1>1, FinishReference
       DEF RequestInv, SenderInv, CopyInv, ProducerInv, SendingPlaces

\* Ending without writing anything keeps the invariant.
LEMMA GiveUpFiling ==
  ASSUME TypeOK, ReferenceInv, FilingInv, NEW w \in Workers, GiveUp(w)
  PROVE  FilingInv'
  <1>1. OthersUnchanged(w) /\ RequestInv(w)' /\ pc'[w] \notin SendingPlaces
    BY FinishFiling DEF GiveUp
  <1>2. filings' = filings /\ produced' = produced /\ gateway' = gateway /\ Onward
    BY DEF GiveUp, dbVars, Onward
  <1>3. HeldInv'
    BY <1>2 DEF FilingInv, HeldInv, Live
  <1>4. QED
    BY <1>1, <1>2, <1>3, QuietStep

\* Loading a row keeps the invariant; other requests than producing and sending
\* do so alone.
LEMMA LoadFiling ==
  ASSUME TypeOK, ReferenceInv, FilingInv, InTurn, NEW w \in Workers, NEW op \in Ops,
         NEW f \in Files, NEW place \in Places, Load(w, op, f, place),
         \/ op = "send" /\ place = "claim"
         \/ op = "status" /\ place = "ask"
         \/ op \in {"record", "unrecord"} /\ place = op /\ MayRecord(filings[f])
         \/ op = "delete" /\ place = "delete" /\ MayDiscard(filings[f])
  PROVE  FilingInv'
  <1>1. /\ OthersUnchanged(w) /\ filings' = filings /\ produced' = produced
        /\ gateway' = gateway /\ Onward
    BY DEF Load, Goto, TypeOK, OthersUnchanged, dbVars, Onward
  <1>2. mem'[w] = filings[f] /\ pc'[w] = place
    BY DEF Load, Goto, TypeOK
  <1>3. File(w)' = f
    BY <1>2 DEF Load, File, ReferenceInv, RowTruthful
  <1>4. place \in {"ask", "record", "unrecord", "delete"} => OneRequest
    BY DEF InTurn
  <1>5. RequestInv(w)'
    BY <1>1, <1>2, <1>3, <1>4
       DEF RequestInv, SenderInv, SendingPlaces, CopyInv, CopyIsTheRow, ProducerInv, Row,
           MayRecord, MayDiscard
  <1>6. HeldInv'
    BY <1>1 DEF FilingInv, HeldInv, Live
  <1>7. pc'[w] \notin SendingPlaces
    BY <1>2 DEF SendingPlaces
  <1>8. QED
    BY <1>1, <1>5, <1>6, <1>7, QuietStep

\* A sender that moves on without a call to the gateway that is answered keeps
\* the invariant: a failure leaves the row as it stands.
LEMMA MoveFiling ==
  ASSUME TypeOK, ReferenceInv, FilingInv, Onward, NEW w \in Workers, NEW place \in Places,
         pc[w] \in SendingPlaces, Goto(w, place), HeldInv',
         \/ pc[w] = "open" /\ place = "release"
         \/ pc[w] \in {"upload", "finish"} /\ place \in {"finish", "unresolved"},
         UNCHANGED <<filings, produced, mem, session>>
  PROVE  FilingInv'
  <1>1. OthersUnchanged(w) /\ pc'[w] = place
    BY DEF Goto, TypeOK, OthersUnchanged
  <1>2. session[w] # 0 => gateway'[session[w]].sent = gateway[session[w]].sent
    <2>1. session[w] # 0 => session[w] \in Sessions /\ OpenedFor(gateway, session[w], File(w))
      BY BoundsAssumption DEF TypeOK, Sessions, ReferenceInv, RequestTruthful
    <2>2. QED
      BY <2>1 DEF OpenedFor, Onward
  <1>3. SenderInv(w)
    BY DEF FilingInv, RequestInv
  <1>4. RequestInv(w)'
    BY <1>1, <1>2, <1>3
       DEF RequestInv, SenderInv, SendingPlaces, CopyInv, ProducerInv, Row, File
  <1>5. QED
    BY <1>1, <1>4, QuietStep

\* Producing a file keeps the invariant: it is a correction only if a file that
\* was produced before it is filed.
LEMMA ProducingFiling ==
  ASSUME TypeOK, ReferenceInv, FilingInv, NEW w \in Workers, Producing(w)
  PROVE  FilingInv'
  <1>1. CASE Produce(w)
    <2>1. /\ OthersUnchanged(w) /\ filings' = filings /\ produced' = produced
          /\ gateway' = gateway /\ Onward
      BY <1>1 DEF Produce, Goto, TypeOK, OthersUnchanged, dbVars, Onward
    <2>2. /\ pc'[w] = "produce" /\ pc'[w] \notin SendingPlaces
          /\ mem'[w].purpose = "correction" => Superseding
      BY <1>1 DEF Produce, Goto, TypeOK, NewRow, SendingPlaces
    <2>3. \A g \in Files : filings[g].state = "filed" => g <= produced
      BY DEF FilingInv, RowInv
    <2>4. ProducerInv(w)'
      BY <2>1, <2>2, <2>3 DEF ProducerInv, Superseding
    <2>5. RequestInv(w)'
      BY <2>2, <2>4 DEF RequestInv, SenderInv, CopyInv
    <2>6. HeldInv'
      BY <2>1 DEF FilingInv, HeldInv, Live
    <2>7. QED
      BY <2>1, <2>2, <2>5, <2>6, QuietStep
  <1>2. CASE Store(w)
    <2> DEFINE pk == produced + 1
               row == NewRow(pk, "produced", mem[w].purpose, mem[w].made)
    <2>1. OthersUnchanged(w) /\ RequestInv(w)' /\ pc'[w] \notin SendingPlaces
      BY <1>2, FinishFiling DEF Store
    <2>2. filings' = [filings EXCEPT ![pk] = row] /\ produced' = pk /\ gateway' = gateway
      BY <1>2 DEF Store
    <2>3. /\ row.state = "produced" /\ row.ref = 0 /\ row.upo = 0
          /\ row.purpose = mem[w].purpose
      BY DEF NewRow
    <2>4. pk \in Files /\ \A f \in Files : f <= produced => f < pk /\ f <= pk /\ f # pk
      BY <1>2, BoundsAssumption DEF Store, Files, TypeOK
    <2>5. ~(pk <= produced)
      BY BoundsAssumption DEF TypeOK
    <2> HIDE DEF pk, row
    <2>6. filings'[pk] = row /\ \A f \in Files : f # pk => filings'[f] = filings[f]
      BY <2>2, <2>4 DEF TypeOK
    <2>7. filings[pk].state = "gone"
      BY <2>4, <2>5 DEF FilingInv, RowInv
    <2>8. FiledStays /\ Onward
      BY <2>2, <2>4, <2>6, <2>7 DEF FiledStays, Onward
    <2>9. ASSUME NEW v \in Workers, v # w
          PROVE  RequestInv(v)'
      <3>1. /\ pc'[v] = pc[v] /\ mem'[v] = mem[v] /\ session'[v] = session[v]
            /\ RequestInv(v)
        BY <2>1, <2>9 DEF OthersUnchanged, FilingInv
      <3>2. ASSUME File(v) \in Files, pc[v] \notin {"idle", "produce", "claim"}
            PROVE  filings'[File(v)] = filings[File(v)]
        <4>1. pc[v] \in SendingPlaces
          BY <2>9, <3>1, <3>2
             DEF RequestInv, CopyInv, CopyIsTheRow, OneRequest, TypeOK, Places, SendingPlaces
        <4>2. filings[File(v)].state = "sending"
          BY <3>1, <4>1 DEF RequestInv, SenderInv, Row
        <4>3. QED
          BY <2>6, <2>7, <3>2, <4>2
      <3>3. QED
        BY <2>8, <3>1, <3>2, RequestStays
    <2>10. OneSender'
      BY <2>1 DEF FilingInv, OneSender, OthersUnchanged, File
    <2>11. HeldInv'
      BY <2>2, <2>6, <2>7 DEF FilingInv, HeldInv, Live
    <2>12. ASSUME NEW f \in Files
           PROVE  RowInv(f)'
      <3>1. CASE f = pk
        <4>1. mem[w].purpose = "correction" =>
                \E g \in Files : g <= produced /\ filings[g].state = "filed"
          BY <1>2 DEF FilingInv, RequestInv, ProducerInv, Store
        <4>2. mem[w].purpose = "correction" =>
                \E g \in Files : g < pk /\ filings'[g].state = "filed"
          BY <2>4, <2>8, <4>1 DEF FiledStays
        <4>3. pk <= produced'
          BY <2>2, <2>4 DEF Files
        <4>4. QED
          BY <2>3, <2>6, <3>1, <4>2, <4>3 DEF RowInv
      <3>2. CASE f # pk
        BY <2>2, <2>6, <2>8, <3>2 DEF FilingInv, RowInv, FiledStays
      <3>3. QED
        BY <3>1, <3>2
    <2>13. QED
      BY <2>1, <2>9, <2>10, <2>11, <2>12 DEF FilingInv
  <1>3. CASE StoreRefused(w)
    BY <1>3, GiveUpFiling DEF StoreRefused
  <1>4. QED
    BY <1>1, <1>2, <1>3 DEF Producing

\* A session that was not live stays so unless it is finished, so the invariant
\* on what the tax office has is kept by the gateway's other steps.
LEMMA HeldStays ==
  ASSUME FilingInv, filings' = filings, Onward,
         \A s \in Sessions : Live(s)' => Live(s)
  PROVE  HeldInv'
  BY DEF FilingInv, HeldInv, Live, Onward

\* Taking the claim keeps the invariant: nothing of a file that can be sent is
\* with the tax office, and nobody else is sending it.
LEMMA ClaimFiling ==
  ASSUME TypeOK, ReferenceInv, FilingInv, NEW w \in Workers, ClaimForSending(w)
  PROVE  FilingInv'
  <1>1. /\ Here(w) /\ MayClaim(Row(w)) /\ Write(w, Claimed(Row(w))) /\ Goto(w, "open")
        /\ UNCHANGED <<produced, day, gateway, session>>
    BY DEF ClaimForSending
  <1>2. /\ File(w) \in Files /\ Row(w) \in Rows /\ Row(w).file = File(w)
        /\ Truthful(gateway, Row(w), File(w)) /\ day \in 0..MaxDay
    BY <1>1, RowHere, BoundsAssumption DEF TypeOK
  <1>3. /\ Claimed(Row(w)).file = File(w)
        /\ Claimed(Row(w)).state = "sending"
        /\ Claimed(Row(w)).ref = 0
        /\ Claimed(Row(w)).upo = Row(w).upo
        /\ Claimed(Row(w)).filedOn = Row(w).filedOn
        /\ Claimed(Row(w)).purpose = Row(w).purpose
    BY <1>2 DEF Claimed, Rows
  <1> DEFINE updated == Claimed(Row(w))
  <1> HIDE DEF updated
  <1>4. /\ OthersUnchanged(w) /\ pc'[w] = "open"
        /\ mem'[w] = updated /\ filings' = [filings EXCEPT ![File(w)] = updated]
        /\ filings'[File(w)] = updated /\ gateway' = gateway /\ produced' = produced
    BY <1>1, <1>2 DEF Write, Goto, TypeOK, OthersUnchanged, updated
  <1>5. File(w)' = File(w)
    BY <1>3, <1>4 DEF File, updated
  <1>6. Row(w).state \notin {"sending", "filed"}
    BY <1>1 DEF MayClaim, Sendable
  <1>7. HeldBy(updated, File(w))
    BY <1>6 DEF HeldBy, FilingInv, HeldInv, Row
  <1>8. DatesOf(gateway, updated)
    BY <1>2, <1>3 DEF DatesOf, FilingInv, RowInv, Row, updated
  <1>9. \A v \in Workers \ {w} : pc[v] \in SendingPlaces => File(v) # File(w)
    BY <1>6 DEF FilingInv, RequestInv, SenderInv, Row
  <1>10. RequestInv(w)'
    BY <1>2, <1>3, <1>4, <1>5
       DEF RequestInv, SenderInv, CopyInv, ProducerInv, Row, updated
  <1>11. updated.purpose = Row(w).purpose
    BY <1>3 DEF updated
  <1>12. QED
    BY <1>1, <1>4, <1>5, <1>6, <1>7, <1>8, <1>9, <1>10, <1>11, RowStep

\* The last statement of a sender, which has the row to itself, keeps the
\* invariant if nothing in flight is forgotten.
LEMMA SenderConcludes ==
  ASSUME TypeOK, ReferenceInv, FilingInv, NEW w \in Workers, pc[w] \in SendingPlaces, Here(w),
         NEW updated, Conclude(w, updated),
         HeldBy(updated, File(w)), DatesOf(gateway, updated),
         updated.purpose = Row(w).purpose
  PROVE  FilingInv'
  <1>1. OthersUnchanged(w) /\ RequestInv(w)' /\ pc'[w] \notin SendingPlaces
    BY FinishFiling DEF Conclude
  <1>2. Row(w).state = "sending"
    BY DEF FilingInv, RequestInv, SenderInv
  <1>3. \A v \in Workers \ {w} : pc[v] \in SendingPlaces => File(v) # File(w)
    BY DEF FilingInv, OneSender
  <1>4. QED
    BY <1>1, <1>2, <1>3, RowStep DEF Conclude

\* Sending a file keeps the invariant: the claim, the session it opens and the
\* reference written of it stay one submission, through every failure.
LEMMA SendingFiling ==
  ASSUME TypeOK, ReferenceInv, FilingInv, InTurn, NEW w \in Workers, Sending(w)
  PROVE  FilingInv'
  <1>0. Onward
    BY RequestOnward DEF Handle
  <1>a. SenderInv(w)
    BY DEF FilingInv, RequestInv
  <1>b. session[w] # 0 => session[w] \in Sessions /\ OpenedFor(gateway, session[w], File(w))
    BY BoundsAssumption DEF TypeOK, Sessions, ReferenceInv, RequestTruthful
  <1>1. CASE LoadToSend(w)
    <2>1. PICK f \in Files : Load(w, "send", f, "claim")
      BY <1>1 DEF LoadToSend
    <2>2. "send" \in Ops
      BY <2>1 DEF Load
    <2>3. QED
      BY <2>1, <2>2, LoadFiling DEF Places
  <1>2. CASE SendRefused(w) \/ ClaimLost(w) \/ ReferenceMissing(w)
    BY <1>2, GiveUpFiling DEF SendRefused, ClaimLost, ReferenceMissing
  <1>3. CASE ClaimForSending(w)
    BY <1>3, ClaimFiling
  <1>4. CASE OpenSession(w)
    <2>1. PICK s \in Sessions :
            /\ \A t \in Sessions : gateway[t].verdict = "unused" <=> t >= s
            /\ gateway' = [gateway EXCEPT ![s] =
                             [file |-> File(w), verdict |-> "open", sent |-> mem[w].sent]]
            /\ \/ session' = [session EXCEPT ![w] = s] /\ Goto(w, "reference")
               \/ Goto(w, "release") /\ UNCHANGED session
      BY <1>4 DEF OpenSession
    <2>2. /\ pc[w] = "open" /\ mem' = mem /\ filings' = filings /\ produced' = produced
          /\ OthersUnchanged(w)
      BY <1>4, <2>1 DEF OpenSession, Goto, TypeOK, OthersUnchanged, dbVars
    <2>3. \A t \in Sessions : Live(t)' => Live(t)
      BY <2>1 DEF Live, TypeOK
    <2>4. HeldInv'
      BY <1>0, <2>2, <2>3, HeldStays
    <2>5. CASE session' = [session EXCEPT ![w] = s] /\ Goto(w, "reference")
      <3>1. session'[w] = s /\ pc'[w] = "reference" /\ File(w)' = File(w) /\ s # 0
        BY <2>2, <2>5 DEF Goto, TypeOK, File, Sessions
      <3>2. gateway'[s].sent = mem[w].sent
        BY <2>1 DEF TypeOK
      <3>3. RequestInv(w)'
        BY <1>a, <2>2, <3>1, <3>2
           DEF RequestInv, SenderInv, SendingPlaces, CopyInv, ProducerInv, Row
      <3>4. QED
        BY <1>0, <2>2, <2>4, <3>1, <3>3, QuietStep DEF SendingPlaces
    <2>6. CASE Goto(w, "release") /\ UNCHANGED session
      BY <1>0, <2>2, <2>4, <2>6, MoveFiling DEF SendingPlaces, Places
    <2>7. QED
      BY <2>1, <2>5, <2>6
  <1>5. CASE OpenFails(w) \/ TransferFails(w)
    <2>1. gateway' = gateway /\ filings' = filings
      BY <1>5 DEF OpenFails, TransferFails, dbVars
    <2>2. HeldInv'
      BY <2>1 DEF FilingInv, HeldInv, Live
    <2>3. QED
      BY <1>0, <1>5, <2>2, MoveFiling DEF OpenFails, TransferFails, dbVars, SendingPlaces, Places
  <1>6. CASE ReleaseClaim(w)
    <2>1. pc[w] \in SendingPlaces /\ pc[w] = "release" /\ Here(w)
      BY <1>6 DEF ReleaseClaim, SendingPlaces
    <2>2. Row(w).state = "sending" /\ Row(w).ref = 0 /\ Row(w) \in Rows
      BY <1>a, <2>1, RowHere DEF SenderInv
    <2>3. Conclude(w, Released(Row(w)))
      BY <1>6, <2>2 DEF ReleaseClaim
    <2>4. HeldBy(Released(Row(w)), File(w))
      BY <2>2 DEF HeldBy, FilingInv, HeldInv, Row, Sessions
    <2>5. /\ Released(Row(w)).state = "produced"
          /\ Released(Row(w)).upo = Row(w).upo
          /\ Released(Row(w)).filedOn = Row(w).filedOn
          /\ Released(Row(w)).purpose = Row(w).purpose
      BY <2>2 DEF Released, Rows
    <2>6. DatesOf(gateway, Released(Row(w)))
      BY <2>1, <2>5, HereIsAFile DEF DatesOf, FilingInv, RowInv, Row
    <2>7. QED
      BY <2>1, <2>3, <2>4, <2>5, <2>6, SenderConcludes
  <1>7. CASE RecordReference(w)
    <2> DEFINE updated == Referenced(Row(w), session[w])
    <2>1. /\ Here(w) /\ Write(w, updated) /\ Goto(w, "upload") /\ pc[w] = "reference"
          /\ UNCHANGED <<produced, day, gateway, session>>
      BY <1>7 DEF RecordReference
    <2>2. /\ File(w) \in Files /\ Row(w) \in Rows /\ Row(w).file = File(w)
          /\ Truthful(gateway, Row(w), File(w))
      BY <2>1, RowHere
    <2>3. /\ updated.file = File(w) /\ updated.ref = session[w]
          /\ updated.state = Row(w).state /\ updated.sent = Row(w).sent
          /\ updated.upo = Row(w).upo /\ updated.filedOn = Row(w).filedOn
          /\ updated.purpose = Row(w).purpose
      BY <2>2 DEF Referenced, Rows
    <2> HIDE DEF updated
    <2>4. /\ OthersUnchanged(w) /\ pc'[w] = "upload" /\ session'[w] = session[w]
          /\ mem'[w] = updated /\ filings' = [filings EXCEPT ![File(w)] = updated]
          /\ filings'[File(w)] = updated /\ gateway' = gateway /\ produced' = produced
      BY <2>1, <2>2 DEF Write, Goto, TypeOK, OthersUnchanged
    <2>5. /\ Row(w).state = "sending" /\ Row(w).ref = 0 /\ Row(w).sent = mem[w].sent
          /\ session[w] # 0 /\ gateway[session[w]].sent = Row(w).sent
      BY <1>a, <2>1 DEF SenderInv, SendingPlaces
    <2>6. File(w)' = File(w)
      BY <2>3, <2>4 DEF File
    <2>7. HeldBy(updated, File(w))
      BY <2>5 DEF HeldBy, FilingInv, HeldInv, Row, Sessions
    <2>8. DatesOf(gateway, updated)
      BY <2>2, <2>3, <2>5 DEF DatesOf, FilingInv, RowInv, Row
    <2>9. \A v \in Workers \ {w} : pc[v] \in SendingPlaces => File(v) # File(w)
      BY <2>1 DEF FilingInv, OneSender, SendingPlaces
    <2>10. RequestInv(w)'
      BY <2>2, <2>3, <2>4, <2>5, <2>6
         DEF RequestInv, SenderInv, CopyInv, ProducerInv, Row
    <2>11. QED
      BY <2>1, <2>3, <2>4, <2>5, <2>6, <2>7, <2>8, <2>9, <2>10, RowStep
  <1>8. CASE Upload(w)
    <2>1. \A s \in Sessions : Live(s)' => Live(s)
      BY <1>8 DEF Upload, Live, TypeOK
    <2>2. filings' = filings
      BY <1>8 DEF Upload, dbVars
    <2>3. HeldInv'
      BY <1>0, <2>1, <2>2, HeldStays
    <2>4. QED
      BY <1>0, <1>8, <2>3, MoveFiling DEF Upload, dbVars, SendingPlaces, Places
  <1>9. CASE FinishUpload(w)
    <2>1. /\ pc[w] = "finish" /\ filings' = filings /\ produced' = produced
          /\ gateway' = [gateway EXCEPT ![session[w]].verdict = "processing"]
      BY <1>9 DEF FinishUpload, dbVars
    <2>2. /\ File(w) \in Files /\ Row(w).state = "sending" /\ Row(w).ref = session[w]
          /\ session[w] \in Sessions /\ gateway[session[w]].file = File(w)
      BY <1>a, <1>b, <2>1 DEF SenderInv, SendingPlaces, OpenedFor
    <2>3. /\ gateway'[session[w]].file = File(w)
          /\ \A s \in Sessions : s # session[w] => gateway'[s] = gateway[s]
      BY <2>1, <2>2 DEF TypeOK
    <2>4. HeldInv'
      BY <2>1, <2>2, <2>3 DEF FilingInv, HeldInv, Live, Row
    <2>5. CASE Finish(w)
      BY <1>0, <2>1, <2>4, <2>5, FinishFiling, QuietStep
    <2>6. CASE ~Finish(w)
      BY <1>0, <1>9, <2>1, <2>4, <2>6, MoveFiling DEF FinishUpload, dbVars, SendingPlaces, Places
    <2>7. QED
      BY <2>5, <2>6
  <1>10. CASE RecordUnresolvedFailure(w)
    <2>1. pc[w] \in SendingPlaces /\ Here(w) /\ Conclude(w, Row(w))
      BY <1>10 DEF RecordUnresolvedFailure, AfterFailure, SendingPlaces
    <2>2. HeldBy(Row(w), File(w)) /\ DatesOf(gateway, Row(w))
      BY <2>1, HereIsAFile DEF HeldBy, DatesOf, FilingInv, HeldInv, RowInv, Row
    <2>3. QED
      BY <2>1, <2>2, SenderConcludes
  <1>11. QED
    BY <1>1, <1>2, <1>3, <1>4, <1>5, <1>6, <1>7, <1>8, <1>9, <1>10 DEF Sending

\* The last statement of a request that is the only one keeps the invariant if
\* nothing the tax office has is forgotten, and a filed row stays filed.
LEMMA LoneRequestConcludes ==
  ASSUME TypeOK, ReferenceInv, FilingInv, OneRequest, NEW w \in Workers, Here(w),
         NEW updated, Conclude(w, updated),
         HeldBy(updated, File(w)), DatesOf(gateway, updated),
         updated.purpose = Row(w).purpose \/ updated.state = "gone",
         Row(w).state = "filed" => updated.state = "filed"
  PROVE  FilingInv'
  <1>1. OthersUnchanged(w) /\ RequestInv(w)' /\ pc'[w] \notin SendingPlaces
    BY FinishFiling DEF Conclude
  <1>2. \A v \in Workers \ {w} : pc[v] \in SendingPlaces => File(v) # File(w)
    BY DEF OneRequest
  <1>3. QED
    BY <1>1, <1>2, RowStep DEF Conclude

\* What the row a request is about says of the gateway, when it is there.
LEMMA RowHeld ==
  ASSUME TypeOK, FilingInv, NEW w \in Workers, Here(w)
  PROVE  HeldBy(Row(w), File(w)) /\ DatesOf(gateway, Row(w))
  BY HereIsAFile DEF FilingInv, HeldInv, RowInv, HeldBy, DatesOf, Row

\* A verdict written on the row it was asked about leaves it saying what the
\* tax office has: a refused submission is not with it, an accepted one makes
\* the row filed on the day of its claim.
LEMMA VerdictKeepsHeld ==
  ASSUME NEW r \in Rows, NEW f, r.state = "sending", r.ref # 0, Answered(r.ref),
         HeldBy(r, f), DatesOf(gateway, r)
  PROVE  /\ HeldBy(SettledBy(r, r), f)
         /\ DatesOf(gateway, SettledBy(r, r))
         /\ SettledBy(r, r).purpose = r.purpose
  <1>1. CASE gateway[r.ref].verdict = "accepted"
    BY <1>1 DEF SettledBy, FiledOn, HeldBy, DatesOf, Rows
  <1>2. CASE gateway[r.ref].verdict # "accepted"
    <2>1. ~Live(r.ref)
      BY <1>2 DEF Answered, Live
    <2>2. \A s \in Sessions : ~(Live(s) /\ gateway[s].file = f)
      BY <2>1 DEF HeldBy
    <2>3. QED
      BY <1>2, <2>2 DEF SettledBy, HeldBy, DatesOf, Rows
  <1>3. QED
    BY <1>1, <1>2

\* Asking the gateway keeps the invariant.
LEMMA ResolvingFiling ==
  ASSUME TypeOK, ReferenceInv, FilingInv, InTurn, NEW w \in Workers, Resolving(w)
  PROVE  FilingInv'
  <1>1. CASE LoadForStatus(w)
    <2>1. PICK f \in Files : Load(w, "status", f, "ask")
      BY <1>1 DEF LoadForStatus
    <2>2. "status" \in Ops
      BY <2>1 DEF Load
    <2>3. QED
      BY <2>1, <2>2, LoadFiling DEF Places
  <1>2. CASE Ask(w)
    <2>1. /\ OthersUnchanged(w) /\ filings' = filings /\ produced' = produced
          /\ gateway' = gateway /\ mem' = mem /\ Onward
      BY <1>2 DEF Ask, Goto, TypeOK, OthersUnchanged, dbVars, Onward
    <2>2. pc[w] = "ask" /\ pc'[w] = "settle"
      BY <1>2 DEF Ask, Goto, TypeOK
    <2>3. RequestInv(w)'
      BY <2>1, <2>2
         DEF FilingInv, RequestInv, SenderInv, SendingPlaces, CopyInv, CopyIsTheRow,
             ProducerInv, Row, File
    <2>4. HeldInv'
      BY <2>1 DEF FilingInv, HeldInv, Live
    <2>5. QED
      BY <2>1, <2>2, <2>3, <2>4, QuietStep DEF SendingPlaces
  <1>3. CASE AskUnanswered(w)
    BY <1>3, GiveUpFiling DEF AskUnanswered
  <1>4. CASE Settle(w)
    <2>1. /\ Here(w) /\ OneRequest /\ mem[w] = Row(w)
          /\ Row(w).ref # 0 /\ Answered(Row(w).ref)
      BY <1>4 DEF Settle, FilingInv, RequestInv, CopyInv, CopyIsTheRow, ReferenceInv, RequestTruthful
    <2>2. Row(w) \in Rows /\ HeldBy(Row(w), File(w)) /\ DatesOf(gateway, Row(w))
      BY <2>1, HereIsAFile, RowHeld
    <2>3. CASE Row(w).state = "sending"
      <3>1. Conclude(w, SettledBy(Row(w), Row(w)))
        BY <1>4, <2>1, <2>3 DEF Settle
      <3>2. QED
        BY <2>1, <2>2, <2>3, <3>1, VerdictKeepsHeld, LoneRequestConcludes
    <2>4. CASE Row(w).state # "sending"
      <3>1. Conclude(w, Row(w))
        BY <1>4, <2>4 DEF Settle
      <3>2. QED
        BY <2>1, <2>2, <3>1, LoneRequestConcludes
    <2>5. QED
      BY <2>3, <2>4
  <1>5. QED
    BY <1>1, <1>2, <1>3, <1>4 DEF Resolving

\* A date is cleared, without harm, off a file that was not filed after all.
LEMMA UnrecordingFiling ==
  ASSUME TypeOK, ReferenceInv, FilingInv, NEW w \in Workers, Unrecord(w), NoFilingUndone
  PROVE  FilingInv'
  <1> DEFINE updated == Unrecorded(Row(w))
  <1>1. /\ Here(w) /\ Conclude(w, updated) /\ OneRequest /\ Row(w).state # "sending"
        /\ File(w) \in Files /\ Row(w) \in Rows
    BY HereIsAFile, RowHeld DEF Unrecord, FilingInv, RequestInv, CopyInv, CopyIsTheRow, MayRecord
  <1>2. updated.state = "produced" /\ updated.upo = 0 /\ updated.purpose = Row(w).purpose
    BY <1>1 DEF Unrecorded, Rows
  <1> HIDE DEF updated
  <1>3. ~WithTheOffice(File(w))
    <2>1. HeldBy(Row(w), File(w))
      BY <1>1, RowHeld
    <2>2. QED
      BY <1>1, <2>1 DEF HeldBy, WithTheOffice, NoFilingUndone
  <1>4. HeldBy(updated, File(w)) /\ DatesOf(gateway, updated)
    BY <1>2, <1>3 DEF HeldBy, DatesOf, WithTheOffice
  <1>5. CASE Row(w).state # "filed"
    BY <1>1, <1>2, <1>4, <1>5, LoneRequestConcludes
  <1>6. CASE Row(w).state = "filed"
    <2>1. ~CorrectedSince(File(w))
      BY <1>6 DEF NoFilingUndone
    <2>2. /\ filings' = [filings EXCEPT ![File(w)] = updated]
          /\ produced' = produced /\ gateway' = gateway /\ Finish(w)
      BY <1>1 DEF Conclude
    <2>3. filings'[File(w)] = updated /\ \A f \in Files : f # File(w) => filings'[f] = filings[f]
      BY <1>1, <2>2 DEF TypeOK
    <2>4. \A v \in Workers : RequestInv(v)'
      BY <1>1, <2>2, FinishFiling DEF OneRequest
    <2>5. OneSender'
      BY <1>1 DEF OneSender, OneRequest
    <2>6. HeldInv'
      BY <1>3, <2>2, <2>3 DEF FilingInv, HeldInv, Live, WithTheOffice
    <2>7. ASSUME NEW f \in Files PROVE RowInv(f)'
      <3>1. CASE f = File(w)
        <4>1. f <= produced /\ (updated.purpose = "correction" => \E g \in Files : g < f /\ filings[g].state = "filed")
          BY <1>1, <1>2, <3>1 DEF FilingInv, RowInv, Here, Row
        <4>2. \A g \in Files : g < f => g # f
          BY DEF Files
        <4>3. QED
          BY <1>2, <2>2, <2>3, <3>1, <4>1, <4>2 DEF RowInv
      <3>2. CASE f # File(w)
        <4>1. RowInv(f) /\ filings'[f] = filings[f]
          BY <2>3, <3>2 DEF FilingInv
        <4>2. filings[f].state # "gone" /\ filings[f].purpose = "correction" => ~(File(w) < f)
          BY <2>1 DEF CorrectedSince
        <4>3. QED
          BY <2>2, <2>3, <4>1, <4>2 DEF RowInv
      <3>3. QED
        BY <3>1, <3>2
    <2>8. QED
      BY <2>4, <2>5, <2>6, <2>7 DEF FilingInv
  <1>7. QED
    BY <1>5, <1>6

\* The owner's own record, and a discard, keep the invariant: neither touches a
\* file in flight, and what is filed is not discarded.
LEMMA RecordingFiling ==
  ASSUME TypeOK, ReferenceInv, FilingInv, InTurn, NEW w \in Workers, Recording(w), NoFilingUndone
  PROVE  FilingInv'
  <1>0. CopyInv(w)
    BY DEF FilingInv, RequestInv
  <1>1. CASE LoadToRecord(w)
    <2>1. PICK f \in Files, op \in {"record", "unrecord"} :
            MayRecord(filings[f]) /\ Load(w, op, f, op)
      BY <1>1 DEF LoadToRecord
    <2>2. op \in Ops
      BY <2>1 DEF Load
    <2>3. QED
      BY <2>1, <2>2, LoadFiling DEF Places
  <1>2. CASE Record(w)
    <2>1. PICK filedOn \in Row(w).made..day : Conclude(w, RecordedOn(Row(w), filedOn))
      BY <1>2 DEF Record
    <2>2. Here(w) /\ OneRequest /\ MayRecord(Row(w))
      BY <1>0, <1>2 DEF Record, CopyInv, CopyIsTheRow
    <2>3. Row(w) \in Rows /\ HeldBy(Row(w), File(w))
      BY <2>2, HereIsAFile, RowHeld
    <2>4. /\ RecordedOn(Row(w), filedOn).state = "filed"
          /\ RecordedOn(Row(w), filedOn).ref = Row(w).ref
          /\ RecordedOn(Row(w), filedOn).upo = 0
          /\ RecordedOn(Row(w), filedOn).purpose = Row(w).purpose
      BY <2>3 DEF RecordedOn, Rows
    <2>5. /\ HeldBy(RecordedOn(Row(w), filedOn), File(w))
          /\ DatesOf(gateway, RecordedOn(Row(w), filedOn))
      BY <2>3, <2>4 DEF HeldBy, DatesOf
    <2>6. QED
      BY <2>1, <2>2, <2>4, <2>5, LoneRequestConcludes
  <1>3. CASE Unrecord(w)
    BY <1>3, UnrecordingFiling
  <1>4. CASE LoadToDelete(w)
    <2>1. PICK f \in Files : MayDiscard(filings[f]) /\ Load(w, "delete", f, "delete")
      BY <1>4 DEF LoadToDelete
    <2>2. "delete" \in Ops
      BY <2>1 DEF Load
    <2>3. QED
      BY <2>1, <2>2, LoadFiling DEF Places
  <1>5. CASE Delete(w)
    <2>1. Here(w) /\ OneRequest /\ MayDiscard(Row(w)) /\ Conclude(w, NoRow)
      BY <1>0, <1>5 DEF Delete, CopyInv, CopyIsTheRow
    <2>2. HeldBy(NoRow, File(w)) /\ DatesOf(gateway, NoRow) /\ NoRow.state = "gone"
      BY <2>1, RowHeld DEF HeldBy, DatesOf, MayDiscard, NoRow, NewRow
    <2>3. QED
      BY <2>1, <2>2, LoneRequestConcludes DEF MayDiscard
  <1>6. QED
    BY <1>1, <1>2, <1>3, <1>4, <1>5 DEF Recording

\* FilingInv holds of the program's first state: nothing is produced or sent.
LEMMA InitFiling == Init => FilingInv
  BY DEF Init, FilingInv, RequestInv, SenderInv, CopyInv, ProducerInv, OneSender, HeldInv,
         RowInv, Live, SendingPlaces, NoRow, NewRow

\* Every step of the program and of the gateway keeps FilingInv, but one that
\* undoes a filing.
LEMMA FilingStep ==
  ASSUME InTurn
  PROVE  TypeOK /\ ReferenceInv /\ FilingInv /\ [Next]_vars /\ [NoFilingUndone]_vars => FilingInv'
  <1> SUFFICES ASSUME TypeOK, ReferenceInv, FilingInv, [Next]_vars, [NoFilingUndone]_vars
               PROVE  FilingInv'
    OBVIOUS
  <1>1. ASSUME NEW w \in Workers, Handle(w), NoFilingUndone
        PROVE  FilingInv'
    BY <1>1, ProducingFiling, SendingFiling, ResolvingFiling, RecordingFiling, GiveUpFiling
       DEF Handle, Vanished, Crash
  <1>2. ASSUME Onward, \A s \in Sessions : Live(s)' => Live(s),
               UNCHANGED <<filings, produced, pc, mem, session>>
        PROVE  FilingInv'
    <2>1. FiledStays /\ HeldInv'
      BY <1>2, HeldStays DEF FiledStays
    <2>2. ASSUME NEW v \in Workers
          PROVE  RequestInv(v)'
      BY <1>2, <2>1, RequestStays DEF FilingInv
    <2>3. OneSender'
      BY <1>2 DEF FilingInv, OneSender, File
    <2>4. ASSUME NEW f \in Files
          PROVE  RowInv(f)'
      <3>1. filings[f] \in Rows /\ Truthful(gateway, filings[f], f) /\ DatesOf(gateway, filings[f])
        BY DEF TypeOK, ReferenceInv, RowTruthful, FilingInv, RowInv, DatesOf
      <3>2. DatesOf(gateway', filings[f])
        BY <1>2, <3>1, DatesStay
      <3>3. QED
        BY <1>2, <3>2 DEF FilingInv, RowInv, DatesOf
    <2>5. QED
      BY <2>1, <2>2, <2>3, <2>4 DEF FilingInv
  <1>3. ASSUME NEW s \in Sessions, Processing(s)
        PROVE  FilingInv'
    <2>1. \A t \in Sessions : Live(t)' => Live(t)
      BY <1>3 DEF Processing, Decide, Abandon, Live, TypeOK
    <2>2. UNCHANGED <<filings, produced, pc, mem, session>>
      BY <1>3 DEF Processing, Decide, Abandon, dbVars, reqVars
    <2>3. QED
      BY <1>2, <1>3, <2>1, <2>2, ProcessingOnward
  <1>4. CASE NextDay
    BY <1>2, <1>4 DEF NextDay, Onward, Live, dbVars, reqVars
  <1>5. CASE UNCHANGED vars
    BY <1>2, <1>5 DEF vars, Onward, Live
  <1>6. QED
    BY <1>1, <1>3, <1>4, <1>5 DEF Next

\* So the program keeps FilingInv, whatever is lost, retried, refused, abandoned
\* or crashes, until a filing is undone.
LEMMA FilingCorrect ==
  ASSUME InTurn
  PROVE  Spec /\ [][NoFilingUndone]_vars => [](TypeOK /\ ReferenceInv /\ FilingInv)
  <1>1. Init => TypeOK /\ ReferenceInv /\ FilingInv
    BY InitType, InitReference, InitFiling
  <1>2. TypeOK /\ ReferenceInv /\ FilingInv /\ [Next]_vars /\ [NoFilingUndone]_vars
          => (TypeOK /\ ReferenceInv /\ FilingInv)'
    BY TypeStep, ReferenceInvStep, FilingStep
  <1>3. QED
    BY <1>1, <1>2, PTL DEF Spec

\* A file is submitted once: the tax office holds, or may come to hold, one
\* submission of it, the one its row names (jpk_gateway/sending.py: send), so
\* long as no date is cleared off a file that is with it or corrected since.
THEOREM FiledOnce ==
  ASSUME InTurn
  PROVE  Spec /\ [][NoFilingUndone]_vars => []SubmittedOnce
  <1>1. FilingInv => SubmittedOnce
    BY DEF FilingInv, HeldInv, SubmittedOnce
  <1>2. QED
    BY <1>1, FilingCorrect, PTL

\* While the tax office holds a file, or may come to, its row is there and in
\* flight or filed (views.py: filing_delete).
THEOREM AlwaysHeldWhileLive ==
  ASSUME InTurn
  PROVE  Spec /\ [][NoFilingUndone]_vars => []HeldWhileLive
  <1>1. FilingInv => HeldWhileLive
    BY DEF FilingInv, HeldInv, HeldWhileLive
  <1>2. QED
    BY <1>1, FilingCorrect, PTL

\* A receipt is the gateway's for this very file, and the filing date is the day
\* of the claim that submission was made under (jpk_gateway/submission.py).
THEOREM ReceiptAlwaysItsOwn ==
  ASSUME InTurn
  PROVE  Spec /\ [][NoFilingUndone]_vars => []ReceiptIsItsOwn
  <1>1. ReferenceInv /\ FilingInv => ReceiptIsItsOwn
    BY DEF ReferenceInv, RowTruthful, Truthful, OpenedFor, FilingInv, RowInv, ReceiptIsItsOwn
  <1>2. QED
    BY <1>1, FilingCorrect, PTL

\* A correction is only produced over a file that was filed before it, and that
\* file stays filed (views.py: filing_create).
THEOREM AlwaysCorrectsWhatWasFiled ==
  ASSUME InTurn
  PROVE  Spec /\ [][NoFilingUndone]_vars => []CorrectsWhatWasFiled
  <1>1. FilingInv => CorrectsWhatWasFiled
    BY DEF FilingInv, RowInv, CorrectsWhatWasFiled
  <1>2. QED
    BY <1>1, FilingCorrect, PTL

-----------------------------------------------------------------------------
(* What is promised of a year's files, step by step.                       *)

\* A file being produced was begun on some day up to this one, and is a
\* correction exactly when something is filed: nothing is filed meanwhile.
ProductionInv ==
  \A w \in Workers : pc[w] = "produce" =>
    /\ mem[w].purpose = IF Superseding THEN "correction" ELSE "first"
    /\ mem[w].made \in 1..day

PromiseContext == InTurn /\ TypeOK /\ ReferenceInv /\ FilingInv /\ ProductionInv

\* A step that begins no production and files nothing while one is under way
\* keeps ProductionInv.
LEMMA ProductionStays ==
  ASSUME TypeOK, ProductionInv, day' \in Nat, day <= day',
         \A v \in Workers : pc'[v] = "produce" =>
           pc[v] = "produce" /\ mem'[v] = mem[v] /\ (Superseding' <=> Superseding)
  PROVE  ProductionInv'
  <1> SUFFICES ASSUME NEW v \in Workers, pc'[v] = "produce"
               PROVE  /\ mem'[v].purpose = IF Superseding' THEN "correction" ELSE "first"
                      /\ mem'[v].made \in 1..day'
    BY DEF ProductionInv
  <1>1. /\ mem'[v] = mem[v] /\ (Superseding' <=> Superseding)
        /\ mem[v].purpose = IF Superseding THEN "correction" ELSE "first"
        /\ mem[v].made \in 1..day
    BY DEF ProductionInv
  <1>2. mem[v].made \in 1..day'
    BY <1>1 DEF TypeOK
  <1>3. QED
    BY <1>1, <1>2

\* Whether anything is filed does not change with a row that is filed after a
\* step as it was before.
LEMMA SupersedingStays ==
  ASSUME TypeOK, NEW f, NEW updated, filings' = [filings EXCEPT ![f] = updated],
         f \in Files => (updated.state = "filed" <=> filings[f].state = "filed")
  PROVE  Superseding' <=> Superseding
  <1>1. \A g \in Files : filings'[g].state = "filed" <=> filings[g].state = "filed"
    BY DEF TypeOK
  <1>2. QED
    BY <1>1 DEF Superseding

\* Every request's step keeps ProductionInv.
LEMMA RequestProduction ==
  ASSUME PromiseContext, NEW w \in Workers, Handle(w)
  PROVE  ProductionInv'
  <1> USE DEF PromiseContext
  <1>0. TypeOK /\ day \in Nat
    BY DEF TypeOK
  <1>1. CASE Produce(w)
    <2>1. filings' = filings /\ day' = day /\ (Superseding' <=> Superseding)
      BY <1>1 DEF Produce, dbVars, Superseding
    <2>2. pc' = [pc EXCEPT ![w] = "produce"]
          /\ mem' = [mem EXCEPT ![w] =
                       NewRow(0, "gone", IF Superseding THEN "correction" ELSE "first", day)]
      BY <1>1 DEF Produce, Goto
    <2>3. ASSUME NEW v \in Workers, pc'[v] = "produce", v # w
          PROVE  /\ mem'[v].purpose = IF Superseding' THEN "correction" ELSE "first"
                 /\ mem'[v].made \in 1..day'
      BY <2>1, <2>2, <2>3 DEF ProductionInv, TypeOK
    <2>4. /\ mem'[w].purpose = IF Superseding' THEN "correction" ELSE "first"
          /\ mem'[w].made \in 1..day'
      BY <2>1, <2>2 DEF TypeOK, NewRow
    <2>5. QED
      BY <2>3, <2>4 DEF ProductionInv
  <1>2. ASSUME OthersUnchanged(w), pc'[w] # "produce", day' = day,
               Superseding' <=> Superseding
        PROVE  ProductionInv'
    BY <1>0, <1>2, ProductionStays DEF OthersUnchanged
  <1>3. ASSUME NEW place \in Places \ {"produce"}, Goto(w, place), filings' = filings, day' = day,
               \A v \in Workers \ {w} : mem'[v] = mem[v]
        PROVE  ProductionInv'
    <2>1. /\ pc'[w] = place /\ (Superseding' <=> Superseding)
          /\ \A v \in Workers \ {w} : pc'[v] = pc[v]
      BY <1>3 DEF Goto, TypeOK, Superseding
    <2>2. QED
      BY <1>0, <1>3, <2>1, ProductionStays
  <1>4. CASE GiveUp(w)
    <2>1. OthersUnchanged(w) /\ pc'[w] = "idle"
      BY <1>4, FinishFiling DEF GiveUp, Finish, Goto, TypeOK
    <2>2. day' = day /\ (Superseding' <=> Superseding)
      BY <1>4 DEF GiveUp, dbVars, Superseding
    <2>3. QED
      BY <1>2, <2>1, <2>2
  <1>5. ASSUME NEW updated, Conclude(w, updated),
               File(w) \in Files => \/ updated.state = "filed" <=> Row(w).state = "filed"
                                    \/ OneRequest
        PROVE  ProductionInv'
    <2>1. OthersUnchanged(w) /\ pc'[w] = "idle" /\ day' = day
          /\ filings' = [filings EXCEPT ![File(w)] = updated]
      BY <1>5, FinishFiling DEF Conclude, Finish, Goto, TypeOK
    <2>2. CASE OneRequest
      BY <1>0, <2>1, <2>2, ProductionStays DEF OneRequest
    <2>3. CASE ~OneRequest
      <3>1. Superseding' <=> Superseding
        BY <1>5, <2>1, <2>3, SupersedingStays DEF Row
      <3>2. QED
        BY <1>2, <2>1, <3>1
    <2>4. QED
      BY <2>2, <2>3
  <1>6. ASSUME NEW updated, NEW place \in Places \ {"produce"}, Write(w, updated), Goto(w, place),
               day' = day,
               File(w) \in Files => (updated.state = "filed" <=> Row(w).state = "filed")
        PROVE  ProductionInv'
    <2>1. /\ pc'[w] = place
          /\ \A v \in Workers \ {w} : pc'[v] = pc[v] /\ mem'[v] = mem[v]
          /\ filings' = [filings EXCEPT ![File(w)] = updated]
      BY <1>6 DEF Write, Goto, TypeOK
    <2>2. Superseding' <=> Superseding
      BY <1>6, <2>1, SupersedingStays DEF Row
    <2>3. QED
      BY <1>0, <1>6, <2>1, <2>2, ProductionStays
  <1>7. ASSUME NEW op, NEW f \in Files, NEW place \in Places \ {"produce"}, Load(w, op, f, place)
        PROVE  ProductionInv'
    <2>1. /\ Goto(w, place) /\ filings' = filings /\ day' = day
          /\ \A v \in Workers \ {w} : mem'[v] = mem[v]
      BY <1>7 DEF Load, dbVars, TypeOK
    <2>2. QED
      BY <1>3, <2>1
  <1>8. CopyInv(w) /\ SenderInv(w)
    BY DEF FilingInv, RequestInv
  <1>9. CASE Producing(w)
    <2>1. CASE Store(w)
      <3> DEFINE pk == produced + 1
                 stored == NewRow(pk, "produced", mem[w].purpose, mem[w].made)
      <3>1. /\ OthersUnchanged(w) /\ pc'[w] = "idle" /\ day' = day
            /\ filings' = [filings EXCEPT ![pk] = stored] /\ stored.state = "produced"
        BY <2>1, FinishFiling DEF Store, Finish, Goto, TypeOK, NewRow
      <3>2. ~(pk <= produced)
        BY DEF TypeOK
      <3> HIDE DEF pk, stored
      <3>3. pk \in Files => filings[pk].state = "gone"
        BY <3>2 DEF FilingInv, RowInv
      <3>4. Superseding' <=> Superseding
        BY <3>1, <3>3, SupersedingStays
      <3>5. QED
        BY <1>2, <3>1, <3>4
    <2>2. QED
      BY <1>1, <1>4, <1>9, <2>1 DEF Producing, StoreRefused
  <1>10. CASE Sending(w)
    <2>1. CASE LoadToSend(w)
      BY <1>7, <2>1 DEF LoadToSend, Places
    <2>2. CASE SendRefused(w) \/ ClaimLost(w) \/ ReferenceMissing(w)
      BY <1>4, <2>2 DEF SendRefused, ClaimLost, ReferenceMissing
    <2>3. CASE ClaimForSending(w)
      <3>1. /\ Write(w, Claimed(Row(w))) /\ Goto(w, "open") /\ day' = day
            /\ MayClaim(Row(w)) /\ Here(w)
        BY <2>3 DEF ClaimForSending
      <3>2. Claimed(Row(w)).state = "sending" /\ Row(w).state # "filed"
        BY <3>1, HereIsAFile DEF Claimed, MayClaim, Sendable, Rows
      <3>3. QED
        BY <1>6, <3>1, <3>2 DEF Places
    <2>4. CASE OpenSession(w) \/ OpenFails(w) \/ Upload(w) \/ TransferFails(w)
      <3>1. /\ filings' = filings /\ day' = day /\ mem' = mem
            /\ \E place \in Places \ {"produce"} : Goto(w, place)
        BY <2>4 DEF OpenSession, OpenFails, Upload, TransferFails, dbVars, Places
      <3>2. QED
        BY <1>3, <3>1
    <2>5. CASE FinishUpload(w)
      <3>1. filings' = filings /\ day' = day /\ (Superseding' <=> Superseding)
        BY <2>5 DEF FinishUpload, dbVars, Superseding
      <3>2. CASE Finish(w)
        <4>1. OthersUnchanged(w) /\ pc'[w] = "idle"
          BY <3>2, FinishFiling DEF Finish, Goto, TypeOK
        <4>2. QED
          BY <1>2, <3>1, <4>1
      <3>3. CASE Goto(w, "unresolved") /\ mem' = mem
        BY <1>3, <3>1, <3>3 DEF Places
      <3>4. QED
        BY <2>5, <3>2, <3>3 DEF FinishUpload
    <2>6. CASE ReleaseClaim(w) \/ RecordUnresolvedFailure(w)
      <3>1. Here(w) /\ Row(w) \in Rows /\ Row(w).state = "sending"
        BY <1>8, <2>6, HereIsAFile
           DEF ReleaseClaim, RecordUnresolvedFailure, SenderInv, SendingPlaces
      <3>2. Conclude(w, Released(Row(w))) \/ Conclude(w, Row(w))
        BY <2>6, <3>1 DEF ReleaseClaim, RecordUnresolvedFailure, AfterFailure
      <3>3. Released(Row(w)).state # "filed"
        BY <3>1 DEF Released, Rows
      <3>4. QED
        BY <1>5, <3>1, <3>2, <3>3
    <2>7. CASE RecordReference(w)
      <3>1. /\ Write(w, Referenced(Row(w), session[w])) /\ Goto(w, "upload") /\ day' = day /\ Here(w)
        BY <2>7 DEF RecordReference
      <3>2. Referenced(Row(w), session[w]).state = Row(w).state
        BY <3>1, HereIsAFile DEF Referenced, Rows
      <3>3. QED
        BY <1>6, <3>1, <3>2 DEF Places
    <2>8. QED
      BY <1>10, <2>1, <2>2, <2>3, <2>4, <2>5, <2>6, <2>7 DEF Sending
  <1>11. CASE Resolving(w)
    <2>1. CASE LoadForStatus(w)
      BY <1>7, <2>1 DEF LoadForStatus, Places
    <2>2. CASE Ask(w)
      BY <1>3, <2>2 DEF Ask, dbVars, Places
    <2>3. CASE AskUnanswered(w)
      BY <1>4, <2>3 DEF AskUnanswered
    <2>4. CASE Settle(w)
      BY <1>5, <1>8, <2>4 DEF Settle, CopyInv, CopyIsTheRow
    <2>5. QED
      BY <1>11, <2>1, <2>2, <2>3, <2>4 DEF Resolving
  <1>12. CASE Recording(w)
    <2>1. CASE LoadToRecord(w) \/ LoadToDelete(w)
      BY <1>7, <2>1 DEF LoadToRecord, LoadToDelete, Places
    <2>2. CASE Record(w) \/ Delete(w)
      BY <1>5, <1>8, <2>2 DEF Record, Delete, CopyInv, CopyIsTheRow
    <2>3. CASE Unrecord(w)
      <3>1. Unrecorded(Row(w)).state = "produced" /\ Row(w) \in Rows
        BY <1>8, <2>3, HereIsAFile DEF Unrecord, Unrecorded, Rows
      <3>2. QED
        BY <1>5, <1>8, <2>3, <3>1 DEF Unrecord, CopyInv, CopyIsTheRow
    <2>4. QED
      BY <1>12, <2>1, <2>2, <2>3 DEF Recording
  <1>13. QED
    BY <1>4, <1>9, <1>10, <1>11, <1>12 DEF Handle, Vanished, Crash

\* So does the gateway's own step, and the passing of a day.
LEMMA ProductionStep ==
  PromiseContext /\ [Next]_vars => ProductionInv'
  <1> SUFFICES ASSUME PromiseContext, [Next]_vars
               PROVE  ProductionInv'
    OBVIOUS
  <1>1. ASSUME UNCHANGED <<filings, pc, mem>>, day' \in Nat, day <= day'
        PROVE  ProductionInv'
    BY <1>1, ProductionStays DEF PromiseContext, Superseding
  <1>2. ASSUME NEW s \in Sessions, Processing(s)
        PROVE  ProductionInv'
    BY <1>1, <1>2 DEF Processing, Decide, Abandon, dbVars, reqVars, PromiseContext, TypeOK
  <1>3. CASE NextDay
    BY <1>1, <1>3 DEF NextDay, dbVars, reqVars, PromiseContext, TypeOK
  <1>4. CASE UNCHANGED vars
    BY <1>1, <1>4 DEF vars, PromiseContext, TypeOK
  <1>5. QED
    BY <1>2, <1>3, <1>4, RequestProduction DEF Next

\* What the tax office has of a file does not change with sessions it does not
\* have and is not handed.
LEMMA SameOffice ==
  ASSUME \A s \in Sessions : gateway'[s] = gateway[s] \/ (~Live(s) /\ ~Live(s)'), NEW f
  PROVE  OfficeHas(f)' = OfficeHas(f)
  <1> DEFINE Has(g, verdict) == \E s \in Sessions : g[s].file = f /\ g[s].verdict = verdict
  <1>1. Has(gateway', "accepted") <=> Has(gateway, "accepted")
    BY DEF Live
  <1>2. Has(gateway', "processing") <=> Has(gateway, "processing")
    BY DEF Live
  <1>3. QED
    BY <1>1, <1>2 DEF OfficeHas

\* What it has of a file is the verdict on a session of it that it has, if that
\* is the only one, and nothing if there is none.
LEMMA OfficeKnown ==
  ASSUME NEW f
  PROVE  /\ (\A s \in Sessions : Live(s) => gateway[s].file # f) => OfficeHas(f) = "nothing"
         /\ \A s \in Sessions :
              /\ Live(s) /\ gateway[s].file = f
              /\ \A t \in Sessions : Live(t) /\ gateway[t].file = f => t = s
              => OfficeHas(f) = gateway[s].verdict
  <1> DEFINE Has(verdict) == \E s \in Sessions : gateway[s].file = f /\ gateway[s].verdict = verdict
  <1>1. ASSUME \A s \in Sessions : Live(s) => gateway[s].file # f
        PROVE  OfficeHas(f) = "nothing"
    <2>1. ~Has("accepted") /\ ~Has("processing")
      BY <1>1 DEF Live
    <2>2. QED
      BY <2>1 DEF OfficeHas
  <1>2. ASSUME NEW s \in Sessions, Live(s), gateway[s].file = f,
               \A t \in Sessions : Live(t) /\ gateway[t].file = f => t = s
        PROVE  OfficeHas(f) = gateway[s].verdict
    <2>1. CASE gateway[s].verdict = "accepted"
      <3>1. Has("accepted")
        BY <1>2, <2>1
      <3>2. QED
        BY <2>1, <3>1 DEF OfficeHas
    <2>2. CASE gateway[s].verdict = "processing"
      <3>1. Has("processing") /\ ~Has("accepted")
        BY <1>2, <2>2 DEF Live
      <3>2. QED
        BY <2>2, <3>1 DEF OfficeHas
    <2>3. QED
      BY <1>2, <2>1, <2>2 DEF Live
  <1>3. QED
    BY <1>1, <1>2

\* Of a file that its row does not say is out, the tax office has nothing.
LEMMA OfficeHasNothing ==
  ASSUME FilingInv, NEW f \in Files,
         \/ filings[f].state \notin {"sending", "filed"}
         \/ filings[f].ref \notin Sessions
         \/ ~Live(filings[f].ref)
  PROVE  OfficeHas(f) = "nothing"
  <1>1. \A s \in Sessions : Live(s) => gateway[s].file # f
    BY DEF FilingInv, HeldInv
  <1>2. QED
    BY <1>1, OfficeKnown

\* A step that changes no row, and hands the tax office nothing, does nothing
\* to what is promised.
LEMMA PromiseUnmoved ==
  ASSUME UNCHANGED <<filings, produced, day>>,
         \A s \in Sessions : gateway'[s] = gateway[s] \/ (~Live(s) /\ ~Live(s)')
  PROVE  UNCHANGED Promise!vars
  <1>1. \A f \in Files : OfficeHas(f)' = OfficeHas(f)
    BY SameOffice
  <1>2. [f \in Files |-> OfficeHas(f)]' = [f \in Files |-> OfficeHas(f)]
    BY <1>1
  <1>3. \A f \in Files : PromisedFile(filings[f], f)' = PromisedFile(filings[f], f)
    BY DEF PromisedFile, Standing
  <1>4. [f \in Files |-> PromisedFile(filings[f], f)]' = [f \in Files |-> PromisedFile(filings[f], f)]
    BY <1>3
  <1>5. QED
    BY <1>2, <1>4 DEF Promise!vars

\* What is promised of a file depends on its row, and a row that is not there is
\* one discarded or not yet produced.
LEMMA PromisedByState ==
  ASSUME NEW r, NEW f
  PROVE  /\ PromisedFile(r, f).standing = Standing(r, f)
         /\ r.state \in Sendable =>
              Standing(r, f) = "draft" /\ DatedOn(r) = 0 /\ Receipt(r) = "none"
         /\ r.state = "sending" =>
              Standing(r, f) = "inFlight" /\ DatedOn(r) = r.sent /\ Receipt(r) = "none"
         /\ r.state = "filed" =>
              /\ Standing(r, f) = "filed" /\ DatedOn(r) = r.filedOn
              /\ Receipt(r) = IF r.upo # 0 THEN "official" ELSE "none"
         /\ r.state = "gone" =>
              /\ Standing(r, f) = IF f <= produced THEN "discarded" ELSE "none"
              /\ DatedOn(r) = 0 /\ Receipt(r) = "none"
  BY DEF PromisedFile, Standing, DatedOn, Receipt, Sendable

\* A step that writes the row of one file changes what is promised of that file
\* only.
LEMMA PromiseBecomes ==
  ASSUME TypeOK, NEW f \in Files, NEW r, filings' = [filings EXCEPT ![f] = r],
         gateway' = gateway, day' = day,
         \A g \in Files : g # f => (g <= produced' <=> g <= produced),
         NEW standing,
         \/ r.state \in Sendable /\ standing = "draft"
         \/ r.state = "sending" /\ standing = "inFlight"
         \/ r.state = "filed" /\ standing = "filed"
         \/ r.state = "gone" /\ f <= produced' /\ standing = "discarded"
  PROVE  Promise!Becomes(f, [standing |-> standing, purpose |-> r.purpose, made |-> r.made,
                             on |-> DatedOn(r), receipt |-> Receipt(r)])
  <1> DEFINE files == [g \in Files |-> PromisedFile(filings[g], g)]
             promised == [standing |-> standing, purpose |-> r.purpose, made |-> r.made,
                          on |-> DatedOn(r), receipt |-> Receipt(r)]
  <1>1. filings'[f] = r /\ \A g \in Files : g # f => filings'[g] = filings[g]
    BY DEF TypeOK
  <1>2. \A g \in Files : g # f => PromisedFile(filings[g], g)' = PromisedFile(filings[g], g)
    BY <1>1 DEF PromisedFile, Standing
  <1>3. PromisedFile(filings[f], f)' = promised
    BY <1>1 DEF PromisedFile, Standing, Sendable
  <1>4. files' = [files EXCEPT ![f] = promised]
    BY <1>2, <1>3
  <1>5. \A g \in Files : OfficeHas(g)' = OfficeHas(g)
    BY SameOffice
  <1>6. [g \in Files |-> OfficeHas(g)]' = [g \in Files |-> OfficeHas(g)]
    BY <1>5
  <1>7. QED
    BY <1>4, <1>6 DEF Promise!Becomes

\* Taking the claim is sending a draft that the tax office has nothing of.
LEMMA ClaimIsSend ==
  ASSUME PromiseContext, NEW w \in Workers, ClaimForSending(w)
  PROVE  Promise!Send(File(w))
  <1> DEFINE f == File(w)
             r == Row(w)
             c == Claimed(r)
             promised == [standing |-> "inFlight", purpose |-> c.purpose, made |-> c.made,
                          on |-> DatedOn(c), receipt |-> Receipt(c)]
  <1> USE DEF PromiseContext
  <1>1. /\ Here(w) /\ r.state \in Sendable /\ f \in Files /\ r \in Rows
        /\ filings' = [filings EXCEPT ![f] = c] /\ r = filings[f]
        /\ UNCHANGED <<produced, day, gateway>>
    BY HereIsAFile DEF ClaimForSending, Write, Row, MayClaim
  <1>2. c.state = "sending" /\ c.sent = day /\ c.purpose = r.purpose /\ c.made = r.made
    BY <1>1 DEF Claimed, Rows
  <1>3. OfficeHas(f) = "nothing"
    BY <1>1, OfficeHasNothing DEF Sendable
  <1> HIDE DEF c, r, f
  <1>4. Promise!Becomes(f, promised)
    BY <1>1, <1>2, PromiseBecomes
  <1>5. /\ DatedOn(c) = day /\ Receipt(c) = "none"
        /\ PromisedFile(r, f).purpose = c.purpose /\ PromisedFile(r, f).made = c.made
    BY <1>1, <1>2, PromisedByState DEF PromisedFile
  <1>6. PromisedFile(r, f).standing = "draft"
    BY <1>1, PromisedByState
  <1>7. QED
    BY <1>1, <1>3, <1>4, <1>5, <1>6 DEF Promise!Send, Promise!Moves, Promise!File, f

\* Releasing a claim, or learning of a refusal, is a return: the tax office has
\* nothing of the file.
LEMMA ReleaseIsReturn ==
  ASSUME PromiseContext, NEW w \in Workers, Here(w), NEW c, Conclude(w, c),
         Row(w).state = "sending", OfficeHas(File(w)) = "nothing",
         c.state \in Sendable, c.purpose = Row(w).purpose, c.made = Row(w).made
  PROVE  Promise!Return(File(w))
  <1> DEFINE f == File(w)
             r == Row(w)
             promised == [standing |-> "draft", purpose |-> c.purpose, made |-> c.made,
                          on |-> DatedOn(c), receipt |-> Receipt(c)]
  <1> USE DEF PromiseContext
  <1>1. /\ f \in Files /\ filings' = [filings EXCEPT ![f] = c] /\ r = filings[f]
        /\ UNCHANGED <<produced, day, gateway>>
    BY HereIsAFile DEF Conclude, Row
  <1>2. Promise!Becomes(f, promised)
    BY <1>1, PromiseBecomes
  <1>3. /\ DatedOn(c) = 0 /\ Receipt(c) = "none"
        /\ PromisedFile(r, f).purpose = c.purpose /\ PromisedFile(r, f).made = c.made
    BY PromisedByState DEF PromisedFile
  <1>4. PromisedFile(r, f).standing = "inFlight"
    BY PromisedByState
  <1>5. QED
    BY <1>1, <1>2, <1>3, <1>4 DEF Promise!Return, Promise!Moves, Promise!File

\* Storing a file draws up the next one, a correction if anything is filed.
LEMMA StoreIsProduce ==
  ASSUME PromiseContext, NEW w \in Workers, Store(w)
  PROVE  Promise!Produce(produced + 1)
  <1> DEFINE f == produced + 1
             c == NewRow(f, "produced", mem[w].purpose, mem[w].made)
             promised == [standing |-> "draft", purpose |-> c.purpose, made |-> c.made,
                          on |-> DatedOn(c), receipt |-> Receipt(c)]
             files == [g \in Files |-> PromisedFile(filings[g], g)]
  <1> USE DEF PromiseContext
  <1>1. /\ filings' = [filings EXCEPT ![f] = c] /\ produced' = f /\ gateway' = gateway /\ day' = day
        /\ f \in Files /\ pc[w] = "produce"
    BY BoundsAssumption DEF Store, Files, TypeOK
  <1>2. /\ c.state = "produced" /\ c.purpose = mem[w].purpose /\ c.made = mem[w].made
        /\ c.state \in Sendable
    BY DEF NewRow, Sendable
  <1>3. \A g \in Files : g # f => (g <= f <=> g <= produced)
    BY DEF Files, TypeOK
  <1>4. \A g \in Files : filings[g].state # "gone" => g <= produced
    BY DEF FilingInv, RowInv
  <1>5. \A g \in Files : g <= produced <=> ~(g >= f)
    BY DEF Files, TypeOK
  <1> HIDE DEF c, f
  <1>6. Promise!Becomes(f, promised)
    BY <1>1, <1>2, <1>3, PromiseBecomes
  <1>7. \A g \in Files : /\ files[g].standing = "none" <=> g >= f
                         /\ files[g].standing = "filed" <=> filings[g].state = "filed"
    <2> SUFFICES ASSUME NEW g \in Files
                 PROVE  /\ files[g].standing = "none" <=> g >= f
                        /\ files[g].standing = "filed" <=> filings[g].state = "filed"
      OBVIOUS
    <2>1. filings[g].state \in Sendable \cup {"sending", "filed", "gone"}
      BY DEF TypeOK, Rows, States, Sendable
    <2>2. files[g].standing = Standing(filings[g], g)
      BY PromisedByState
    <2>3. QED
      BY <1>4, <1>5, <2>1, <2>2, PromisedByState DEF Sendable
  <1>8. c.purpose = Promise!Purpose
    BY <1>1, <1>2, <1>7 DEF ProductionInv, Superseding, Promise!Purpose
  <1>9. c.made \in 1..day
    BY <1>1, <1>2 DEF ProductionInv
  <1>10. DatedOn(c) = 0 /\ Receipt(c) = "none"
    BY <1>2, PromisedByState
  <1>11. QED
    BY <1>6, <1>7, <1>8, <1>9, <1>10 DEF Promise!Produce, Promise!File, f

\* The row a verdict is written on makes the file known to be filed, or returns
\* it.
LEMMA SettlePromise ==
  ASSUME PromiseContext, NEW w \in Workers, Settle(w)
  PROVE  (Promise!Learn(File(w)) \/ Promise!Return(File(w))) \/ UNCHANGED Promise!vars
  <1> DEFINE f == File(w)
             r == Row(w)
             c == SettledBy(r, r)
             promised == [standing |-> "filed", purpose |-> c.purpose, made |-> c.made,
                          on |-> DatedOn(c), receipt |-> Receipt(c)]
  <1> USE DEF PromiseContext
  <1>1. /\ Here(w) /\ mem[w] = r /\ r = filings[f] /\ r.ref # 0 /\ Answered(r.ref)
    BY DEF Settle, FilingInv, RequestInv, CopyInv, CopyIsTheRow, ReferenceInv, RequestTruthful, Row
  <1>2. f \in Files /\ r \in Rows /\ OpenedFor(gateway, r.ref, f) /\ r.ref \in Sessions
    BY <1>1, RowHere, BoundsAssumption DEF Truthful, Rows, Sessions
  <1>3. Conclude(w, IF r.state = "sending" THEN c ELSE r)
    BY <1>1 DEF Settle
  <1>4. CASE r.state # "sending"
    <2>1. filings' = filings /\ UNCHANGED <<produced, day, gateway>>
      BY <1>1, <1>2, <1>3, <1>4 DEF Conclude, TypeOK
    <2>2. QED
      BY <2>1, PromiseUnmoved
  <1>5. CASE r.state = "sending" /\ gateway[r.ref].verdict # "accepted"
    <2>1. ~Live(r.ref)
      BY <1>1, <1>5 DEF Answered, Live
    <2>2. OfficeHas(f) = "nothing"
      BY <1>1, <1>2, <2>1, OfficeHasNothing
    <2>3. c.state = "rejected" /\ c.purpose = r.purpose /\ c.made = r.made
      BY <1>2, <1>5 DEF SettledBy, Rows
    <2>4. Conclude(w, c) /\ c.state \in Sendable
      BY <1>3, <1>5, <2>3 DEF Sendable
    <2>5. QED
      BY <1>1, <1>5, <2>2, <2>3, <2>4, ReleaseIsReturn
  <1>6. CASE r.state = "sending" /\ gateway[r.ref].verdict = "accepted"
    <2>1. /\ c.state = "filed" /\ c.filedOn = r.sent /\ c.upo = r.ref
          /\ c.purpose = r.purpose /\ c.made = r.made
      BY <1>2, <1>6 DEF SettledBy, FiledOn, Rows
    <2>2. /\ filings' = [filings EXCEPT ![f] = c] /\ UNCHANGED <<produced, day, gateway>>
      BY <1>3, <1>6 DEF Conclude
    <2>3. Live(r.ref) /\ gateway[r.ref].file = f
      BY <1>2, <1>6 DEF Live, OpenedFor
    <2>4. OfficeHas(f) = "accepted"
      <3>1. \A t \in Sessions : Live(t) /\ gateway[t].file = f => t = r.ref
        BY <1>1 DEF FilingInv, HeldInv
      <3>2. QED
        BY <1>2, <1>6, <2>3, <3>1, OfficeKnown
    <2> HIDE DEF c, r, f
    <2>5. Promise!Becomes(f, promised)
      BY <1>2, <2>1, <2>2, PromiseBecomes
    <2>6. /\ PromisedFile(r, f).standing = "inFlight" /\ PromisedFile(r, f).on = r.sent
          /\ PromisedFile(r, f).purpose = c.purpose /\ PromisedFile(r, f).made = c.made
          /\ DatedOn(c) = r.sent /\ Receipt(c) = "official"
      BY <1>1, <1>6, <2>1, PromisedByState DEF PromisedFile
    <2>7. Promise!Learn(f)
      BY <1>1, <1>2, <2>4, <2>5, <2>6 DEF Promise!Learn, Promise!Moves, Promise!File
    <2>8. QED
      BY <2>7 DEF f
  <1>7. QED
    BY <1>4, <1>5, <1>6

\* The owner's record is one, and a discard throws away a draft that the tax
\* office has nothing of.
LEMMA RecordIsRecord ==
  ASSUME PromiseContext, NEW w \in Workers, Record(w)
  PROVE  Promise!Record(File(w))
  <1> USE DEF PromiseContext
  <1>1. PICK filedOn \in Row(w).made..day : Conclude(w, RecordedOn(Row(w), filedOn))
    BY DEF Record
  <1> DEFINE f == File(w)
             r == Row(w)
             c == RecordedOn(r, filedOn)
             promised == [standing |-> "filed", purpose |-> c.purpose, made |-> c.made,
                          on |-> DatedOn(c), receipt |-> Receipt(c)]
  <1>2. Here(w) /\ r.state # "sending" /\ r = filings[f]
    BY DEF Record, FilingInv, RequestInv, CopyInv, CopyIsTheRow, MayRecord, Row
  <1>3. f \in Files /\ r \in Rows /\ r.state \in Sendable \cup {"filed"}
    BY <1>2, HereIsAFile DEF Rows, States, Sendable, Here
  <1>4. /\ c.state = "filed" /\ c.filedOn = filedOn /\ c.upo = 0
        /\ c.purpose = r.purpose /\ c.made = r.made
    BY <1>3 DEF RecordedOn, Rows
  <1>5. filings' = [filings EXCEPT ![f] = c] /\ UNCHANGED <<produced, day, gateway>>
    BY <1>1 DEF Conclude
  <1> HIDE DEF c, r, f
  <1>6. Promise!Becomes(f, promised)
    BY <1>3, <1>4, <1>5, PromiseBecomes
  <1>7. /\ PromisedFile(r, f).standing \in {"draft", "filed"}
        /\ PromisedFile(r, f).purpose = c.purpose /\ PromisedFile(r, f).made = c.made
        /\ PromisedFile(r, f).made = r.made
        /\ DatedOn(c) = filedOn /\ Receipt(c) = "none"
    BY <1>3, <1>4, PromisedByState DEF PromisedFile
  <1>8. filedOn \in r.made..day
    BY DEF r
  <1>9. Promise!Record(f)
    BY <1>2, <1>3, <1>6, <1>7, <1>8 DEF Promise!Record, Promise!Moves, Promise!File
  <1>10. QED
    BY <1>9 DEF f

LEMMA DeleteIsDiscard ==
  ASSUME PromiseContext, NEW w \in Workers, Delete(w)
  PROVE  Promise!Discard(File(w))
  <1> DEFINE f == File(w)
             r == Row(w)
             promised == [standing |-> "discarded", purpose |-> NoRow.purpose,
                          made |-> NoRow.made, on |-> DatedOn(NoRow), receipt |-> Receipt(NoRow)]
  <1> USE DEF PromiseContext
  <1>1. Here(w) /\ r.state \notin {"filed", "sending"} /\ r = filings[f] /\ Conclude(w, NoRow)
    BY DEF Delete, FilingInv, RequestInv, CopyInv, CopyIsTheRow, MayDiscard, Row
  <1>2. f \in Files /\ r \in Rows /\ r.state \in Sendable
    BY <1>1, HereIsAFile DEF Rows, States, Sendable, Here
  <1>3. f <= produced
    BY <1>1, <1>2 DEF FilingInv, RowInv, Here
  <1>4. filings' = [filings EXCEPT ![f] = NoRow] /\ UNCHANGED <<produced, day, gateway>>
    BY <1>1 DEF Conclude
  <1>5. NoRow.state = "gone" /\ NoRow.purpose = "first" /\ NoRow.made = 0
    BY DEF NoRow, NewRow
  <1>6. OfficeHas(f) = "nothing"
    BY <1>1, <1>2, OfficeHasNothing
  <1> HIDE DEF r, f
  <1>7. Promise!Becomes(f, promised)
    BY <1>2, <1>3, <1>4, <1>5, PromiseBecomes
  <1>8. DatedOn(NoRow) = 0 /\ Receipt(NoRow) = "none" /\ PromisedFile(r, f).standing = "draft"
    BY <1>2, <1>5, PromisedByState
  <1>9. Promise!Discard(f)
    BY <1>1, <1>2, <1>5, <1>6, <1>7, <1>8 DEF Promise!Discard, Promise!Blank, Promise!File
  <1>10. QED
    BY <1>9 DEF f

\* Clearing a date is a retraction, or nothing where the file was not filed.
LEMMA UnrecordIsRetract ==
  ASSUME PromiseContext, NEW w \in Workers, Unrecord(w), NoFilingUndone
  PROVE  Promise!Retract(File(w)) \/ UNCHANGED Promise!vars
  <1> USE DEF PromiseContext
  <1> DEFINE f == File(w)
             r == Row(w)
             c == Unrecorded(r)
             promised == [standing |-> "draft", purpose |-> c.purpose, made |-> c.made,
                          on |-> DatedOn(c), receipt |-> Receipt(c)]
  <1>1. Here(w) /\ r.state # "sending" /\ r = filings[f] /\ Conclude(w, c)
    BY DEF Unrecord, FilingInv, RequestInv, CopyInv, CopyIsTheRow, MayRecord, Row
  <1>2. f \in Files /\ r \in Rows /\ r.state \in Sendable \cup {"filed"}
    BY <1>1, HereIsAFile DEF Rows, States, Sendable, Here
  <1>3. /\ c.state = "produced" /\ c.upo = 0
        /\ c.purpose = r.purpose /\ c.made = r.made
    BY <1>2 DEF Unrecorded, Rows
  <1>4. filings' = [filings EXCEPT ![f] = c] /\ UNCHANGED <<produced, day, gateway>>
    BY <1>1 DEF Conclude
  <1>5. r.state = "filed" => ~WithTheOffice(f) /\ ~CorrectedSince(f)
    BY DEF NoFilingUndone
  <1> HIDE DEF c, r, f
  <1>6. c.state \in Sendable
    BY <1>3 DEF Sendable
  <1>7. Promise!Becomes(f, promised)
    BY <1>2, <1>3, <1>4, <1>6, PromiseBecomes, PromisedByState
  <1>8. DatedOn(c) = 0 /\ Receipt(c) = "none"
    BY <1>6, PromisedByState
  <1>9. CASE r.state = "filed"
    <2>1. PromisedFile(filings[f], f).standing = "filed"
      BY <1>1, <1>9, PromisedByState
    <2>2. OfficeHas(f) = "nothing"
      BY <1>5, <1>9, OfficeKnown DEF WithTheOffice
    <2>3. ASSUME NEW g \in Files, g > f,
                 PromisedFile(filings[g], g).standing \in {"draft", "inFlight", "filed"}
          PROVE  PromisedFile(filings[g], g).purpose = "first"
      <3>1. filings[g].state # "gone"
        BY <2>3, PromisedByState
      <3>2. filings[g].purpose # "correction" /\ filings[g] \in Rows
        BY <1>2, <1>5, <1>9, <2>3, <3>1 DEF CorrectedSince, TypeOK, Files
      <3>3. QED
        BY <3>2 DEF PromisedFile, Rows
    <2>4. Promise!Moves(f, "draft", 0, "none")
      <3>1. promised = Promise!File("draft", r.purpose, r.made, 0, "none")
        BY <1>3, <1>8 DEF Promise!File
      <3>2. PromisedFile(filings[f], f).purpose = r.purpose /\ PromisedFile(filings[f], f).made = r.made
        BY <1>1 DEF PromisedFile
      <3> HIDE DEF promised
      <3>3. QED
        BY <1>2, <1>7, <3>1, <3>2 DEF Promise!Moves
    <2>5. Promise!Retract(f)
      BY <1>2, <2>1, <2>2, <2>3, <2>4 DEF Promise!Retract
    <2>6. QED
      BY <2>5 DEF f
  <1>10. CASE r.state \in Sendable
    <2>1. promised = PromisedFile(filings[f], f)
      BY <1>1, <1>3, <1>8, <1>10, PromisedByState DEF PromisedFile
    <2> DEFINE files == [g \in Files |-> PromisedFile(filings[g], g)]
               office == [g \in Files |-> OfficeHas(g)]
    <2> HIDE DEF promised
    <2>2. files' = [files EXCEPT ![f] = promised] /\ office' = office /\ day' = day
      BY <1>7 DEF Promise!Becomes
    <2>3. files[f] = promised
      BY <1>2, <2>1
    <2>4. files = [files EXCEPT ![f] = files[f]]
      OBVIOUS
    <2>5. files' = files
      BY <2>2, <2>3, <2>4
    <2>6. QED
      BY <2>2, <2>5 DEF Promise!vars
  <1>11. QED
    BY <1>2, <1>9, <1>10

\* Deciding, or finishing a session, changes what the tax office has of one file
\* only.
LEMMA OfficeDecides ==
  ASSUME TypeOK, NEW s \in Sessions, NEW verdict, NEW f \in Files, NEW from, NEW to,
         gateway' = [gateway EXCEPT ![s].verdict = verdict],
         gateway[s].file = f, UNCHANGED <<filings, produced, day>>,
         OfficeHas(f) = from, OfficeHas(f)' = to
  PROVE  Promise!Decides(f, from, to)
  <1>1. \A t \in Sessions : t # s => gateway'[t] = gateway[t]
    BY DEF TypeOK
  <1>2. gateway'[s].file = f
    BY DEF TypeOK
  <1>3. ASSUME NEW g \in Files, g # f
        PROVE  OfficeHas(g)' = OfficeHas(g)
    <2> DEFINE Has(gw, v) == \E t \in Sessions : gw[t].file = g /\ gw[t].verdict = v
    <2>1. \A v : Has(gateway', v) <=> Has(gateway, v)
      BY <1>1, <1>2, <1>3
    <2>2. (Has(gateway', "accepted") <=> Has(gateway, "accepted"))
          /\ (Has(gateway', "processing") <=> Has(gateway, "processing"))
      BY <2>1
    <2>3. QED
      BY <2>2 DEF OfficeHas
  <1> DEFINE office == [g \in Files |-> OfficeHas(g)]
             files == [g \in Files |-> PromisedFile(filings[g], g)]
  <1>4. office' = [office EXCEPT ![f] = to]
    BY <1>3
  <1>5. \A g \in Files : PromisedFile(filings[g], g)' = PromisedFile(filings[g], g)
    BY DEF PromisedFile, Standing
  <1>6. files' = files
    BY <1>5
  <1>7. QED
    BY <1>4, <1>6 DEF Promise!Decides

\* Finishing the session hands the tax office a file that is in flight, and that
\* it had nothing of.
LEMMA FinishUploadIsReceive ==
  ASSUME PromiseContext, NEW w \in Workers, FinishUpload(w)
  PROVE  Promise!Receive(File(w))
  <1> DEFINE f == File(w)
             s == session[w]
  <1> USE DEF PromiseContext
  <1>1. /\ pc[w] = "finish" /\ gateway[s].verdict = "stored"
        /\ gateway' = [gateway EXCEPT ![s].verdict = "processing"]
        /\ UNCHANGED <<filings, produced, day>>
    BY DEF FinishUpload, dbVars
  <1>2. f \in Files /\ filings[f].state = "sending" /\ filings[f].ref = s /\ s # 0
    BY <1>1 DEF FilingInv, RequestInv, SenderInv, SendingPlaces, Row
  <1>3. s \in Sessions /\ gateway[s].file = f
    BY <1>2, BoundsAssumption DEF TypeOK, Sessions, ReferenceInv, RequestTruthful, OpenedFor
  <1>4. OfficeHas(f) = "nothing"
    BY <1>1, <1>2, OfficeHasNothing DEF Live
  <1> HIDE DEF f, s
  <1>5. /\ gateway'[s].file = f /\ gateway'[s].verdict = "processing"
        /\ \A t \in Sessions : t # s => gateway'[t] = gateway[t]
    BY <1>1, <1>3 DEF TypeOK
  <1>6. \A t \in Sessions : Live(t) => gateway[t].file # f
    BY <1>1, <1>2 DEF FilingInv, HeldInv, Live
  <1>7. \A t \in Sessions : gateway'[t].file = f /\ gateway'[t].verdict = "accepted" => FALSE
    BY <1>5, <1>6 DEF Live
  <1> DEFINE Has(verdict) == \E t \in Sessions : gateway'[t].file = f /\ gateway'[t].verdict = verdict
  <1>8. Has("processing") /\ ~Has("accepted")
    BY <1>3, <1>5, <1>7
  <1>9. \A g : g = f => OfficeHas(g)' = "processing"
    BY <1>8 DEF OfficeHas
  <1>10. \A g \in Files : g = f => Promise!Decides(g, "nothing", "processing")
    BY <1>1, <1>3, <1>4, <1>9, OfficeDecides
  <1>11. PromisedFile(filings[f], f).standing = "inFlight"
    BY <1>2, PromisedByState
  <1>12. QED
    BY <1>2, <1>10, <1>11 DEF Promise!Receive, f

\* The gateway's verdict is the tax office's.
LEMMA DecideIsDecided ==
  ASSUME PromiseContext, NEW s \in Sessions, Decide(s)
  PROVE  \E f \in Files : Promise!Accept(f) \/ Promise!Refuse(f)
  <1> USE DEF PromiseContext
  <1>1. PICK verdict \in {"accepted", "rejected"} :
          gateway' = [gateway EXCEPT ![s].verdict = verdict]
    BY DEF Decide
  <1>2. gateway[s].verdict = "processing" /\ UNCHANGED <<filings, produced, day>>
    BY DEF Decide, dbVars
  <1>3. PICK f \in Files : gateway[s].file = f
    BY <1>2 DEF FilingInv, HeldInv, Live
  <1>4. \A t \in Sessions : Live(t) /\ gateway[t].file = f => t = s
    BY <1>2, <1>3 DEF FilingInv, HeldInv, Live
  <1>5. OfficeHas(f) = "processing"
    BY <1>2, <1>3, <1>4, OfficeKnown DEF Live
  <1>6. /\ gateway'[s].file = f /\ gateway'[s].verdict = verdict
        /\ \A t \in Sessions : t # s => gateway'[t] = gateway[t]
    BY <1>1, <1>3 DEF TypeOK
  <1> DEFINE Has(v) == \E t \in Sessions : gateway'[t].file = f /\ gateway'[t].verdict = v
  <1>7. CASE verdict = "accepted"
    <2>1. Has("accepted")
      BY <1>6, <1>7
    <2>2. OfficeHas(f)' = "accepted"
      BY <2>1 DEF OfficeHas
    <2>3. Promise!Decides(f, "processing", "accepted")
      BY <1>1, <1>2, <1>3, <1>5, <2>2, OfficeDecides
    <2>4. QED
      BY <2>3 DEF Promise!Accept
  <1>8. CASE verdict = "rejected"
    <2>1. ~Has("accepted") /\ ~Has("processing")
      BY <1>4, <1>6, <1>8 DEF Live
    <2>2. OfficeHas(f)' = "nothing"
      BY <2>1 DEF OfficeHas
    <2>3. Promise!Decides(f, "processing", "nothing")
      BY <1>1, <1>2, <1>3, <1>5, <2>2, OfficeDecides
    <2>4. QED
      BY <2>3 DEF Promise!Refuse
  <1>9. QED
    BY <1>7, <1>8

\* A request's step is a step of what is promised, or leaves it as it is.
LEMMA RequestPromise ==
  ASSUME PromiseContext, NEW w \in Workers, Handle(w), NoFilingUndone
  PROVE  [Promise!Next]_(Promise!vars)
  <1> USE DEF PromiseContext
  <1>1. ASSUME NEW f \in Files, Promise!Step(f)
        PROVE  [Promise!Next]_(Promise!vars)
    BY <1>1 DEF Promise!Next
  <1>2. CASE UNCHANGED <<filings, produced, day, gateway>>
    BY <1>2, PromiseUnmoved
  <1>3. CASE GiveUp(w)
    BY <1>2, <1>3 DEF GiveUp, dbVars
  <1>4. CASE \E op, f, place : Load(w, op, f, place)
    BY <1>2, <1>4 DEF Load, dbVars
  <1>5. CASE Producing(w)
    <2>1. CASE Produce(w)
      BY <1>2, <2>1 DEF Produce, dbVars
    <2>2. CASE Store(w)
      <3>1. produced + 1 \in Files
        BY <2>2, BoundsAssumption DEF Store, Files, TypeOK
      <3>2. QED
        BY <1>1, <2>2, <3>1, StoreIsProduce DEF Promise!Step
    <2>3. QED
      BY <1>3, <1>5, <2>1, <2>2 DEF Producing, StoreRefused
  <1>6. CASE Sending(w)
    <2>1. CASE LoadToSend(w)
      BY <1>4, <2>1 DEF LoadToSend
    <2>2. CASE SendRefused(w) \/ ClaimLost(w) \/ ReferenceMissing(w)
      BY <1>3, <2>2 DEF SendRefused, ClaimLost, ReferenceMissing
    <2>3. CASE ClaimForSending(w)
      BY <1>1, <2>3, ClaimIsSend, HereIsAFile DEF ClaimForSending, Promise!Step
    <2>4. CASE OpenSession(w) \/ Upload(w)
      <3>1. UNCHANGED <<filings, produced, day>>
        BY <2>4 DEF OpenSession, Upload, dbVars
      <3>2. \A s \in Sessions : gateway'[s] = gateway[s] \/ (~Live(s) /\ ~Live(s)')
        <4>1. CASE OpenSession(w)
          <5>1. PICK s \in Sessions :
                  /\ \A t \in Sessions : gateway[t].verdict = "unused" <=> t >= s
                  /\ gateway' = [gateway EXCEPT ![s] =
                                   [file |-> File(w), verdict |-> "open", sent |-> mem[w].sent]]
            BY <4>1 DEF OpenSession
          <5>2. gateway[s].verdict = "unused"
            BY <5>1 DEF Sessions
          <5>3. gateway'[s].verdict = "open" /\ \A t \in Sessions : t # s => gateway'[t] = gateway[t]
            BY <5>1 DEF TypeOK
          <5>4. QED
            BY <5>2, <5>3 DEF Live
        <4>2. CASE Upload(w)
          <5>1. /\ gateway[session[w]].verdict = "open"
                /\ gateway' = [gateway EXCEPT ![session[w]].verdict = "stored"]
            BY <4>2 DEF Upload
          <5>2. \A t \in Sessions : t # session[w] => gateway'[t] = gateway[t]
            BY <5>1 DEF TypeOK
          <5>3. session[w] \in Sessions => gateway'[session[w]].verdict = "stored"
            BY <5>1 DEF TypeOK
          <5>4. QED
            BY <5>1, <5>2, <5>3 DEF Live
        <4>3. QED
          BY <2>4, <4>1, <4>2
      <3>3. QED
        BY <3>1, <3>2, PromiseUnmoved
    <2>5. CASE OpenFails(w) \/ TransferFails(w)
      BY <1>2, <2>5 DEF OpenFails, TransferFails, dbVars
    <2>6. CASE ReleaseClaim(w)
      <3>1. /\ Here(w) /\ Row(w).state = "sending" /\ Row(w).ref = 0
            /\ Conclude(w, Released(Row(w)))
        BY <2>6 DEF ReleaseClaim, FilingInv, RequestInv, SenderInv, SendingPlaces
      <3>2. File(w) \in Files /\ Row(w) \in Rows
        BY <3>1, HereIsAFile
      <3>3. /\ Released(Row(w)).state \in Sendable
            /\ Released(Row(w)).purpose = Row(w).purpose /\ Released(Row(w)).made = Row(w).made
        BY <3>2 DEF Released, Rows, Sendable
      <3>4. OfficeHas(File(w)) = "nothing"
        BY <3>1, <3>2, OfficeHasNothing DEF Row, Sessions
      <3>5. Promise!Return(File(w))
        BY <3>1, <3>3, <3>4, ReleaseIsReturn
      <3>6. QED
        BY <1>1, <3>2, <3>5 DEF Promise!Step
    <2>7. CASE RecordReference(w)
      <3> DEFINE r == Row(w)
                 c == Referenced(r, session[w])
      <3>1. /\ Here(w) /\ filings' = [filings EXCEPT ![File(w)] = c]
            /\ UNCHANGED <<produced, day, gateway>> /\ r.state = "sending"
        BY <2>7 DEF RecordReference, Write, FilingInv, RequestInv, SenderInv, SendingPlaces
      <3>2. File(w) \in Files /\ r \in Rows /\ r = filings[File(w)]
        BY <3>1, HereIsAFile DEF Row
      <3>3. /\ c.state = "sending" /\ c.sent = r.sent
            /\ c.purpose = r.purpose /\ c.made = r.made
        BY <3>1, <3>2 DEF Referenced, Rows
      <3> HIDE DEF r, c
      <3>4. \A g \in Files : PromisedFile(filings[g], g)' = PromisedFile(filings[g], g)
        BY <3>1, <3>2, <3>3 DEF PromisedFile, Standing, DatedOn, Receipt, TypeOK, Sendable
      <3>5. [g \in Files |-> PromisedFile(filings[g], g)]'
              = [g \in Files |-> PromisedFile(filings[g], g)]
        BY <3>4
      <3>6. \A g \in Files : OfficeHas(g)' = OfficeHas(g)
        BY <3>1, SameOffice
      <3>7. [g \in Files |-> OfficeHas(g)]' = [g \in Files |-> OfficeHas(g)]
        BY <3>6
      <3>8. QED
        BY <3>1, <3>5, <3>7 DEF Promise!vars
    <2>8. CASE FinishUpload(w)
      <3>1. File(w) \in Files
        BY <2>8 DEF FinishUpload, FilingInv, RequestInv, SenderInv, SendingPlaces
      <3>2. QED
        BY <1>1, <2>8, <3>1, FinishUploadIsReceive DEF Promise!Step
    <2>9. CASE RecordUnresolvedFailure(w)
      <3>1. Here(w) /\ Conclude(w, Row(w))
        BY <2>9 DEF RecordUnresolvedFailure, AfterFailure
      <3>2. filings' = filings /\ UNCHANGED <<produced, day, gateway>>
        BY <3>1, HereIsAFile DEF Conclude, Row, TypeOK
      <3>3. QED
        BY <1>2, <3>2
    <2>10. QED
      BY <1>6, <2>1, <2>2, <2>3, <2>4, <2>5, <2>6, <2>7, <2>8, <2>9 DEF Sending
  <1>7. CASE Resolving(w)
    <2>1. CASE LoadForStatus(w) \/ AskUnanswered(w)
      BY <1>3, <1>4, <2>1 DEF LoadForStatus, AskUnanswered
    <2>2. CASE Ask(w)
      BY <1>2, <2>2 DEF Ask, dbVars
    <2>3. CASE Settle(w)
      BY <1>1, <2>3, SettlePromise, HereIsAFile DEF Settle, Promise!Step
    <2>4. QED
      BY <1>7, <2>1, <2>2, <2>3 DEF Resolving
  <1>8. CASE Recording(w)
    <2>1. CASE LoadToRecord(w) \/ LoadToDelete(w)
      BY <1>4, <2>1 DEF LoadToRecord, LoadToDelete
    <2>2. CASE Record(w)
      BY <1>1, <2>2, RecordIsRecord, HereIsAFile DEF Record, Promise!Step
    <2>3. CASE Delete(w)
      BY <1>1, <2>3, DeleteIsDiscard, HereIsAFile DEF Delete, Promise!Step
    <2>4. CASE Unrecord(w)
      BY <1>1, <2>4, UnrecordIsRetract, HereIsAFile DEF Unrecord, Promise!Step
    <2>5. QED
      BY <1>8, <2>1, <2>2, <2>3, <2>4 DEF Recording
  <1>9. QED
    BY <1>3, <1>5, <1>6, <1>7, <1>8 DEF Handle, Vanished, Crash

\* So is the gateway's, and a day's passing.
LEMMA PromiseStep ==
  PromiseContext /\ [Next]_vars /\ [NoFilingUndone]_vars => [Promise!Next]_(Promise!vars)
  <1> SUFFICES ASSUME PromiseContext, [Next]_vars, [NoFilingUndone]_vars
               PROVE  [Promise!Next]_(Promise!vars)
    OBVIOUS
  <1>1. ASSUME NEW s \in Sessions, Decide(s)
        PROVE  [Promise!Next]_(Promise!vars)
    BY <1>1, DecideIsDecided DEF Promise!Next, Promise!Step
  <1>2. ASSUME NEW s \in Sessions, Abandon(s)
        PROVE  [Promise!Next]_(Promise!vars)
    <2>1. \A t \in Sessions : gateway'[t] = gateway[t] \/ (~Live(t) /\ ~Live(t)')
      BY <1>2 DEF Abandon, Live, PromiseContext, TypeOK
    <2>2. QED
      BY <1>2, <2>1, PromiseUnmoved DEF Abandon, dbVars
  <1>3. CASE NextDay
    <2>1. UNCHANGED <<filings, produced, gateway>> /\ day' = day + 1
      BY <1>3 DEF NextDay, dbVars
    <2>2. \A g \in Files : /\ PromisedFile(filings[g], g)' = PromisedFile(filings[g], g)
                           /\ OfficeHas(g)' = OfficeHas(g)
      BY <2>1, SameOffice DEF PromisedFile, Standing
    <2>3. [g \in Files |-> PromisedFile(filings[g], g)]'
            = [g \in Files |-> PromisedFile(filings[g], g)]
      BY <2>2
    <2>4. [g \in Files |-> OfficeHas(g)]' = [g \in Files |-> OfficeHas(g)]
      BY <2>2
    <2>5. QED
      BY <2>1, <2>3, <2>4 DEF Promise!Next, Promise!NextDay
  <1>4. CASE UNCHANGED vars
    BY <1>4, PromiseUnmoved DEF vars
  <1>5. QED
    BY <1>1, <1>2, <1>3, <1>4, RequestPromise DEF Next, Processing

\* Nothing is promised at first.
LEMMA InitPromise == Init => Promise!Init /\ ProductionInv
  <1> SUFFICES ASSUME Init
               PROVE  Promise!Init /\ ProductionInv
    OBVIOUS
  <1>1. ASSUME NEW f \in Files
        PROVE  PromisedFile(filings[f], f) = Promise!Blank("none") /\ OfficeHas(f) = "nothing"
    <2>1. filings[f] = NoRow /\ ~(f <= produced)
      BY DEF Init, Files
    <2>2. NoRow.state = "gone" /\ NoRow.purpose = "first" /\ NoRow.made = 0
      BY DEF NoRow, NewRow
    <2>3. PromisedFile(filings[f], f) = Promise!Blank("none")
      BY <2>1, <2>2, PromisedByState DEF PromisedFile, Promise!Blank, Promise!File
    <2>4. \A s \in Sessions : ~Live(s)
      BY DEF Init, Live
    <2>5. OfficeHas(f) = "nothing"
      BY <2>4, OfficeKnown
    <2>6. QED
      BY <2>3, <2>5
  <1>2. [f \in Files |-> PromisedFile(filings[f], f)] = [f \in Files |-> Promise!Blank("none")]
    BY <1>1
  <1>3. [f \in Files |-> OfficeHas(f)] = [f \in Files |-> "nothing"]
    BY <1>1
  <1>4. day = 1 /\ ProductionInv
    BY DEF Init, ProductionInv
  <1>5. QED
    BY <1>2, <1>3, <1>4 DEF Promise!Init

\* Claiming, uploading, losing answers, polling, recording, clearing a date and
\* discarding together do no more to a year's files than is promised
\* (views.py: filing_create to filing_delete, jpk_gateway/sending.py), so long
\* as no date is cleared off a file that the tax office has or that was
\* corrected since, which nothing there refuses.
THEOREM GatewayImplementsAnnualFiling ==
  ASSUME InTurn
  PROVE  Spec /\ [][NoFilingUndone]_vars => ImplementsAnnualFiling
  <1>1. Init => TypeOK /\ ReferenceInv /\ FilingInv /\ ProductionInv /\ Promise!Init
    BY InitType, InitReference, InitFiling, InitPromise
  <1>2. TypeOK /\ ReferenceInv /\ FilingInv /\ [Next]_vars /\ [NoFilingUndone]_vars
          => (TypeOK /\ ReferenceInv /\ FilingInv)'
    BY TypeStep, ReferenceInvStep, FilingStep
  <1>3. TypeOK /\ ReferenceInv /\ FilingInv /\ ProductionInv /\ [Next]_vars => ProductionInv'
    BY ProductionStep DEF PromiseContext
  <1>4. TypeOK /\ ReferenceInv /\ FilingInv /\ ProductionInv /\ [Next]_vars /\ [NoFilingUndone]_vars
          => [Promise!Next]_(Promise!vars)
    BY PromiseStep DEF PromiseContext
  <1>5. Spec /\ [][NoFilingUndone]_vars => Promise!Init /\ [][Promise!Next]_(Promise!vars)
    BY <1>1, <1>2, <1>3, <1>4, PTL DEF Spec
  <1>6. QED
    BY <1>5 DEF ImplementsAnnualFiling, Promise!Spec

\* Requests of which none clears a date undo no filing, so for them these
\* theorems hold of every behaviour.
THEOREM NothingIsUndone ==
  ASSUME InTurn, "unrecord" \notin Ops
  PROVE  Spec => [][NoFilingUndone]_vars
  <1>1. TypeOK /\ ReferenceInv /\ FilingInv => NoFilingUndone
    BY DEF FilingInv, RequestInv, CopyInv, Unrecord, NoFilingUndone
  <1>2. Init => TypeOK /\ ReferenceInv /\ FilingInv
    BY InitType, InitReference, InitFiling
  <1>3. TypeOK /\ ReferenceInv /\ FilingInv /\ [Next]_vars => (TypeOK /\ ReferenceInv /\ FilingInv)'
    BY <1>1, TypeStep, ReferenceInvStep, FilingStep
  <1>4. QED
    BY <1>1, <1>2, <1>3, PTL DEF Spec
=============================================================================
