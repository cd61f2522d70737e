---------------------------- MODULE InvoiceLedger ----------------------------
(***************************************************************************)
(* The documents of a month's series, and the figures the register takes   *)
(* from them: what each is worth in PLN, what is owed once it has been      *)
(* corrected, what its payment was worth and how much of the currency it   *)
(* brought in has been sold. NBP may be out of reach at any conversion.     *)
(*                                                                         *)
(* A document is its number. How one is submitted, and the races of an     *)
(* edit with that, are InvoiceSending; here sending is one step, and so is *)
(* the check of an edit with the write it allows.                          *)
(*                                                                         *)
(* Amounts are whole grosze, or cents, and a rate is a number of Scale-ths. *)
(* A date is the year it falls in, and each year has one rate.              *)
(***************************************************************************)
EXTENDS Integers, FiniteSets, FiniteSetsExt

CONSTANTS
  Workers,     \* the requests that can be served at the same time
  Ops,         \* which requests arrive
  Crashes,     \* whether a request may die part way
  Currencies,  \* what invoices are billed in, "PLN" being at no rate
  Totals,      \* what the lines of a document can come to
  RateBefore,  \* NBP's rate for each year
  TextPlace,   \* where each number comes when they are sorted as text
  Scale,       \* what one whole is in rates
  Missing,     \* a figure that could not be established: the column is null
  MaxDocs,     \* bound: the highest number in the series
  MaxInvoices, \* bound: documents that correct none, at one time
  MaxSales     \* bound: sales of currency recorded at one time

Years == DOMAIN RateBefore
AllOps == {"invoice", "correct", "issue", "discard", "pay", "sell", "unsell", "open", "register"}

ASSUME OpsAssumption == Ops \subseteq AllOps
ASSUME CrashesAssumption == Crashes \in BOOLEAN
ASSUME CurrenciesAssumption == Currencies \subseteq {"PLN", "EUR"}
ASSUME AmountsAssumption ==
  /\ Totals \subseteq Nat
  /\ Scale \in Nat \ {0}
  /\ Years \subseteq Nat \ {0} /\ Years # {}
  /\ \A y \in Years : RateBefore[y] \in Nat \ {0}
ASSUME MissingAssumption == Missing \notin Int
ASSUME BoundsAssumption ==
  MaxDocs \in Nat \ {0} /\ MaxInvoices \in Nat /\ MaxSales \in Nat

\* Numbers differ, and so do their texts. Those may be in any order: a sequence
\* is not padded, so a tenth comes before a second, and an invoice's is typed.
ASSUME TextPlaceAssumption ==
  /\ TextPlace \in [1..MaxDocs -> Nat]
  /\ \A d, e \in 1..MaxDocs : TextPlace[d] = TextPlace[e] => d = e

VARIABLES
  docs,   \* the Invoice rows, by number
  paid,   \* the payment columns of each
  sales,  \* the CurrencySale rows
  today,  \* this year
  pc,     \* where each request stands
  mem     \* what each request has read

vars == <<docs, paid, sales, today, pc, mem>>

-----------------------------------------------------------------------------
(* Rows.                                                                   *)

Docs == 1..MaxDocs
States == {"none", "open", "sending", "issued"}

NoRate == 0
Figures == Int \cup {Missing}
Rates == {NoRate} \cup {RateBefore[y] : y \in Years}

\* date is the year of revenue_date; corrects is the document corrected, or 0.
DocRows == [state : States, corrects : 0..MaxDocs, currency : {"PLN", "EUR"},
            date : {0} \cup Years, total : Nat, pln : Figures, rate : Rates]
PaymentRows == [on : {0} \cup Years, pln : Figures, rate : Rates]
SaleRows == [doc : 0..MaxDocs, amount : Nat]

NoDoc == [state |-> "none", corrects |-> 0, currency |-> "PLN", date |-> 0,
          total |-> 0, pln |-> Missing, rate |-> NoRate]
NoPayment == [on |-> 0, pln |-> Missing, rate |-> NoRate]
NoSale == [doc |-> 0, amount |-> 0]

Stored(d) == docs[d].state # "none"
Issued(d) == docs[d].state = "issued"
CorrectionsOf(d) == {e \in Docs : Stored(e) /\ docs[e].corrects = d}

\* The number after the highest in use, whichever kind of document has that.
NextNumber == 1 + Max({0} \cup {d \in Docs : Stored(d)})

-----------------------------------------------------------------------------
(* Figures.                                                                *)

\* Halves go away from zero.
RoundHalfUp(n, unit) ==
  IF n >= 0 THEN (2 * n + unit) \div (2 * unit) ELSE -((unit - 2 * n) \div (2 * unit))

\* An amount in PLN is converted at no rate.
AtRate(amount, rate) ==
  IF rate = NoRate THEN amount ELSE RoundHalfUp(amount * rate, Scale)

RateFor(currency, year) == IF currency = "PLN" THEN NoRate ELSE RateBefore[year]

\* The head of a document's chain.
OriginalOf[d \in Docs] == IF docs[d].corrects = 0 THEN d ELSE OriginalOf[docs[d].corrects]

\* What is owed on a document: what its last issued correction came to, down
\* the chain, or what it came to itself.
TotalAfterCorrections[d \in Docs] ==
  LET issued == {e \in CorrectionsOf(d) : Issued(e)} IN
  IF issued = {} THEN docs[d].total ELSE TotalAfterCorrections[Min(issued)]

DifferenceFromOriginal(total, d) == total - docs[OriginalOf[d]].total
Difference(total, d) == total - docs[d].total

\* What NBP may be got to say: the figure, or nothing when it is out of reach
\* or the day has not arrived.
Conversions(amount, currency, year) ==
  (IF currency = "PLN" \/ year <= today
   THEN {[pln |-> AtRate(amount, RateFor(currency, year)), rate |-> RateFor(currency, year)]}
   ELSE {})
  \cup (IF currency = "PLN" THEN {} ELSE {[pln |-> Missing, rate |-> NoRate]})

\* A correction is converted as what it corrects was, and needs no NBP; nothing
\* where that has no figure.
CorrectionConversion(total, d, figure) ==
  IF figure = Missing THEN [pln |-> Missing, rate |-> NoRate]
  ELSE [pln |-> AtRate(Difference(total, d), docs[d].rate), rate |-> docs[d].rate]

RevenueConversions(d) ==
  IF docs[d].corrects = 0
  THEN Conversions(docs[d].total, docs[d].currency, docs[d].date)
  ELSE {CorrectionConversion(docs[d].total, docs[d].corrects, docs[docs[d].corrects].pln)}

\* The columns are the whole conversion, or none of it.
ConvertedKeepingRate(row, conversion) == [row EXCEPT !.pln = conversion.pln]
Converted(row, conversion) == [row EXCEPT !.pln = conversion.pln, !.rate = conversion.rate]

CurrencySold(d) ==
  LET ofDoc == {n \in DOMAIN sales : sales[n].doc = d}
  IN MapThenSumSet(LAMBDA n : sales[n].amount, ofDoc)

CurrencyUnsold(d) == TotalAfterCorrections[d] - CurrencySold(d)

-----------------------------------------------------------------------------
(* What requests have in common.                                           *)

Places == {"idle", "revenue", "correct", "restate", "payment", "sell"}
NoMemory == [doc |-> 0, editing |-> 0, on |-> 0, figure |-> 0]

Goto(w, place, memory) ==
  /\ pc' = [pc EXCEPT ![w] = place]
  /\ mem' = [mem EXCEPT ![w] = memory]

Finish(w) == Goto(w, "idle", NoMemory)

Begin(w, op) == op \in Ops /\ pc[w] = "idle"

Remember(d) == [NoMemory EXCEPT !.doc = d]

Crash(w) ==
  /\ Crashes
  /\ pc[w] # "idle"
  /\ Finish(w)
  /\ UNCHANGED <<docs, paid, sales, today>>

NextYear ==
  /\ today + 1 \in Years
  /\ today' = today + 1
  /\ UNCHANGED <<docs, paid, sales, pc, mem>>

-----------------------------------------------------------------------------
(* Drawing documents up.                                                   *)

\* What a submitted invoice is stored as, before its revenue is.
InvoiceOf(total, currency, year) ==
  [NoDoc EXCEPT !.state = "open", !.currency = currency, !.date = year, !.total = total]

\* Storing an invoice for a month, or storing it over. Its lines come first and
\* its revenue in a statement after them.
StoreInvoice(w) ==
  /\ Begin(w, "invoice")
  /\ \E total \in Totals \ {0}, currency \in Currencies, year \in Years :
       \/ /\ NextNumber \in Docs
          /\ Cardinality({d \in Docs : Stored(d) /\ docs[d].corrects = 0}) < MaxInvoices
          /\ docs' = [docs EXCEPT ![NextNumber] = InvoiceOf(total, currency, year)]
          /\ Goto(w, "revenue", Remember(NextNumber))
       \/ \E d \in Docs :
            /\ docs[d].state = "open" /\ docs[d].corrects = 0
            /\ docs' = [docs EXCEPT ![d].currency = currency, ![d].date = year, ![d].total = total]
            /\ Goto(w, "revenue", Remember(d))
  /\ UNCHANGED <<paid, sales, today>>

\* What is converted is read, and the figure written, in one step.
RecordRevenue(w) ==
  /\ pc[w] = "revenue"
  /\ LET d == mem[w].doc IN
     IF Stored(d)
     THEN \E conversion \in RevenueConversions(d) :
            docs' = [docs EXCEPT ![d] = Converted(@, conversion)]
     ELSE UNCHANGED docs
  /\ Finish(w)
  /\ UNCHANGED <<paid, sales, today>>

\* An issued document is corrected once, and after that its correction is.
CorrectableUnlessCorrected(d) == Issued(d) /\ \A e \in CorrectionsOf(d) : ~Issued(e)
Correctable(d) == Issued(d) /\ CorrectionsOf(d) = {}

LoadToCorrect(w) ==
  /\ Begin(w, "correct")
  /\ \E d \in Docs :
       \/ /\ Correctable(d)
          /\ Goto(w, "correct", [Remember(d) EXCEPT !.figure = docs[d].pln])
       \/ /\ docs[d].state = "open" /\ docs[d].corrects # 0
          /\ Goto(w, "correct", [Remember(docs[d].corrects) EXCEPT !.editing = d])
  /\ UNCHANGED <<docs, paid, sales, today>>

\* A correction of a mistake is dated as what it corrects, one that follows
\* something that happened later is dated this year.
CorrectionDates(d) == {docs[d].date, today}

\* Everything but what is corrected is the corrected document's own.
CorrectionOf(d, total, date) ==
  [NoDoc EXCEPT !.state = "open", !.corrects = d, !.date = date,
                !.currency = docs[d].currency, !.total = total]

\* One transaction: the row, its lines and its revenue, or nothing where the
\* correction changes nothing. A new one takes the figure the corrected
\* document was loaded with, one written over reads it again.
StoreCorrection(w) ==
  /\ pc[w] = "correct"
  /\ LET d == mem[w].doc
         e == IF mem[w].editing = 0 THEN NextNumber ELSE mem[w].editing
         figure == IF mem[w].editing = 0 THEN mem[w].figure ELSE docs[d].pln
     IN /\ e \in Docs
        /\ Stored(d)
        /\ mem[w].editing # 0 => Stored(e)
        /\ \E total \in Totals, date \in CorrectionDates(d) :
             /\ Difference(total, d) # 0
             /\ docs' = [docs EXCEPT ![e] =
                  Converted(CorrectionOf(d, total, date), CorrectionConversion(total, d, figure))]
  /\ Finish(w)
  /\ UNCHANGED <<paid, sales, today>>

\* Refused for its cause, its reason, its lines, or for changing nothing.
CorrectionRefused(w) ==
  /\ pc[w] = "correct"
  /\ Finish(w)
  /\ UNCHANGED <<docs, paid, sales, today>>

\* What is corrected is not discarded: the key is protected.
Discard(w) ==
  /\ Begin(w, "discard")
  /\ \E d \in Docs :
       /\ docs[d].state = "open" /\ CorrectionsOf(d) = {}
       /\ docs' = [docs EXCEPT ![d] = NoDoc]
  /\ UNCHANGED <<paid, sales, today, pc, mem>>

-----------------------------------------------------------------------------
(* Issuing. A document goes to KSeF and comes back, or is issued by hand.  *)

Submit(w) ==
  /\ Begin(w, "issue")
  /\ \E d \in Docs : docs[d].state = "open" /\ docs' = [docs EXCEPT ![d].state = "sending"]
  /\ UNCHANGED <<paid, sales, today, pc, mem>>

Refused(w) ==
  /\ Begin(w, "issue")
  /\ \E d \in Docs : docs[d].state = "sending" /\ docs' = [docs EXCEPT ![d].state = "open"]
  /\ UNCHANGED <<paid, sales, today, pc, mem>>

\* A correction, once issued, moves what was owed, so the payment is taken
\* again: in a statement of its own.
RestatesNothing(d) == FALSE
Restates(d) == docs[d].corrects # 0

Issue(w) ==
  /\ Begin(w, "issue")
  /\ \E d \in Docs :
       /\ docs[d].state \in {"open", "sending"}
       /\ docs' = [docs EXCEPT ![d].state = "issued"]
       /\ IF Restates(d) THEN Goto(w, "restate", Remember(d)) ELSE Finish(w)
  /\ UNCHANGED <<paid, sales, today>>

RestatePayment(w) ==
  /\ pc[w] = "restate"
  /\ LET original == OriginalOf[mem[w].doc] IN
     IF paid[original].on = 0 THEN Finish(w)
     ELSE Goto(w, "payment", [Remember(original) EXCEPT
                                !.on = paid[original].on,
                                !.figure = TotalAfterCorrections[original]])
  /\ UNCHANGED <<docs, paid, sales, today>>

-----------------------------------------------------------------------------
(* Being paid, and selling the currency.                                   *)

Settleable(d) == Issued(d) /\ docs[d].corrects = 0

\* The day may be moved only while nothing has been sold against it.
MovesAnyPayment(d, on) == TRUE
MovesPayment(d, on) == on = paid[d].on \/ \A n \in DOMAIN sales : sales[n].doc # d

\* No day before the revenue arose, nor one still to come; or none at all.
Pay(w) ==
  /\ Begin(w, "pay")
  /\ \E d \in Docs, on \in {0} \cup Years :
       /\ Settleable(d)
       /\ MovesPayment(d, on)
       /\ on # 0 => docs[d].date <= on /\ on <= today
       /\ Goto(w, "payment", [Remember(d) EXCEPT !.on = on, !.figure = TotalAfterCorrections[d]])
  /\ UNCHANGED <<docs, paid, sales, today>>

\* The amount was read before NBP was asked.
RecordPayment(w) ==
  /\ pc[w] = "payment"
  /\ LET d == mem[w].doc
         on == mem[w].on
     IN IF on = 0 THEN paid' = [paid EXCEPT ![d] = NoPayment]
        ELSE \E conversion \in Conversions(mem[w].figure, docs[d].currency, on) :
               paid' = [paid EXCEPT ![d] = [on |-> on, pln |-> conversion.pln, rate |-> conversion.rate]]
  /\ Finish(w)
  /\ UNCHANGED <<docs, sales, today>>

Saleable(d) == Settleable(d) /\ paid[d].on # 0 /\ paid[d].rate # NoRate /\ CurrencyUnsold(d) > 0

LoadToSell(w) ==
  /\ Begin(w, "sell")
  /\ \E d \in Docs :
       /\ Saleable(d)
       /\ Goto(w, "sell", [Remember(d) EXCEPT !.figure = CurrencyUnsold(d)])
  /\ UNCHANGED <<docs, paid, sales, today>>

\* The balance is read and claimed in one transaction.
UnsoldWhenLoaded(w) == mem[w].figure
Unsold(w) == CurrencyUnsold(mem[w].doc)

AddSale(w) ==
  /\ pc[w] = "sell"
  /\ \E n \in DOMAIN sales, amount \in Totals \ {0} :
       /\ sales[n] = NoSale
       /\ amount <= Unsold(w)
       /\ sales' = [sales EXCEPT ![n] = [doc |-> mem[w].doc, amount |-> amount]]
  /\ Finish(w)
  /\ UNCHANGED <<docs, paid, today>>

SaleRefused(w) ==
  /\ pc[w] = "sell"
  /\ Finish(w)
  /\ UNCHANGED <<docs, paid, sales, today>>

DeleteSale(w) ==
  /\ Begin(w, "unsell")
  /\ \E n \in DOMAIN sales : sales[n] # NoSale /\ sales' = [sales EXCEPT ![n] = NoSale]
  /\ UNCHANGED <<docs, paid, today, pc, mem>>

-----------------------------------------------------------------------------
(* Filling the figures in that are missing.                                *)

EveryFigure(d) == TRUE
MissingFigure(d) == docs[d].pln = Missing

\* Opening one document.
OpenInvoice(w) ==
  /\ Begin(w, "open")
  /\ \E d \in Docs : Stored(d) /\ MissingFigure(d) /\ Goto(w, "revenue", Remember(d))
  /\ UNCHANGED <<docs, paid, sales, today>>

\* Opening the register of a year fills its gaps in the order of the months they
\* bill and of their numbers, and stops at the first it has no figure for.
GapsOfPastYears(year) == {d \in Docs : Issued(d) /\ docs[d].date = year /\ year < today /\ MissingFigure(d)}
Gaps(year) == {d \in Docs : Issued(d) /\ docs[d].date = year /\ year <= today /\ MissingFigure(d)}

\* A correction is of its invoice's month.
Before(d, e) ==
  LET first == docs[OriginalOf[d]].date
      second == docs[OriginalOf[e]].date
  IN first < second \/ (first = second /\ TextPlace[d] < TextPlace[e])

UpTo(gaps, d) == {e \in gaps : e = d \/ Before(e, d)}

\* Answered without anything but NBP: for a correction, what it corrects has a
\* figure already, or is given one earlier in the same pass.
Answerable(gaps, d) ==
  docs[d].corrects = 0 \/ docs[docs[d].corrects].pln # Missing \/ docs[d].corrects \in gaps

Reached(gaps) == {d \in gaps : \A e \in UpTo(gaps, d) : Answerable(UpTo(gaps, e), e)}

FilledFigure[d \in Docs] ==
  IF docs[d].pln # Missing THEN [pln |-> docs[d].pln, rate |-> docs[d].rate]
  ELSE IF docs[d].corrects = 0
  THEN [pln |-> AtRate(docs[d].total, RateFor(docs[d].currency, docs[d].date)),
        rate |-> RateFor(docs[d].currency, docs[d].date)]
  ELSE LET corrected == FilledFigure[docs[d].corrects] IN
       [pln |-> AtRate(Difference(docs[d].total, docs[d].corrects), corrected.rate),
        rate |-> corrected.rate]

Filled(gaps) == [d \in Docs |-> IF d \in gaps THEN Converted(docs[d], FilledFigure[d]) ELSE docs[d]]

OpenRegister(w) ==
  /\ Begin(w, "register")
  /\ \E year \in Years :
       LET reached == Reached(Gaps(year)) IN
       \/ docs' = Filled(reached)
       \/ \E d \in reached :  \* NBP goes out of reach
            docs[d].corrects = 0 /\ docs[d].currency # "PLN" /\ docs' = Filled(UpTo(reached, d) \ {d})
  /\ UNCHANGED <<paid, sales, today, pc, mem>>

\* The page, with NBP answering throughout.
ReadRegister(w, year) ==
  /\ Begin(w, "register")
  /\ docs' = Filled(Reached(Gaps(year)))
  /\ UNCHANGED <<paid, sales, today, pc, mem>>

-----------------------------------------------------------------------------
(* The specification.                                                      *)

Init ==
  /\ docs = [d \in Docs |-> NoDoc]
  /\ paid = [d \in Docs |-> NoPayment]
  /\ sales = [n \in 1..MaxSales |-> NoSale]
  /\ today = Min(Years)
  /\ pc = [w \in Workers |-> "idle"]
  /\ mem = [w \in Workers |-> NoMemory]

DrawingUp(w) == StoreInvoice(w) \/ RecordRevenue(w) \/ LoadToCorrect(w) \/ StoreCorrection(w)
                \/ CorrectionRefused(w) \/ Discard(w)

Issuing(w) == Submit(w) \/ Refused(w) \/ Issue(w) \/ RestatePayment(w)

Settling(w) == Pay(w) \/ RecordPayment(w) \/ LoadToSell(w) \/ AddSale(w) \/ SaleRefused(w)
               \/ DeleteSale(w)

Handle(w) == DrawingUp(w) \/ Issuing(w) \/ Settling(w) \/ OpenInvoice(w) \/ OpenRegister(w) \/ Crash(w)

Next == (\E w \in Workers : Handle(w)) \/ NextYear

Spec == Init /\ [][Next]_vars

\* A request once begun goes on; and each year's register is opened again and
\* again, with NBP answering while it is.
Fairness ==
  /\ \A w \in Workers : WF_vars(Handle(w) /\ pc[w] # "idle")
  /\ \A year \in Years : SF_vars(\E w \in Workers : ReadRegister(w, year))

FairSpec == Spec /\ Fairness

-----------------------------------------------------------------------------
(* Properties.                                                             *)

\* Rows and requests have the values their columns and places allow, and an
\* issued document's conversion is stated whole, with its rate, or not at all.
TypeOK ==
  /\ docs \in [Docs -> DocRows]
  /\ paid \in [Docs -> PaymentRows]
  /\ sales \in [1..MaxSales -> SaleRows]
  /\ today \in Years
  /\ pc \in [Workers -> Places]
  /\ \A w \in Workers : mem[w].doc \in 0..MaxDocs /\ mem[w].editing \in 0..MaxDocs
  /\ \A d \in Docs : Issued(d) /\ docs[d].currency # "PLN" =>
       (docs[d].pln = Missing <=> docs[d].rate = NoRate)

\* Corrections form a chain: no document is corrected twice, whatever is
\* drafted, sent, refused, discarded or issued meanwhile. That is what lets
\* the total owed be read down one path, and each difference be taken once.
OneCorrection == \A d \in Docs : Cardinality(CorrectionsOf(d)) <= 1

\* What has been booked for a document and everything it corrects, where all of
\* it has been, and how many figures that is.
Booked[d \in Docs] ==
  IF docs[d].corrects = 0 THEN docs[d].pln ELSE Booked[docs[d].corrects] + docs[d].pln
ChainLength[d \in Docs] ==
  IF docs[d].corrects = 0 THEN 1 ELSE 1 + ChainLength[docs[d].corrects]
AllBooked[d \in Docs] ==
  docs[d].pln # Missing /\ (docs[d].corrects = 0 \/ AllBooked[docs[d].corrects])

\* An issued chain adds up: whenever its figures were obtained, the revenue
\* booked is what its last total is worth at the rate of its first, to within
\* half a grosz for every document. An invoice corrected away leaves nothing.
RevenueAddsUp ==
  \A d \in Docs : Issued(d) /\ AllBooked[d] =>
    LET rate == docs[OriginalOf[d]].rate
        worth == docs[d].total * (IF rate = NoRate THEN Scale ELSE rate)
        error == 2 * (Scale * Booked[d] - worth)
    IN -ChainLength[d] * Scale <= error /\ error <= ChainLength[d] * Scale

\* Between requests, a payment stands at what is owed after every issued
\* correction, at the rate of the day it landed, or at nothing.
PaymentIsOfWhatIsOwed ==
  (\A w \in Workers : pc[w] = "idle") =>
    \A d \in Docs : paid[d].on # 0 /\ paid[d].pln # Missing =>
      paid[d].pln = AtRate(TotalAfterCorrections[d], RateFor(docs[d].currency, paid[d].on))

\* Currency is only sold out of a payment: nothing takes the payment off, or
\* the invoice, while a sale is recorded against it.
SalesHaveAnInflow ==
  \A n \in DOMAIN sales : sales[n] # NoSale =>
    Settleable(sales[n].doc) /\ paid[sales[n].doc].on # 0

\* A figure once booked on an issued document is never taken again: not by
\* opening a page, not by a correction, and not under an NBP outage.
RevenueIsFrozen ==
  [][\A d \in Docs : Issued(d) /\ docs[d].pln # Missing => docs'[d] = docs[d]]_vars

\* A sale never takes more than is left of what came in, however many requests
\* sell at once and whatever was left when each of them began.
SaleIsCovered ==
  [][\A d \in Docs :
       CurrencySold(d)' > CurrencySold(d) => CurrencySold(d)' <= TotalAfterCorrections'[d]]_vars

\* The documents a correction goes back to.
GoesBackTo[d \in Docs] ==
  IF docs[d].corrects = 0 THEN {} ELSE {docs[d].corrects} \cup GoesBackTo[docs[d].corrects]

\* Two gaps of one year, a correction's and that of a document it goes back to,
\* with the correction first in the register, as the tenth document of a month
\* is before the second. Every pass over the year stops there.
OutOfTurn ==
  \E e \in Docs : \E c \in GoesBackTo[e] :
    /\ Issued(e) /\ MissingFigure(e) /\ MissingFigure(c)
    /\ docs[e].date = docs[c].date
    /\ Before(e, c)

\* A gap in the register does not last once the year of the invoice it goes
\* back to has come: opening each year's register is enough, in whatever order,
\* chains of corrections and corrections dated to a later year included, unless
\* two gaps of a year stand out of turn. That is all that keeps one for ever.
GapsAreFilled ==
  \A d \in Docs :
    (Issued(d) /\ MissingFigure(d) /\ docs[OriginalOf[d]].date <= today)
      ~> ~(Issued(d) /\ MissingFigure(d)) \/ OutOfTurn

-----------------------------------------------------------------------------
(* What the code says of itself, and does not do.                          *)

\* invoice_payment: clearing the payment erases the rate, and each sale's
\* difference with it, so it is refused while there are sales. What they are
\* measured against is therefore there as long as they are.
SalesKeepTheirRate ==
  \A n \in DOMAIN sales : sales[n] # NoSale => paid[sales[n].doc].rate # NoRate
=============================================================================
