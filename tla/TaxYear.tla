------------------------------- MODULE TaxYear -------------------------------
(* Recording what was done about a ryczalt year: the requests of the       *)
(* Taxes pages (views.py, from payments_record to tax_return_record), each *)
(* reading the year's obligations and writing its row in one transaction   *)
(* that begins by taking the write lock, so each is one step here.         *)
EXTENDS Obligations

CONSTANTS
  Sellers,    \* what the taxpayer may be edited to
  Registers,  \* the sets of invoices the ledger may come to hold
  Wages,      \* the wages that may be announced for a year
  HealthWages,
  Years,      \* the years that have figures, and the ones around them
  EnteredYears,  \* those whose figures have been entered to begin with
  RequestMonths, \* the months and the years requests are made for
  RequestYears,
  Days,          \* the days something is done on
  MaxRows,       \* a bound on the rows with a figure in them at a time
  MaxMarks       \* and on those that only mark something as filed

ASSUME DatesAssumption ==
  /\ Years \subseteq Nat /\ RequestYears \cup EnteredYears \subseteq Years
  /\ RequestMonths \subseteq Nat
  /\ {YearOf(m) : m \in RequestMonths} \subseteq Years
  /\ Days \subseteq Nat /\ Days # {}
  /\ MaxRows \in Nat /\ MaxMarks \in Nat

ASSUME SellersAssumption ==
  \A s \in Sellers : /\ s.started \in Nat \cup {None} /\ s.accident \in Nat
                     /\ s.ulga \in BOOLEAN /\ s.preferential \in BOOLEAN
                     /\ s.chorobowe \in BOOLEAN /\ s.identified \in BOOLEAN

\* A rate is in hundredths of a percent.
IsRate(r) == r \in 0 .. 9999

\* Invoices as the ledger may hold them: one counts once converted.
IsRegister(register) ==
  /\ IsFiniteSet(register)
  /\ \A i \in register :
       /\ i.on \in Nat /\ i.pln \in Int \cup {None} /\ IsRate(i.rate)
       /\ i.paid_on \in Nat \cup {None} /\ i.difference \in Int \cup {None}
       /\ IsFiniteSet(i.sales)
       /\ \A s \in i.sales : s.on \in Nat /\ s.difference \in Int

ASSUME RegistersAssumption == \A register \in Registers : IsRegister(register)

ASSUME WagesAssumption ==
  /\ \A w \in Wages : w.minimum \in Nat /\ w.july \in Nat \cup {None} /\ w.forecast \in Nat
  /\ HealthWages \subseteq Nat

vars == <<seller, invoices, filed, wages, bases, today, rows>>

Room == Cardinality(contributed) + Cardinality(taxed) + Cardinality(granted) < MaxRows

RoomToMark == Cardinality(declared) + Cardinality(returned) + Cardinality(filed) < MaxMarks

Init ==
  /\ seller \in Sellers
  /\ invoices = {}
  /\ \E w \in Wages : wages = [y \in Years |-> IF y \in EnteredYears THEN w ELSE None]
  /\ \E w \in HealthWages :
       bases = [y \in Years |-> IF y \in EnteredYears THEN BasesOf(w) ELSE None]
  /\ today = Min(Days)
  /\ contributed = {} /\ taxed = {} /\ granted = {} /\ declared = {} /\ returned = {}
  /\ filed = {}

-----------------------------------------------------------------------------
(* A month's transfers: payments_record and payments_remove.               *)

\* Mutant: a figure that cannot be stated is recorded all the same.
MayRecordAnything(months, month, kind, on) ==
  /\ PaymentsOf(month, kind) = {}
  /\ FirstOf(month) <= on /\ on <= today
  /\ months # <<>>
  /\ kind = "skladki" => Amount(Last(months), kind) \notin {None, 0}

MayRecordPayment(months, month, kind, on) ==
  /\ PaymentsOf(month, kind) = {}
  /\ FirstOf(month) <= on /\ on <= today
  /\ months # <<>>
  /\ Amount(Last(months), kind) \notin {None, 0}

RecordPayment(month, kind, on) ==
  LET months == MonthsUntil(month, contributed)
      due == Last(months)
  IN  /\ Room
      /\ MayRecordPayment(months, month, kind, on)
      /\ IF kind = "ryczalt"
         THEN /\ taxed' = taxed \cup {[covers |-> month, on |-> on, amount |-> due.tax]}
              /\ UNCHANGED contributed
         ELSE /\ contributed' = contributed \cup
                   {[covers |-> month, settles |-> None, on |-> on,
                     social |-> Total(due.social.charged), health |-> HealthOf(due)]}
              /\ UNCHANGED taxed
      /\ UNCHANGED <<granted, declared, returned>>

RemovePayments(month, kind) ==
  /\ PaymentsOf(month, kind) # {}
  /\ IF kind = "ryczalt"
     THEN taxed' = taxed \ PaymentsOf(month, kind) /\ UNCHANGED contributed
     ELSE contributed' = contributed \ PaymentsOf(month, kind) /\ UNCHANGED taxed
  /\ UNCHANGED <<granted, declared, returned>>

-----------------------------------------------------------------------------
(* A granted month: contribution_holiday_record and _remove.               *)

\* Mutant: the year's other granted month is not looked for.
MayRecordClaimable(month) == Regime(seller, month) # None /\ IsClaimable(month)

MayRecordHoliday(month) ==
  /\ Regime(seller, month) # None
  /\ IsClaimable(month)
  /\ \A g \in granted : YearOf(g) = YearOf(month) => g = month

RecordHoliday(month) ==
  /\ MayRecordHoliday(month)
  /\ Room
  /\ granted' = granted \cup {month}
  /\ UNCHANGED <<contributed, taxed, declared, returned>>

RemoveHoliday(month) ==
  /\ granted' = granted \ {month}
  /\ UNCHANGED <<contributed, taxed, declared, returned>>

-----------------------------------------------------------------------------
(* A month's DRA: declaration_record and declaration_remove.               *)

MayRecordDeclaration(month, on) ==
  /\ FirstMonth(YearOf(month)) # None /\ month >= FirstMonth(YearOf(month))
  /\ OwesDeclaration(month)
  /\ DeclarableFrom(month) <= on /\ on <= today

\* A second press keeps the day of the first.
RecordDeclaration(month, on) ==
  /\ MayRecordDeclaration(month, on)
  /\ DeclarationsOf(month) = {} /\ RoomToMark
  /\ declared' = declared \cup {[month |-> month, on |-> on]}
  /\ UNCHANGED <<contributed, taxed, granted, returned>>

RemoveDeclaration(month) ==
  /\ declared' = declared \ DeclarationsOf(month)
  /\ UNCHANGED <<contributed, taxed, granted, returned>>

-----------------------------------------------------------------------------
(* The year: its health settlement and its return.                         *)

RecordSettlement(year) ==
  LET months == Months(year)
  IN  /\ SettlementPayable(year, months)
      /\ Settlements(year) = {}
      /\ Room
      /\ contributed' = contributed \cup
           {[covers |-> None, settles |-> year, on |-> today, social |-> 0,
             health |-> HealthProvision(months)]}
      /\ UNCHANGED <<taxed, granted, declared, returned>>

RemoveSettlement(year) ==
  /\ Settlements(year) # {}
  /\ contributed' = contributed \ Settlements(year)
  /\ UNCHANGED <<taxed, granted, declared, returned>>

\* An empty date takes the return off again, another one replaces it.
RecordReturn(year, on) ==
  /\ on # None => on <= today
  /\ RoomToMark
  /\ returned' = {r \in returned : r.year # year}
                   \cup (IF on = None THEN {} ELSE {[year |-> year, on |-> on]})
  /\ UNCHANGED <<contributed, taxed, granted, declared>>

\* A JPK_EWP file marked as filed, or as not: filing_record.
RecordFiling(year, on) ==
  /\ on # None => on <= today
  /\ RoomToMark
  /\ filed' = {f \in filed : f.year # year}
                \cup (IF on = None THEN {} ELSE {[year |-> year, on |-> on]})
  /\ UNCHANGED rows

-----------------------------------------------------------------------------
(* The announced figures, which the owner of the instance enters.          *)

EnterHealthBases(year) ==
  \E wage \in HealthWages :
    /\ bases' = [bases EXCEPT ![year] = BasesOf(wage)]
    /\ UNCHANGED wages

RemoveHealthBases(year) ==
  /\ bases' = [bases EXCEPT ![year] = None]
  /\ UNCHANGED wages

EnterWages(year) ==
  \E entered \in Wages :
    /\ wages' = [wages EXCEPT ![year] = entered]
    /\ UNCHANGED bases

RemoveWages(year) ==
  /\ wages' = [wages EXCEPT ![year] = None]
  /\ UNCHANGED bases

-----------------------------------------------------------------------------
\* One request about the year: what was done, or that it was not.
Record ==
  /\ \/ \E month \in RequestMonths, kind \in Kinds, on \in Days : RecordPayment(month, kind, on)
     \/ \E month \in RequestMonths, kind \in Kinds : RemovePayments(month, kind)
     \/ \E month \in RequestMonths : RecordHoliday(month) \/ RemoveHoliday(month)
     \/ \E month \in RequestMonths, on \in Days : RecordDeclaration(month, on)
     \/ \E month \in RequestMonths : RemoveDeclaration(month)
     \/ \E year \in RequestYears : RecordSettlement(year) \/ RemoveSettlement(year)
     \/ \E year \in RequestYears, on \in Days \cup {None} : RecordReturn(year, on)
  /\ UNCHANGED <<seller, invoices, filed, wages, bases, today>>

File ==
  /\ \E year \in RequestYears, on \in Days \cup {None} : RecordFiling(year, on)
  /\ UNCHANGED <<seller, invoices, wages, bases, today>>

Announce ==
  /\ \E year \in RequestYears :
       \/ EnterHealthBases(year) \/ RemoveHealthBases(year)
       \/ EnterWages(year) \/ RemoveWages(year)
  /\ UNCHANGED <<seller, invoices, filed, today, rows>>

\* The seller's form saved with other elections or another first day.
EditSeller ==
  /\ seller' \in Sellers
  /\ UNCHANGED <<invoices, filed, wages, bases, today, rows>>

\* An invoice issued, corrected, paid or sold from: the ledger's own doing.
RegisterMoves ==
  /\ invoices' \in Registers
  /\ UNCHANGED <<seller, filed, wages, bases, today, rows>>

NextDay ==
  /\ \E d \in Days : d > today
  /\ today' = Min({d \in Days : d > today})
  /\ UNCHANGED <<seller, invoices, filed, wages, bases, rows>>

Next == Record \/ File \/ Announce \/ EditSeller \/ RegisterMoves \/ NextDay

Spec == Init /\ [][Next]_vars

-----------------------------------------------------------------------------
(* Properties.                                                             *)

ContributionRows ==
  [covers : RequestMonths \cup {None}, settles : RequestYears \cup {None}, on : Days,
   social : Nat, health : Nat]

TaxRows == [covers : RequestMonths, on : Days, amount : Nat]

DeclarationRows == [month : RequestMonths, on : Days]

ReturnRows == [year : RequestYears, on : Days]

Insured == {year \in RequestYears : FirstMonth(year) # None}

TypeOK ==
  /\ seller \in Sellers /\ invoices \in Registers \cup {{}}
  /\ wages \in [Years -> Wages \cup {None}]
  /\ bases \in [Years -> {None} \cup {BasesOf(w) : w \in HealthWages}]
  /\ today \in Days
  /\ contributed \subseteq ContributionRows
  /\ taxed \subseteq TaxRows
  /\ granted \subseteq RequestMonths
  /\ declared \subseteq DeclarationRows
  /\ returned \subseteq ReturnRows /\ filed \subseteq ReturnRows

\* Whatever order things are recorded, undone and recorded again in, with the
\* elections and the figures moving underneath, a month's transfer is on
\* record once, a year's settlement once and only after the year it settles,
\* and a calendar year holds one month of wakacje skladkowe.
OncePerPeriod ==
  /\ \A month \in RequestMonths, kind \in Kinds : Cardinality(PaymentsOf(month, kind)) <= 1
  /\ \A year \in RequestYears : Cardinality(Settlements(year)) <= 1
  /\ \A p \in contributed : p.settles # None => YearOf(MonthOf(p.on)) > p.settles
  /\ \A g, h \in granted : YearOf(g) = YearOf(h) => g = h

\* What the months took of the contributions by any point, and what they
\* carry on, is what had been paid by then, and no month deducts into a loss.
MonthsDeductOnce(year, months) ==
  \A k \in 1 .. Len(months) :
    /\ MapThenSumSet(LAMBDA i : months[i].deducted, 1 .. k) + months[k].carried
         = MapThenSumSet(DeductibleOf,
             {p \in PaidDuring(year) : MonthOf(p.on) <= months[k].month})
    /\ months[k].deducted >= 0 /\ months[k].carried >= 0
    /\ months[k].deducted <= MaxOf(months[k].revenue, 0)

\* The return deducts the same, but for its halves being rounded once.
ReturnDeductsTheSame(year, months) ==
  LET more == MapThenSumSet(LAMBDA i : months[i].deducted, 1 .. Len(months))
                + Last(months).carried - AnnualDeductions(year)
  IN  0 <= more /\ more <= Cardinality(PaidDuring(year))

\* The ryczalt of the months prepays the return, which never asks for more
\* than the roundings, up to a zloty a month and a grosz a payment, where the
\* months hold all of the year's revenue.
MonthsPrepayTheReturn(year, months) ==
  /\ AnnualTax(year) # None
  /\ \A e \in Register(year) : MonthOf(e.on) >= FirstMonth(year)
  => AnnualTax(year) <= MapThenSumSet(LAMBDA i : months[i].tax, 1 .. Len(months))
                          + (Len(months) + 1) * Zloty + Cardinality(PaidDuring(year))

\* Contributions are deducted once, in whichever order and on whichever days
\* they are recorded, those paid before the first month included, and the
\* months and the return agree on them.
DeductedOnce ==
  \A year \in Insured :
    LET months == Months(year)
    IN  /\ MonthsDeductOnce(year, months)
        /\ ReturnDeductsTheSame(year, months)
        /\ MonthsPrepayTheReturn(year, months)

\* A month's health band is the highest that revenue accumulated through any
\* month so far reached, so the months already charged never cost more than
\* the settlement recomputes them at.
BandIsTheHighestReached ==
  \A year \in Insured :
    LET months == Months(year)
    IN  bases[year] # None =>
          /\ \A k \in 1 .. Len(months) :
               months[k].band = Max({BandAt(months[i].cumulative) : i \in 1 .. k})
          /\ HealthProvision(months) >= 0

\* The month the deadline offers for wakacje skladkowe is one the request
\* would record, and a month that could still be applied for and recorded is
\* offered, or an earlier one is.
OfferIsWhatCanBeRecorded ==
  \A year \in Years :
    LET offer == HolidayApplication(year)
    IN  /\ offer # None => MayRecordHoliday(offer.claims) /\ offer.claims \notin granted
        /\ \A month \in {m + 1 : m \in MonthsOf(year)} \ granted :
             MayRecordHoliday(month) /\ FirstOf(month) > today
               => offer # None /\ offer.claims <= month

\* Nothing still to be done goes without its reminder: on every morning one
\* could ring, its date is in the feed, which carries two years' pages only.
RingsFromTheFeed ==
  \A year \in Years \ FeedYears : \A date \in YearDates(year) :
    today \notin date.on - Max(LeadTimes) .. date.on \/ Alarms(date) = {}

\* The three readings of the elections: the regime each month is charged
\* under, the stretches announced in words, and the changes to register, each
\* on one year's page and seven days on.
StretchesAgree ==
  seller.started # None =>
    LET first == MonthOf(seller.started)
        stretches == Announced(seller)
    IN  /\ \A s \in stretches :
             \A m \in s.from .. s.from + (IF s.months = None THEN 1 ELSE s.months - 1) :
               Regime(seller, m) = s.regime
        /\ {c.month : c \in Changes(seller)} = {s.from : s \in stretches} \ {first}
        /\ Regime(seller, first - 1) = None /\ Regime(seller, first) # None
        /\ \A c \in Changes(seller) :
             \E r \in Registrations(YearOf(c.month - 1)) :
               r.change = c /\ r.on >= FirstOf(c.month) + RegistrationTerm /\ r.on \notin DaysOff

\* What a month owes is what the pages announce: its regime is the one of the
\* stretch it falls in, and its figures are the ones the bases page states for
\* that regime, whichever side of a rise in July it is on, sickness left out
\* where it was not elected - but for the funds of a month before July where
\* the minimum wage then changes sides of the full base.
ChargedAsAnnounced ==
  /\ StretchesAgree
  /\ \A month \in UNION {MonthsOf(year) : year \in EnteredYears \cup RequestYears} :
       LET entered == wages[YearOf(month)]
           owed == Social(seller, month, entered, granted)
           stated == AnnouncedBases(entered, YearOf(month), seller.accident)
           ofRegime == {b \in stated : b.regime = owed.regime /\ b.from <= month}
           announced == CHOOSE b \in ofRegime : \A c \in ofRegime : c.from <= b.from
       IN  /\ entered # None /\ owed # None
           /\ owed.regime # "ulga" /\ ~owed.exempt
           => \A part \in {"base", "pension", "disability", "accident", "sickness", "funds"} :
                \/ owed.charged[part] = announced.charged[part]
                \/ part = "sickness" /\ ~seller.chorobowe /\ owed.charged[part] = 0
                \/ part = "funds" /\ owed.regime = "full"
                   /\ (FullBase(entered) < MinimumWageIn(entered, month))
                        # (FullBase(entered) < MinimumWageIn(entered, 12 * YearOf(month) + 11))

\* Nothing is asked for that cannot be done: the month a year offers next,
\* once it is over, has a transfer or a DRA that can be recorded on the spot;
\* a DRA that can be written as a file adds up to the transfer and can be
\* recorded too; and a month the wizard is walked through field by field has
\* its file, once it is over, if the seller gave all that one asks.
OfferedCanBeDone ==
  \A year \in Insured :
    LET months == Months(year)
        due == NextDue(year)
        upTo == SubSeq(months, 1, due - FirstMonth(year) + 1)
    IN  /\ due # None /\ DeclarableFrom(due) <= today
             => \/ \E kind \in Kinds : MayRecordPayment(upTo, due, kind, today)
                \/ MayRecordDeclaration(due, today) /\ DeclarationsOf(due) = {}
        /\ \A k \in 1 .. Len(months) :
             LET m == months[k]
                 dra == Document(m)
             IN  /\ IsFilable(m) => /\ dra.insurances + dra.funds + dra.health = dra.due
                                    /\ MayRecordDeclaration(m.month, today)
                 /\ HasGuide(m) /\ DeclarableFrom(m.month) <= today
                      /\ DeclarationsOf(m.month) = {} /\ seller.identified
                      => IsFilable(m)

\* A contribution recorded, in whatever order and however long after it was
\* paid, never raises what a month owes, in ryczalt or in health, and leaves
\* the months before its payment as they were.
ContributionsOnlyLower ==
  \A year \in Insured : \A p \in PaidDuring(year) :
    LET with == Months(year)
        without == MonthsUntil(12 * year + 11, contributed \ {p})
    IN  \A k \in 1 .. Len(with) :
          /\ with[k].tax # None => with[k].tax <= without[k].tax
          /\ with[k].band <= without[k].band
          /\ with[k].month < MonthOf(p.on) => with[k] = without[k]
=============================================================================
