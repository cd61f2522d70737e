----------------------------- MODULE Obligations -----------------------------
(* What a ryczalt taxpayer owes in a year, as the pages work it out from   *)
(* the register and from the rows recorded against it (obligations.py,     *)
(* ewidencja.py, dra.py), and what the calendar feed rings for (ical.py).  *)
(* Nothing here changes a row; TaxYear does.                               *)
EXTENDS Contributions

CONSTANTS
  DaysOff,    \* the Saturdays, Sundays and holidays a term moves off
  LeadTimes   \* how many days before a date its reminders are set

\* A year without a month to apply for is not one with.
ASSUME NoApplicationAssumption == None \notin [on : Int, claims : Int]

\* No month is off from end to end, nor is a reminder set a month ahead.
ASSUME TermsAssumption ==
  /\ DaysOff \subseteq Nat /\ IsFiniteSet(DaysOff)
  /\ \A d \in DaysOff : ~(d .. d + 30 \subseteq DaysOff)
  /\ LeadTimes \subseteq 0 .. 30 /\ LeadTimes # {}

VARIABLES
  seller,       \* the taxpayer
  invoices,     \* its issued invoices on ryczalt, with payment and sales
  contributed,  \* ContributionPayment rows
  taxed,        \* TaxPayment rows
  granted,      \* the months of its ContributionHoliday rows
  declared,     \* ContributionDeclaration rows
  returned,     \* TaxReturn rows
  filed,        \* the filed JPK_EWP files: year and day
  wages,        \* the SocialContributionYear of each year, or None
  bases,        \* the HealthContributionYear of each year, or None
  today

rows == <<contributed, taxed, granted, declared, returned>>

MaxOf(a, b) == IF a > b THEN a ELSE b

MinOf(a, b) == IF a < b THEN a ELSE b

\* The day a term whose last day is date ends.
WorkingDay(date) ==
  Min({d \in date .. date + Cardinality(DaysOff) : d \notin DaysOff})

-----------------------------------------------------------------------------
(* The register of revenue.                                                *)

InvoiceEntries(year) ==
  {[kind |-> "invoice", document |-> i.number, on |-> i.on, amount |-> i.pln, rate |-> i.rate] :
     i \in {j \in invoices : YearOf(MonthOf(j.on)) = year /\ j.pln # None}}

DifferenceEntries(year) ==
  {[kind |-> "difference", document |-> i.number, on |-> i.paid_on, amount |-> i.difference,
    rate |-> i.rate] :
     i \in {j \in invoices : /\ j.paid_on # None
                             /\ YearOf(MonthOf(j.paid_on)) = year
                             /\ j.difference \notin {None, 0}}}

SaleEntries(year) ==
  UNION {{[kind |-> "sale", document |-> s.reference, on |-> s.on, amount |-> s.difference,
           rate |-> i.rate] :
            s \in {t \in i.sales : YearOf(MonthOf(t.on)) = year /\ t.difference # 0}} :
         i \in invoices}

Register(year) == InvoiceEntries(year) \cup DifferenceEntries(year) \cup SaleEntries(year)

Amounts(entries) == MapThenSumSet(LAMBDA e : e.amount, entries)

Rates(year) == {e.rate : e \in Register(year)}

WholeZlote(amount) == RoundHalfUp(amount, Zloty) * Zloty

\* What a rate, in hundredths of a percent, takes of whole zlotys, to the whole
\* zloty.
Tax(taxable, rate) == RoundHalfUp((WholeZlote(taxable) \div Zloty) * rate, 10000) * Zloty

Half(health) == RoundHalfUp(health, 2)

PaidDuring(year) == {p \in contributed : YearOf(MonthOf(p.on)) = year}

AnnualDeductions(year) ==
  LET paid == PaidDuring(year)
  IN  MapThenSumSet(LAMBDA p : p.social, paid) + Half(MapThenSumSet(LAMBDA p : p.health, paid))

AnnualTaxable(year) == MaxOf(Amounts(Register(year)) - AnnualDeductions(year), 0)

\* The return's own tax: none stated where the year holds several rates.
AnnualTax(year) ==
  LET rates == Rates(year)
  IN  IF Cardinality(rates) > 1 THEN None
      ELSE IF rates = {} THEN 0
      ELSE Tax(AnnualTaxable(year), CHOOSE r \in rates : TRUE)

-----------------------------------------------------------------------------
(* The health contribution's bands: 1, 2 and 3, or 0 where the year's      *)
(* bases were never entered.                                               *)

FirstThreshold == 60000 * Zloty

SecondThreshold == 300000 * Zloty

BaseShares == <<60, 100, 180>>

BasesOf(wage) == [b \in 1 .. 3 |-> RoundHalfUp(wage * BaseShares[b], 100)]

Health(year, band) == RoundHalfUp(bases[year][band] * 9, 100)

\* The band an accumulated revenue is charged in.
BandAt(revenue) ==
  IF revenue > SecondThreshold THEN 3 ELSE IF revenue > FirstThreshold THEN 2 ELSE 1

\* Mutant: the band follows revenue back down.
BandOfTheMonth(year, revenue, reached) ==
  IF bases[year] = None THEN 0 ELSE BandAt(revenue)

\* Never stepping back down from the band reached.
Band(year, revenue, reached) ==
  IF bases[year] = None THEN 0 ELSE MaxOf(BandAt(revenue), reached)

-----------------------------------------------------------------------------
(* The months of a year.                                                   *)

FirstMonth(year) ==
  IF seller.started = None THEN None
  ELSE IF YearOf(MonthOf(seller.started)) > year THEN None
  ELSE MaxOf(MonthOf(seller.started), 12 * year)

\* The 20th of the month after.
PaymentDate(month) == Day(month + 1, 20)

DeclarableFrom(month) == FirstOf(month + 1)

DeductibleOf(p) == p.social + Half(p.health)

\* Mutant: a payment counts in the month it settles.
AvailableInItsMonth(payments, first, month) ==
  {p \in payments : MaxOf(IF p.covers = None THEN MonthOf(p.on) ELSE p.covers, first) = month}

\* Mutant: what was paid before the first month is lost.
AvailableFromTheFirst(payments, first, month) == {p \in payments : MonthOf(p.on) = month}

\* What of a year's payments counts from a month, those made before the
\* first of its months counting from that one.
AvailableIn(payments, first, month) ==
  {p \in payments : MaxOf(MonthOf(p.on), first) = month}

\* A month after those before it, with what was paid of the contributions:
\* what is deducted from its revenue and what is carried on, its tax, and the
\* band it is charged in.
MonthAfter(before, month, earned, paid, rates) ==
  LET year == YearOf(month)
      available == before.carried + MapThenSumSet(DeductibleOf, paid)
      deducted == MinOf(available, MaxOf(earned, 0))
      cumulative == before.cumulative + earned - MapThenSumSet(LAMBDA p : p.social, paid)
  IN  [month |-> month,
       revenue |-> earned,
       deducted |-> deducted,
       carried |-> available - deducted,
       cumulative |-> cumulative,
       band |-> Band(year, cumulative, before.band),
       tax |-> IF Cardinality(rates) > 1 THEN None
               ELSE IF rates = {} THEN 0
               ELSE Tax(MaxOf(earned - deducted, 0), CHOOSE r \in rates : TRUE),
       social |-> Social(seller, month, wages[year], granted)]

Last(months) == months[Len(months)]

\* The months of a year up to one of them, where paid was what had been
\* paid: none where the business had not started by it.
MonthsUntil(month, paid) ==
  LET year == YearOf(month)
      first == FirstMonth(year)
      entries == Register(year)
      rates == {e.rate : e \in entries}
      payments == {p \in paid : YearOf(MonthOf(p.on)) = year}
      opening == [carried |-> 0, cumulative |-> 0, band |-> 1]
      After(before, m) ==
        MonthAfter(before, m, Amounts({e \in entries : MonthOf(e.on) = m}),
                   AvailableIn(payments, first, m), rates)
      until[m \in first .. month] ==
        IF m = first THEN <<After(opening, m)>>
        ELSE LET done == until[m - 1]
             IN  Append(done, After(Last(done), m))
  IN  IF first = None THEN <<>> ELSE IF month < first THEN <<>> ELSE until[month]

Months(year) == MonthsUntil(12 * year + 11, contributed)

HealthOf(m) == IF m.band = 0 THEN None ELSE Health(YearOf(m.month), m.band)

\* One transfer covers both halves; with one of them unknown there is none.
DraTotal(m) ==
  IF m.social = None \/ m.band = 0 THEN None ELSE Total(m.social.charged) + HealthOf(m)

Kinds == {"ryczalt", "skladki"}

Amount(m, kind) == IF kind = "ryczalt" THEN m.tax ELSE DraTotal(m)

\* The rows recorded against a month.
PaymentsOf(month, kind) ==
  {p \in (IF kind = "ryczalt" THEN taxed ELSE contributed) : p.covers = month}

\* Mutant: an unknown amount is left to pay.
IsUnpaid(m, kind) == PaymentsOf(m.month, kind) = {}

IsPayable(m, kind) ==
  Amount(m, kind) \notin {None, 0} /\ PaymentsOf(m.month, kind) = {}

DraRequiredFrom == 12 * 2022

OwesDeclaration(month) == month >= DraRequiredFrom

DeclarationsOf(month) == {d \in declared : d.month = month}

IsOpen(m) ==
  \/ \E kind \in Kinds : IsPayable(m, kind)
  \/ OwesDeclaration(m.month) /\ DeclarationsOf(m.month) = {}

\* The earliest month with anything left to do.
NextDue(year) ==
  LET months == Months(year)
      open == {i \in 1 .. Len(months) : IsOpen(months[i])}
  IN  IF open = {} THEN None ELSE months[Min(open)].month

-----------------------------------------------------------------------------
(* What the year itself comes to.                                          *)

HealthMonthly(months) ==
  LET sum[i \in 0 .. Len(months)] == IF i = 0 THEN 0 ELSE sum[i - 1] + HealthOf(months[i])
  IN  sum[Len(months)]

HealthProvision(months) ==
  HealthOf(Last(months)) * Len(months) - HealthMonthly(months)

Settlements(year) == {p \in contributed : p.settles = year}

SettlementPayable(year, months) ==
  /\ year < YearOf(MonthOf(today))
  /\ months # <<>> /\ Last(months).band # 0
  /\ HealthProvision(months) > 0

-----------------------------------------------------------------------------
(* The month of wakacje skladkowe, and the changes of regime.              *)

IsClaimable(month) ==
  \A m \in {month, month - 2} : Regime(seller, m) \notin {None, "ulga"}

\* Mutant: the January after belongs to no page.
ApplicationMonthsOfTheYear(year) ==
  IF FirstMonth(year) = None THEN {}
  ELSE {m \in FirstMonth(year) .. 12 * year + 11 : MonthInYear(m) > 1}

\* The months an application filed during the year can claim.
ApplicationMonths(year) ==
  (IF FirstMonth(year) = None THEN {}
   ELSE {m \in FirstMonth(year) .. 12 * year + 11 : MonthInYear(m) > 1})
    \cup {12 * (year + 1)}

\* The last day an application can go in, and the month it claims.
HolidayApplication(year) ==
  LET offered == {m \in ApplicationMonths(year) :
                    /\ YearOf(m) \notin {YearOf(g) : g \in granted}
                    /\ IsClaimable(m)
                    /\ FirstOf(m) - 1 >= today}
  IN  IF offered = {} THEN None
      ELSE [on |-> FirstOf(Min(offered)) - 1, claims |-> Min(offered)]

RegistrationTerm == 7

Registrations(year) ==
  {[on |-> WorkingDay(FirstOf(c.month) + RegistrationTerm), change |-> c] :
     c \in {d \in Changes(seller) : YearOf(d.month - 1) = year}}

-----------------------------------------------------------------------------
(* A month's DRA.                                                          *)

April == 4

\* The first year whose health contributions were settled annually.
FirstSettledYear == 2022

\* Whether a month's DRA carries the settlement of the year before.
CarriesSettlement(month) ==
  /\ MonthInYear(month) = April
  /\ YearOf(month) - 1 >= FirstSettledYear
  /\ seller.started # None /\ YearOf(MonthOf(seller.started)) < YearOf(month)

\* Whether a month's DRA can be written as a file.
IsFilable(m) ==
  /\ OwesDeclaration(m.month)
  /\ DeclarationsOf(m.month) = {}
  /\ today >= DeclarableFrom(m.month)
  /\ m.social # None /\ m.band # 0
  /\ ~m.social.exempt
  /\ ~CarriesSettlement(m.month)
  /\ seller.identified

\* What the file states: the sums of its blocks, the bases sickness and health
\* were charged on, the revenue the band is read from, and the transfer.
Document(m) ==
  LET charged == m.social.charged
  IN  [insurances |-> (charged.pension + charged.disability)
                        + (charged.sickness + charged.accident),
       funds |-> charged.funds,
       health |-> HealthOf(m),
       sicknessBase |-> IF charged.sickness > 0 THEN charged.base ELSE 0,
       healthBase |-> bases[YearOf(m.month)][m.band],
       revenue |-> MaxOf(m.cumulative, 0),
       due |-> DraTotal(m)]

\* Whether the wizard is walked through field by field.
HasGuide(m) ==
  /\ OwesDeclaration(m.month)
  /\ m.social # None /\ m.band # 0
  /\ m.social.regime \in {"ulga", "preferential"}
  /\ ~m.social.exempt
  /\ MonthInYear(m.month) # April

-----------------------------------------------------------------------------
(* The dates of the year, each what it is of and its day, what is left to  *)
(* do about it, and the feed that rings for them.                          *)

ReturnDue(year) == WorkingDay(Day(12 * (year + 1) + 3, 30))

SettlementDue(year) == WorkingDay(Day(12 * (year + 1) + 4, 20))

Deadlines(year) ==
  {[kind |-> "return", of |-> year, on |-> ReturnDue(year)],
   [kind |-> "filing", of |-> year, on |-> ReturnDue(year)],
   [kind |-> "settlement", of |-> year, on |-> SettlementDue(year)]}

MonthDates(year) ==
  {[kind |-> "month", of |-> m, on |-> WorkingDay(PaymentDate(m))] :
     m \in FirstMonth(year) .. 12 * year + 11}

\* A year the business did not exist in has none.
YearDates(year) ==
  IF FirstMonth(year) = None THEN {}
  ELSE LET application == HolidayApplication(year)
       IN  MonthDates(year) \cup Deadlines(year)
             \cup {[kind |-> "registration", of |-> r.change.month, on |-> r.on] :
                     r \in Registrations(year)}
             \cup (IF application = None THEN {}
                   ELSE {[kind |-> "application", of |-> application.claims,
                          on |-> application.on]})

IsOutstanding(date) ==
  CASE date.kind = "return" -> \A r \in returned : r.year # date.of
    [] date.kind = "filing" -> \A f \in filed : f.year # date.of
    [] date.kind = "settlement" -> Settlements(date.of) = {}
    [] date.kind = "month" -> IsOpen(Last(MonthsUntil(date.of, contributed)))
    [] OTHER -> TRUE

\* Mutant: the year running alone.
FeedYearRunning == {YearOf(MonthOf(today))}

\* The feed carries the year running and the one before.
FeedYears == {YearOf(MonthOf(today)) - 1, YearOf(MonthOf(today))}

\* The mornings a date of the feed still rings on.
Alarms(date) ==
  {morning \in {date.on - lead : lead \in LeadTimes} : morning >= today /\ IsOutstanding(date)}
=============================================================================
