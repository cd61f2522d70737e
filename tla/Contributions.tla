---------------------------- MODULE Contributions ----------------------------
(* What a sole trader's social contributions come to, month by month: the  *)
(* regime a month falls in, the base the announced wages set for it, and   *)
(* what that base charges (contributions.py, SocialContributionYear).      *)
(*                                                                         *)
(* A month is counted from a January; a date is a day of a month, every    *)
(* month being given 31 of them. Amounts are grosze, rates are in          *)
(* ten-thousandths, and a rounding is half up, no amount here being        *)
(* negative.                                                               *)
EXTENDS Integers, Sequences, FiniteSets, FiniteSetsExt

CONSTANT None  \* what a field that was never filled in holds

ASSUME NoneAssumption == None \notin Int /\ None \notin {"ulga", "preferential", "full"}

Zloty == 100

DaysInMonth == 31

Day(month, day) == DaysInMonth * month + day - 1

FirstOf(month) == DaysInMonth * month

MonthOf(date) == date \div DaysInMonth

DayOf(date) == (date % DaysInMonth) + 1

YearOf(month) == month \div 12

\* January is 1.
MonthInYear(month) == (month % 12) + 1

MonthsOf(year) == 12 * year .. 12 * year + 11

RoundHalfUp(amount, unit) == (amount + unit \div 2) \div unit

-----------------------------------------------------------------------------
(* Which rules a month is charged under. A seller is a record: the day the *)
(* business started, the reliefs it elected, whether it is insured for     *)
(* sickness, its accident rate, and whether it gave all a DRA asks of it.  *)

UlgaMonths == 6

PreferentialMonths == 24

\* The months of ulga na start, the part of a month a business may start
\* with not counting among the six.
UlgaMonthsOf(seller) ==
  IF ~seller.ulga THEN 0
  ELSE IF seller.started # None /\ DayOf(seller.started) # 1 THEN UlgaMonths + 1
  ELSE UlgaMonths

PreferentialMonthsOf(seller) ==
  IF seller.preferential THEN PreferentialMonths ELSE 0

Regime(seller, month) ==
  LET elapsed == month - MonthOf(seller.started)
      ulga == UlgaMonthsOf(seller)
  IN  IF seller.started = None THEN None
      ELSE IF elapsed < 0 THEN None
      ELSE IF elapsed < ulga THEN "ulga"
      ELSE IF elapsed < ulga + PreferentialMonthsOf(seller) THEN "preferential"
      ELSE "full"

\* The regimes the elections announce, each with the month it is from.
Announced(seller) ==
  IF seller.started = None THEN {}
  ELSE LET first == MonthOf(seller.started)
           ulga == UlgaMonthsOf(seller)
           preferential == PreferentialMonthsOf(seller)
       IN  {stretch \in {[regime |-> "ulga", from |-> first, months |-> ulga],
                         [regime |-> "preferential", from |-> first + ulga,
                          months |-> preferential]} : stretch.months > 0}
             \cup {[regime |-> "full", from |-> first + ulga + preferential,
                    months |-> None]}

\* Mutant: read over no more months than the preferential ones.
ChangesOfTwoYears(seller) ==
  IF seller.started = None THEN {}
  ELSE LET first == MonthOf(seller.started)
       IN  {[month |-> m, leaves |-> Regime(seller, m - 1), joins |-> Regime(seller, m)] :
              m \in {n \in first + 1 .. first + PreferentialMonths :
                       Regime(seller, n - 1) # Regime(seller, n)}}

\* Every month a regime gives way to the next, read month by month.
Changes(seller) ==
  IF seller.started = None THEN {}
  ELSE LET first == MonthOf(seller.started)
       IN  {[month |-> m, leaves |-> Regime(seller, m - 1), joins |-> Regime(seller, m)] :
              m \in {n \in first + 1 .. first + UlgaMonthsOf(seller) + PreferentialMonths :
                       Regime(seller, n - 1) # Regime(seller, n)}}

-----------------------------------------------------------------------------
(* The bases, and what they charge. Wages are a record: the minimum wage,  *)
(* the one from July where it rises, and the forecast average wage.        *)

PensionRate == 1952

DisabilityRate == 800

SicknessRate == 245

FundsRate == 245

Contribution(base, rate) == RoundHalfUp(base * rate, 10000)

July == 7

\* Mutant: the rise is of the month after July.
MinimumWageAfterJuly(wages, month) ==
  IF wages.july # None /\ MonthInYear(month) > July THEN wages.july ELSE wages.minimum

MinimumWageIn(wages, month) ==
  IF wages.july # None /\ MonthInYear(month) >= July THEN wages.july ELSE wages.minimum

PreferentialBaseIn(wages, month) == RoundHalfUp(MinimumWageIn(wages, month) * 30, 100)

FullBase(wages) == RoundHalfUp(wages.forecast * 60, 100)

\* Everything a base charges, the funds only from the minimum wage up.
Charged(base, accident, sickness, minimum) ==
  [base |-> base,
   pension |-> Contribution(base, PensionRate),
   disability |-> Contribution(base, DisabilityRate),
   accident |-> Contribution(base, accident),
   sickness |-> IF sickness THEN Contribution(base, SicknessRate) ELSE 0,
   funds |-> IF base >= minimum THEN Contribution(base, FundsRate) ELSE 0]

NothingCharged(base) ==
  [base |-> base, pension |-> 0, disability |-> 0, accident |-> 0, sickness |-> 0, funds |-> 0]

Insurances(charged) ==
  charged.pension + charged.disability + charged.accident + charged.sickness

Total(charged) == Insurances(charged) + charged.funds

\* Art. 18 ust. 9 charges the month a business started part way through on
\* part of a base, which is not worked out.
IsPartial(seller, month) ==
  /\ seller.started # None
  /\ DayOf(seller.started) # 1
  /\ MonthOf(seller.started) = month

\* What a month charges and under which rules, or None where it cannot be
\* said: wages is the year's, or None, and granted the months ZUS freed.
Social(seller, month, wages, granted) ==
  LET regime == Regime(seller, month)
      base == IF regime = "preferential" THEN PreferentialBaseIn(wages, month)
              ELSE FullBase(wages)
      exempt == month \in granted
  IN  IF regime = None THEN None
      ELSE IF regime = "ulga"
        THEN [regime |-> regime, exempt |-> FALSE, charged |-> NothingCharged(0)]
      ELSE IF wages = None \/ IsPartial(seller, month) THEN None
      ELSE [regime |-> regime, exempt |-> exempt,
            charged |-> IF exempt THEN NothingCharged(base)
                        ELSE Charged(base, seller.accident, seller.chorobowe,
                                     MinimumWageIn(wages, month))]

\* The bases a year's wages set, as its page states them for checking: the
\* preferential one for each stretch of the minimum wage, and the full one,
\* measured against the highest minimum wage of the year.
AnnouncedBases(wages, year, accident) ==
  LET january == 12 * year
      december == january + 11
      stretches == IF wages.july = None THEN {january} ELSE {january, january + July - 1}
  IN  {[regime |-> "preferential", from |-> m,
        charged |-> Charged(PreferentialBaseIn(wages, m), accident, TRUE,
                            MinimumWageIn(wages, m))] : m \in stretches}
        \cup {[regime |-> "full", from |-> january,
               charged |-> Charged(FullBase(wages), accident, TRUE,
                                   MinimumWageIn(wages, december))]}
=============================================================================
