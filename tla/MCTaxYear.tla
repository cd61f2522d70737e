------------------------------ MODULE MCTaxYear ------------------------------
(* The taxpayers, the registers and the days that the runs of TaxYear use: *)
(* a business of 2026, the months it opens in, and the spring after.       *)
EXTENDS TaxYear

M(month, year) == 12 * year + month - 1

\* Opened part way through a month, so that the relief gives way in January.
OnRelief == [started |-> Day(M(6, 2026), 15), ulga |-> TRUE, preferential |-> TRUE,
             chorobowe |-> TRUE, accident |-> 167, identified |-> TRUE]

\* The form saved with a later first day and no relief.
Full == [OnRelief EXCEPT !.started = Day(M(12, 2026), 1), !.ulga = FALSE, !.preferential = FALSE,
                         !.chorobowe = FALSE, !.identified = FALSE]

MCSellers == {OnRelief, Full}

MCWages == {[minimum |-> 480600, july |-> 580600, forecast |-> 942000]}

MCHealthWages == {922865}

Invoice(number, on, pln) ==
  [number |-> number, on |-> on, pln |-> pln, rate |-> 1200, paid_on |-> None,
   difference |-> None, sales |-> {}]

October == Invoice(1, Day(M(10, 2026), 31), 4000000)

SoldInJanuary ==
  [October EXCEPT !.sales = {[reference |-> 9, on |-> Day(M(1, 2027), 20), difference |-> 5050]}]

\* Takes the year just past the first threshold, and its payment takes it back.
LostInDecember ==
  [Invoice(2, Day(M(11, 2026), 30), 2020000) EXCEPT !.paid_on = Day(M(12, 2026), 20),
                                                    !.difference = -200000]

\* Too thin to deduct a month's contributions from.
Thin == Invoice(3, Day(M(12, 2026), 31), 120051)

AtAnotherRate == [October EXCEPT !.number = 2, !.rate = 850]

Unconverted == Invoice(4, Day(M(1, 2027), 5), None)

MCRegisters == {{SoldInJanuary, LostInDecember, Thin}, {Thin, AtAnotherRate, Unconverted}}

MCMonths == {M(10, 2026), M(12, 2026), M(2, 2027), M(3, 2027)}

MCDays == {Day(M(11, 2026), 20), Day(M(12, 2026), 31), Day(M(5, 2027), 20)}

\* A weekend that the 20th of January falls on, and a holiday.
MCDaysOff == {Day(M(1, 2027), 20), Day(M(1, 2027), 21), Day(M(11, 2026), 8)}
=============================================================================
