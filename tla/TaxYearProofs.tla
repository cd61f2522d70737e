---------------------------- MODULE TaxYearProofs ----------------------------
(* What holds of TaxYear for every taxpayer, register and calendar, and    *)
(* every order in which things are recorded and undone. Little of it is    *)
(* about the requests: most is what the months and the return of a year    *)
(* come to, of any rows.                                                   *)
EXTENDS TaxYear, LeastNumbers, SequenceTheorems, TLAPS

-----------------------------------------------------------------------------
(* Months and days are numbers.                                            *)

\* A month is one of the twelve of its year, a day one of the 31 of its month.
LEMMA CalendarType ==
  /\ \A m \in Nat : YearOf(m) \in Nat /\ 12 * YearOf(m) <= m /\ m < 12 * YearOf(m) + 12
  /\ \A d \in Nat : MonthOf(d) \in Nat /\ FirstOf(MonthOf(d)) <= d /\ d < FirstOf(MonthOf(d) + 1)
  <1>1. \A n \in Nat : n \div 12 \in Nat /\ 12 * (n \div 12) <= n /\ n < 12 * (n \div 12) + 12
    OBVIOUS
  <1>2. \A n \in Nat : n \div 31 \in Nat /\ 31 * (n \div 31) <= n /\ n < 31 * (n \div 31) + 31
    OBVIOUS
  <1>3. \A n \in Nat : 31 * (n + 1) = 31 * n + 31
    OBVIOUS
  <1>4. QED
    BY <1>1, <1>2, <1>3 DEF YearOf, MonthOf, FirstOf, DaysInMonth

\* None is no date, no month and no year.
LEMMA NothingIsNoDate ==
  /\ \A n \in Int : n # None
  /\ Days \subseteq Nat /\ Years \subseteq Nat /\ RequestMonths \subseteq Nat /\ RequestYears \subseteq Nat
  BY NoneAssumption, DatesAssumption

-----------------------------------------------------------------------------
(* Once per period. What the requests look for is what keeps each row the  *)
(* only one of its period.                                                 *)

OnlyOne(T) == \A p, q \in T : p = q

CurrentInv ==
  /\ seller \in Sellers /\ today \in Days /\ granted \subseteq RequestMonths
  /\ wages \in [Years -> Wages \cup {None}]
  /\ bases \in [Years -> {None} \cup {BasesOf(w) : w \in HealthWages}]

PeriodInv ==
  /\ \A month \in RequestMonths, kind \in Kinds : OnlyOne(PaymentsOf(month, kind))
  /\ \A year \in RequestYears : OnlyOne(Settlements(year))
  /\ \A p \in contributed : p.settles # None => YearOf(MonthOf(p.on)) > p.settles
  /\ \A g, h \in granted : YearOf(g) = YearOf(h) => g = h

\* A set of which any two are the same has one member at most.
LEMMA OnlyOneIsOne ==
  ASSUME NEW T, OnlyOne(T)
  PROVE  Cardinality(T) <= 1
  <1>1. CASE T = {}
    BY <1>1, FS_EmptySet
  <1>2. CASE T # {}
    <2>1. PICK p : p \in T
      BY <1>2
    <2>2. T = {p}
      BY <2>1 DEF OnlyOne
    <2>3. QED
      BY <2>2, FS_Singleton
  <1>3. QED
    BY <1>1, <1>2

\* Rows taken away leave the others as they were.
LEMMA FewerRows ==
  ASSUME PeriodInv, contributed' \subseteq contributed, taxed' \subseteq taxed, granted' \subseteq granted
  PROVE  PeriodInv'
  <1>1. \A month \in RequestMonths, kind \in Kinds : PaymentsOf(month, kind)' \subseteq PaymentsOf(month, kind)
    BY DEF PaymentsOf
  <1>2. \A year \in RequestYears : Settlements(year)' \subseteq Settlements(year)
    BY DEF Settlements
  <1>3. QED
    BY <1>1, <1>2 DEF PeriodInv, OnlyOne

\* A row is added where there was none of its month, or of its year.
LEMMA PaymentRecorded ==
  ASSUME PeriodInv, CurrentInv, NEW month \in RequestMonths, NEW kind \in Kinds, NEW on \in Days,
         RecordPayment(month, kind, on)
  PROVE  PeriodInv'
  <1>1. PaymentsOf(month, kind) = {} /\ granted' = granted
    BY DEF RecordPayment, MayRecordPayment
  <1>2. CASE kind = "ryczalt"
    <2> DEFINE amount == Last(MonthsUntil(month, contributed)).tax
               row == [covers |-> month, on |-> on, amount |-> amount]
    <2>0. taxed' = taxed \cup {row}
      BY <1>2 DEF RecordPayment
    <2> HIDE DEF amount
    <2>1. taxed' = taxed \cup {row} /\ row.covers = month
      BY <2>0
    <2> HIDE DEF row
    <2>2. contributed' = contributed
      BY <1>2 DEF RecordPayment
    <2>3. \A p \in taxed : p.covers # month
      BY <1>1, <1>2 DEF PaymentsOf
    <2>4. ASSUME NEW m \in RequestMonths PROVE OnlyOne(PaymentsOf(m, "ryczalt"))'
      BY <2>1, <2>3, <2>4 DEF PeriodInv, OnlyOne, PaymentsOf, Kinds
    <2>5. QED
      BY <1>1, <2>2, <2>4 DEF PeriodInv, OnlyOne, PaymentsOf, Settlements, Kinds
  <1>3. CASE kind = "skladki"
    <2> DEFINE due == Last(MonthsUntil(month, contributed))
               social == Total(due.social.charged)
               health == HealthOf(due)
               row == [covers |-> month, settles |-> None, on |-> on, social |-> social, health |-> health]
    <2>0. contributed' = contributed \cup {row}
      BY <1>3 DEF RecordPayment
    <2> HIDE DEF social, health
    <2>1. contributed' = contributed \cup {row} /\ row.covers = month /\ row.settles = None
      BY <2>0
    <2> HIDE DEF row
    <2>2. taxed' = taxed
      BY <1>3 DEF RecordPayment
    <2>3. \A p \in contributed : p.covers # month
      BY <1>1, <1>3 DEF PaymentsOf
    <2>4. \A m \in RequestMonths : OnlyOne(PaymentsOf(m, "skladki"))'
      BY <2>1, <2>3 DEF PeriodInv, OnlyOne, PaymentsOf, Kinds
    <2>5. \A year \in RequestYears : Settlements(year)' = Settlements(year)
      BY <2>1, NothingIsNoDate DEF Settlements
    <2>6. QED
      BY <1>1, <2>1, <2>2, <2>4, <2>5 DEF PeriodInv, OnlyOne, PaymentsOf, Kinds
  <1>4. QED
    BY <1>2, <1>3 DEF Kinds

\* Recording a year's settlement settles that year once.
LEMMA SettlementRecorded ==
  ASSUME PeriodInv, CurrentInv, NEW year \in RequestYears, RecordSettlement(year)
  PROVE  PeriodInv'
  <1> DEFINE health == HealthProvision(Months(year))
             row == [covers |-> None, settles |-> year, on |-> today, social |-> 0, health |-> health]
  <1>0. contributed' = contributed \cup {row}
    BY DEF RecordSettlement
  <1> HIDE DEF health
  <1>1. /\ contributed' = contributed \cup {row}
        /\ row.covers = None /\ row.settles = year /\ row.on = today
    BY <1>0
  <1> HIDE DEF row
  <1>2. taxed' = taxed /\ granted' = granted /\ Settlements(year) = {}
    BY DEF RecordSettlement
  <1>3. year < YearOf(MonthOf(today))
    BY DEF RecordSettlement, SettlementPayable
  <1>4. YearOf(MonthOf(today)) > year
    BY <1>3, CalendarType, NothingIsNoDate DEF CurrentInv
  <1>5. \A m \in RequestMonths, kind \in Kinds : PaymentsOf(m, kind)' = PaymentsOf(m, kind)
    BY <1>1, <1>2, NothingIsNoDate DEF PaymentsOf
  <1>6. \A p \in contributed : p.settles # year
    BY <1>2 DEF Settlements
  <1>7. \A y \in RequestYears : OnlyOne(Settlements(y))'
    BY <1>1, <1>6 DEF PeriodInv, OnlyOne, Settlements
  <1>8. QED
    BY <1>1, <1>2, <1>4, <1>5, <1>7 DEF PeriodInv

\* Recording an application claims one month of its year.
LEMMA HolidayRecorded ==
  ASSUME PeriodInv, NEW month \in RequestMonths, RecordHoliday(month)
  PROVE  PeriodInv'
  <1>1. granted' = granted \cup {month} /\ UNCHANGED <<contributed, taxed>>
    BY DEF RecordHoliday
  <1>2. \A g \in granted : YearOf(g) = YearOf(month) => g = month
    BY DEF RecordHoliday, MayRecordHoliday
  <1>3. \A g, h \in granted' : YearOf(g) = YearOf(h) => g = h
    BY <1>1, <1>2 DEF PeriodInv
  <1>4. QED
    BY <1>1, <1>3 DEF PeriodInv, PaymentsOf, Settlements

\* Every request, every night and every month keeps rows and clock in shape.
LEMMA CurrentStep == CurrentInv /\ [Next]_vars => CurrentInv'
  <1> SUFFICES ASSUME CurrentInv, [Next]_vars PROVE CurrentInv'
    OBVIOUS
  <1>1. CASE Record
    <2>1. UNCHANGED <<seller, today, wages, bases>>
      BY <1>1 DEF Record
    <2>2. granted' \subseteq RequestMonths
      BY <1>1 DEF Record, CurrentInv, RecordPayment, RemovePayments, RecordHoliday, RemoveHoliday,
                  RecordDeclaration, RemoveDeclaration, RecordSettlement, RemoveSettlement, RecordReturn
    <2>3. QED
      BY <2>1, <2>2 DEF CurrentInv
  <1>2. CASE File
    BY <1>2 DEF File, RecordFiling, CurrentInv, rows
  <1>3. CASE EditSeller \/ RegisterMoves
    BY <1>3 DEF EditSeller, RegisterMoves, CurrentInv, rows
  <1>4. CASE NextDay
    <2> DEFINE later == {d \in Days : d > today}
    <2>1. later # {} /\ later \in SUBSET Nat
      BY <1>4, NothingIsNoDate DEF NextDay
    <2>2. Min(later) \in Days
      BY <2>1, MinIsLeast
    <2>3. QED
      BY <1>4, <2>2 DEF NextDay, CurrentInv, rows
  <1>5. CASE Announce
    <2>1. UNCHANGED <<seller, today, granted>>
      BY <1>5 DEF Announce, rows
    <2>2. PICK year \in RequestYears : \/ EnterHealthBases(year) \/ RemoveHealthBases(year)
                                       \/ EnterWages(year) \/ RemoveWages(year)
      BY <1>5 DEF Announce
    <2>3. wages' \in [Years -> Wages \cup {None}]
      BY <2>2 DEF CurrentInv, EnterHealthBases, RemoveHealthBases, EnterWages, RemoveWages
    <2>4. bases' \in [Years -> {None} \cup {BasesOf(w) : w \in HealthWages}]
      BY <2>2 DEF CurrentInv, EnterHealthBases, RemoveHealthBases, EnterWages, RemoveWages
    <2>5. QED
      BY <2>1, <2>3, <2>4 DEF CurrentInv
  <1>6. CASE UNCHANGED vars
    BY <1>6 DEF vars, CurrentInv, rows
  <1>7. QED
    BY <1>1, <1>2, <1>3, <1>4, <1>5, <1>6 DEF Next

\* Every request keeps periods recorded once.
LEMMA PeriodStep == CurrentInv /\ PeriodInv /\ [Next]_vars => PeriodInv'
  <1> SUFFICES ASSUME CurrentInv, PeriodInv, [Next]_vars PROVE PeriodInv'
    OBVIOUS
  <1>1. UNCHANGED <<contributed, taxed, granted>> => PeriodInv'
    BY FewerRows
  <1>2. ASSUME NEW month \in RequestMonths PROVE RecordHoliday(month) \/ RemoveHoliday(month) => PeriodInv'
    BY HolidayRecorded, FewerRows DEF RemoveHoliday
  <1>3. ASSUME NEW month \in RequestMonths, NEW kind \in Kinds PROVE RemovePayments(month, kind) => PeriodInv'
    BY FewerRows DEF RemovePayments
  <1>4. ASSUME NEW year \in RequestYears PROVE RecordSettlement(year) \/ RemoveSettlement(year) => PeriodInv'
    BY SettlementRecorded, FewerRows DEF RemoveSettlement
  <1>5. ASSUME NEW month \in RequestMonths, NEW on
        PROVE  RecordDeclaration(month, on) \/ RemoveDeclaration(month) => PeriodInv'
    BY <1>1 DEF RecordDeclaration, RemoveDeclaration
  <1>6. ASSUME NEW year, NEW on PROVE RecordReturn(year, on) => PeriodInv'
    BY <1>1 DEF RecordReturn
  <1>7. CASE Record
    BY <1>2, <1>3, <1>4, <1>5, <1>6, <1>7, PaymentRecorded DEF Record
  <1>8. CASE File
    BY <1>1, <1>8 DEF File, RecordFiling, rows
  <1>9. CASE Announce \/ EditSeller \/ RegisterMoves \/ NextDay
    BY <1>1, <1>9 DEF Announce, EditSeller, RegisterMoves, NextDay, rows
  <1>10. CASE UNCHANGED vars
    BY <1>1, <1>10 DEF vars, rows
  <1>11. QED
    BY <1>7, <1>8, <1>9, <1>10 DEF Next

\* The empty year has its shape.
LEMMA CurrentInit == Init => CurrentInv /\ PeriodInv
  <1> SUFFICES ASSUME Init PROVE CurrentInv /\ PeriodInv
    OBVIOUS
  <1>1. Min(Days) \in Days
    BY MinIsLeast, DatesAssumption
  <1>2. QED
    BY <1>1 DEF Init, CurrentInv, PeriodInv, OnlyOne, PaymentsOf, Settlements

\* Shape and periods hold in every state.
LEMMA PeriodHolds == Spec => [](CurrentInv /\ PeriodInv)
  BY CurrentInit, CurrentStep, PeriodStep, PTL DEF Spec

\* Whatever is recorded, undone and recorded again, and however elections and
\* figures move meanwhile: a month's transfer is on record once, a year is
\* settled once and after it is over, and a year holds one granted month.
THEOREM RecordedOnce == Spec => []OncePerPeriod
  <1>1. PeriodInv => OncePerPeriod
    BY OnlyOneIsOne DEF PeriodInv, OncePerPeriod
  <1>2. QED
    BY <1>1, PeriodHolds, PTL

-----------------------------------------------------------------------------
(* What a year offers.                                                     *)

\* A business's first month of a year is one of its twelve, and none of its
\* months before it has a regime.
LEMMA FirstMonthType ==
  ASSUME CurrentInv, NEW year \in Nat
  PROVE  /\ FirstMonth(year) # None =>
              /\ seller.started \in Nat /\ FirstMonth(year) \in Nat
              /\ 12 * year <= FirstMonth(year) /\ FirstMonth(year) < 12 * year + 12
              /\ MonthOf(seller.started) <= FirstMonth(year)
         /\ \A month \in Int : Regime(seller, month) # None /\ month < 12 * year + 12 =>
              /\ seller.started \in Nat /\ FirstMonth(year) # None
              /\ (12 * year <= month => FirstMonth(year) <= month)
  <1>1. seller.started \in Nat \cup {None}
    BY SellersAssumption DEF CurrentInv
  <1>2. CASE seller.started = None
    BY <1>2 DEF FirstMonth, Regime
  <1>3. CASE seller.started # None
    <2> DEFINE first == MonthOf(seller.started)
    <2>1. first \in Nat /\ YearOf(first) \in Nat /\ 12 * YearOf(first) <= first /\ first < 12 * YearOf(first) + 12
      BY <1>1, <1>3, CalendarType
    <2> HIDE DEF first
    <2>2. FirstMonth(year) = IF YearOf(first) > year THEN None ELSE MaxOf(first, 12 * year)
      BY <1>3 DEF FirstMonth, first
    <2>3. \A n \in Int : n # None
      BY NothingIsNoDate
    <2>4. MaxOf(first, 12 * year) \in Nat /\ first <= MaxOf(first, 12 * year) /\ 12 * year <= MaxOf(first, 12 * year)
          /\ MaxOf(first, 12 * year) \in {first, 12 * year}
      BY <2>1 DEF MaxOf
    <2>5. FirstMonth(year) # None =>
            /\ FirstMonth(year) \in Nat /\ 12 * year <= FirstMonth(year)
            /\ FirstMonth(year) < 12 * year + 12 /\ first <= FirstMonth(year)
      BY <2>1, <2>2, <2>4
    <2>6. ASSUME NEW month \in Int, Regime(seller, month) # None, month < 12 * year + 12
          PROVE  FirstMonth(year) # None /\ (12 * year <= month => FirstMonth(year) <= month)
      <3>1. ~(month - first < 0)
        BY <1>3, <2>6 DEF Regime, first
      <3>2. first <= month
        BY <2>1, <3>1
      <3>3. YearOf(first) <= year
        BY <2>1, <2>6, <3>2
      <3>4. FirstMonth(year) = MaxOf(first, 12 * year)
        BY <2>1, <2>2, <3>3
      <3>5. QED
        BY <2>3, <2>4, <3>2, <3>4
    <2>7. QED
      BY <1>1, <1>3, <2>5, <2>6 DEF first
  <1>4. QED
    BY <1>2, <1>3

Offered(year) ==
  {m \in ApplicationMonths(year) :
     /\ YearOf(m) \notin {YearOf(g) : g \in granted}
     /\ IsClaimable(m)
     /\ FirstOf(m) - 1 >= today}

\* The application offered claims the first of the months that may still be
\* claimed, and is due the day before it.
LEMMA OfferedType ==
  ASSUME CurrentInv, NEW year \in Nat
  PROVE  /\ Offered(year) \in SUBSET Nat
         /\ HolidayApplication(year) = IF Offered(year) = {} THEN None
              ELSE [on |-> FirstOf(Min(Offered(year))) - 1, claims |-> Min(Offered(year))]
         /\ \A m \in Offered(year) : 12 * year < m
  <1>1. FirstMonth(year) # None =>
          FirstMonth(year) \in Nat /\ 12 * year <= FirstMonth(year)
    BY FirstMonthType
  <1>2. ASSUME NEW m \in ApplicationMonths(year) PROVE m \in Nat /\ 12 * year < m
    <2>1. CASE m = 12 * (year + 1)
      BY <2>1
    <2>2. CASE m # 12 * (year + 1)
      <3>1. FirstMonth(year) # None /\ m \in FirstMonth(year)..12 * year + 11 /\ MonthInYear(m) > 1
        BY <2>2 DEF ApplicationMonths
      <3>2. m \in Nat /\ 12 * year <= m
        BY <1>1, <3>1
      <3>3. (12 * year) % 12 = 0
        OBVIOUS
      <3>4. m # 12 * year
        BY <3>1, <3>3 DEF MonthInYear
      <3>5. QED
        BY <3>2, <3>4
    <2>3. QED
      BY <2>1, <2>2
  <1>3. QED
    BY <1>2 DEF Offered, HolidayApplication

\* Whoever the taxpayer is: the month an application is offered for is one that
\* may be recorded, and no earlier one that may be is passed over.
LEMMA OfferIsRecordable ==
  ASSUME CurrentInv, NEW year \in Years
  PROVE  LET offer == HolidayApplication(year)
         IN  /\ offer # None => MayRecordHoliday(offer.claims) /\ offer.claims \notin granted
             /\ \A month \in {m + 1 : m \in MonthsOf(year)} \ granted :
                  MayRecordHoliday(month) /\ FirstOf(month) > today
                    => offer # None /\ offer.claims <= month
  <1> DEFINE offer == HolidayApplication(year)
             claims == Min(Offered(year))
             on == FirstOf(claims) - 1
  <1>1. year \in Nat /\ today \in Nat /\ granted \subseteq Nat
    BY NothingIsNoDate DEF CurrentInv
  <1>2. Offered(year) # {} => claims \in Offered(year) /\ claims \in Nat /\ \A m \in Offered(year) : claims <= m
    BY <1>1, OfferedType, MinIsLeast
  <1>3. offer = IF Offered(year) = {} THEN None ELSE [on |-> on, claims |-> claims]
    BY <1>1, OfferedType
  <1> HIDE DEF offer
  <1>4. Offered(year) # {} => offer.claims = claims /\ offer # None
    <2>1. CASE Offered(year) # {}
      <3>1. on \in Int /\ claims \in Int
        BY <1>2, <2>1 DEF FirstOf, DaysInMonth
      <3> HIDE DEF on, claims
      <3>2. [on |-> on, claims |-> claims] \in [on : Int, claims : Int]
        BY <3>1
      <3>3. QED
        BY <1>3, <2>1, <3>2, NoApplicationAssumption
    <2>2. QED
      BY <2>1
  <1>5. ASSUME offer # None PROVE MayRecordHoliday(offer.claims) /\ offer.claims \notin granted
    <2>1. Offered(year) # {} /\ offer.claims = claims /\ claims \in Offered(year)
      BY <1>2, <1>3, <1>4, <1>5
    <2> HIDE DEF claims
    <2>2. IsClaimable(claims) /\ \A g \in granted : YearOf(g) # YearOf(claims)
      BY <2>1 DEF Offered
    <2>3. Regime(seller, claims) # None
      BY <2>2 DEF IsClaimable
    <2>4. QED
      BY <2>1, <2>2, <2>3 DEF MayRecordHoliday
  <1>6. ASSUME NEW month \in {m + 1 : m \in MonthsOf(year)} \ granted,
               MayRecordHoliday(month), FirstOf(month) > today
        PROVE  offer # None /\ offer.claims <= month
    <2>1. month \in Nat /\ 12 * year < month /\ month <= 12 * year + 12
      BY <1>1 DEF MonthsOf
    <2>2. month \in ApplicationMonths(year)
      <3>1. CASE month = 12 * year + 12
        BY <1>1, <3>1 DEF ApplicationMonths
      <3>2. CASE month # 12 * year + 12
        <4>1. Regime(seller, month) # None
          BY <1>6 DEF MayRecordHoliday
        <4>2. FirstMonth(year) # None /\ FirstMonth(year) <= month /\ FirstMonth(year) \in Nat
          BY <1>1, <2>1, <3>2, <4>1, FirstMonthType
        <4>3. month \in FirstMonth(year)..12 * year + 11
          BY <1>1, <2>1, <3>2, <4>2
        <4>4. MonthInYear(month) > 1
          <5>1. month = 12 * year + (month - 12 * year) /\ month - 12 * year \in 1..11
            BY <1>1, <2>1, <3>2
          <5>2. \A i \in 1..11 : (12 * year + i) % 12 = i
            BY <1>1
          <5>3. month % 12 = month - 12 * year
            BY <5>1, <5>2
          <5>4. QED
            BY <5>1, <5>3 DEF MonthInYear
        <4>5. QED
          BY <4>2, <4>3, <4>4 DEF ApplicationMonths
      <3>3. QED
        BY <3>1, <3>2
    <2>3. YearOf(month) \notin {YearOf(g) : g \in granted} /\ IsClaimable(month)
      BY <1>6 DEF MayRecordHoliday
    <2>4. FirstOf(month) - 1 >= today
      BY <1>1, <1>6, <2>1 DEF FirstOf, DaysInMonth
    <2>5. month \in Offered(year)
      BY <2>2, <2>3, <2>4 DEF Offered
    <2>6. QED
      BY <1>2, <1>4, <2>5
  <1>7. QED
    BY <1>5, <1>6 DEF offer

\* What obligations.py offers to apply for is what the view would record, in
\* every state.
THEOREM OffersCanBeRecorded == Spec => []OfferIsWhatCanBeRecorded
  <1>1. CurrentInv => OfferIsWhatCanBeRecorded
    BY OfferIsRecordable DEF OfferIsWhatCanBeRecorded
  <1>2. QED
    BY <1>1, PeriodHolds, PTL

-----------------------------------------------------------------------------
(* The elections. Each regime is a stretch of months, of which the three   *)
(* readings are the months it holds in, its ends and its description.      *)

\* The regime of a month, by where it falls among the stretches.
LEMMA RegimeByStretch ==
  ASSUME NEW s \in Sellers, s.started # None
  PROVE  LET first == MonthOf(s.started)
             ulga == UlgaMonthsOf(s)
             preferential == PreferentialMonthsOf(s)
         IN  /\ first \in Nat /\ ulga \in {0, 6, 7} /\ preferential \in {0, 24}
             /\ \A m \in Int :
                  Regime(s, m) = IF m < first THEN None
                                 ELSE IF m < first + ulga THEN "ulga"
                                 ELSE IF m < first + ulga + preferential THEN "preferential"
                                 ELSE "full"
  <1> DEFINE first == MonthOf(s.started)
             ulga == UlgaMonthsOf(s)
             preferential == PreferentialMonthsOf(s)
  <1>1. first \in Nat
    BY SellersAssumption, CalendarType
  <1>2. ulga \in {0, 6, 7}
    BY DEF UlgaMonthsOf, UlgaMonths
  <1>3. preferential \in {0, 24}
    BY DEF PreferentialMonthsOf, PreferentialMonths
  <1>4. ASSUME NEW m \in Int
        PROVE  Regime(s, m) = IF m < first THEN None
                              ELSE IF m < first + ulga THEN "ulga"
                              ELSE IF m < first + ulga + preferential THEN "preferential"
                              ELSE "full"
    <2>1. Regime(s, m) = IF m - first < 0 THEN None
                         ELSE IF m - first < ulga THEN "ulga"
                         ELSE IF m - first < ulga + preferential THEN "preferential"
                         ELSE "full"
      BY DEF Regime
    <2> HIDE DEF first, ulga, preferential
    <2>2. /\ (m - first < 0) = (m < first)
          /\ (m - first < ulga) = (m < first + ulga)
          /\ (m - first < ulga + preferential) = (m < first + ulga + preferential)
      BY <1>1, <1>2, <1>3
    <2>3. QED
      BY <2>1, <2>2
  <1>5. QED
    BY <1>1, <1>2, <1>3, <1>4

\* The stretches the elections announce, one of them with no end.
LEMMA AnnouncedStretches ==
  ASSUME NEW s \in Sellers, s.started # None
  PROVE  LET first == MonthOf(s.started)
             ulga == UlgaMonthsOf(s)
             preferential == PreferentialMonthsOf(s)
         IN  \A stretch : stretch \in Announced(s) <=>
               \/ ulga > 0 /\ stretch = [regime |-> "ulga", from |-> first, months |-> ulga]
               \/ /\ preferential > 0
                  /\ stretch = [regime |-> "preferential", from |-> first + ulga, months |-> preferential]
               \/ stretch = [regime |-> "full", from |-> first + ulga + preferential, months |-> None]
  BY DEF Announced

\* Every month of a stretch announced is charged under its regime.
LEMMA StretchesAreCharged ==
  ASSUME NEW s \in Sellers, s.started # None, NEW stretch \in Announced(s),
         NEW m \in stretch.from .. stretch.from + (IF stretch.months = None THEN 1 ELSE stretch.months - 1)
  PROVE  Regime(s, m) = stretch.regime
  <1> DEFINE first == MonthOf(s.started)
             ulga == UlgaMonthsOf(s)
             preferential == PreferentialMonthsOf(s)
  <1>1. first \in Nat /\ ulga \in {0, 6, 7} /\ preferential \in {0, 24}
    BY RegimeByStretch
  <1>2. \A n \in Int : Regime(s, n) = IF n < first THEN None
                         ELSE IF n < first + ulga THEN "ulga"
                         ELSE IF n < first + ulga + preferential THEN "preferential"
                         ELSE "full"
    BY RegimeByStretch
  <1>3. \/ ulga > 0 /\ stretch = [regime |-> "ulga", from |-> first, months |-> ulga]
        \/ /\ preferential > 0
           /\ stretch = [regime |-> "preferential", from |-> first + ulga, months |-> preferential]
        \/ stretch = [regime |-> "full", from |-> first + ulga + preferential, months |-> None]
    BY AnnouncedStretches
  <1> HIDE DEF first, ulga, preferential
  <1>4. ulga # None /\ preferential # None
    BY <1>1, NothingIsNoDate
  <1>5. CASE ulga > 0 /\ stretch = [regime |-> "ulga", from |-> first, months |-> ulga]
    <2>1. m \in Int /\ first <= m /\ m < first + ulga
      BY <1>1, <1>4, <1>5
    <2>2. QED
      BY <1>1, <1>2, <1>5, <2>1
  <1>6. CASE /\ preferential > 0
             /\ stretch = [regime |-> "preferential", from |-> first + ulga, months |-> preferential]
    <2>1. m \in Int /\ first + ulga <= m /\ m < first + ulga + preferential
      BY <1>1, <1>4, <1>6
    <2>2. QED
      BY <1>1, <1>2, <1>6, <2>1
  <1>7. CASE stretch = [regime |-> "full", from |-> first + ulga + preferential, months |-> None]
    <2>1. m \in Int /\ first + ulga + preferential <= m
      BY <1>1, <1>7
    <2>2. QED
      BY <1>1, <1>2, <1>7, <2>1
  <1>8. QED
    BY <1>3, <1>5, <1>6, <1>7

\* The changes of regime are where a stretch but the first begins.
LEMMA ChangesAreStretches ==
  ASSUME NEW s \in Sellers, s.started # None
  PROVE  {c.month : c \in Changes(s)} = {t.from : t \in Announced(s)} \ {MonthOf(s.started)}
  <1> DEFINE first == MonthOf(s.started)
             ulga == UlgaMonthsOf(s)
             preferential == PreferentialMonthsOf(s)
             months == {n \in first + 1 .. first + ulga + 24 : Regime(s, n - 1) # Regime(s, n)}
             starts == {t.from : t \in Announced(s)}
  <1>1. first \in Nat /\ ulga \in {0, 6, 7} /\ preferential \in {0, 24}
    BY RegimeByStretch
  <1>2. \A n \in Int : Regime(s, n) = IF n < first THEN None
                         ELSE IF n < first + ulga THEN "ulga"
                         ELSE IF n < first + ulga + preferential THEN "preferential"
                         ELSE "full"
    BY RegimeByStretch
  <1>3. {c.month : c \in Changes(s)} = months
    <2> DEFINE change(m) == [month |-> m, leaves |-> Regime(s, m - 1), joins |-> Regime(s, m)]
    <2>1. Changes(s) = {change(m) : m \in months}
      BY DEF Changes, PreferentialMonths
    <2>2. \A m \in months : change(m).month = m
      OBVIOUS
    <2> HIDE DEF change, months
    <2>3. QED
      BY <2>1, <2>2
  <1>4. \A m : m \in starts <=> \/ ulga > 0 /\ m = first
                                \/ preferential > 0 /\ m = first + ulga
                                \/ m = first + ulga + preferential
    <2>1. \A stretch : stretch \in Announced(s) <=>
            \/ ulga > 0 /\ stretch = [regime |-> "ulga", from |-> first, months |-> ulga]
            \/ /\ preferential > 0
               /\ stretch = [regime |-> "preferential", from |-> first + ulga, months |-> preferential]
            \/ stretch = [regime |-> "full", from |-> first + ulga + preferential, months |-> None]
      BY AnnouncedStretches
    <2> DEFINE stretches == Announced(s)
    <2>2. starts = {t.from : t \in stretches}
      OBVIOUS
    <2> HIDE DEF first, ulga, preferential, stretches, starts
    <2>3. ASSUME NEW t \in stretches
          PROVE  \/ ulga > 0 /\ t.from = first
                 \/ preferential > 0 /\ t.from = first + ulga
                 \/ t.from = first + ulga + preferential
      <3>1. t \in Announced(s)
        BY DEF stretches
      <3>2. \/ ulga > 0 /\ t = [regime |-> "ulga", from |-> first, months |-> ulga]
            \/ /\ preferential > 0
               /\ t = [regime |-> "preferential", from |-> first + ulga, months |-> preferential]
            \/ t = [regime |-> "full", from |-> first + ulga + preferential, months |-> None]
        BY <2>1, <3>1
      <3>3. QED
        BY <3>2
    <2>4. /\ ulga > 0 => \E t \in stretches : t.from = first
          /\ preferential > 0 => \E t \in stretches : t.from = first + ulga
          /\ \E t \in stretches : t.from = first + ulga + preferential
      <3>1. ulga > 0 => [regime |-> "ulga", from |-> first, months |-> ulga] \in stretches
        BY <2>1 DEF stretches
      <3>2. preferential > 0 =>
              [regime |-> "preferential", from |-> first + ulga, months |-> preferential] \in stretches
        BY <2>1 DEF stretches
      <3>3. [regime |-> "full", from |-> first + ulga + preferential, months |-> None] \in stretches
        BY <2>1 DEF stretches
      <3>4. QED
        BY <3>1, <3>2, <3>3
    <2>5. QED
      BY <2>2, <2>3, <2>4
  <1> HIDE DEF first, ulga, preferential, starts
  <1>5. ASSUME NEW m \in months PROVE m \in starts /\ m # first
    <2>1. m \in Int /\ m - 1 \in Int /\ first < m /\ m <= first + ulga + 24 /\ Regime(s, m - 1) # Regime(s, m)
      BY <1>1
    <2>2. m = first + ulga \/ m = first + ulga + preferential
      BY <1>1, <1>2, <2>1
    <2>3. m # first + ulga \/ preferential > 0 \/ m = first + ulga + preferential
      BY <1>1
    <2>4. QED
      BY <1>1, <1>4, <2>1, <2>2, <2>3
  <1>6. ASSUME NEW m \in starts, m # first PROVE m \in months
    <2>1. \/ preferential > 0 /\ m = first + ulga /\ ulga > 0
          \/ m = first + ulga + preferential /\ ulga + preferential > 0
      BY <1>1, <1>4, <1>6
    <2>2. m \in first + 1 .. first + ulga + 24 /\ m \in Int /\ m - 1 \in Int
      BY <1>1, <2>1
    <2>3. Regime(s, m - 1) # Regime(s, m)
      BY <1>1, <1>2, <2>1, <2>2
    <2>4. QED
      BY <2>2, <2>3
  <1>7. QED
    BY <1>3, <1>5, <1>6 DEF first, starts

\* A term ends on its last day or within a month of it, on a working day.
LEMMA WorkingDayIs ==
  ASSUME NEW date \in Nat
  PROVE  /\ WorkingDay(date) \in Nat /\ WorkingDay(date) \notin DaysOff
         /\ date <= WorkingDay(date) /\ WorkingDay(date) <= date + 30
  <1> DEFINE n == Cardinality(DaysOff)
             span == date .. date + n
             days == {d \in span : d \notin DaysOff}
  <1>1. n \in Nat
    BY TermsAssumption, FS_CardinalityType
  <1> HIDE DEF n
  <1>2. days # {}
    <2>1. SUFFICES ASSUME days = {} PROVE FALSE
      OBVIOUS
    <2>2. span \in SUBSET DaysOff
      BY <2>1
    <2>3. Cardinality(span) <= n
      BY <2>2, TermsAssumption, FS_Subset DEF n
    <2>4. Cardinality(span) = n + 1
      <3>1. date \in Int /\ date + n \in Int /\ ~(date > date + n) /\ (date + n) - date + 1 = n + 1
        BY <1>1
      <3>2. QED
        BY <3>1, FS_Interval
    <2>5. QED
      BY <1>1, <2>3, <2>4
  <1>3. days \in SUBSET Nat
    BY <1>1
  <1>4. WorkingDay(date) = Min(days)
    BY DEF WorkingDay, n
  <1>5. Min(days) \in days /\ \A d \in days : Min(days) <= d
    BY <1>2, <1>3, MinIsLeast
  <1> DEFINE least == Min(days)
  <1>6. WorkingDay(date) = least /\ least \in days /\ \A d \in days : least <= d
    BY <1>4, <1>5
  <1> HIDE DEF least
  <1>7. least \in Nat /\ date <= least /\ least <= date + n /\ least \notin DaysOff
    BY <1>1, <1>6
  <1>8. least <= date + 30
    <2>1. PICK w \in date .. date + 30 : w \notin DaysOff
      <3>1. CASE date \notin DaysOff
        BY <3>1
      <3>2. CASE date \in DaysOff
        BY <3>2, TermsAssumption
      <3>3. QED
        BY <3>1, <3>2
    <2>2. CASE w <= date + n
      <3>1. w \in days
        BY <1>1, <2>1, <2>2
      <3>2. QED
        BY <1>6, <1>7, <2>1, <3>1
    <2>3. CASE ~(w <= date + n)
      BY <1>1, <1>7, <2>1, <2>3
    <2>4. QED
      BY <2>2, <2>3
  <1>9. QED
    BY <1>6, <1>7, <1>8

\* A change of regime is of a month, and its registration is due on a working
\* day a week or more into it, on the page of the month before.
LEMMA RegistrationIs ==
  ASSUME NEW s \in Sellers, s.started # None, NEW c \in Changes(s)
  PROVE  /\ c.month \in Nat /\ MonthOf(s.started) < c.month
         /\ LET on == WorkingDay(FirstOf(c.month) + RegistrationTerm)
            IN  /\ on \in Nat /\ on >= FirstOf(c.month) + RegistrationTerm /\ on \notin DaysOff
                /\ on <= FirstOf(c.month) + RegistrationTerm + 30
  <1>1. MonthOf(s.started) \in Nat /\ UlgaMonthsOf(s) \in {0, 6, 7}
    BY RegimeByStretch
  <1>2. PICK n \in MonthOf(s.started) + 1 .. MonthOf(s.started) + UlgaMonthsOf(s) + 24 : c.month = n
    BY DEF Changes, PreferentialMonths
  <1>3. c.month \in Nat /\ MonthOf(s.started) < c.month
    BY <1>1, <1>2
  <1> DEFINE term == FirstOf(c.month) + RegistrationTerm
  <1>4. term \in Nat
    BY <1>3 DEF FirstOf, DaysInMonth, RegistrationTerm
  <1> HIDE DEF term
  <1>5. /\ WorkingDay(term) \in Nat /\ WorkingDay(term) \notin DaysOff
        /\ term <= WorkingDay(term) /\ WorkingDay(term) <= term + 30
    BY <1>4, WorkingDayIs
  <1>6. WorkingDay(term) >= term
    BY <1>4, <1>5
  <1>7. QED
    BY <1>3, <1>5, <1>6 DEF term

\* The three readings of the elections agree, whatever was elected and when.
LEMMA ElectionsAgree ==
  ASSUME CurrentInv
  PROVE  StretchesAgree
  <1> SUFFICES ASSUME seller.started # None PROVE StretchesAgree
    BY DEF StretchesAgree
  <1> DEFINE first == MonthOf(seller.started)
  <1>1. seller \in Sellers
    BY DEF CurrentInv
  <1>2. first \in Nat /\ UlgaMonthsOf(seller) \in {0, 6, 7} /\ PreferentialMonthsOf(seller) \in {0, 24}
    BY <1>1, RegimeByStretch
  <1>3. \A m \in Int : Regime(seller, m) =
          IF m < first THEN None
          ELSE IF m < first + UlgaMonthsOf(seller) THEN "ulga"
          ELSE IF m < first + UlgaMonthsOf(seller) + PreferentialMonthsOf(seller) THEN "preferential"
          ELSE "full"
    BY <1>1, RegimeByStretch
  <1>4. Regime(seller, first - 1) = None /\ Regime(seller, first) # None
    <2>1. first - 1 \in Int /\ first - 1 < first /\ ~(first < first)
      BY <1>2
    <2>2. None \notin {"ulga", "preferential", "full"}
      BY NoneAssumption
    <2> HIDE DEF first
    <2>3. QED
      BY <1>2, <1>3, <2>1, <2>2
  <1>5. {c.month : c \in Changes(seller)} = {t.from : t \in Announced(seller)} \ {first}
    BY <1>1, ChangesAreStretches
  <1>6. \A stretch \in Announced(seller) :
          \A m \in stretch.from .. stretch.from + (IF stretch.months = None THEN 1 ELSE stretch.months - 1) :
            Regime(seller, m) = stretch.regime
    BY <1>1, StretchesAreCharged
  <1>7. ASSUME NEW c \in Changes(seller)
        PROVE  \E r \in Registrations(YearOf(c.month - 1)) :
                 r.change = c /\ r.on >= FirstOf(c.month) + RegistrationTerm /\ r.on \notin DaysOff
    <2> DEFINE on == WorkingDay(FirstOf(c.month) + RegistrationTerm)
    <2>1. on >= FirstOf(c.month) + RegistrationTerm /\ on \notin DaysOff
      BY <1>1, RegistrationIs
    <2>2. [on |-> on, change |-> c] \in Registrations(YearOf(c.month - 1))
      BY DEF Registrations
    <2> HIDE DEF on
    <2>3. QED
      BY <2>1, <2>2
  <1>8. QED
    BY <1>4, <1>5, <1>6, <1>7 DEF StretchesAgree

\* A month of a year is in that year, and after its June if July has come.
LEMMA MonthOfItsYear ==
  ASSUME NEW year \in Nat, NEW month \in MonthsOf(year)
  PROVE  /\ month \in Nat /\ 12 * year <= month /\ month <= 12 * year + 11
         /\ YearOf(month) = year /\ MonthInYear(month) = month - 12 * year + 1
  <1>1. month \in Nat /\ 12 * year <= month /\ month <= 12 * year + 11
    BY DEF MonthsOf
  <1>2. month - 12 * year \in 0..11 /\ month = 12 * year + (month - 12 * year)
    BY <1>1
  <1>3. \A i \in 0..11 : (12 * year + i) \div 12 = year /\ (12 * year + i) % 12 = i
    OBVIOUS
  <1>4. month \div 12 = year /\ month % 12 = month - 12 * year
    BY <1>2, <1>3
  <1>5. QED
    BY <1>1, <1>4 DEF YearOf, MonthInYear

\* What a month is charged, once it can be said and is not free.
LEMMA SocialIs ==
  ASSUME NEW s, NEW month, NEW entered, entered # None, NEW freed,
         LET owed == Social(s, month, entered, freed)
         IN  owed # None /\ owed.regime # "ulga" /\ ~owed.exempt
  PROVE  LET owed == Social(s, month, entered, freed)
             base == IF Regime(s, month) = "preferential" THEN PreferentialBaseIn(entered, month)
                     ELSE FullBase(entered)
         IN  /\ owed.regime = Regime(s, month) /\ owed.regime # None
             /\ owed.charged = Charged(base, s.accident, s.chorobowe, MinimumWageIn(entered, month))
  <1> DEFINE base == IF Regime(s, month) = "preferential" THEN PreferentialBaseIn(entered, month)
                     ELSE FullBase(entered)
             charged == Charged(base, s.accident, s.chorobowe, MinimumWageIn(entered, month))
             nothing == NothingCharged(base)
             exempt == month \in freed
             free == [regime |-> "ulga", exempt |-> FALSE, charged |-> NothingCharged(0)]
             owed == Social(s, month, entered, freed)
  <1>1. owed = IF Regime(s, month) = None THEN None
               ELSE IF Regime(s, month) = "ulga" THEN free
               ELSE IF entered = None \/ IsPartial(s, month) THEN None
               ELSE [regime |-> Regime(s, month), exempt |-> exempt,
                     charged |-> IF exempt THEN nothing ELSE charged]
    BY DEF Social
  <1>2. free.regime = "ulga"
    OBVIOUS
  <1>3. owed # None /\ owed.regime # "ulga" /\ ~owed.exempt
    OBVIOUS
  <1> HIDE DEF free, charged, nothing, owed
  <1>4. /\ owed = [regime |-> Regime(s, month), exempt |-> exempt,
                   charged |-> IF exempt THEN nothing ELSE charged]
        /\ Regime(s, month) # None
    BY <1>1, <1>2, <1>3
  <1>5. owed.exempt = exempt
    BY <1>4
  <1>6. ~exempt
    BY <1>3, <1>5
  <1>7. owed.regime = Regime(s, month) /\ owed.charged = charged
    BY <1>4, <1>6
  <1>8. QED
    BY <1>4, <1>7 DEF owed, charged

AnnouncedBase(entered, year, accident, regime, month) ==
  LET ofRegime == {b \in AnnouncedBases(entered, year, accident) : b.regime = regime /\ b.from <= month}
  IN  CHOOSE b \in ofRegime : \A c \in ofRegime : c.from <= b.from

\* What the bases page states for a month's regime is of the month's side of
\* July, and the same whoever is insured but for the accident rate.
LEMMA AnnouncedFor ==
  ASSUME NEW entered \in Wages, NEW year \in Nat, NEW month \in MonthsOf(year), NEW accident,
         NEW regime \in {"preferential", "full"}
  PROVE  AnnouncedBase(entered, year, accident, regime, month).charged =
           IF regime = "preferential"
           THEN Charged(PreferentialBaseIn(entered, month), accident, TRUE, MinimumWageIn(entered, month))
           ELSE Charged(FullBase(entered), accident, TRUE, MinimumWageIn(entered, 12 * year + 11))
  <1> DEFINE january == 12 * year
             december == january + 11
             starts == IF entered.july = None THEN {january} ELSE {january, january + July - 1}
             Of(m) == Charged(PreferentialBaseIn(entered, m), accident, TRUE, MinimumWageIn(entered, m))
             full == Charged(FullBase(entered), accident, TRUE, MinimumWageIn(entered, december))
             For(m) == [regime |-> "preferential", from |-> m, charged |-> Of(m)]
             whole == [regime |-> "full", from |-> january, charged |-> full]
             stated == AnnouncedBases(entered, year, accident)
             ofRegime == {b \in stated : b.regime = regime /\ b.from <= month}
             IsLatest(b) == b \in ofRegime /\ \A c \in ofRegime : c.from <= b.from
             announced == CHOOSE b \in ofRegime : \A c \in ofRegime : c.from <= b.from
  <1>1. stated = {For(m) : m \in starts} \cup {whole}
    BY DEF AnnouncedBases
  <1>2. /\ \A m : For(m).regime = "preferential" /\ For(m).from = m /\ For(m).charged = Of(m)
        /\ whole.regime = "full" /\ whole.from = january /\ whole.charged = full
    OBVIOUS
  <1>3. (\E b : IsLatest(b)) => IsLatest(announced)
    OBVIOUS
  <1>4. /\ january \in Nat /\ month \in Nat /\ january <= month /\ month <= january + 11
        /\ MonthInYear(month) = month - january + 1
    BY MonthOfItsYear
  <1>5. MonthInYear(january) = 1 /\ MonthInYear(january + 6) = 7
    <2>1. january \in MonthsOf(year) /\ january + 6 \in MonthsOf(year)
      BY DEF MonthsOf
    <2>2. MonthInYear(january) = january - january + 1 /\ MonthInYear(january + 6) = (january + 6) - january + 1
      BY <2>1, MonthOfItsYear
    <2>3. QED
      BY <1>4, <2>2
  <1> HIDE DEF stated, For, whole, january
  <1>6. CASE regime = "full"
    <2>1. ofRegime = {whole}
      BY <1>1, <1>2, <1>4, <1>6
    <2>2. IsLatest(whole)
      BY <1>2, <1>4, <2>1
    <2> HIDE DEF ofRegime, announced
    <2>3. announced = whole
      BY <1>3, <2>1, <2>2
    <2>4. announced.charged = full
      BY <1>2, <2>3
    <2>5. QED
      BY <1>6, <2>4 DEF announced, ofRegime, stated, january, AnnouncedBase
  <1>7. CASE regime = "preferential"
    <2> DEFINE Upto(m) == m \in starts /\ m <= month
    <2>1. \A b : b \in ofRegime <=> \E m \in starts : b = For(m) /\ m <= month
      BY <1>1, <1>2, <1>7
    <2>2. PICK m \in starts : m <= month /\ \A n \in starts : n <= month => n <= m
      BY <1>4 DEF July
    <2>3. IsLatest(For(m))
      BY <1>2, <2>1, <2>2
    <2>4. PICK n \in starts : announced = For(n) /\ n <= month /\ m <= n
      BY <1>2, <1>3, <2>1, <2>2, <2>3
    <2>5. n = m
      BY <1>4, <2>2, <2>4 DEF July
    <2>6. announced.charged = Of(m)
      BY <1>2, <2>4, <2>5
    <2>7. MinimumWageIn(entered, m) = MinimumWageIn(entered, month)
      <3>1. CASE entered.july = None
        BY <3>1 DEF MinimumWageIn
      <3>2. CASE entered.july # None
        <4>1. (m = january /\ month < january + 6) \/ (m = january + 6 /\ month >= january + 6)
          <5>1. january + July - 1 = january + 6
            BY <1>4 DEF July
          <5>2. starts = {january, january + 6}
            BY <3>2, <5>1
          <5> HIDE DEF starts
          <5>3. m = january \/ m = january + 6
            BY <2>2, <5>2
          <5>4. january + 6 <= month => january + 6 <= m
            BY <2>2, <5>2
          <5>5. m <= month /\ january \in Nat /\ month \in Nat
            BY <1>4, <2>2
          <5>6. QED
            BY <5>3, <5>4, <5>5
        <4>2. MonthInYear(m) >= July <=> MonthInYear(month) >= July
          BY <1>4, <1>5, <4>1 DEF July
        <4>3. QED
          BY <4>2 DEF MinimumWageIn
      <3>3. QED
        BY <3>1, <3>2
    <2>8. Of(m) = Of(month)
      BY <2>7 DEF PreferentialBaseIn
    <2> HIDE DEF announced, Of
    <2>9. announced.charged = Of(month)
      BY <2>6, <2>8
    <2>10. QED
      BY <1>7, <2>9 DEF announced, Of, stated, AnnouncedBase
  <1>8. QED
    BY <1>6, <1>7

Parts == {"base", "pension", "disability", "accident", "sickness", "funds"}

ChargesAlike(base, accident, insured, minimum, other) ==
  LET mine == Charged(base, accident, insured, minimum)
      stated == Charged(base, accident, TRUE, other)
  IN  \A part \in Parts : \/ mine[part] = stated[part]
                          \/ part = "sickness" /\ ~insured /\ mine[part] = 0
                          \/ part = "funds" /\ (base >= minimum) # (base >= other)

\* What a base charges two people differs only where what they are charged
\* for does.
LEMMA ChargedAlike ==
  ASSUME NEW base, NEW accident, NEW insured \in BOOLEAN, NEW minimum, NEW other
  PROVE  ChargesAlike(base, accident, insured, minimum, other)
  <1> DEFINE mine == Charged(base, accident, insured, minimum)
             stated == Charged(base, accident, TRUE, other)
  <1>1. /\ mine["base"] = stated["base"] /\ mine["pension"] = stated["pension"]
        /\ mine["disability"] = stated["disability"] /\ mine["accident"] = stated["accident"]
    BY DEF Charged
  <1>2. mine["sickness"] = stated["sickness"] \/ (~insured /\ mine["sickness"] = 0)
    <2> DEFINE due == Contribution(base, SicknessRate)
    <2>1. stated["sickness"] = due
      BY DEF Charged
    <2>2. mine["sickness"] = IF insured THEN due ELSE 0
      BY DEF Charged
    <2> HIDE DEF mine, stated, due
    <2>3. CASE insured = TRUE
      BY <2>1, <2>2, <2>3
    <2>4. CASE insured = FALSE
      BY <2>2, <2>4
    <2>5. QED
      BY <2>3, <2>4
  <1>3. mine["funds"] = stated["funds"] \/ (base >= minimum) # (base >= other)
    BY DEF Charged
  <1> HIDE DEF mine, stated
  <1>4. ASSUME NEW part \in Parts
        PROVE  \/ mine[part] = stated[part]
               \/ part = "sickness" /\ ~insured /\ mine[part] = 0
               \/ part = "funds" /\ (base >= minimum) # (base >= other)
    <2>1. CASE part = "sickness"
      BY <1>2, <2>1, Zenon
    <2>2. CASE part = "funds"
      BY <1>3, <2>2, Zenon
    <2>3. CASE part \in {"base", "pension", "disability", "accident"}
      BY <1>1, <2>3
    <2>4. QED
      BY <2>1, <2>2, <2>3 DEF Parts
  <1>5. QED
    BY <1>4 DEF mine, stated, ChargesAlike

\* Bases are amounts.
LEMMA BasesType ==
  ASSUME NEW entered \in Wages
  PROVE  /\ FullBase(entered) \in Nat
         /\ \A m : MinimumWageIn(entered, m) \in Nat /\ PreferentialBaseIn(entered, m) \in Nat
  <1>1. entered.minimum \in Nat /\ entered.july \in Nat \cup {None} /\ entered.forecast \in Nat
    BY WagesAssumption
  <1>2. \A m : MinimumWageIn(entered, m) \in Nat
    BY <1>1 DEF MinimumWageIn
  <1>3. \A n \in Nat : (n + 100 \div 2) \div 100 \in Nat
    OBVIOUS
  <1>4. \A n \in Nat : n * 60 \in Nat /\ n * 30 \in Nat
    OBVIOUS
  <1>5. FullBase(entered) \in Nat
    BY <1>1, <1>3, <1>4 DEF FullBase, RoundHalfUp
  <1>6. \A m : PreferentialBaseIn(entered, m) \in Nat
    BY <1>2, <1>3, <1>4 DEF PreferentialBaseIn, RoundHalfUp
  <1>7. QED
    BY <1>2, <1>5, <1>6

\* Whoever the taxpayer is and whatever was announced: a month owes what the
\* pages announce of it.
LEMMA MonthAsAnnounced ==
  ASSUME CurrentInv, NEW year \in EnteredYears \cup RequestYears, NEW month \in MonthsOf(year)
  PROVE  LET entered == wages[YearOf(month)]
             owed == Social(seller, month, entered, granted)
             stated == AnnouncedBases(entered, YearOf(month), seller.accident)
             ofRegime == {b \in stated : b.regime = owed.regime /\ b.from <= month}
             announced == CHOOSE b \in ofRegime : \A c \in ofRegime : c.from <= b.from
         IN  /\ entered # None /\ owed # None
             /\ owed.regime # "ulga" /\ ~owed.exempt
             => \A part \in {"base", "pension", "disability", "accident", "sickness", "funds"} :
                  \/ owed.charged[part] = announced.charged[part]
                  \/ part = "sickness" /\ ~seller.chorobowe /\ owed.charged[part] = 0
                  \/ part = "funds" /\ owed.regime = "full"
                     /\ (FullBase(entered) < MinimumWageIn(entered, month))
                          # (FullBase(entered) < MinimumWageIn(entered, 12 * YearOf(month) + 11))
  <1> DEFINE entered == wages[YearOf(month)]
             owed == Social(seller, month, entered, granted)
             stated == AnnouncedBases(entered, YearOf(month), seller.accident)
             Of(regime) == {b \in stated : b.regime = regime /\ b.from <= month}
             ofRegime == {b \in stated : b.regime = owed.regime /\ b.from <= month}
             announced == CHOOSE b \in ofRegime : \A c \in ofRegime : c.from <= b.from
             december == 12 * YearOf(month) + 11
  <1> SUFFICES ASSUME entered # None, owed # None, owed.regime # "ulga", ~owed.exempt,
                      NEW part \in {"base", "pension", "disability", "accident", "sickness", "funds"}
               PROVE  \/ owed.charged[part] = announced.charged[part]
                      \/ part = "sickness" /\ ~seller.chorobowe /\ owed.charged[part] = 0
                      \/ part = "funds" /\ owed.regime = "full"
                         /\ (FullBase(entered) < MinimumWageIn(entered, month))
                              # (FullBase(entered) < MinimumWageIn(entered, december))
    OBVIOUS
  <1>1. year \in Years /\ year \in Nat
    BY DatesAssumption
  <1>2. YearOf(month) = year
    BY <1>1, MonthOfItsYear
  <1>3. entered \in Wages
    BY <1>1, <1>2 DEF CurrentInv
  <1>4. seller \in Sellers /\ seller.chorobowe \in BOOLEAN
    BY SellersAssumption DEF CurrentInv
  <1>5. Regime(seller, month) \in {None, "ulga", "preferential", "full"}
    BY DEF Regime
  <1> DEFINE base == IF Regime(seller, month) = "preferential" THEN PreferentialBaseIn(entered, month)
                     ELSE FullBase(entered)
             minimum == MinimumWageIn(entered, month)
  <1>6. /\ owed.regime = Regime(seller, month) /\ owed.regime # None
        /\ owed.charged = Charged(base, seller.accident, seller.chorobowe, minimum)
    <2> HIDE DEF entered
    <2>1. QED
      BY SocialIs
  <1>7. owed.regime \in {"preferential", "full"}
    BY <1>5, <1>6
  <1>8. announced.charged =
          IF owed.regime = "preferential"
          THEN Charged(PreferentialBaseIn(entered, month), seller.accident, TRUE, minimum)
          ELSE Charged(FullBase(entered), seller.accident, TRUE, MinimumWageIn(entered, december))
    <2> DEFINE regime == owed.regime
               rate == seller.accident
    <2>1. announced = AnnouncedBase(entered, year, rate, regime, month)
      BY <1>2 DEF AnnouncedBase
    <2> HIDE DEF entered, owed, announced, regime, rate
    <2>2. regime \in {"preferential", "full"} /\ regime = owed.regime /\ rate = seller.accident
      BY <1>7 DEF regime, rate
    <2>3. AnnouncedBase(entered, year, rate, regime, month).charged =
            IF regime = "preferential"
            THEN Charged(PreferentialBaseIn(entered, month), rate, TRUE, MinimumWageIn(entered, month))
            ELSE Charged(FullBase(entered), rate, TRUE, MinimumWageIn(entered, 12 * year + 11))
      <3>1. entered \in Wages /\ year \in Nat /\ month \in MonthsOf(year) /\ regime \in {"preferential", "full"}
        BY <1>1, <1>3, <2>2
      <3>2. QED
        BY <3>1, AnnouncedFor, ZenonT(60)
    <2>4. QED
      BY <1>2, <2>1, <2>2, <2>3
  <1>9. FullBase(entered) \in Nat /\ minimum \in Nat /\ MinimumWageIn(entered, december) \in Nat
    BY <1>3, BasesType
  <1> HIDE DEF entered, owed, announced
  <1>10. CASE owed.regime = "preferential"
    <2>1. /\ owed.charged = Charged(base, seller.accident, seller.chorobowe, minimum)
          /\ announced.charged = Charged(base, seller.accident, TRUE, minimum)
      BY <1>6, <1>8, <1>10
    <2> HIDE DEF base, minimum
    <2> DEFINE rate == seller.accident
               insured == seller.chorobowe
               mine == Charged(base, rate, insured, minimum)
               theirs == Charged(base, rate, TRUE, minimum)
    <2>2. \/ mine[part] = theirs[part]
          \/ part = "sickness" /\ ~insured /\ mine[part] = 0
      <3>1. insured \in BOOLEAN
        BY <1>4
      <3> HIDE DEF rate, insured
      <3>2. ChargesAlike(base, rate, insured, minimum, minimum)
        BY <3>1, ChargedAlike
      <3>3. part \in Parts
        BY DEF Parts
      <3>4. QED
        BY <3>2, <3>3 DEF ChargesAlike
    <2>3. owed.charged = mine /\ announced.charged = theirs
      BY <2>1
    <2> HIDE DEF mine, theirs
    <2>4. QED
      BY <2>2, <2>3
  <1>11. CASE owed.regime = "full"
    <2> DEFINE full == FullBase(entered)
               highest == MinimumWageIn(entered, december)
    <2>1. /\ owed.charged = Charged(full, seller.accident, seller.chorobowe, minimum)
          /\ announced.charged = Charged(full, seller.accident, TRUE, highest)
      BY <1>6, <1>8, <1>11
    <2> HIDE DEF minimum, full, highest
    <2> DEFINE rate == seller.accident
               insured == seller.chorobowe
               mine == Charged(full, rate, insured, minimum)
               theirs == Charged(full, rate, TRUE, highest)
    <2>2. \/ mine[part] = theirs[part]
          \/ part = "sickness" /\ ~insured /\ mine[part] = 0
          \/ part = "funds" /\ (full >= minimum) # (full >= highest)
      <3>1. insured \in BOOLEAN
        BY <1>4
      <3> HIDE DEF rate, insured
      <3>2. ChargesAlike(full, rate, insured, minimum, highest)
        BY <3>1, ChargedAlike
      <3>3. part \in Parts
        BY DEF Parts
      <3>4. QED
        BY <3>2, <3>3 DEF ChargesAlike
    <2>5. owed.charged = mine /\ announced.charged = theirs
      BY <2>1
    <2> HIDE DEF mine, theirs
    <2>3. (full >= minimum) = ~(full < minimum) /\ (full >= highest) = ~(full < highest)
      BY <1>9 DEF full, highest
    <2>4. QED
      BY <1>11, <2>2, <2>3, <2>5 DEF minimum, full, highest
  <1>12. QED
    BY <1>7, <1>10, <1>11

\* The regime, the base and every part charged are the ones announced, in
\* every state.
THEOREM ChargesAsAnnounced == Spec => []ChargedAsAnnounced
  <1>1. CurrentInv => ChargedAsAnnounced
    <2> SUFFICES ASSUME CurrentInv PROVE ChargedAsAnnounced
      OBVIOUS
    <2> DEFINE years == EnteredYears \cup RequestYears
               AsAnnounced(month) ==
                 LET entered == wages[YearOf(month)]
                     owed == Social(seller, month, entered, granted)
                     stated == AnnouncedBases(entered, YearOf(month), seller.accident)
                     ofRegime == {b \in stated : b.regime = owed.regime /\ b.from <= month}
                     announced == CHOOSE b \in ofRegime : \A c \in ofRegime : c.from <= b.from
                 IN  /\ entered # None /\ owed # None
                     /\ owed.regime # "ulga" /\ ~owed.exempt
                     => \A part \in {"base", "pension", "disability", "accident", "sickness", "funds"} :
                          \/ owed.charged[part] = announced.charged[part]
                          \/ part = "sickness" /\ ~seller.chorobowe /\ owed.charged[part] = 0
                          \/ part = "funds" /\ owed.regime = "full"
                             /\ (FullBase(entered) < MinimumWageIn(entered, month))
                                  # (FullBase(entered) < MinimumWageIn(entered, 12 * YearOf(month) + 11))
    <2>1. \A year \in years : \A month \in MonthsOf(year) : AsAnnounced(month)
      BY MonthAsAnnounced
    <2>2. ChargedAsAnnounced <=> StretchesAgree /\ \A month \in UNION {MonthsOf(year) : year \in years} : AsAnnounced(month)
      BY DEF ChargedAsAnnounced
    <2> HIDE DEF AsAnnounced, years
    <2>3. \A month \in UNION {MonthsOf(year) : year \in years} : \E year \in years : month \in MonthsOf(year)
      OBVIOUS
    <2>4. QED
      BY <2>1, <2>2, <2>3, ElectionsAgree
  <1>2. QED
    BY <1>1, PeriodHolds, PTL

-----------------------------------------------------------------------------
(* The feed. A year's dates keep to themselves: a month into the year at   *)
(* the least, and well before the year after the next.                     *)

\* When a year's dates fall.
LEMMA DatesOfAYear ==
  ASSUME CurrentInv, NEW year \in Nat, NEW date \in YearDates(year)
  PROVE  /\ date.on \in Int
         /\ 372 * year + 30 <= date.on
         /\ date.on <= 372 * (year + 1) + 173
  <1> DEFINE InTheYear(on) == on \in Int /\ 372 * year + 30 <= on /\ on <= 372 * (year + 1) + 173
  <1>0. FirstMonth(year) # None
    BY DEF YearDates
  <1>1. seller.started \in Nat /\ FirstMonth(year) \in Nat /\ 12 * year <= FirstMonth(year)
    BY <1>0, FirstMonthType
  <1>2. CASE date \in MonthDates(year)
    <2>1. PICK m \in FirstMonth(year) .. 12 * year + 11 : date.on = WorkingDay(PaymentDate(m))
      BY <1>2 DEF MonthDates
    <2>2. m \in Nat /\ 12 * year <= m /\ m <= 12 * year + 11
      BY <1>1, <2>1
    <2>3. PaymentDate(m) \in Nat /\ PaymentDate(m) = 31 * (m + 1) + 19
      BY <2>2 DEF PaymentDate, Day, DaysInMonth
    <2>4. date.on \in Nat /\ PaymentDate(m) <= date.on /\ date.on <= PaymentDate(m) + 30
      BY <2>1, <2>3, WorkingDayIs
    <2>5. QED
      BY <2>2, <2>3, <2>4
  <1>3. CASE date \in Deadlines(year)
    <2> DEFINE next == 12 * (year + 1)
    <2>1. /\ Day(next + 3, 30) \in Nat /\ Day(next + 3, 30) = 31 * (next + 3) + 29
          /\ Day(next + 4, 20) \in Nat /\ Day(next + 4, 20) = 31 * (next + 4) + 19
      BY DEF Day, DaysInMonth
    <2>2. \/ date.on = WorkingDay(Day(next + 3, 30))
          \/ date.on = WorkingDay(Day(next + 4, 20))
      BY <1>3 DEF Deadlines, ReturnDue, SettlementDue
    <2>3. PICK term \in {Day(next + 3, 30), Day(next + 4, 20)} : date.on = WorkingDay(term)
      BY <2>2
    <2>4. term \in Nat /\ 31 * (next + 3) + 29 <= term /\ term <= 31 * (next + 4) + 19
      BY <2>1, <2>3
    <2>5. date.on \in Nat /\ term <= date.on /\ date.on <= term + 30
      BY <2>3, <2>4, WorkingDayIs
    <2>6. QED
      BY <2>4, <2>5
  <1>4. ASSUME NEW r \in Registrations(year), date.on = r.on PROVE InTheYear(date.on)
    <2>1. PICK c \in Changes(seller) : /\ YearOf(c.month - 1) = year
                                       /\ date.on = WorkingDay(FirstOf(c.month) + RegistrationTerm)
      BY <1>4 DEF Registrations
    <2>2. seller \in Sellers /\ seller.started # None
      BY <1>1, NothingIsNoDate DEF CurrentInv
    <2> DEFINE term == FirstOf(c.month) + RegistrationTerm
    <2>3. c.month \in Nat /\ MonthOf(seller.started) < c.month /\ MonthOf(seller.started) \in Nat
      BY <2>2, RegistrationIs, RegimeByStretch
    <2>4. WorkingDay(term) \in Nat /\ WorkingDay(term) >= term /\ WorkingDay(term) <= term + 30
      BY <2>2, RegistrationIs
    <2>5. term \in Nat /\ term = 31 * c.month + 7
      BY <2>3 DEF FirstOf, DaysInMonth, RegistrationTerm
    <2> HIDE DEF term
    <2>6. date.on \in Nat /\ date.on >= term /\ date.on <= term + 30
      BY <2>1, <2>4 DEF term
    <2>7. c.month - 1 \in Nat /\ 12 * year <= c.month - 1 /\ c.month - 1 < 12 * year + 12
      <3>1. c.month - 1 \in Nat
        BY <2>3
      <3>2. QED
        BY <2>1, <3>1, CalendarType
    <2>8. QED
      BY <2>3, <2>5, <2>6, <2>7
  <1>5. ASSUME HolidayApplication(year) # None, date.on = HolidayApplication(year).on
        PROVE  InTheYear(date.on)
    <2> DEFINE claims == Min(Offered(year))
               on == FirstOf(claims) - 1
    <2>1. Offered(year) # {} /\ Offered(year) \in SUBSET Nat /\ \A m \in Offered(year) : 12 * year < m
      BY <1>5, OfferedType
    <2>2. claims \in Offered(year)
      BY <2>1, MinIsLeast
    <2>3. HolidayApplication(year) = [on |-> on, claims |-> claims]
      BY <1>5, OfferedType
    <2>4. claims <= 12 * year + 12
      <3>1. claims \in ApplicationMonths(year)
        BY <2>2 DEF Offered
      <3> HIDE DEF claims
      <3>2. claims \in FirstMonth(year) .. 12 * year + 11 \/ claims = 12 * (year + 1)
        BY <3>1 DEF ApplicationMonths
      <3>3. QED
        BY <1>1, <3>2
    <2>5. claims \in Nat /\ 12 * year < claims
      BY <2>1, <2>2
    <2> HIDE DEF claims
    <2>6. on \in Int /\ on = 31 * claims - 1
      BY <2>5 DEF FirstOf, DaysInMonth
    <2> HIDE DEF on
    <2>7. date.on = on
      BY <1>5, <2>3
    <2>8. QED
      BY <2>4, <2>5, <2>6, <2>7
  <1>6. \/ date \in MonthDates(year)
        \/ date \in Deadlines(year)
        \/ \E r \in Registrations(year) :
             date = [kind |-> "registration", of |-> r.change.month, on |-> r.on]
        \/ /\ HolidayApplication(year) # None
           /\ date = [kind |-> "application", of |-> HolidayApplication(year).claims,
                      on |-> HolidayApplication(year).on]
    BY <1>0 DEF YearDates
  <1>7. \/ date \in MonthDates(year)
        \/ date \in Deadlines(year)
        \/ \E r \in Registrations(year) : date.on = r.on
        \/ HolidayApplication(year) # None /\ date.on = HolidayApplication(year).on
    BY <1>6
  <1>8. InTheYear(date.on)
    BY <1>2, <1>3, <1>4, <1>5, <1>7
  <1>9. QED
    BY <1>8

\* A date of a year the feed does not carry rings on no morning, whatever its
\* reminders are set to, and however a run of days off moves a term.
THEOREM FeedRingsForAll == Spec => []RingsFromTheFeed
  <1>1. ASSUME CurrentInv, NEW year \in Years \ FeedYears, NEW date \in YearDates(year)
        PROVE  today \notin date.on - Max(LeadTimes) .. date.on
    <2> DEFINE current == YearOf(MonthOf(today))
               lead == Max(LeadTimes)
    <2>1. year \in Nat /\ today \in Nat
      BY <1>1, NothingIsNoDate DEF CurrentInv
    <2>2. current \in Nat /\ 372 * current <= today /\ today < 372 * (current + 1)
      <3>1. /\ MonthOf(today) \in Nat /\ FirstOf(MonthOf(today)) <= today
            /\ today < FirstOf(MonthOf(today) + 1)
        BY <2>1, CalendarType
      <3> DEFINE month == MonthOf(today)
      <3>2. current \in Nat /\ 12 * current <= month /\ month < 12 * current + 12
        BY <3>1, CalendarType
      <3>3. month \in Nat /\ 31 * month <= today /\ today < 31 * (month + 1)
        BY <3>1 DEF FirstOf, DaysInMonth
      <3> HIDE DEF month, current
      <3>4. QED
        BY <2>1, <3>2, <3>3
    <2>3. lead \in 0 .. 30
      <3>1. LeadTimes \in SUBSET (0 .. 30) /\ LeadTimes # {} /\ 30 \in Nat
        BY TermsAssumption
      <3>2. QED
        BY <3>1, MaxIsGreatest
    <2>4. date.on \in Int /\ 372 * year + 30 <= date.on /\ date.on <= 372 * (year + 1) + 173
      BY <1>1, <2>1, DatesOfAYear
    <2>5. year # current /\ year # current - 1
      BY <1>1 DEF FeedYears
    <2> HIDE DEF current, lead
    <2>6. today < date.on - lead \/ date.on < today
      <3>1. CASE year > current
        BY <2>1, <2>2, <2>3, <2>4, <3>1
      <3>2. CASE year < current - 1
        BY <2>1, <2>2, <2>3, <2>4, <3>2
      <3>3. QED
        BY <2>1, <2>2, <2>5, <3>1, <3>2
    <2>7. QED
      BY <2>1, <2>3, <2>4, <2>6 DEF lead
  <1>2. CurrentInv => RingsFromTheFeed
    BY <1>1 DEF RingsFromTheFeed
  <1>3. QED
    BY <1>2, PeriodHolds, PTL

-----------------------------------------------------------------------------
(* The months of a year, one after the other.                              *)

\* A list of n members, whatever they are.
IsList(s, n) == s = [k \in 1..n |-> s[k]]

\* A list grows by its last member and keeps the others.
LEMMA ListGrows ==
  ASSUME NEW n \in Nat, NEW s, IsList(s, n), NEW e
  PROVE  /\ Len(s) = n
         /\ IsList(Append(s, e), n + 1)
         /\ \A k \in 1..n : Append(s, e)[k] = s[k]
         /\ Append(s, e)[n + 1] = e
  <1> DEFINE S == {s[k] : k \in 1..n} \cup {e}
             t == Append(s, e)
  <1>1. s \in [1..n -> S]
    BY DEF IsList
  <1> HIDE DEF S
  <1>2. s \in Seq(S)
    BY <1>1, SeqDef
  <1>3. Len(s) = n
    BY <1>1, <1>2
  <1>4. e \in S
    BY DEF S
  <1>5. /\ t \in Seq(S) /\ Len(t) = n + 1
        /\ \A k \in 1..n : t[k] = s[k]
        /\ t[n + 1] = e
    BY <1>2, <1>3, <1>4, AppendProperties
  <1> HIDE DEF t
  <1>6. t \in [1..n + 1 -> S]
    BY <1>5, LenProperties
  <1>7. IsList(t, n + 1)
    BY <1>6 DEF IsList
  <1>8. QED
    BY <1>3, <1>5, <1>7 DEF t

Opening == [carried |-> 0, cumulative |-> 0, band |-> 1]

\* What a month comes to, out of the one before it.
After(year, paid, before, m) ==
  LET entries == Register(year)
  IN  MonthAfter(before, m, Amounts({e \in entries : MonthOf(e.on) = m}),
                 AvailableIn({p \in paid : YearOf(MonthOf(p.on)) = year}, FirstMonth(year), m),
                 {e.rate : e \in entries})

\* The lists of months up to each, from a year's first to the last asked for.
Grows(f, year, paid, last) ==
  f = [m \in FirstMonth(year) .. last |->
         IF m = FirstMonth(year) THEN <<After(year, paid, Opening, m)>>
         ELSE LET done == f[m - 1] IN Append(done, After(year, paid, Last(done), m))]

\* The months are listed one by one from the first, each after the last.
LEMMA GrowsExists ==
  ASSUME NEW year \in Nat, FirstMonth(year) \in Nat, NEW paid, NEW last \in Nat, FirstMonth(year) <= last
  PROVE  \E f : Grows(f, year, paid, last)
  <1> DEFINE first == FirstMonth(year)
             none == {n \in Nat : first <= n /\ ~\E f : Grows(f, year, paid, n)}
  <1> HIDE DEF first
  <1>1. first \in Nat
    BY DEF first
  <1>2. none = {}
    <2>1. SUFFICES ASSUME none # {} PROVE FALSE
      OBVIOUS
    <2>2. PICK n \in none : \A y \in none : n <= y
      BY <2>1, LeastNatural
    <2>3. n \in Nat /\ first <= n /\ ~\E f : Grows(f, year, paid, n)
      BY <2>2
    <2>4. CASE n = first
      <3> DEFINE g == [m \in first .. n |-> <<After(year, paid, Opening, m)>>]
      <3>1. \A m \in first .. n : m = first
        BY <1>1, <2>4
      <3>2. Grows(g, year, paid, n)
        BY <3>1 DEF Grows, first
      <3>3. QED
        BY <2>3, <3>2
    <2>5. CASE n # first
      <3>1. n - 1 \in Nat /\ first <= n - 1 /\ ~(n <= n - 1)
        BY <1>1, <2>3, <2>5
      <3>2. n - 1 \notin none
        BY <2>2, <3>1
      <3>3. PICK f : Grows(f, year, paid, n - 1)
        BY <3>1, <3>2
      <3> DEFINE one(m, done) == IF m = first THEN <<After(year, paid, Opening, m)>>
                                 ELSE Append(done, After(year, paid, Last(done), m))
                 g == [m \in first .. n |-> IF m = n THEN one(n, f[n - 1]) ELSE f[m]]
      <3>4. f = [m \in first .. n - 1 |-> one(m, f[m - 1])]
        BY <3>3 DEF Grows, first
      <3>5. \A m \in first .. n : m \in Int /\ (m # n => m \in first .. n - 1)
        BY <1>1, <2>3
      <3>6. \A m \in first .. n : m # first => m - 1 \in first .. n /\ m - 1 # n
        BY <1>1, <2>3
      <3>7. \A m \in first .. n : m # first => g[m - 1] = f[m - 1]
        BY <3>6
      <3>8. n \in first .. n /\ n # first
        BY <1>1, <2>3, <2>5
      <3>9. ASSUME NEW m \in first .. n PROVE g[m] = one(m, g[m - 1])
        <4>1. CASE m = n
          <5>1. g[m] = one(n, f[n - 1])
            BY <4>1
          <5>2. g[n - 1] = f[n - 1]
            BY <3>7, <3>8
          <5> HIDE DEF g, one
          <5>3. QED
            BY <4>1, <5>1, <5>2
        <4>2. CASE m # n
          <5>1. g[m] = f[m] /\ m \in first .. n - 1
            BY <3>5, <4>2
          <5>2. f[m] = one(m, f[m - 1])
            <6> HIDE DEF one
            <6>1. QED
              BY <3>4, <5>1
          <5>3. CASE m = first
            BY <5>1, <5>2, <5>3
          <5>4. CASE m # first
            <6>1. g[m - 1] = f[m - 1]
              BY <3>7, <5>4
            <6> HIDE DEF g, one
            <6>2. QED
              BY <5>1, <5>2, <6>1
          <5>5. QED
            BY <5>3, <5>4
        <4>3. QED
          BY <4>1, <4>2
      <3>10. g = [m \in first .. n |-> g[m]]
        OBVIOUS
      <3>11. g = [m \in first .. n |-> one(m, g[m - 1])]
        <4> HIDE DEF g, one
        <4>1. [m \in first .. n |-> g[m]] = [m \in first .. n |-> one(m, g[m - 1])]
          BY <3>9
        <4>2. QED
          BY <3>10, <4>1
      <3> HIDE DEF g
      <3>12. Grows(g, year, paid, n)
        BY <3>11 DEF Grows, first
      <3>13. QED
        BY <2>3, <3>12
    <2>6. QED
      BY <2>4, <2>5
  <1>3. QED
    BY <1>2 DEF first

\* A year's months up to one of them: as many as have been, the first from
\* nothing and each of the others from the one before it.
LEMMA MonthsOneByOne ==
  ASSUME NEW year \in Nat, FirstMonth(year) \in Nat, NEW paid, NEW last \in MonthsOf(year),
         FirstMonth(year) <= last
  PROVE  LET months == MonthsUntil(last, paid)
             first == FirstMonth(year)
             n == last - first + 1
         IN  /\ n \in Nat /\ n > 0 /\ IsList(months, n) /\ Len(months) = n
             /\ months[1] = After(year, paid, Opening, first)
             /\ \A k \in 1 .. n - 1 : months[k + 1] = After(year, paid, months[k], first + k)
  <1> DEFINE first == FirstMonth(year)
             months == MonthsUntil(last, paid)
             until == CHOOSE f : Grows(f, year, paid, last)
             Good(m) == /\ IsList(until[m], m - first + 1)
                        /\ until[m][1] = After(year, paid, Opening, first)
                        /\ \A k \in 1 .. m - first : until[m][k + 1] = After(year, paid, until[m][k], first + k)
             bad == {m \in first .. last : ~Good(m)}
  <1>1. last \in Nat /\ YearOf(last) = year
    BY MonthOfItsYear
  <1>2. Grows(until, year, paid, last)
    BY <1>1, GrowsExists
  <1>3. first # None /\ ~(last < first) /\ first \in Nat
    BY <1>1, NothingIsNoDate
  <1>4. months = until[last]
    BY <1>1, <1>3 DEF MonthsUntil, Grows, After, Opening
  <1> HIDE DEF first, until, months
  <1>5. \A m \in first .. last :
          until[m] = IF m = first THEN <<After(year, paid, Opening, m)>>
                     ELSE Append(until[m - 1], After(year, paid, Last(until[m - 1]), m))
    BY <1>2 DEF Grows, first
  <1>6. bad = {}
    <2>1. SUFFICES ASSUME bad # {} PROVE FALSE
      OBVIOUS
    <2>2. bad \in SUBSET Nat
      BY <1>1, <1>3
    <2>3. PICK m \in bad : \A y \in bad : m <= y
      BY <2>1, <2>2, LeastNatural
    <2>4. m \in Nat /\ m \in first .. last /\ first <= m /\ ~Good(m)
      BY <2>2, <2>3
    <2>5. CASE m = first
      <3>1. until[m] = <<After(year, paid, Opening, first)>>
        BY <1>5, <2>4, <2>5
      <3>2. m - first + 1 = 1 /\ 1 .. m - first = {}
        BY <1>3, <2>5
      <3> DEFINE it == After(year, paid, Opening, first)
      <3> HIDE DEF it
      <3>3. IsList(<<it>>, 1) /\ <<it>>[1] = it
        BY DEF IsList
      <3>4. Good(m)
        BY <3>1, <3>2, <3>3 DEF it
      <3>5. QED
        BY <2>4, <3>4
    <2>6. CASE m # first
      <3> DEFINE l == m - 1
                 n == m - first
                 e == After(year, paid, Last(until[l]), m)
      <3>1. l \in first .. last /\ l \in Nat /\ ~(m <= l) /\ l - first + 1 = n /\ n \in Nat /\ n > 0
        BY <1>1, <1>3, <2>4, <2>6
      <3>2. Good(l)
        BY <2>3, <3>1
      <3>3. IsList(until[l], n) /\ until[m] = Append(until[l], e)
        <4>1. until[m] = Append(until[l], e)
          BY <1>5, <2>4, <2>6
        <4>2. IsList(until[l], l - first + 1)
          BY <3>2
        <4> HIDE DEF e, l, n
        <4>3. QED
          BY <3>1, <4>1, <4>2
      <3>4. e = After(year, paid, until[l][n], first + n)
        <4>1. Len(until[l]) = n
          BY <3>1, <3>3, ListGrows
        <4>2. first + n = m
          BY <1>3, <2>4
        <4> HIDE DEF l, n
        <4>3. QED
          BY <4>1, <4>2 DEF Last
      <3> HIDE DEF e
      <3>5. /\ IsList(until[m], n + 1)
            /\ \A k \in 1 .. n : until[m][k] = until[l][k]
            /\ until[m][n + 1] = e
        <4>1. ASSUME NEW s, IsList(s, n) PROVE /\ IsList(Append(s, e), n + 1)
                                               /\ \A k \in 1 .. n : Append(s, e)[k] = s[k]
                                               /\ Append(s, e)[n + 1] = e
          BY <3>1, <4>1, ListGrows
        <4> HIDE DEF n, l
        <4>2. QED
          BY <3>3, <4>1
      <3>6. \A k \in 1 .. l - first : until[l][k + 1] = After(year, paid, until[l][k], first + k)
        BY <3>2
      <3>7. until[l][1] = After(year, paid, Opening, first)
        BY <3>2
      <3>8. n = l - first + 1 /\ l - first \in Nat /\ first \in Nat
        BY <1>3, <3>1
      <3> HIDE DEF l, n
      <3>9. ASSUME NEW k \in 1 .. n PROVE until[m][k + 1] = After(year, paid, until[m][k], first + k)
        <4>1. until[m][k] = until[l][k]
          BY <3>5
        <4>2. CASE k = n
          BY <3>4, <3>5, <4>1, <4>2
        <4>3. CASE k # n
          <5>1. k \in 1 .. l - first /\ k + 1 \in 1 .. n
            BY <3>8, <4>3
          <5>2. QED
            BY <3>5, <3>6, <4>1, <5>1
        <4>4. QED
          BY <4>2, <4>3
      <3>10. until[m][1] = After(year, paid, Opening, first)
        <4>1. 1 \in 1 .. n
          BY <3>1
        <4>2. QED
          BY <3>5, <3>7, <4>1
      <3>11. Good(m)
        BY <3>5, <3>9, <3>10 DEF n
      <3>12. QED
        BY <2>4, <3>11
    <2>7. QED
      BY <2>5, <2>6
  <1>7. last \in first .. last /\ Good(last)
    BY <1>1, <1>3, <1>6 DEF first
  <1> DEFINE n == last - first + 1
  <1>8. n \in Nat /\ n > 0 /\ n - 1 = last - first
    BY <1>1, <1>3
  <1>9. IsList(months, n)
    BY <1>4, <1>7
  <1>10. Len(months) = n
    <2> HIDE DEF n
    <2>1. QED
      BY <1>8, <1>9, ListGrows
  <1>11. /\ months[1] = After(year, paid, Opening, first)
         /\ \A k \in 1 .. n - 1 : months[k + 1] = After(year, paid, months[k], first + k)
    BY <1>4, <1>7, <1>8
  <1>12. QED
    BY <1>8, <1>9, <1>10, <1>11 DEF months, first

\* What a month says of itself and of its band.
LEMMA MonthIs ==
  ASSUME NEW year, NEW paid, NEW before, NEW m
  PROVE  LET it == After(year, paid, before, m)
         IN  /\ it.month = m
             /\ it.band = Band(YearOf(m), it.cumulative, before.band)
             /\ it.social = Social(seller, m, wages[YearOf(m)], granted)
  BY DEF After, MonthAfter

\* A year's months, all of them: which they are, and what each is charged.
LEMMA MonthsOfAYear ==
  ASSUME NEW year \in Nat, FirstMonth(year) \in Nat, NEW paid, NEW last \in MonthsOf(year),
         FirstMonth(year) <= last
  PROVE  LET months == MonthsUntil(last, paid)
             first == FirstMonth(year)
         IN  /\ Len(months) \in Nat /\ Len(months) = last - first + 1 /\ Len(months) > 0
             /\ IsList(months, Len(months))
             /\ \A k \in 1 .. Len(months) :
                  /\ months[k].month = first + k - 1
                  /\ months[k].month \in MonthsOf(year)
                  /\ months[k].social = Social(seller, months[k].month, wages[year], granted)
             /\ months[1].band = Band(year, months[1].cumulative, 1)
             /\ \A k \in 1 .. Len(months) - 1 :
                  months[k + 1].band = Band(year, months[k + 1].cumulative, months[k].band)
  <1> DEFINE first == FirstMonth(year)
             months == MonthsUntil(last, paid)
             n == last - first + 1
  <1>1. /\ n \in Nat /\ n > 0 /\ IsList(months, n) /\ Len(months) = n
        /\ months[1] = After(year, paid, Opening, first)
        /\ \A k \in 1 .. n - 1 : months[k + 1] = After(year, paid, months[k], first + k)
    BY MonthsOneByOne
  <1>2. last \in Nat /\ last <= 12 * year + 11
    BY MonthOfItsYear
  <1>3. 12 * year <= first /\ first \in Nat
    BY NothingIsNoDate DEF FirstMonth, MaxOf
  <1> HIDE DEF first, months, n
  <1>4. \A m \in first .. last : m \in MonthsOf(year)
    BY <1>2, <1>3 DEF MonthsOf
  <1>5. \A k \in 1 .. n : first + k - 1 \in first .. last /\ first + k - 1 \in MonthsOf(year)
    BY <1>1, <1>2, <1>3, <1>4 DEF n
  <1>6. YearOf(first) = year /\ \A k \in 1 .. n - 1 : YearOf(first + k) = year
    <2>1. \A m \in MonthsOf(year) : YearOf(m) = year
      BY MonthOfItsYear
    <2>2. first \in MonthsOf(year)
      BY <1>1, <1>2, <1>3, <1>4 DEF n
    <2>3. \A k \in 1 .. n - 1 : k + 1 \in 1 .. n /\ first + (k + 1) - 1 = first + k
      BY <1>1, <1>3
    <2>4. \A k \in 1 .. n - 1 : first + k \in MonthsOf(year)
      BY <1>5, <2>3
    <2>5. QED
      BY <2>1, <2>2, <2>4
  <1>7. /\ months[1].month = first
        /\ months[1].band = Band(year, months[1].cumulative, 1)
        /\ months[1].social = Social(seller, first, wages[year], granted)
    <2>1. Opening.band = 1
      BY DEF Opening
    <2>2. QED
      BY <1>1, <1>6, <2>1, MonthIs
  <1>8. \A k \in 1 .. n - 1 :
          /\ months[k + 1].month = first + k
          /\ months[k + 1].band = Band(year, months[k + 1].cumulative, months[k].band)
          /\ months[k + 1].social = Social(seller, first + k, wages[year], granted)
    BY <1>1, <1>6, MonthIs
  <1>9. ASSUME NEW k \in 1 .. n
        PROVE  /\ months[k].month = first + k - 1
               /\ months[k].social = Social(seller, months[k].month, wages[year], granted)
    <2>1. CASE k = 1
      <3>1. first + k - 1 = first
        BY <1>3, <2>1
      <3>2. QED
        BY <1>7, <2>1, <3>1
    <2>2. CASE k # 1
      <3>1. k - 1 \in 1 .. n - 1 /\ (k - 1) + 1 = k /\ first + (k - 1) = first + k - 1
        BY <1>1, <1>3, <2>2
      <3>2. QED
        BY <1>8, <3>1
    <2>3. QED
      BY <2>1, <2>2
  <1>10. \A k \in 1 .. n : months[k].month \in MonthsOf(year)
    BY <1>5, <1>9
  <1>11. QED
    BY <1>1, <1>7, <1>8, <1>9, <1>10 DEF n, first, months

-----------------------------------------------------------------------------
(* The health bands.                                                       *)

\* What every band is charged, and that none is charged less than a lower one.
LEMMA HealthRises ==
  ASSUME CurrentInv, NEW year \in Years, bases[year] # None
  PROVE  /\ \A b \in 1 .. 3 : Health(year, b) \in Nat
         /\ \A a, b \in 1 .. 3 : a <= b => Health(year, a) <= Health(year, b)
  <1>1. PICK wage \in HealthWages : bases[year] = BasesOf(wage)
    BY DEF CurrentInv
  <1>2. wage \in Nat
    BY WagesAssumption
  <1> DEFINE share(b) == RoundHalfUp(wage * BaseShares[b], 100)
  <1>3. bases[year][1] = share(1) /\ bases[year][2] = share(2) /\ bases[year][3] = share(3)
    BY <1>1 DEF BasesOf
  <1>4. /\ wage * 60 \in Nat /\ wage * 100 \in Nat /\ wage * 180 \in Nat
        /\ wage * 60 <= wage * 100 /\ wage * 100 <= wage * 180
    BY <1>2
  <1>5. /\ \A a \in Nat : RoundHalfUp(a, 100) \in Nat
        /\ \A a, b \in Nat : a <= b => RoundHalfUp(a, 100) <= RoundHalfUp(b, 100)
    BY DEF RoundHalfUp
  <1>6. share(1) = RoundHalfUp(wage * 60, 100) /\ share(2) = RoundHalfUp(wage * 100, 100)
        /\ share(3) = RoundHalfUp(wage * 180, 100)
    BY DEF BaseShares
  <1> HIDE DEF share
  <1>7. /\ share(1) \in Nat /\ share(2) \in Nat /\ share(3) \in Nat
        /\ share(1) <= share(2) /\ share(2) <= share(3)
    BY <1>4, <1>5, <1>6
  <1> DEFINE base(b) == bases[year][b]
  <1>8. /\ base(1) \in Nat /\ base(2) \in Nat /\ base(3) \in Nat
        /\ base(1) <= base(2) /\ base(2) <= base(3)
    BY <1>3, <1>7
  <1>9. \A b : Health(year, b) = RoundHalfUp(base(b) * 9, 100)
    BY DEF Health
  <1> HIDE DEF base
  <1>10. /\ base(1) * 9 \in Nat /\ base(2) * 9 \in Nat /\ base(3) * 9 \in Nat
         /\ base(1) * 9 <= base(2) * 9 /\ base(2) * 9 <= base(3) * 9
    BY <1>8
  <1>11. /\ Health(year, 1) \in Nat /\ Health(year, 2) \in Nat /\ Health(year, 3) \in Nat
         /\ Health(year, 1) <= Health(year, 2) /\ Health(year, 2) <= Health(year, 3)
    BY <1>5, <1>9, <1>10
  <1>12. \A b \in 1 .. 3 : b = 1 \/ b = 2 \/ b = 3
    OBVIOUS
  <1>13. QED
    BY <1>11, <1>12

\* A sum over a list that never passes a bound comes to that many times it.
LEMMA SumOfAList ==
  ASSUME NEW n \in Nat, NEW v, \A i \in 1 .. n : v[i] \in Nat, NEW top \in Nat,
         \A i \in 1 .. n : v[i] <= top
  PROVE  LET sum == CHOOSE f : f = [i \in 0 .. n |-> IF i = 0 THEN 0 ELSE f[i - 1] + v[i]]
         IN  sum[n] \in Nat /\ sum[n] <= top * n
  <1> DEFINE Adds(f) == f = [i \in 0 .. n |-> IF i = 0 THEN 0 ELSE f[i - 1] + v[i]]
             sum == CHOOSE f : Adds(f)
             g == [i \in 0 .. n |-> TotalOver(v, 1 .. i)]
  <1>1. IsValued(1 .. n, v)
    BY FS_Interval DEF IsValued
  <1>2. ASSUME NEW i \in 0 .. n, i # 0 PROVE TotalOver(v, 1 .. i) = TotalOver(v, 1 .. i - 1) + v[i]
    <2> DEFINE upto == 1 .. i
               below == 1 .. i - 1
    <2>1. upto \in SUBSET (1 .. n) /\ i \in upto /\ upto \ {i} = below /\ below \in SUBSET (1 .. n)
      BY <1>2
    <2>2. v[i] \in Int
      BY <2>1
    <2>3. \A T \in SUBSET (1 .. n) : /\ TotalOver(v, T) \in Int
                                     /\ \A x \in T : TotalOver(v, T) = v[x] + TotalOver(v, T \ {x})
      <3> DEFINE D == 1 .. n
      <3>1. IsValued(D, v)
        BY <1>1
      <3> HIDE DEF D
      <3>2. \A T \in SUBSET D : /\ TotalOver(v, T) \in Int
                               /\ \A x \in T : TotalOver(v, T) = v[x] + TotalOver(v, T \ {x})
        BY <3>1, TotalAddsUp
      <3>3. QED
        BY <3>2 DEF D
    <2> HIDE DEF upto, below
    <2>6. TotalOver(v, upto) = v[i] + TotalOver(v, upto \ {i})
      BY <2>1, <2>3
    <2>7. TotalOver(v, upto) = v[i] + TotalOver(v, below)
      BY <2>1, <2>6, Zenon
    <2>8. TotalOver(v, below) \in Int
      BY <2>1, <2>3
    <2>4. TotalOver(v, upto) = TotalOver(v, below) + v[i]
      BY <2>2, <2>7, <2>8
    <2>5. QED
      BY <2>4 DEF upto, below
  <1>3. TotalOver(v, 1 .. 0) = 0
    <2>1. 1 .. 0 = {}
      OBVIOUS
    <2>2. TotalOver(v, {}) = 0
      BY <1>1, TotalAddsUp
    <2>3. QED
      BY <2>1, <2>2
  <1>4. Adds(g)
    <2>1. \A i \in 0 .. n : i # 0 => i - 1 \in 0 .. n
      OBVIOUS
    <2>2. \A i \in 0 .. n : TotalOver(v, 1 .. i) = IF i = 0 THEN 0 ELSE g[i - 1] + v[i]
      BY <1>2, <1>3, <2>1
    <2>3. QED
      BY <2>2
  <1>5. Adds(sum)
    BY <1>4
  <1> HIDE DEF sum, g
  <1>6. sum[0] = 0 /\ \A i \in 1 .. n : sum[i] = sum[i - 1] + v[i]
    BY <1>5
  <1> DEFINE Good(i) == sum[i] \in Nat /\ sum[i] <= top * i
             bad == {i \in 0 .. n : ~Good(i)}
  <1>7. bad = {}
    <2>1. SUFFICES ASSUME bad # {} PROVE FALSE
      OBVIOUS
    <2>2. PICK i \in bad : \A j \in bad : i <= j
      <3>1. bad \in SUBSET Nat
        OBVIOUS
      <3>2. QED
        BY <2>1, <3>1, LeastNatural
    <2>3. i \in 0 .. n /\ ~Good(i)
      BY <2>2
    <2>4. i # 0
      BY <1>6, <2>3
    <2>5. i \in 1 .. n /\ i - 1 \in 0 .. n /\ ~(i <= i - 1)
      BY <2>3, <2>4
    <2>6. Good(i - 1)
      BY <2>2, <2>5
    <2>7. top * i = top * (i - 1) + top
      BY <2>5
    <2>8. sum[i] = sum[i - 1] + v[i] /\ v[i] \in Nat /\ v[i] <= top
      BY <1>6, <2>5
    <2>9. top * (i - 1) \in Nat /\ sum[i - 1] \in Nat /\ sum[i - 1] <= top * (i - 1)
      BY <2>5, <2>6
    <2> DEFINE p == top * (i - 1)
               q == top * i
    <2>10. q = p + top /\ p \in Nat /\ sum[i - 1] <= p
      BY <2>7, <2>9
    <2> HIDE DEF p, q
    <2>11. sum[i] \in Nat /\ sum[i] <= q
      BY <2>8, <2>9, <2>10
    <2>12. QED
      BY <2>3, <2>11 DEF q
  <1>8. Good(n)
    BY <1>7
  <1>9. QED
    BY <1>8 DEF sum

\* A year's bands are bands, and none is below the one before or below what
\* its revenue reaches.
LEMMA BandsOfAYear ==
  ASSUME NEW year \in Nat, FirstMonth(year) \in Nat, NEW paid, NEW last \in MonthsOf(year),
         FirstMonth(year) <= last, bases[year] # None
  PROVE  LET months == MonthsUntil(last, paid)
         IN  \A k \in 1 .. Len(months) :
               LET reached == {BandAt(months[i].cumulative) : i \in 1 .. k}
               IN  /\ months[k].band \in reached /\ reached \subseteq 1 .. 3
                   /\ \A b \in reached : b <= months[k].band
                   /\ \A i \in 1 .. k : months[i].band <= months[k].band
  <1> DEFINE months == MonthsUntil(last, paid)
             n == Len(months)
             at(i) == BandAt(months[i].cumulative)
             reached(k) == {at(i) : i \in 1 .. k}
             Good(k) == /\ months[k].band \in reached(k) /\ reached(k) \subseteq 1 .. 3
                        /\ \A b \in reached(k) : b <= months[k].band
                        /\ \A i \in 1 .. k : months[i].band <= months[k].band
             bad == {k \in 1 .. n : ~Good(k)}
  <1>1. /\ n \in Nat /\ n > 0
        /\ months[1].band = MaxOf(at(1), 1)
        /\ \A k \in 1 .. n - 1 : months[k + 1].band = MaxOf(at(k + 1), months[k].band)
    BY MonthsOfAYear DEF Band
  <1>2. \A i : at(i) \in 1 .. 3
    BY DEF BandAt
  <1> HIDE DEF months, at, n
  <1>3. \A k : reached(k) \subseteq 1 .. 3
    BY <1>2
  <1>4. bad = {}
    <2>1. SUFFICES ASSUME bad # {} PROVE FALSE
      OBVIOUS
    <2>2. PICK k \in bad : \A j \in bad : k <= j
      <3>1. bad \in SUBSET Nat
        OBVIOUS
      <3>2. QED
        BY <2>1, <3>1, LeastNatural
    <2>3. k \in 1 .. n /\ ~Good(k)
      BY <2>2
    <2>4. CASE k = 1
      <3>1. reached(k) = {at(1)} /\ 1 .. k = {1}
        BY <2>4
      <3>2. months[1].band = at(1)
        BY <1>1, <1>2 DEF MaxOf
      <3>3. QED
        BY <1>2, <1>3, <2>3, <2>4, <3>1, <3>2
    <2>5. CASE k # 1
      <3> DEFINE l == k - 1
      <3>1. l \in 1 .. n - 1 /\ l \in 1 .. n /\ l + 1 = k /\ ~(k <= l)
        BY <1>1, <2>3, <2>5
      <3>2. Good(l)
        BY <2>2, <3>1
      <3>3. 1 .. k = (1 .. l) \cup {k}
        BY <3>1
      <3>4. reached(k) = reached(l) \cup {at(k)}
        BY <3>3
      <3>5. months[k].band = MaxOf(at(k), months[l].band)
        BY <1>1, <3>1
      <3>6. months[l].band \in 1 .. 3 /\ at(k) \in 1 .. 3
        BY <1>2, <3>2
      <3>7. /\ months[k].band \in {at(k), months[l].band}
            /\ at(k) <= months[k].band /\ months[l].band <= months[k].band /\ months[k].band \in 1 .. 3
        BY <3>5, <3>6 DEF MaxOf
      <3>8. months[k].band \in reached(k)
        BY <3>2, <3>4, <3>7
      <3>9. \A b \in reached(k) : b <= months[k].band
        <4> SUFFICES ASSUME NEW b \in reached(k) PROVE b <= months[k].band
          OBVIOUS
        <4>1. b \in 1 .. 3 /\ (b = at(k) \/ b <= months[l].band)
          BY <1>3, <3>2, <3>4
        <4> HIDE DEF reached, l
        <4>2. QED
          BY <3>6, <3>7, <4>1
      <3>10. \A i \in 1 .. k : months[i].band <= months[k].band
        <4> SUFFICES ASSUME NEW i \in 1 .. k PROVE months[i].band <= months[k].band
          OBVIOUS
        <4>1. CASE i = k
          BY <3>7, <4>1
        <4>2. CASE i # k
          <5>1. i \in 1 .. l /\ i \in 1 .. n - 1 /\ i \in 1 .. n /\ ~(k <= i)
            <6>1. k \in Nat /\ k <= n /\ i \in Nat /\ 1 <= i /\ i < k
              BY <1>1, <2>3, <4>2
            <6>2. QED
              BY <1>1, <6>1
          <5>2. Good(i)
            BY <2>2, <5>1
          <5>3. months[i].band \in 1 .. 3
            BY <5>2
          <5>4. months[i].band <= months[l].band
            BY <3>2, <5>1
          <5> HIDE DEF l
          <5>5. QED
            BY <3>6, <3>7, <5>3, <5>4
        <4>3. QED
          BY <4>1, <4>2
      <3>11. QED
        BY <1>3, <2>3, <3>8, <3>9, <3>10
    <2>6. QED
      BY <2>4, <2>5
  <1>5. \A k \in 1 .. n : Good(k)
    BY <1>4
  <1>6. QED
    BY <1>5 DEF months, n, at

\* What the year is settled at is never below what its months came to.
LEMMA ProvisionIsOwed ==
  ASSUME CurrentInv, NEW year \in Years, FirstMonth(year) # None, bases[year] # None
  PROVE  HealthProvision(Months(year)) \in Nat /\ HealthProvision(Months(year)) >= 0
  <1> DEFINE last == 12 * year + 11
             months == Months(year)
             n == Len(months)
             v == [i \in 1 .. n |-> HealthOf(months[i])]
             top == HealthOf(Last(months))
  <1>1. year \in Nat /\ last \in MonthsOf(year) /\ FirstMonth(year) \in Nat /\ FirstMonth(year) <= last
    <2>1. year \in Nat
      BY NothingIsNoDate
    <2>2. FirstMonth(year) \in Nat /\ FirstMonth(year) < 12 * year + 12
      BY <2>1, FirstMonthType
    <2>3. QED
      BY <2>1, <2>2 DEF MonthsOf
  <1>2. /\ n \in Nat /\ n > 0
        /\ \A k \in 1 .. n : months[k].month \in MonthsOf(year)
    BY <1>1, MonthsOfAYear DEF Months
  <1>3. \A k \in 1 .. n : /\ months[k].band \in 1 .. 3
                          /\ \A i \in 1 .. k : months[i].band <= months[k].band
    BY <1>1, BandsOfAYear DEF Months
  <1> HIDE DEF months, n
  <1>4. \A k \in 1 .. n : HealthOf(months[k]) = Health(year, months[k].band)
    <2>1. \A m \in MonthsOf(year) : YearOf(m) = year
      BY <1>1, MonthOfItsYear
    <2>2. \A b \in 1 .. 3 : b # 0
      OBVIOUS
    <2>3. QED
      BY <1>2, <1>3, <2>1, <2>2 DEF HealthOf
  <1>5. top = HealthOf(months[n]) /\ n \in 1 .. n
    BY <1>2 DEF Last, n
  <1>6. top \in Nat
    BY <1>3, <1>4, <1>5, HealthRises
  <1>7. \A i \in 1 .. n : v[i] \in Nat /\ v[i] <= top
    <2> SUFFICES ASSUME NEW i \in 1 .. n PROVE v[i] \in Nat /\ v[i] <= top
      OBVIOUS
    <2>1. v[i] = Health(year, months[i].band) /\ top = Health(year, months[n].band)
      BY <1>4, <1>5
    <2>2. months[i].band \in 1 .. 3 /\ months[n].band \in 1 .. 3 /\ months[i].band <= months[n].band
      BY <1>3, <1>5
    <2> HIDE DEF v, top
    <2>3. QED
      BY <2>1, <2>2, HealthRises
  <1> DEFINE sum == CHOOSE f : f = [i \in 0 .. n |-> IF i = 0 THEN 0 ELSE f[i - 1] + v[i]]
             health == CHOOSE f : f = [i \in 0 .. n |-> IF i = 0 THEN 0 ELSE f[i - 1] + HealthOf(months[i])]
  <1>8. health = sum
    <2>1. \A f : [i \in 0 .. n |-> IF i = 0 THEN 0 ELSE f[i - 1] + v[i]]
                   = [i \in 0 .. n |-> IF i = 0 THEN 0 ELSE f[i - 1] + HealthOf(months[i])]
      <3>1. \A i \in 0 .. n : i # 0 => v[i] = HealthOf(months[i])
        BY <1>2
      <3> HIDE DEF v
      <3>2. QED
        BY <3>1
    <2> HIDE DEF v
    <2>2. QED
      BY <2>1
  <1>9. HealthMonthly(months) = health[n]
    BY DEF HealthMonthly, n
  <1>10. sum[n] \in Nat /\ sum[n] <= top * n
    <2> HIDE DEF v, top
    <2>1. QED
      BY <1>2, <1>6, <1>7, SumOfAList
  <1>11. HealthProvision(months) = top * n - sum[n]
    <2> HIDE DEF sum, health, v
    <2>1. QED
      BY <1>8, <1>9 DEF HealthProvision, n
  <1>12. top * n \in Nat
    BY <1>2, <1>6
  <1> DEFINE whole == top * n
             part == sum[n]
  <1>13. HealthProvision(months) = whole - part /\ whole \in Nat /\ part \in Nat /\ part <= whole
    BY <1>10, <1>11, <1>12
  <1> HIDE DEF whole, part
  <1>14. QED
    BY <1>13 DEF months

\* In every state: a month is charged in the highest band that revenue reached
\* by then, and the settlement of the year takes nothing back.
THEOREM HighestBandReached == Spec => []BandIsTheHighestReached
  <1>1. ASSUME CurrentInv, NEW year \in Insured, bases[year] # None
        PROVE  LET months == Months(year)
               IN  /\ \A k \in 1 .. Len(months) :
                        months[k].band = Max({BandAt(months[i].cumulative) : i \in 1 .. k})
                   /\ HealthProvision(months) >= 0
    <2> DEFINE last == 12 * year + 11
               months == Months(year)
    <2>1. year \in Years /\ year \in Nat /\ FirstMonth(year) # None
      BY DatesAssumption DEF Insured
    <2>2. FirstMonth(year) \in Nat /\ FirstMonth(year) <= last /\ last \in MonthsOf(year)
      <3>1. FirstMonth(year) \in Nat /\ FirstMonth(year) < 12 * year + 12
        BY <1>1, <2>1, FirstMonthType
      <3>2. QED
        BY <2>1, <3>1 DEF MonthsOf
    <2>3. ASSUME NEW k \in 1 .. Len(months)
          PROVE  months[k].band = Max({BandAt(months[i].cumulative) : i \in 1 .. k})
      <3> DEFINE reached == {BandAt(months[i].cumulative) : i \in 1 .. k}
                 band == months[k].band
      <3>1. band \in reached /\ reached \subseteq 1 .. 3 /\ \A b \in reached : b <= band
        BY <1>1, <2>1, <2>2, BandsOfAYear, ZenonT(60) DEF Months
      <3> HIDE DEF reached, band
      <3>2. reached \in SUBSET (0 .. 3) /\ reached # {}
        BY <3>1
      <3>3. Max(reached) \in reached /\ \A y \in reached : Max(reached) >= y
        BY <3>2, MaxIsGreatest
      <3>4. Max(reached) \in 1 .. 3 /\ band \in 1 .. 3 /\ Max(reached) <= band /\ Max(reached) >= band
        BY <3>1, <3>3
      <3> DEFINE most == Max(reached)
      <3>5. most \in 1 .. 3 /\ most <= band /\ most >= band
        BY <3>4
      <3> HIDE DEF most
      <3>6. band = most
        BY <3>4, <3>5
      <3>7. QED
        BY <3>6 DEF most, band, reached
    <2>4. HealthProvision(months) >= 0
      BY <1>1, <2>1, ProvisionIsOwed
    <2>5. QED
      BY <2>3, <2>4
  <1>2. CurrentInv => BandIsTheHighestReached
    BY <1>1 DEF BandIsTheHighestReached
  <1>3. QED
    BY <1>2, PeriodHolds, PTL

-----------------------------------------------------------------------------
(* What is offered.                                                        *)

\* What a base charges is amounts.
LEMMA ChargedType ==
  ASSUME NEW base \in Nat, NEW accident \in Nat, NEW insured \in BOOLEAN, NEW minimum
  PROVE  LET charged == Charged(base, accident, insured, minimum)
         IN  /\ charged.pension \in Nat /\ charged.disability \in Nat /\ charged.accident \in Nat
             /\ charged.sickness \in Nat /\ charged.funds \in Nat
  <1> DEFINE charged == Charged(base, accident, insured, minimum)
  <1>1. \A n \in Nat : (n + 10000 \div 2) \div 10000 \in Nat
    OBVIOUS
  <1>2. base * 1952 \in Nat /\ base * 800 \in Nat /\ base * 245 \in Nat /\ base * accident \in Nat
    OBVIOUS
  <1>3. /\ Contribution(base, PensionRate) \in Nat /\ Contribution(base, DisabilityRate) \in Nat
        /\ Contribution(base, SicknessRate) \in Nat /\ Contribution(base, FundsRate) \in Nat
        /\ Contribution(base, accident) \in Nat
    BY <1>1, <1>2 DEF Contribution, RoundHalfUp, PensionRate, DisabilityRate, SicknessRate, FundsRate
  <1>4. /\ charged.pension = Contribution(base, PensionRate)
        /\ charged.disability = Contribution(base, DisabilityRate)
        /\ charged.accident = Contribution(base, accident)
        /\ charged.sickness \in {Contribution(base, SicknessRate), 0}
        /\ charged.funds \in {Contribution(base, FundsRate), 0}
    BY DEF Charged
  <1> HIDE DEF charged
  <1>5. QED
    BY <1>3, <1>4 DEF charged

\* What a month owes, once it can be said, is amounts.
LEMMA SocialType ==
  ASSUME CurrentInv, NEW year \in Years, NEW month,
         Social(seller, month, wages[year], granted) # None
  PROVE  LET charged == Social(seller, month, wages[year], granted).charged
         IN  /\ charged.pension \in Nat /\ charged.disability \in Nat /\ charged.accident \in Nat
             /\ charged.sickness \in Nat /\ charged.funds \in Nat
  <1> DEFINE entered == wages[year]
             regime == Regime(seller, month)
             base == IF regime = "preferential" THEN PreferentialBaseIn(entered, month)
                     ELSE FullBase(entered)
             exempt == month \in granted
             charged == Charged(base, seller.accident, seller.chorobowe, MinimumWageIn(entered, month))
             owed == Social(seller, month, entered, granted)
             AreAmounts(of) == /\ of.pension \in Nat /\ of.disability \in Nat /\ of.accident \in Nat
                               /\ of.sickness \in Nat /\ of.funds \in Nat
  <1>1. owed = IF regime = None THEN None
               ELSE IF regime = "ulga"
                 THEN [regime |-> regime, exempt |-> FALSE, charged |-> NothingCharged(0)]
               ELSE IF entered = None \/ IsPartial(seller, month) THEN None
               ELSE [regime |-> regime, exempt |-> exempt,
                     charged |-> IF exempt THEN NothingCharged(base) ELSE charged]
    BY DEF Social
  <1>2. \A b : AreAmounts(NothingCharged(b))
    BY DEF NothingCharged
  <1>3. entered # None => AreAmounts(charged)
    <2>1. SUFFICES ASSUME entered # None PROVE AreAmounts(charged)
      OBVIOUS
    <2>2. entered \in Wages
      BY <2>1 DEF CurrentInv
    <2>3. seller.accident \in Nat /\ seller.chorobowe \in BOOLEAN
      BY SellersAssumption DEF CurrentInv
    <2>4. base \in Nat
      BY <2>2, BasesType
    <2> DEFINE rate == seller.accident
               insured == seller.chorobowe
               minimum == MinimumWageIn(entered, month)
    <2>5. rate \in Nat /\ insured \in BOOLEAN
      BY <2>3
    <2> HIDE DEF base, rate, insured, minimum
    <2>6. AreAmounts(Charged(base, rate, insured, minimum))
      BY <2>4, <2>5, ChargedType
    <2>7. QED
      BY <2>6 DEF rate, insured, minimum
  <1> DEFINE nothing == NothingCharged(0)
             free == NothingCharged(base)
  <1>4. AreAmounts(nothing) /\ AreAmounts(free)
    BY <1>2
  <1>5. \/ owed = [regime |-> regime, exempt |-> FALSE, charged |-> nothing]
        \/ owed = [regime |-> regime, exempt |-> exempt, charged |-> free]
        \/ entered # None /\ owed = [regime |-> regime, exempt |-> exempt, charged |-> charged]
    BY <1>1
  <1> HIDE DEF owed, nothing, free, charged
  <1>6. owed.charged = nothing \/ owed.charged = free \/ (entered # None /\ owed.charged = charged)
    BY <1>5
  <1> HIDE DEF AreAmounts
  <1>7. AreAmounts(owed.charged)
    BY <1>3, <1>4, <1>6
  <1>8. QED
    BY <1>7 DEF owed, AreAmounts

\* A month charged in a band has bases, and its health is an amount.
LEMMA HealthType ==
  ASSUME CurrentInv, NEW year \in Years, FirstMonth(year) # None, NEW k \in 1 .. Len(Months(year)),
         Months(year)[k].band # 0
  PROVE  bases[year] # None /\ HealthOf(Months(year)[k]) \in Nat
  <1> DEFINE last == 12 * year + 11
             months == Months(year)
  <1>1. year \in Nat /\ last \in MonthsOf(year) /\ FirstMonth(year) \in Nat /\ FirstMonth(year) <= last
    <2>1. year \in Nat
      BY NothingIsNoDate
    <2>2. FirstMonth(year) \in Nat /\ FirstMonth(year) < 12 * year + 12
      BY <2>1, FirstMonthType
    <2>3. QED
      BY <2>1, <2>2 DEF MonthsOf
  <1>2. /\ months[k].month \in MonthsOf(year)
        /\ Len(months) \in Nat
        /\ months[1].band = Band(year, months[1].cumulative, 1)
        /\ \A i \in 1 .. Len(months) - 1 :
             months[i + 1].band = Band(year, months[i + 1].cumulative, months[i].band)
    BY <1>1, MonthsOfAYear DEF Months
  <1> HIDE DEF months
  <1>3. bases[year] # None
    <2>1. SUFFICES ASSUME bases[year] = None PROVE FALSE
      OBVIOUS
    <2>2. CASE k = 1
      BY <1>2, <2>1, <2>2 DEF Band, months
    <2>3. CASE k # 1
      <3>1. k - 1 \in 1 .. Len(months) - 1 /\ (k - 1) + 1 = k
        BY <1>2, <2>3 DEF months
      <3>2. months[k].band = Band(year, months[k].cumulative, months[k - 1].band)
        BY <1>2, <3>1
      <3>3. QED
        BY <2>1, <3>2 DEF Band, months
    <2>4. QED
      BY <2>2, <2>3
  <1>4. months[k].band \in 1 .. 3
    <2>1. \A i \in 1 .. Len(months) : months[i].band \in 1 .. 3
      BY <1>1, <1>3, BandsOfAYear DEF Months, months
    <2>2. QED
      BY <2>1 DEF months
  <1>5. YearOf(months[k].month) = year
    BY <1>1, <1>2, MonthOfItsYear
  <1>6. Health(year, months[k].band) \in Nat
    BY <1>3, <1>4, HealthRises
  <1>7. HealthOf(months[k]) \in Nat
    BY <1>4, <1>5, <1>6 DEF HealthOf
  <1>8. QED
    BY <1>3, <1>7 DEF months

\* The month a year offers next has a transfer or a declaration that can be
\* recorded, once it is over.
LEMMA NextCanBeRecorded ==
  ASSUME CurrentInv, NEW year \in Years, FirstMonth(year) # None,
         NextDue(year) # None, DeclarableFrom(NextDue(year)) <= today
  PROVE  LET due == NextDue(year)
             upTo == SubSeq(Months(year), 1, due - FirstMonth(year) + 1)
         IN  \/ \E kind \in Kinds : MayRecordPayment(upTo, due, kind, today)
             \/ MayRecordDeclaration(due, today) /\ DeclarationsOf(due) = {}
  <1> DEFINE last == 12 * year + 11
             months == Months(year)
             first == FirstMonth(year)
             due == NextDue(year)
             open == {j \in 1 .. Len(months) : IsOpen(months[j])}
             i == Min(open)
             upTo == SubSeq(months, 1, due - first + 1)
  <1>1. /\ year \in Nat /\ today \in Nat
        /\ last \in MonthsOf(year) /\ first \in Nat /\ first <= last
    <2>1. year \in Nat /\ today \in Nat
      BY NothingIsNoDate DEF CurrentInv
    <2>2. FirstMonth(year) \in Nat /\ FirstMonth(year) < 12 * year + 12
      BY <2>1, FirstMonthType
    <2>3. QED
      BY <2>1, <2>2 DEF MonthsOf
  <1>2. /\ Len(months) \in Nat
        /\ \A k \in 1 .. Len(months) : months[k].month = first + k - 1 /\ months[k].month \in MonthsOf(year)
    BY <1>1, MonthsOfAYear DEF Months
  <1>3. open # {} /\ due = months[i].month
    BY DEF NextDue
  <1>4. i \in open
    <2>1. open \in SUBSET Nat
      BY <1>2
    <2> HIDE DEF open
    <2>2. QED
      BY <1>3, <2>1, MinIsLeast
  <1> HIDE DEF i, months, first, due
  <1>5. i \in 1 .. Len(months) /\ IsOpen(months[i]) /\ due = first + i - 1 /\ due \in MonthsOf(year)
    BY <1>2, <1>3, <1>4
  <1>6. due \in Nat /\ YearOf(due) = year /\ first <= due /\ due - first + 1 = i
    BY <1>1, <1>2, <1>5, MonthOfItsYear
  <1>7. upTo # <<>> /\ Last(upTo) = months[i]
    <2> DEFINE S == {months[k] : k \in 1 .. i}
    <2>1. i \in Nat /\ i > 0
      BY <1>2, <1>5
    <2>2. \A k \in 1 .. i : months[k] \in S
      OBVIOUS
    <2> HIDE DEF S
    <2>3. /\ SubSeq(months, 1, i) \in Seq(S)
          /\ Len(SubSeq(months, 1, i)) = i
          /\ \A k \in 1 .. i : SubSeq(months, 1, i)[k] = months[k]
      <3>1. 1 <= i /\ i - 1 + 1 = i /\ \A k \in 1 .. i : 1 + k - 1 = k
        BY <2>1
      <3>2. /\ SubSeq(months, 1, i) \in Seq(S)
            /\ Len(SubSeq(months, 1, i)) = IF 1 <= i THEN i - 1 + 1 ELSE 0
            /\ \A k \in 1 .. i - 1 + 1 : SubSeq(months, 1, i)[k] = months[1 + k - 1]
        BY <2>1, <2>2, SubSeqProperties
      <3>3. QED
        BY <3>1, <3>2
    <2> DEFINE it == SubSeq(months, 1, i)
    <2>4. upTo = it
      BY <1>6
    <2>5. it \in Seq(S) /\ Len(it) = i /\ \A k \in 1 .. i : it[k] = months[k]
      BY <2>3
    <2> HIDE DEF it, upTo
    <2>6. Last(it) = months[i] /\ it # <<>>
      BY <2>1, <2>5 DEF Last
    <2>7. QED
      BY <2>4, <2>6
  <1>8. FirstOf(due) <= today /\ DeclarableFrom(due) <= today /\ today <= today
    <2>1. DeclarableFrom(due) <= today
      BY DEF due
    <2>2. QED
      BY <1>1, <1>6, <2>1 DEF DeclarableFrom, FirstOf, DaysInMonth
  <1> HIDE DEF upTo
  <1>9. ASSUME NEW kind \in Kinds, IsPayable(months[i], kind)
        PROVE  MayRecordPayment(upTo, due, kind, today)
    BY <1>3, <1>7, <1>8, <1>9 DEF IsPayable, MayRecordPayment
  <1>10. ASSUME OwesDeclaration(months[i].month), DeclarationsOf(months[i].month) = {}
         PROVE  MayRecordDeclaration(due, today) /\ DeclarationsOf(due) = {}
    <2>1. FirstMonth(YearOf(due)) = first /\ first # None /\ due >= first
      BY <1>1, <1>6 DEF first
    <2>2. QED
      BY <1>3, <1>8, <1>10, <2>1 DEF MayRecordDeclaration
  <1>11. QED
    BY <1>5, <1>9, <1>10 DEF IsOpen, upTo, due, first, months

\* A month's declaration, once there is a file of it, states what its transfer
\* is of, and can be recorded; and one walked through field by field has a file.
LEMMA DeclarationIsWhole ==
  ASSUME CurrentInv, NEW year \in Years, FirstMonth(year) # None, NEW k \in 1 .. Len(Months(year))
  PROVE  LET m == Months(year)[k]
             dra == Document(m)
         IN  /\ IsFilable(m) => /\ dra.insurances + dra.funds + dra.health = dra.due
                                /\ MayRecordDeclaration(m.month, today)
             /\ HasGuide(m) /\ DeclarableFrom(m.month) <= today
                  /\ DeclarationsOf(m.month) = {} /\ seller.identified
                  => IsFilable(m)
  <1> DEFINE last == 12 * year + 11
             first == FirstMonth(year)
             months == Months(year)
             m == months[k]
             dra == Document(m)
  <1>1. /\ year \in Nat /\ today \in Nat
        /\ last \in MonthsOf(year) /\ first \in Nat /\ first <= last
    <2>1. year \in Nat /\ today \in Nat
      BY NothingIsNoDate DEF CurrentInv
    <2>2. FirstMonth(year) \in Nat /\ FirstMonth(year) < 12 * year + 12
      BY <2>1, FirstMonthType
    <2>3. QED
      BY <2>1, <2>2 DEF MonthsOf
  <1>2. /\ Len(months) \in Nat
        /\ m.month = first + k - 1 /\ m.month \in MonthsOf(year)
        /\ m.social = Social(seller, m.month, wages[year], granted)
    BY <1>1, MonthsOfAYear DEF Months
  <1>3. m.month \in Nat /\ YearOf(m.month) = year /\ m.month >= first
    BY <1>1, <1>2, MonthOfItsYear
  <1>4. ASSUME m.social # None
        PROVE  LET charged == m.social.charged
               IN  /\ charged.pension \in Nat /\ charged.disability \in Nat /\ charged.accident \in Nat
                   /\ charged.sickness \in Nat /\ charged.funds \in Nat
    <2>1. Social(seller, m.month, wages[year], granted) # None
      BY <1>2, <1>4
    <2> DEFINE month == m.month
    <2>2. m.social = Social(seller, month, wages[year], granted)
      BY <1>2
    <2> HIDE DEF month, m
    <2>3. QED
      BY <2>2, <1>4, SocialType
  <1>5. ASSUME m.band # 0 PROVE HealthOf(m) \in Nat
    BY <1>5, HealthType
  <1> HIDE DEF m, months, first
  <1>6. ASSUME IsFilable(m) PROVE dra.insurances + dra.funds + dra.health = dra.due
    <2> DEFINE charged == m.social.charged
               health == HealthOf(m)
    <2>1. m.social # None /\ m.band # 0
      BY <1>6 DEF IsFilable
    <2>2. /\ charged.pension \in Nat /\ charged.disability \in Nat /\ charged.accident \in Nat
          /\ charged.sickness \in Nat /\ charged.funds \in Nat /\ health \in Nat
      BY <1>4, <1>5, <2>1
    <2>3. DraTotal(m) = Insurances(charged) + charged.funds + health
      BY <2>1 DEF DraTotal, Total
    <2>4. /\ dra.insurances = (charged.pension + charged.disability) + (charged.sickness + charged.accident)
          /\ dra.funds = charged.funds /\ dra.health = health /\ dra.due = DraTotal(m)
      BY DEF Document
    <2> HIDE DEF dra, charged, health
    <2>5. QED
      BY <2>2, <2>3, <2>4 DEF Insurances
  <1>7. ASSUME IsFilable(m) PROVE MayRecordDeclaration(m.month, today)
    <2>1. OwesDeclaration(m.month) /\ today >= DeclarableFrom(m.month)
      BY <1>7 DEF IsFilable
    <2>2. DeclarableFrom(m.month) \in Nat
      BY <1>3 DEF DeclarableFrom, FirstOf, DaysInMonth
    <2>3. DeclarableFrom(m.month) <= today /\ today <= today
      BY <1>1, <2>1, <2>2
    <2>4. FirstMonth(YearOf(m.month)) = first /\ first # None
      BY <1>3 DEF first
    <2>5. QED
      BY <1>3, <2>1, <2>3, <2>4 DEF MayRecordDeclaration
  <1>8. ASSUME HasGuide(m), DeclarableFrom(m.month) <= today, DeclarationsOf(m.month) = {}, seller.identified
        PROVE  IsFilable(m)
    <2>1. DeclarableFrom(m.month) \in Nat
      BY <1>3 DEF DeclarableFrom, FirstOf, DaysInMonth
    <2>2. today >= DeclarableFrom(m.month)
      BY <1>1, <1>8, <2>1
    <2>3. QED
      BY <1>8, <2>2 DEF IsFilable, HasGuide, CarriesSettlement
  <1>9. QED
    BY <1>6, <1>7, <1>8 DEF m, months

\* In every state, what the pages offer is something the requests accept.
THEOREM OffersCanBeDone == Spec => []OfferedCanBeDone
  <1>1. ASSUME CurrentInv, NEW year \in Insured
        PROVE  LET months == Months(year)
                   due == NextDue(year)
                   upTo == SubSeq(months, 1, due - FirstMonth(year) + 1)
               IN  /\ due # None /\ DeclarableFrom(due) <= today
                        => \/ \E kind \in Kinds : MayRecordPayment(upTo, due, kind, today)
                           \/ MayRecordDeclaration(due, today) /\ DeclarationsOf(due) = {}
                   /\ \A k \in 1 .. Len(months) :
                        LET m == months[k]
                            dra == Document(m)
                        IN  /\ IsFilable(m) => /\ dra.insurances + dra.funds + dra.health = dra.due
                                               /\ MayRecordDeclaration(m.month, today)
                            /\ HasGuide(m) /\ DeclarableFrom(m.month) <= today
                                 /\ DeclarationsOf(m.month) = {} /\ seller.identified
                                 => IsFilable(m)
    <2>1. year \in Years /\ FirstMonth(year) # None
      BY DatesAssumption DEF Insured
    <2>2. QED
      BY <1>1, <2>1, NextCanBeRecorded, DeclarationIsWhole
  <1>2. CurrentInv => OfferedCanBeDone
    BY <1>1 DEF OfferedCanBeDone
  <1>3. QED
    BY <1>2, PeriodHolds, PTL

-----------------------------------------------------------------------------
(* What the register's entries, the payments and the months come to.       *)

Socials(T) == MapThenSumSet(LAMBDA p : p.social, T)

Healths(T) == MapThenSumSet(LAMBDA p : p.health, T)

Deductibles(T) == MapThenSumSet(DeductibleOf, T)

Deducted(months, T) == MapThenSumSet(LAMBDA i : months[i].deducted, T)

Taxes(months, T) == MapThenSumSet(LAMBDA i : months[i].tax, T)

\* What the register's amounts come to, as a total over its entries.
LEMMA AmountsAreATotal ==
  ASSUME NEW T, NEW v, IsValued(T, v), \A x \in T : v[x] = x.amount
  PROVE  Amounts(T) = TotalOver(v, T)
  <1> DEFINE Iter(f) == f = [S \in SUBSET T |-> IF S = {} THEN 0
                               ELSE (CHOOSE x \in S : TRUE).amount + f[S \ {CHOOSE x \in S : TRUE}]]
             g == [S \in SUBSET T |-> TotalOver(v, S)]
             it == CHOOSE f : Iter(f)
  <1>1. Iterates(g, T, v)
    BY TotalsIterate
  <1>2. Iter(g)
    <2>1. ASSUME NEW S \in SUBSET T, S # {}
          PROVE  g[S] = PickOf(S).amount + g[S \ {PickOf(S)}]
      <3>1. PickOf(S) \in T
        BY <2>1 DEF PickOf
      <3>2. v[PickOf(S)] = PickOf(S).amount
        BY <3>1
      <3> HIDE DEF g
      <3>3. QED
        BY <1>1, <2>1, <3>2 DEF Iterates
    <2>2. g[{}] = 0
      BY TotalAddsUp
    <2>3. QED
      BY <2>1, <2>2 DEF PickOf
  <1>3. Iter(it)
    BY <1>2
  <1>4. Amounts(T) = it[T]
    BY DEF Amounts, MapThenSumSet, MapThenFoldSet
  <1> HIDE DEF it
  <1>5. Iterates(it, T, v)
    <2>1. ASSUME NEW S \in SUBSET T PROVE it[S] = IF S = {} THEN 0 ELSE v[PickOf(S)] + it[S \ {PickOf(S)}]
      <3>1. it[S] = IF S = {} THEN 0 ELSE PickOf(S).amount + it[S \ {PickOf(S)}]
        BY <1>3 DEF PickOf
      <3>2. S # {} => v[PickOf(S)] = PickOf(S).amount
        <4>1. S # {} => PickOf(S) \in T
          BY DEF PickOf
        <4>2. QED
          BY <4>1
      <3>3. QED
        BY <3>1, <3>2
    <2>2. QED
      BY <2>1 DEF Iterates
  <1>6. QED
    BY <1>4, <1>5, IteratesAgree

\* The social contributions of payments, as a total over them.
LEMMA SocialsAreATotal ==
  ASSUME NEW T, NEW v, IsValued(T, v), \A x \in T : v[x] = x.social
  PROVE  Socials(T) = TotalOver(v, T)
  <1> DEFINE Iter(f) == f = [S \in SUBSET T |-> IF S = {} THEN 0
                               ELSE (CHOOSE x \in S : TRUE).social + f[S \ {CHOOSE x \in S : TRUE}]]
             g == [S \in SUBSET T |-> TotalOver(v, S)]
             it == CHOOSE f : Iter(f)
  <1>1. Iterates(g, T, v)
    BY TotalsIterate
  <1>2. Iter(g)
    <2>1. ASSUME NEW S \in SUBSET T, S # {}
          PROVE  g[S] = PickOf(S).social + g[S \ {PickOf(S)}]
      <3>1. PickOf(S) \in T
        BY <2>1 DEF PickOf
      <3>2. v[PickOf(S)] = PickOf(S).social
        BY <3>1
      <3> HIDE DEF g
      <3>3. QED
        BY <1>1, <2>1, <3>2 DEF Iterates
    <2>2. g[{}] = 0
      BY TotalAddsUp
    <2>3. QED
      BY <2>1, <2>2 DEF PickOf
  <1>3. Iter(it)
    BY <1>2
  <1>4. Socials(T) = it[T]
    BY DEF Socials, MapThenSumSet, MapThenFoldSet
  <1> HIDE DEF it
  <1>5. Iterates(it, T, v)
    <2>1. ASSUME NEW S \in SUBSET T PROVE it[S] = IF S = {} THEN 0 ELSE v[PickOf(S)] + it[S \ {PickOf(S)}]
      <3>1. it[S] = IF S = {} THEN 0 ELSE PickOf(S).social + it[S \ {PickOf(S)}]
        BY <1>3 DEF PickOf
      <3>2. S # {} => v[PickOf(S)] = PickOf(S).social
        <4>1. S # {} => PickOf(S) \in T
          BY DEF PickOf
        <4>2. QED
          BY <4>1
      <3>3. QED
        BY <3>1, <3>2
    <2>2. QED
      BY <2>1 DEF Iterates
  <1>6. QED
    BY <1>4, <1>5, IteratesAgree

\* Their health contributions.
LEMMA HealthsAreATotal ==
  ASSUME NEW T, NEW v, IsValued(T, v), \A x \in T : v[x] = x.health
  PROVE  Healths(T) = TotalOver(v, T)
  <1> DEFINE Iter(f) == f = [S \in SUBSET T |-> IF S = {} THEN 0
                               ELSE (CHOOSE x \in S : TRUE).health + f[S \ {CHOOSE x \in S : TRUE}]]
             g == [S \in SUBSET T |-> TotalOver(v, S)]
             it == CHOOSE f : Iter(f)
  <1>1. Iterates(g, T, v)
    BY TotalsIterate
  <1>2. Iter(g)
    <2>1. ASSUME NEW S \in SUBSET T, S # {}
          PROVE  g[S] = PickOf(S).health + g[S \ {PickOf(S)}]
      <3>1. PickOf(S) \in T
        BY <2>1 DEF PickOf
      <3>2. v[PickOf(S)] = PickOf(S).health
        BY <3>1
      <3> HIDE DEF g
      <3>3. QED
        BY <1>1, <2>1, <3>2 DEF Iterates
    <2>2. g[{}] = 0
      BY TotalAddsUp
    <2>3. QED
      BY <2>1, <2>2 DEF PickOf
  <1>3. Iter(it)
    BY <1>2
  <1>4. Healths(T) = it[T]
    BY DEF Healths, MapThenSumSet, MapThenFoldSet
  <1> HIDE DEF it
  <1>5. Iterates(it, T, v)
    <2>1. ASSUME NEW S \in SUBSET T PROVE it[S] = IF S = {} THEN 0 ELSE v[PickOf(S)] + it[S \ {PickOf(S)}]
      <3>1. it[S] = IF S = {} THEN 0 ELSE PickOf(S).health + it[S \ {PickOf(S)}]
        BY <1>3 DEF PickOf
      <3>2. S # {} => v[PickOf(S)] = PickOf(S).health
        <4>1. S # {} => PickOf(S) \in T
          BY DEF PickOf
        <4>2. QED
          BY <4>1
      <3>3. QED
        BY <3>1, <3>2
    <2>2. QED
      BY <2>1 DEF Iterates
  <1>6. QED
    BY <1>4, <1>5, IteratesAgree

\* What is deducted of them.
LEMMA DeductiblesAreATotal ==
  ASSUME NEW T, NEW v, IsValued(T, v), \A x \in T : v[x] = DeductibleOf(x)
  PROVE  Deductibles(T) = TotalOver(v, T)
  <1> DEFINE Iter(f) == f = [S \in SUBSET T |-> IF S = {} THEN 0
                               ELSE DeductibleOf((CHOOSE x \in S : TRUE)) + f[S \ {CHOOSE x \in S : TRUE}]]
             g == [S \in SUBSET T |-> TotalOver(v, S)]
             it == CHOOSE f : Iter(f)
  <1>1. Iterates(g, T, v)
    BY TotalsIterate
  <1>2. Iter(g)
    <2>1. ASSUME NEW S \in SUBSET T, S # {}
          PROVE  g[S] = DeductibleOf(PickOf(S)) + g[S \ {PickOf(S)}]
      <3>1. PickOf(S) \in T
        BY <2>1 DEF PickOf
      <3>2. v[PickOf(S)] = DeductibleOf(PickOf(S))
        BY <3>1
      <3> HIDE DEF g
      <3>3. QED
        BY <1>1, <2>1, <3>2 DEF Iterates
    <2>2. g[{}] = 0
      BY TotalAddsUp
    <2>3. QED
      BY <2>1, <2>2 DEF PickOf
  <1>3. Iter(it)
    BY <1>2
  <1>4. Deductibles(T) = it[T]
    BY DEF Deductibles, MapThenSumSet, MapThenFoldSet
  <1> HIDE DEF it
  <1>5. Iterates(it, T, v)
    <2>1. ASSUME NEW S \in SUBSET T PROVE it[S] = IF S = {} THEN 0 ELSE v[PickOf(S)] + it[S \ {PickOf(S)}]
      <3>1. it[S] = IF S = {} THEN 0 ELSE DeductibleOf(PickOf(S)) + it[S \ {PickOf(S)}]
        BY <1>3 DEF PickOf
      <3>2. S # {} => v[PickOf(S)] = DeductibleOf(PickOf(S))
        <4>1. S # {} => PickOf(S) \in T
          BY DEF PickOf
        <4>2. QED
          BY <4>1
      <3>3. QED
        BY <3>1, <3>2
    <2>2. QED
      BY <2>1 DEF Iterates
  <1>6. QED
    BY <1>4, <1>5, IteratesAgree

\* What the months of a list deducted.
LEMMA DeductedIsATotal ==
  ASSUME NEW months, NEW T, NEW v, IsValued(T, v), \A x \in T : v[x] = months[x].deducted
  PROVE  Deducted(months, T) = TotalOver(v, T)
  <1> DEFINE Iter(f) == f = [S \in SUBSET T |-> IF S = {} THEN 0
                               ELSE months[(CHOOSE x \in S : TRUE)].deducted + f[S \ {CHOOSE x \in S : TRUE}]]
             g == [S \in SUBSET T |-> TotalOver(v, S)]
             it == CHOOSE f : Iter(f)
  <1>1. Iterates(g, T, v)
    BY TotalsIterate
  <1>2. Iter(g)
    <2>1. ASSUME NEW S \in SUBSET T, S # {}
          PROVE  g[S] = months[PickOf(S)].deducted + g[S \ {PickOf(S)}]
      <3>1. PickOf(S) \in T
        BY <2>1 DEF PickOf
      <3>2. v[PickOf(S)] = months[PickOf(S)].deducted
        BY <3>1
      <3> HIDE DEF g
      <3>3. QED
        BY <1>1, <2>1, <3>2 DEF Iterates
    <2>2. g[{}] = 0
      BY TotalAddsUp
    <2>3. QED
      BY <2>1, <2>2 DEF PickOf
  <1>3. Iter(it)
    BY <1>2
  <1>4. Deducted(months, T) = it[T]
    BY DEF Deducted, MapThenSumSet, MapThenFoldSet
  <1> HIDE DEF it
  <1>5. Iterates(it, T, v)
    <2>1. ASSUME NEW S \in SUBSET T PROVE it[S] = IF S = {} THEN 0 ELSE v[PickOf(S)] + it[S \ {PickOf(S)}]
      <3>1. it[S] = IF S = {} THEN 0 ELSE months[PickOf(S)].deducted + it[S \ {PickOf(S)}]
        BY <1>3 DEF PickOf
      <3>2. S # {} => v[PickOf(S)] = months[PickOf(S)].deducted
        <4>1. S # {} => PickOf(S) \in T
          BY DEF PickOf
        <4>2. QED
          BY <4>1
      <3>3. QED
        BY <3>1, <3>2
    <2>2. QED
      BY <2>1 DEF Iterates
  <1>6. QED
    BY <1>4, <1>5, IteratesAgree

\* The tax of the months of a list.
LEMMA TaxesAreATotal ==
  ASSUME NEW months, NEW T, NEW v, IsValued(T, v), \A x \in T : v[x] = months[x].tax
  PROVE  Taxes(months, T) = TotalOver(v, T)
  <1> DEFINE Iter(f) == f = [S \in SUBSET T |-> IF S = {} THEN 0
                               ELSE months[(CHOOSE x \in S : TRUE)].tax + f[S \ {CHOOSE x \in S : TRUE}]]
             g == [S \in SUBSET T |-> TotalOver(v, S)]
             it == CHOOSE f : Iter(f)
  <1>1. Iterates(g, T, v)
    BY TotalsIterate
  <1>2. Iter(g)
    <2>1. ASSUME NEW S \in SUBSET T, S # {}
          PROVE  g[S] = months[PickOf(S)].tax + g[S \ {PickOf(S)}]
      <3>1. PickOf(S) \in T
        BY <2>1 DEF PickOf
      <3>2. v[PickOf(S)] = months[PickOf(S)].tax
        BY <3>1
      <3> HIDE DEF g
      <3>3. QED
        BY <1>1, <2>1, <3>2 DEF Iterates
    <2>2. g[{}] = 0
      BY TotalAddsUp
    <2>3. QED
      BY <2>1, <2>2 DEF PickOf
  <1>3. Iter(it)
    BY <1>2
  <1>4. Taxes(months, T) = it[T]
    BY DEF Taxes, MapThenSumSet, MapThenFoldSet
  <1> HIDE DEF it
  <1>5. Iterates(it, T, v)
    <2>1. ASSUME NEW S \in SUBSET T PROVE it[S] = IF S = {} THEN 0 ELSE v[PickOf(S)] + it[S \ {PickOf(S)}]
      <3>1. it[S] = IF S = {} THEN 0 ELSE months[PickOf(S)].tax + it[S \ {PickOf(S)}]
        BY <1>3 DEF PickOf
      <3>2. S # {} => v[PickOf(S)] = months[PickOf(S)].tax
        <4>1. S # {} => PickOf(S) \in T
          BY DEF PickOf
        <4>2. QED
          BY <4>1
      <3>3. QED
        BY <3>1, <3>2
    <2>2. QED
      BY <2>1 DEF Iterates
  <1>6. QED
    BY <1>4, <1>5, IteratesAgree

-----------------------------------------------------------------------------
(* The register is of amounts.                                             *)

\* What a function makes of a finite set is finite.
LEMMA ImageIsFinite ==
  ASSUME NEW S, IsFiniteSet(S), NEW f
  PROVE  IsFiniteSet({f[x] : x \in S})
  <1> DEFINE T == {f[x] : x \in S}
             g == [x \in S |-> f[x]]
  <1>1. g \in Surjection(S, T)
    BY DEF Surjection
  <1>2. QED
    BY <1>1, FS_Surjection

\* An entry of the register of a year.
IsEntry(e, year) ==
  /\ e.on \in Nat /\ YearOf(MonthOf(e.on)) = year
  /\ e.amount \in Int /\ IsRate(e.rate)

\* A year's register is finite, and its entries are of amounts.
LEMMA RegisterType ==
  ASSUME IsRegister(invoices), NEW year
  PROVE  IsFiniteSet(Register(year)) /\ \A e \in Register(year) : IsEntry(e, year)
  <1>1. IsFiniteSet(InvoiceEntries(year)) /\ \A e \in InvoiceEntries(year) : IsEntry(e, year)
    <2> DEFINE of == {j \in invoices : YearOf(MonthOf(j.on)) = year /\ j.pln # None}
               f == [i \in of |-> [kind |-> "invoice", document |-> i.number, on |-> i.on,
                                   amount |-> i.pln, rate |-> i.rate]]
    <2>1. InvoiceEntries(year) = {f[i] : i \in of}
      BY DEF InvoiceEntries
    <2>2. IsFiniteSet(of)
      BY FS_Subset DEF IsRegister
    <2>3. \A i \in of : IsEntry(f[i], year)
      BY DEF IsRegister, IsEntry
    <2> HIDE DEF of, f
    <2>4. QED
      BY <2>1, <2>2, <2>3, ImageIsFinite
  <1>2. IsFiniteSet(DifferenceEntries(year)) /\ \A e \in DifferenceEntries(year) : IsEntry(e, year)
    <2> DEFINE of == {j \in invoices : /\ j.paid_on # None
                                       /\ YearOf(MonthOf(j.paid_on)) = year
                                       /\ j.difference \notin {None, 0}}
               f == [i \in of |-> [kind |-> "difference", document |-> i.number, on |-> i.paid_on,
                                   amount |-> i.difference, rate |-> i.rate]]
    <2>1. DifferenceEntries(year) = {f[i] : i \in of}
      BY DEF DifferenceEntries
    <2>2. IsFiniteSet(of)
      BY FS_Subset DEF IsRegister
    <2>3. \A i \in of : IsEntry(f[i], year)
      BY DEF IsRegister, IsEntry
    <2> HIDE DEF of, f
    <2>4. QED
      BY <2>1, <2>2, <2>3, ImageIsFinite
  <1>3. IsFiniteSet(SaleEntries(year)) /\ \A e \in SaleEntries(year) : IsEntry(e, year)
    <2> DEFINE of(i) == {t \in i.sales : YearOf(MonthOf(t.on)) = year /\ t.difference # 0}
               entry(i, s) == [kind |-> "sale", document |-> s.reference, on |-> s.on,
                               amount |-> s.difference, rate |-> i.rate]
               g(i) == [s \in of(i) |-> entry(i, s)]
               f == [i \in invoices |-> {entry(i, s) : s \in of(i)}]
    <2>1. SaleEntries(year) = UNION {f[i] : i \in invoices}
      BY DEF SaleEntries
    <2>2. ASSUME NEW i \in invoices
          PROVE  IsFiniteSet(f[i]) /\ \A e \in f[i] : IsEntry(e, year)
      <3>1. f[i] = {entry(i, s) : s \in of(i)}
        OBVIOUS
      <3>2. \A s \in of(i) : g(i)[s] = entry(i, s)
        OBVIOUS
      <3>3. f[i] = {g(i)[s] : s \in of(i)}
        <4> HIDE DEF g, entry, of, f
        <4>1. QED
          BY <3>1, <3>2
      <3>4. IsFiniteSet(of(i))
        BY FS_Subset DEF IsRegister
      <3>5. \A s \in of(i) : IsEntry(entry(i, s), year)
        BY DEF IsRegister, IsEntry
      <3> DEFINE h == g(i)
                 sold == of(i)
      <3>6. f[i] = {h[s] : s \in sold} /\ IsFiniteSet(sold)
        BY <3>3, <3>4
      <3>7. \A e \in f[i] : IsEntry(e, year)
        <4> HIDE DEF g, entry, of, f
        <4>1. QED
          BY <3>1, <3>5
      <3> HIDE DEF h, sold, f
      <3>8. IsFiniteSet(f[i])
        BY <3>6, ImageIsFinite
      <3>9. QED
        BY <3>7, <3>8
    <2> HIDE DEF f
    <2> DEFINE all == {f[i] : i \in invoices}
    <2>3. IsFiniteSet(all) /\ \A T \in all : IsFiniteSet(T)
      BY <2>2, ImageIsFinite DEF IsRegister
    <2>4. SaleEntries(year) = UNION all
      BY <2>1
    <2>5. \A e \in SaleEntries(year) : IsEntry(e, year)
      BY <2>1, <2>2
    <2> HIDE DEF all
    <2>6. QED
      BY <2>3, <2>4, <2>5, FS_UNION
  <1>4. QED
    BY <1>1, <1>2, <1>3, FS_Union DEF Register

\* Payments as they are recorded.
IsPaid(paid) ==
  IsFiniteSet(paid) /\ \A p \in paid : p.on \in Nat /\ p.social \in Nat /\ p.health \in Nat

\* A half is a half, or a grosz more.
LEMMA HalfIs ==
  ASSUME NEW h \in Nat
  PROVE  Half(h) \in Nat /\ 2 * Half(h) >= h /\ 2 * Half(h) <= h + 1
  BY DEF Half, RoundHalfUp

\* What is paid comes to amounts.
LEMMA PaidType ==
  ASSUME NEW paid, IsPaid(paid), NEW T \in SUBSET paid
  PROVE  Socials(T) \in Nat /\ Healths(T) \in Nat /\ Deductibles(T) \in Nat
  <1>0. IsFiniteSet(T)
    BY FS_Subset DEF IsPaid
  <1>1. Socials(T) \in Nat
    <2> DEFINE v == [p \in T |-> p.social]
    <2>1. IsValued(T, v) /\ \A p \in T : v[p] = p.social /\ v[p] >= 0
      BY <1>0 DEF IsPaid, IsValued
    <2> HIDE DEF v
    <2>2. TotalOver(v, T) \in Nat
      BY <2>1, TotalIsNatural
    <2>3. QED
      BY <2>1, <2>2, SocialsAreATotal
  <1>2. Healths(T) \in Nat
    <2> DEFINE v == [p \in T |-> p.health]
    <2>1. IsValued(T, v) /\ \A p \in T : v[p] = p.health /\ v[p] >= 0
      BY <1>0 DEF IsPaid, IsValued
    <2> HIDE DEF v
    <2>2. TotalOver(v, T) \in Nat
      BY <2>1, TotalIsNatural
    <2>3. QED
      BY <2>1, <2>2, HealthsAreATotal
  <1>3. Deductibles(T) \in Nat
    <2> DEFINE v == [p \in T |-> DeductibleOf(p)]
    <2>1. \A p \in T : DeductibleOf(p) \in Nat
      <3> SUFFICES ASSUME NEW p \in T PROVE DeductibleOf(p) \in Nat
        OBVIOUS
      <3>1. p.social \in Nat /\ Half(p.health) \in Nat
        BY HalfIs DEF IsPaid
      <3>2. QED
        BY <3>1 DEF DeductibleOf
    <2>2. IsValued(T, v) /\ \A p \in T : v[p] = DeductibleOf(p) /\ v[p] >= 0
      BY <1>0, <2>1 DEF IsValued
    <2> HIDE DEF v
    <2>3. TotalOver(v, T) \in Nat
      BY <2>2, TotalIsNatural
    <2>4. QED
      BY <2>2, <2>3, DeductiblesAreATotal
  <1>4. QED
    BY <1>1, <1>2, <1>3

\* What is earned comes to an amount.
LEMMA AmountsType ==
  ASSUME NEW D, IsFiniteSet(D), \A e \in D : e.amount \in Int, NEW T \in SUBSET D
  PROVE  Amounts(T) \in Int
  <1> DEFINE v == [e \in T |-> e.amount]
  <1>1. IsValued(T, v) /\ \A e \in T : v[e] = e.amount
    BY FS_Subset DEF IsValued
  <1> HIDE DEF v
  <1>2. T \in SUBSET T
    OBVIOUS
  <1>3. TotalOver(v, T) \in Int
    BY <1>1, <1>2, TotalAddsUp
  <1>4. QED
    BY <1>1, <1>3, AmountsAreATotal

-----------------------------------------------------------------------------
(* What a month deducts, carries on and is taxed.                          *)

Earned(year, m) == Amounts({e \in Register(year) : MonthOf(e.on) = m})

\* What was paid that counts from a month.
Counting(year, paid, m) ==
  AvailableIn({p \in paid : YearOf(MonthOf(p.on)) = year}, FirstMonth(year), m)

\* A year's tax on an amount: none stated where it holds several rates.
TaxIn(year, taxable) ==
  IF Cardinality(Rates(year)) > 1 THEN None
  ELSE IF Rates(year) = {} THEN 0
  ELSE Tax(taxable, CHOOSE r \in Rates(year) : TRUE)

\* Rounded twice: a number of whole zlotys, and what a rate takes of them.
ZlotysIn(amount) == (amount + 50) \div 100

Share(product) == ((product + 5000) \div 10000) * 100

\* A tax is a share of whole zlotys.
LEMMA TaxIs ==
  ASSUME NEW taxable \in Nat, NEW rate \in Nat
  PROVE  /\ ZlotysIn(taxable) \in Nat /\ ZlotysIn(taxable) * rate \in Nat
         /\ Tax(taxable, rate) = Share(ZlotysIn(taxable) * rate)
         /\ Tax(taxable, rate) \in Nat
  <1> DEFINE whole == ZlotysIn(taxable)
             product == whole * rate
  <1>1. whole \in Nat
    BY DEF ZlotysIn
  <1>2. WholeZlote(taxable) = whole * 100
    BY DEF WholeZlote, RoundHalfUp, Zloty, ZlotysIn
  <1> HIDE DEF whole
  <1>3. (whole * 100) \div 100 = whole
    BY <1>1
  <1>4. Tax(taxable, rate) = RoundHalfUp(product, 10000) * 100
    BY <1>2, <1>3 DEF Tax, Zloty
  <1>5. product \in Nat
    BY <1>1
  <1> HIDE DEF product
  <1>6. Share(product) \in Nat /\ RoundHalfUp(product, 10000) * 100 = Share(product)
    BY <1>5 DEF Share, RoundHalfUp
  <1>7. QED
    BY <1>1, <1>4, <1>5, <1>6 DEF whole, product

\* A year's rates are rates.
LEMMA RatesType ==
  ASSUME IsRegister(invoices), NEW year
  PROVE  \A r \in Rates(year) : IsRate(r) /\ r \in Nat
  <1>1. \A r : IsRate(r) => r \in Nat
    BY DEF IsRate
  <1>2. QED
    BY <1>1, RegisterType DEF Rates, IsEntry

\* A tax that is stated is an amount.
LEMMA TaxType ==
  ASSUME IsRegister(invoices), NEW year, NEW taxable \in Nat
  PROVE  TaxIn(year, taxable) \in Nat \cup {None}
  <1>1. Rates(year) # {} => (CHOOSE r \in Rates(year) : TRUE) \in Nat
    BY RatesType
  <1> DEFINE rate == CHOOSE r \in Rates(year) : TRUE
  <1>2. Rates(year) # {} => rate \in Nat
    BY <1>1
  <1>3. TaxIn(year, taxable) = IF Cardinality(Rates(year)) > 1 THEN None
                               ELSE IF Rates(year) = {} THEN 0 ELSE Tax(taxable, rate)
    BY DEF TaxIn
  <1> HIDE DEF rate
  <1>4. Rates(year) # {} => Tax(taxable, rate) \in Nat
    BY <1>2, TaxIs
  <1>5. QED
    BY <1>3, <1>4

\* What one month takes of what is there, and what it leaves to the next.
LEMMA AfterIs ==
  ASSUME IsRegister(invoices), NEW year, NEW paid, IsPaid(paid), NEW m,
         NEW before, before.carried \in Nat, before.cumulative \in Int
  PROVE  LET it == After(year, paid, before, m)
             earned == Earned(year, m)
             counting == Counting(year, paid, m)
             available == before.carried + Deductibles(counting)
         IN  /\ earned \in Int /\ Deductibles(counting) \in Nat /\ Socials(counting) \in Nat
             /\ it.month = m /\ it.revenue = earned
             /\ it.deducted = MinOf(available, MaxOf(earned, 0)) /\ it.deducted \in Nat
             /\ it.carried = available - it.deducted /\ it.carried \in Nat
             /\ it.cumulative = before.cumulative + earned - Socials(counting)
             /\ it.cumulative \in Int
             /\ it.tax = TaxIn(year, MaxOf(earned - it.deducted, 0))
             /\ it.tax \in Nat \cup {None}
  <1> DEFINE it == After(year, paid, before, m)
             earned == Earned(year, m)
             counting == Counting(year, paid, m)
             available == before.carried + Deductibles(counting)
             deducted == MinOf(available, MaxOf(earned, 0))
             taxable == MaxOf(earned - deducted, 0)
  <1>1. earned \in Int
    <2> DEFINE D == Register(year)
               T == {e \in Register(year) : MonthOf(e.on) = m}
    <2>1. IsFiniteSet(D) /\ (\A e \in D : e.amount \in Int) /\ T \in SUBSET D
      BY RegisterType DEF IsEntry
    <2> HIDE DEF D, T
    <2>2. Amounts(T) \in Int
      BY <2>1, AmountsType
    <2>3. QED
      BY <2>2 DEF Earned, T
  <1>2. Deductibles(counting) \in Nat /\ Socials(counting) \in Nat
    <2>1. counting \in SUBSET paid
      BY DEF Counting, AvailableIn
    <2> HIDE DEF counting
    <2>2. QED
      BY <2>1, PaidType
  <1>3. /\ it.month = m /\ it.revenue = earned /\ it.deducted = deducted
        /\ it.carried = available - deducted
        /\ it.cumulative = before.cumulative + earned - Socials(counting)
        /\ it.tax = TaxIn(year, taxable)
    BY DEF After, MonthAfter, Earned, Counting, TaxIn, Rates, Deductibles, Socials
  <1> DEFINE most == MaxOf(earned, 0)
             sum == before.carried
             owed == Deductibles(counting)
             social == Socials(counting)
  <1> HIDE DEF it, earned
  <1>4. most \in Nat
    BY <1>1 DEF MaxOf
  <1>5. available \in Nat
    <2>1. sum \in Nat /\ owed \in Nat /\ available = sum + owed
      BY <1>2
    <2> HIDE DEF owed, sum, available
    <2>2. QED
      BY <2>1
  <1> HIDE DEF most, available
  <1>6. deducted \in Nat /\ available - deducted \in Nat
    BY <1>4, <1>5 DEF MinOf, most
  <1> HIDE DEF deducted
  <1>7. taxable \in Nat
    BY <1>1, <1>6 DEF MaxOf
  <1> HIDE DEF taxable
  <1>8. TaxIn(year, taxable) \in Nat \cup {None}
    BY <1>7, TaxType
  <1>9. it.cumulative \in Int
    <2>1. social \in Nat /\ before.cumulative \in Int
      BY <1>2
    <2>2. it.cumulative = before.cumulative + earned - social
      BY <1>3
    <2> HIDE DEF social
    <2>3. QED
      BY <1>1, <2>1, <2>2
  <1>10. QED
    BY <1>1, <1>2, <1>3, <1>6, <1>8, <1>9 DEF it, earned, available, deducted, taxable, most

\* The month before one of a list, or what a year opens with.
Before(months, k) == IF k = 1 THEN Opening ELSE months[k - 1]

\* Every month of a year comes out of the one before, and all are of amounts.
LEMMA FiguresOfAYear ==
  ASSUME IsRegister(invoices), NEW year \in Nat, FirstMonth(year) \in Nat, NEW paid, IsPaid(paid),
         NEW last \in MonthsOf(year), FirstMonth(year) <= last
  PROVE  LET months == MonthsUntil(last, paid)
         IN  /\ Len(months) = last - FirstMonth(year) + 1 /\ Len(months) \in Nat /\ Len(months) > 0
             /\ IsList(months, Len(months))
             /\ \A k \in 1 .. Len(months) :
                  /\ months[k] = After(year, paid, Before(months, k), FirstMonth(year) + k - 1)
                  /\ Before(months, k).carried \in Nat /\ Before(months, k).cumulative \in Int
                  /\ months[k].carried \in Nat /\ months[k].cumulative \in Int
  <1> DEFINE first == FirstMonth(year)
             months == MonthsUntil(last, paid)
             n == last - first + 1
             Good(k) == /\ Before(months, k).carried \in Nat /\ Before(months, k).cumulative \in Int
                        /\ months[k].carried \in Nat /\ months[k].cumulative \in Int
             bad == {k \in 1 .. n : ~Good(k)}
  <1>1. /\ n \in Nat /\ n > 0 /\ IsList(months, n) /\ Len(months) = n
        /\ months[1] = After(year, paid, Opening, first)
        /\ \A k \in 1 .. n - 1 : months[k + 1] = After(year, paid, months[k], first + k)
    BY MonthsOneByOne
  <1>0. first \in Nat
    OBVIOUS
  <1> HIDE DEF months, n, first
  <1>2. ASSUME NEW k \in 1 .. n PROVE months[k] = After(year, paid, Before(months, k), first + k - 1)
    <2>1. CASE k = 1
      <3>1. first + k - 1 = first
        BY <1>0, <2>1
      <3>2. QED
        BY <1>1, <2>1, <3>1 DEF Before
    <2>2. CASE k # 1
      <3>1. k - 1 \in 1 .. n - 1 /\ (k - 1) + 1 = k /\ first + (k - 1) = first + k - 1
        BY <1>0, <1>1, <2>2
      <3>2. months[k] = After(year, paid, months[k - 1], first + k - 1)
        BY <1>1, <3>1
      <3>3. QED
        BY <2>2, <3>2 DEF Before
    <2>3. QED
      BY <2>1, <2>2
  <1>3. ASSUME NEW k \in 1 .. n, Before(months, k).carried \in Nat, Before(months, k).cumulative \in Int
        PROVE  Good(k)
    <2> DEFINE b == Before(months, k)
               m == first + k - 1
    <2>1. b.carried \in Nat /\ b.cumulative \in Int /\ months[k] = After(year, paid, b, m)
      BY <1>2, <1>3
    <2> HIDE DEF b, m
    <2>2. After(year, paid, b, m).carried \in Nat /\ After(year, paid, b, m).cumulative \in Int
      BY <2>1, AfterIs
    <2>3. QED
      BY <1>3, <2>1, <2>2
  <1>4. bad = {}
    <2>1. SUFFICES ASSUME bad # {} PROVE FALSE
      OBVIOUS
    <2>2. bad \in SUBSET Nat
      OBVIOUS
    <2> HIDE DEF bad
    <2>3. PICK k \in bad : \A l \in bad : k <= l
      BY <2>1, <2>2, LeastNatural
    <2> USE DEF bad
    <2>4. k \in 1 .. n /\ ~Good(k)
      BY <2>3
    <2>5. CASE k = 1
      <3>1. Before(months, k) = Opening
        BY <2>5 DEF Before
      <3>2. Opening.carried \in Nat /\ Opening.cumulative \in Int
        BY DEF Opening
      <3>3. QED
        BY <1>3, <2>4, <3>1, <3>2
    <2>6. CASE k # 1
      <3>0. k \in 1 .. n
        BY <2>4
      <3>1. k - 1 \in 1 .. n /\ ~(k <= k - 1)
        BY <1>1, <2>6, <3>0
      <3>2. Good(k - 1)
        BY <2>3, <3>1
      <3>3. Before(months, k) = months[k - 1]
        BY <2>6 DEF Before
      <3>4. QED
        BY <1>3, <2>4, <3>2, <3>3
    <2>7. QED
      BY <2>5, <2>6
  <1>5. \A k \in 1 .. n : Good(k)
    BY <1>4
  <1>6. QED
    BY <1>1, <1>2, <1>5 DEF months, n, first

-----------------------------------------------------------------------------
(* The rows.                                                               *)

RowsInv == TypeOK /\ IsFiniteSet(contributed)

\* The ledger holds invoices, and what was paid is payments.
LEMMA RowsAreAmounts ==
  ASSUME RowsInv
  PROVE  IsRegister(invoices) /\ IsPaid(contributed)
  <1>1. IsRegister(invoices)
    <2>1. CASE invoices = {}
      BY <2>1, FS_EmptySet DEF IsRegister
    <2>2. CASE invoices # {}
      <3>1. invoices \in Registers
        BY <2>2 DEF RowsInv, TypeOK
      <3>2. QED
        BY <3>1, RegistersAssumption
    <2>3. QED
      BY <2>1, <2>2
  <1>2. IsPaid(contributed)
    BY NothingIsNoDate DEF RowsInv, TypeOK, ContributionRows, IsPaid
  <1>3. QED
    BY <1>1, <1>2

\* A year's months up to one of them, if it has any, are of amounts: the
\* health of one charged in a band, the contributions of one that is charged,
\* the tax of one that can be stated.
LEMMA MonthType ==
  ASSUME CurrentInv, RowsInv, NEW month \in Nat, YearOf(month) \in Years,
         NEW paid, IsPaid(paid), MonthsUntil(month, paid) # <<>>
  PROVE  LET months == MonthsUntil(month, paid)
             m == Last(months)
         IN  /\ FirstMonth(YearOf(month)) # None
             /\ m.month = month /\ m.tax \in Nat \cup {None}
             /\ m.band # 0 => HealthOf(m) \in Nat
             /\ m.social # None => Total(m.social.charged) \in Nat
  <1> DEFINE months == MonthsUntil(month, paid)
             n == Len(months)
             year == YearOf(month)
             first == FirstMonth(year)
             m == months[n]
  <1>1. first # None /\ ~(month < first)
    BY DEF MonthsUntil
  <1>2. year \in Nat /\ year \in Years /\ month \in MonthsOf(year) /\ first \in Nat /\ first <= month
    <2>1. year \in Nat /\ month \in MonthsOf(year)
      <3>1. year \in Nat /\ 12 * year <= month /\ month < 12 * year + 12
        BY CalendarType
      <3> HIDE DEF year
      <3>2. QED
        BY <3>1 DEF MonthsOf
    <2>2. first \in Nat
      BY <1>1, <2>1, FirstMonthType
    <2>3. QED
      BY <1>1, <2>1, <2>2
  <1>3. IsRegister(invoices)
    BY RowsAreAmounts
  <1> HIDE DEF year, first
  <1>4. /\ n \in Nat /\ n > 0 /\ n = month - first + 1
        /\ \A k \in 1 .. n : /\ months[k].month = first + k - 1
                             /\ months[k].social = Social(seller, months[k].month, wages[year], granted)
        /\ months[1].band = Band(year, months[1].cumulative, 1)
        /\ \A k \in 1 .. n - 1 :
             months[k + 1].band = Band(year, months[k + 1].cumulative, months[k].band)
    BY <1>2, MonthsOfAYear DEF first, year
  <1>5. /\ \A k \in 1 .. n : /\ months[k] = After(year, paid, Before(months, k), first + k - 1)
                             /\ Before(months, k).carried \in Nat /\ Before(months, k).cumulative \in Int
    BY <1>2, <1>3, FiguresOfAYear DEF first, year
  <1>6. bases[year] # None => \A k \in 1 .. n : months[k].band \in 1 .. 3
    BY <1>2, BandsOfAYear DEF first, year
  <1> HIDE DEF months, n
  <1>7. n \in 1 .. n /\ m.month = month
    <2>1. n \in 1 .. n
      BY <1>4
    <2>2. first + n - 1 = month
      BY <1>2, <1>4
    <2>3. QED
      BY <1>4, <2>1, <2>2
  <1>8. m.tax \in Nat \cup {None}
    <2> DEFINE b == Before(months, n)
               at == first + n - 1
    <2>1. b.carried \in Nat /\ b.cumulative \in Int /\ m = After(year, paid, b, at)
      BY <1>5, <1>7
    <2> HIDE DEF b, at, m
    <2>2. After(year, paid, b, at).tax \in Nat \cup {None}
      BY <1>3, <2>1, AfterIs
    <2>3. QED
      BY <2>1, <2>2
  <1>9. ASSUME m.band # 0 PROVE HealthOf(m) \in Nat
    <2>1. bases[year] # None
      <3>1. SUFFICES ASSUME bases[year] = None PROVE FALSE
        OBVIOUS
      <3>2. \A c, r : Band(year, c, r) = 0
        BY <3>1 DEF Band
      <3>3. CASE n = 1
        BY <1>4, <1>9, <3>2, <3>3
      <3>4. CASE n # 1
        <4>1. n - 1 \in 1 .. n - 1 /\ (n - 1) + 1 = n
          BY <1>4, <3>4
        <4>2. months[n].band = Band(year, months[n].cumulative, months[n - 1].band)
          BY <1>4, <4>1
        <4>3. QED
          BY <1>9, <3>2, <4>2
      <3>5. QED
        BY <3>3, <3>4
    <2>2. m.band \in 1 .. 3
      BY <1>6, <1>7, <2>1
    <2>3. HealthOf(m) = Health(year, m.band)
      BY <1>7, <1>9 DEF HealthOf, year
    <2> DEFINE band == m.band
    <2>4. band \in 1 .. 3 /\ HealthOf(m) = Health(year, band)
      BY <2>2, <2>3
    <2> HIDE DEF band, m
    <2>5. Health(year, band) \in Nat
      BY <1>2, <2>1, <2>4, HealthRises
    <2>6. QED
      BY <2>4, <2>5
  <1>10. ASSUME m.social # None PROVE Total(m.social.charged) \in Nat
    <2>1. m.social = Social(seller, month, wages[year], granted)
      BY <1>4, <1>7
    <2> DEFINE charged == m.social.charged
    <2>2. /\ charged.pension \in Nat /\ charged.disability \in Nat /\ charged.accident \in Nat
          /\ charged.sickness \in Nat /\ charged.funds \in Nat
      <3> HIDE DEF m
      <3>1. QED
        BY <1>2, <1>10, <2>1, SocialType
    <2> HIDE DEF charged
    <2>3. Total(charged) = charged.pension + charged.disability + charged.accident + charged.sickness
                             + charged.funds
      BY DEF Total, Insurances
    <2>4. Total(charged) \in Nat
      BY <2>2, <2>3
    <2>5. QED
      BY <2>4 DEF charged
  <1>11. QED
    BY <1>1, <1>7, <1>8, <1>9, <1>10 DEF m, n, months, first, year, Last

PaidRows ==
  contributed \subseteq ContributionRows /\ IsFiniteSet(contributed) /\ taxed \subseteq TaxRows

\* What is recorded of a month is amounts.
LEMMA PaymentIsAmounts ==
  ASSUME CurrentInv, RowsInv, NEW month \in RequestMonths, NEW kind \in Kinds, NEW on \in Days,
         RecordPayment(month, kind, on)
  PROVE  PaidRows'
  <1> DEFINE months == MonthsUntil(month, contributed)
             due == Last(months)
             social == Total(due.social.charged)
             health == HealthOf(due)
             row == [covers |-> month, settles |-> None, on |-> on, social |-> social, health |-> health]
             tax == [covers |-> month, on |-> on, amount |-> due.tax]
  <1>1. month \in Nat /\ YearOf(month) \in Years /\ months # <<>> /\ Amount(due, kind) \notin {None, 0}
    BY DatesAssumption DEF RecordPayment, MayRecordPayment
  <1>2. /\ due.tax \in Nat \cup {None}
        /\ due.band # 0 => health \in Nat
        /\ due.social # None => social \in Nat
    BY <1>1, RowsAreAmounts, MonthType
  <1>3. PaidRows
    BY DEF RowsInv, TypeOK, PaidRows
  <1>4. CASE kind = "ryczalt"
    <2>1. taxed' = taxed \cup {tax} /\ contributed' = contributed
      BY <1>4 DEF RecordPayment
    <2>2. due.tax \in Nat
      BY <1>1, <1>2, <1>4 DEF Amount
    <2> HIDE DEF due
    <2>3. tax \in TaxRows
      BY <2>2 DEF TaxRows
    <2> HIDE DEF tax
    <2>4. QED
      BY <1>3, <2>1, <2>3 DEF PaidRows
  <1>5. CASE kind = "skladki"
    <2>1. contributed' = contributed \cup {row} /\ taxed' = taxed
      BY <1>5 DEF RecordPayment
    <2>2. due.social # None /\ due.band # 0
      BY <1>1, <1>5 DEF Amount, DraTotal
    <2>3. social \in Nat /\ health \in Nat
      BY <1>2, <2>2
    <2> HIDE DEF social, health
    <2>4. row \in ContributionRows
      BY <2>3 DEF ContributionRows
    <2> HIDE DEF row
    <2>5. IsFiniteSet(contributed')
      BY <1>3, <2>1, FS_AddElement DEF PaidRows
    <2>6. QED
      BY <1>3, <2>1, <2>4, <2>5 DEF PaidRows
  <1>6. QED
    BY <1>4, <1>5 DEF Kinds

\* So is what is recorded of a year.
LEMMA SettlementIsAmounts ==
  ASSUME CurrentInv, RowsInv, NEW year \in RequestYears, RecordSettlement(year)
  PROVE  PaidRows'
  <1> DEFINE months == Months(year)
             health == HealthProvision(months)
             row == [covers |-> None, settles |-> year, on |-> today, social |-> 0, health |-> health]
  <1>1. /\ year \in Years /\ year \in Nat
        /\ months # <<>> /\ Last(months).band # 0
        /\ contributed' = contributed \cup {row} /\ taxed' = taxed
    BY DatesAssumption DEF RecordSettlement, SettlementPayable
  <1>2. FirstMonth(year) # None
    <2> DEFINE last == 12 * year + 11
    <2>1. YearOf(last) = year
      <3>1. last \in MonthsOf(year)
        BY <1>1 DEF MonthsOf
      <3>2. QED
        BY <1>1, <3>1, MonthOfItsYear
    <2>2. MonthsUntil(last, contributed) # <<>>
      BY <1>1 DEF Months
    <2> HIDE DEF last
    <2>3. QED
      BY <2>1, <2>2 DEF MonthsUntil
  <1>3. /\ Len(months) \in Nat /\ Len(months) > 0
    <2> DEFINE last == 12 * year + 11
    <2>1. FirstMonth(year) \in Nat /\ FirstMonth(year) < 12 * year + 12
      BY <1>1, <1>2, FirstMonthType
    <2>2. last \in MonthsOf(year) /\ FirstMonth(year) <= last
      BY <1>1, <2>1 DEF MonthsOf
    <2>3. QED
      BY <1>1, <2>1, <2>2, MonthsOfAYear DEF Months
  <1>4. bases[year] # None
    <2>1. Len(months) \in 1 .. Len(months)
      BY <1>3
    <2>2. months[Len(months)].band # 0
      BY <1>1 DEF Last
    <2>3. QED
      BY <1>1, <1>2, <2>1, <2>2, HealthType
  <1>5. health \in Nat
    BY <1>1, <1>2, <1>4, ProvisionIsOwed
  <1> HIDE DEF health
  <1>6. row \in ContributionRows
    BY <1>5 DEF ContributionRows, CurrentInv
  <1> HIDE DEF row
  <1>7. PaidRows
    BY DEF RowsInv, TypeOK, PaidRows
  <1>8. IsFiniteSet(contributed')
    BY <1>1, <1>7, FS_AddElement DEF PaidRows
  <1>9. QED
    BY <1>1, <1>6, <1>7, <1>8 DEF PaidRows

\* Rows taken off leave amounts.
LEMMA FewerAmounts ==
  ASSUME RowsInv, contributed' \subseteq contributed, taxed' \subseteq taxed
  PROVE  PaidRows'
  <1>1. IsFiniteSet(contributed')
    BY FS_Subset DEF RowsInv
  <1>2. QED
    BY <1>1 DEF RowsInv, TypeOK, PaidRows

\* Every request keeps the rows of its kind.
LEMMA RowsStep == CurrentInv /\ RowsInv /\ [Next]_vars => RowsInv'
  <1> SUFFICES ASSUME CurrentInv, RowsInv, [Next]_vars PROVE RowsInv'
    OBVIOUS
  <1> DEFINE Marks == /\ declared \subseteq DeclarationRows
                      /\ returned \subseteq ReturnRows /\ filed \subseteq ReturnRows
             Held == invoices \in Registers \cup {{}}
  <1>0. CurrentInv'
    BY CurrentStep
  <1>1. PaidRows' /\ Marks' /\ Held' => RowsInv'
    BY <1>0 DEF CurrentInv, RowsInv, TypeOK, PaidRows
  <1>2. PaidRows /\ Marks /\ Held
    BY DEF RowsInv, TypeOK, PaidRows
  <1>3. UNCHANGED <<contributed, taxed>> => PaidRows'
    BY <1>2 DEF PaidRows
  <1>4. CASE Record
    <2>1. UNCHANGED <<invoices, filed>>
      BY <1>4 DEF Record
    <2>2. ASSUME NEW month \in RequestMonths, NEW kind \in Kinds, NEW on \in Days, RecordPayment(month, kind, on)
          PROVE  PaidRows' /\ UNCHANGED <<declared, returned>>
      BY <2>2, PaymentIsAmounts DEF RecordPayment
    <2>3. ASSUME NEW month \in RequestMonths, NEW kind \in Kinds, RemovePayments(month, kind)
          PROVE  PaidRows' /\ UNCHANGED <<declared, returned>>
      BY <2>3, FewerAmounts DEF RemovePayments
    <2>4. ASSUME NEW month \in RequestMonths, RecordHoliday(month) \/ RemoveHoliday(month)
          PROVE  PaidRows' /\ UNCHANGED <<declared, returned>>
      BY <1>3, <2>4 DEF RecordHoliday, RemoveHoliday
    <2>5. ASSUME NEW month \in RequestMonths, NEW on \in Days, RecordDeclaration(month, on)
          PROVE  PaidRows' /\ returned' = returned /\ declared' \subseteq DeclarationRows
      BY <1>2, <1>3, <2>5 DEF RecordDeclaration, DeclarationRows
    <2>6. ASSUME NEW month \in RequestMonths, RemoveDeclaration(month)
          PROVE  PaidRows' /\ returned' = returned /\ declared' \subseteq DeclarationRows
      BY <1>2, <1>3, <2>6 DEF RemoveDeclaration
    <2>7. ASSUME NEW year \in RequestYears, RecordSettlement(year)
          PROVE  PaidRows' /\ UNCHANGED <<declared, returned>>
      BY <2>7, SettlementIsAmounts DEF RecordSettlement
    <2>8. ASSUME NEW year \in RequestYears, RemoveSettlement(year)
          PROVE  PaidRows' /\ UNCHANGED <<declared, returned>>
      BY <2>8, FewerAmounts DEF RemoveSettlement
    <2>9. ASSUME NEW year \in RequestYears, NEW on \in Days \cup {None}, RecordReturn(year, on)
          PROVE  PaidRows' /\ declared' = declared /\ returned' \subseteq ReturnRows
      <3>1. UNCHANGED <<contributed, taxed, declared>>
        BY <2>9 DEF RecordReturn
      <3>2. returned' \subseteq ReturnRows
        BY <1>2, <2>9 DEF RecordReturn, ReturnRows
      <3>3. QED
        BY <1>3, <3>1, <3>2
    <2>10. PaidRows' /\ declared' \subseteq DeclarationRows /\ returned' \subseteq ReturnRows
      BY <1>2, <1>4, <2>2, <2>3, <2>4, <2>5, <2>6, <2>7, <2>8, <2>9 DEF Record
    <2>11. QED
      BY <1>1, <1>2, <2>1, <2>10
  <1>5. CASE File
    <2>1. UNCHANGED <<invoices, contributed, taxed, declared, returned>>
      BY <1>5 DEF File, RecordFiling, rows
    <2>2. filed' \subseteq ReturnRows
      BY <1>2, <1>5 DEF File, RecordFiling, ReturnRows
    <2>3. QED
      BY <1>1, <1>2, <1>3, <2>1, <2>2
  <1>6. CASE Announce \/ EditSeller \/ NextDay
    <2>1. UNCHANGED <<invoices, filed, contributed, taxed, declared, returned>>
      BY <1>6 DEF Announce, EditSeller, NextDay, rows
    <2>2. QED
      BY <1>1, <1>2, <1>3, <2>1
  <1>7. CASE RegisterMoves
    <2>1. Held' /\ UNCHANGED <<filed, contributed, taxed, declared, returned>>
      BY <1>7 DEF RegisterMoves, rows
    <2>2. QED
      BY <1>1, <1>2, <1>3, <2>1
  <1>8. CASE UNCHANGED vars
    <2>1. UNCHANGED <<invoices, filed, contributed, taxed, declared, returned>>
      BY <1>8 DEF vars, rows
    <2>2. QED
      BY <1>1, <1>2, <1>3, <2>1
  <1>9. QED
    BY <1>4, <1>5, <1>6, <1>7, <1>8 DEF Next

\* An empty year has no rows.
LEMMA RowsInit == Init => RowsInv
  <1> SUFFICES ASSUME Init PROVE RowsInv
    OBVIOUS
  <1>1. CurrentInv
    BY CurrentInit
  <1>2. IsFiniteSet(contributed)
    BY FS_EmptySet DEF Init
  <1>3. QED
    BY <1>1, <1>2 DEF Init, CurrentInv, RowsInv, TypeOK

\* The rows keep their shape in every state.
LEMMA RowsHold == Spec => [](CurrentInv /\ PeriodInv /\ RowsInv)
  BY CurrentInit, CurrentStep, PeriodStep, RowsInit, RowsStep, PTL DEF Spec

\* In every state, whatever the register and the elections: what is recorded
\* of a month or a year is of one asked for, on one of the days, and whole
\* amounts that are not negative.
THEOREM RowsAreOfTheirKind == Spec => []TypeOK
  <1>1. RowsInv => TypeOK
    BY DEF RowsInv
  <1>2. QED
    BY <1>1, RowsHold, PTL

-----------------------------------------------------------------------------
(* What the months deduct, and what the return does.                       *)

\* The months' deductions, and their taxes, add up one after the other.
LEMMA MonthsAddUp ==
  ASSUME NEW n \in Nat, NEW months
  PROVE  /\ (\A i \in 1 .. n : months[i].deducted \in Int) =>
              /\ Deducted(months, 1 .. 0) = 0
              /\ \A k \in 1 .. n :
                   /\ Deducted(months, 1 .. k) \in Int /\ Deducted(months, 1 .. k - 1) \in Int
                   /\ Deducted(months, 1 .. k) = Deducted(months, 1 .. k - 1) + months[k].deducted
         /\ (\A i \in 1 .. n : months[i].tax \in Int) =>
              /\ Taxes(months, 1 .. 0) = 0
              /\ \A k \in 1 .. n :
                   /\ Taxes(months, 1 .. k) \in Int /\ Taxes(months, 1 .. k - 1) \in Int
                   /\ Taxes(months, 1 .. k) = Taxes(months, 1 .. k - 1) + months[k].tax
  <1>0. \A k \in 0 .. n : 1 .. k \subseteq 1 .. n /\ IsFiniteSet(1 .. k)
    BY FS_Interval
  <1>00. 0 \in 0 .. n /\ \A k \in 1 .. n : k \in 0 .. n /\ k - 1 \in 0 .. n
    OBVIOUS
  <1>1. ASSUME \A i \in 1 .. n : months[i].deducted \in Int
        PROVE  /\ Deducted(months, 1 .. 0) = 0
               /\ \A k \in 1 .. n :
                    /\ Deducted(months, 1 .. k) \in Int /\ Deducted(months, 1 .. k - 1) \in Int
                    /\ Deducted(months, 1 .. k) = Deducted(months, 1 .. k - 1) + months[k].deducted
    <2> DEFINE v == [i \in 1 .. n |-> months[i].deducted]
    <2>1. \A i \in 1 .. n : v[i] = months[i].deducted /\ v[i] \in Int
      BY <1>1
    <2> HIDE DEF v
    <2>2. ASSUME NEW k \in 0 .. n PROVE Deducted(months, 1 .. k) = TotalOver(v, 1 .. k)
      <3> DEFINE T == 1 .. k
      <3>1. IsValued(T, v) /\ \A i \in T : v[i] = months[i].deducted
        BY <1>0, <2>1 DEF IsValued
      <3> HIDE DEF T
      <3>2. Deducted(months, T) = TotalOver(v, T)
        BY <3>1, DeductedIsATotal
      <3>3. QED
        BY <3>2 DEF T
    <2>3. /\ TotalOver(v, 1 .. 0) = 0
          /\ \A k \in 1 .. n : /\ TotalOver(v, 1 .. k) \in Int /\ TotalOver(v, 1 .. k - 1) \in Int
                               /\ TotalOver(v, 1 .. k) = TotalOver(v, 1 .. k - 1) + v[k]
      BY <2>1, TotalGrows
    <2>4. QED
      BY <1>00, <2>1, <2>2, <2>3
  <1>2. ASSUME \A i \in 1 .. n : months[i].tax \in Int
        PROVE  /\ Taxes(months, 1 .. 0) = 0
               /\ \A k \in 1 .. n :
                    /\ Taxes(months, 1 .. k) \in Int /\ Taxes(months, 1 .. k - 1) \in Int
                    /\ Taxes(months, 1 .. k) = Taxes(months, 1 .. k - 1) + months[k].tax
    <2> DEFINE v == [i \in 1 .. n |-> months[i].tax]
    <2>1. \A i \in 1 .. n : v[i] = months[i].tax /\ v[i] \in Int
      BY <1>2
    <2> HIDE DEF v
    <2>2. ASSUME NEW k \in 0 .. n PROVE Taxes(months, 1 .. k) = TotalOver(v, 1 .. k)
      <3> DEFINE T == 1 .. k
      <3>1. IsValued(T, v) /\ \A i \in T : v[i] = months[i].tax
        BY <1>0, <2>1 DEF IsValued
      <3> HIDE DEF T
      <3>2. Taxes(months, T) = TotalOver(v, T)
        BY <3>1, TaxesAreATotal
      <3>3. QED
        BY <3>2 DEF T
    <2>3. /\ TotalOver(v, 1 .. 0) = 0
          /\ \A k \in 1 .. n : /\ TotalOver(v, 1 .. k) \in Int /\ TotalOver(v, 1 .. k - 1) \in Int
                               /\ TotalOver(v, 1 .. k) = TotalOver(v, 1 .. k - 1) + v[k]
      BY <2>1, TotalGrows
    <2>4. QED
      BY <1>00, <2>1, <2>2, <2>3
  <1>3. QED
    BY <1>1, <1>2

\* Payments add up one by one, and in two parts.
LEMMA PaymentsAddUp ==
  ASSUME NEW paid, IsPaid(paid)
  PROVE  /\ Socials({}) = 0 /\ Healths({}) = 0 /\ Deductibles({}) = 0
         /\ \A T \in SUBSET paid : \A p \in T :
              /\ Socials(T) = p.social + Socials(T \ {p})
              /\ Healths(T) = p.health + Healths(T \ {p})
              /\ Deductibles(T) = DeductibleOf(p) + Deductibles(T \ {p})
         /\ \A A, B \in SUBSET paid : A \cap B = {} =>
              Deductibles(A \cup B) = Deductibles(A) + Deductibles(B)
  <1>0. \A T \in SUBSET paid : IsFiniteSet(T) /\ \A p \in T : T \ {p} \in SUBSET paid
    BY FS_Subset DEF IsPaid
  <1> DEFINE s == [p \in paid |-> p.social]
             h == [p \in paid |-> p.health]
             d == [p \in paid |-> DeductibleOf(p)]
  <1>1. /\ \A p \in paid : s[p] = p.social /\ s[p] \in Int
        /\ \A p \in paid : h[p] = p.health /\ h[p] \in Int
    BY DEF IsPaid
  <1>2. \A p \in paid : d[p] = DeductibleOf(p) /\ d[p] \in Int
    <2> SUFFICES ASSUME NEW p \in paid PROVE DeductibleOf(p) \in Int
      OBVIOUS
    <2>1. p.social \in Nat /\ Half(p.health) \in Nat
      BY HalfIs DEF IsPaid
    <2>2. QED
      BY <2>1 DEF DeductibleOf
  <1> HIDE DEF s, h, d
  <1>3. \A T \in SUBSET paid : IsValued(T, s) /\ IsValued(T, h) /\ IsValued(T, d)
    BY <1>0, <1>1, <1>2 DEF IsValued
  <1>4. ASSUME NEW T \in SUBSET paid
        PROVE  Socials(T) = TotalOver(s, T) /\ Healths(T) = TotalOver(h, T) /\ Deductibles(T) = TotalOver(d, T)
    <2>1. /\ \A x \in T : s[x] = x.social
          /\ \A x \in T : h[x] = x.health
          /\ \A x \in T : d[x] = DeductibleOf(x)
      BY <1>1, <1>2
    <2>2. QED
      BY <1>3, <2>1, SocialsAreATotal, HealthsAreATotal, DeductiblesAreATotal
  <1>5. {} \in SUBSET paid /\ paid \in SUBSET paid
    OBVIOUS
  <1>6. IsValued(paid, s) /\ IsValued(paid, h) /\ IsValued(paid, d)
    BY <1>3, <1>5
  <1>7. /\ TotalOver(s, {}) = 0 /\ TotalOver(h, {}) = 0 /\ TotalOver(d, {}) = 0
        /\ \A T \in SUBSET paid : \A x \in T : /\ TotalOver(s, T) = s[x] + TotalOver(s, T \ {x})
                                              /\ TotalOver(h, T) = h[x] + TotalOver(h, T \ {x})
                                              /\ TotalOver(d, T) = d[x] + TotalOver(d, T \ {x})
    BY <1>6, TotalAddsUp
  <1>8. ASSUME NEW A \in SUBSET paid, NEW B \in SUBSET paid, A \cap B = {}
        PROVE  Deductibles(A \cup B) = Deductibles(A) + Deductibles(B)
    <2>1. TotalOver(d, A \cup B) = TotalOver(d, A) + TotalOver(d, B)
      BY <1>6, <1>8, TotalOfParts
    <2>2. A \cup B \in SUBSET paid
      OBVIOUS
    <2>3. QED
      BY <1>4, <2>1, <2>2
  <1>9. Socials({}) = 0 /\ Healths({}) = 0 /\ Deductibles({}) = 0
    BY <1>4, <1>5, <1>7
  <1>10. ASSUME NEW T \in SUBSET paid, NEW p \in T
         PROVE  /\ Socials(T) = p.social + Socials(T \ {p})
                /\ Healths(T) = p.health + Healths(T \ {p})
                /\ Deductibles(T) = DeductibleOf(p) + Deductibles(T \ {p})
    <2>1. T \ {p} \in SUBSET paid /\ p \in paid
      OBVIOUS
    <2>2. s[p] = p.social /\ h[p] = p.health /\ d[p] = DeductibleOf(p)
      BY <1>1, <1>2, <2>1
    <2>3. QED
      BY <1>4, <1>7, <2>1, <2>2
  <1>11. QED
    BY <1>8, <1>9, <1>10

PaidUpTo(year, paid, m) == {p \in paid : YearOf(MonthOf(p.on)) = year /\ MonthOf(p.on) <= m}

\* What counts from a month was paid in it, or before any: by each month, what
\* has counted is what had been paid.
LEMMA WhatCounts ==
  ASSUME NEW year, FirstMonth(year) \in Nat, NEW paid, IsPaid(paid), NEW m \in Nat, FirstMonth(year) <= m
  PROVE  /\ Counting(year, paid, m) \in SUBSET paid /\ PaidUpTo(year, paid, m) \in SUBSET paid
         /\ m = FirstMonth(year) => PaidUpTo(year, paid, m) = Counting(year, paid, m)
         /\ m # FirstMonth(year) =>
              /\ PaidUpTo(year, paid, m - 1) \cap Counting(year, paid, m) = {}
              /\ PaidUpTo(year, paid, m) = PaidUpTo(year, paid, m - 1) \cup Counting(year, paid, m)
  <1>1. \A p \in paid : MonthOf(p.on) \in Nat
    BY CalendarType DEF IsPaid
  <1>2. Counting(year, paid, m) =
          {p \in paid : YearOf(MonthOf(p.on)) = year /\ MaxOf(MonthOf(p.on), FirstMonth(year)) = m}
    BY DEF Counting, AvailableIn
  <1> DEFINE first == FirstMonth(year)
  <1>3. \A n \in Nat : /\ MaxOf(n, first) = m /\ m = first <=> n <= m /\ m = first
                       /\ m # first => (MaxOf(n, first) = m <=> n = m)
    BY DEF MaxOf
  <1>4. \A n \in Nat : n <= m <=> n <= m - 1 \/ n = m
    OBVIOUS
  <1> HIDE DEF first
  <1>5. QED
    BY <1>1, <1>2, <1>3, <1>4 DEF PaidUpTo, first

\* A month of a year takes what it takes of what the one before carried on and
\* of what counts from it.
LEMMA MonthTakes ==
  ASSUME IsRegister(invoices), NEW year \in Nat, FirstMonth(year) \in Nat, NEW paid, IsPaid(paid),
         NEW last \in MonthsOf(year), FirstMonth(year) <= last,
         NEW k \in 1 .. Len(MonthsUntil(last, paid))
  PROVE  LET months == MonthsUntil(last, paid)
             m == FirstMonth(year) + k - 1
             before == Before(months, k)
             counting == Counting(year, paid, m)
         IN  /\ m \in Nat /\ FirstMonth(year) <= m
             /\ months[k].month = m /\ months[k].revenue = Earned(year, m)
             /\ Earned(year, m) \in Int /\ Deductibles(counting) \in Nat /\ Socials(counting) \in Nat
             /\ before.carried \in Nat
             /\ months[k].deducted = MinOf(before.carried + Deductibles(counting),
                                           MaxOf(Earned(year, m), 0))
             /\ months[k].deducted \in Nat /\ months[k].carried \in Nat
             /\ months[k].carried = before.carried + Deductibles(counting) - months[k].deducted
             /\ months[k].tax = TaxIn(year, MaxOf(Earned(year, m) - months[k].deducted, 0))
             /\ before.cumulative \in Int /\ months[k].cumulative \in Int
             /\ months[k].cumulative = before.cumulative + Earned(year, m) - Socials(counting)
  <1> DEFINE months == MonthsUntil(last, paid)
             m == FirstMonth(year) + k - 1
             before == Before(months, k)
  <1>1. /\ Len(months) \in Nat /\ months[k] = After(year, paid, before, m)
        /\ before.carried \in Nat /\ before.cumulative \in Int
    BY FiguresOfAYear
  <1>2. m \in Nat /\ FirstMonth(year) <= m
    BY <1>1
  <1> DEFINE it == After(year, paid, before, m)
             counting == Counting(year, paid, m)
             available == before.carried + Deductibles(counting)
  <1> HIDE DEF months, before, m
  <1>3. /\ Earned(year, m) \in Int /\ Deductibles(counting) \in Nat /\ Socials(counting) \in Nat
        /\ it.month = m /\ it.revenue = Earned(year, m)
        /\ it.deducted = MinOf(available, MaxOf(Earned(year, m), 0)) /\ it.deducted \in Nat
        /\ it.carried = available - it.deducted /\ it.carried \in Nat
        /\ it.tax = TaxIn(year, MaxOf(Earned(year, m) - it.deducted, 0))
    BY <1>1, AfterIs
  <1>4. it.cumulative = before.cumulative + Earned(year, m) - Socials(counting) /\ it.cumulative \in Int
    BY <1>1, AfterIs
  <1>5. months[k] = it
    BY <1>1
  <1>6. /\ months[k].month = m /\ months[k].revenue = Earned(year, m)
        /\ months[k].deducted = MinOf(available, MaxOf(Earned(year, m), 0))
        /\ months[k].deducted \in Nat /\ months[k].carried \in Nat
        /\ months[k].carried = available - months[k].deducted
        /\ months[k].tax = TaxIn(year, MaxOf(Earned(year, m) - months[k].deducted, 0))
        /\ months[k].cumulative = before.cumulative + Earned(year, m) - Socials(counting)
        /\ months[k].cumulative \in Int
    <2> HIDE DEF it, available
    <2>1. QED
      BY <1>3, <1>4, <1>5, Zenon
  <1>7. Earned(year, m) \in Int /\ Deductibles(counting) \in Nat /\ Socials(counting) \in Nat
    BY <1>3
  <1>8. before.carried \in Nat /\ before.cumulative \in Int
    BY <1>1
  <1> USE DEF months, before, m, counting, available
  <1>9. QED
    BY <1>2, <1>6, <1>7, <1>8, SMTT(40)

\* Every grosz paid by a month was deducted by it or is carried on from it.
LEMMA PaidIsDeductedOrCarried ==
  ASSUME IsRegister(invoices), NEW year \in Nat, FirstMonth(year) \in Nat, NEW paid, IsPaid(paid),
         NEW last \in MonthsOf(year), FirstMonth(year) <= last
  PROVE  LET months == MonthsUntil(last, paid)
         IN  \A k \in 1 .. Len(months) :
               /\ Deducted(months, 1 .. k) \in Int
               /\ Deducted(months, 1 .. k) + months[k].carried
                    = Deductibles(PaidUpTo(year, paid, months[k].month))
  <1> DEFINE first == FirstMonth(year)
             months == MonthsUntil(last, paid)
             n == Len(months)
             done(k) == Deducted(months, 1 .. k)
             owing(k) == Deductibles(Counting(year, paid, first + k - 1))
             by(m) == Deductibles(PaidUpTo(year, paid, m))
             bad == {k \in 1 .. n : done(k) + months[k].carried # by(first + k - 1)}
  <1>1. n \in Nat /\ n > 0 /\ first \in Nat
    BY FiguresOfAYear
  <1>2. \A k \in 1 .. n :
          /\ first + k - 1 \in Nat /\ first <= first + k - 1 /\ months[k].month = first + k - 1
          /\ owing(k) \in Nat /\ Before(months, k).carried \in Nat
          /\ months[k].deducted \in Nat /\ months[k].carried \in Nat
          /\ months[k].carried = Before(months, k).carried + owing(k) - months[k].deducted
    BY MonthTakes
  <1>3. \A k \in 1 .. n : months[k].deducted \in Int
    BY <1>2
  <1>4. /\ done(0) = 0
        /\ \A k \in 1 .. n : /\ done(k) \in Int /\ done(k - 1) \in Int
                             /\ done(k) = done(k - 1) + months[k].deducted
    <2> HIDE DEF n, months
    <2>1. QED
      BY <1>1, <1>3, MonthsAddUp
  <1>5. ASSUME NEW k \in 1 .. n
        PROVE  /\ by(first + k - 1) \in Nat
               /\ k = 1 => by(first + k - 1) = owing(k)
               /\ k # 1 => /\ by(first + k - 2) \in Nat
                           /\ by(first + k - 1) = by(first + k - 2) + owing(k)
    <2> DEFINE m == first + k - 1
               upTo == PaidUpTo(year, paid, m)
               counting == Counting(year, paid, m)
               earlier == PaidUpTo(year, paid, m - 1)
    <2>1. m \in Nat /\ first <= m
      BY <1>2
    <2>2. (k = 1 <=> m = first) /\ m - 1 = first + k - 2
      BY <1>1
    <2> HIDE DEF m
    <2>3. /\ counting \in SUBSET paid /\ upTo \in SUBSET paid
          /\ m = first => upTo = counting
          /\ m # first => earlier \cap counting = {} /\ upTo = earlier \cup counting
      BY <2>1, WhatCounts
    <2>4. earlier \in SUBSET paid
      BY DEF PaidUpTo
    <2>5. by(m) = Deductibles(upTo) /\ owing(k) = Deductibles(counting) /\ by(m - 1) = Deductibles(earlier)
      BY DEF m
    <2> HIDE DEF upTo, counting, earlier
    <2>6. /\ Deductibles(upTo) \in Nat /\ Deductibles(earlier) \in Nat
          /\ m # first => Deductibles(upTo) = Deductibles(earlier) + Deductibles(counting)
      BY <2>3, <2>4, PaymentsAddUp, PaidType, SMTT(40)
    <2> HIDE DEF by, owing
    <2>7. QED
      BY <2>2, <2>3, <2>5, <2>6 DEF m
  <1> HIDE DEF n, months, first, done, owing, by
  <1>6. bad = {}
    <2>1. SUFFICES ASSUME bad # {} PROVE FALSE
      OBVIOUS
    <2>2. bad \in SUBSET Nat
      OBVIOUS
    <2> HIDE DEF bad
    <2>3. PICK k \in bad : \A l \in bad : k <= l
      BY <2>1, <2>2, LeastNatural
    <2> USE DEF bad
    <2>4. k \in 1 .. n /\ done(k) + months[k].carried # by(first + k - 1)
      BY <2>3
    <2>5. CASE k = 1
      <3>1. Before(months, k).carried = 0
        BY <2>5 DEF Before, Opening
      <3>2. done(k - 1) = 0
        BY <1>4, <2>5
      <3>3. /\ done(k) \in Int /\ done(k - 1) \in Int /\ done(k) = done(k - 1) + months[k].deducted
            /\ months[k].deducted \in Nat /\ months[k].carried \in Nat /\ owing(k) \in Nat
            /\ months[k].carried = Before(months, k).carried + owing(k) - months[k].deducted
            /\ by(first + k - 1) = owing(k)
        <4>0. k \in 1 .. n
          BY <2>4
        <4>1. done(k) \in Int /\ done(k - 1) \in Int /\ done(k) = done(k - 1) + months[k].deducted
          BY <1>4, <4>0
        <4>2. by(first + k - 1) = owing(k)
          BY <1>5, <2>5, <4>0
        <4>3. QED
          BY <1>2, <4>0, <4>1, <4>2
      <3>4. QED
        BY <2>4, <3>1, <3>2, <3>3
    <2>6. CASE k # 1
      <3>1. k - 1 \in 1 .. n /\ ~(k <= k - 1) /\ first + (k - 1) - 1 = first + k - 2
        BY <1>1, <2>4, <2>6
      <3>2. done(k - 1) + months[k - 1].carried = by(first + k - 2)
        BY <2>3, <3>1
      <3>3. Before(months, k).carried = months[k - 1].carried
        BY <2>6 DEF Before
      <3>4. /\ done(k) \in Int /\ done(k - 1) \in Int /\ done(k) = done(k - 1) + months[k].deducted
            /\ months[k].deducted \in Nat /\ months[k].carried \in Nat /\ owing(k) \in Nat
            /\ months[k - 1].carried \in Nat
            /\ months[k].carried = months[k - 1].carried + owing(k) - months[k].deducted
            /\ by(first + k - 2) \in Nat /\ by(first + k - 1) = by(first + k - 2) + owing(k)
        BY <1>2, <1>4, <1>5, <2>4, <2>6, <3>1, <3>3
      <3>5. QED
        BY <2>4, <3>2, <3>4
    <2>7. QED
      BY <2>5, <2>6
  <1>7. \A k \in 1 .. n : /\ done(k) \in Int /\ done(k) + months[k].carried = by(first + k - 1)
                          /\ months[k].month = first + k - 1
    BY <1>2, <1>4, <1>6
  <1>8. QED
    BY <1>7 DEF n, months, first, done, by

\* The halves of what was paid, each rounded up, come to no less than the half
\* of all of it, and to no more than a grosz a payment above.
LEMMA HalvesAddUp ==
  ASSUME NEW paid, IsPaid(paid)
  PROVE  LET more == Deductibles(paid) - (Socials(paid) + Half(Healths(paid)))
         IN  0 <= more /\ more <= Cardinality(paid)
  <1> DEFINE Good(S) == /\ Healths(S) <= 2 * (Deductibles(S) - Socials(S))
                        /\ 2 * (Deductibles(S) - Socials(S)) <= Healths(S) + Cardinality(S)
             bad == {S \in SUBSET paid : ~Good(S)}
  <1>0. IsFiniteSet(paid) /\ \A p \in paid : p.social \in Nat /\ p.health \in Nat
    BY DEF IsPaid
  <1>1. \A S \in SUBSET paid : /\ Socials(S) \in Nat /\ Healths(S) \in Nat /\ Deductibles(S) \in Nat
                               /\ IsFiniteSet(S) /\ Cardinality(S) \in Nat
    BY <1>0, PaidType, FS_Subset, FS_CardinalityType
  <1>2. bad = {}
    <2>1. SUFFICES ASSUME bad # {} PROVE FALSE
      OBVIOUS
    <2>2. AreWithin(bad, paid)
      BY DEF AreWithin
    <2> HIDE DEF bad
    <2>3. PICK S : IsSmallest(S, bad)
      BY <1>0, <2>1, <2>2, SmallestSet
    <2>4. S \in bad /\ \A x \in S : S \ {x} \notin bad
      BY <2>3 DEF IsSmallest
    <2> USE DEF bad
    <2>5. S \in SUBSET paid /\ ~Good(S)
      BY <2>4
    <2>6. CASE S = {}
      <3>1. Socials(S) = 0 /\ Healths(S) = 0 /\ Deductibles(S) = 0 /\ Cardinality(S) = 0
        BY <2>6, PaymentsAddUp, FS_EmptySet
      <3>2. QED
        BY <2>5, <3>1
    <2>7. CASE S # {}
      <3>1. PICK p \in S : TRUE
        BY <2>7
      <3> DEFINE R == S \ {p}
                 h == p.health
                 s == p.social
      <3>2. R \in SUBSET paid /\ Good(R) /\ p \in paid
        BY <2>4, <2>5
      <3>3. Cardinality(S) = Cardinality(R) + 1
        BY <1>1, <2>5, <3>1, FS_RemoveElement
      <3>4. /\ Socials(S) = s + Socials(R) /\ Healths(S) = h + Healths(R)
            /\ Deductibles(S) = DeductibleOf(p) + Deductibles(R)
        BY <2>5, <3>1, PaymentsAddUp
      <3>5. s \in Nat /\ h \in Nat /\ DeductibleOf(p) = s + Half(h)
        BY <1>0, <3>2 DEF DeductibleOf
      <3> HIDE DEF R, h, s
      <3>6. Half(h) \in Nat /\ 2 * Half(h) >= h /\ 2 * Half(h) <= h + 1
        BY <3>5, HalfIs
      <3>7. Good(S)
        BY <1>1, <2>5, <3>2, <3>3, <3>4, <3>5, <3>6
      <3>8. QED
        BY <2>5, <3>7
    <2>8. QED
      BY <2>6, <2>7
  <1>3. Good(paid)
    BY <1>2
  <1> DEFINE h == Healths(paid)
             s == Socials(paid)
             d == Deductibles(paid)
             c == Cardinality(paid)
  <1>4. /\ h \in Nat /\ s \in Nat /\ d \in Nat /\ c \in Nat
        /\ h <= 2 * (d - s) /\ 2 * (d - s) <= h + c
    BY <1>1, <1>3
  <1> HIDE DEF h, s, d, c
  <1>5. Half(h) \in Nat /\ 2 * Half(h) >= h /\ 2 * Half(h) <= h + 1
    BY <1>4, HalfIs
  <1>6. 0 <= d - (s + Half(h)) /\ d - (s + Half(h)) <= c
    BY <1>4, <1>5
  <1>7. QED
    BY <1>6 DEF h, s, d, c

\* By the last month of a year, what was paid by it is what was paid during it.
LEMMA PaidByTheEnd ==
  ASSUME NEW year \in Nat, IsPaid(contributed)
  PROVE  /\ PaidUpTo(year, contributed, 12 * year + 11) = PaidDuring(year)
         /\ IsPaid(PaidDuring(year))
  <1>1. ASSUME NEW p \in contributed, YearOf(MonthOf(p.on)) = year PROVE MonthOf(p.on) <= 12 * year + 11
    <2>1. MonthOf(p.on) \in Nat
      BY CalendarType DEF IsPaid
    <2>2. QED
      BY <1>1, <2>1 DEF YearOf
  <1>2. PaidUpTo(year, contributed, 12 * year + 11) = PaidDuring(year)
    BY <1>1 DEF PaidUpTo, PaidDuring
  <1>3. IsPaid(PaidDuring(year))
    BY FS_Subset DEF IsPaid, PaidDuring
  <1>4. QED
    BY <1>2, <1>3

\* The months deduct what was paid once, and the return the same.
LEMMA DeductedAlike ==
  ASSUME IsRegister(invoices), IsPaid(contributed), NEW year \in Nat, FirstMonth(year) \in Nat,
         FirstMonth(year) <= 12 * year + 11
  PROVE  /\ MonthsDeductOnce(year, Months(year))
         /\ ReturnDeductsTheSame(year, Months(year))
  <1> DEFINE last == 12 * year + 11
             months == Months(year)
             n == Len(months)
             done(k) == Deducted(months, 1 .. k)
  <1>1. last \in MonthsOf(year) /\ months = MonthsUntil(last, contributed)
    BY DEF MonthsOf, Months
  <1> HIDE DEF months
  <1>2. /\ n \in Nat /\ n > 0 /\ n = last - FirstMonth(year) + 1
    BY <1>1, FiguresOfAYear
  <1>3. ASSUME NEW k \in 1 .. n
        PROVE  /\ done(k) \in Int /\ months[k].month = FirstMonth(year) + k - 1
               /\ done(k) + months[k].carried = Deductibles(PaidUpTo(year, contributed, months[k].month))
               /\ months[k].deducted \in Nat /\ months[k].carried \in Nat
               /\ months[k].deducted <= MaxOf(months[k].revenue, 0)
    <2>0. done(k) \in Int /\ done(k) + months[k].carried
                               = Deductibles(PaidUpTo(year, contributed, months[k].month))
      BY <1>1, PaidIsDeductedOrCarried
    <2> DEFINE m == FirstMonth(year) + k - 1
               available == Before(months, k).carried + Deductibles(Counting(year, contributed, m))
               earned == Earned(year, m)
               most == MaxOf(earned, 0)
    <2>1. /\ months[k].month = m /\ months[k].revenue = earned /\ earned \in Int
          /\ Before(months, k).carried \in Nat /\ Deductibles(Counting(year, contributed, m)) \in Nat
          /\ months[k].deducted = MinOf(available, most)
          /\ months[k].deducted \in Nat /\ months[k].carried \in Nat
      <3> HIDE DEF n
      <3>1. /\ months[k].month = m /\ months[k].revenue = Earned(year, m) /\ Earned(year, m) \in Int
            /\ Before(months, k).carried \in Nat /\ Deductibles(Counting(year, contributed, m)) \in Nat
            /\ months[k].deducted = MinOf(Before(months, k).carried + Deductibles(Counting(year, contributed, m)),
                                          MaxOf(Earned(year, m), 0))
            /\ months[k].deducted \in Nat /\ months[k].carried \in Nat
        BY <1>1, MonthTakes, ZenonT(60) DEF n
      <3>2. QED
        BY <3>1
    <2>2. available \in Nat
      <3>1. Before(months, k).carried \in Nat /\ Deductibles(Counting(year, contributed, m)) \in Nat
        BY <2>1
      <3> HIDE DEF m, n, earned, most
      <3>2. QED
        BY <3>1
    <2> HIDE DEF available, earned, m, n
    <2>3. most \in Nat
      BY <2>1 DEF MaxOf
    <2> HIDE DEF most
    <2>4. MinOf(available, most) <= most
      BY <2>2, <2>3 DEF MinOf
    <2>5. months[k].deducted <= MaxOf(months[k].revenue, 0)
      BY <2>1, <2>4 DEF most
    <2>6. QED
      BY <2>0, <2>1, <2>5 DEF m
  <1>4. MonthsDeductOnce(year, months)
    <2> SUFFICES ASSUME NEW k \in 1 .. n
                 PROVE  /\ done(k) + months[k].carried
                             = Deductibles({p \in PaidDuring(year) : MonthOf(p.on) <= months[k].month})
                        /\ months[k].deducted >= 0 /\ months[k].carried >= 0
                        /\ months[k].deducted <= MaxOf(months[k].revenue, 0)
      BY DEF MonthsDeductOnce, Deducted, Deductibles
    <2>1. {p \in PaidDuring(year) : MonthOf(p.on) <= months[k].month}
            = PaidUpTo(year, contributed, months[k].month)
      BY DEF PaidUpTo, PaidDuring
    <2>2. months[k].deducted >= 0 /\ months[k].carried >= 0
      BY <1>3
    <2>3. QED
      BY <1>3, <2>1, <2>2
  <1>5. ReturnDeductsTheSame(year, months)
    <2> DEFINE paid == PaidDuring(year)
    <2>1. n \in 1 .. n
      BY <1>2
    <2>2. months[n].month = last
      <3>1. months[n].month = FirstMonth(year) + n - 1
        BY <1>3, <2>1
      <3>2. QED
        BY <1>2, <3>1
    <2>3. done(n) + Last(months).carried = Deductibles(paid)
      BY <1>3, <2>1, <2>2, PaidByTheEnd DEF Last
    <2>4. AnnualDeductions(year) = Socials(paid) + Half(Healths(paid))
      BY DEF AnnualDeductions, Socials, Healths
    <2>5. /\ 0 <= Deductibles(paid) - (Socials(paid) + Half(Healths(paid)))
          /\ Deductibles(paid) - (Socials(paid) + Half(Healths(paid))) <= Cardinality(paid)
      BY PaidByTheEnd, HalvesAddUp
    <2>6. Deductibles(paid) \in Nat /\ Socials(paid) + Half(Healths(paid)) \in Nat
      <3>1. Socials(paid) \in Nat /\ Healths(paid) \in Nat /\ Deductibles(paid) \in Nat
        BY PaidByTheEnd, PaidType
      <3>2. Half(Healths(paid)) \in Nat
        BY <3>1, HalfIs
      <3>3. QED
        BY <3>1, <3>2
    <2> DEFINE deducted == done(n)
               carried == Last(months).carried
               annual == AnnualDeductions(year)
    <2>7. deducted \in Int /\ carried \in Nat
      BY <1>3, <2>1 DEF Last
    <2>8. annual \in Nat /\ 0 <= (deducted + carried) - annual /\ (deducted + carried) - annual <= Cardinality(paid)
      <3> HIDE DEF done, paid
      <3>1. QED
        BY <2>3, <2>4, <2>5, <2>6, Zenon
    <2> HIDE DEF deducted, carried, annual
    <2>9. deducted + carried - annual = (deducted + carried) - annual
      BY <2>7, <2>8
    <2>10. 0 <= deducted + carried - annual /\ deducted + carried - annual <= Cardinality(paid)
      BY <2>8, <2>9
    <2>11. QED
      BY <2>10, Zenon DEF deducted, carried, annual, ReturnDeductsTheSame, Deducted
  <1>6. QED
    BY <1>4, <1>5 DEF months

-----------------------------------------------------------------------------
(* What the months are taxed, and the return.                              *)

\* A rate's share of an amount, but for the roundings to whole zlotys, before
\* and after.
IsShare(tax, taxable, rate) ==
  /\ tax \in Nat
  /\ 10000 * tax >= (taxable - 49) * rate - 499900
  /\ 10000 * tax <= (taxable + 50) * rate + 500000

\* A tax is its rate's share of what is taxed.
LEMMA TaxIsItsShare ==
  ASSUME NEW taxable \in Nat, NEW rate \in Nat
  PROVE  IsShare(Tax(taxable, rate), taxable, rate)
  <1> DEFINE whole == ZlotysIn(taxable)
             product == whole * rate
             tax == Tax(taxable, rate)
  <1>1. whole \in Nat /\ product \in Nat /\ tax = Share(product) /\ tax \in Nat
    BY TaxIs
  <1>2. 100 * whole <= taxable + 50 /\ 100 * whole >= taxable - 49
    BY DEF ZlotysIn
  <1> HIDE DEF whole, product, tax
  <1>3. 10000 * tax >= 100 * product - 499900 /\ 10000 * tax <= 100 * product + 500000
    <2>1. 10000 * Share(product) >= 100 * product - 499900 /\ 10000 * Share(product) <= 100 * product + 500000
      BY <1>1 DEF Share
    <2>2. QED
      BY <1>1, <2>1
  <1>4. \A a, b \in Int : a <= b => a * rate <= b * rate
    OBVIOUS
  <1>5. 100 * whole \in Int /\ taxable + 50 \in Int /\ taxable - 49 \in Int
    BY <1>1
  <1>6. (100 * whole) * rate <= (taxable + 50) * rate /\ (taxable - 49) * rate <= (100 * whole) * rate
    BY <1>2, <1>4, <1>5
  <1>7. (100 * whole) * rate = 100 * product
    BY <1>1 DEF product
  <1>8. 10000 * tax >= (taxable - 49) * rate - 499900 /\ 10000 * tax <= (taxable + 50) * rate + 500000
    <2> DEFINE above == (taxable + 50) * rate
               below == (taxable - 49) * rate
    <2>1. above \in Int /\ below \in Int /\ 100 * product <= above /\ below <= 100 * product
      BY <1>5, <1>6, <1>7
    <2> HIDE DEF above, below
    <2>2. 10000 * tax >= below - 499900 /\ 10000 * tax <= above + 500000
      BY <1>1, <1>3, <2>1
    <2>3. QED
      BY <2>2 DEF above, below
  <1>9. QED
    BY <1>1, <1>8 DEF IsShare, tax

IsTaxedAt(year, rate) == \A taxable \in Nat : IsShare(TaxIn(year, taxable), taxable, rate)

\* A year of one rate, or of none, taxes all it taxes at that rate.
LEMMA OneRateTaxes ==
  ASSUME IsRegister(invoices), NEW year, ~(Cardinality(Rates(year)) > 1)
  PROVE  \E rate : IsRate(rate) /\ IsTaxedAt(year, rate)
  <1>1. CASE Rates(year) = {}
    <2>1. \A taxable \in Nat : TaxIn(year, taxable) = 0
      BY <1>1 DEF TaxIn
    <2>2. \A taxable \in Nat : IsShare(0, taxable, 0)
      BY DEF IsShare
    <2>3. IsTaxedAt(year, 0)
      BY <2>1, <2>2 DEF IsTaxedAt
    <2>4. IsRate(0)
      BY DEF IsRate
    <2>5. QED
      BY <2>3, <2>4
  <1>2. CASE Rates(year) # {}
    <2> DEFINE rate == CHOOSE r \in Rates(year) : TRUE
    <2>1. IsRate(rate)
      BY <1>2, RatesType
    <2>2. \A taxable \in Nat : TaxIn(year, taxable) = Tax(taxable, rate)
      BY <1>2 DEF TaxIn
    <2> HIDE DEF rate
    <2>3. rate \in Nat
      BY <2>1 DEF IsRate
    <2>4. \A taxable \in Nat : IsShare(Tax(taxable, rate), taxable, rate)
      BY <2>3, TaxIsItsShare
    <2>5. IsTaxedAt(year, rate)
      BY <2>2, <2>4, Zenon DEF IsTaxedAt
    <2>6. QED
      BY <2>1, <2>5, Zenon
  <1>3. QED
    BY <1>1, <1>2

\* What a year earned by a month.
EarnedUpTo(year, m) == Amounts({e \in Register(year) : MonthOf(e.on) <= m})

\* What was earned adds up month by month, to all of it by the last.
LEMMA EarningsAddUp ==
  ASSUME IsRegister(invoices), NEW year \in Nat
  PROVE  /\ \A m \in Nat : /\ EarnedUpTo(year, m) \in Int /\ Earned(year, m) \in Int
                           /\ m > 0 => EarnedUpTo(year, m) = EarnedUpTo(year, m - 1) + Earned(year, m)
         /\ \A m \in Nat : (\A e \in Register(year) : MonthOf(e.on) >= m) => EarnedUpTo(year, m) = Earned(year, m)
         /\ EarnedUpTo(year, 12 * year + 11) = Amounts(Register(year))
  <1> DEFINE D == Register(year)
             v == [e \in D |-> e.amount]
             upTo(m) == {e \in D : MonthOf(e.on) <= m}
             in(m) == {e \in D : MonthOf(e.on) = m}
  <1>1. IsFiniteSet(D) /\ \A e \in D : e.amount \in Int /\ MonthOf(e.on) \in Nat /\ YearOf(MonthOf(e.on)) = year
    BY RegisterType, CalendarType DEF IsEntry
  <1>2. ASSUME NEW T \in SUBSET D PROVE Amounts(T) = TotalOver(v, T) /\ Amounts(T) \in Int
    <2>1. IsValued(T, v) /\ \A e \in T : v[e] = e.amount
      BY <1>1, FS_Subset DEF IsValued
    <2> HIDE DEF v
    <2>2. Amounts(T) = TotalOver(v, T)
      BY <2>1, AmountsAreATotal
    <2>3. Amounts(T) \in Int
      BY <1>1, AmountsType
    <2>4. QED
      BY <2>2, <2>3
  <1>3. IsValued(D, v)
    BY <1>1 DEF IsValued
  <1>4. ASSUME NEW A \in SUBSET D, NEW B \in SUBSET D, A \cap B = {}
        PROVE  Amounts(A \cup B) = Amounts(A) + Amounts(B)
    <2> HIDE DEF D, v
    <2>1. TotalOver(v, A \cup B) = TotalOver(v, A) + TotalOver(v, B)
      BY <1>3, <1>4, TotalOfParts
    <2>2. A \cup B \in SUBSET D
      OBVIOUS
    <2>3. QED
      BY <1>2, <2>1, <2>2
  <1>5. \A m : /\ EarnedUpTo(year, m) = Amounts(upTo(m)) /\ Earned(year, m) = Amounts(in(m))
               /\ upTo(m) \in SUBSET D /\ in(m) \in SUBSET D
    BY DEF EarnedUpTo, Earned
  <1>6. ASSUME NEW m \in Nat, m > 0
        PROVE  upTo(m - 1) \cap in(m) = {} /\ upTo(m) = upTo(m - 1) \cup in(m)
    <2>1. \A n \in Nat : /\ n <= m <=> n <= m - 1 \/ n = m
                         /\ ~(n <= m - 1 /\ n = m)
      BY <1>6
    <2> HIDE DEF D
    <2>2. QED
      BY <1>1, <2>1
  <1>7. ASSUME NEW m \in Nat, \A e \in D : MonthOf(e.on) >= m PROVE upTo(m) = in(m)
    <2>1. \A n \in Nat : n >= m => (n <= m <=> n = m)
      OBVIOUS
    <2> HIDE DEF D
    <2>2. QED
      BY <1>1, <1>7, <2>1
  <1>8. upTo(12 * year + 11) = D
    <2>1. \A n \in Nat : YearOf(n) = year => n <= 12 * year + 11
      BY DEF YearOf
    <2> HIDE DEF D
    <2>2. QED
      BY <1>1, <2>1
  <1> HIDE DEF D, v, upTo, in
  <1>9. \A m \in Nat : /\ EarnedUpTo(year, m) \in Int /\ Earned(year, m) \in Int
                       /\ m > 0 => EarnedUpTo(year, m) = EarnedUpTo(year, m - 1) + Earned(year, m)
    <2> SUFFICES ASSUME NEW m \in Nat
                 PROVE  /\ EarnedUpTo(year, m) \in Int /\ Earned(year, m) \in Int
                        /\ m > 0 => EarnedUpTo(year, m) = EarnedUpTo(year, m - 1) + Earned(year, m)
      OBVIOUS
    <2>1. EarnedUpTo(year, m) \in Int /\ Earned(year, m) \in Int
      BY <1>2, <1>5
    <2>2. ASSUME m > 0 PROVE Amounts(upTo(m)) = Amounts(upTo(m - 1)) + Amounts(in(m))
      <3>1. upTo(m - 1) \in SUBSET D /\ in(m) \in SUBSET D
        BY <1>5
      <3>2. Amounts(upTo(m - 1) \cup in(m)) = Amounts(upTo(m - 1)) + Amounts(in(m))
        BY <1>4, <1>6, <2>2, <3>1
      <3>3. QED
        BY <1>6, <2>2, <3>2
    <2>3. QED
      BY <1>5, <2>1, <2>2
  <1>10. \A m \in Nat : (\A e \in D : MonthOf(e.on) >= m) => EarnedUpTo(year, m) = Earned(year, m)
    BY <1>5, <1>7
  <1>11. EarnedUpTo(year, 12 * year + 11) = Amounts(D)
    BY <1>5, <1>8
  <1>12. QED
    BY <1>9, <1>10, <1>11 DEF D

\* The share of an amount is no less than that of a smaller one, but for a
\* zloty, and no more than that of one it exceeds by a little.
LEMMA SharesCompare ==
  ASSUME NEW rate, IsRate(rate), NEW x \in Nat, NEW tax, IsShare(tax, x, rate), NEW y \in Int
  PROVE  /\ tax \in Nat /\ rate \in Nat
         /\ y <= x => y * rate <= 10000 * tax + 1000000
         /\ \A c \in Nat : x <= y + c => 10000 * tax <= y * rate + 9999 * c + 1000000
  <1>1. rate \in Nat /\ rate <= 9999
    BY DEF IsRate
  <1>2. /\ tax \in Nat
        /\ 10000 * tax >= (x - 49) * rate - 499900
        /\ 10000 * tax <= (x + 50) * rate + 500000
    BY DEF IsShare
  <1>3. \A a, b \in Int : a <= b => a * rate <= b * rate
    BY <1>1
  <1>4. \A a, b \in Int : (a + b) * rate = a * rate + b * rate
    BY <1>1
  <1>5. \A a, b \in Int : a * rate \in Int
    BY <1>1
  <1>6. ASSUME y <= x PROVE y * rate <= 10000 * tax + 1000000
    <2>1. y - 49 \in Int /\ x - 49 \in Int /\ y - 49 <= x - 49 /\ y - 49 = y + (-49) /\ -49 \in Int
      BY <1>6
    <2>2. (y - 49) * rate <= (x - 49) * rate /\ (y - 49) * rate = y * rate + (-49) * rate
      BY <1>3, <1>4, <2>1
    <2> DEFINE a == (y - 49) * rate
               b == (x - 49) * rate
               c == y * rate
               d == (-49) * rate
    <2>3. a \in Int /\ b \in Int /\ c \in Int /\ d \in Int /\ d >= -489951
      BY <1>1, <1>5, <2>1
    <2>4. a <= b /\ a = c + d /\ 10000 * tax >= b - 499900
      BY <1>2, <2>2
    <2> HIDE DEF a, b, c, d
    <2>5. c <= 10000 * tax + 1000000
      BY <1>2, <2>3, <2>4
    <2>6. QED
      BY <2>5 DEF c
  <1>7. ASSUME NEW c \in Nat, x <= y + c PROVE 10000 * tax <= y * rate + 9999 * c + 1000000
    <2>1. x + 50 \in Int /\ c + 50 \in Int /\ y + (c + 50) \in Int /\ x + 50 <= y + (c + 50)
      BY <1>7
    <2>2. (x + 50) * rate <= (y + (c + 50)) * rate /\ (y + (c + 50)) * rate = y * rate + (c + 50) * rate
      BY <1>3, <1>4, <2>1
    <2>3. (c + 50) * rate <= 9999 * c + 499950
      <3>1. (c + 50) * rate <= (c + 50) * 9999
        BY <1>1
      <3>2. QED
        BY <3>1, <1>1
    <2> DEFINE a == (x + 50) * rate
               b == (c + 50) * rate
               d == y * rate
               e == (y + (c + 50)) * rate
    <2>4. a \in Int /\ b \in Int /\ d \in Int /\ e \in Int
      BY <1>1, <1>5, <2>1
    <2>5. a <= e /\ e = d + b /\ b <= 9999 * c + 499950 /\ 10000 * tax <= a + 500000
      BY <1>2, <2>2, <2>3
    <2> HIDE DEF a, b, d, e
    <2>6. 10000 * tax <= d + 9999 * c + 1000000
      BY <1>2, <2>4, <2>5
    <2>7. QED
      BY <2>6 DEF d
  <1>8. QED
    BY <1>1, <1>2, <1>6, <1>7

\* Month by month, what was taxed comes to the rate's share of what was earned
\* less what was deducted, but for a zloty a month.
LEMMA TaxesCoverTheShare ==
  ASSUME IsRegister(invoices), NEW year \in Nat, FirstMonth(year) \in Nat, NEW paid, IsPaid(paid),
         NEW last \in MonthsOf(year), FirstMonth(year) <= last,
         NEW rate, IsRate(rate), IsTaxedAt(year, rate),
         \A e \in Register(year) : MonthOf(e.on) >= FirstMonth(year)
  PROVE  LET months == MonthsUntil(last, paid)
             n == Len(months)
             taxes == Taxes(months, 1 .. n)
             left == EarnedUpTo(year, last) - Deducted(months, 1 .. n)
         IN  taxes \in Nat /\ left * rate <= 10000 * taxes + 1000000 * n
  <1> DEFINE first == FirstMonth(year)
             months == MonthsUntil(last, paid)
             n == Len(months)
             done(k) == Deducted(months, 1 .. k)
             taxes(k) == Taxes(months, 1 .. k)
             earned(k) == EarnedUpTo(year, first + k - 1)
             gained(k) == Earned(year, first + k - 1)
             Good(k) == /\ taxes(k) \in Nat
                        /\ (earned(k) - done(k)) * rate <= 10000 * taxes(k) + 1000000 * k
             bad == {k \in 1 .. n : ~Good(k)}
  <1>1. n \in Nat /\ n > 0 /\ first \in Nat /\ first + n - 1 = last
    <2>1. n \in Nat /\ n > 0 /\ n = last - first + 1
      BY FiguresOfAYear
    <2>2. last \in Nat
      BY DEF MonthsOf
    <2> HIDE DEF n
    <2>3. QED
      BY <2>1, <2>2
  <1>2. ASSUME NEW k \in 1 .. n
        PROVE  /\ first + k - 1 \in Nat /\ gained(k) \in Int
               /\ months[k].deducted \in Nat
               /\ months[k].tax \in Nat
               /\ (gained(k) - months[k].deducted) * rate <= 10000 * months[k].tax + 1000000
    <2> DEFINE y == gained(k) - months[k].deducted
               x == MaxOf(y, 0)
    <2>1. /\ first + k - 1 \in Nat /\ gained(k) \in Int /\ months[k].deducted \in Nat
          /\ months[k].tax = TaxIn(year, x)
      BY MonthTakes
    <2>2. y \in Int
      BY <2>1
    <2> HIDE DEF y
    <2>3. x \in Nat /\ y <= x
      BY <2>2 DEF MaxOf
    <2> HIDE DEF x
    <2>4. IsShare(TaxIn(year, x), x, rate)
      BY <2>3 DEF IsTaxedAt
    <2>5. months[k].tax \in Nat /\ y * rate <= 10000 * months[k].tax + 1000000
      BY <2>1, <2>2, <2>3, <2>4, SharesCompare
    <2>6. QED
      BY <2>1, <2>5 DEF y
  <1>3. (\A k \in 1 .. n : months[k].deducted \in Int) /\ (\A k \in 1 .. n : months[k].tax \in Int)
    BY <1>2
  <1>4. /\ done(0) = 0 /\ taxes(0) = 0
        /\ \A k \in 1 .. n : /\ done(k) \in Int /\ done(k - 1) \in Int
                             /\ done(k) = done(k - 1) + months[k].deducted
                             /\ taxes(k) \in Int /\ taxes(k - 1) \in Int
                             /\ taxes(k) = taxes(k - 1) + months[k].tax
    <2> HIDE DEF n, months
    <2>1. QED
      BY <1>1, <1>3, MonthsAddUp
  <1>5. /\ earned(1) = gained(1)
        /\ \A k \in 1 .. n : /\ earned(k) \in Int
                             /\ k # 1 => earned(k - 1) \in Int /\ earned(k) = earned(k - 1) + gained(k)
    <2>1. \A m \in Nat : /\ EarnedUpTo(year, m) \in Int /\ Earned(year, m) \in Int
                         /\ m > 0 => EarnedUpTo(year, m) = EarnedUpTo(year, m - 1) + Earned(year, m)
      BY EarningsAddUp
    <2>2. EarnedUpTo(year, first) = Earned(year, first)
      BY <1>1, EarningsAddUp
    <2>3. first + 1 - 1 = first
      BY <1>1
    <2> HIDE DEF n, first
    <2>4. \A k \in 1 .. n : /\ first + k - 1 \in Nat
                            /\ k # 1 => first + k - 1 > 0 /\ first + (k - 1) - 1 = (first + k - 1) - 1
                                        /\ first + (k - 1) - 1 \in Nat
      BY <1>1
    <2>5. QED
      BY <2>1, <2>2, <2>3, <2>4
  <1>6. rate \in Nat
    BY DEF IsRate
  <1> HIDE DEF n, months, first, done, taxes, earned, gained
  <1>7. ASSUME NEW k \in 1 .. n, k = 1 \/ Good(k - 1) PROVE Good(k)
    <2> DEFINE t == months[k].tax
               d == months[k].deducted
               g == gained(k)
               now == earned(k) - done(k)
               then == earned(k - 1) - done(k - 1)
    <2>1. /\ t \in Nat /\ d \in Nat /\ g \in Int /\ (g - d) * rate <= 10000 * t + 1000000
          /\ done(k) \in Int /\ done(k - 1) \in Int /\ done(k) = done(k - 1) + d
          /\ taxes(k) \in Int /\ taxes(k - 1) \in Int /\ taxes(k) = taxes(k - 1) + t
          /\ earned(k) \in Int
      BY <1>2, <1>4, <1>5
    <2>2. CASE k = 1
      <3>1. taxes(k) = t /\ now = g - d
        BY <1>4, <1>5, <2>1, <2>2
      <3> HIDE DEF now, t, g, d
      <3>2. now * rate <= 10000 * t + 1000000 * k
        BY <2>1, <2>2, <3>1
      <3>3. QED
        BY <2>1, <3>1, <3>2 DEF now
    <2>3. CASE k # 1
      <3>0. k - 1 \in Nat
        OBVIOUS
      <3>1. /\ taxes(k - 1) \in Nat /\ then * rate <= 10000 * taxes(k - 1) + 1000000 * (k - 1)
        BY <1>7, <2>3
      <3>2. earned(k - 1) \in Int /\ earned(k) = earned(k - 1) + g
        BY <1>5, <2>3
      <3>3. now = then + (g - d) /\ then \in Int /\ g - d \in Int
        BY <2>1, <3>2
      <3>4. now * rate = then * rate + (g - d) * rate
        <4> DEFINE more == g - d
        <4> HIDE DEF now, then, more
        <4>1. QED
          BY <1>6, <3>3 DEF more
      <3> DEFINE a == now * rate
                 b == then * rate
                 c == (g - d) * rate
                 e == taxes(k - 1)
      <3>5. a \in Int /\ b \in Int /\ c \in Int /\ a = b + c
            /\ c <= 10000 * t + 1000000 /\ b <= 10000 * e + 1000000 * (k - 1) /\ e \in Nat
            /\ taxes(k) = e + t
        BY <1>6, <2>1, <3>1, <3>3, <3>4
      <3> HIDE DEF a, b, c, e, t
      <3>6. taxes(k) \in Nat /\ a <= 10000 * taxes(k) + 1000000 * k
        BY <2>1, <3>0, <3>5
      <3>7. QED
        BY <3>6 DEF a, now
    <2>4. QED
      BY <2>2, <2>3
  <1>8. bad = {}
    <2>1. SUFFICES ASSUME bad # {} PROVE FALSE
      OBVIOUS
    <2>2. bad \in SUBSET Nat
      OBVIOUS
    <2> HIDE DEF bad
    <2>3. PICK k \in bad : \A l \in bad : k <= l
      BY <2>1, <2>2, LeastNatural
    <2> HIDE DEF Good
    <2>4. k \in 1 .. n /\ ~Good(k)
      BY <2>3 DEF bad
    <2>5. k = 1 \/ Good(k - 1)
      <3>1. k # 1 => k - 1 \in 1 .. n /\ ~(k <= k - 1)
        BY <1>1, <2>4
      <3>2. QED
        BY <2>3, <3>1 DEF bad
    <2>6. QED
      BY <1>7, <2>4, <2>5
  <1>9. Good(n)
    <2>1. n \in 1 .. n
      BY <1>1
    <2>2. QED
      BY <1>8, <2>1
  <1>10. earned(n) = EarnedUpTo(year, last)
    BY <1>1 DEF earned
  <1>11. QED
    BY <1>9, <1>10 DEF n, months, done, taxes

\* Where the months hold all of a year's revenue, their tax prepays its
\* return's but for the roundings.
LEMMA ReturnIsPrepaid ==
  ASSUME IsRegister(invoices), IsPaid(contributed), NEW year \in Nat, FirstMonth(year) \in Nat,
         FirstMonth(year) <= 12 * year + 11
  PROVE  MonthsPrepayTheReturn(year, Months(year))
  <1> DEFINE last == 12 * year + 11
             months == Months(year)
             n == Len(months)
             taxes == Taxes(months, 1 .. n)
             done == Deducted(months, 1 .. n)
             all == Amounts(Register(year))
             annual == AnnualDeductions(year)
             paid == PaidDuring(year)
             c == Cardinality(paid)
             asked == AnnualTax(year)
  <1>1. SUFFICES ASSUME asked # None, \A e \in Register(year) : MonthOf(e.on) >= FirstMonth(year)
                 PROVE  asked <= taxes + (n + 1) * Zloty + c
    BY DEF MonthsPrepayTheReturn, Taxes
  <1>2. last \in MonthsOf(year) /\ months = MonthsUntil(last, contributed)
    BY DEF MonthsOf, Months
  <1>3. ~(Cardinality(Rates(year)) > 1) /\ asked = TaxIn(year, MaxOf(all - annual, 0))
    BY <1>1 DEF AnnualTax, TaxIn, AnnualTaxable
  <1>4. PICK rate : IsRate(rate) /\ IsTaxedAt(year, rate)
    BY <1>3, OneRateTaxes
  <1>5. taxes \in Nat /\ (all - done) * rate <= 10000 * taxes + 1000000 * n
    <2>1. all = EarnedUpTo(year, last)
      BY EarningsAddUp
    <2> DEFINE listed == MonthsUntil(last, contributed)
    <2>2. /\ Taxes(listed, 1 .. Len(listed)) \in Nat
          /\ (EarnedUpTo(year, last) - Deducted(listed, 1 .. Len(listed))) * rate
               <= 10000 * Taxes(listed, 1 .. Len(listed)) + 1000000 * Len(listed)
      <3> HIDE DEF last
      <3>1. last \in MonthsOf(year) /\ FirstMonth(year) <= last
        BY <1>2 DEF last
      <3>2. QED
        BY <1>1, <1>4, <3>1, TaxesCoverTheShare
    <2>3. months = listed
      BY <1>2
    <2> HIDE DEF months, listed, all, last
    <2>4. QED
      BY <2>1, <2>2, <2>3
  <1>6. n \in Nat /\ n > 0 /\ done \in Int /\ all \in Int /\ c \in Nat
    <2>1. n \in Nat /\ n > 0
      BY <1>2, FiguresOfAYear
    <2>2. done \in Int
      <3>1. n \in 1 .. n
        BY <2>1
      <3>2. QED
        BY <1>2, <3>1, PaidIsDeductedOrCarried
    <2>3. all \in Int
      BY EarningsAddUp
    <2>4. c \in Nat
      BY PaidByTheEnd, FS_CardinalityType DEF IsPaid
    <2>5. QED
      BY <2>1, <2>2, <2>3, <2>4
  <1>7. annual \in Nat /\ done <= annual + c
    <2> DEFINE carried == Last(months).carried
    <2>1. annual \in Nat
      <3>1. annual = Socials(paid) + Half(Healths(paid))
        BY DEF AnnualDeductions, Socials, Healths
      <3>2. Socials(paid) \in Nat /\ Healths(paid) \in Nat
        BY PaidByTheEnd, PaidType
      <3>3. Half(Healths(paid)) \in Nat
        BY <3>2, HalfIs
      <3>4. QED
        BY <3>1, <3>2, <3>3
    <2>2. carried \in Nat
      <3>1. n \in 1 .. n
        BY <1>6
      <3>2. months[n].carried \in Nat
        BY <1>2, <3>1, MonthTakes, ZenonT(60)
      <3>3. QED
        BY <3>2 DEF Last
    <2>3. done + carried - annual <= c
      <3>1. ReturnDeductsTheSame(year, months)
        BY DeductedAlike
      <3>2. QED
        BY <3>1, Zenon DEF ReturnDeductsTheSame, Deducted
    <2> HIDE DEF done, carried, annual, c
    <2>4. QED
      BY <1>6, <2>1, <2>2, <2>3
  <1> HIDE DEF months, n, taxes, done, all, annual, paid, c, asked
  <1> DEFINE x == MaxOf(all - annual, 0)
  <1>8. x \in Nat /\ asked = TaxIn(year, x) /\ IsShare(asked, x, rate)
    <2>1. x \in Nat
      BY <1>6, <1>7 DEF MaxOf
    <2> HIDE DEF x
    <2>2. IsShare(TaxIn(year, x), x, rate)
      BY <1>4, <2>1 DEF IsTaxedAt
    <2>3. QED
      BY <1>3, <2>1, <2>2 DEF x
  <1>9. asked \in Nat
    BY <1>8 DEF IsShare
  <1>10. CASE all - annual > 0
    <2> DEFINE left == all - done
               part == left * rate
    <2>1. left \in Int /\ x <= left + c
      BY <1>6, <1>7, <1>10 DEF MaxOf
    <2> HIDE DEF left, x
    <2>2. 10000 * asked <= part + 9999 * c + 1000000 /\ rate \in Nat
      BY <1>4, <1>6, <1>8, <2>1, SharesCompare
    <2>3. part \in Int /\ part <= 10000 * taxes + 1000000 * n
      BY <1>5, <2>1, <2>2 DEF left
    <2> HIDE DEF part
    <2>4. 10000 * asked <= 10000 * taxes + 1000000 * n + 10000 * c + 1000000
      BY <1>5, <1>6, <1>9, <2>2, <2>3
    <2>5. QED
      BY <1>5, <1>6, <1>9, <2>4 DEF Zloty
  <1>11. CASE ~(all - annual > 0)
    <2>1. x <= 0 + 0
      BY <1>11 DEF MaxOf
    <2> HIDE DEF x
    <2>2. 10000 * asked <= 0 * rate + 9999 * 0 + 1000000 /\ rate \in Nat
      BY <1>4, <1>8, <2>1, SharesCompare
    <2>3. 10000 * asked <= 1000000
      BY <2>2
    <2>4. QED
      BY <1>5, <1>6, <1>9, <2>3 DEF Zloty
  <1>12. QED
    BY <1>10, <1>11

\* In every state, in whichever order and on whichever days contributions were
\* recorded: every grosz of what was paid by a month was deducted by it or is
\* carried on from it, the return deducts the same but for its rounding, and
\* never asks for more than the months prepaid but for theirs.
THEOREM PaymentsAreDeductedOnce == Spec => []DeductedOnce
  <1>1. ASSUME CurrentInv, RowsInv, NEW year \in Insured
        PROVE  /\ MonthsDeductOnce(year, Months(year))
               /\ ReturnDeductsTheSame(year, Months(year))
               /\ MonthsPrepayTheReturn(year, Months(year))
    <2>1. year \in Years /\ year \in Nat /\ FirstMonth(year) # None
      BY DatesAssumption, Zenon DEF Insured
    <2>2. FirstMonth(year) \in Nat /\ FirstMonth(year) < 12 * year + 12
      BY <1>1, <2>1, FirstMonthType
    <2>3. FirstMonth(year) <= 12 * year + 11
      BY <2>1, <2>2
    <2>4. IsRegister(invoices) /\ IsPaid(contributed)
      BY <1>1, RowsAreAmounts
    <2>5. QED
      BY <2>1, <2>2, <2>3, <2>4, DeductedAlike, ReturnIsPrepaid
  <1>2. CurrentInv /\ RowsInv => DeductedOnce
    BY <1>1 DEF DeductedOnce
  <1>3. QED
    BY <1>2, RowsHold, PTL

-----------------------------------------------------------------------------
(* What one more payment changes.                                          *)

\* What takes all it can of more takes no less, and leaves no less.
LEMMA TakesNoLess ==
  ASSUME NEW a \in Nat, NEW b \in Nat, b <= a, NEW most \in Nat
  PROVE  MinOf(b, most) <= MinOf(a, most) /\ b - MinOf(b, most) <= a - MinOf(a, most)
  BY DEF MinOf

\* A smaller amount is taxed no more.
LEMMA TaxRises ==
  ASSUME IsRegister(invoices), NEW year, NEW x \in Nat, NEW y \in Nat, x <= y
  PROVE  TaxIn(year, x) # None => TaxIn(year, x) <= TaxIn(year, y)
  <1> SUFFICES ASSUME TaxIn(year, x) # None PROVE TaxIn(year, x) <= TaxIn(year, y)
    OBVIOUS
  <1>1. CASE Rates(year) = {}
    <2>1. TaxIn(year, x) = 0 /\ TaxIn(year, y) = 0
      BY <1>1, FS_EmptySet DEF TaxIn
    <2>2. QED
      BY <2>1
  <1>2. CASE Rates(year) # {}
    <2> DEFINE rate == CHOOSE r \in Rates(year) : TRUE
    <2>1. rate \in Nat
      BY <1>2, RatesType
    <2>2. TaxIn(year, x) = Tax(x, rate) /\ TaxIn(year, y) = Tax(y, rate)
      BY <1>2 DEF TaxIn
    <2> HIDE DEF rate
    <2> DEFINE a == ZlotysIn(x)
               b == ZlotysIn(y)
    <2>3. /\ a \in Nat /\ b \in Nat
          /\ Tax(x, rate) = Share(a * rate) /\ Tax(y, rate) = Share(b * rate)
      BY <2>1, TaxIs
    <2>4. a <= b
      BY DEF ZlotysIn
    <2> HIDE DEF a, b
    <2> DEFINE p == a * rate
               q == b * rate
    <2>5. p \in Nat /\ q \in Nat /\ p <= q
      BY <2>1, <2>3, <2>4
    <2>6. TaxIn(year, x) = Share(p) /\ TaxIn(year, y) = Share(q)
      BY <2>2, <2>3
    <2> HIDE DEF p, q
    <2>7. Share(p) <= Share(q)
      BY <2>5 DEF Share
    <2>8. QED
      BY <2>6, <2>7
  <1>3. QED
    BY <1>1, <1>2

\* A lower revenue, from a lower band, is in one no higher.
LEMMA BandRises ==
  ASSUME NEW year, NEW c \in Int, NEW d \in Int, c <= d, NEW a \in 0 .. 3, NEW b \in 0 .. 3, a <= b
  PROVE  Band(year, c, a) \in 0 .. 3 /\ Band(year, d, b) \in 0 .. 3 /\ Band(year, c, a) <= Band(year, d, b)
  <1>1. BandAt(c) \in 1 .. 3 /\ BandAt(d) \in 1 .. 3 /\ BandAt(c) <= BandAt(d)
    BY DEF BandAt, FirstThreshold, SecondThreshold, Zloty
  <1>2. QED
    BY <1>1 DEF Band, MaxOf

\* A payment counts once: from its own month, or from the first.
LEMMA OneLessCounts ==
  ASSUME NEW year, FirstMonth(year) \in Nat, NEW paid, IsPaid(paid), NEW p \in paid, NEW m \in Nat
  PROVE  LET less == paid \ {p}
         IN  /\ IsPaid(less)
             /\ Deductibles(Counting(year, less, m)) <= Deductibles(Counting(year, paid, m))
             /\ Socials(Counting(year, less, m)) <= Socials(Counting(year, paid, m))
             /\ FirstMonth(year) <= m /\ m < MonthOf(p.on) => Counting(year, less, m) = Counting(year, paid, m)
  <1> DEFINE less == paid \ {p}
             with == Counting(year, paid, m)
             without == Counting(year, less, m)
  <1>1. IsPaid(less)
    BY FS_Subset DEF IsPaid
  <1>2. with \in SUBSET paid /\ without = with \ {p}
    BY DEF Counting, AvailableIn
  <1>3. FirstMonth(year) <= m /\ m < MonthOf(p.on) => without = with
    <2> SUFFICES ASSUME FirstMonth(year) <= m, m < MonthOf(p.on) PROVE p \notin with
      BY <1>2
    <2>1. MonthOf(p.on) \in Nat
      BY CalendarType DEF IsPaid
    <2>2. MaxOf(MonthOf(p.on), FirstMonth(year)) # m
      BY <2>1 DEF MaxOf
    <2>3. QED
      BY <2>2 DEF Counting, AvailableIn
  <1> HIDE DEF with, without
  <1>4. Deductibles(without) <= Deductibles(with) /\ Socials(without) <= Socials(with)
    <2>0. Deductibles(with) \in Nat /\ Socials(with) \in Nat
      BY <1>2, PaidType
    <2>1. CASE p \notin with
      <3>1. without = with
        BY <1>2, <2>1
      <3>2. QED
        BY <2>0, <3>1
    <2>2. CASE p \in with
      <3>1. without \in SUBSET paid
        BY <1>2
      <3>2. Deductibles(without) \in Nat /\ Socials(without) \in Nat
        BY <3>1, PaidType
      <3>3. Socials(with) = p.social + Socials(without) /\ Deductibles(with) = DeductibleOf(p) + Deductibles(without)
        BY <1>2, <2>2, PaymentsAddUp
      <3>4. p.social \in Nat /\ p.health \in Nat
        BY DEF IsPaid
      <3>5. DeductibleOf(p) \in Nat
        <4>1. Half(p.health) \in Nat
          BY <3>4, HalfIs
        <4>2. QED
          BY <3>4, <4>1 DEF DeductibleOf
      <3>6. QED
        BY <3>2, <3>3, <3>4, <3>5
    <2>3. QED
      BY <2>1, <2>2
  <1>5. QED
    BY <1>1, <1>3, <1>4 DEF with, without

\* Two accounts of a year: the second has had less to deduct, and it may not
\* be the lower one, in revenue or in its band.
IsLower(before, other) ==
  /\ before.carried \in Nat /\ other.carried \in Nat /\ other.carried <= before.carried
  /\ before.cumulative \in Int /\ other.cumulative \in Int /\ before.cumulative <= other.cumulative
  /\ before.band \in 0 .. 3 /\ other.band \in 0 .. 3 /\ before.band <= other.band

\* With one payment more, a month comes out no higher.
LEMMA OneMonthLower ==
  ASSUME IsRegister(invoices), NEW year \in Nat, FirstMonth(year) \in Nat,
         NEW paid, IsPaid(paid), NEW p \in paid, NEW m \in MonthsOf(year),
         NEW before, NEW other, IsLower(before, other)
  PROVE  LET with == After(year, paid, before, m)
             without == After(year, paid \ {p}, other, m)
         IN  /\ IsLower(with, without)
             /\ with.tax # None => with.tax <= without.tax
             /\ FirstMonth(year) <= m /\ m < MonthOf(p.on) /\ before = other => with = without
  <1> DEFINE less == paid \ {p}
             with == After(year, paid, before, m)
             without == After(year, less, other, m)
             e == Earned(year, m)
             most == MaxOf(e, 0)
             dw == Deductibles(Counting(year, paid, m))
             do == Deductibles(Counting(year, less, m))
             sw == Socials(Counting(year, paid, m))
             so == Socials(Counting(year, less, m))
             aw == before.carried + dw
             ao == other.carried + do
  <1>1. m \in Nat /\ YearOf(m) = year
    BY MonthOfItsYear
  <1>2. /\ IsPaid(less) /\ do <= dw /\ so <= sw
        /\ FirstMonth(year) <= m /\ m < MonthOf(p.on) => Counting(year, less, m) = Counting(year, paid, m)
    BY <1>1, OneLessCounts
  <1>3. /\ before.carried \in Nat /\ other.carried \in Nat /\ other.carried <= before.carried
        /\ before.cumulative \in Int /\ other.cumulative \in Int /\ before.cumulative <= other.cumulative
        /\ before.band \in 0 .. 3 /\ other.band \in 0 .. 3 /\ before.band <= other.band
    BY DEF IsLower
  <1>4. /\ e \in Int /\ dw \in Nat /\ sw \in Nat
        /\ with.deducted = MinOf(aw, most) /\ with.deducted \in Nat
        /\ with.carried = aw - with.deducted /\ with.carried \in Nat
        /\ with.cumulative = before.cumulative + e - sw /\ with.cumulative \in Int
        /\ with.tax = TaxIn(year, MaxOf(e - with.deducted, 0))
        /\ with.band = Band(year, with.cumulative, before.band)
    <2>1. with.band = Band(year, with.cumulative, before.band)
      BY <1>1, MonthIs
    <2> HIDE DEF less
    <2>2. QED
      BY <1>3, <2>1, AfterIs
  <1>5. /\ do \in Nat /\ so \in Nat
        /\ without.deducted = MinOf(ao, most) /\ without.deducted \in Nat
        /\ without.carried = ao - without.deducted /\ without.carried \in Nat
        /\ without.cumulative = other.cumulative + e - so /\ without.cumulative \in Int
        /\ without.tax = TaxIn(year, MaxOf(e - without.deducted, 0))
        /\ without.band = Band(year, without.cumulative, other.band)
    <2>1. without.band = Band(year, without.cumulative, other.band)
      BY <1>1, MonthIs
    <2> HIDE DEF less
    <2>2. QED
      BY <1>2, <1>3, <2>1, AfterIs
  <1>6. FirstMonth(year) <= m /\ m < MonthOf(p.on) /\ before = other => with = without
    BY <1>2 DEF After, Counting
  <1> HIDE DEF with, without, e, dw, do, sw, so, less
  <1>7. aw \in Nat /\ ao \in Nat /\ ao <= aw /\ most \in Nat
    BY <1>2, <1>3, <1>4, <1>5 DEF MaxOf
  <1> HIDE DEF aw, ao, most
  <1>8. without.deducted <= with.deducted /\ without.carried <= with.carried
    BY <1>4, <1>5, <1>7, TakesNoLess
  <1>9. with.cumulative <= without.cumulative
    BY <1>2, <1>3, <1>4, <1>5
  <1>10. with.band \in 0 .. 3 /\ without.band \in 0 .. 3 /\ with.band <= without.band
    BY <1>3, <1>4, <1>5, <1>9, BandRises
  <1>11. with.tax # None => with.tax <= without.tax
    <2> DEFINE x == MaxOf(e - with.deducted, 0)
               y == MaxOf(e - without.deducted, 0)
    <2>1. x \in Nat /\ y \in Nat /\ x <= y
      BY <1>4, <1>5, <1>8 DEF MaxOf
    <2> HIDE DEF x, y
    <2>2. TaxIn(year, x) # None => TaxIn(year, x) <= TaxIn(year, y)
      BY <2>1, TaxRises
    <2>3. QED
      BY <1>4, <1>5, <2>2 DEF x, y
  <1>12. IsLower(with, without)
    BY <1>4, <1>5, <1>8, <1>9, <1>10 DEF IsLower
  <1>13. QED
    BY <1>6, <1>11, <1>12 DEF with, without, less

\* Of two accounts of a year, the first comes out no higher, and the same
\* before a month.
IsNoHigher(with, without, month) ==
  \A k \in 1 .. Len(with) :
    /\ with[k].tax # None => with[k].tax <= without[k].tax
    /\ with[k].band <= without[k].band
    /\ with[k].month < month => with[k] = without[k]

\* With one payment more, every month of a year comes out no higher, and those
\* before the payment as without it.
LEMMA OnePaymentLower ==
  ASSUME IsRegister(invoices), NEW year \in Nat, FirstMonth(year) \in Nat,
         NEW paid, IsPaid(paid), NEW p \in paid,
         NEW last \in MonthsOf(year), FirstMonth(year) <= last
  PROVE  IsNoHigher(MonthsUntil(last, paid), MonthsUntil(last, paid \ {p}), MonthOf(p.on))
  <1> DEFINE less == paid \ {p}
             first == FirstMonth(year)
             with == MonthsUntil(last, paid)
             without == MonthsUntil(last, less)
             n == Len(with)
             Same(k) == first + k - 1 < MonthOf(p.on) => with[k] = without[k]
             Good(k) == IsLower(with[k], without[k]) /\ Same(k)
             Lower(k) == with[k].tax # None => with[k].tax <= without[k].tax
             bad == {k \in 1 .. n : ~Good(k)}
  <1>1. IsPaid(less) /\ MonthOf(p.on) \in Nat
    BY OneLessCounts, CalendarType DEF IsPaid
  <1>2. n \in Nat /\ n > 0 /\ n = last - first + 1 /\ first \in Nat /\ Len(without) = n
    <2>1. n \in Nat /\ n > 0 /\ n = last - first + 1
      BY FiguresOfAYear
    <2>2. Len(without) = last - first + 1
      <3> HIDE DEF less
      <3>1. QED
        BY <1>1, FiguresOfAYear
    <2>3. QED
      BY <2>1, <2>2
  <1>3. ASSUME NEW k \in 1 .. n
        PROVE  /\ with[k] = After(year, paid, Before(with, k), first + k - 1)
               /\ without[k] = After(year, less, Before(without, k), first + k - 1)
               /\ first + k - 1 \in MonthsOf(year) /\ with[k].month = first + k - 1
    <2>1. with[k] = After(year, paid, Before(with, k), first + k - 1)
      BY FiguresOfAYear
    <2>2. k \in 1 .. Len(without)
      BY <1>2
    <2>3. without[k] = After(year, less, Before(without, k), first + k - 1)
      <3> HIDE DEF less
      <3>1. QED
        BY <1>1, <2>2, FiguresOfAYear
    <2>4. with[k].month \in MonthsOf(year) /\ with[k].month = first + k - 1
      BY MonthsOfAYear
    <2>5. QED
      BY <2>1, <2>3, <2>4
  <1> HIDE DEF with, without, n, first
  <1>4. ASSUME NEW k \in 1 .. n, k = 1 \/ Good(k - 1) PROVE Good(k) /\ Lower(k)
    <2> DEFINE before == Before(with, k)
               other == Before(without, k)
               m == first + k - 1
    <2>1. IsLower(before, other) /\ (m < MonthOf(p.on) => before = other)
      <3>1. CASE k = 1
        <4>1. before = Opening /\ other = Opening
          BY <3>1 DEF Before
        <4>2. IsLower(Opening, Opening)
          BY DEF IsLower, Opening
        <4>3. QED
          BY <4>1, <4>2
      <3>2. CASE k # 1
        <4>1. before = with[k - 1] /\ other = without[k - 1]
          BY <3>2 DEF Before
        <4>2. m < MonthOf(p.on) => first + (k - 1) - 1 < MonthOf(p.on)
          BY <1>1, <1>2
        <4>3. QED
          BY <1>4, <3>2, <4>1, <4>2
      <3>3. QED
        BY <3>1, <3>2
    <2>2. m \in MonthsOf(year) /\ first <= m
      BY <1>2, <1>3
    <2>3. with[k] = After(year, paid, before, m) /\ without[k] = After(year, less, other, m)
      BY <1>3
    <2> HIDE DEF before, other, m
    <2> DEFINE w == After(year, paid, before, m)
               o == After(year, less, other, m)
    <2>4. /\ IsLower(w, o)
          /\ w.tax # None => w.tax <= o.tax
          /\ first <= m /\ m < MonthOf(p.on) /\ before = other => w = o
      BY <2>1, <2>2, OneMonthLower DEF first
    <2>5. with[k] = w /\ without[k] = o
      BY <2>3
    <2> HIDE DEF w, o
    <2>6. IsLower(with[k], without[k]) /\ Lower(k)
      BY <2>4, <2>5
    <2>7. Same(k)
      BY <2>1, <2>2, <2>4, <2>5 DEF m
    <2>8. QED
      BY <2>6, <2>7
  <1> HIDE DEF Good, Lower
  <1>5. bad = {}
    <2>1. SUFFICES ASSUME bad # {} PROVE FALSE
      OBVIOUS
    <2>2. bad \in SUBSET Nat
      OBVIOUS
    <2> HIDE DEF bad
    <2>3. PICK k \in bad : \A l \in bad : k <= l
      BY <2>1, <2>2, LeastNatural
    <2>4. k \in 1 .. n /\ ~Good(k)
      BY <2>3 DEF bad
    <2>5. k = 1 \/ Good(k - 1)
      <3>1. k # 1 => k - 1 \in 1 .. n /\ ~(k <= k - 1)
        BY <1>2, <2>4
      <3>2. QED
        BY <2>3, <3>1 DEF bad
    <2>6. QED
      BY <1>4, <2>4, <2>5
  <1>6. \A k \in 1 .. n : Good(k) /\ Lower(k)
    <2> SUFFICES ASSUME NEW k \in 1 .. n PROVE Good(k) /\ Lower(k)
      OBVIOUS
    <2>1. k # 1 => k - 1 \in 1 .. n
      BY <1>2
    <2>2. QED
      BY <1>4, <1>5, <2>1
  <1>7. ASSUME NEW k \in 1 .. n
        PROVE  /\ with[k].tax # None => with[k].tax <= without[k].tax
               /\ with[k].band <= without[k].band
               /\ with[k].month < MonthOf(p.on) => with[k] = without[k]
    <2>1. IsLower(with[k], without[k]) /\ Same(k) /\ Lower(k)
      BY <1>6 DEF Good
    <2>2. with[k].band <= without[k].band
      BY <2>1 DEF IsLower
    <2>3. QED
      BY <1>3, <2>1, <2>2 DEF Lower
  <1>8. QED
    BY <1>7 DEF IsNoHigher, with, without, n, less

\* In every state, whatever else was recorded: a contribution more never
\* raises what a month owes, in ryczalt or in health, and leaves the months
\* before its payment as they were.
THEOREM PaymentsOnlyLower == Spec => []ContributionsOnlyLower
  <1>1. ASSUME CurrentInv, RowsInv, NEW year \in Insured, NEW p \in PaidDuring(year)
        PROVE  IsNoHigher(Months(year), MonthsUntil(12 * year + 11, contributed \ {p}), MonthOf(p.on))
    <2>1. year \in Years /\ year \in Nat /\ FirstMonth(year) # None
      BY DatesAssumption, Zenon DEF Insured
    <2>2. FirstMonth(year) \in Nat /\ FirstMonth(year) < 12 * year + 12
      BY <1>1, <2>1, FirstMonthType
    <2>3. FirstMonth(year) <= 12 * year + 11 /\ 12 * year + 11 \in MonthsOf(year)
      BY <2>1, <2>2 DEF MonthsOf
    <2>4. IsRegister(invoices) /\ IsPaid(contributed)
      BY <1>1, RowsAreAmounts
    <2>5. p \in contributed
      BY DEF PaidDuring
    <2> DEFINE last == 12 * year + 11
    <2>6. last \in MonthsOf(year) /\ FirstMonth(year) <= last
      BY <2>3
    <2>7. Months(year) = MonthsUntil(last, contributed)
      BY DEF Months
    <2> HIDE DEF last
    <2>8. IsNoHigher(MonthsUntil(last, contributed), MonthsUntil(last, contributed \ {p}), MonthOf(p.on))
      BY <2>1, <2>2, <2>4, <2>5, <2>6, OnePaymentLower
    <2>9. QED
      BY <2>7, <2>8 DEF last
  <1>2. CurrentInv /\ RowsInv => ContributionsOnlyLower
    BY <1>1 DEF ContributionsOnlyLower, IsNoHigher
  <1>3. QED
    BY <1>2, RowsHold, PTL
=============================================================================
