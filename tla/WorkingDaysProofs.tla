-------------------------- MODULE WorkingDaysProofs --------------------------
(* What the calculations of the calendar come to, whatever the term and    *)
(* the days off: the months cover every date once, an export lists every   *)
(* day off once, the shares of a year's cap add up, and so do weekdays,    *)
(* hours off and days worked.                                              *)
EXTENDS WorkingDays, LeastNumbers, SequenceTheorems

-----------------------------------------------------------------------------
(* The calendar.                                                           *)

\* A month is a year's, from its first to its twelfth.
LEMMA MonthIsOfAYear ==
  ASSUME NEW m \in Months
  PROVE  /\ YearOf(m) \in Years /\ MonthInYear(m) \in 1..12
         /\ m = 12 * YearOf(m) + MonthInYear(m) - 1
  BY CalendarAssumption DEF Months, Years, YearOf, MonthInYear

\* A month has its days.
LEMMA MonthLengthType ==
  ASSUME NEW m \in Months
  PROVE  MonthLength(m) \in 28..31
  BY DEF MonthLength

\* The leap years before a year, and before the next.
Leaps(year) == Cardinality({y \in FirstYear..year - 1 : IsLeap(y)})

\* One year more counts one leap year more if it is one.
LEMMA LeapsCount ==
  ASSUME NEW year \in Years
  PROVE  /\ Leaps(year) \in Nat
         /\ Leaps(year + 1) = Leaps(year) + IF IsLeap(year) THEN 1 ELSE 0
  <1> DEFINE L(n) == {y \in FirstYear..n - 1 : IsLeap(y)}
  <1>0. FirstYear \in Int /\ year \in Int /\ FirstYear <= year
    BY CalendarAssumption DEF Years
  <1>1. IsFiniteSet(FirstYear..year - 1)
    BY <1>0, FS_Interval
  <1>2. IsFiniteSet(L(year))
    BY <1>1, FS_Subset
  <1>3. CASE IsLeap(year)
    <2>1. L(year + 1) = L(year) \cup {year} /\ year \notin L(year)
      BY <1>0, <1>3
    <2> HIDE DEF L
    <2>2. Cardinality(L(year + 1)) = Cardinality(L(year)) + 1
      BY <1>2, <2>1, FS_AddElement
    <2>3. QED
      BY <1>2, <1>3, <2>2, FS_CardinalityType DEF Leaps, L
  <1>4. CASE ~IsLeap(year)
    <2>1. L(year + 1) = L(year)
      BY <1>0, <1>4
    <2>2. Leaps(year + 1) = Leaps(year)
      BY <2>1 DEF Leaps
    <2>3. Leaps(year) \in Nat
      BY <1>2, FS_CardinalityType DEF Leaps
    <2>4. QED
      BY <1>4, <2>2, <2>3
  <1>5. QED
    BY <1>3, <1>4

\* The first day of a year's month.
FirstDay(year, month) ==
  365 * (year - FirstYear) + Leaps(year) + DaysBefore[month]
    + (IF IsLeap(year) /\ month > 2 THEN 1 ELSE 0)

\* That is the day a month starts on.
LEMMA StartIs ==
  ASSUME NEW m \in Months
  PROVE  StartOf(m) = FirstDay(YearOf(m), MonthInYear(m))
  BY DEF StartOf, Starts, Leaps, FirstDay

\* What a month starts on is a number, and so is what it ends on.
LEMMA StartType ==
  ASSUME NEW m \in Months
  PROVE  StartOf(m) \in Nat /\ EndOf(m) \in Nat /\ StartOf(m) <= EndOf(m)
  <1>1. DaysBefore[MonthInYear(m)] \in Nat
    BY MonthIsOfAYear DEF DaysBefore
  <1>2. YearOf(m) - FirstYear \in Nat /\ Leaps(YearOf(m)) \in Nat
    BY MonthIsOfAYear, LeapsCount, CalendarAssumption DEF Years
  <1>3. StartOf(m) \in Nat
    BY <1>1, <1>2, StartIs DEF FirstDay
  <1>4. QED
    BY <1>3, MonthLengthType DEF EndOf

\* Every month starts the day after the one before it ends.
LEMMA MonthsFollow ==
  ASSUME NEW m \in Months, m + 1 \in Months
  PROVE  StartOf(m + 1) = EndOf(m) + 1
  <1> DEFINE y == YearOf(m)
             k == MonthInYear(m)
             leap == IF IsLeap(y) THEN 1 ELSE 0
  <1>1. y \in Years /\ k \in 1..12 /\ m = 12 * y + k - 1
    BY MonthIsOfAYear
  <1>2. y \in Int /\ y - FirstYear \in Nat
    BY <1>1, CalendarAssumption DEF Years
  <1>3. Leaps(y) \in Nat /\ Leaps(y + 1) = Leaps(y) + leap
    BY <1>1, LeapsCount
  <1>4. CASE k \in 1..11
    <2>1. YearOf(m + 1) = y /\ MonthInYear(m + 1) = k + 1
      <3> HIDE DEF y, k
      <3>1. \A i \in 1..11 : (12 * y + i) \div 12 = y /\ (12 * y + i) % 12 = i
        BY <1>2
      <3>2. m + 1 = 12 * y + k
        BY <1>1, <1>2, <1>4
      <3>3. (m + 1) \div 12 = y /\ (m + 1) % 12 = k
        BY <1>4, <3>1, <3>2
      <3>4. QED
        BY <3>3 DEF YearOf, MonthInYear
    <2>2. DaysBefore[k + 1] + (IF IsLeap(y) /\ k + 1 > 2 THEN 1 ELSE 0)
            = DaysBefore[k] + (IF IsLeap(y) /\ k > 2 THEN 1 ELSE 0) + MonthLength(m)
      <3>1. MonthLength(m) = CASE k = 2 -> IF IsLeap(y) THEN 29 ELSE 28
                               [] k \in {4, 6, 9, 11} -> 30
                               [] OTHER -> 31
        BY DEF MonthLength
      <3> HIDE DEF y, k
      <3>2. QED
        BY <1>4, <3>1 DEF DaysBefore
    <2>3. DaysBefore[k] \in Nat /\ DaysBefore[k + 1] \in Nat /\ MonthLength(m) \in Nat
      <3> HIDE DEF k
      <3>1. QED
        BY <1>4, MonthLengthType DEF DaysBefore
    <2>4. StartOf(m) = FirstDay(y, k) /\ StartOf(m + 1) = FirstDay(y, k + 1)
      BY <2>1, StartIs
    <2> HIDE DEF y, k
    <2>5. QED
      BY <1>2, <1>3, <2>2, <2>3, <2>4 DEF EndOf, FirstDay
  <1>5. CASE k = 12
    <2>1. YearOf(m + 1) = y + 1 /\ MonthInYear(m + 1) = 1
      <3> HIDE DEF y, k
      <3>1. (12 * y + 12) \div 12 = y + 1 /\ (12 * y + 12) % 12 = 0
        BY <1>2
      <3>2. m + 1 = 12 * y + 12
        BY <1>1, <1>2, <1>5
      <3>3. (m + 1) \div 12 = y + 1 /\ (m + 1) % 12 = 0
        BY <3>1, <3>2
      <3>4. QED
        BY <3>3 DEF YearOf, MonthInYear
    <2>2. MonthLength(m) = 31
      BY <1>5 DEF MonthLength
    <2>3. StartOf(m) = FirstDay(y, 12) /\ StartOf(m + 1) = FirstDay(y + 1, 1)
      BY <1>5, <2>1, StartIs
    <2>4. DaysBefore[12] = 334 /\ DaysBefore[1] = 0
      BY DEF DaysBefore
    <2> HIDE DEF y, k
    <2>5. Leaps(y + 1) \in Nat
      BY <1>3
    <2>6. QED
      BY <1>2, <1>3, <2>2, <2>3, <2>4, <2>5, CalendarAssumption DEF EndOf, FirstDay
  <1>6. QED
    BY <1>1, <1>4, <1>5

\* The first month starts on the first date.
LEMMA FirstStart == January(FirstYear) \in Months /\ StartOf(January(FirstYear)) = 0
  <1> DEFINE m == January(FirstYear)
  <1>1. m \in Months /\ YearOf(m) = FirstYear /\ MonthInYear(m) = 1
    BY CalendarAssumption DEF January, Months, YearOf, MonthInYear
  <1>2. {y \in FirstYear..FirstYear - 1 : IsLeap(y)} = {}
    BY CalendarAssumption
  <1>3. Leaps(FirstYear) = 0
    BY <1>2, FS_EmptySet DEF Leaps
  <1>4. StartOf(m) = FirstDay(FirstYear, 1)
    <2> HIDE DEF m
    <2>1. QED
      BY <1>1, StartIs
  <1>5. QED
    BY <1>1, <1>3, <1>4, CalendarAssumption DEF DaysBefore, FirstDay

\* Every date is in a month, and so in one of the years there are.
LEMMA DateIsInItsMonth ==
  ASSUME NEW d \in Dates
  PROVE  /\ MonthOf(d) \in Months
         /\ StartOf(MonthOf(d)) <= d /\ d <= EndOf(MonthOf(d))
         /\ YearOf(MonthOf(d)) \in Years
  <1> DEFINE T == {m \in Months : d <= EndOf(m)}
  <1>1. December(LastYear) \in Months
    BY CalendarAssumption DEF December, Months
  <1>2. d \in Nat /\ d <= EndOf(December(LastYear))
    BY <1>1, StartType DEF Dates
  <1>3. Months \subseteq Nat
    BY CalendarAssumption DEF Months
  <1>4. T # {} /\ T \in SUBSET Nat
    BY <1>1, <1>2, <1>3
  <1>5. PICK m \in T : \A l \in T : m <= l
    BY <1>4, LeastNatural
  <1>6. StartOf(m) <= d
    <2>1. CASE m = January(FirstYear)
      BY <1>2, <2>1, FirstStart
    <2>2. CASE m # January(FirstYear)
      <3>1. m - 1 \in Months /\ m = m - 1 + 1 /\ ~(m <= m - 1)
        BY <2>2, CalendarAssumption DEF Months, January
      <3>2. m - 1 \notin T
        BY <1>5, <3>1
      <3>3. EndOf(m - 1) < d
        BY <1>2, <3>1, <3>2, StartType
      <3>4. StartOf(m) = EndOf(m - 1) + 1
        <4>1. \A l \in Months : l + 1 \in Months => StartOf(l + 1) = EndOf(l) + 1
          BY MonthsFollow
        <4>2. m - 1 + 1 \in Months
          BY <3>1
        <4>3. StartOf(m - 1 + 1) = EndOf(m - 1) + 1
          BY <3>1, <4>1, <4>2
        <4>4. QED
          BY <3>1, <4>3
      <3>5. QED
        BY <1>2, <3>1, <3>3, <3>4, StartType
    <2>3. QED
      BY <2>1, <2>2
  <1>7. m \in Months /\ StartOf(m) <= d /\ d <= EndOf(m)
    BY <1>5, <1>6
  <1>8. MonthOf(d) = CHOOSE l \in Months : StartOf(l) <= d /\ d <= EndOf(l)
    BY DEF MonthOf, MonthsOf
  <1>9. MonthOf(d) \in Months /\ StartOf(MonthOf(d)) <= d /\ d <= EndOf(MonthOf(d))
    BY <1>7, <1>8
  <1>10. QED
    BY <1>9, MonthIsOfAYear

-----------------------------------------------------------------------------
(* What is exported can be imported.                                       *)

\* How many of a set come up to a number.
Rank(D, d) == Cardinality({e \in D : e <= d})

\* Numbers of a finite set are ranked from one to how many there are, each
\* with a rank of its own.
LEMMA RanksAreDistinct ==
  ASSUME NEW D \in SUBSET Nat, IsFiniteSet(D)
  PROVE  /\ Cardinality(D) \in Nat
         /\ \A d \in D : Rank(D, d) \in 1..Cardinality(D)
         /\ \A d, e \in D : Rank(D, d) = Rank(D, e) => d = e
         /\ \A i \in 1..Cardinality(D) : \E d \in D : Rank(D, d) = i
  <1> DEFINE n == Cardinality(D)
             Upto(d) == {e \in D : e <= d}
  <1>1. n \in Nat
    BY FS_CardinalityType
  <1>2. ASSUME NEW d \in D PROVE /\ IsFiniteSet(Upto(d)) /\ Rank(D, d) = Cardinality(Upto(d))
                                 /\ Rank(D, d) \in 1..n
    <2>1. Upto(d) \in SUBSET D /\ Upto(d) # {}
      <3>1. d <= d
        OBVIOUS
      <3>2. QED
        BY <3>1
    <2> HIDE DEF Upto
    <2>2. IsFiniteSet(Upto(d)) /\ Cardinality(Upto(d)) <= n
      BY <2>1, FS_Subset
    <2>3. Cardinality(Upto(d)) # 0 /\ Cardinality(Upto(d)) \in Nat
      BY <2>1, <2>2, FS_EmptySet, FS_CardinalityType
    <2>4. Rank(D, d) = Cardinality(Upto(d))
      BY DEF Rank, Upto
    <2> HIDE DEF n
    <2>5. QED
      BY <1>1, <2>2, <2>3, <2>4
  <1>3. ASSUME NEW d \in D, NEW e \in D, d < e PROVE Rank(D, d) # Rank(D, e)
    <2>1. Upto(d) \in SUBSET Upto(e) /\ e \in Upto(e) /\ e \notin Upto(d)
      <3>1. \A x \in D : x <= d => x <= e
        BY <1>3
      <3>2. e <= e /\ ~(e <= d)
        BY <1>3
      <3>3. QED
        BY <3>1, <3>2
    <2>2. Upto(d) # Upto(e)
      BY <2>1
    <2> HIDE DEF Upto
    <2>3. Cardinality(Upto(e)) # Cardinality(Upto(d))
      BY <1>2, <2>1, <2>2, FS_Subset
    <2>4. QED
      BY <1>2, <2>3
  <1>4. \A d, e \in D : Rank(D, d) = Rank(D, e) => d = e
    <2> SUFFICES ASSUME NEW d \in D, NEW e \in D, d # e PROVE Rank(D, d) # Rank(D, e)
      OBVIOUS
    <2>1. d < e \/ e < d
      OBVIOUS
    <2>2. QED
      BY <1>3, <2>1
  <1> DEFINE f == [d \in D |-> Rank(D, d)]
  <1>5. f \in Injection(D, 1..n)
    BY <1>2, <1>4 DEF Injection, IsInjective
  <1>6. IsFiniteSet(1..n) /\ Cardinality(1..n) = n
    BY <1>1, FS_Interval
  <1>7. f \in Surjection(D, 1..n)
    <2> HIDE DEF f
    <2>1. QED
      BY <1>5, <1>6, FS_Injection
  <1>8. \A i \in 1..n : \E d \in D : Rank(D, d) = i
    BY <1>7 DEF Surjection
  <1>9. QED
    BY <1>1, <1>2, <1>4, <1>8

\* An export has an event of every day off, and of nothing else.
LEMMA ExportLists ==
  ASSUME NEW booked, DOMAIN booked \subseteq Nat, IsFiniteSet(DOMAIN booked)
  PROVE  /\ \A i \in DOMAIN Export(booked) :
              /\ Export(booked)[i].date \in DOMAIN booked
              /\ Export(booked)[i].hours = booked[Export(booked)[i].date]
         /\ \A d \in DOMAIN booked : \E i \in DOMAIN Export(booked) : Export(booked)[i].date = d
         /\ \A i, j \in DOMAIN Export(booked) : Export(booked)[i].date = Export(booked)[j].date => i = j
         /\ DOMAIN Export(booked) = 1..Cardinality(DOMAIN booked)
         /\ Cardinality(DOMAIN booked) \in Nat
  <1> DEFINE D == DOMAIN booked
             n == Cardinality(D)
             nth(i) == CHOOSE d \in D : Rank(D, d) = i
  <1>1. /\ n \in Nat
        /\ \A d \in D : Rank(D, d) \in 1..n
        /\ \A d, e \in D : Rank(D, d) = Rank(D, e) => d = e
        /\ \A i \in 1..n : \E d \in D : Rank(D, d) = i
    BY RanksAreDistinct
  <1>2. \A i \in 1..n : nth(i) \in D /\ Rank(D, nth(i)) = i
    BY <1>1
  <1>3. Export(booked) = [i \in 1..n |-> [date |-> nth(i), hours |-> booked[nth(i)]]]
    BY DEF Export, Rank
  <1>4. \A d \in D : nth(Rank(D, d)) = d
    BY <1>1, <1>2
  <1> HIDE DEF nth, D, n
  <1>5. \A i \in 1..n : Export(booked)[i].date = nth(i) /\ Export(booked)[i].hours = booked[nth(i)]
    BY <1>3
  <1>6. DOMAIN Export(booked) = 1..n
    BY <1>3
  <1>7. \A d \in D : \E i \in 1..n : Export(booked)[i].date = d
    BY <1>1, <1>4, <1>5
  <1>8. \A i, j \in 1..n : Export(booked)[i].date = Export(booked)[j].date => i = j
    BY <1>2, <1>5
  <1>9. \A i \in 1..n : /\ Export(booked)[i].date \in D
                        /\ Export(booked)[i].hours = booked[Export(booked)[i].date]
    BY <1>2, <1>5
  <1>10. QED
    BY <1>1, <1>6, <1>7, <1>8, <1>9 DEF D, n

-----------------------------------------------------------------------------
(* The months of the calendar are in order.                                *)

\* A month ends before any later one starts.
LEMMA MonthsInOrder ==
  ASSUME NEW m \in Months, NEW n \in Months, m < n
  PROVE  EndOf(m) < StartOf(n)
  <1> DEFINE T == {k \in Months : m < k /\ ~(EndOf(m) < StartOf(k))}
  <1>1. Months \subseteq Nat /\ \A k \in Months : k - 1 >= m => k - 1 \in Months
    BY CalendarAssumption DEF Months
  <1>2. T = {}
    <2>1. SUFFICES ASSUME T # {} PROVE FALSE
      OBVIOUS
    <2>2. T \in SUBSET Nat
      BY <1>1
    <2>3. PICK k \in T : \A l \in T : k <= l
      BY <2>1, <2>2, LeastNatural
    <2> DEFINE j == k - 1
    <2>4. k \in Nat /\ m \in Nat /\ k \in Months /\ m < k /\ ~(EndOf(m) < StartOf(k))
      BY <1>1, <2>3
    <2>5. j \in Months /\ j + 1 = k /\ j + 1 \in Months /\ ~(k <= j) /\ (j = m \/ m < j)
      BY <1>1, <2>4
    <2>6. j \notin T
      BY <2>3, <2>5
    <2> HIDE DEF j
    <2>7. StartOf(k) = EndOf(j) + 1 /\ StartOf(j) <= EndOf(j)
      BY <2>5, MonthsFollow, StartType
    <2>8. EndOf(m) \in Nat /\ EndOf(j) \in Nat /\ StartOf(j) \in Nat /\ StartOf(k) \in Nat
      BY <2>4, <2>5, StartType
    <2>9. QED
      BY <2>4, <2>5, <2>6, <2>7, <2>8
  <1>3. QED
    BY <1>2

\* A date is in the month it falls in, and later dates in no earlier month.
LEMMA MonthOfADate ==
  ASSUME NEW d \in Dates
  PROVE  /\ \A m \in Months : StartOf(m) <= d /\ d <= EndOf(m) => MonthOf(d) = m
         /\ \A e \in Dates : d <= e => MonthOf(d) <= MonthOf(e)
  <1>1. \A e \in Dates : /\ e \in Nat /\ MonthOf(e) \in Months
                         /\ StartOf(MonthOf(e)) <= e /\ e <= EndOf(MonthOf(e))
    BY DateIsInItsMonth DEF Dates
  <1>2. \A m \in Months : m \in Nat /\ StartOf(m) \in Nat /\ EndOf(m) \in Nat
    BY StartType, CalendarAssumption DEF Months
  <1>3. ASSUME NEW e \in Dates, NEW m \in Months, StartOf(m) <= e, d <= e
        PROVE  MonthOf(d) <= MonthOf(e)
    <2>1. ~(MonthOf(e) < MonthOf(d))
      <3>1. MonthOf(e) < MonthOf(d) => EndOf(MonthOf(e)) < StartOf(MonthOf(d))
        BY <1>1, MonthsInOrder
      <3>2. QED
        BY <1>1, <1>2, <1>3, <3>1
    <2>2. QED
      BY <1>1, <1>2, <2>1
  <1>4. ASSUME NEW m \in Months, StartOf(m) <= d, d <= EndOf(m) PROVE MonthOf(d) = m
    <2>1. m < MonthOf(d) => EndOf(m) < StartOf(MonthOf(d))
      BY <1>1, MonthsInOrder
    <2>2. MonthOf(d) < m => EndOf(MonthOf(d)) < StartOf(m)
      BY <1>1, MonthsInOrder
    <2>3. QED
      BY <1>1, <1>2, <1>4, <2>1, <2>2
  <1>5. \A e \in Dates : d <= e => MonthOf(d) <= MonthOf(e)
    BY <1>1, <1>3
  <1>6. QED
    BY <1>4, <1>5

-----------------------------------------------------------------------------
(* How many months a period covers.                                        *)

\* SumOf is the total of a function's values.
LEMMA SumOfIsTotal ==
  ASSUME NEW f
  PROVE  SumOf(f) = TotalOver(f, DOMAIN f)
  BY DEF SumOf, TotalOver

\* What a day of a month is worth.
DayParts(m) == MonthParts \div MonthLength(m)

\* A month's days are worth one month, whatever its length.
LEMMA PartsOfAMonth ==
  ASSUME NEW m \in Months
  PROVE  /\ MonthParts = 377580
         /\ \/ MonthLength(m) = 28 /\ DayParts(m) = 13485
            \/ MonthLength(m) = 29 /\ DayParts(m) = 13020
            \/ MonthLength(m) = 30 /\ DayParts(m) = 12586
            \/ MonthLength(m) = 31 /\ DayParts(m) = 12180
  <1>1. MonthParts = 377580
    BY DEF MonthParts
  <1>2. MonthLength(m) \in 28..31
    BY MonthLengthType
  <1>3. /\ 377580 \div 28 = 13485 /\ 377580 \div 29 = 13020
        /\ 377580 \div 30 = 12586 /\ 377580 \div 31 = 12180
    OBVIOUS
  <1>4. QED
    BY <1>1, <1>2, <1>3 DEF DayParts

\* What of the calendar is over when a date begins.
PartsBefore(d) == MonthParts * MonthOf(d) + (d - StartOf(MonthOf(d))) * DayParts(MonthOf(d))

\* Of a month's days some are before a date and some after it.
LEMMA PartsOfDays ==
  ASSUME NEW m \in Months, NEW i \in Int, NEW j \in Int
  PROVE  /\ i * DayParts(m) \in Int /\ j * DayParts(m) \in Int /\ DayParts(m) \in Nat
         /\ (i - j + 1) * DayParts(m) = i * DayParts(m) + DayParts(m) - j * DayParts(m)
         /\ i + 1 = MonthLength(m) => i * DayParts(m) + DayParts(m) = MonthParts
         /\ 0 <= i => 0 <= i * DayParts(m)
         /\ i < MonthLength(m) => i * DayParts(m) + DayParts(m) <= MonthParts
  <1>1. CASE MonthLength(m) = 28 /\ DayParts(m) = 13485
    BY <1>1, PartsOfAMonth
  <1>2. CASE MonthLength(m) = 29 /\ DayParts(m) = 13020
    BY <1>2, PartsOfAMonth
  <1>3. CASE MonthLength(m) = 30 /\ DayParts(m) = 12586
    BY <1>3, PartsOfAMonth
  <1>4. CASE MonthLength(m) = 31 /\ DayParts(m) = 12180
    BY <1>4, PartsOfAMonth
  <1>5. QED
    BY <1>1, <1>2, <1>3, <1>4, PartsOfAMonth

\* What a period covers is over when it ends and was not when it began.
LEMMA MonthsCoveredIs ==
  ASSUME NEW s \in Dates, NEW e \in Dates, s <= e
  PROVE  /\ MonthsCovered([start |-> s, end |-> e]) = PartsBefore(e) + DayParts(MonthOf(e)) - PartsBefore(s)
         /\ PartsBefore(e) \in Int /\ PartsBefore(s) \in Int /\ DayParts(MonthOf(e)) \in Nat
  <1> DEFINE a == MonthOf(s)
             b == MonthOf(e)
             From(m) == Later(s, StartOf(m))
             To(m) == Earlier(e, EndOf(m))
             f == [m \in a..b |-> (To(m) - From(m) + 1) * DayParts(m)]
             marks == [m \in a..b + 1 |-> IF m = a THEN PartsBefore(s)
                                          ELSE IF m = b + 1 THEN PartsBefore(e) + DayParts(b)
                                          ELSE MonthParts * m]
  <1>1. /\ a \in Months /\ StartOf(a) <= s /\ s <= EndOf(a)
        /\ b \in Months /\ StartOf(b) <= e /\ e <= EndOf(b)
    BY DateIsInItsMonth
  <1>2. s \in Nat /\ e \in Nat /\ Months \subseteq Nat /\ a..b \subseteq Months
    BY <1>1, CalendarAssumption DEF Dates, Months
  <1>3. a <= b /\ a \in Nat /\ b \in Nat
    BY <1>1, <1>2, MonthOfADate
  <1>4. \A m \in Months : /\ StartOf(m) \in Nat /\ EndOf(m) \in Nat /\ MonthLength(m) \in Nat
                          /\ EndOf(m) - StartOf(m) + 1 = MonthLength(m)
    BY StartType, MonthLengthType DEF EndOf
  <1>5. MonthsCovered([start |-> s, end |-> e]) = TotalOver(f, a..b)
    <2>1. MonthsCovered([start |-> s, end |-> e]) = SumOf(f)
      BY DEF MonthsCovered, DayParts, Clamp
    <2>2. DOMAIN f = a..b
      OBVIOUS
    <2> HIDE DEF f, a, b
    <2>3. QED
      BY <2>1, <2>2, SumOfIsTotal
  <1>6. MonthParts \in Nat /\ \A m \in Months : MonthParts * m \in Int /\ DayParts(m) \in Nat
    <2>1. MonthParts = 377580
      BY DEF MonthParts
    <2>2. QED
      BY <1>2, <2>1, PartsOfAMonth
  <1>7. /\ PartsBefore(s) = MonthParts * a + (s - StartOf(a)) * DayParts(a)
        /\ PartsBefore(e) = MonthParts * b + (e - StartOf(b)) * DayParts(b)
    BY DEF PartsBefore
  <1> HIDE DEF a, b
  <1>8. /\ (s - StartOf(a)) * DayParts(a) \in Int
        /\ (e - StartOf(b)) * DayParts(b) \in Int
    BY <1>1, <1>2, <1>4, PartsOfDays
  <1>9. PartsBefore(s) \in Int /\ PartsBefore(e) \in Int
    <2>1. MonthParts * a \in Int /\ MonthParts * b \in Int
      BY <1>1, <1>6
    <2>2. QED
      BY <1>7, <1>8, <2>1
  <1>10. \A m \in a..b + 1 : marks[m] \in Int
    <2> SUFFICES ASSUME NEW m \in a..b + 1 PROVE marks[m] \in Int
      OBVIOUS
    <2>1. m \in a..b \/ m = b + 1
      BY <1>3
    <2>2. m \in a..b => MonthParts * m \in Int
      BY <1>2, <1>6
    <2>3. DayParts(b) \in Nat
      BY <1>1, <1>6
    <2>4. QED
      BY <1>3, <1>9, <2>1, <2>2, <2>3
  <1>11. ASSUME NEW m \in a..b PROVE f[m] = marks[m + 1] - marks[m]
    <2> DEFINE i == To(m) - StartOf(m)
               j == From(m) - StartOf(m)
               w == DayParts(m)
    <2>1. m \in Months /\ m \in Nat /\ StartOf(m) \in Nat /\ EndOf(m) \in Nat
      BY <1>2, <1>4
    <2>2. From(m) = IF m = a THEN s ELSE StartOf(m)
      <3>1. CASE m = a
        BY <1>1, <1>2, <2>1, <3>1 DEF Later
      <3>2. CASE m # a
        <4>1. EndOf(a) < StartOf(m)
          BY <1>1, <1>3, <2>1, <3>2, MonthsInOrder
        <4>2. QED
          BY <1>1, <1>2, <1>4, <2>1, <3>2, <4>1 DEF Later
      <3>3. QED
        BY <3>1, <3>2
    <2>3. To(m) = IF m = b THEN e ELSE EndOf(m)
      <3>1. CASE m = b
        BY <1>1, <1>2, <2>1, <3>1 DEF Earlier
      <3>2. CASE m # b
        <4>1. EndOf(m) < StartOf(b)
          BY <1>1, <1>3, <2>1, <3>2, MonthsInOrder
        <4>2. QED
          BY <1>1, <1>2, <1>4, <2>1, <3>2, <4>1 DEF Earlier
      <3>3. QED
        BY <3>1, <3>2
    <2>4. i \in Int /\ j \in Int /\ To(m) - From(m) + 1 = i - j + 1
      BY <1>2, <2>1, <2>2, <2>3
    <2>5. marks[m] = MonthParts * m + j * w /\ MonthParts * m \in Int
      <3>1. m \in a..b + 1 /\ m # b + 1
        BY <1>3
      <3>2. CASE m = a
        <4>1. marks[m] = PartsBefore(s) /\ j = s - StartOf(a)
          BY <2>2, <3>1, <3>2
        <4>2. QED
          BY <1>6, <1>7, <2>1, <3>2, <4>1
      <3>3. CASE m # a
        <4>1. marks[m] = MonthParts * m /\ j = 0
          BY <2>1, <2>2, <3>1, <3>3
        <4> HIDE DEF marks, j
        <4>2. j * w = 0
          BY <1>6, <2>1, <4>1
        <4>3. QED
          BY <1>6, <2>1, <4>1, <4>2
      <3>4. QED
        BY <3>2, <3>3
    <2>6. marks[m + 1] = MonthParts * m + (i * w + w)
      <3>1. m + 1 \in a..b + 1 /\ m + 1 # a
        BY <1>3
      <3>2. CASE m = b
        <4>1. marks[m + 1] = PartsBefore(e) + DayParts(b) /\ i = e - StartOf(b)
          BY <2>3, <3>1, <3>2
        <4>2. QED
          BY <1>1, <1>6, <1>7, <1>8, <2>1, <3>2, <4>1
      <3>3. CASE m # b
        <4>1. marks[m + 1] = MonthParts * (m + 1) /\ i = MonthLength(m) - 1
          BY <1>3, <1>4, <2>1, <2>3, <3>1, <3>3
        <4> HIDE DEF marks, i, w
        <4>2. i * w + w = MonthParts
          <5>1. i \in Int /\ i + 1 = MonthLength(m)
            BY <1>4, <2>1, <2>4, <4>1
          <5>2. QED
            BY <2>1, <5>1, PartsOfDays DEF w
        <4>3. MonthParts * (m + 1) = MonthParts * m + MonthParts
          <5>1. MonthParts = 377580
            BY DEF MonthParts
          <5>2. QED
            BY <2>1, <5>1
        <4>4. QED
          BY <4>1, <4>2, <4>3
      <3>4. QED
        BY <3>2, <3>3
    <2>7. f[m] = (i - j + 1) * w
      BY <2>4
    <2> HIDE DEF marks, f, i, j
    <2>8. (i - j + 1) * w = i * w + w - j * w /\ i * w \in Int /\ j * w \in Int /\ w \in Nat
      BY <2>1, <2>4, PartsOfDays
    <2> HIDE DEF w
    <2>9. QED
      BY <2>5, <2>6, <2>7, <2>8
  <1>12. marks[b + 1] = PartsBefore(e) + DayParts(b) /\ marks[a] = PartsBefore(s)
    BY <1>3
  <1> HIDE DEF marks, f
  <1>13. TotalOver(f, a..b) = marks[b + 1] - marks[a]
    BY <1>3, <1>10, <1>11, TotalTelescopes
  <1>14. QED
    BY <1>1, <1>5, <1>6, <1>9, <1>12, <1>13 DEF b

\* What is over when a date ends is over when the next begins.
LEMMA NextDayBegins ==
  ASSUME NEW d \in Dates, d + 1 \in Dates
  PROVE  PartsBefore(d + 1) = PartsBefore(d) + DayParts(MonthOf(d))
  <1> DEFINE m == MonthOf(d)
             n == d + 1
  <1>1. m \in Months /\ StartOf(m) <= d /\ d <= EndOf(m) /\ d \in Nat /\ n \in Dates
    BY DateIsInItsMonth DEF Dates
  <1>2. StartOf(m) \in Nat /\ EndOf(m) \in Nat /\ m \in Nat
    BY <1>1, StartType, CalendarAssumption DEF Months
  <1>3. PartsBefore(d) = MonthParts * m + (d - StartOf(m)) * DayParts(m)
    BY DEF PartsBefore
  <1>4. /\ (d - StartOf(m)) * DayParts(m) \in Int /\ DayParts(m) \in Nat /\ MonthParts * m \in Int
        /\ MonthParts * (m + 1) = MonthParts * m + MonthParts /\ MonthParts \in Nat
    <2>1. MonthParts = 377580
      BY DEF MonthParts
    <2>2. QED
      BY <1>1, <1>2, <2>1, PartsOfDays
  <1>5. CASE n <= EndOf(m)
    <2>1. MonthOf(n) = m
      BY <1>1, <1>2, <1>5, MonthOfADate
    <2>2. PartsBefore(n) = MonthParts * m + (n - StartOf(m)) * DayParts(m)
      BY <2>1 DEF PartsBefore
    <2>3. (n - StartOf(m)) * DayParts(m) = (d - StartOf(m)) * DayParts(m) + DayParts(m)
      <3> DEFINE i == d - StartOf(m)
                 w == DayParts(m)
      <3>1. n - StartOf(m) = i + 1 /\ i \in Int /\ w \in Nat
        BY <1>1, <1>2, <1>4
      <3> HIDE DEF i, w, n
      <3>2. (i + 1) * w = i * w + w
        BY <3>1
      <3>3. QED
        BY <3>1, <3>2 DEF i, w
    <2> HIDE DEF m, n
    <2>4. QED
      BY <1>3, <1>4, <2>2, <2>3 DEF m, n
  <1>6. CASE ~(n <= EndOf(m))
    <2> DEFINE o == MonthOf(n)
               k == m + 1
    <2>1. d = EndOf(m)
      BY <1>1, <1>2, <1>6
    <2>2. o \in Months /\ StartOf(o) <= n /\ n <= EndOf(o) /\ m <= o
      <3>1. \A e \in Dates : d <= e => MonthOf(d) <= MonthOf(e)
        BY MonthOfADate
      <3>2. d <= n
        BY <1>1
      <3>3. m <= o
        BY <1>1, <3>1, <3>2
      <3> HIDE DEF n
      <3>4. QED
        BY <1>1, <3>3, DateIsInItsMonth
    <2>3. o # m
      BY <1>6, <2>2
    <2>4. k \in Months /\ k \in Nat
      BY <1>1, <2>2, <2>3, CalendarAssumption DEF Months
    <2>5. StartOf(k) = n /\ StartOf(k) <= EndOf(k)
      BY <1>1, <2>1, <2>4, MonthsFollow, StartType
    <2> HIDE DEF o, k
    <2>6. MonthOf(n) = k
      <3> HIDE DEF n
      <3>1. StartOf(k) <= n /\ n <= EndOf(k)
        BY <2>4, <2>5, StartType
      <3>2. QED
        BY <1>1, <2>4, <3>1, MonthOfADate
    <2>7. PartsBefore(n) = MonthParts * k + 0 * DayParts(k)
      BY <1>1, <2>5, <2>6 DEF PartsBefore
    <2>8. PartsBefore(n) = MonthParts * k
      <3>1. DayParts(k) \in Nat /\ MonthParts * k \in Int
        BY <1>4, <2>4, PartsOfAMonth
      <3>2. QED
        BY <2>7, <3>1
    <2>9. (d - StartOf(m)) * DayParts(m) + DayParts(m) = MonthParts
      <3> DEFINE i == d - StartOf(m)
      <3>1. i \in Int /\ i + 1 = MonthLength(m)
        <4>1. MonthLength(m) \in 28..31
          BY <1>1, MonthLengthType
        <4>2. QED
          BY <1>1, <1>2, <2>1, <4>1 DEF EndOf
      <3>2. QED
        BY <1>1, <3>1, PartsOfDays
    <2> HIDE DEF m, n
    <2>10. QED
      BY <1>3, <1>4, <2>8, <2>9 DEF m, n, k
  <1>7. QED
    BY <1>5, <1>6

\* What two adjoining periods cover is what they cover as one.
LEMMA PeriodsAddUp ==
  ASSUME NEW s \in Dates, NEW e \in Dates, NEW d \in s..e - 1
  PROVE  /\ d \in Dates /\ d + 1 \in Dates /\ s <= d /\ d + 1 <= e
         /\ MonthsCovered([start |-> s, end |-> e])
              = MonthsCovered([start |-> s, end |-> d]) + MonthsCovered([start |-> d + 1, end |-> e])
  <1>1. d \in Dates /\ d + 1 \in Dates /\ s <= d /\ d + 1 <= e /\ s <= e
    <2>1. December(LastYear) \in Months
      BY CalendarAssumption DEF December, Months
    <2>2. EndOf(December(LastYear)) \in Nat
      BY <2>1, StartType
    <2>3. QED
      BY <2>2 DEF Dates
  <1>2. PICK n \in Dates : n = d + 1
    BY <1>1
  <1>3. /\ MonthsCovered([start |-> s, end |-> e]) = PartsBefore(e) + DayParts(MonthOf(e)) - PartsBefore(s)
        /\ PartsBefore(e) \in Int /\ PartsBefore(s) \in Int /\ DayParts(MonthOf(e)) \in Nat
    BY <1>1, MonthsCoveredIs
  <1>4. /\ MonthsCovered([start |-> s, end |-> d]) = PartsBefore(d) + DayParts(MonthOf(d)) - PartsBefore(s)
        /\ PartsBefore(d) \in Int /\ DayParts(MonthOf(d)) \in Nat
    BY <1>1, MonthsCoveredIs
  <1>5. /\ MonthsCovered([start |-> n, end |-> e]) = PartsBefore(e) + DayParts(MonthOf(e)) - PartsBefore(n)
        /\ PartsBefore(n) \in Int
    BY <1>1, <1>2, MonthsCoveredIs
  <1>6. PartsBefore(n) = PartsBefore(d) + DayParts(MonthOf(d))
    BY <1>1, <1>2, NextDayBegins
  <1>7. MonthsCovered([start |-> s, end |-> e])
          = MonthsCovered([start |-> s, end |-> d]) + MonthsCovered([start |-> n, end |-> e])
    BY <1>3, <1>4, <1>5, <1>6
  <1>8. QED
    BY <1>1, <1>2, <1>7

\* The part of a term in a year it reaches.
LEMMA PartOfAYear ==
  ASSUME NEW of, of.start \in Dates, of.end \in Dates, of.start <= of.end,
         NEW year \in ContractYears(of)
  PROVE  LET whole == InYear(of, year)
         IN  /\ whole = [start |-> whole.start, end |-> whole.end]
             /\ whole.start \in Dates /\ whole.end \in Dates /\ whole.start <= whole.end
             /\ of.start <= whole.start /\ whole.end <= of.end
             /\ January(year) <= MonthOf(whole.start) /\ MonthOf(whole.end) <= December(year)
             /\ year \in Years /\ January(year) \in Months /\ December(year) \in Months
             /\ whole.start = Later(of.start, StartOf(January(year)))
             /\ whole.end = Earlier(of.end, EndOf(December(year)))
  <1> DEFINE a == MonthOf(of.start)
             b == MonthOf(of.end)
             first == January(year)
             last == December(year)
             s == Later(of.start, StartOf(first))
             e == Earlier(of.end, EndOf(last))
  <1>1. /\ a \in Months /\ StartOf(a) <= of.start /\ of.start <= EndOf(a) /\ YearOf(a) \in Years
        /\ b \in Months /\ StartOf(b) <= of.end /\ of.end <= EndOf(b) /\ YearOf(b) \in Years
    BY DateIsInItsMonth
  <1>2. year \in Years /\ YearOf(a) <= year /\ year <= YearOf(b) /\ year \in Nat
    BY <1>1, CalendarAssumption DEF ContractYears, Years
  <1>3. first \in Months /\ last \in Months /\ first \in Nat /\ last \in Nat /\ first <= last
    BY <1>2, CalendarAssumption DEF January, December, Months, Years
  <1>4. a <= last /\ first <= b
    <2>1. a = 12 * YearOf(a) + MonthInYear(a) - 1 /\ MonthInYear(a) \in 1..12 /\ YearOf(a) \in Nat
      BY <1>1, MonthIsOfAYear, CalendarAssumption DEF Years
    <2>2. b = 12 * YearOf(b) + MonthInYear(b) - 1 /\ MonthInYear(b) \in 1..12 /\ YearOf(b) \in Nat
      BY <1>1, MonthIsOfAYear, CalendarAssumption DEF Years
    <2>3. first = 12 * year /\ last = 12 * year + 11
      BY DEF January, December
    <2> HIDE DEF a, b, first, last
    <2>4. QED
      BY <1>2, <2>1, <2>2, <2>3
  <1>5. Months \subseteq Nat /\ of.start \in Nat /\ of.end \in Nat
    BY CalendarAssumption DEF Dates, Months
  <1>6. \A m \in Months : StartOf(m) \in Nat /\ EndOf(m) \in Nat /\ StartOf(m) <= EndOf(m)
    BY StartType
  <1>7. \A m, n \in Months : m <= n => StartOf(m) <= StartOf(n) /\ EndOf(m) <= EndOf(n) /\ StartOf(m) <= EndOf(n)
    <2> SUFFICES ASSUME NEW m \in Months, NEW n \in Months, m <= n
                 PROVE  StartOf(m) <= StartOf(n) /\ EndOf(m) <= EndOf(n) /\ StartOf(m) <= EndOf(n)
      OBVIOUS
    <2>1. CASE m = n
      BY <1>6, <2>1
    <2>2. CASE m # n
      <3>1. EndOf(m) < StartOf(n)
        BY <1>5, <2>2, MonthsInOrder
      <3>2. QED
        BY <1>6, <3>1
    <2>3. QED
      BY <2>1, <2>2
  <1> HIDE DEF a, b, first, last
  <1>8. s \in Nat /\ e \in Nat /\ s <= e /\ of.start <= s /\ e <= of.end
        /\ StartOf(first) <= s /\ e <= EndOf(last)
    <2>1. of.start <= EndOf(last) /\ StartOf(first) <= of.end /\ StartOf(first) <= EndOf(last)
      BY <1>1, <1>3, <1>4, <1>5, <1>6, <1>7
    <2>2. StartOf(first) \in Nat /\ EndOf(last) \in Nat
      BY <1>3, <1>6
    <2>3. QED
      BY <1>5, <2>1, <2>2 DEF Later, Earlier
  <1>9. s \in Dates /\ e \in Dates
    <2>1. December(LastYear) \in Months
      BY CalendarAssumption DEF December, Months
    <2>2. EndOf(December(LastYear)) \in Nat
      BY <2>1, StartType
    <2> HIDE DEF s, e
    <2>3. QED
      BY <1>5, <1>8, <2>2 DEF Dates
  <1> HIDE DEF s, e
  <1>10. first <= MonthOf(s)
    <2>1. MonthOf(s) \in Months /\ s <= EndOf(MonthOf(s))
      BY <1>9, DateIsInItsMonth
    <2>2. MonthOf(s) < first => EndOf(MonthOf(s)) < StartOf(first)
      BY <1>3, <2>1, MonthsInOrder
    <2>3. /\ MonthOf(s) \in Nat /\ EndOf(MonthOf(s)) \in Nat
          /\ first \in Nat /\ StartOf(first) \in Nat /\ s \in Nat /\ StartOf(first) <= s
      BY <1>3, <1>5, <1>6, <1>8, <2>1
    <2>4. QED
      BY <2>1, <2>2, <2>3
  <1>11. MonthOf(e) <= last
    <2>1. MonthOf(e) \in Months /\ StartOf(MonthOf(e)) <= e
      BY <1>9, DateIsInItsMonth
    <2>2. last < MonthOf(e) => EndOf(last) < StartOf(MonthOf(e))
      BY <1>3, <2>1, MonthsInOrder
    <2>3. /\ MonthOf(e) \in Nat /\ StartOf(MonthOf(e)) \in Nat
          /\ last \in Nat /\ EndOf(last) \in Nat /\ e \in Nat /\ e <= EndOf(last)
      BY <1>3, <1>5, <1>6, <1>8, <2>1
    <2>4. QED
      BY <2>1, <2>2, <2>3
  <1>12. InYear(of, year) = [start |-> s, end |-> e]
    BY DEF InYear, Clamp, Term, s, e, first, last
  <1>13. InYear(of, year).start = s /\ InYear(of, year).end = e
    BY <1>12
  <1>14. s = Later(of.start, StartOf(January(year))) /\ e = Earlier(of.end, EndOf(December(year)))
    BY DEF s, e, first, last
  <1>15. January(year) = first /\ December(year) = last
    BY DEF first, last
  <1>16. QED
    BY <1>2, <1>3, <1>8, <1>9, <1>10, <1>11, <1>12, <1>13, <1>14, <1>15

\* Rounding down two parts of a whole loses one at most, and none if one of
\* the parts is even.
LEMMA RoundedDown ==
  ASSUME NEW p \in Int, NEW q \in Int
  PROVE  /\ (p + q) \div 4530960 - (p \div 4530960 + q \div 4530960) \in {0, 1}
         /\ p % 4530960 = 0 => (p + q) \div 4530960 = p \div 4530960 + q \div 4530960
         /\ p <= 4530960 * q => p \div 4530960 <= q
  <1> DEFINE r == p + q
             u == p \div 4530960
             v == q \div 4530960
             w == r \div 4530960
  <1>1. u \in Int /\ 4530960 * u <= p /\ p < 4530960 * u + 4530960 /\ p % 4530960 = p - 4530960 * u
    OBVIOUS
  <1>2. v \in Int /\ 4530960 * v <= q /\ q < 4530960 * v + 4530960
    OBVIOUS
  <1>3. r \in Int /\ r = p + q
    OBVIOUS
  <1>4. w \in Int /\ 4530960 * w <= r /\ r < 4530960 * w + 4530960
    <2> HIDE DEF r
    <2>1. QED
      BY <1>3
  <1> HIDE DEF r, u, v, w
  <1>5. w - (u + v) \in {0, 1}
    BY <1>1, <1>2, <1>3, <1>4
  <1>6. p % 4530960 = 0 => w = u + v
    BY <1>1, <1>2, <1>3, <1>4
  <1>7. p <= 4530960 * q => u <= q
    BY <1>1
  <1>8. QED
    BY <1>5, <1>6, <1>7 DEF r, u, v, w

\* However a year of a contract is split, the shares of its cap are no more
\* than the whole's, and a day less at most (prorated_max_working_days).
LEMMA SharesOfAYear ==
  ASSUME NEW of, of.start \in Dates, of.end \in Dates, of.start <= of.end, of.max \in Nat,
         NEW year \in ContractYears(of)
  PROVE  LET whole == InYear(of, year)
             Share(start, end) == ProratedMaxWorkingDays([start |-> start, end |-> end], of.max)
             all == Share(whole.start, whole.end)
         IN  /\ all <= of.max
             /\ \A d \in whole.start .. whole.end - 1 :
                  LET lost == all - (Share(whole.start, d) + Share(d + 1, whole.end))
                  IN  /\ lost \in {0, 1}
                      /\ of.max % 12 = 0 /\ d = EndOf(MonthOf(d))
                           /\ whole.start = StartOf(MonthOf(whole.start))
                         => lost = 0
  <1> DEFINE whole == InYear(of, year)
             s == whole.start
             e == whole.end
             max == of.max
             Covered(start, end) == MonthsCovered([start |-> start, end |-> end])
             Share(start, end) == ProratedMaxWorkingDays([start |-> start, end |-> end], max)
  <1>1. /\ s \in Dates /\ e \in Dates /\ s <= e /\ year \in Years
        /\ January(year) <= MonthOf(s) /\ MonthOf(e) <= December(year)
    BY PartOfAYear
  <1>2. /\ MonthOf(s) \in Months /\ StartOf(MonthOf(s)) <= s /\ s <= EndOf(MonthOf(s))
        /\ MonthOf(e) \in Months /\ StartOf(MonthOf(e)) <= e /\ e <= EndOf(MonthOf(e))
    BY <1>1, DateIsInItsMonth
  <1>3. max \in Nat /\ Months \subseteq Nat /\ Dates \subseteq Nat /\ MonthParts = 377580
    BY CalendarAssumption DEF Dates, Months, MonthParts
  <1>4. \A start, end : Share(start, end) = (max * Covered(start, end)) \div 4530960
    BY <1>3 DEF ProratedMaxWorkingDays
  <1> HIDE DEF s, e, max, whole
  <1>5. ASSUME NEW first \in Dates, NEW last \in Dates, first <= last
        PROVE  Covered(first, last) \in Int
    BY <1>5, MonthsCoveredIs
  <1>6. Covered(s, e) <= 12 * MonthParts
    <2> DEFINE a == MonthOf(s)
               b == MonthOf(e)
               i == e - StartOf(b)
               j == s - StartOf(a)
    <2>1. Covered(s, e) = PartsBefore(e) + DayParts(b) - PartsBefore(s)
      BY <1>1, MonthsCoveredIs
    <2>2. PartsBefore(e) = MonthParts * b + i * DayParts(b) /\ PartsBefore(s) = MonthParts * a + j * DayParts(a)
      BY DEF PartsBefore
    <2>3. i \in Int /\ i < MonthLength(b) /\ j \in Int /\ 0 <= j
      <3>1. a \in Months /\ b \in Months /\ e \in Nat /\ s \in Nat
        BY <1>1, <1>2, <1>3
      <3>2. e <= StartOf(b) + MonthLength(b) - 1 /\ StartOf(a) <= s
        BY <1>2 DEF EndOf
      <3> HIDE DEF a, b
      <3>3. StartOf(b) \in Nat /\ StartOf(a) \in Nat
        BY <3>1, StartType
      <3>4. MonthLength(b) \in Int
        BY <3>1, MonthLengthType
      <3>5. QED
        BY <3>1, <3>2, <3>3, <3>4 DEF i, j
    <2>4. /\ i * DayParts(b) \in Int /\ DayParts(b) \in Nat /\ i * DayParts(b) + DayParts(b) <= MonthParts
      BY <1>2, <2>3, PartsOfDays
    <2>5. j * DayParts(a) \in Int /\ 0 <= j * DayParts(a)
      BY <1>2, <2>3, PartsOfDays
    <2>6. b - a <= 11 /\ a \in Nat /\ b \in Nat
      <3>1. January(year) = 12 * year /\ December(year) = 12 * year + 11 /\ year \in Nat
        BY <1>1, CalendarAssumption DEF January, December, Years
      <3>2. a \in Nat /\ b \in Nat
        <4>1. a \in Months /\ b \in Months
          BY <1>2
        <4>2. Months \subseteq Nat
          BY <1>3
        <4> HIDE DEF a, b
        <4>3. QED
          BY <4>1, <4>2
      <3>3. 12 * year <= a /\ b <= 12 * year + 11
        BY <1>1, <3>1
      <3> HIDE DEF a, b
      <3>4. QED
        BY <3>1, <3>2, <3>3
    <2> HIDE DEF a, b, i, j
    <2>7. QED
      BY <1>3, <2>1, <2>2, <2>4, <2>5, <2>6
  <1>7. Share(s, e) <= max
    <2>1. Covered(s, e) \in Int /\ Covered(s, e) <= 4530960
      BY <1>1, <1>3, <1>5, <1>6
    <2>2. max * Covered(s, e) \in Int /\ max * Covered(s, e) <= 4530960 * max
      <3> HIDE DEF Covered
      <3>1. QED
        BY <1>3, <2>1
    <2> HIDE DEF Share, Covered
    <2>3. QED
      BY <1>3, <1>4, <2>2, RoundedDown
  <1>8. ASSUME NEW d \in s..e - 1
        PROVE  LET lost == Share(s, e) - (Share(s, d) + Share(d + 1, e))
               IN  /\ lost \in {0, 1}
                   /\ max % 12 = 0 /\ d = EndOf(MonthOf(d)) /\ s = StartOf(MonthOf(s)) => lost = 0
    <2> DEFINE before == Covered(s, d)
               after == Covered(d + 1, e)
               p == max * before
               q == max * after
    <2>1. d \in Dates /\ d + 1 \in Dates /\ s <= d /\ d + 1 <= e /\ Covered(s, e) = before + after
      BY <1>1, PeriodsAddUp
    <2>2. before \in Int /\ after \in Int
      BY <1>1, <1>5, <2>1
    <2>3. Share(s, d) = p \div 4530960 /\ Share(d + 1, e) = q \div 4530960
      BY <1>4
    <2>4. max * Covered(s, e) = p + q /\ p \in Int /\ q \in Int
      <3> HIDE DEF Covered, before, after
      <3>1. QED
        BY <1>3, <2>1, <2>2
    <2>5. Share(s, e) = (p + q) \div 4530960
      BY <1>4, <2>4
    <2>6. ASSUME max % 12 = 0, d = EndOf(MonthOf(d)), s = StartOf(MonthOf(s))
          PROVE  p % 4530960 = 0
      <3> DEFINE a == MonthOf(s)
                 m == MonthOf(d)
                 k == m + 1 - a
                 i == d - StartOf(m)
      <3>1. /\ m \in Months /\ StartOf(m) <= d /\ a \in Months
            /\ before = PartsBefore(d) + DayParts(m) - PartsBefore(s)
        BY <1>2, <2>1, MonthsCoveredIs, DateIsInItsMonth, <1>1
      <3>2. PartsBefore(d) = MonthParts * m + i * DayParts(m) /\ i \in Int /\ i + 1 = MonthLength(m)
        <4>1. StartOf(m) \in Nat /\ MonthLength(m) \in 28..31
          BY <3>1, StartType, MonthLengthType
        <4>2. d = StartOf(m) + MonthLength(m) - 1 /\ d \in Nat
          BY <1>3, <2>1, <2>6 DEF EndOf
        <4>3. PartsBefore(d) = MonthParts * m + i * DayParts(m)
          BY DEF PartsBefore
        <4> HIDE DEF m
        <4>4. QED
          BY <4>1, <4>2, <4>3 DEF i
      <3>3. i * DayParts(m) \in Int /\ DayParts(m) \in Nat /\ i * DayParts(m) + DayParts(m) = MonthParts
        BY <3>1, <3>2, PartsOfDays
      <3>4. PartsBefore(s) = MonthParts * a
        <4>1. s - StartOf(a) = 0
          BY <1>1, <1>3, <2>6
        <4>2. PartsBefore(s) = MonthParts * a + 0 * DayParts(a)
          BY <4>1 DEF PartsBefore
        <4>3. a \in Months /\ Months \subseteq Nat /\ MonthParts = 377580
          BY <1>2, <1>3
        <4> HIDE DEF a
        <4>4. DayParts(a) \in Nat
          BY <4>3, PartsOfAMonth
        <4>5. 0 * DayParts(a) = 0 /\ MonthParts * a \in Int
          BY <4>3, <4>4
        <4>6. QED
          BY <4>2, <4>5
      <3>5. a \in Nat /\ m \in Nat
        <4>1. a \in Months /\ m \in Months
          BY <3>1
        <4>2. Months \subseteq Nat
          BY <1>3
        <4> HIDE DEF a, m
        <4>3. QED
          BY <4>1, <4>2
      <3> HIDE DEF a, m, i, before
      <3>6. before = 377580 * k /\ k \in Int
        BY <1>3, <3>1, <3>2, <3>3, <3>4, <3>5
      <3>7. PICK c \in Int : max = 12 * c
        BY <1>3, <2>6
      <3> HIDE DEF k
      <3>8. p = 4530960 * (c * k) /\ c * k \in Int
        <4>1. p = (12 * c) * (377580 * k)
          BY <3>6, <3>7
        <4>2. (12 * c) * (377580 * k) = 4530960 * (c * k) /\ c * k \in Int
          BY <3>6, <3>7
        <4>3. QED
          BY <4>1, <4>2
      <3>9. PICK z \in Int : z = c * k
        BY <3>8
      <3>10. p = 4530960 * z
        BY <3>8, <3>9
      <3> HIDE DEF p
      <3>11. QED
        BY <3>10
    <2> HIDE DEF Share, p, q
    <2>7. QED
      BY <2>3, <2>4, <2>5, <2>6, RoundedDown
  <1>9. QED
    BY <1>7, <1>8 DEF s, e, max, whole

-----------------------------------------------------------------------------
(* The weekdays of a stretch.                                              *)

\* The weekdays of so many days from a Monday on.
WeekdaysOf(n) == 5 * (n \div 7) + Earlier(5, n % 7)

\* Those before a date, from the Monday of the week of the first one on.
WeekdaysBefore(date) == WeekdaysOf(FirstWeekday + date)

\* A day more is a weekday more unless it falls on a weekend, a week more five.
LEMMA WeekdaysOfMore ==
  ASSUME NEW n \in Nat
  PROVE  /\ WeekdaysOf(n) \in Nat
         /\ WeekdaysOf(n + 1) = WeekdaysOf(n) + IF n % 7 < 5 THEN 1 ELSE 0
         /\ \A k \in Nat : WeekdaysOf(7 * k + n) = 5 * k + WeekdaysOf(n)
  <1> DEFINE q == n \div 7
             r == n % 7
  <1>1. q \in Nat /\ r \in 0..6 /\ n = 7 * q + r
    OBVIOUS
  <1>2. WeekdaysOf(n) = 5 * q + Earlier(5, r)
    BY DEF WeekdaysOf
  <1>3. Earlier(5, r) \in 0..5 /\ Earlier(5, r) = IF r < 5 THEN r ELSE 5
    BY <1>1 DEF Earlier
  <1>4. WeekdaysOf(n + 1) = WeekdaysOf(n) + IF r < 5 THEN 1 ELSE 0
    <2>1. CASE r = 6
      <3>1. (n + 1) \div 7 = q + 1 /\ (n + 1) % 7 = 0
        BY <1>1, <2>1
      <3>2. WeekdaysOf(n + 1) = 5 * (q + 1) + Earlier(5, 0)
        BY <3>1 DEF WeekdaysOf
      <3>3. Earlier(5, 0) = 0
        BY DEF Earlier
      <3> HIDE DEF q, r
      <3>4. QED
        BY <1>1, <1>2, <1>3, <2>1, <3>2, <3>3
    <2>2. CASE r # 6
      <3>1. (n + 1) \div 7 = q /\ (n + 1) % 7 = r + 1
        BY <1>1, <2>2
      <3>2. WeekdaysOf(n + 1) = 5 * q + Earlier(5, r + 1)
        BY <3>1 DEF WeekdaysOf
      <3>3. Earlier(5, r + 1) = IF r + 1 < 5 THEN r + 1 ELSE 5
        BY <1>1 DEF Earlier
      <3> HIDE DEF q, r
      <3>4. QED
        BY <1>1, <1>2, <1>3, <2>2, <3>2, <3>3
    <2>3. QED
      BY <2>1, <2>2
  <1>5. ASSUME NEW k \in Nat PROVE WeekdaysOf(7 * k + n) = 5 * k + WeekdaysOf(n)
    <2>1. (7 * k + n) \div 7 = k + q /\ (7 * k + n) % 7 = r
      BY <1>1
    <2>2. WeekdaysOf(7 * k + n) = 5 * (k + q) + Earlier(5, r)
      BY <2>1 DEF WeekdaysOf
    <2> HIDE DEF q, r
    <2>3. QED
      BY <1>1, <1>2, <1>3, <2>2
  <1> HIDE DEF q
  <1>6. WeekdaysOf(n) \in Nat
    BY <1>1, <1>2, <1>3
  <1>7. QED
    BY <1>4, <1>5, <1>6

\* The days of less than a week that are weekdays.
LEMMA SpareDays ==
  ASSUME NEW w \in Nat, NEW r \in Nat
  PROVE  Cardinality({i \in 0..r - 1 : (w + i) % 7 < 5}) = WeekdaysOf(w + r) - WeekdaysOf(w)
  <1> DEFINE S(n) == {i \in 0..n - 1 : (w + i) % 7 < 5}
             B == {n \in Nat : Cardinality(S(n)) # WeekdaysOf(w + n) - WeekdaysOf(w)}
  <1>1. ASSUME NEW n \in Nat
        PROVE  /\ IsFiniteSet(S(n)) /\ Cardinality(S(n)) \in Nat
               /\ WeekdaysOf(w + n) \in Nat
               /\ WeekdaysOf(w + (n + 1)) = WeekdaysOf(w + n) + IF (w + n) % 7 < 5 THEN 1 ELSE 0
    <2>1. IsFiniteSet(0..n - 1)
      BY FS_Interval
    <2>2. IsFiniteSet(S(n))
      BY <2>1, FS_Subset
    <2>3. PICK k \in Nat : k = w + n
      OBVIOUS
    <2>4. WeekdaysOf(k) \in Nat /\ WeekdaysOf(k + 1) = WeekdaysOf(k) + IF k % 7 < 5 THEN 1 ELSE 0
      BY WeekdaysOfMore
    <2>5. w + (n + 1) = k + 1
      BY <2>3
    <2> HIDE DEF S
    <2>6. QED
      BY <2>2, <2>3, <2>4, <2>5, FS_CardinalityType
  <1>2. B = {}
    <2>1. SUFFICES ASSUME B # {} PROVE FALSE
      OBVIOUS
    <2>2. B \in SUBSET Nat
      OBVIOUS
    <2>3. PICK n \in B : \A l \in B : n <= l
      BY <2>1, <2>2, LeastNatural
    <2>4. n \in Nat /\ Cardinality(S(n)) # WeekdaysOf(w + n) - WeekdaysOf(w)
      BY <2>3
    <2>5. n # 0
      <3>1. S(0) = {}
        OBVIOUS
      <3>2. Cardinality(S(0)) = 0
        BY <3>1, FS_EmptySet
      <3>3. w + 0 = w /\ WeekdaysOf(w) \in Nat
        BY WeekdaysOfMore
      <3> HIDE DEF S, B
      <3>4. QED
        BY <2>4, <3>2, <3>3
    <2> DEFINE k == n - 1
    <2>6. k \in Nat /\ k + 1 = n /\ ~(n <= k)
      BY <2>4, <2>5
    <2>7. Cardinality(S(k)) = WeekdaysOf(w + k) - WeekdaysOf(w)
      BY <2>3, <2>6
    <2>8. /\ IsFiniteSet(S(k)) /\ Cardinality(S(k)) \in Nat /\ WeekdaysOf(w + k) \in Nat
          /\ WeekdaysOf(w + n) = WeekdaysOf(w + k) + IF (w + k) % 7 < 5 THEN 1 ELSE 0
      BY <1>1, <2>6
    <2>9. WeekdaysOf(w) \in Nat
      BY WeekdaysOfMore
    <2>10. S(n) = (IF (w + k) % 7 < 5 THEN S(k) \cup {k} ELSE S(k)) /\ k \notin S(k)
      BY <2>6
    <2> HIDE DEF S, B, k
    <2>11. CASE (w + k) % 7 < 5
      <3>1. Cardinality(S(n)) = Cardinality(S(k)) + 1
        BY <2>8, <2>10, <2>11, FS_AddElement
      <3>2. QED
        BY <2>4, <2>7, <2>8, <2>9, <2>11, <3>1
    <2>12. CASE ~((w + k) % 7 < 5)
      BY <2>4, <2>7, <2>8, <2>9, <2>10, <2>12
    <2>13. QED
      BY <2>11, <2>12
  <1>3. QED
    BY <1>2

\* The weekdays of a stretch are those before its end less those before its
\* start (weekdays_in_range).
LEMMA WeekdaysInIs ==
  ASSUME NEW first \in Nat, NEW last \in Nat, first <= last
  PROVE  WeekdaysIn(first, last) = WeekdaysBefore(last + 1) - WeekdaysBefore(first)
  <1> DEFINE days == last - first + 1
             q == days \div 7
             r == days % 7
             n == FirstWeekday + first
             a == n \div 7
             w == n % 7
  <1>1. FirstWeekday \in Nat
    BY CalendarAssumption
  <1>2. days \in Nat /\ days > 0 /\ q \in Nat /\ r \in Nat /\ days = 7 * q + r
    <2>1. days \in Nat /\ days > 0
      OBVIOUS
    <2> HIDE DEF days
    <2>2. QED
      BY <2>1
  <1>3. n \in Nat /\ a \in Nat /\ w \in Nat /\ n = 7 * a + w
    <2>1. n \in Nat
      BY <1>1
    <2> HIDE DEF n
    <2>2. QED
      BY <2>1
  <1> DEFINE spare == {i \in 0..r - 1 : (w + i) % 7 < 5}
  <1>4. WeekdaysIn(first, last) = 5 * q + Cardinality(spare)
    <2>1. Weekday(first) = w
      BY DEF Weekday
    <2>2. WeekdaysIn(first, last) = IF days <= 0 THEN 0 ELSE 5 * q + Cardinality(spare)
      BY <2>1 DEF WeekdaysIn
    <2>3. ~(days <= 0)
      BY <1>2
    <2> HIDE DEF days, q, spare
    <2>4. QED
      BY <2>2, <2>3
  <1> HIDE DEF a, w, q, r
  <1>5. Cardinality(spare) = WeekdaysOf(w + r) - WeekdaysOf(w)
    BY <1>2, <1>3, SpareDays
  <1>6. WeekdaysBefore(first) = 5 * a + WeekdaysOf(w) /\ WeekdaysOf(w) \in Nat
    <2>1. WeekdaysBefore(first) = WeekdaysOf(7 * a + w)
      BY <1>3 DEF WeekdaysBefore
    <2>2. QED
      BY <1>3, <2>1, WeekdaysOfMore
  <1>7. WeekdaysBefore(last + 1) = 5 * (a + q) + WeekdaysOf(w + r) /\ WeekdaysOf(w + r) \in Nat
    <2> DEFINE m == w + r
               k == a + q
    <2>1. FirstWeekday + (last + 1) = 7 * k + m
      BY <1>1, <1>2, <1>3
    <2>2. m \in Nat /\ k \in Nat
      BY <1>2, <1>3
    <2>3. WeekdaysBefore(last + 1) = WeekdaysOf(7 * k + m)
      BY <2>1 DEF WeekdaysBefore
    <2> HIDE DEF m, k
    <2>4. WeekdaysBefore(last + 1) = 5 * k + WeekdaysOf(m) /\ WeekdaysOf(m) \in Nat
      BY <2>2, <2>3, WeekdaysOfMore
    <2>5. QED
      BY <2>4 DEF m, k
  <1> HIDE DEF spare
  <1>8. QED
    BY <1>2, <1>3, <1>4, <1>5, <1>6, <1>7

-----------------------------------------------------------------------------
(* The months of a stretch.                                                *)

\* Where the parts of a stretch in its months begin, and where it is over.
MarksOf(s, e) ==
  [m \in MonthOf(s)..MonthOf(e) + 1 |-> IF m = MonthOf(e) + 1 THEN e + 1 ELSE Later(s, StartOf(m))]

\* A stretch is the parts of it in its months, each from one mark to the next.
LEMMA MonthsTile ==
  ASSUME NEW s \in Dates, NEW e \in Dates, s <= e
  PROVE  /\ MonthOf(s) \in Nat /\ MonthOf(e) \in Nat /\ MonthOf(s) <= MonthOf(e)
         /\ MonthOf(s)..MonthOf(e) \subseteq Months
         /\ MarksOf(s, e)[MonthOf(s)] = s /\ MarksOf(s, e)[MonthOf(e) + 1] = e + 1
         /\ \A m \in MonthOf(s)..MonthOf(e) + 1 : MarksOf(s, e)[m] \in Nat
         /\ \A m \in MonthOf(s)..MonthOf(e) :
              /\ MarksOf(s, e)[m] = Later(s, StartOf(m))
              /\ MarksOf(s, e)[m + 1] = Earlier(e, EndOf(m)) + 1
              /\ Later(s, StartOf(m)) \in Nat /\ Earlier(e, EndOf(m)) \in Nat
              /\ Later(s, StartOf(m)) <= Earlier(e, EndOf(m))
  <1> DEFINE a == MonthOf(s)
             b == MonthOf(e)
             marks == MarksOf(s, e)
  <1>1. /\ a \in Months /\ StartOf(a) <= s /\ s <= EndOf(a)
        /\ b \in Months /\ StartOf(b) <= e /\ e <= EndOf(b) /\ a <= b
    BY DateIsInItsMonth, MonthOfADate
  <1>2. Months \subseteq Nat /\ s \in Nat /\ e \in Nat
    BY CalendarAssumption DEF Dates, Months
  <1>3. a \in Nat /\ b \in Nat
    <2>1. a \in Months /\ b \in Months
      BY <1>1
    <2>2. Months \subseteq Nat
      BY <1>2
    <2> HIDE DEF a, b
    <2>3. QED
      BY <2>1, <2>2
  <1>4. marks = [m \in a..b + 1 |-> IF m = b + 1 THEN e + 1 ELSE Later(s, StartOf(m))]
    BY DEF MarksOf
  <1> HIDE DEF a, b, marks
  <1>5. a..b \subseteq Months
    BY <1>1, <1>3, CalendarAssumption DEF Months
  <1>6. \A m \in Months : StartOf(m) \in Nat /\ EndOf(m) \in Nat /\ StartOf(m) <= EndOf(m) /\ m \in Nat
    BY <1>2, StartType
  <1>7. ASSUME NEW m \in a..b
        PROVE  /\ m \in a..b + 1 /\ m + 1 \in a..b + 1 /\ m # b + 1 /\ m \in Nat
               /\ StartOf(m) \in Nat /\ EndOf(m) \in Nat /\ StartOf(m) <= EndOf(m)
               /\ StartOf(m) <= e /\ s <= EndOf(m)
    <2>1. m \in Nat /\ a <= m /\ m <= b /\ m \in Months
      BY <1>3, <1>5
    <2>2. StartOf(m) \in Nat /\ EndOf(m) \in Nat /\ StartOf(m) <= EndOf(m)
      BY <1>6, <2>1
    <2>3. StartOf(m) <= e
      <3>1. CASE m = b
        BY <1>1, <3>1
      <3>2. CASE m # b
        <4>1. EndOf(m) < StartOf(b) /\ StartOf(b) \in Nat
          BY <1>1, <1>3, <1>6, <2>1, <3>2, MonthsInOrder
        <4>2. QED
          BY <1>1, <1>2, <2>2, <4>1
      <3>3. QED
        BY <3>1, <3>2
    <2>4. s <= EndOf(m)
      <3>1. CASE m = a
        BY <1>1, <3>1
      <3>2. CASE m # a
        <4>1. EndOf(a) < StartOf(m) /\ EndOf(a) \in Nat
          BY <1>1, <1>3, <1>6, <2>1, <3>2, MonthsInOrder
        <4>2. QED
          BY <1>1, <1>2, <2>2, <4>1
      <3>3. QED
        BY <3>1, <3>2
    <2>5. m \in a..b + 1 /\ m + 1 \in a..b + 1 /\ m # b + 1
      BY <1>3, <2>1
    <2>6. QED
      BY <2>1, <2>2, <2>3, <2>4, <2>5
  <1>8. ASSUME NEW m \in a..b
        PROVE  /\ marks[m] = Later(s, StartOf(m))
               /\ marks[m + 1] = Earlier(e, EndOf(m)) + 1
               /\ Later(s, StartOf(m)) \in Nat /\ Earlier(e, EndOf(m)) \in Nat
               /\ Later(s, StartOf(m)) <= Earlier(e, EndOf(m))
    <2>1. marks[m] = Later(s, StartOf(m))
      BY <1>4, <1>7
    <2>2. /\ Later(s, StartOf(m)) \in Nat /\ Earlier(e, EndOf(m)) \in Nat
          /\ Later(s, StartOf(m)) <= Earlier(e, EndOf(m))
      BY <1>2, <1>7 DEF Later, Earlier
    <2>3. CASE m = b
      <3>1. marks[m + 1] = e + 1
        BY <1>4, <1>7, <2>3
      <3>2. Earlier(e, EndOf(m)) = e
        BY <1>1, <1>2, <1>7, <2>3 DEF Earlier
      <3>3. QED
        BY <2>1, <2>2, <3>1, <3>2
    <2>4. CASE m # b
      <3>1. m + 1 \in a..b /\ m + 1 # b + 1 /\ m + 1 \in Months /\ m < b /\ m \in Months
        BY <1>3, <1>5, <1>7, <2>4
      <3>2. StartOf(m + 1) = EndOf(m) + 1
        BY <3>1, MonthsFollow
      <3>3. EndOf(m) < StartOf(b) /\ StartOf(b) \in Nat
        BY <1>1, <1>6, <3>1, MonthsInOrder
      <3>4. marks[m + 1] = Later(s, StartOf(m + 1))
        BY <1>4, <1>7, <3>1
      <3>5. Later(s, EndOf(m) + 1) = EndOf(m) + 1 /\ Earlier(e, EndOf(m)) = EndOf(m)
        BY <1>1, <1>2, <1>7, <3>3 DEF Later, Earlier
      <3>6. QED
        BY <2>1, <2>2, <3>2, <3>4, <3>5
    <2>5. QED
      BY <2>3, <2>4
  <1>9. marks[a] = s /\ marks[b + 1] = e + 1
    <2>1. a \in a..b /\ b + 1 \in a..b + 1
      BY <1>1, <1>3
    <2>2. Later(s, StartOf(a)) = s
      BY <1>1, <1>2, <1>6 DEF Later
    <2>3. QED
      BY <1>4, <1>8, <2>1, <2>2
  <1>10. ASSUME NEW m \in a..b + 1 PROVE marks[m] \in Nat
    <2>1. m \in a..b \/ m = b + 1
      BY <1>3
    <2>2. QED
      BY <1>2, <1>8, <1>9, <2>1
  <1>11. QED
    BY <1>1, <1>3, <1>5, <1>8, <1>9, <1>10 DEF a, b, marks

\* The months of a contract in a year are those of its part of the year, and
\* what it has of each of them is what that part has.
LEMMA MonthsOfAYear ==
  ASSUME NEW of, of.start \in Dates, of.end \in Dates, of.start <= of.end,
         NEW year \in ContractYears(of)
  PROVE  LET whole == InYear(of, year)
         IN  /\ {m \in ContractMonths(of) : YearOf(m) = year} = MonthOf(whole.start)..MonthOf(whole.end)
             /\ \A m \in MonthOf(whole.start)..MonthOf(whole.end) :
                  InMonth(of, m) = [start |-> Later(whole.start, StartOf(m)),
                                    end |-> Earlier(whole.end, EndOf(m))]
  <1> DEFINE whole == InYear(of, year)
             s == whole.start
             e == whole.end
             a == MonthOf(of.start)
             b == MonthOf(of.end)
             first == January(year)
             last == December(year)
  <1>1. /\ s \in Dates /\ e \in Dates /\ s <= e /\ of.start <= s /\ e <= of.end
        /\ first <= MonthOf(s) /\ MonthOf(e) <= last
        /\ year \in Years /\ first \in Months /\ last \in Months
        /\ s = Later(of.start, StartOf(first)) /\ e = Earlier(of.end, EndOf(last))
    BY PartOfAYear
  <1>2. Months \subseteq Nat /\ Dates \subseteq Nat /\ first = 12 * year /\ last = 12 * year + 11 /\ year \in Nat
    BY <1>1, CalendarAssumption DEF Dates, Months, January, December, Years
  <1>3. /\ a \in Months /\ StartOf(a) <= of.start /\ of.start <= EndOf(a)
        /\ b \in Months /\ StartOf(b) <= of.end /\ of.end <= EndOf(b)
    BY DateIsInItsMonth
  <1> HIDE DEF whole, s, e, a, b, first, last
  <1>4. /\ a \in Nat /\ b \in Nat /\ first \in Nat /\ last \in Nat
        /\ s \in Nat /\ e \in Nat /\ of.start \in Nat /\ of.end \in Nat
    BY <1>1, <1>2, <1>3
  <1>5. \A m \in Months : StartOf(m) \in Nat /\ EndOf(m) \in Nat /\ StartOf(m) <= EndOf(m) /\ m \in Nat
    BY <1>2, StartType
  <1>6. \A m, n \in Months : m <= n => StartOf(m) <= StartOf(n) /\ EndOf(m) <= EndOf(n)
    <2> SUFFICES ASSUME NEW m \in Months, NEW n \in Months, m <= n
                 PROVE  StartOf(m) <= StartOf(n) /\ EndOf(m) <= EndOf(n)
      OBVIOUS
    <2>1. CASE m = n
      BY <1>5, <2>1
    <2>2. CASE m # n
      <3>1. EndOf(m) < StartOf(n)
        BY <1>5, <2>2, MonthsInOrder
      <3>2. QED
        BY <1>5, <3>1
    <2>3. QED
      BY <2>1, <2>2
  <1>7. MonthOf(s) = IF a > first THEN a ELSE first
    <2>1. CASE a > first
      <3>1. EndOf(first) < StartOf(a)
        BY <1>1, <1>3, <1>4, <2>1, MonthsInOrder
      <3>2. StartOf(first) \in Nat /\ EndOf(first) \in Nat /\ StartOf(first) <= EndOf(first) /\ StartOf(a) \in Nat
        BY <1>1, <1>3, <1>5
      <3>3. s = of.start
        BY <1>1, <1>3, <1>4, <3>1, <3>2 DEF Later
      <3>4. QED
        BY <2>1, <3>3 DEF a
    <2>2. CASE ~(a > first)
      <3>1. a <= first
        BY <1>4, <2>2
      <3>2. EndOf(a) <= EndOf(first) /\ EndOf(a) \in Nat
        BY <1>1, <1>3, <1>5, <1>6, <3>1
      <3>3. StartOf(first) \in Nat /\ EndOf(first) \in Nat /\ StartOf(first) <= EndOf(first)
        BY <1>1, <1>5
      <3>4. StartOf(first) <= s /\ s <= EndOf(first)
        BY <1>1, <1>3, <1>4, <3>2, <3>3 DEF Later
      <3>5. MonthOf(s) = first
        BY <1>1, <3>4, MonthOfADate
      <3>6. QED
        BY <2>2, <3>5
    <2>3. QED
      BY <2>1, <2>2
  <1>8. MonthOf(e) = IF b < last THEN b ELSE last
    <2>1. CASE b < last
      <3>1. EndOf(b) < StartOf(last)
        BY <1>1, <1>3, <1>4, <2>1, MonthsInOrder
      <3>2. StartOf(last) \in Nat /\ EndOf(last) \in Nat /\ StartOf(last) <= EndOf(last) /\ EndOf(b) \in Nat
        BY <1>1, <1>3, <1>5
      <3>3. e = of.end
        BY <1>1, <1>3, <1>4, <3>1, <3>2 DEF Earlier
      <3>4. QED
        BY <2>1, <3>3 DEF b
    <2>2. CASE ~(b < last)
      <3>1. last <= b
        BY <1>4, <2>2
      <3>2. StartOf(last) <= StartOf(b) /\ StartOf(b) \in Nat
        BY <1>1, <1>3, <1>5, <1>6, <3>1
      <3>3. StartOf(last) \in Nat /\ EndOf(last) \in Nat /\ StartOf(last) <= EndOf(last)
        BY <1>1, <1>5
      <3>4. StartOf(last) <= e /\ e <= EndOf(last)
        BY <1>1, <1>3, <1>4, <3>2, <3>3 DEF Earlier
      <3>5. MonthOf(e) = last
        BY <1>1, <3>4, MonthOfADate
      <3>6. QED
        BY <2>2, <3>5
    <2>3. QED
      BY <2>1, <2>2
  <1>9. {m \in a..b : YearOf(m) = year} = MonthOf(s)..MonthOf(e)
    <2>1. \A m \in Nat : YearOf(m) = year <=> first <= m /\ m <= last
      BY <1>2 DEF YearOf
    <2>2. \A m \in a..b : m \in Nat
      BY <1>4
    <2>3. QED
      BY <1>4, <1>7, <1>8, <2>1, <2>2
  <1>10. ContractMonths(of) = a..b
    BY DEF ContractMonths, a, b
  <1>11. ASSUME NEW m \in MonthOf(s)..MonthOf(e)
         PROVE  InMonth(of, m) = [start |-> Later(s, StartOf(m)), end |-> Earlier(e, EndOf(m))]
    <2>1. m \in Nat /\ first <= m /\ m <= last /\ a <= m /\ m <= b
      BY <1>4, <1>7, <1>8
    <2>2. m \in Months
      BY <1>1, <1>4, <2>1, CalendarAssumption DEF Months
    <2>3. StartOf(first) <= StartOf(m) /\ EndOf(m) <= EndOf(last)
      BY <1>1, <1>6, <2>1, <2>2
    <2>4. /\ StartOf(m) \in Nat /\ EndOf(m) \in Nat /\ StartOf(first) \in Nat /\ EndOf(last) \in Nat
      BY <1>1, <1>5, <2>2
    <2>5. Later(s, StartOf(m)) = Later(of.start, StartOf(m)) /\ Earlier(e, EndOf(m)) = Earlier(of.end, EndOf(m))
      BY <1>1, <1>4, <2>3, <2>4 DEF Later, Earlier
    <2>6. InMonth(of, m) = [start |-> Later(of.start, StartOf(m)), end |-> Earlier(of.end, EndOf(m))]
      BY DEF InMonth, Clamp, Term
    <2>7. QED
      BY <2>5, <2>6
  <1>12. QED
    BY <1>9, <1>10, <1>11 DEF s, e, whole

-----------------------------------------------------------------------------
(* What a year and its months count.                                       *)

\* Hours booked off are numbers, of finitely many dates.
IsBooked(booked) == IsValued(DOMAIN booked, booked) /\ DOMAIN booked \subseteq Nat

\* The hours booked off before a date.
OffBefore(booked, date) == TotalOver(booked, {d \in DOMAIN booked : d < date})

\* The hours off in a stretch are those before its end less those before its
\* start.
LEMMA HoursOffIs ==
  ASSUME NEW booked, IsBooked(booked),
         NEW first \in Nat, NEW last \in Nat, first <= last
  PROVE  /\ HoursOff(booked, first..last) = OffBefore(booked, last + 1) - OffBefore(booked, first)
         /\ HoursOff(booked, first..last) = TotalOver(booked, DOMAIN booked \cap (first..last))
         /\ OffBefore(booked, last + 1) \in Int /\ OffBefore(booked, first) \in Int
  <1> DEFINE D == DOMAIN booked
             within == D \cap (first..last)
             before == {d \in D : d < first}
             upto == {d \in D : d < last + 1}
             off == [d \in within |-> booked[d]]
  <1>1. D \subseteq Nat
    BY DEF IsBooked
  <1>2. within \in SUBSET D /\ before \in SUBSET D /\ before \cap within = {} /\ upto = before \cup within
    BY <1>1
  <1>3. /\ OffBefore(booked, first) = TotalOver(booked, before)
        /\ OffBefore(booked, last + 1) = TotalOver(booked, upto)
    BY DEF OffBefore
  <1>4. HoursOff(booked, first..last) = TotalOver(off, within)
    <2>1. HoursOff(booked, first..last) = SumOf(off)
      BY DEF HoursOff
    <2>2. DOMAIN off = within
      OBVIOUS
    <2> HIDE DEF off, within
    <2>3. QED
      BY <2>1, <2>2, SumOfIsTotal
  <1>5. IsValued(within, off) /\ \A d \in within : off[d] = booked[d]
    <2>1. IsFiniteSet(D) /\ within \in SUBSET D
      BY <1>2 DEF IsBooked, IsValued
    <2>2. IsFiniteSet(within)
      BY <2>1, FS_Subset
    <2>3. \A d \in within : off[d] = booked[d] /\ off[d] \in Int
      BY DEF IsBooked, IsValued
    <2> HIDE DEF off, within
    <2>4. QED
      BY <2>2, <2>3 DEF IsValued
  <1> HIDE DEF D, within, before, upto, off
  <1>6. TotalOver(off, within) = TotalOver(booked, within)
    BY <1>5, SameTotal
  <1>7. IsValued(D, booked)
    BY DEF D, IsBooked
  <1>8. TotalOver(booked, upto) = TotalOver(booked, before) + TotalOver(booked, within)
    BY <1>2, <1>7, TotalOfParts
  <1>9. TotalOver(booked, before) \in Int /\ TotalOver(booked, within) \in Int
    BY <1>2, <1>7, TotalAddsUp
  <1>10. QED
    BY <1>3, <1>4, <1>6, <1>8, <1>9 DEF D, within

\* The weekdays and the hours off of a year are its months' added up, whatever
\* is booked and whatever the contract's term (calculate_stats,
\* monthly_summary).
LEMMA YearIsItsMonths ==
  ASSUME NEW of, of.start \in Dates, of.end \in Dates, of.start <= of.end,
         NEW booked, IsBooked(booked),
         NEW year \in ContractYears(of)
  PROVE  LET months == MonthlySummary(of, booked)
             stats == YearStats(of, booked, {}, {}, year)
             mine == {m \in DOMAIN months : YearOf(m) = year}
         IN  /\ stats.total_weekdays = SumOf([m \in mine |-> months[m].weekdays])
             /\ stats.hours_off = SumOf([m \in mine |-> months[m].hours_off])
  <1> DEFINE months == MonthlySummary(of, booked)
             stats == YearStats(of, booked, {}, {}, year)
             mine == {m \in DOMAIN months : YearOf(m) = year}
             whole == InYear(of, year)
             s == whole.start
             e == whole.end
             a == MonthOf(s)
             b == MonthOf(e)
             marks == MarksOf(s, e)
             weekdays == [m \in mine |-> months[m].weekdays]
             off == [m \in mine |-> months[m].hours_off]
  <1>1. s \in Dates /\ e \in Dates /\ s <= e
    BY PartOfAYear
  <1>2. stats.total_weekdays = WeekdaysIn(s, e) /\ stats.hours_off = HoursOff(booked, s..e)
    BY DEF YearStats, Days
  <1>3. mine = a..b
    <2>1. DOMAIN months = ContractMonths(of)
      BY DEF MonthlySummary
    <2>2. QED
      BY <2>1, MonthsOfAYear
  <1>4. \A m \in a..b : InMonth(of, m) = [start |-> Later(s, StartOf(m)), end |-> Earlier(e, EndOf(m))]
    BY MonthsOfAYear
  <1>5. ASSUME NEW m \in a..b
        PROVE  /\ weekdays[m] = WeekdaysIn(Later(s, StartOf(m)), Earlier(e, EndOf(m)))
               /\ off[m] = HoursOff(booked, Later(s, StartOf(m))..Earlier(e, EndOf(m)))
    <2>1. m \in mine /\ m \in ContractMonths(of)
      BY <1>3 DEF MonthlySummary
    <2>2. /\ weekdays[m] = WeekdaysIn(InMonth(of, m).start, InMonth(of, m).end)
          /\ off[m] = HoursOff(booked, InMonth(of, m).start..InMonth(of, m).end)
      BY <2>1 DEF MonthlySummary, Days
    <2>3. /\ InMonth(of, m).start = Later(s, StartOf(m)) /\ InMonth(of, m).end = Earlier(e, EndOf(m))
      BY <1>4
    <2>4. QED
      BY <2>2, <2>3
  <1>6. DOMAIN weekdays = a..b /\ DOMAIN off = a..b
    BY <1>3
  <1> HIDE DEF months, stats, mine, weekdays, off, whole, s, e
  <1>7. /\ a \in Nat /\ b \in Nat /\ a <= b
        /\ marks[a] = s /\ marks[b + 1] = e + 1
        /\ \A m \in a..b + 1 : marks[m] \in Nat
        /\ \A m \in a..b : /\ marks[m] = Later(s, StartOf(m)) /\ marks[m + 1] = Earlier(e, EndOf(m)) + 1
                           /\ Later(s, StartOf(m)) \in Nat /\ Earlier(e, EndOf(m)) \in Nat
                           /\ Later(s, StartOf(m)) <= Earlier(e, EndOf(m))
    BY <1>1, MonthsTile
  <1>8. s \in Nat /\ e \in Nat
    BY <1>1, CalendarAssumption DEF Dates
  <1> HIDE DEF a, b, marks
  <1>9. \A n \in Nat : WeekdaysBefore(n) \in Int
    <2> SUFFICES ASSUME NEW n \in Nat PROVE WeekdaysBefore(n) \in Int
      OBVIOUS
    <2>1. FirstWeekday + n \in Nat
      BY CalendarAssumption
    <2>2. QED
      BY <2>1, WeekdaysOfMore DEF WeekdaysBefore
  <1>10. WeekdaysIn(s, e) = SumOf(weekdays)
    <2> DEFINE w == [m \in a..b + 1 |-> WeekdaysBefore(marks[m])]
    <2>1. \A m \in a..b + 1 : w[m] \in Int /\ w[m] = WeekdaysBefore(marks[m])
      BY <1>7, <1>9
    <2>2. ASSUME NEW m \in a..b PROVE weekdays[m] = w[m + 1] - w[m]
      <3>1. m \in a..b + 1 /\ m + 1 \in a..b + 1
        BY <1>7
      <3> DEFINE from == Later(s, StartOf(m))
                 to == Earlier(e, EndOf(m))
      <3>2. from \in Nat /\ to \in Nat /\ from <= to /\ marks[m] = from /\ marks[m + 1] = to + 1
        BY <1>7
      <3>3. weekdays[m] = WeekdaysIn(from, to)
        BY <1>5
      <3> HIDE DEF from, to
      <3>4. WeekdaysIn(from, to) = WeekdaysBefore(to + 1) - WeekdaysBefore(from)
        BY <3>2, WeekdaysInIs
      <3>5. QED
        BY <3>1, <3>2, <3>3, <3>4
    <2>3. w[a] = WeekdaysBefore(s) /\ w[b + 1] = WeekdaysBefore(e + 1)
      <3>1. a \in a..b + 1 /\ b + 1 \in a..b + 1
        BY <1>7
      <3>2. QED
        BY <1>7, <3>1
    <2> HIDE DEF w
    <2>4. TotalOver(weekdays, a..b) = w[b + 1] - w[a]
      <3>1. a \in Nat /\ b \in Nat /\ a <= b
        BY <1>7
      <3>2. \A m \in a..b + 1 : w[m] \in Int
        BY <2>1
      <3>3. \A m \in a..b : weekdays[m] = w[m + 1] - w[m]
        BY <2>2
      <3>4. QED
        BY <3>1, <3>2, <3>3, TotalTelescopes
    <2>5. SumOf(weekdays) = TotalOver(weekdays, a..b)
      BY <1>6, SumOfIsTotal
    <2>6. WeekdaysIn(s, e) = WeekdaysBefore(e + 1) - WeekdaysBefore(s)
      BY <1>1, <1>8, WeekdaysInIs
    <2>7. QED
      BY <2>3, <2>4, <2>5, <2>6
  <1>11. HoursOff(booked, s..e) = SumOf(off)
    <2> DEFINE w == [m \in a..b + 1 |-> OffBefore(booked, marks[m])]
    <2>1. \A n \in Nat : OffBefore(booked, n) \in Int
      <3> SUFFICES ASSUME NEW n \in Nat PROVE OffBefore(booked, n) \in Int
        OBVIOUS
      <3>1. n <= n
        OBVIOUS
      <3>2. QED
        BY <3>1, HoursOffIs
    <2>2. \A m \in a..b + 1 : w[m] \in Int /\ w[m] = OffBefore(booked, marks[m])
      BY <1>7, <2>1
    <2>3. ASSUME NEW m \in a..b PROVE off[m] = w[m + 1] - w[m]
      <3>1. m \in a..b + 1 /\ m + 1 \in a..b + 1
        BY <1>7
      <3> DEFINE from == Later(s, StartOf(m))
                 to == Earlier(e, EndOf(m))
      <3>2. from \in Nat /\ to \in Nat /\ from <= to /\ marks[m] = from /\ marks[m + 1] = to + 1
        BY <1>7
      <3>3. off[m] = HoursOff(booked, from..to)
        BY <1>5
      <3> HIDE DEF from, to
      <3>4. HoursOff(booked, from..to) = OffBefore(booked, to + 1) - OffBefore(booked, from)
        BY <3>2, HoursOffIs
      <3>5. QED
        BY <3>1, <3>2, <3>3, <3>4
    <2>4. w[a] = OffBefore(booked, s) /\ w[b + 1] = OffBefore(booked, e + 1)
      <3>1. a \in a..b + 1 /\ b + 1 \in a..b + 1
        BY <1>7
      <3>2. QED
        BY <1>7, <3>1
    <2> HIDE DEF w
    <2>5. TotalOver(off, a..b) = w[b + 1] - w[a]
      <3>1. a \in Nat /\ b \in Nat /\ a <= b
        BY <1>7
      <3>2. \A m \in a..b + 1 : w[m] \in Int
        BY <2>2
      <3>3. \A m \in a..b : off[m] = w[m + 1] - w[m]
        BY <2>3
      <3>4. QED
        BY <3>1, <3>2, <3>3, TotalTelescopes
    <2>6. SumOf(off) = TotalOver(off, a..b)
      BY <1>6, SumOfIsTotal
    <2>7. HoursOff(booked, s..e) = OffBefore(booked, e + 1) - OffBefore(booked, s)
      BY <1>1, <1>8, HoursOffIs
    <2>8. QED
      BY <2>4, <2>5, <2>6, <2>7
  <1>12. QED
    BY <1>2, <1>10, <1>11 DEF months, stats, mine, weekdays, off

-----------------------------------------------------------------------------
(* What a month's days come to.                                            *)

\* What is left of a day of so many hours after what is booked off it.
Left(booked, length, d) == length - IF d \in DOMAIN booked THEN booked[d] ELSE 0

\* Every day of a stretch has what is left of it.
AreLeft(hours, booked, length, x, y) == \A d \in x..y : hours[d] = Left(booked, length, d)

\* The weekdays of it that have any.
WorkedOn(hours, x, y) == {d \in x..y : ~IsWeekend(d) /\ hours[d] > 0}

\* What is booked off is a number of hours of weekdays.
IsOff(booked) == IsBooked(booked) /\ \A d \in DOMAIN booked : ~IsWeekend(d)

\* The hours of a stretch's weekdays, less those off, are what the days with
\* any left come to, and less where a day has more off than it has hours.
LEMMA HoursOfAStretch ==
  ASSUME NEW x \in Nat, NEW y \in Nat, x <= y, NEW length \in Nat,
         NEW booked, IsOff(booked), NEW hours, AreLeft(hours, booked, length, x, y)
  PROVE  LET worked == WorkedOn(hours, x, y)
             net == WeekdaysIn(x, y) * length - HoursOff(booked, x..y)
             tooLong == {d \in (x..y) \cap DOMAIN booked : booked[d] > length}
         IN  IF tooLong = {} THEN TotalOver(hours, worked) = net ELSE TotalOver(hours, worked) > net
  <1>0. /\ IsBooked(booked) /\ IsValued(DOMAIN booked, booked)
        /\ \A d \in DOMAIN booked : ~IsWeekend(d)
        /\ \A d \in x..y : hours[d] = Left(booked, length, d)
    BY DEF IsOff, IsBooked, AreLeft
  <1> DEFINE D == DOMAIN booked
             P == x..y
             worked == WorkedOn(hours, x, y)
             tooLong == {d \in P \cap D : booked[d] > length}
             off == [d \in P |-> IF d \in D THEN booked[d] ELSE 0]
             long == [d \in P |-> IF IsWeekend(d) THEN 0 ELSE length]
             net == [d \in P |-> long[d] - off[d]]
             kept == [d \in P |-> IF d \in worked THEN hours[d] ELSE 0]
             marks == [n \in x..y + 1 |-> WeekdaysBefore(n) * length]
  <1>1. /\ \A d \in P : /\ off[d] = (IF d \in D THEN booked[d] ELSE 0) /\ off[d] \in Int
                        /\ long[d] = (IF IsWeekend(d) THEN 0 ELSE length) /\ long[d] \in Int
                        /\ net[d] = long[d] - off[d] /\ net[d] \in Int
        /\ IsFiniteSet(P)
    <2>1. \A d \in P : (IF d \in D THEN booked[d] ELSE 0) \in Int
      BY <1>0 DEF IsValued
    <2>2. \A d \in P : (IF IsWeekend(d) THEN 0 ELSE length) \in Int
      OBVIOUS
    <2>3. IsFiniteSet(P)
      BY FS_Interval
    <2>4. QED
      BY <2>1, <2>2, <2>3
  <1>2. \A d \in P : hours[d] = length - off[d] /\ hours[d] \in Int
    BY <1>0, <1>1 DEF Left
  <1>3. /\ worked \in SUBSET P
        /\ \A d \in P : /\ kept[d] = (IF d \in worked THEN hours[d] ELSE 0) /\ kept[d] \in Int
                        /\ d \in worked <=> ~IsWeekend(d) /\ hours[d] > 0
    BY <1>2 DEF WorkedOn
  <1>4. \A d \in P : IsWeekend(d) => off[d] = 0
    BY <1>0, <1>1
  <1>5. \A d \in P : /\ net[d] <= kept[d]
                     /\ net[d] < kept[d] <=> d \in tooLong
                     /\ ~(net[d] < kept[d]) => net[d] = kept[d]
    <2> SUFFICES ASSUME NEW d \in P
                 PROVE  /\ net[d] <= kept[d]
                        /\ net[d] < kept[d] <=> d \in tooLong
                        /\ ~(net[d] < kept[d]) => net[d] = kept[d]
      OBVIOUS
    <2>1. d \in tooLong <=> off[d] > length
      <3>1. d \in tooLong <=> d \in D /\ booked[d] > length
        OBVIOUS
      <3>2. ~(0 > length)
        OBVIOUS
      <3> HIDE DEF tooLong, off
      <3>3. QED
        BY <1>1, <3>1, <3>2
    <2> HIDE DEF tooLong, net, kept, off, long, P
    <2>2. CASE IsWeekend(d)
      <3>1. net[d] = 0 /\ kept[d] = 0 /\ off[d] = 0
        BY <1>1, <1>3, <1>4, <2>2
      <3>2. QED
        BY <2>1, <3>1
    <2>3. CASE ~IsWeekend(d)
      <3>1. net[d] = hours[d] /\ hours[d] = length - off[d] /\ hours[d] \in Int /\ off[d] \in Int
        BY <1>1, <1>2, <2>3
      <3>2. kept[d] = IF hours[d] > 0 THEN hours[d] ELSE 0
        BY <1>3, <2>3
      <3>3. CASE hours[d] > 0
        BY <2>1, <3>1, <3>2, <3>3
      <3>4. CASE hours[d] = 0
        BY <2>1, <3>1, <3>2, <3>4
      <3>5. CASE hours[d] < 0
        BY <2>1, <3>1, <3>2, <3>5
      <3>6. QED
        BY <3>1, <3>3, <3>4, <3>5
    <2>4. QED
      BY <2>2, <2>3
  <1>6. tooLong \in SUBSET P
    OBVIOUS
  <1>7. \A n \in x..y + 1 : marks[n] = WeekdaysBefore(n) * length /\ WeekdaysBefore(n) \in Int /\ marks[n] \in Int
    <2> SUFFICES ASSUME NEW n \in x..y + 1
                 PROVE  WeekdaysBefore(n) \in Int /\ WeekdaysBefore(n) * length \in Int
      OBVIOUS
    <2>1. FirstWeekday + n \in Nat
      BY CalendarAssumption
    <2>2. WeekdaysBefore(n) \in Int
      BY <2>1, WeekdaysOfMore DEF WeekdaysBefore
    <2>3. QED
      BY <2>2
  <1>8. \A d \in P : long[d] = marks[d + 1] - marks[d]
    <2> SUFFICES ASSUME NEW d \in P PROVE long[d] = marks[d + 1] - marks[d]
      OBVIOUS
    <2>1. d \in x..y + 1 /\ d + 1 \in x..y + 1
      OBVIOUS
    <2>2. FirstWeekday + d \in Nat /\ FirstWeekday + (d + 1) = FirstWeekday + d + 1
      BY CalendarAssumption
    <2>3. WeekdaysBefore(d + 1) = WeekdaysBefore(d) + IF IsWeekend(d) THEN 0 ELSE 1
      <3>1. PICK n \in Nat : n = FirstWeekday + d
        BY <2>2
      <3>2. WeekdaysOf(n + 1) = WeekdaysOf(n) + (IF n % 7 < 5 THEN 1 ELSE 0)
        BY WeekdaysOfMore
      <3>3. WeekdaysBefore(d) = WeekdaysOf(n) /\ WeekdaysBefore(d + 1) = WeekdaysOf(n + 1)
        BY <2>2, <3>1 DEF WeekdaysBefore
      <3>4. IsWeekend(d) <=> ~(n % 7 < 5)
        BY <3>1 DEF IsWeekend, Weekday
      <3>5. QED
        BY <3>2, <3>3, <3>4
    <2>4. PICK c \in Int : c = WeekdaysBefore(d)
      BY <1>7, <2>1
    <2>5. marks[d] = c * length /\ marks[d + 1] = (c + IF IsWeekend(d) THEN 0 ELSE 1) * length
      BY <1>7, <2>1, <2>3, <2>4
    <2>6. (c + 1) * length = c * length + length /\ (c + 0) * length = c * length /\ c * length \in Int
      OBVIOUS
    <2> HIDE DEF marks
    <2>7. CASE IsWeekend(d)
      BY <1>1, <2>5, <2>6, <2>7
    <2>8. CASE ~IsWeekend(d)
      BY <1>1, <2>5, <2>6, <2>8
    <2>9. QED
      BY <2>7, <2>8
  <1> HIDE DEF off, long, net, kept, marks, tooLong, worked
  <1>9. IsValued(P, off) /\ IsValued(P, long) /\ IsValued(P, net) /\ IsValued(P, kept)
    <2> HIDE DEF P
    <2>1. QED
      BY <1>1, <1>3 DEF IsValued
  <1>10. TotalOver(long, P) = WeekdaysIn(x, y) * length
    <2>1. \A n \in x..y + 1 : marks[n] \in Int
      BY <1>7
    <2>2. \A d \in x..y : long[d] = marks[d + 1] - marks[d]
      BY <1>8
    <2>3. TotalOver(long, x..y) = marks[y + 1] - marks[x]
      BY <2>1, <2>2, TotalTelescopes
    <2>4. x \in x..y + 1 /\ y + 1 \in x..y + 1
      OBVIOUS
    <2>5. /\ marks[x] = WeekdaysBefore(x) * length /\ WeekdaysBefore(x) \in Int
          /\ marks[y + 1] = WeekdaysBefore(y + 1) * length /\ WeekdaysBefore(y + 1) \in Int
      BY <1>7, <2>4
    <2>6. WeekdaysIn(x, y) = WeekdaysBefore(y + 1) - WeekdaysBefore(x)
      BY WeekdaysInIs
    <2>7. PICK b \in Int, a \in Int : a = WeekdaysBefore(x) /\ b = WeekdaysBefore(y + 1)
      BY <2>5
    <2>8. (b - a) * length = b * length - a * length
      OBVIOUS
    <2>9. QED
      BY <2>3, <2>5, <2>6, <2>7, <2>8
  <1>11. TotalOver(off, P) = HoursOff(booked, x..y)
    <2> DEFINE within == P \cap D
    <2>1. within \in SUBSET P /\ \A d \in P \ within : off[d] = 0
      BY <1>1
    <2> HIDE DEF within, P
    <2>2. TotalOver(off, P) = TotalOver(off, within)
      BY <1>9, <2>1, TotalOfTheRest
    <2>3. IsValued(within, off) /\ \A d \in within : off[d] = booked[d]
      <3>1. \A d \in within : off[d] = booked[d] /\ off[d] \in Int
        BY <1>1, <2>1 DEF within
      <3>2. IsFiniteSet(within)
        BY <1>1, <2>1, FS_Subset
      <3>3. QED
        BY <3>1, <3>2 DEF IsValued
    <2>4. TotalOver(off, within) = TotalOver(booked, within)
      BY <2>3, SameTotal
    <2>5. HoursOff(booked, x..y) = TotalOver(booked, D \cap (x..y))
      BY <1>0, HoursOffIs
    <2>6. within = D \cap (x..y)
      BY DEF within, P
    <2>7. QED
      BY <2>2, <2>4, <2>5, <2>6
  <1> HIDE DEF P
  <1>12. TotalOver(net, P) = TotalOver(long, P) - TotalOver(off, P)
    <2>1. \A d \in P : net[d] = long[d] - off[d]
      BY <1>1
    <2>2. QED
      BY <1>9, <2>1, TotalOfDifferences
  <1>13. TotalOver(kept, P) = TotalOver(hours, worked)
    <2>1. \A d \in P \ worked : kept[d] = 0
      BY <1>3
    <2>2. TotalOver(kept, P) = TotalOver(kept, worked)
      BY <1>3, <1>9, <2>1, TotalOfTheRest
    <2>3. \A d \in worked : kept[d] = hours[d]
      BY <1>3
    <2>4. IsValued(worked, kept)
      <3>1. \A d \in worked : kept[d] \in Int
        BY <1>3
      <3>2. IsFiniteSet(worked)
        BY <1>1, <1>3, FS_Subset
      <3>3. QED
        BY <3>1, <3>2 DEF IsValued
    <2>5. TotalOver(kept, worked) = TotalOver(hours, worked)
      BY <2>3, <2>4, SameTotal
    <2>6. QED
      BY <2>2, <2>5
  <1>14. tooLong = {} => TotalOver(kept, P) = TotalOver(net, P)
    <2> SUFFICES ASSUME tooLong = {} PROVE TotalOver(net, P) = TotalOver(kept, P)
      OBVIOUS
    <2>1. \A d \in P : net[d] = kept[d]
      BY <1>5
    <2>2. QED
      BY <1>9, <2>1, SameTotal
  <1>15. tooLong # {} => TotalOver(net, P) < TotalOver(kept, P)
    <2> SUFFICES ASSUME tooLong # {} PROVE TotalOver(net, P) < TotalOver(kept, P)
      OBVIOUS
    <2>1. \A d \in P : net[d] <= kept[d]
      BY <1>5
    <2>2. \E d \in P : net[d] < kept[d]
      BY <1>5, <1>6
    <2>3. P \in SUBSET P
      OBVIOUS
    <2>4. QED
      BY <1>9, <2>1, <2>2, <2>3, TotalsCompare
  <1>16. TotalOver(net, P) \in Int /\ TotalOver(kept, P) \in Int
    <2>1. P \in SUBSET P
      OBVIOUS
    <2>2. QED
      BY <1>9, <2>1, TotalAddsUp
  <1> DEFINE sum == WeekdaysIn(x, y) * length - HoursOff(booked, x..y)
  <1>17. TotalOver(net, P) = sum
    BY <1>10, <1>11, <1>12
  <1> HIDE DEF sum
  <1>18. IF tooLong = {} THEN TotalOver(hours, worked) = sum ELSE TotalOver(hours, worked) > sum
    BY <1>13, <1>14, <1>15, <1>16, <1>17
  <1>19. QED
    BY <1>18 DEF sum, tooLong, worked, P

\* The days listed as worked in a month come to the month's own net, and to
\* more only where a row takes more off a day than a day has (worked_days,
\* monthly_summary).
LEMMA MonthIsItsDays ==
  ASSUME NEW of, of.start \in Dates, of.end \in Dates, of.start <= of.end, of.hours \in Nat,
         NEW booked, IsOff(booked), NEW m \in ContractMonths(of)
  PROVE  LET net == MonthlySummary(of, booked)[m].net_hours
             worked == HoursIn(WorkedDays(of, booked, m))
             tooLong == {d \in Days(InMonth(of, m)) \cap DOMAIN booked : booked[d] > HoursPerDay(of)}
         IN  IF tooLong = {} THEN worked = net ELSE worked > net
  <1> DEFINE x == Later(of.start, StartOf(m))
             y == Earlier(of.end, EndOf(m))
             length == HoursPerDay(of)
             hours == [d \in x..y |-> length - IF d \in DOMAIN booked THEN booked[d] ELSE 0]
             worked == {d \in x..y : ~IsWeekend(d) /\ hours[d] > 0}
             listed == [d \in worked |-> hours[d]]
  <1>1. x \in Nat /\ y \in Nat /\ x <= y
    BY MonthsTile DEF ContractMonths
  <1>2. length \in Nat
    BY DEF HoursPerDay
  <1>3. InMonth(of, m) = [start |-> x, end |-> y]
    BY DEF InMonth, Clamp, Term
  <1>4. Days(InMonth(of, m)) = x..y
    BY <1>3 DEF Days
  <1>5. MonthlySummary(of, booked)[m].net_hours = WeekdaysIn(x, y) * length - HoursOff(booked, x..y)
    <2> HIDE DEF x, y
    <2>1. /\ InMonth(of, m).start = x /\ InMonth(of, m).end = y
      BY <1>3
    <2>2. QED
      BY <1>4, <2>1 DEF MonthlySummary
  <1>6. WorkedDays(of, booked, m) = listed
    <2> HIDE DEF x, y
    <2>1. WorkedDays(of, booked, m) =
            LET h == [d \in x..y |-> length - IF d \in DOMAIN booked THEN booked[d] ELSE 0]
            IN  [d \in {e \in DOMAIN h : ~IsWeekend(e) /\ h[e] > 0} |-> h[d]]
      BY <1>4 DEF WorkedDays
    <2>2. DOMAIN hours = x..y
      OBVIOUS
    <2>3. QED
      BY <2>1, <2>2
  <1>7. AreLeft(hours, booked, length, x, y) /\ WorkedOn(hours, x, y) = worked
    BY DEF Left, AreLeft, WorkedOn
  <1>8. HoursIn(listed) = TotalOver(listed, worked)
    <2>1. DOMAIN listed = worked
      OBVIOUS
    <2> HIDE DEF listed, worked
    <2>2. QED
      BY <2>1, SumOfIsTotal DEF HoursIn
  <1>9. TotalOver(listed, worked) = TotalOver(hours, worked)
    <2>1. \A d \in x..y : hours[d] \in Int
      <3> HIDE DEF x, y, length
      <3>1. \A d \in x..y : hours[d] = length - IF d \in DOMAIN booked THEN booked[d] ELSE 0
        OBVIOUS
      <3>2. \A d \in DOMAIN booked : booked[d] \in Int
        BY DEF IsOff, IsBooked, IsValued
      <3> HIDE DEF hours
      <3>3. QED
        BY <1>2, <3>1, <3>2
    <2> HIDE DEF hours
    <2>2. \A d \in worked : listed[d] = hours[d] /\ listed[d] \in Int
      BY <2>1
    <2>3. IsFiniteSet(worked)
      <3> DEFINE all == 0..y
      <3>1. worked \in SUBSET all /\ IsFiniteSet(all)
        BY <1>1, FS_Interval
      <3> HIDE DEF all, worked
      <3>2. QED
        BY <3>1, FS_Subset
    <2> HIDE DEF listed, worked, y
    <2>4. IsValued(worked, listed)
      BY <1>1, <2>2, <2>3 DEF IsValued
    <2>5. QED
      BY <2>2, <2>4, SameTotal
  <1> HIDE DEF hours, x, y, length, listed
  <1> DEFINE net == WeekdaysIn(x, y) * length - HoursOff(booked, x..y)
             tooLong == {d \in (x..y) \cap DOMAIN booked : booked[d] > length}
  <1>10. IF tooLong = {} THEN TotalOver(hours, WorkedOn(hours, x, y)) = net
         ELSE TotalOver(hours, WorkedOn(hours, x, y)) > net
    BY <1>1, <1>2, <1>7, HoursOfAStretch
  <1> HIDE DEF net, worked
  <1>11. HoursIn(WorkedDays(of, booked, m)) = TotalOver(hours, WorkedOn(hours, x, y))
    BY <1>6, <1>7, <1>8, <1>9
  <1>12. /\ MonthlySummary(of, booked)[m].net_hours = net
         /\ {d \in Days(InMonth(of, m)) \cap DOMAIN booked : booked[d] > HoursPerDay(of)} = tooLong
    BY <1>4, <1>5 DEF net, length
  <1> HIDE DEF tooLong
  <1>13. QED
    BY <1>10, <1>11, <1>12

\* The months that are over are those whose last day has come
\* (latest_month_over, can_invoice_month).
LEMMA MonthsThatAreOver ==
  ASSUME NEW day \in Dates, NEW m \in Months
  PROVE  m <= LatestMonthOver(day) <=> CanInvoiceMonth(m, day)
  <1> DEFINE t == MonthOf(day)
  <1>1. t \in Months /\ StartOf(t) <= day /\ day <= EndOf(t)
    BY DateIsInItsMonth
  <1>2. LatestMonthOver(day) = IF day = EndOf(t) THEN t ELSE t - 1
    BY DEF LatestMonthOver
  <1> HIDE DEF t
  <1>3. day \in Nat /\ m \in Nat /\ t \in Nat
    BY <1>1, CalendarAssumption DEF Dates, Months
  <1>4. /\ StartOf(t) \in Nat /\ EndOf(t) \in Nat
        /\ StartOf(m) \in Nat /\ EndOf(m) \in Nat /\ StartOf(m) <= EndOf(m)
    BY <1>1, StartType
  <1>5. m < t => EndOf(m) < StartOf(t)
    BY <1>1, MonthsInOrder
  <1>6. t < m => EndOf(t) < StartOf(m)
    BY <1>1, MonthsInOrder
  <1>7. CanInvoiceMonth(m, day) <=> EndOf(m) <= day
    BY DEF CanInvoiceMonth
  <1>8. CASE m < t
    BY <1>1, <1>2, <1>3, <1>4, <1>5, <1>7, <1>8
  <1>9. CASE t < m
    BY <1>1, <1>2, <1>3, <1>4, <1>6, <1>7, <1>9
  <1>10. CASE m = t
    BY <1>1, <1>2, <1>3, <1>4, <1>7, <1>10
  <1>11. QED
    BY <1>3, <1>8, <1>9, <1>10

-----------------------------------------------------------------------------
(* Stretches, one after another.                                           *)

Spans == [start : Int, end : Int]

\* The days of a list of them.
DaysOf(stretches) == UNION {Days(stretches[i]) : i \in DOMAIN stretches}

\* Those of them that have days are in date order.
InOrder(stretches) ==
  \A i, j \in DOMAIN stretches :
    i < j /\ ~IsEmpty(stretches[i]) /\ ~IsEmpty(stretches[j]) => stretches[i].end < stretches[j].start

\* A list of stretches each of which has days.
IsRun(stretches) ==
  stretches \in Seq(Spans) /\ InOrder(stretches) /\ \A i \in DOMAIN stretches : ~IsEmpty(stretches[i])

\* A stretch has days or it has none.
LEMMA EmptyHasNoDays ==
  ASSUME NEW s \in Spans
  PROVE  /\ IsEmpty(s) <=> Days(s) = {}
         /\ Days(s) \subseteq Int
         /\ s.start \in Int /\ s.end \in Int
  <1>1. s.start \in Int /\ s.end \in Int
    BY DEF Spans
  <1>2. CASE s.start > s.end
    BY <1>1, <1>2 DEF IsEmpty, Days
  <1>3. CASE ~(s.start > s.end)
    <2>1. s.start \in Days(s)
      BY <1>1, <1>3 DEF Days
    <2>2. QED
      BY <1>1, <1>3, <2>1 DEF IsEmpty, Days
  <1>4. QED
    BY <1>2, <1>3

\* A list one stretch longer.
LEMMA RunGrows ==
  ASSUME NEW run, IsRun(run), NEW s \in Spans, ~IsEmpty(s),
         \A i \in DOMAIN run : run[i].end < s.start
  PROVE  IsRun(Append(run, s)) /\ DaysOf(Append(run, s)) = DaysOf(run) \cup Days(s)
         /\ \A i \in DOMAIN Append(run, s) : Append(run, s)[i] = s \/ \E j \in DOMAIN run : Append(run, s)[i] = run[j]
  <1> DEFINE n == Len(run)
             t == Append(run, s)
  <1>1. run \in Seq(Spans) /\ n \in Nat /\ DOMAIN run = 1..n
    BY LenProperties DEF IsRun
  <1>2. /\ t \in Seq(Spans) /\ Len(t) = n + 1
        /\ \A k \in 1..n : t[k] = run[k]
        /\ t[n + 1] = s
    BY <1>1, AppendProperties
  <1> HIDE DEF t, n
  <1>3. DOMAIN t = 1..n + 1
    BY <1>2, LenProperties
  <1>4. \A k \in 1..n + 1 : k \in 1..n \/ k = n + 1
    BY <1>1
  <1>5. \A k \in 1..n : k \in 1..n + 1
    BY <1>1
  <1>6. n + 1 \in 1..n + 1
    BY <1>1
  <1>7. \A i \in DOMAIN t : ~IsEmpty(t[i])
    BY <1>1, <1>2, <1>3, <1>4 DEF IsRun
  <1>8. InOrder(t)
    <2> SUFFICES ASSUME NEW i \in 1..n + 1, NEW j \in 1..n + 1, i < j PROVE t[i].end < t[j].start
      BY <1>3 DEF InOrder
    <2>1. i \in 1..n
      BY <1>1
    <2>2. CASE j = n + 1
      BY <1>1, <1>2, <2>1, <2>2
    <2>3. CASE j \in 1..n
      <3>1. run[i].end < run[j].start
        BY <1>1, <2>1, <2>3 DEF IsRun, InOrder
      <3>2. QED
        BY <1>2, <2>1, <2>3, <3>1
    <2>4. QED
      BY <1>4, <2>2, <2>3
  <1>9. DaysOf(t) = DaysOf(run) \cup Days(s)
    <2>1. \A k \in 1..n : Days(t[k]) = Days(run[k])
      BY <1>2
    <2>2. {Days(t[i]) : i \in 1..n + 1} = {Days(run[i]) : i \in 1..n} \cup {Days(s)}
      <3>1. {Days(t[i]) : i \in 1..n + 1} = {Days(t[i]) : i \in 1..n} \cup {Days(t[n + 1])}
        BY <1>4, <1>5, <1>6
      <3>2. {Days(t[i]) : i \in 1..n} = {Days(run[i]) : i \in 1..n}
        BY <2>1
      <3>3. QED
        BY <1>2, <3>1, <3>2
    <2>3. QED
      BY <1>1, <1>3, <2>2 DEF DaysOf
  <1>10. \A i \in DOMAIN t : t[i] = s \/ \E j \in DOMAIN run : t[i] = run[j]
    BY <1>1, <1>2, <1>3, <1>4
  <1>11. QED
    BY <1>2, <1>7, <1>8, <1>9, <1>10 DEF t, IsRun

KeepIf(kept, s) == IF IsEmpty(s) THEN kept ELSE Append(kept, s)

\* What has days is picked out one by one.
LEMMA NotEmptySteps ==
  ASSUME NEW stretches \in Seq(Spans)
  PROVE  \E kept \in [0..Len(stretches) -> Seq(Spans)] :
           /\ kept[0] = <<>>
           /\ \A k \in 1..Len(stretches) : kept[k] = KeepIf(kept[k - 1], stretches[k])
           /\ NotEmpty(stretches) = kept[Len(stretches)]
  <1> DEFINE n == Len(stretches)
             Lists == Seq(Spans)
             Keeps(f) == f = [k \in 0..n |-> IF k = 0 THEN <<>>
                                ELSE IF IsEmpty(stretches[k]) THEN f[k - 1]
                                ELSE Append(f[k - 1], stretches[k])]
             step == [p \in (1..n) \X Lists |-> KeepIf(p[2], stretches[p[1]])]
             f == CHOOSE g : Keeps(g)
  <1>1. n \in Nat /\ DOMAIN stretches = 1..n /\ \A k \in 1..n : stretches[k] \in Spans
    BY LenProperties, ElementOfSeq
  <1> HIDE DEF n
  <1>2. step \in [(1..n) \X Lists -> Lists]
    <2> SUFFICES ASSUME NEW k \in 1..n, NEW list \in Lists PROVE KeepIf(list, stretches[k]) \in Lists
      OBVIOUS
    <2>1. Append(list, stretches[k]) \in Lists
      BY <1>1, AppendProperties
    <2>2. QED
      BY <2>1 DEF KeepIf
  <1>3. <<>> \in Lists
    OBVIOUS
  <1>4. PICK g \in [0..n -> Lists] : Follows(g, n, <<>>, step)
    <2> HIDE DEF step, Lists
    <2>1. QED
      BY <1>1, <1>2, <1>3, StepsExist
  <1>5. \A k \in 1..n : k - 1 \in 0..n /\ k \in 0..n /\ k # 0
    BY <1>1
  <1>6. ASSUME NEW k \in 1..n PROVE g[k] = KeepIf(g[k - 1], stretches[k])
    <2>1. g[k] = step[<<k, g[k - 1]>>]
      BY <1>4 DEF Follows
    <2>2. g[k - 1] \in Lists
      BY <1>4, <1>5
    <2> HIDE DEF Lists
    <2>3. QED
      BY <2>1, <2>2
  <1>7. Keeps(g)
    <2>1. g = [k \in 0..n |-> g[k]]
      BY <1>4
    <2>2. \A k \in 0..n : k = 0 \/ k \in 1..n
      BY <1>1
    <2>3. g[0] = <<>>
      BY <1>4 DEF Follows
    <2>4. ASSUME NEW k \in 0..n
          PROVE  g[k] = IF k = 0 THEN <<>>
                        ELSE IF IsEmpty(stretches[k]) THEN g[k - 1]
                        ELSE Append(g[k - 1], stretches[k])
      <3>1. CASE k = 0
        BY <2>3, <3>1
      <3>2. CASE k # 0
        <4>1. k \in 1..n
          BY <2>2, <3>2
        <4>2. QED
          BY <1>6, <3>2, <4>1 DEF KeepIf
      <3>3. QED
        BY <3>1, <3>2
    <2>5. QED
      BY <2>1, <2>4
  <1>8. Keeps(f)
    BY <1>7
  <1>9. NotEmpty(stretches) = f[n]
    BY DEF NotEmpty, n
  <1> HIDE DEF f
  <1>10. f[0] = <<>> /\ \A k \in 1..n : f[k] = KeepIf(f[k - 1], stretches[k])
    <2>1. f = [k \in 0..n |-> IF k = 0 THEN <<>>
                              ELSE IF IsEmpty(stretches[k]) THEN f[k - 1]
                              ELSE Append(f[k - 1], stretches[k])]
      BY <1>8
    <2>2. \A k \in 0..n : f[k] = IF k = 0 THEN <<>>
                                  ELSE IF IsEmpty(stretches[k]) THEN f[k - 1]
                                  ELSE Append(f[k - 1], stretches[k])
      BY <2>1, Zenon
    <2>3. 0 \in 0..n
      BY <1>1
    <2>4. f[0] = <<>>
      BY <2>2, <2>3
    <2>5. \A k \in 1..n : f[k] = KeepIf(f[k - 1], stretches[k])
      BY <1>5, <2>2 DEF KeepIf
    <2>6. QED
      BY <2>4, <2>5
  <1>11. f \in [0..n -> Lists]
    <2> DEFINE T == {k \in 0..n : f[k] \in Lists}
    <2>1. 0 \in T
      <3>1. f[0] \in Lists
        BY <1>3, <1>10, Zenon
      <3>2. 0 \in 0..n
        BY <1>1
      <3> HIDE DEF Lists
      <3>3. QED
        BY <3>1, <3>2
    <2>2. ASSUME NEW k \in 1..n, k - 1 \in T PROVE k \in T
      <3>1. f[k] = KeepIf(f[k - 1], stretches[k]) /\ f[k - 1] \in Lists
        BY <1>10, <2>2
      <3>2. step[<<k, f[k - 1]>>] = f[k]
        BY <3>1
      <3>3. f[k] \in Lists
        <4> HIDE DEF step, Lists
        <4>1. QED
          BY <1>2, <3>1, <3>2
      <3>4. QED
        BY <1>5, <3>3
    <2>3. T = 0..n
      <3>1. T \in SUBSET (0..n)
        OBVIOUS
      <3> HIDE DEF T
      <3>2. QED
        BY <1>1, <2>1, <2>2, <3>1, HoldsUpTo
    <2>4. DOMAIN f = 0..n /\ f = [k \in 0..n |-> f[k]]
      BY <1>8
    <2>5. QED
      BY <2>3, <2>4
  <1>12. QED
    BY <1>9, <1>10, <1>11 DEF n

\* Picking out what has days loses none of them, nor their order.
LEMMA NotEmptyIsARun ==
  ASSUME NEW stretches \in Seq(Spans), InOrder(stretches)
  PROVE  /\ IsRun(NotEmpty(stretches))
         /\ DaysOf(NotEmpty(stretches)) = DaysOf(stretches)
         /\ \A a \in DOMAIN NotEmpty(stretches) : \E i \in DOMAIN stretches : NotEmpty(stretches)[a] = stretches[i]
  <1> DEFINE n == Len(stretches)
             Upto(k) == UNION {Days(stretches[i]) : i \in 1..k}
             From(list, k) == \A a \in DOMAIN list : \E i \in 1..k : list[a] = stretches[i]
             Good(list, k) == IsRun(list) /\ DaysOf(list) = Upto(k) /\ From(list, k)
  <1>1. n \in Nat /\ DOMAIN stretches = 1..n /\ \A k \in 1..n : stretches[k] \in Spans
    BY LenProperties, ElementOfSeq
  <1>2. PICK kept \in [0..n -> Seq(Spans)] :
           /\ kept[0] = <<>>
           /\ \A k \in 1..n : kept[k] = KeepIf(kept[k - 1], stretches[k])
           /\ NotEmpty(stretches) = kept[n]
    BY NotEmptySteps
  <1> HIDE DEF n
  <1> DEFINE T == {k \in 0..n : Good(kept[k], k)}
  <1>3. 0 \in T
    <2>1. DOMAIN kept[0] = {}
      <3>1. DOMAIN <<>> = {}
        OBVIOUS
      <3>2. QED
        BY <1>2, <3>1
    <2>2. IsRun(kept[0])
      <3>1. kept[0] \in Seq(Spans)
        BY <1>1, <1>2
      <3>2. QED
        BY <2>1, <3>1 DEF IsRun, InOrder
    <2>3. DaysOf(kept[0]) = {} /\ Upto(0) = {}
      <3>1. 1..0 = {}
        OBVIOUS
      <3>2. QED
        BY <2>1, <3>1 DEF DaysOf
    <2>4. From(kept[0], 0)
      BY <2>1
    <2>5. 0 \in 0..n
      BY <1>1
    <2>6. QED
      BY <2>2, <2>3, <2>4, <2>5
  <1>4. ASSUME NEW k \in 1..n, k - 1 \in T PROVE k \in T
    <2> DEFINE before == kept[k - 1]
               s == stretches[k]
    <2>1. IsRun(before) /\ DaysOf(before) = Upto(k - 1) /\ From(before, k - 1)
      BY <1>4
    <2>2. kept[k] = KeepIf(before, s) /\ s \in Spans
      BY <1>1, <1>2
    <2>3. k \in 0..n /\ k \in Nat
      BY <1>1
    <2>4. Upto(k) = Upto(k - 1) \cup Days(s)
      <3>1. 1..k = (1..k - 1) \cup {k}
        BY <2>3
      <3>2. {Days(stretches[i]) : i \in 1..k} = {Days(stretches[i]) : i \in 1..k - 1} \cup {Days(s)}
        BY <3>1
      <3>3. QED
        BY <3>2
    <2>5. \A i \in 1..k - 1 : i \in 1..k /\ i \in DOMAIN stretches /\ i < k
      BY <1>1
    <2>6. k \in DOMAIN stretches /\ k \in 1..k
      BY <1>1
    <2> HIDE DEF before, s, T, Upto
    <2>7. CASE IsEmpty(s)
      <3>1. kept[k] = before
        BY <2>2, <2>7 DEF KeepIf
      <3>2. DaysOf(before) = Upto(k)
        BY <2>1, <2>2, <2>4, <2>7, EmptyHasNoDays
      <3>3. From(before, k)
        BY <2>1, <2>5
      <3>4. QED
        BY <2>1, <2>3, <3>1, <3>2, <3>3 DEF T
    <2>8. CASE ~IsEmpty(s)
      <3>1. kept[k] = Append(before, s)
        BY <2>2, <2>8 DEF KeepIf
      <3>2. ASSUME NEW a \in DOMAIN before PROVE before[a].end < s.start
        <4>1. PICK i \in 1..k - 1 : before[a] = stretches[i]
          BY <2>1
        <4>2. ~IsEmpty(stretches[i])
          BY <2>1, <4>1 DEF IsRun
        <4>3. stretches[i].end < stretches[k].start
          BY <2>5, <2>6, <2>8, <4>2 DEF InOrder, s
        <4>4. QED
          BY <4>1, <4>3 DEF s
      <3>3. IsRun(Append(before, s)) /\ DaysOf(Append(before, s)) = DaysOf(before) \cup Days(s)
            /\ \A i \in DOMAIN Append(before, s) :
                 Append(before, s)[i] = s \/ \E j \in DOMAIN before : Append(before, s)[i] = before[j]
        BY <2>1, <2>2, <2>8, <3>2, RunGrows
      <3>4. From(Append(before, s), k)
        <4> SUFFICES ASSUME NEW a \in DOMAIN Append(before, s)
                     PROVE  \E i \in 1..k : Append(before, s)[a] = stretches[i]
          OBVIOUS
        <4>1. CASE Append(before, s)[a] = s
          BY <2>6, <4>1 DEF s
        <4>2. CASE \E j \in DOMAIN before : Append(before, s)[a] = before[j]
          BY <2>1, <2>5, <4>2
        <4>3. QED
          BY <3>3, <4>1, <4>2
      <3>5. QED
        BY <2>1, <2>3, <2>4, <3>1, <3>3, <3>4 DEF T
    <2>9. QED
      BY <2>7, <2>8
  <1>5. T = 0..n
    <2>1. T \in SUBSET (0..n)
      OBVIOUS
    <2> HIDE DEF T
    <2>2. QED
      BY <1>1, <1>3, <1>4, <2>1, HoldsUpTo
  <1>6. Good(kept[n], n)
    <2>1. n \in 0..n
      BY <1>1
    <2>2. n \in T
      BY <1>5, <2>1
    <2>3. QED
      BY <2>2
  <1>7. Upto(n) = DaysOf(stretches)
    BY <1>1 DEF DaysOf
  <1>8. QED
    BY <1>1, <1>2, <1>6, <1>7

\* Whatever is in one list comes before whatever is in the other.
Precedes(r, s) == \A a \in DOMAIN r, b \in DOMAIN s : r[a].end < s[b].start

Joins(t, r, s) ==
  /\ IsRun(t) /\ DaysOf(t) = DaysOf(r) \cup DaysOf(s)
  /\ \A i \in DOMAIN t : (\E a \in DOMAIN r : t[i] = r[a]) \/ (\E b \in DOMAIN s : t[i] = s[b])

\* One run after another is a run.
LEMMA RunsJoin ==
  ASSUME NEW r, IsRun(r), NEW s, IsRun(s), NEW t, t = r \o s, Precedes(r, s)
  PROVE  Joins(t, r, s)
  <1> DEFINE m == Len(r)
             n == Len(s)
  <1>1. /\ r \in Seq(Spans) /\ m \in Nat /\ DOMAIN r = 1..m
        /\ s \in Seq(Spans) /\ n \in Nat /\ DOMAIN s = 1..n
    BY LenProperties DEF IsRun
  <1>2. /\ t \in Seq(Spans) /\ Len(t) = m + n
        /\ \A i \in 1..m + n : t[i] = IF i <= m THEN r[i] ELSE s[i - m]
    BY <1>1, ConcatProperties
  <1> HIDE DEF m, n
  <1>3. DOMAIN t = 1..m + n
    BY <1>2, LenProperties
  <1>4. \A i \in 1..m + n : (i <= m => i \in 1..m) /\ (~(i <= m) => i - m \in 1..n)
    BY <1>1
  <1>5. \A i \in 1..m : i \in 1..m + n /\ i <= m
    BY <1>1
  <1>6. \A i \in 1..n : i + m \in 1..m + n /\ ~(i + m <= m) /\ (i + m) - m = i
    BY <1>1
  <1>7. \A i \in 1..m : t[i] = r[i]
    BY <1>2, <1>5
  <1>8. \A i \in 1..n : t[i + m] = s[i]
    BY <1>2, <1>6
  <1>9. \A i \in DOMAIN t : (i \in DOMAIN r /\ t[i] = r[i]) \/ (i - m \in DOMAIN s /\ ~(i <= m) /\ t[i] = s[i - m])
    BY <1>1, <1>2, <1>3, <1>4
  <1>10. \A i \in DOMAIN t : ~IsEmpty(t[i])
    BY <1>9 DEF IsRun
  <1>11. InOrder(t)
    <2> SUFFICES ASSUME NEW i \in DOMAIN t, NEW j \in DOMAIN t, i < j PROVE t[i].end < t[j].start
      BY DEF InOrder
    <2>1. CASE j \in DOMAIN r
      <3>1. i \in DOMAIN r
        BY <1>1, <1>3, <2>1
      <3>2. r[i].end < r[j].start
        BY <2>1, <3>1 DEF IsRun, InOrder
      <3>3. QED
        BY <1>1, <1>7, <2>1, <3>1, <3>2
    <2>2. CASE i \in DOMAIN r /\ j \notin DOMAIN r
      BY <1>7, <1>9, <1>1, <2>2 DEF Precedes
    <2>3. CASE i \notin DOMAIN r /\ j \notin DOMAIN r
      <3>1. i - m \in DOMAIN s /\ t[i] = s[i - m] /\ j - m \in DOMAIN s /\ t[j] = s[j - m]
        BY <1>9, <2>3
      <3>2. i - m < j - m
        BY <1>1, <1>3
      <3>3. s[i - m].end < s[j - m].start
        BY <3>1, <3>2 DEF IsRun, InOrder
      <3>4. QED
        BY <3>1, <3>3
    <2>4. QED
      BY <2>1, <2>2, <2>3
  <1>12. DaysOf(t) = DaysOf(r) \cup DaysOf(s)
    <2>1. \A i \in DOMAIN t : Days(t[i]) \subseteq DaysOf(r) \cup DaysOf(s)
      BY <1>9 DEF DaysOf
    <2>2. \A i \in DOMAIN r : Days(r[i]) \subseteq DaysOf(t)
      BY <1>1, <1>3, <1>5, <1>7 DEF DaysOf
    <2>3. \A i \in DOMAIN s : Days(s[i]) \subseteq DaysOf(t)
      BY <1>1, <1>3, <1>6, <1>8 DEF DaysOf
    <2>4. DaysOf(t) \subseteq DaysOf(r) \cup DaysOf(s)
      BY <2>1 DEF DaysOf
    <2>5. DaysOf(r) \subseteq DaysOf(t) /\ DaysOf(s) \subseteq DaysOf(t)
      BY <2>2, <2>3 DEF DaysOf
    <2>6. QED
      BY <2>4, <2>5
  <1>13. QED
    BY <1>2, <1>9, <1>10, <1>11, <1>12 DEF IsRun, Joins

\* Lists are flattened one after the other.
LEMMA FlattenSteps ==
  ASSUME NEW n \in Nat \ {0}, NEW lists \in [1..n -> Seq(Spans)]
  PROVE  \E flat : /\ flat[1] = lists[1]
                   /\ \A k \in 2..n : flat[k] = flat[k - 1] \o lists[k]
                   /\ FlattenSeq(lists) = flat[n]
  <1> DEFINE Lists == Seq(Spans)
             Flattens(f) == f = [i \in 1..n |-> IF i = 1 THEN lists[i] ELSE f[i - 1] \o lists[i]]
             step == [p \in (1..n) \X Lists |-> p[2] \o lists[p[1]]]
             f == CHOOSE g : Flattens(g)
  <1>1. n \in Nat /\ Len(lists) = n /\ \A k \in 1..n : lists[k] \in Lists
    BY SeqDef
  <1>2. step \in [(1..n) \X Lists -> Lists]
    <2> SUFFICES ASSUME NEW k \in 1..n, NEW list \in Lists PROVE list \o lists[k] \in Lists
      OBVIOUS
    <2>1. QED
      BY <1>1, ConcatProperties
  <1>3. PICK h \in [0..n -> Lists] : Follows(h, n, <<>>, step)
    <2>1. <<>> \in Lists
      OBVIOUS
    <2> HIDE DEF step, Lists
    <2>2. QED
      BY <1>1, <1>2, <2>1, StepsExist
  <1>4. ASSUME NEW k \in 1..n PROVE h[k] = h[k - 1] \o lists[k] /\ h[k - 1] \in Lists /\ h[k] \in Lists
    <2>1. k - 1 \in 0..n /\ k \in 0..n
      BY <1>1
    <2>2. h[k] = step[<<k, h[k - 1]>>]
      BY <1>3 DEF Follows
    <2>3. h[k - 1] \in Lists /\ h[k] \in Lists
      BY <1>3, <2>1
    <2> HIDE DEF Lists
    <2>4. QED
      BY <2>2, <2>3
  <1>5. h[1] = lists[1]
    <2>1. 1 \in 1..n /\ 1 - 1 = 0
      BY <1>1
    <2>2. h[1] = h[0] \o lists[1] /\ h[0] = <<>>
      BY <1>3, <1>4, <2>1 DEF Follows
    <2>3. <<>> \o lists[1] = lists[1]
      BY <1>1, <2>1, ConcatEmptySeq
    <2>4. QED
      BY <2>2, <2>3
  <1> DEFINE g == [i \in 1..n |-> h[i]]
  <1>6. Flattens(g)
    <2>1. ASSUME NEW i \in 1..n
          PROVE  h[i] = IF i = 1 THEN lists[i] ELSE g[i - 1] \o lists[i]
      <3>1. CASE i = 1
        BY <1>5, <3>1
      <3>2. CASE i # 1
        <4>1. i - 1 \in 1..n
          BY <1>1, <3>2
        <4>2. g[i - 1] = h[i - 1]
          BY <4>1
        <4>3. QED
          BY <1>4, <3>2, <4>2
      <3>3. QED
        BY <3>1, <3>2
    <2>2. [i \in 1..n |-> h[i]] = [i \in 1..n |-> IF i = 1 THEN lists[i] ELSE g[i - 1] \o lists[i]]
      <3> HIDE DEF g
      <3>1. QED
        BY <2>1
    <2>3. QED
      BY <2>2 DEF g
  <1>7. Flattens(f)
    <2> HIDE DEF g
    <2>1. QED
      BY <1>6
  <1>8. FlattenSeq(lists) = f[n]
    <2>1. Len(lists) # 0
      BY <1>1
    <2>2. QED
      BY <1>1, <2>1, Zenon DEF FlattenSeq
  <1> HIDE DEF f
  <1>9. \A i \in 1..n : f[i] = IF i = 1 THEN lists[i] ELSE f[i - 1] \o lists[i]
    <2>1. f = [i \in 1..n |-> IF i = 1 THEN lists[i] ELSE f[i - 1] \o lists[i]]
      BY <1>7
    <2>2. QED
      BY <2>1, Zenon
  <1>10. f[1] = lists[1]
    <2>1. 1 \in 1..n
      BY <1>1
    <2>2. QED
      BY <1>9, <2>1
  <1>11. \A k \in 2..n : f[k] = f[k - 1] \o lists[k]
    <2>1. \A k \in 2..n : k \in 1..n /\ k # 1
      BY <1>1
    <2>2. QED
      BY <1>9, <2>1
  <1>12. QED
    BY <1>8, <1>10, <1>11

\* Runs that follow each other make one run of all their days.
LEMMA FlattenIsARun ==
  ASSUME NEW n \in Nat, NEW lists \in [1..n -> Seq(Spans)],
         \A i \in 1..n : IsRun(lists[i]),
         \A i, j \in 1..n : i < j => Precedes(lists[i], lists[j])
  PROVE  /\ IsRun(FlattenSeq(lists))
         /\ DaysOf(FlattenSeq(lists)) = UNION {DaysOf(lists[i]) : i \in 1..n}
  <1>1. CASE n = 0
    <2>1. 1..n = {}
      BY <1>1
    <2>2. DOMAIN lists = {} /\ lists \in [1..n -> Spans]
      BY <2>1
    <2>3. lists \in Seq(Spans) /\ Len(lists) = 0
      BY <1>1, <2>2, SeqDef
    <2>4. FlattenSeq(lists) = lists
      BY <2>3 DEF FlattenSeq
    <2>5. IsRun(lists) /\ DaysOf(lists) = {}
      BY <2>2, <2>3 DEF IsRun, InOrder, DaysOf
    <2>6. UNION {DaysOf(lists[i]) : i \in 1..n} = {}
      BY <2>1
    <2>7. QED
      BY <2>4, <2>5, <2>6
  <1>2. CASE n # 0
    <2>1. PICK flat : /\ flat[1] = lists[1]
                      /\ \A k \in 2..n : flat[k] = flat[k - 1] \o lists[k]
                      /\ FlattenSeq(lists) = flat[n]
      BY <1>2, FlattenSteps
    <2> DEFINE Upto(k) == UNION {DaysOf(lists[i]) : i \in 1..k}
               From(list, k) == \A a \in DOMAIN list :
                                  \E i \in 1..k : \E b \in DOMAIN lists[i] : list[a] = lists[i][b]
               Good(list, k) == IsRun(list) /\ DaysOf(list) = Upto(k) /\ From(list, k)
               T == {k \in 0..n : k = 0 \/ Good(flat[k], k)}
    <2>2. 0 \in T
      OBVIOUS
    <2>3. ASSUME NEW k \in 1..n, k - 1 \in T PROVE k \in T
      <3>1. k \in 0..n /\ k \in Nat /\ k # 0
        OBVIOUS
      <3>2. Upto(k) = Upto(k - 1) \cup DaysOf(lists[k])
        <4>1. 1..k = (1..k - 1) \cup {k}
          BY <3>1
        <4>2. {DaysOf(lists[i]) : i \in 1..k} = {DaysOf(lists[i]) : i \in 1..k - 1} \cup {DaysOf(lists[k])}
          BY <4>1
        <4>3. QED
          BY <4>2
      <3>3. CASE k = 1
        <4>1. flat[k] = lists[k] /\ IsRun(lists[k])
          BY <2>1, <3>3
        <4>2. Upto(k - 1) = {}
          <5>1. 1..k - 1 = {}
            BY <3>3
          <5>2. QED
            BY <5>1
        <4>3. From(flat[k], k)
          <5>1. k \in 1..k
            BY <3>1
          <5>2. QED
            BY <4>1, <5>1
        <4> HIDE DEF Upto, From
        <4>4. DaysOf(flat[k]) = Upto(k)
          BY <3>2, <4>1, <4>2
        <4>5. QED
          BY <3>1, <4>1, <4>3, <4>4
      <3>4. CASE k # 1
        <4>1. k \in 2..n /\ k - 1 # 0
          BY <3>4
        <4>2. flat[k] = flat[k - 1] \o lists[k] /\ Good(flat[k - 1], k - 1) /\ IsRun(lists[k])
          BY <2>1, <2>3, <4>1
        <4>3. IsRun(flat[k - 1]) /\ DaysOf(flat[k - 1]) = Upto(k - 1) /\ From(flat[k - 1], k - 1)
          BY <4>2
        <4>4. PICK r, s, t : r = flat[k - 1] /\ s = lists[k] /\ t = r \o s
          OBVIOUS
        <4>5. \A i \in 1..k - 1 : i \in 1..k /\ i \in 1..n /\ i < k
          BY <3>1
        <4>6. \A a \in DOMAIN r : \E i \in 1..k - 1 : \E b \in DOMAIN lists[i] : r[a] = lists[i][b]
          BY <4>3, <4>4
        <4>7. Precedes(r, s)
          <5> SUFFICES ASSUME NEW a \in DOMAIN r, NEW b \in DOMAIN s PROVE r[a].end < s[b].start
            BY DEF Precedes
          <5>1. PICK i \in 1..k - 1 : \E c \in DOMAIN lists[i] : r[a] = lists[i][c]
            BY <4>6
          <5>2. PICK c \in DOMAIN lists[i] : r[a] = lists[i][c]
            BY <5>1
          <5>3. i \in 1..n /\ i < k
            BY <4>5
          <5>4. lists[i][c].end < lists[k][b].start
            BY <4>4, <5>3 DEF Precedes
          <5>5. QED
            BY <4>4, <5>2, <5>4
        <4>8. IsRun(r) /\ IsRun(s)
          BY <4>2, <4>3, <4>4
        <4>9. Joins(t, r, s)
          BY <4>4, <4>7, <4>8, RunsJoin
        <4>10. From(t, k)
          <5> SUFFICES ASSUME NEW x \in DOMAIN t
                       PROVE  \E i \in 1..k : \E b \in DOMAIN lists[i] : t[x] = lists[i][b]
            OBVIOUS
          <5>1. CASE \E a \in DOMAIN r : t[x] = r[a]
            <6>1. PICK a \in DOMAIN r : t[x] = r[a]
              BY <5>1
            <6>2. PICK i \in 1..k - 1 : \E c \in DOMAIN lists[i] : r[a] = lists[i][c]
              BY <4>6
            <6>3. QED
              BY <4>5, <6>1, <6>2
          <5>2. CASE \E b \in DOMAIN s : t[x] = s[b]
            <6>1. k \in 1..k
              BY <3>1
            <6>2. QED
              BY <4>4, <5>2, <6>1
          <5>3. QED
            BY <4>9, <5>1, <5>2 DEF Joins
        <4>11. flat[k] = t
          BY <4>2, <4>4
        <4>12. DaysOf(t) = Upto(k)
          <5> HIDE DEF Upto
          <5>1. QED
            BY <3>2, <4>3, <4>4, <4>9 DEF Joins
        <4>13. Good(flat[k], k)
          <5> HIDE DEF Upto, From
          <5>1. QED
            BY <4>9, <4>10, <4>11, <4>12 DEF Joins
        <4>14. QED
          <5> HIDE DEF Good
          <5>1. QED
            BY <3>1, <4>13
      <3>5. QED
        BY <3>3, <3>4
    <2>4. T = 0..n
      <3>1. T \in SUBSET (0..n)
        OBVIOUS
      <3> HIDE DEF T
      <3>2. QED
        BY <2>2, <2>3, <3>1, HoldsUpTo
    <2>5. Good(flat[n], n)
      <3>1. n \in 0..n
        OBVIOUS
      <3> HIDE DEF Good
      <3>2. n \in T
        BY <2>4, <3>1
      <3>3. QED
        BY <1>2, <3>2
    <2>6. QED
      BY <2>1, <2>5
  <1>3. QED
    BY <1>1, <1>2

-----------------------------------------------------------------------------
(* What is invoiced, in the order it was.                                  *)

StartsInOrder(s) == \A i, j \in DOMAIN s : i < j => s[i].start <= s[j].start

\* Any few periods can be put in the order they start in.
LEMMA OrderExists ==
  ASSUME NEW last \in Nat, NEW periods, IsFiniteSet(periods), \A p \in periods : p.start \in 0..last
  PROVE  \E s \in SetToSeqs(periods) : StartsInOrder(s)
  <1> DEFINE n == Cardinality(periods)
             Sortable(Q) == \E s \in SetToSeqs(Q) : StartsInOrder(s)
             T == {k \in 0..n : \A Q \in SUBSET periods : Cardinality(Q) = k => Sortable(Q)}
  <1>1. n \in Nat
    BY FS_CardinalityType
  <1>2. \A Q \in SUBSET periods : IsFiniteSet(Q)
    BY FS_Subset
  <1>3. 0 \in T
    <2>1. ASSUME NEW Q \in SUBSET periods, Cardinality(Q) = 0 PROVE Sortable(Q)
      <3>1. Q = {}
        BY <1>2, <2>1, FS_EmptySet
      <3>2. 1..0 = {}
        OBVIOUS
      <3> DEFINE s == [i \in 1..0 |-> i]
      <3>3. s \in [1..0 -> Q] /\ \A i, j \in 1..0 : i # j => s[i] # s[j]
        BY <3>2
      <3>4. s \in SetToSeqs(Q)
        BY <2>1, <3>3 DEF SetToSeqs
      <3>5. StartsInOrder(s)
        BY <3>2 DEF StartsInOrder
      <3>6. QED
        BY <3>4, <3>5
    <2>2. 0 \in 0..n
      BY <1>1
    <2> HIDE DEF Sortable
    <2>3. QED
      BY <2>1, <2>2
  <1>4. ASSUME NEW k \in 1..n, k - 1 \in T PROVE k \in T
    <2>1. ASSUME NEW Q \in SUBSET periods, Cardinality(Q) = k PROVE Sortable(Q)
      <3> DEFINE starts == {p.start : p \in Q}
      <3>1. Q # {}
        BY <1>1, <2>1, FS_EmptySet
      <3>2. starts \in SUBSET (0..last) /\ starts # {}
        BY <3>1
      <3>3. Max(starts) \in starts /\ \A y \in starts : Max(starts) >= y
        <4> HIDE DEF starts
        <4>1. QED
          BY <3>2, MaxIsGreatest
      <3>4. PICK m \in Q : \A p \in Q : m.start >= p.start
        BY <3>3
      <3> DEFINE R == Q \ {m}
      <3>5. R \in SUBSET periods /\ Cardinality(R) = k - 1
        BY <1>2, <2>1, FS_RemoveElement
      <3> HIDE DEF Sortable
      <3>6. Sortable(R)
        <4> HIDE DEF R
        <4>1. QED
          BY <1>4, <3>5
      <3> USE DEF Sortable
      <3>7. PICK s \in SetToSeqs(R) : StartsInOrder(s)
        BY <3>6
      <3>8. s \in [1..k - 1 -> R] /\ \A i, j \in 1..k - 1 : i # j => s[i] # s[j]
        BY <3>5, <3>7 DEF SetToSeqs
      <3> DEFINE t == [i \in 1..k |-> IF i = k THEN m ELSE s[i]]
      <3>9. \A i \in 1..k : i # k => i \in 1..k - 1 /\ s[i] \in R
        BY <1>1, <3>8
      <3>10. t \in [1..k -> Q]
        BY <3>9
      <3>11. \A i, j \in 1..k : i # j => t[i] # t[j]
        BY <3>8, <3>9
      <3>12. t \in SetToSeqs(Q)
        <4> HIDE DEF t
        <4>1. QED
          BY <2>1, <3>10, <3>11 DEF SetToSeqs
      <3>13. StartsInOrder(t)
        <4> SUFFICES ASSUME NEW i \in 1..k, NEW j \in 1..k, i < j PROVE t[i].start <= t[j].start
          BY DEF StartsInOrder
        <4>1. i # k /\ t[i] = s[i] /\ i \in 1..k - 1 /\ s[i] \in R
          BY <1>1, <3>9
        <4>2. CASE j = k
          <5>1. m.start >= s[i].start /\ m.start \in Int /\ s[i].start \in Int
            BY <3>4, <4>1
          <5>2. QED
            BY <4>1, <4>2, <5>1
        <4>3. CASE j # k
          <5>1. j \in 1..k - 1 /\ t[j] = s[j]
            BY <3>9, <4>3
          <5>2. s[i].start <= s[j].start
            BY <3>7, <3>8, <4>1, <5>1 DEF StartsInOrder
          <5>3. QED
            BY <4>1, <5>1, <5>2
        <4>4. QED
          BY <4>2, <4>3
      <3>14. QED
        <4> HIDE DEF t
        <4>1. QED
          BY <3>12, <3>13
    <2>2. k \in 0..n
      BY <1>1
    <2> HIDE DEF Sortable
    <2>3. QED
      BY <2>1, <2>2
  <1>5. T = 0..n
    <2>1. T \in SUBSET (0..n)
      OBVIOUS
    <2> HIDE DEF T
    <2>2. QED
      BY <1>1, <1>3, <1>4, <2>1, HoldsUpTo
  <1>6. n \in 0..n
    BY <1>1
  <1> HIDE DEF Sortable
  <1>7. Sortable(periods)
    BY <1>5, <1>6
  <1>8. QED
    BY <1>7 DEF Sortable

\* The periods in date order are all of them, each after those that start earlier.
LEMMA InDateOrderLists ==
  ASSUME NEW last \in Nat, NEW periods, IsFiniteSet(periods), \A p \in periods : p.start \in 0..last
  PROVE  \E n \in Nat : /\ InDateOrder(periods) \in [1..n -> periods]
                        /\ StartsInOrder(InDateOrder(periods))
                        /\ {InDateOrder(periods)[i] : i \in 1..n} = periods
  <1> DEFINE n == Cardinality(periods)
             s == InDateOrder(periods)
  <1>1. n \in Nat
    BY FS_CardinalityType
  <1>2. \E t \in SetToSeqs(periods) : StartsInOrder(t)
    BY OrderExists
  <1>3. s \in SetToSeqs(periods) /\ StartsInOrder(s)
    BY <1>2 DEF InDateOrder, StartsInOrder
  <1> HIDE DEF s
  <1>4. s \in [1..n -> periods] /\ \A i, j \in 1..n : i # j => s[i] # s[j]
    BY <1>3 DEF SetToSeqs
  <1>5. s \in Injection(1..n, periods)
    BY <1>4 DEF Injection, IsInjective
  <1>6. IsFiniteSet(1..n) /\ Cardinality(1..n) = n
    BY <1>1, FS_Interval
  <1>7. s \in Surjection(1..n, periods)
    BY <1>5, <1>6, FS_Injection
  <1>8. {s[i] : i \in 1..n} = periods
    BY <1>4, <1>7 DEF Surjection
  <1>9. QED
    BY <1>1, <1>3, <1>4, <1>8 DEF s

\* The later, and the earlier, of two days.
LEMMA LaterAndEarlier ==
  ASSUME NEW a \in Int, NEW b \in Int
  PROVE  /\ Later(a, b) \in Int /\ Later(a, b) >= a /\ Later(a, b) >= b /\ Later(a, b) \in {a, b}
         /\ Earlier(a, b) \in Int /\ Earlier(a, b) <= a /\ Earlier(a, b) <= b /\ Earlier(a, b) \in {a, b}
  BY DEF Later, Earlier

IsBetween(run, first, last) ==
  \A i \in DOMAIN run : first <= run[i].start /\ run[i].end <= last

\* A period that meets the last stretch makes it longer, and one that does not
\* is a stretch of its own.
LEMMA RunOnCovers ==
  ASSUME NEW run, IsRun(run), NEW c \in Spans, ~IsEmpty(c), NEW first \in Int, NEW last \in Int,
         IsBetween(run, first, last), first <= c.start, c.end <= last,
         \A i \in DOMAIN run : run[i].start <= c.start
  PROVE  /\ IsRun(RunOn(run, c)) /\ DaysOf(RunOn(run, c)) = DaysOf(run) \cup Days(c)
         /\ IsBetween(RunOn(run, c), first, last)
         /\ \A i \in DOMAIN RunOn(run, c) : RunOn(run, c)[i].start <= c.start
  <1> DEFINE n == Len(run)
  <1>1. run \in Seq(Spans) /\ n \in Nat /\ DOMAIN run = 1..n
        /\ \A i \in 1..n : run[i] \in Spans /\ run[i].start \in Int /\ run[i].end \in Int /\ run[i].start <= run[i].end
    <2>1. run \in Seq(Spans) /\ n \in Nat /\ DOMAIN run = 1..n /\ \A i \in 1..n : run[i] \in Spans /\ ~IsEmpty(run[i])
      BY LenProperties, ElementOfSeq DEF IsRun
    <2> HIDE DEF n
    <2>2. QED
      BY <2>1, EmptyHasNoDays DEF IsEmpty
  <1>2. c.start \in Int /\ c.end \in Int /\ c.start <= c.end
    BY EmptyHasNoDays DEF IsEmpty
  <1>3. run # <<>> => n \in 1..n
    <2>1. run # <<>> => n # 0
      BY <1>1, EmptySeq
    <2>2. QED
      BY <1>1, <2>1
  <1>4. CASE run # <<>> /\ c.start <= run[n].end + 1
    <2> DEFINE until == Later(run[n].end, c.end)
               longer == [run[n] EXCEPT !.end = until]
               t == [run EXCEPT ![n] = longer]
    <2>1. n \in 1..n
      BY <1>3, <1>4
    <2>2. run[n].start \in Int /\ run[n].end \in Int /\ run[n].start <= run[n].end
      BY <1>1, <2>1
    <2>3. until \in Int /\ until >= run[n].end /\ until >= c.end /\ until \in {run[n].end, c.end}
      BY <1>2, <2>2, LaterAndEarlier
    <2>4. RunOn(run, c) = t
      BY <1>4 DEF RunOn
    <2> HIDE DEF until
    <2>5. longer \in Spans /\ longer.start = run[n].start /\ longer.end = until
      BY <1>1, <2>1, <2>3 DEF Spans
    <2> HIDE DEF longer
    <2>6. /\ t \in Seq(Spans) /\ Len(t) = n
          /\ \A j \in 1..n : t[j] = IF j = n THEN longer ELSE run[j]
      BY <1>1, <2>1, <2>5, ExceptSeq
    <2> HIDE DEF t
    <2>7. DOMAIN t = 1..n
      BY <2>6, LenProperties
    <2> HIDE DEF n
    <2>8. \A j \in 1..n : t[j].start = run[j].start /\ (j # n => t[j] = run[j])
      BY <2>5, <2>6
    <2>9. t[n] = longer
      BY <2>1, <2>6
    <2>10. ~IsEmpty(longer)
      BY <2>2, <2>3, <2>5 DEF IsEmpty
    <2>11. \A j \in DOMAIN t : ~IsEmpty(t[j])
      BY <1>1, <2>6, <2>7, <2>10 DEF IsRun
    <2>12. InOrder(t)
      <3> SUFFICES ASSUME NEW i \in 1..n, NEW j \in 1..n, i < j PROVE t[i].end < t[j].start
        BY <2>7 DEF InOrder
      <3>1. i # n
        BY <1>1
      <3>2. run[i].end < run[j].start
        BY <1>1 DEF IsRun, InOrder
      <3>3. QED
        BY <2>8, <3>1, <3>2
    <2>13. Days(longer) = Days(run[n]) \cup Days(c)
      <3>1. run[n].start <= c.start
        BY <1>1, <2>1
      <3>2. \A d \in Int : (run[n].start <= d /\ d <= until)
                           <=> ((run[n].start <= d /\ d <= run[n].end) \/ (c.start <= d /\ d <= c.end))
        BY <1>2, <1>4, <2>2, <2>3, <3>1
      <3>3. Days(longer) = run[n].start..until
        BY <2>5 DEF Days
      <3> DEFINE A == Days(longer)
                 B == Days(run[n])
                 C == Days(c)
      <3>4. \A d : d \in A <=> d \in Int /\ run[n].start <= d /\ d <= until
        BY <2>2, <2>3, <3>3
      <3>5. \A d : d \in B <=> d \in Int /\ run[n].start <= d /\ d <= run[n].end
        BY <2>2 DEF Days
      <3>6. \A d : d \in C <=> d \in Int /\ c.start <= d /\ d <= c.end
        BY <1>2 DEF Days
      <3> HIDE DEF A, B, C
      <3>7. \A d : d \in A <=> d \in B \/ d \in C
        <4> TAKE d
        <4>1. d \in Int => ((run[n].start <= d /\ d <= until)
                            <=> ((run[n].start <= d /\ d <= run[n].end) \/ (c.start <= d /\ d <= c.end)))
          BY <3>2
        <4>2. QED
          BY <3>4, <3>5, <3>6, <4>1, Zenon
      <3>8. A = B \cup C
        BY <3>7
      <3>9. QED
        BY <3>8 DEF A, B, C
    <2>14. DaysOf(t) = DaysOf(run) \cup Days(c)
      <3>1. \A j \in 1..n : j # n => Days(t[j]) = Days(run[j])
        BY <2>8
      <3>2. DaysOf(t) \subseteq DaysOf(run) \cup Days(c)
        <4>1. \A j \in 1..n : Days(t[j]) \subseteq Days(run[j]) \cup Days(c)
          BY <2>9, <2>13, <3>1
        <4>2. QED
          BY <1>1, <2>7, <4>1 DEF DaysOf
      <3>3. DaysOf(run) \subseteq DaysOf(t)
        <4>1. \A j \in 1..n : Days(run[j]) \subseteq Days(t[j])
          BY <2>9, <2>13, <3>1
        <4>2. QED
          BY <1>1, <2>7, <4>1 DEF DaysOf
      <3>4. Days(c) \subseteq DaysOf(t)
        BY <2>1, <2>7, <2>9, <2>13 DEF DaysOf
      <3>5. QED
        BY <3>2, <3>3, <3>4
    <2>15. IsBetween(t, first, last)
      <3> SUFFICES ASSUME NEW j \in 1..n PROVE first <= t[j].start /\ t[j].end <= last
        BY <2>7 DEF IsBetween
      <3>1. first <= run[j].start /\ run[j].end <= last
        BY <1>1 DEF IsBetween
      <3>2. until <= last
        <4>1. run[n].end <= last
          BY <1>1, <2>1 DEF IsBetween
        <4>2. QED
          BY <2>3, <4>1
      <3>3. QED
        BY <2>5, <2>6, <2>8, <3>1, <3>2
    <2>16. \A j \in DOMAIN t : t[j].start <= c.start
      BY <1>1, <2>7, <2>8
    <2>17. QED
      BY <2>4, <2>6, <2>11, <2>12, <2>14, <2>15, <2>16 DEF IsRun
  <1>5. CASE ~(run # <<>> /\ c.start <= run[n].end + 1)
    <2> DEFINE t == Append(run, c)
    <2>1. RunOn(run, c) = t
      BY <1>5 DEF RunOn
    <2>2. \A i \in DOMAIN run : run[i].end < c.start
      <3> SUFFICES ASSUME NEW i \in 1..n PROVE run[i].end < c.start
        BY <1>1
      <3>1. run # <<>>
        BY <1>1
      <3>2. n \in 1..n /\ ~(c.start <= run[n].end + 1)
        BY <1>3, <1>5, <3>1
      <3> HIDE DEF n
      <3>3. run[n].start <= run[n].end /\ run[n].end \in Int /\ run[n].start \in Int
            /\ run[i].end \in Int
        BY <1>1, <3>2
      <3>4. i = n \/ run[i].end < run[n].start
        <4>1. i \in DOMAIN run /\ n \in DOMAIN run /\ ~IsEmpty(run[i]) /\ ~IsEmpty(run[n])
          BY <1>1, <3>2 DEF IsRun
        <4>2. i < n => run[i].end < run[n].start
          BY <1>1, <4>1 DEF IsRun, InOrder
        <4>3. i = n \/ i < n
          BY <1>3, <3>2
        <4>4. QED
          BY <4>2, <4>3
      <3>5. QED
        BY <1>2, <3>2, <3>3, <3>4
    <2>3. /\ IsRun(t) /\ DaysOf(t) = DaysOf(run) \cup Days(c)
          /\ \A i \in DOMAIN t : t[i] = c \/ \E j \in DOMAIN run : t[i] = run[j]
      BY <2>2, RunGrows
    <2> HIDE DEF t
    <2>4. IsBetween(t, first, last)
      BY <2>3 DEF IsBetween
    <2>5. \A i \in DOMAIN t : t[i].start <= c.start
      BY <1>2, <2>3
    <2>6. QED
      BY <2>1, <2>3, <2>4, <2>5
  <1>6. QED
    BY <1>4, <1>5

\* Running a period on makes a list of a list.
LEMMA RunOnType ==
  ASSUME NEW run \in Seq(Spans), NEW c \in Spans
  PROVE  RunOn(run, c) \in Seq(Spans)
  <1> DEFINE n == Len(run)
             until == Later(run[n].end, c.end)
  <1>1. n \in Nat /\ DOMAIN run = 1..n /\ \A i \in 1..n : run[i] \in Spans
    BY LenProperties, ElementOfSeq
  <1>2. CASE run # <<>> /\ c.start <= run[n].end + 1
    <2> DEFINE longer == [run[n] EXCEPT !.end = until]
    <2>1. n # 0
      BY <1>2, EmptySeq
    <2>2. n \in 1..n
      BY <1>1, <2>1
    <2>3. run[n].end \in Int /\ c.end \in Int
      BY <1>1, <2>2, EmptyHasNoDays
    <2>4. until \in Int
      BY <2>3, LaterAndEarlier
    <2> HIDE DEF until
    <2>5. longer \in Spans
      BY <1>1, <2>2, <2>4 DEF Spans
    <2>6. RunOn(run, c) = [run EXCEPT ![n] = longer]
      BY <1>2 DEF RunOn, until
    <2> HIDE DEF longer
    <2>7. [run EXCEPT ![n] = longer] \in Seq(Spans)
      BY <1>1, <2>2, <2>5, ExceptSeq
    <2>8. QED
      BY <2>6, <2>7
  <1>3. CASE ~(run # <<>> /\ c.start <= run[n].end + 1)
    <2>1. RunOn(run, c) = Append(run, c)
      BY <1>3 DEF RunOn
    <2>2. QED
      BY <2>1, AppendProperties
  <1>4. QED
    BY <1>2, <1>3

\* The invoiced periods that meet the one asked about, in date order, and the
\* part of each that does.
Meeting(issued, period) == {i \in issued : i.start <= period.end /\ i.end >= period.start}

Billed(issued, period) == InDateOrder(Meeting(issued, period))

Piece(issued, period, k) == Clamp(Billed(issued, period)[k], period.start, period.end)

\* What is settled is run on piece by piece.
LEMMA SettledSteps ==
  ASSUME NEW issued, NEW period, NEW n \in Nat, Len(Billed(issued, period)) = n,
         \A k \in 1..n : Piece(issued, period, k) \in Spans
  PROVE  \E settled : /\ settled[0] = <<>>
                      /\ \A k \in 1..n : settled[k] = RunOn(settled[k - 1], Piece(issued, period, k))
                      /\ SettledStretches(issued, period) = settled[n]
  <1> DEFINE Lists == Seq(Spans)
             ordered == InDateOrder({i \in issued : i.start <= period.end /\ i.end >= period.start})
             Settles(f) == f = [k \in 0..Len(ordered) |->
                                  IF k = 0 THEN <<>>
                                  ELSE RunOn(f[k - 1], Clamp(ordered[k], period.start, period.end))]
             step == [p \in (1..n) \X Lists |-> RunOn(p[2], Piece(issued, period, p[1]))]
             f == CHOOSE g : Settles(g)
  <1>1. SettledStretches(issued, period) = f[Len(ordered)]
    BY DEF SettledStretches
  <1>2. Len(ordered) = n /\ \A k \in 1..n : Clamp(ordered[k], period.start, period.end) = Piece(issued, period, k)
    BY DEF Billed, Meeting, Piece
  <1> HIDE DEF ordered
  <1>3. step \in [(1..n) \X Lists -> Lists]
    <2> SUFFICES ASSUME NEW k \in 1..n, NEW list \in Lists PROVE RunOn(list, Piece(issued, period, k)) \in Lists
      OBVIOUS
    <2>1. QED
      BY RunOnType
  <1>4. <<>> \in Lists
    OBVIOUS
  <1>5. PICK g \in [0..n -> Lists] : Follows(g, n, <<>>, step)
    <2> HIDE DEF step, Lists
    <2>1. QED
      BY <1>3, <1>4, StepsExist
  <1>6. ASSUME NEW k \in 1..n PROVE g[k] = RunOn(g[k - 1], Piece(issued, period, k))
    <2>1. g[k] = step[<<k, g[k - 1]>>]
      BY <1>5 DEF Follows
    <2>2. g[k - 1] \in Lists
      BY <1>5
    <2> HIDE DEF Lists
    <2>3. QED
      BY <2>1, <2>2
  <1>7. Settles(g)
    <2>1. ASSUME NEW k \in 0..n
          PROVE  g[k] = IF k = 0 THEN <<>>
                        ELSE RunOn(g[k - 1], Clamp(ordered[k], period.start, period.end))
      <3>1. CASE k = 0
        BY <1>5, <3>1 DEF Follows
      <3>2. CASE k # 0
        <4>1. k \in 1..n
          BY <3>2
        <4>2. QED
          BY <1>2, <1>6, <3>2, <4>1
      <3>3. QED
        BY <3>1, <3>2
    <2>2. g = [k \in 0..n |-> g[k]]
      BY <1>5
    <2>3. QED
      BY <1>2, <2>1, <2>2
  <1>8. Settles(f)
    BY <1>7
  <1> HIDE DEF f
  <1>9. \A k \in 0..n : f[k] = IF k = 0 THEN <<>>
                                ELSE RunOn(f[k - 1], Clamp(ordered[k], period.start, period.end))
    <2>1. f = [k \in 0..n |-> IF k = 0 THEN <<>>
                              ELSE RunOn(f[k - 1], Clamp(ordered[k], period.start, period.end))]
      BY <1>2, <1>8, Zenon
    <2>2. QED
      BY <2>1, Zenon
  <1>10. 0 \in 0..n /\ \A k \in 1..n : k \in 0..n /\ k # 0
    OBVIOUS
  <1>11. f[0] = <<>>
    BY <1>9, <1>10
  <1>12. ASSUME NEW k \in 1..n PROVE f[k] = RunOn(f[k - 1], Piece(issued, period, k))
    BY <1>2, <1>9, <1>10
  <1>13. QED
    BY <1>1, <1>2, <1>11, <1>12

\* A period of some days, and what was invoiced of the days up to the last.
IsPeriod(period) == period.start \in Int /\ period.end \in Int /\ period.start <= period.end

IsInvoiced(issued, last) ==
  IsFiniteSet(issued) /\ \A i \in issued : i.start \in 0..last /\ i.end \in Int /\ i.start <= i.end

AllDays(issued) == UNION {Days(i) : i \in issued}

\* What falls between two days has the days it shares with them.
LEMMA ClampDays ==
  ASSUME NEW s, s.start \in Int, s.end \in Int, NEW period, period.start \in Int, period.end \in Int
  PROVE  /\ Clamp(s, period.start, period.end) \in Spans
         /\ Days(Clamp(s, period.start, period.end)) = Days(s) \cap Days(period)
         /\ Clamp(s, period.start, period.end).start = Later(s.start, period.start)
         /\ Clamp(s, period.start, period.end).end = Earlier(s.end, period.end)
  <1> DEFINE c == Clamp(s, period.start, period.end)
  <1>1. c = [start |-> Later(s.start, period.start), end |-> Earlier(s.end, period.end)]
    BY DEF Clamp
  <1>2. Later(s.start, period.start) \in Int /\ Earlier(s.end, period.end) \in Int
    BY LaterAndEarlier
  <1>3. c \in Spans /\ c.start = Later(s.start, period.start) /\ c.end = Earlier(s.end, period.end)
    BY <1>1, <1>2 DEF Spans
  <1> DEFINE A == Days(c)
             B == Days(s)
             C == Days(period)
  <1>4. \A d : d \in A <=> d \in Int /\ Later(s.start, period.start) <= d /\ d <= Earlier(s.end, period.end)
    BY <1>2, <1>3 DEF Days
  <1>5. \A d : d \in B <=> d \in Int /\ s.start <= d /\ d <= s.end
    BY DEF Days
  <1>6. \A d : d \in C <=> d \in Int /\ period.start <= d /\ d <= period.end
    BY DEF Days
  <1>7. \A d \in Int : (Later(s.start, period.start) <= d /\ d <= Earlier(s.end, period.end))
                       <=> (s.start <= d /\ d <= s.end) /\ (period.start <= d /\ d <= period.end)
    BY DEF Later, Earlier
  <1> HIDE DEF A, B, C
  <1>8. \A d : d \in A <=> d \in B /\ d \in C
    <2> TAKE d
    <2>1. d \in Int => ((Later(s.start, period.start) <= d /\ d <= Earlier(s.end, period.end))
                       <=> (s.start <= d /\ d <= s.end) /\ (period.start <= d /\ d <= period.end))
      BY <1>7
    <2>2. QED
      BY <1>4, <1>5, <1>6, <2>1, Zenon
  <1>9. A = B \cap C
    BY <1>8
  <1>10. QED
    BY <1>3, <1>9 DEF A, B, C

IsSettled(run, issued, period) ==
  /\ IsRun(run) /\ IsBetween(run, period.start, period.end)
  /\ DaysOf(run) = Days(period) \cap AllDays(issued)

\* The pieces, in date order.
LEMMA PiecesOfAPeriod ==
  ASSUME NEW last \in Nat, NEW issued, IsInvoiced(issued, last), NEW period, IsPeriod(period)
  PROVE  \E n \in Nat :
           /\ Len(Billed(issued, period)) = n
           /\ \A k \in 1..n : LET c == Piece(issued, period, k)
                              IN  /\ c \in Spans /\ ~IsEmpty(c)
                                  /\ period.start <= c.start /\ c.end <= period.end
           /\ \A j, k \in 1..n : j < k => Piece(issued, period, j).start <= Piece(issued, period, k).start
           /\ UNION {Days(Piece(issued, period, k)) : k \in 1..n} = Days(period) \cap AllDays(issued)
  <1> DEFINE met == Meeting(issued, period)
             ordered == Billed(issued, period)
  <1>1. \A i \in met : /\ i \in issued /\ i.start \in 0..last /\ i.end \in Int /\ i.start <= i.end
                       /\ i.start <= period.end /\ i.end >= period.start
    BY DEF Meeting, IsInvoiced
  <1>2. IsFiniteSet(met)
    BY FS_Subset DEF Meeting, IsInvoiced
  <1>3. ordered = InDateOrder(met)
    BY DEF Billed
  <1> HIDE DEF met
  <1>4. PICK n \in Nat : /\ InDateOrder(met) \in [1..n -> met] /\ StartsInOrder(InDateOrder(met))
                         /\ {InDateOrder(met)[i] : i \in 1..n} = met
    BY <1>1, <1>2, InDateOrderLists
  <1> HIDE DEF ordered
  <1>5. ordered \in [1..n -> met] /\ StartsInOrder(ordered) /\ {ordered[i] : i \in 1..n} = met
    BY <1>3, <1>4
  <1>6. Len(ordered) = n
    <2>1. ordered \in Seq(met)
      BY <1>5, SeqDef
    <2>2. QED
      BY <1>5, <2>1, LenProperties
  <1>7. ASSUME NEW k \in 1..n
        PROVE  /\ ordered[k] \in met /\ ordered[k].start \in Int /\ ordered[k].end \in Int
               /\ Piece(issued, period, k) = Clamp(ordered[k], period.start, period.end)
    BY <1>1, <1>5 DEF Piece, ordered
  <1>8. ASSUME NEW k \in 1..n
        PROVE  LET c == Piece(issued, period, k)
               IN  /\ c \in Spans /\ ~IsEmpty(c)
                   /\ period.start <= c.start /\ c.end <= period.end
                   /\ c.start = Later(ordered[k].start, period.start)
                   /\ Days(c) = Days(ordered[k]) \cap Days(period)
    <2> DEFINE c == Piece(issued, period, k)
               s == ordered[k]
    <2>1. s \in met /\ s.start \in Int /\ s.end \in Int /\ c = Clamp(s, period.start, period.end)
      BY <1>7
    <2>2. s.start <= s.end /\ s.start <= period.end /\ s.end >= period.start
      BY <1>1, <2>1
    <2>3. period.start \in Int /\ period.end \in Int /\ period.start <= period.end
      BY DEF IsPeriod
    <2> HIDE DEF c, s
    <2>4. /\ c \in Spans /\ Days(c) = Days(s) \cap Days(period)
          /\ c.start = Later(s.start, period.start) /\ c.end = Earlier(s.end, period.end)
      BY <2>1, <2>3, ClampDays
    <2>5. c.start <= c.end /\ period.start <= c.start /\ c.end <= period.end
      BY <2>1, <2>2, <2>3, <2>4 DEF Later, Earlier
    <2>6. ~IsEmpty(c)
      BY <2>4, <2>5, EmptyHasNoDays DEF IsEmpty
    <2>7. QED
      BY <2>4, <2>5, <2>6 DEF c, s
  <1>9. ASSUME NEW j \in 1..n, NEW k \in 1..n, j < k
        PROVE  Piece(issued, period, j).start <= Piece(issued, period, k).start
    <2>1. DOMAIN ordered = 1..n
      BY <1>5
    <2>2. ordered[j].start <= ordered[k].start
      BY <1>5, <1>9, <2>1 DEF StartsInOrder
    <2>3. ordered[j].start \in Int /\ ordered[k].start \in Int /\ period.start \in Int
      BY <1>7 DEF IsPeriod
    <2>4. Later(ordered[j].start, period.start) <= Later(ordered[k].start, period.start)
      BY <2>2, <2>3 DEF Later
    <2>5. QED
      BY <1>8, <2>4
  <1>10. UNION {Days(Piece(issued, period, k)) : k \in 1..n} = Days(period) \cap AllDays(issued)
    <2>1. \A k \in 1..n : Days(Piece(issued, period, k)) = Days(ordered[k]) \cap Days(period)
      BY <1>8
    <2>2. UNION {Days(Piece(issued, period, k)) : k \in 1..n} = UNION {Days(ordered[k]) \cap Days(period) : k \in 1..n}
      BY <2>1
    <2>3. \A k \in 1..n : ordered[k] \in issued
      BY <1>1, <1>7
    <2>4. \A i \in met : \E k \in 1..n : ordered[k] = i
      BY <1>5
    <2>5. ASSUME NEW i \in issued, NEW d \in Days(i) \cap Days(period)
          PROVE  \E k \in 1..n : d \in Days(ordered[k])
      <3>1. i.start \in Int /\ i.end \in Int /\ period.start \in Int /\ period.end \in Int
        BY DEF IsInvoiced, IsPeriod
      <3>2. i.start <= d /\ d <= i.end /\ period.start <= d /\ d <= period.end /\ d \in Int
        BY <3>1 DEF Days
      <3>3. i \in met
        BY <3>1, <3>2 DEF met, Meeting
      <3>4. QED
        BY <2>4, <3>3
    <2>6. ASSUME NEW d PROVE d \in UNION {Days(ordered[k]) \cap Days(period) : k \in 1..n}
                             <=> d \in Days(period) /\ d \in AllDays(issued)
      <3>1. d \in AllDays(issued) <=> \E i \in issued : d \in Days(i)
        BY DEF AllDays
      <3>2. d \in UNION {Days(ordered[k]) \cap Days(period) : k \in 1..n}
            <=> \E k \in 1..n : d \in Days(ordered[k]) /\ d \in Days(period)
        OBVIOUS
      <3>3. QED
        BY <2>3, <2>5, <3>1, <3>2
    <2>7. QED
      BY <2>2, <2>6
  <1>11. QED
    BY <1>6, <1>8, <1>9, <1>10 DEF ordered

\* What is settled of a period is a run of the days of it that were invoiced.
LEMMA SettledIsARun ==
  ASSUME NEW last \in Nat, NEW issued, IsInvoiced(issued, last), NEW period, IsPeriod(period)
  PROVE  IsSettled(SettledStretches(issued, period), issued, period)
  <1> DEFINE piece(k) == Piece(issued, period, k)
  <1>1. PICK n \in Nat :
           /\ Len(Billed(issued, period)) = n
           /\ \A k \in 1..n : LET c == piece(k)
                              IN  /\ c \in Spans /\ ~IsEmpty(c)
                                  /\ period.start <= c.start /\ c.end <= period.end
           /\ \A j, k \in 1..n : j < k => piece(j).start <= piece(k).start
           /\ UNION {Days(piece(k)) : k \in 1..n} = Days(period) \cap AllDays(issued)
    BY PiecesOfAPeriod
  <1>2. PICK settled : /\ settled[0] = <<>>
                       /\ \A k \in 1..n : settled[k] = RunOn(settled[k - 1], piece(k))
                       /\ SettledStretches(issued, period) = settled[n]
    BY <1>1, SettledSteps
  <1> HIDE DEF piece
  <1> DEFINE Upto(k) == UNION {Days(piece(i)) : i \in 1..k}
             Before(list, k) == \A i \in DOMAIN list : \A j \in 1..n : k < j => list[i].start <= piece(j).start
             Good(list, k) == /\ IsRun(list) /\ IsBetween(list, period.start, period.end)
                              /\ DaysOf(list) = Upto(k) /\ Before(list, k)
             T == {k \in 0..n : Good(settled[k], k)}
  <1>3. 0 \in T
    <2>1. DOMAIN settled[0] = {} /\ settled[0] \in Seq(Spans)
      BY <1>2
    <2>2. IsRun(settled[0]) /\ IsBetween(settled[0], period.start, period.end) /\ Before(settled[0], 0)
      BY <2>1 DEF IsRun, InOrder, IsBetween
    <2>3. DaysOf(settled[0]) = Upto(0)
      <3>1. 1..0 = {}
        OBVIOUS
      <3>2. QED
        BY <2>1, <3>1 DEF DaysOf
    <2>4. 0 \in 0..n
      OBVIOUS
    <2> HIDE DEF Upto, Before
    <2>5. QED
      BY <2>2, <2>3, <2>4
  <1>4. ASSUME NEW k \in 1..n, k - 1 \in T PROVE k \in T
    <2>1. PICK run, c : run = settled[k - 1] /\ c = piece(k)
      OBVIOUS
    <2>2. Good(run, k - 1)
      BY <1>4, <2>1
    <2>3. /\ c \in Spans /\ ~IsEmpty(c)
          /\ period.start <= c.start /\ c.end <= period.end
      BY <1>1, <2>1
    <2>4. settled[k] = RunOn(run, c)
      BY <1>2, <2>1
    <2>5. k - 1 < k /\ k \in 0..n
      OBVIOUS
    <2>6. \A i \in DOMAIN run : run[i].start <= c.start
      BY <2>1, <2>2, <2>5
    <2>7. /\ IsRun(RunOn(run, c)) /\ DaysOf(RunOn(run, c)) = DaysOf(run) \cup Days(c)
          /\ IsBetween(RunOn(run, c), period.start, period.end)
          /\ \A i \in DOMAIN RunOn(run, c) : RunOn(run, c)[i].start <= c.start
      BY <2>2, <2>3, <2>6, RunOnCovers DEF IsPeriod
    <2>8. PICK longer : longer = RunOn(run, c)
      OBVIOUS
    <2>9. Before(longer, k)
      <3> SUFFICES ASSUME NEW i \in DOMAIN longer, NEW j \in 1..n, k < j PROVE longer[i].start <= piece(j).start
        OBVIOUS
      <3>1. longer[i].start <= c.start
        BY <2>7, <2>8
      <3>2. c.start <= piece(j).start
        BY <1>1, <2>1
      <3>3. c.start \in Int /\ piece(j).start \in Int
        BY <1>1, <2>3, EmptyHasNoDays
      <3>4. longer[i].start \in Int
        <4>1. longer \in Seq(Spans)
          BY <2>7, <2>8 DEF IsRun
        <4>2. longer[i] \in Spans
          BY <4>1
        <4>3. QED
          BY <4>2, EmptyHasNoDays
      <3>5. QED
        BY <3>1, <3>2, <3>3, <3>4
    <2>10. Upto(k) = Upto(k - 1) \cup Days(c)
      <3>1. 1..k = (1..k - 1) \cup {k}
        OBVIOUS
      <3>2. {Days(piece(i)) : i \in 1..k} = {Days(piece(i)) : i \in 1..k - 1} \cup {Days(c)}
        BY <2>1, <3>1
      <3>3. QED
        BY <3>2
    <2> HIDE DEF Upto, Before
    <2>11. Good(longer, k)
      BY <2>2, <2>7, <2>8, <2>9, <2>10
    <2>12. QED
      BY <2>4, <2>5, <2>8, <2>11
  <1>5. T = 0..n
    <2>1. T \in SUBSET (0..n)
      OBVIOUS
    <2> HIDE DEF T
    <2>2. QED
      BY <1>3, <1>4, <2>1, HoldsUpTo
  <1>6. n \in T
    BY <1>5
  <1>7. Good(settled[n], n)
    BY <1>6
  <1> HIDE DEF Before
  <1>8. QED
    BY <1>1, <1>2, <1>7 DEF IsSettled

-----------------------------------------------------------------------------
(* What is left open between them.                                         *)

GapFrom(period, settled, i) == IF i = 1 THEN period.start ELSE settled[i - 1].end + 1

GapTo(period, settled, i) == IF i > Len(settled) THEN period.end ELSE settled[i].start - 1

Gap(period, settled, i) == [start |-> GapFrom(period, settled, i), end |-> GapTo(period, settled, i)]

\* The stretches of a run lie in the order they are in.
LEMMA RunLies ==
  ASSUME NEW run, IsRun(run)
  PROVE  /\ run \in Seq(Spans) /\ Len(run) \in Nat /\ DOMAIN run = 1..Len(run)
         /\ \A i \in 1..Len(run) : /\ run[i] \in Spans /\ run[i].start \in Int /\ run[i].end \in Int
                                   /\ run[i].start <= run[i].end
         /\ \A i, j \in 1..Len(run) : i < j => run[i].end < run[j].start
  <1> DEFINE n == Len(run)
  <1>1. run \in Seq(Spans) /\ n \in Nat /\ DOMAIN run = 1..n /\ \A i \in 1..n : run[i] \in Spans /\ ~IsEmpty(run[i])
    BY LenProperties, ElementOfSeq DEF IsRun
  <1> HIDE DEF n
  <1>2. \A i \in 1..n : run[i].start \in Int /\ run[i].end \in Int /\ run[i].start <= run[i].end
    BY <1>1, EmptyHasNoDays DEF IsEmpty
  <1>3. \A i, j \in 1..n : i < j => run[i].end < run[j].start
    BY <1>1 DEF IsRun, InOrder
  <1>4. QED
    BY <1>1, <1>2, <1>3 DEF n

IsLeftOpen(run, settled, period) ==
  /\ IsRun(run) /\ IsBetween(run, period.start, period.end)
  /\ DaysOf(run) = Days(period) \ DaysOf(settled)

\* The gaps are in date order, and are the days that are not settled.
LEMMA GapsAreOpen ==
  ASSUME NEW period, IsPeriod(period), NEW settled, IsRun(settled),
         IsBetween(settled, period.start, period.end), NEW n, n = Len(settled),
         NEW gaps, gaps = [i \in 1..n + 1 |-> Gap(period, settled, i)]
  PROVE  /\ gaps \in Seq(Spans) /\ InOrder(gaps) /\ IsBetween(gaps, period.start, period.end)
         /\ DaysOf(gaps) = Days(period) \ DaysOf(settled)
  <1>1. /\ n \in Nat /\ DOMAIN settled = 1..n
        /\ \A i \in 1..n : settled[i].start \in Int /\ settled[i].end \in Int /\ settled[i].start <= settled[i].end
        /\ \A i, j \in 1..n : i < j => settled[i].end < settled[j].start
    BY RunLies
  <1>2. \A i \in 1..n : period.start <= settled[i].start /\ settled[i].end <= period.end
    BY <1>1 DEF IsBetween
  <1>3. period.start \in Int /\ period.end \in Int /\ period.start <= period.end
    BY DEF IsPeriod
  <1> DEFINE From(i) == GapFrom(period, settled, i)
             To(i) == GapTo(period, settled, i)
  <1>4. ASSUME NEW i \in 1..n + 1
        PROVE  /\ i = 1 => From(i) = period.start
               /\ i # 1 => i - 1 \in 1..n /\ From(i) = settled[i - 1].end + 1
               /\ i = n + 1 => To(i) = period.end
               /\ i # n + 1 => i \in 1..n /\ To(i) = settled[i].start - 1
    BY <1>1 DEF GapFrom, GapTo
  <1>5. ASSUME NEW i \in 1..n + 1
        PROVE  From(i) \in Int /\ To(i) \in Int /\ period.start <= From(i) /\ To(i) <= period.end
    <2> HIDE DEF From, To
    <2>1. From(i) \in Int /\ period.start <= From(i)
      <3>1. CASE i = 1
        BY <1>3, <1>4, <3>1
      <3>2. CASE i # 1
        <4>1. i - 1 \in 1..n /\ From(i) = settled[i - 1].end + 1
          BY <1>4, <3>2
        <4>2. /\ settled[i - 1].start \in Int /\ settled[i - 1].end \in Int
              /\ settled[i - 1].start <= settled[i - 1].end /\ period.start <= settled[i - 1].start
          BY <1>1, <1>2, <4>1
        <4>3. QED
          BY <1>3, <4>1, <4>2
      <3>3. QED
        BY <3>1, <3>2
    <2>2. To(i) \in Int /\ To(i) <= period.end
      <3>1. CASE i = n + 1
        BY <1>3, <1>4, <3>1
      <3>2. CASE i # n + 1
        <4>1. i \in 1..n /\ To(i) = settled[i].start - 1
          BY <1>4, <3>2
        <4>2. /\ settled[i].start \in Int /\ settled[i].end \in Int
              /\ settled[i].start <= settled[i].end /\ settled[i].end <= period.end
          BY <1>1, <1>2, <4>1
        <4>3. QED
          BY <1>3, <4>1, <4>2
      <3>3. QED
        BY <3>1, <3>2
    <2>3. QED
      BY <2>1, <2>2
  <1> HIDE DEF From, To
  <1>6. /\ DOMAIN gaps = 1..n + 1
        /\ \A i \in 1..n + 1 : /\ gaps[i] = [start |-> From(i), end |-> To(i)]
                               /\ gaps[i].start = From(i) /\ gaps[i].end = To(i) /\ gaps[i] \in Spans
    BY <1>5 DEF Gap, From, To, Spans
  <1>7. gaps \in Seq(Spans)
    <2>1. n + 1 \in Nat
      BY <1>1
    <2>2. gaps \in [1..n + 1 -> Spans]
      <3>1. gaps = [i \in 1..n + 1 |-> gaps[i]]
        BY <1>6
      <3>2. QED
        BY <1>6, <3>1
    <2>3. QED
      BY <2>1, <2>2, SeqDef
  <1>8. ASSUME NEW i \in 1..n + 1, NEW j \in 1..n + 1, i < j PROVE To(i) < From(j)
    <2>1. i \in 1..n /\ To(i) = settled[i].start - 1 /\ j - 1 \in 1..n /\ From(j) = settled[j - 1].end + 1
      BY <1>1, <1>4, <1>8
    <2>2. i = j - 1 \/ i < j - 1
      BY <1>1, <1>8
    <2>3. settled[i].start <= settled[j - 1].end
      <3>1. CASE i = j - 1
        BY <1>1, <2>1, <3>1
      <3>2. CASE i < j - 1
        <4>1. settled[i].end < settled[j - 1].start
          BY <1>1, <2>1, <3>2
        <4>2. settled[i].start <= settled[i].end /\ settled[j - 1].start <= settled[j - 1].end
          BY <1>1, <2>1
        <4>3. QED
          BY <1>1, <2>1, <4>1, <4>2
      <3>3. QED
        BY <2>2, <3>1, <3>2
    <2>4. QED
      BY <1>1, <2>1, <2>3
  <1>9. InOrder(gaps)
    BY <1>6, <1>8 DEF InOrder
  <1>10. IsBetween(gaps, period.start, period.end)
    BY <1>5, <1>6 DEF IsBetween
  <1>11. \A i \in 1..n + 1 : \A d : d \in Days(gaps[i]) <=> d \in Int /\ From(i) <= d /\ d <= To(i)
    BY <1>5, <1>6 DEF Days
  <1>12. \A i \in 1..n : \A d : d \in Days(settled[i]) <=> d \in Int /\ settled[i].start <= d /\ d <= settled[i].end
    BY <1>1 DEF Days
  <1>13. \A d : d \in Days(period) <=> d \in Int /\ period.start <= d /\ d <= period.end
    BY <1>3 DEF Days
  <1>14. ASSUME NEW i \in 1..n + 1, NEW d \in Days(gaps[i])
         PROVE  d \in Days(period) /\ \A j \in 1..n : d \notin Days(settled[j])
    <2>1. d \in Int /\ From(i) <= d /\ d <= To(i)
      BY <1>11
    <2>2. d \in Days(period)
      <3>1. From(i) \in Int /\ To(i) \in Int /\ period.start <= From(i) /\ To(i) <= period.end
        BY <1>5
      <3> HIDE DEF From, To
      <3>2. period.start <= d /\ d <= period.end
        BY <1>3, <2>1, <3>1
      <3>3. QED
        BY <1>13, <2>1, <3>2
    <2>3. ASSUME NEW j \in 1..n PROVE ~(settled[j].start <= d /\ d <= settled[j].end)
      <3>1. CASE j < i
        <4>1. i # 1 /\ i - 1 \in 1..n /\ From(i) = settled[i - 1].end + 1
          BY <1>1, <1>4, <3>1
        <4>2. j = i - 1 \/ j < i - 1
          BY <1>1, <3>1
        <4>3. settled[j].end <= settled[i - 1].end
          <5>1. CASE j = i - 1
            BY <1>1, <4>1, <5>1
          <5>2. CASE j < i - 1
            <6>1. settled[j].end < settled[i - 1].start
              BY <1>1, <4>1, <5>2
            <6>2. /\ settled[i - 1].start <= settled[i - 1].end /\ settled[i - 1].start \in Int
                  /\ settled[i - 1].end \in Int /\ settled[j].end \in Int
              BY <1>1, <4>1
            <6>3. QED
              BY <6>1, <6>2
          <5>3. QED
            BY <4>2, <5>1, <5>2
        <4>4. QED
          BY <1>1, <2>1, <4>1, <4>3
      <3>2. CASE ~(j < i)
        <4>1. i # n + 1 /\ i \in 1..n /\ To(i) = settled[i].start - 1
          BY <1>1, <1>4, <3>2
        <4>2. i = j \/ i < j
          BY <1>1, <3>2
        <4>3. settled[i].start <= settled[j].start
          BY <1>1, <4>1, <4>2
        <4>4. QED
          BY <1>1, <2>1, <4>1, <4>3
      <3>3. QED
        BY <3>1, <3>2
    <2>4. QED
      BY <1>12, <2>2, <2>3
  <1>15. ASSUME NEW d \in Days(period), \A j \in 1..n : d \notin Days(settled[j])
         PROVE  \E i \in 1..n + 1 : d \in Days(gaps[i])
    <2>1. d \in Int /\ period.start <= d /\ d <= period.end
      BY <1>13
    <2> DEFINE S == {i \in 1..n + 1 : i = n + 1 \/ d < settled[i].start}
    <2>2. n + 1 \in S /\ S \in SUBSET Nat
      BY <1>1
    <2>3. PICK i \in S : \A k \in S : i <= k
      BY <2>2, LeastNatural
    <2>4. i \in 1..n + 1 /\ (i = n + 1 \/ d < settled[i].start)
      BY <2>3
    <2>5. d <= To(i)
      BY <1>1, <1>4, <2>1, <2>4
    <2>6. From(i) <= d
      <3>1. CASE i = 1
        BY <1>4, <2>1, <2>4, <3>1
      <3>2. CASE i # 1
        <4>1. i - 1 \in 1..n /\ From(i) = settled[i - 1].end + 1
          BY <1>4, <2>4, <3>2
        <4>2. i - 1 \notin S
          BY <2>3, <2>4
        <4>3. ~(d < settled[i - 1].start)
          BY <1>1, <4>1, <4>2
        <4>4. ~(settled[i - 1].start <= d /\ d <= settled[i - 1].end)
          BY <1>12, <1>15, <2>1, <4>1
        <4>5. QED
          BY <1>1, <2>1, <4>1, <4>3, <4>4
      <3>3. QED
        BY <3>1, <3>2
    <2>7. QED
      BY <1>11, <2>1, <2>4, <2>5, <2>6
  <1>16. DaysOf(gaps) = Days(period) \ DaysOf(settled)
    <2>1. \A d : d \in DaysOf(gaps) <=> \E i \in 1..n + 1 : d \in Days(gaps[i])
      BY <1>6 DEF DaysOf
    <2>2. \A d : d \in DaysOf(settled) <=> \E i \in 1..n : d \in Days(settled[i])
      BY <1>1 DEF DaysOf
    <2>3. \A d : d \in DaysOf(gaps) <=> d \in Days(period) /\ d \notin DaysOf(settled)
      BY <1>14, <1>15, <2>1, <2>2
    <2>4. QED
      BY <2>3
  <1>17. QED
    BY <1>7, <1>9, <1>10, <1>16

\* What is open of a period is a run of the days of it that are not settled.
LEMMA OpenIsARun ==
  ASSUME NEW period, IsPeriod(period), NEW settled, IsRun(settled),
         IsBetween(settled, period.start, period.end)
  PROVE  IsLeftOpen(OpenStretches(period, settled), settled, period)
  <1>1. PICK n, gaps : n = Len(settled) /\ gaps = [i \in 1..n + 1 |-> Gap(period, settled, i)]
    OBVIOUS
  <1>2. /\ gaps \in Seq(Spans) /\ InOrder(gaps) /\ IsBetween(gaps, period.start, period.end)
        /\ DaysOf(gaps) = Days(period) \ DaysOf(settled)
    BY <1>1, GapsAreOpen
  <1>3. OpenStretches(period, settled) = NotEmpty(gaps)
    BY <1>1 DEF OpenStretches, Gap, GapFrom, GapTo
  <1>4. /\ IsRun(NotEmpty(gaps)) /\ DaysOf(NotEmpty(gaps)) = DaysOf(gaps)
        /\ \A a \in DOMAIN NotEmpty(gaps) : \E i \in DOMAIN gaps : NotEmpty(gaps)[a] = gaps[i]
    BY <1>2, NotEmptyIsARun
  <1>5. IsBetween(NotEmpty(gaps), period.start, period.end)
    BY <1>2, <1>4 DEF IsBetween
  <1>6. QED
    BY <1>2, <1>3, <1>4, <1>5 DEF IsLeftOpen

-----------------------------------------------------------------------------
(* What is compared, and what the window cuts away.                        *)

IsCompared(run, open, window, period) ==
  /\ IsRun(run) /\ IsBetween(run, period.start, period.end)
  /\ DaysOf(run) = DaysOf(open) \cap Days(window)

\* What is compared is a run of the open days in the window.
LEMMA ComparedIsARun ==
  ASSUME NEW period, IsPeriod(period), NEW open, IsRun(open), IsBetween(open, period.start, period.end),
         NEW window, IsPeriod(window)
  PROVE  IsCompared(ComparedStretches(open, window), open, window, period)
  <1> DEFINE n == Len(open)
             list == [i \in DOMAIN open |-> Within(open[i], window)]
  <1>1. /\ n \in Nat /\ DOMAIN open = 1..n
        /\ \A i \in 1..n : open[i] \in Spans /\ open[i].start \in Int /\ open[i].end \in Int /\ open[i].start <= open[i].end
        /\ \A i, j \in 1..n : i < j => open[i].end < open[j].start
    BY RunLies
  <1>2. ComparedStretches(open, window) = NotEmpty(list)
    BY DEF ComparedStretches
  <1>3. period.start \in Int /\ period.end \in Int /\ window.start \in Int /\ window.end \in Int
    BY DEF IsPeriod
  <1> HIDE DEF n
  <1>4. DOMAIN list = 1..n /\ \A i \in 1..n : list[i] = Clamp(open[i], window.start, window.end)
    BY <1>1 DEF Within
  <1>5. list \in Seq(Spans)
    <2>1. \A i \in 1..n : list[i] \in Spans
      BY <1>1, <1>3, <1>4, ClampDays
    <2>2. list \in [1..n -> Spans]
      <3>1. list = [i \in 1..n |-> list[i]]
        BY <1>1
      <3> HIDE DEF list
      <3>2. QED
        BY <2>1, <3>1
    <2> HIDE DEF list
    <2>3. QED
      BY <1>1, <2>2, SeqDef
  <1> HIDE DEF list
  <1>6. ASSUME NEW i \in 1..n
        PROVE  /\ list[i].start \in Int /\ list[i].end \in Int
               /\ open[i].start <= list[i].start /\ list[i].end <= open[i].end
               /\ Days(list[i]) = Days(open[i]) \cap Days(window)
    <2>1. /\ Days(list[i]) = Days(open[i]) \cap Days(window)
          /\ list[i].start = Later(open[i].start, window.start)
          /\ list[i].end = Earlier(open[i].end, window.end)
      BY <1>1, <1>3, <1>4, ClampDays
    <2>2. /\ Later(open[i].start, window.start) \in Int /\ Later(open[i].start, window.start) >= open[i].start
          /\ Earlier(open[i].end, window.end) \in Int /\ Earlier(open[i].end, window.end) <= open[i].end
      BY <1>1, <1>3, LaterAndEarlier
    <2>3. open[i].start \in Int /\ open[i].end \in Int
      BY <1>1
    <2>4. QED
      BY <2>1, <2>2, <2>3
  <1>7. InOrder(list)
    <2> SUFFICES ASSUME NEW i \in 1..n, NEW j \in 1..n, i < j PROVE list[i].end < list[j].start
      BY <1>4 DEF InOrder
    <2>1. open[i].end < open[j].start
      BY <1>1
    <2>2. open[i].end \in Int /\ open[j].start \in Int
      BY <1>1
    <2>3. QED
      BY <1>6, <2>1, <2>2
  <1>8. /\ IsRun(NotEmpty(list)) /\ DaysOf(NotEmpty(list)) = DaysOf(list)
        /\ \A a \in DOMAIN NotEmpty(list) : \E i \in DOMAIN list : NotEmpty(list)[a] = list[i]
    BY <1>5, <1>7, NotEmptyIsARun
  <1>9. DaysOf(list) = DaysOf(open) \cap Days(window)
    <2>1. \A d : d \in DaysOf(list) <=> \E i \in 1..n : d \in Days(list[i])
      BY <1>4 DEF DaysOf
    <2>2. \A d : d \in DaysOf(open) <=> \E i \in 1..n : d \in Days(open[i])
      BY <1>1 DEF DaysOf
    <2>3. \A d : d \in DaysOf(list) <=> d \in DaysOf(open) /\ d \in Days(window)
      BY <1>6, <2>1, <2>2
    <2>4. QED
      BY <2>3
  <1>10. IsBetween(NotEmpty(list), period.start, period.end)
    <2>1. ASSUME NEW i \in 1..n PROVE period.start <= list[i].start /\ list[i].end <= period.end
      <3>1. period.start <= open[i].start /\ open[i].end <= period.end
        BY <1>1 DEF IsBetween
      <3>2. open[i].start \in Int /\ open[i].end \in Int
        BY <1>1
      <3>3. QED
        BY <1>3, <1>6, <3>1, <3>2
    <2>2. QED
      BY <1>4, <1>8, <2>1 DEF IsBetween
  <1>11. QED
    BY <1>2, <1>8, <1>9, <1>10 DEF IsCompared

\* What a window cuts away of a stretch.
CutBy(s, window) ==
  IF IsEmpty(Within(s, window)) THEN <<s>>
  ELSE NotEmpty(<<[start |-> s.start, end |-> Within(s, window).start - 1],
                  [start |-> Within(s, window).end + 1, end |-> s.end]>>)

IsCut(run, s, window) ==
  /\ IsRun(run) /\ DaysOf(run) = Days(s) \ Days(window)
  /\ \A i \in DOMAIN run : s.start <= run[i].start /\ run[i].end <= s.end

\* It is a run of the stretch's days that are not in the window.
LEMMA CutIsARun ==
  ASSUME NEW s \in Spans, ~IsEmpty(s), NEW window, IsPeriod(window)
  PROVE  IsCut(CutBy(s, window), s, window)
  <1> DEFINE w == Within(s, window)
  <1>1. s.start \in Int /\ s.end \in Int /\ s.start <= s.end
    BY EmptyHasNoDays DEF IsEmpty
  <1>2. window.start \in Int /\ window.end \in Int
    BY DEF IsPeriod
  <1>3. w = Clamp(s, window.start, window.end)
    BY DEF Within
  <1> HIDE DEF w
  <1>4. /\ w \in Spans /\ Days(w) = Days(s) \cap Days(window)
        /\ w.start = Later(s.start, window.start) /\ w.end = Earlier(s.end, window.end)
    BY <1>1, <1>2, <1>3, ClampDays
  <1>5. w.start \in Int /\ w.end \in Int /\ s.start <= w.start /\ w.end <= s.end
    BY <1>1, <1>2, <1>4, LaterAndEarlier
  <1>6. CASE IsEmpty(w)
    <2>1. CutBy(s, window) = <<s>>
      BY <1>6 DEF CutBy, w
    <2> DEFINE run == <<s>>
    <2>2. run \in Seq(Spans) /\ DOMAIN run = {1} /\ run[1] = s
      OBVIOUS
    <2> HIDE DEF run
    <2>3. IsRun(run)
      BY <2>2 DEF IsRun, InOrder
    <2>4. DaysOf(run) = Days(s)
      BY <2>2 DEF DaysOf
    <2>5. Days(w) = {}
      BY <1>4, <1>6, EmptyHasNoDays
    <2>6. DaysOf(run) = Days(s) \ Days(window)
      BY <1>4, <2>4, <2>5
    <2>7. \A i \in DOMAIN run : s.start <= run[i].start /\ run[i].end <= s.end
      BY <1>1, <2>2
    <2>8. IsCut(run, s, window)
      BY <2>3, <2>6, <2>7 DEF IsCut
    <2>9. QED
      BY <2>1, <2>8 DEF run
  <1>7. CASE ~IsEmpty(w)
    <2>1. w.start <= w.end
      BY <1>5, <1>7 DEF IsEmpty
    <2> DEFINE before == [start |-> s.start, end |-> w.start - 1]
               after == [start |-> w.end + 1, end |-> s.end]
               parts == <<before, after>>
    <2>2. CutBy(s, window) = NotEmpty(parts)
      BY <1>7 DEF CutBy, w
    <2>3. /\ before \in Spans /\ before.start = s.start /\ before.end = w.start - 1
          /\ after \in Spans /\ after.start = w.end + 1 /\ after.end = s.end
      BY <1>1, <1>5 DEF Spans
    <2> HIDE DEF before, after
    <2>4. parts \in Seq(Spans) /\ DOMAIN parts = {1, 2} /\ parts[1] = before /\ parts[2] = after
      BY <2>3
    <2> HIDE DEF parts
    <2>5. InOrder(parts)
      <3>1. before.end < after.start
        BY <1>5, <2>1, <2>3
      <3>2. \A i, j \in {1, 2} : i < j => i = 1 /\ j = 2
        OBVIOUS
      <3>3. QED
        BY <2>4, <3>1, <3>2 DEF InOrder
    <2>6. /\ IsRun(NotEmpty(parts)) /\ DaysOf(NotEmpty(parts)) = DaysOf(parts)
          /\ \A a \in DOMAIN NotEmpty(parts) : \E i \in DOMAIN parts : NotEmpty(parts)[a] = parts[i]
      BY <2>4, <2>5, NotEmptyIsARun
    <2>7. DaysOf(parts) = Days(before) \cup Days(after)
      BY <2>4 DEF DaysOf
    <2> DEFINE A == Days(before)
               B == Days(after)
               C == Days(s)
               D == Days(w)
    <2>8. \A d : d \in A <=> d \in Int /\ s.start <= d /\ d <= w.start - 1
      BY <1>1, <1>5, <2>3 DEF Days
    <2>9. \A d : d \in B <=> d \in Int /\ w.end + 1 <= d /\ d <= s.end
      BY <1>1, <1>5, <2>3 DEF Days
    <2>10. \A d : d \in C <=> d \in Int /\ s.start <= d /\ d <= s.end
      BY <1>1 DEF Days
    <2>11. \A d : d \in D <=> d \in Int /\ w.start <= d /\ d <= w.end
      BY <1>5 DEF Days
    <2>12. \A d \in Int : ((s.start <= d /\ d <= w.start - 1) \/ (w.end + 1 <= d /\ d <= s.end))
                          <=> (s.start <= d /\ d <= s.end) /\ ~(w.start <= d /\ d <= w.end)
      BY <1>1, <1>5, <2>1
    <2> HIDE DEF A, B, C, D
    <2>13. \A d : d \in A \/ d \in B <=> d \in C /\ d \notin D
      <3> TAKE d
      <3>1. d \in Int => (((s.start <= d /\ d <= w.start - 1) \/ (w.end + 1 <= d /\ d <= s.end))
                          <=> (s.start <= d /\ d <= s.end) /\ ~(w.start <= d /\ d <= w.end))
        BY <2>12
      <3>2. QED
        BY <2>8, <2>9, <2>10, <2>11, <3>1, Zenon
    <2>14. A \cup B = C \ D
      BY <2>13
    <2>15. DaysOf(parts) = Days(s) \ Days(window)
      <3>1. D = C \cap Days(window)
        BY <1>4 DEF C, D
      <3>2. A \cup B = C \ Days(window)
        BY <2>14, <3>1
      <3>3. QED
        BY <2>7, <3>2 DEF A, B, C
    <2>16. \A i \in DOMAIN parts : s.start <= parts[i].start /\ parts[i].end <= s.end
      <3>1. s.start <= before.start /\ before.end <= s.end /\ s.start <= after.start /\ after.end <= s.end
        BY <1>1, <1>5, <2>1, <2>3
      <3>2. QED
        BY <2>4, <3>1
    <2>17. QED
      BY <2>2, <2>6, <2>15, <2>16 DEF IsCut
  <1>8. QED
    BY <1>6, <1>7

IsUncompared(run, open, window) ==
  IsRun(run) /\ DaysOf(run) = DaysOf(open) \ Days(window)

\* What is not compared is a run of the open days outside the window.
LEMMA UncomparedIsARun ==
  ASSUME NEW open, IsRun(open), NEW window, IsPeriod(window)
  PROVE  IsUncompared(UncomparedStretches(open, window), open, window)
  <1>1. PICK n : n = Len(open)
    OBVIOUS
  <1>2. /\ n \in Nat /\ DOMAIN open = 1..n
        /\ \A i \in 1..n : open[i] \in Spans /\ open[i].start \in Int /\ open[i].end \in Int /\ open[i].start <= open[i].end
        /\ \A i, j \in 1..n : i < j => open[i].end < open[j].start
    BY <1>1, RunLies
  <1>3. PICK lists : lists = [i \in 1..n |-> CutBy(open[i], window)]
    OBVIOUS
  <1>4. UncomparedStretches(open, window) = FlattenSeq(lists)
    BY <1>2, <1>3 DEF UncomparedStretches, CutBy
  <1>5. ASSUME NEW i \in 1..n PROVE IsCut(lists[i], open[i], window)
    <2>1. ~IsEmpty(open[i])
      BY <1>2 DEF IsRun
    <2>2. IsCut(CutBy(open[i], window), open[i], window)
      BY <1>2, <2>1, CutIsARun
    <2>3. QED
      BY <1>3, <2>2
  <1>6. \A i \in 1..n : IsRun(lists[i]) /\ lists[i] \in Seq(Spans)
    BY <1>5 DEF IsCut, IsRun
  <1>7. lists \in [1..n -> Seq(Spans)]
    BY <1>3, <1>6
  <1>8. ASSUME NEW i \in 1..n, NEW j \in 1..n, i < j PROVE Precedes(lists[i], lists[j])
    <2> SUFFICES ASSUME NEW a \in DOMAIN lists[i], NEW b \in DOMAIN lists[j]
                 PROVE  lists[i][a].end < lists[j][b].start
      BY DEF Precedes
    <2>1. lists[i][a].end <= open[i].end /\ open[j].start <= lists[j][b].start
      BY <1>5 DEF IsCut
    <2>2. open[i].end < open[j].start /\ open[i].end \in Int /\ open[j].start \in Int
      BY <1>2, <1>8
    <2>3. lists[i][a].end \in Int /\ lists[j][b].start \in Int
      <3>1. lists[i][a] \in Spans /\ lists[j][b] \in Spans
        BY <1>6
      <3>2. QED
        BY <3>1, EmptyHasNoDays
    <2>4. QED
      BY <2>1, <2>2, <2>3
  <1>9. /\ IsRun(FlattenSeq(lists))
        /\ DaysOf(FlattenSeq(lists)) = UNION {DaysOf(lists[i]) : i \in 1..n}
    BY <1>2, <1>6, <1>7, <1>8, FlattenIsARun
  <1>10. UNION {DaysOf(lists[i]) : i \in 1..n} = DaysOf(open) \ Days(window)
    <2>1. \A i \in 1..n : DaysOf(lists[i]) = Days(open[i]) \ Days(window)
      BY <1>5 DEF IsCut
    <2>2. \A d : d \in DaysOf(open) <=> \E i \in 1..n : d \in Days(open[i])
      BY <1>2 DEF DaysOf
    <2>3. \A d : d \in UNION {DaysOf(lists[i]) : i \in 1..n} <=> \E i \in 1..n : d \in DaysOf(lists[i])
      OBVIOUS
    <2>4. \A d : d \in UNION {DaysOf(lists[i]) : i \in 1..n} <=> d \in DaysOf(open) /\ d \notin Days(window)
      BY <2>1, <2>2, <2>3
    <2>5. QED
      BY <2>4
  <1>11. QED
    BY <1>4, <1>9, <1>10 DEF IsUncompared

-----------------------------------------------------------------------------
(* What is said of a period.                                               *)

IsDividedUp(settled, compared, uncompared, issued, window, period) ==
  /\ IsRun(settled) /\ IsRun(compared) /\ IsRun(uncompared)
  /\ IsBetween(compared, period.start, period.end)
  /\ DaysOf(settled) = Days(period) \cap AllDays(issued)
  /\ DaysOf(compared) = (Days(period) \ AllDays(issued)) \cap Days(window)
  /\ DaysOf(uncompared) = Days(period) \ (AllDays(issued) \cup Days(window))

\* Every day of a period is settled, compared or neither.
LEMMA PeriodIsDividedUp ==
  ASSUME NEW last \in Nat, NEW issued, IsInvoiced(issued, last), NEW period, IsPeriod(period),
         NEW window, IsPeriod(window),
         NEW settled, settled = SettledStretches(issued, period),
         NEW open, open = OpenStretches(period, settled)
  PROVE  IsDividedUp(settled, ComparedStretches(open, window), UncomparedStretches(open, window),
                     issued, window, period)
  <1>1. IsSettled(settled, issued, period)
    BY SettledIsARun
  <1>2. IsLeftOpen(open, settled, period)
    BY <1>1, OpenIsARun DEF IsSettled
  <1>3. IsCompared(ComparedStretches(open, window), open, window, period)
    BY <1>2, ComparedIsARun DEF IsLeftOpen
  <1>4. IsUncompared(UncomparedStretches(open, window), open, window)
    BY <1>2, UncomparedIsARun DEF IsLeftOpen
  <1>5. DaysOf(open) = Days(period) \ AllDays(issued)
    BY <1>1, <1>2 DEF IsSettled, IsLeftOpen
  <1>6. QED
    BY <1>1, <1>3, <1>4, <1>5 DEF IsSettled, IsCompared, IsUncompared, IsDividedUp

\* The span from the first stretch to the last.
Across(stretches) == [start |-> stretches[1].start, end |-> stretches[Len(stretches)].end]

\* The span has every day of a run, and none before or after it.
LEMMA AcrossARun ==
  ASSUME NEW run, IsRun(run), NEW period, IsPeriod(period), IsBetween(run, period.start, period.end)
  PROVE  /\ run = <<>> <=> DaysOf(run) = {}
         /\ run # <<>> => DaysOf(run) \subseteq Days(Across(run)) /\ Days(Across(run)) \subseteq Days(period)
  <1>1. PICK n : n = Len(run)
    OBVIOUS
  <1>2. /\ run \in Seq(Spans) /\ n \in Nat /\ DOMAIN run = 1..n
        /\ \A i \in 1..n : run[i] \in Spans /\ run[i].start \in Int /\ run[i].end \in Int /\ run[i].start <= run[i].end
        /\ \A i, j \in 1..n : i < j => run[i].end < run[j].start
    BY <1>1, RunLies
  <1>3. CASE run = <<>>
    <2>1. DOMAIN run = {}
      BY <1>3
    <2>2. DaysOf(run) = {}
      BY <2>1 DEF DaysOf
    <2>3. QED
      BY <1>3, <2>2
  <1>4. CASE run # <<>>
    <2>1. n # 0
      BY <1>1, <1>2, <1>4, EmptySeq
    <2>2. 1 \in 1..n /\ n \in 1..n
      BY <1>2, <2>1
    <2>3. run[1].start \in Days(run[1])
      BY <1>2, <2>2 DEF Days
    <2>4. DaysOf(run) # {}
      BY <1>2, <2>2, <2>3 DEF DaysOf
    <2>5. Across(run).start = run[1].start /\ Across(run).end = run[n].end
      BY <1>1 DEF Across
    <2>6. \A d : d \in Days(Across(run)) <=> d \in Int /\ run[1].start <= d /\ d <= run[n].end
      BY <1>2, <2>2, <2>5 DEF Days
    <2>7. ASSUME NEW i \in 1..n, NEW d \in Days(run[i]) PROVE d \in Days(Across(run))
      <3>1. d \in Int /\ run[i].start <= d /\ d <= run[i].end
        BY <1>2 DEF Days
      <3>2. run[1].start <= run[i].start
        <4>1. i = 1 \/ 1 < i
          BY <1>2
        <4>2. i = 1 \/ run[1].end < run[i].start
          BY <1>2, <2>2, <4>1
        <4>3. QED
          BY <1>2, <2>2, <4>2
      <3>3. run[i].end <= run[n].end
        <4>1. i = n \/ i < n
          BY <1>2
        <4>2. i = n \/ run[i].end < run[n].start
          BY <1>2, <2>2, <4>1
        <4>3. QED
          BY <1>2, <2>2, <4>2
      <3>4. QED
        BY <1>2, <2>2, <2>6, <3>1, <3>2, <3>3
    <2>8. DaysOf(run) \subseteq Days(Across(run))
      BY <1>2, <2>7 DEF DaysOf
    <2>9. Days(Across(run)) \subseteq Days(period)
      <3>1. period.start <= run[1].start /\ run[n].end <= period.end
        BY <1>2, <2>2 DEF IsBetween
      <3>2. run[1].start \in Int /\ run[n].end \in Int /\ period.start \in Int /\ period.end \in Int
        BY <1>2, <2>2 DEF IsPeriod
      <3>3. ASSUME NEW d \in Days(Across(run)) PROVE d \in Days(period)
        <4>1. d \in Int /\ run[1].start <= d /\ d <= run[n].end
          BY <2>6
        <4>2. QED
          BY <3>1, <3>2, <4>1 DEF Days
      <3>4. QED
        BY <3>3
    <2>10. QED
      BY <1>4, <2>4, <2>8, <2>9
  <1>5. QED
    BY <1>3, <1>4

\* The events of a feed on a day.
EventsOn(feed, asked, d) == {i \in DOMAIN feed : d \in EventDays(feed[i], asked)}

\* Asking about fewer days changes nothing of them.
LEMMA AskingForLess ==
  ASSUME NEW feed, NEW hours \in Int, NEW asked, NEW period, Days(asked) \subseteq Days(period),
         NEW some, some = ExternalTimeOff(feed, hours, asked),
         NEW all, all = ExternalTimeOff(feed, hours, period),
         NEW d \in Days(asked)
  PROVE  /\ d \in DOMAIN some <=> d \in DOMAIN all
         /\ d \in DOMAIN some => some[d] = all[d] /\ some[d] \in Int
  <1>1. \A i \in DOMAIN feed : d \in EventDays(feed[i], asked) <=> d \in EventDays(feed[i], period)
    BY DEF EventDays
  <1>2. EventsOn(feed, asked, d) = EventsOn(feed, period, d)
    BY <1>1 DEF EventsOn
  <1>3. /\ DOMAIN some = UNION {EventDays(feed[i], asked) : i \in DOMAIN feed}
        /\ DOMAIN all = UNION {EventDays(feed[i], period) : i \in DOMAIN feed}
    BY DEF ExternalTimeOff
  <1>4. d \in DOMAIN some <=> d \in DOMAIN all
    BY <1>1, <1>3
  <1>5. ASSUME d \in DOMAIN some PROVE some[d] = all[d] /\ some[d] \in Int
    <2>1. d \in DOMAIN all
      BY <1>4, <1>5
    <2>2. some[d] = EventHours(feed[Max(EventsOn(feed, asked, d))], hours)
      BY <1>3, <1>5 DEF ExternalTimeOff, EventsOn
    <2>3. all[d] = EventHours(feed[Max(EventsOn(feed, period, d))], hours)
      BY <1>3, <2>1 DEF ExternalTimeOff, EventsOn
    <2>4. some[d] = all[d]
      BY <1>2, <2>2, <2>3
    <2>5. hours \div 2 \in Int
      OBVIOUS
    <2>6. \A event : EventHours(event, hours) \in {hours, hours \div 2}
      BY DEF EventHours
    <2>7. QED
      BY <2>2, <2>4, <2>5, <2>6
  <1>6. QED
    BY <1>4, <1>5
=============================================================================
