----------------------------- MODULE WorkingDays -----------------------------
(* What a contract's calendar adds up to (calendar_utils.py), how it is    *)
(* read from and written to an iCalendar file (ical.py), and how it is     *)
(* held against somebody else's (views.py). Nothing here changes a row;    *)
(* Workspace does.                                                         *)
(*                                                                         *)
(* A date counts the days since the first of January of FirstYear, a month *)
(* the months of the calendar. A contract is a record with the days it     *)
(* starts and ends on, the hours of a working day and the yearly cap on    *)
(* them; the time off booked on it is a function from dates to hours. Days *)
(* off are counted in hours, which the pages divide by those of a day.     *)
EXTENDS Integers, Sequences, FiniteSets, FiniteSetsExt, SequencesExt

CONSTANTS
  FirstYear, LastYear,  \* the years there are dates of
  FirstWeekday,         \* the weekday of the first of them, Monday being 0
  None                  \* what an event or a field leaves out

ASSUME CalendarAssumption ==
  /\ FirstYear \in 1901 .. 2099 /\ LastYear \in FirstYear .. 2099
  /\ FirstWeekday \in 0 .. 6

Years == FirstYear .. LastYear

Months == 12 * FirstYear .. 12 * LastYear + 11

YearOf(month) == month \div 12

MonthInYear(month) == (month % 12) + 1

January(year) == 12 * year

December(year) == 12 * year + 11

IsLeap(year) == year % 4 = 0

MonthLength(month) ==
  CASE MonthInYear(month) = 2 -> IF IsLeap(YearOf(month)) THEN 29 ELSE 28
    [] MonthInYear(month) \in {4, 6, 9, 11} -> 30
    [] OTHER -> 31

\* How many days into a year each of its months starts.
DaysBefore == <<0, 31, 59, 90, 120, 151, 181, 212, 243, 273, 304, 334>>

Starts ==
  [month \in Months |->
     LET year == YearOf(month)
         leaps == Cardinality({y \in FirstYear .. year - 1 : IsLeap(y)})
     IN  365 * (year - FirstYear) + leaps + DaysBefore[MonthInYear(month)]
           + (IF IsLeap(year) /\ MonthInYear(month) > 2 THEN 1 ELSE 0)]

StartOf(month) == Starts[month]

EndOf(month) == StartOf(month) + MonthLength(month) - 1

Dates == 0 .. EndOf(December(LastYear))

MonthsOf == [date \in Dates |-> CHOOSE m \in Months : StartOf(m) <= date /\ date <= EndOf(m)]

MonthOf(date) == MonthsOf[date]

\* What a function's values come to.
SumOf(f) == MapThenSumSet(LAMBDA x : f[x], DOMAIN f)

Later(a, b) == IF a > b THEN a ELSE b

Earlier(a, b) == IF a < b THEN a ELSE b

Weekday(date) == (FirstWeekday + date) % 7

IsWeekend(date) == Weekday(date) >= 5

-----------------------------------------------------------------------------
(* The days of a contract.                                                 *)

\* Never zero, whatever the row holds.
HoursPerDay(contract) == IF contract.hours = 0 THEN 8 ELSE contract.hours

WeekdaysIn(first, last) ==
  LET days == last - first + 1
      spare == {i \in 0 .. (days % 7) - 1 : (Weekday(first) + i) % 7 < 5}
  IN  IF days <= 0 THEN 0 ELSE 5 * (days \div 7) + Cardinality(spare)

Term(contract) == [start |-> contract.start, end |-> contract.end]

\* The part of a term, or of anything else with a start and an end, that
\* falls between two days.
Clamp(stretch, first, last) ==
  [start |-> Later(stretch.start, first), end |-> Earlier(stretch.end, last)]

InTerm(contract, date) == contract.start <= date /\ date <= contract.end

ContractYears(contract) == YearOf(MonthOf(contract.start)) .. YearOf(MonthOf(contract.end))

ContractMonths(contract) == MonthOf(contract.start) .. MonthOf(contract.end)

InYear(contract, year) ==
  Clamp(Term(contract), StartOf(January(year)), EndOf(December(year)))

InMonth(contract, month) == Clamp(Term(contract), StartOf(month), EndOf(month))

\* A month is this many parts, which days of any length of month divide.
MonthParts == 28 * 29 * 15 * 31

MonthsCovered(period) ==
  SumOf([m \in MonthOf(period.start) .. MonthOf(period.end) |->
           LET days == Clamp(period, StartOf(m), EndOf(m))
           IN  (days.end - days.start + 1) * (MonthParts \div MonthLength(m))])

\* Mutant: the share is rounded to the nearest day.
ProratedToTheNearest(period, annual) ==
  (annual * MonthsCovered(period) + 6 * MonthParts) \div (12 * MonthParts)

\* A year's cap on working days, as far as the period covers the year.
ProratedMaxWorkingDays(period, annual) ==
  (annual * MonthsCovered(period)) \div (12 * MonthParts)

HoursOff(timeOff, dates) == SumOf([d \in DOMAIN timeOff \cap dates |-> timeOff[d]])

Days(stretch) == stretch.start .. stretch.end

YearStats(contract, timeOff, home, client, year) ==
  LET period == InYear(contract, year)
      weekdays == WeekdaysIn(period.start, period.end)
      max == ProratedMaxWorkingDays(period, contract.max)
      off == HoursOff(timeOff, Days(period))
      Marked(holidays) == {h \in holidays \cap Days(period) : ~IsWeekend(h)}
  IN  [period |-> period,
       is_full_year |-> Days(period) = StartOf(January(year)) .. EndOf(December(year)),
       total_weekdays |-> weekdays,
       max_working_days |-> max,
       hours_off |-> off,
       effective_hours |-> weekdays * HoursPerDay(contract) - off,
       budget |-> weekdays - max,
       home |-> Cardinality(Marked(home)),
       client |-> Cardinality(Marked(client)),
       overlapping |-> Cardinality(Marked(home) \cap Marked(client))]

\* Mutant: what an edit left outside the term still counts in its month.
EveryRowMonthlySummary(contract, timeOff) ==
  [m \in ContractMonths(contract) |->
     LET period == InMonth(contract, m)
         weekdays == WeekdaysIn(period.start, period.end)
         off == HoursOff(timeOff, StartOf(m) .. EndOf(m))
     IN  [weekdays |-> weekdays, hours_off |-> off,
          net_hours |-> weekdays * HoursPerDay(contract) - off]]

MonthlySummary(contract, timeOff) ==
  [m \in ContractMonths(contract) |->
     LET period == InMonth(contract, m)
         weekdays == WeekdaysIn(period.start, period.end)
         off == HoursOff(timeOff, Days(period))
     IN  [weekdays |-> weekdays, hours_off |-> off,
          net_hours |-> weekdays * HoursPerDay(contract) - off]]

\* The hours worked on each day of a month that has any.
WorkedDays(contract, timeOff, month) ==
  LET hours == [d \in Days(InMonth(contract, month)) |->
                  HoursPerDay(contract) - IF d \in DOMAIN timeOff THEN timeOff[d] ELSE 0]
  IN  [d \in {e \in DOMAIN hours : ~IsWeekend(e) /\ hours[e] > 0} |-> hours[d]]

HoursIn(worked) == SumOf(worked)

\* A month is over, and can be invoiced, once its last day has come.
CanInvoiceMonth(month, today) == EndOf(month) <= today

LatestMonthOver(today) ==
  IF today = EndOf(MonthOf(today)) THEN MonthOf(today) ELSE MonthOf(today) - 1

\* The months work is on record for, issued being the issued invoices.
RecordsMonths(contract, issued, today) ==
  {m \in ContractMonths(contract) \cup {MonthOf(i.start) : i \in issued} :
     m <= LatestMonthOver(today)}

-----------------------------------------------------------------------------
(* Files of time off. One that is a calendar is a sequence of events, each *)
(* a date and hours; NotACalendar stands for what is none.                 *)

NotACalendar == <<[date |-> None, hours |-> None]>>

\* Every event has to have both.
Parses(file) == \A i \in DOMAIN file : file[i].date # None /\ file[i].hours # None

Export(timeOff) ==
  LET count == Cardinality(DOMAIN timeOff)
      Before(d) == {e \in DOMAIN timeOff : e <= d}
      nth == [i \in 1 .. count |-> CHOOSE d \in DOMAIN timeOff : Cardinality(Before(d)) = i]
  IN  [i \in 1 .. count |-> [date |-> nth[i], hours |-> timeOff[nth[i]]]]

\* What a file books on a contract with nothing booked, later events
\* winning, or None where the file is refused.
Imported(contract, file) ==
  LET kept == {i \in DOMAIN file : ~IsWeekend(file[i].date) /\ InTerm(contract, file[i].date)}
      Latest(date) == Max({i \in kept : file[i].date = date})
  IN  IF ~Parses(file) THEN None
      ELSE IF kept = {} THEN None
      ELSE IF \E i \in kept : file[i].hours \notin 1 .. contract.hours THEN None
      ELSE [d \in {file[i].date : i \in kept} |-> file[Latest(d)].hours]

-----------------------------------------------------------------------------
(* Somebody else's calendar: a sequence of events, all-day ones up to an   *)
(* exclusive end that may be left out, timed ones for so many hours.       *)

EventDays(event, asked) ==
  LET days == IF ~event.all_day THEN {event.start}
              ELSE IF event.end = None THEN {event.start}
              ELSE event.start .. event.end - 1
  IN  {d \in days \cap Days(asked) : ~IsWeekend(d)}

EventHours(event, hours) ==
  IF event.all_day \/ event.lasts = None THEN hours
  ELSE IF event.lasts <= hours \div 2 THEN hours \div 2
  ELSE hours

\* Per-day hours over the days asked about, the last event on a day winning.
ExternalTimeOff(feed, hours, asked) ==
  LET On(date) == {i \in DOMAIN feed : date \in EventDays(feed[i], asked)}
  IN  [d \in UNION {EventDays(feed[i], asked) : i \in DOMAIN feed} |->
         EventHours(feed[Max(On(d))], hours)]

IsEmpty(stretch) == stretch.start > stretch.end

\* Those of a sequence that have a day.
NotEmpty(stretches) ==
  LET kept[n \in 0 .. Len(stretches)] ==
        IF n = 0 THEN <<>>
        ELSE IF IsEmpty(stretches[n]) THEN kept[n - 1]
        ELSE Append(kept[n - 1], stretches[n])
  IN  kept[Len(stretches)]

InDateOrder(periods) ==
  CHOOSE s \in SetToSeqs(periods) : \A i, j \in DOMAIN s : i < j => s[i].start <= s[j].start

\* A period joins the last stretch where it meets it.
RunOn(settled, period) ==
  LET last == settled[Len(settled)]
  IN  IF settled # <<>> /\ period.start <= last.end + 1
      THEN [settled EXCEPT ![Len(settled)].end = Later(last.end, period.end)]
      ELSE Append(settled, period)

\* The parts of a period that issued invoices cover, run together where
\* adjacent, in date order.
SettledStretches(issued, period) ==
  LET ordered == InDateOrder({i \in issued : i.start <= period.end /\ i.end >= period.start})
      settled[n \in 0 .. Len(ordered)] ==
        IF n = 0 THEN <<>>
        ELSE RunOn(settled[n - 1], Clamp(ordered[n], period.start, period.end))
  IN  settled[Len(ordered)]

\* Mutant: a stretch that opens after a settled one begins on its last day.
OpenStretchesFromTheLastDay(period, settled) ==
  LET From(i) == IF i = 1 THEN period.start ELSE settled[i - 1].end
      To(i) == IF i > Len(settled) THEN period.end ELSE settled[i].start - 1
      gaps == [i \in 1 .. Len(settled) + 1 |-> [start |-> From(i), end |-> To(i)]]
  IN  NotEmpty(gaps)

\* What is left of the period once those are taken out of it.
OpenStretches(period, settled) ==
  LET From(i) == IF i = 1 THEN period.start ELSE settled[i - 1].end + 1
      To(i) == IF i > Len(settled) THEN period.end ELSE settled[i].start - 1
      gaps == [i \in 1 .. Len(settled) + 1 |-> [start |-> From(i), end |-> To(i)]]
  IN  NotEmpty(gaps)

\* The stretch a feed publishes: from two months back to the year's end.
FeedWindow(today) ==
  [start |-> StartOf(MonthOf(today) - 2),
   end |-> EndOf(December(YearOf(MonthOf(today))))]

Within(stretch, window) == Clamp(stretch, window.start, window.end)

ComparedStretches(open, window) ==
  NotEmpty([i \in DOMAIN open |-> Within(open[i], window)])

\* What of each open stretch the window cuts away, before it and after it.
UncomparedStretches(open, window) ==
  LET Cut(s) ==
        LET within == Within(s, window)
        IN  IF IsEmpty(within) THEN <<s>>
            ELSE NotEmpty(<<[start |-> s.start, end |-> within.start - 1],
                            [start |-> within.end + 1, end |-> s.end]>>)
  IN  FlattenSeq([i \in DOMAIN open |-> Cut(open[i])])

InSome(stretches, date) == \E i \in DOMAIN stretches : date \in Days(stretches[i])

\* What the page says of a period: how it is divided up, and the dates the
\* two sides do not agree on; feed is None where it could not be had.
Comparison(contract, timeOff, issued, today, feed, period) ==
  LET settled == SettledStretches(issued, period)
      open == OpenStretches(period, settled)
      compared == ComparedStretches(open, FeedWindow(today))
      uncompared == UncomparedStretches(open, FeedWindow(today))
      asked == [start |-> compared[1].start, end |-> compared[Len(compared)].end]
      external == ExternalTimeOff(feed, contract.hours, asked)
      Ours(d) == IF d \in DOMAIN timeOff THEN timeOff[d] ELSE None
      Theirs(d) == IF d \in DOMAIN external THEN external[d] ELSE None
      differing == {d \in (DOMAIN timeOff \cap Days(asked)) \cup DOMAIN external :
                      InSome(compared, d) /\ Ours(d) # Theirs(d)}
  IN  IF compared = <<>>
      THEN [compared |-> <<>>, uncompared |-> uncompared, settled |-> settled,
            differing |-> {}, in_sync |-> FALSE]
      ELSE IF feed = None
      THEN [compared |-> <<>>, uncompared |-> <<>>, settled |-> <<>>,
            differing |-> {}, in_sync |-> FALSE]
      ELSE [compared |-> compared, uncompared |-> uncompared, settled |-> settled,
            differing |-> differing, in_sync |-> differing = {}]
=============================================================================
