------------------------------ MODULE Workspace ------------------------------
(* Who a contract and its calendar belong to, and everything that may be   *)
(* done to them: guests, accounts and the sweep that removes guests        *)
(* (views.py, middleware.py, cleanup_guests.py), a contract and the days   *)
(* off booked on it (views.py), and the public holidays kept for it        *)
(* (services.py). A request is one step, the server taking one at a time;  *)
(* the sweep is a process of its own, and its deletions are steps between  *)
(* the requests.                                                           *)
EXTENDS WorkingDays

CONSTANTS
  Visitors,    \* the users a browser may be given as a guest
  Accounts,    \* the users that have an account to begin with, and those
  Deactivated, \* of them that the operator of the instance deactivated
  Gone,        \* what is left of a user that was deleted
  Forms,       \* the contract forms that may be submitted
  Countries,   \* those a contract can name, and those of them
  Poland,      \* that KSeF and ryczalt are of
  Toggles,     \* the dates a press may name
  Files,       \* the calendars that may be imported
  Services,    \* what the holiday service may be answering
  Feeds,       \* what the external calendar may be publishing
  Today,       \* the days something is done on
  InvoiceMonths, MaxInvoices  \* bounds on the invoices issued

ASSUME WorkspaceAssumption ==
  /\ Visitors \cap Accounts = {} /\ Deactivated \subseteq Accounts
  /\ Toggles \cup Today \subseteq Dates /\ Today # {}
  /\ InvoiceMonths \subseteq Months /\ MaxInvoices \in Nat
  /\ Poland \in Countries

\* There are dates of the two months before any day.
ASSUME FeedAssumption == \A day \in Today : MonthOf(day) - 2 \in Months

\* What a form's fields parse to, what an event of a file holds, and what a
\* service may be answering.
ASSUME FormsAssumption ==
  \A form \in Forms :
    /\ form.start \in Dates /\ form.end \in Dates /\ form.hours \in Int /\ form.max \in Int
    /\ form.send_to_ksef \in BOOLEAN /\ form.on_ryczalt \in BOOLEAN

ASSUME FilesAssumption ==
  \A file \in Files : file \in Seq([date : Int \cup {None}, hours : Int \cup {None}])

ASSUME ServicesAssumption ==
  \A service \in Services : \A key \in Countries \X Years :
    service[key] = None \/ service[key] \in Seq(Dates \cup {None})

VARIABLES
  users,     \* None before a user is made, Gone once deleted
  session,   \* the user the browser's session names
  contract,  \* the contract, or None
  timeOff,   \* the hours booked off it, by date
  issued,    \* the periods its issued invoices bill
  holidays,  \* the cached Holiday rows of each country and year
  sweep,     \* the guests cleanup_guests has read and not yet deleted
  today

vars == <<users, session, contract, timeOff, issued, holidays, sweep, today>>

people == <<users, session, sweep>>

UserIds == Visitors \cup Accounts

Users == [guest : Today \cup {None}, token : {"none", "unseen", "held"}]

HoursInADay == 24

Contracts ==
  [owner : UserIds, start : Dates, end : Dates, hours : 1 .. HoursInADay, max : Nat,
   home : Countries, client : Countries,
   seller : {None} \cup {form.seller : form \in Forms},
   buyer : {None} \cup {form.buyer : form \in Forms},
   send_to_ksef : BOOLEAN,
   rate : {None} \cup {form.rate : form \in Forms},
   currency : {None} \cup {form.currency : form \in Forms},
   on_ryczalt : BOOLEAN]

Caches == [dates : SUBSET Dates, fetched : Today]

\* What is missing is neither a row nor a value of one.
ASSUME NoneAssumption ==
  /\ None # Gone /\ None \notin Int /\ None \notin UserIds
  /\ None \notin Users /\ Gone \notin Users
  /\ None \notin Contracts /\ None \notin Caches

NoTimeOff == [d \in {} |-> 0]

Init ==
  /\ users = [u \in UserIds |->
                IF u \in Accounts THEN [guest |-> None, token |-> "held"] ELSE None]
  /\ session = None
  /\ contract = None /\ timeOff = NoTimeOff /\ issued = {}
  /\ holidays = [key \in Countries \X Years |-> None]
  /\ sweep = {}
  /\ today = Min(Today)

Exists(u) == u # None /\ users[u] \notin {None, Gone}

\* request.user: nobody where its row is gone.
Current == IF Exists(session) THEN session ELSE None

IsGuest(u) == Exists(u) /\ users[u].guest # None

IsAccountHolder(u) == Exists(u) /\ users[u].guest = None

Owned == contract # None /\ contract.owner = Current

-----------------------------------------------------------------------------
(* The holidays. A service is what the API answers for each country and    *)
(* year: None where it cannot be reached, otherwise a sequence of dates,   *)
(* in which None is an entry that cannot be read.                          *)

CacheMaxAge == 30

Parsed(answer) ==
  IF answer = None THEN None
  ELSE IF \E i \in DOMAIN answer : answer[i] = None THEN None
  ELSE {answer[i] : i \in DOMAIN answer}

IsFresh(cached) == cached # None /\ today - cached.fetched < CacheMaxAge

\* The cache after the holidays of these years were asked for, each year
\* written whole; an answer without holidays leaves no row behind.
Refreshed(cache, service, country, years) ==
  [key \in DOMAIN cache |->
     LET fetched == Parsed(service[key])
     IN  IF key \notin {country} \X years \/ IsFresh(cache[key]) \/ fetched = None
         THEN cache[key]
         ELSE IF fetched = {} THEN None
         ELSE [dates |-> fetched, fetched |-> today]]

\* Mutant: a year that could not be read is passed off as current.
IsStaleWhenEmpty(cache, service, country, years) ==
  \E year \in years : cache[<<country, year>>] = None /\ Parsed(service[<<country, year>>]) = None

IsStale(cache, service, country, years) ==
  \E year \in years :
    ~IsFresh(cache[<<country, year>>]) /\ Parsed(service[<<country, year>>]) = None

DatesOf(cache, country, of) ==
  {d \in UNION {IF cache[<<country, year>>] = None THEN {} ELSE cache[<<country, year>>].dates :
                  year \in ContractYears(of)} : InTerm(of, d)}

\* What a page of a contract asks for: the cache after both countries, the
\* dates of each within the term, and whether either is out of date.
ContractHolidays(of, service) ==
  LET years == ContractYears(of)
      home == Refreshed(holidays, service, of.home, years)
      cache == Refreshed(home, service, of.client, years)
  IN  [cache |-> cache,
       home |-> DatesOf(cache, of.home, of),
       client |-> DatesOf(cache, of.client, of),
       stale |-> \/ IsStale(holidays, service, of.home, years)
                 \/ IsStale(home, service, of.client, years)]

-----------------------------------------------------------------------------
(* The contract.                                                           *)

\* A rate is an amount of money, so it needs a currency.
RateIsStated(form) == form.rate # None => form.rate > 0 /\ form.currency # None

\* Sellers and buyers are the user's own, and a guest has none.
SellerOf(form, user) == IF IsAccountHolder(user) THEN form.seller ELSE None

BuyerOf(form, user) == IF IsAccountHolder(user) THEN form.buyer ELSE None

KsefIsPossible(form, user) ==
  /\ form.home = Poland
  /\ SellerOf(form, user) # None /\ form.seller.reaches_ksef
  /\ BuyerOf(form, user) # None /\ form.buyer.has_tax_id

MayStore(form, user) ==
  /\ form.home \in Countries /\ form.client \in Countries
  /\ form.end > form.start
  /\ form.max > 0
  /\ form.hours \in 1 .. HoursInADay
  /\ IsAccountHolder(user) => RateIsStated(form)
  /\ form.send_to_ksef => KsefIsPossible(form, user)

Stored(form, user) ==
  [owner |-> user, start |-> form.start, end |-> form.end, hours |-> form.hours, max |-> form.max,
   home |-> form.home, client |-> form.client,
   seller |-> SellerOf(form, user), buyer |-> BuyerOf(form, user),
   send_to_ksef |-> form.send_to_ksef,
   rate |-> IF IsAccountHolder(user) THEN form.rate ELSE None,
   currency |-> IF IsAccountHolder(user) THEN form.currency ELSE None,
   on_ryczalt |-> form.home = Poland /\ form.on_ryczalt]

\* Whoever submits a form without a session becomes a guest by it.
Guests(visitor) ==
  [users EXCEPT ![visitor] = [guest |-> today, token |-> "none"]]

CreateContract(form) ==
  /\ contract = None
  /\ MayStore(form, Current)
  /\ \/ /\ Current # None
        /\ contract' = Stored(form, Current)
        /\ UNCHANGED <<users, session>>
     \/ /\ Current = None
        /\ \E visitor \in Visitors :
             /\ users[visitor] = None
             /\ users' = Guests(visitor)
             /\ session' = visitor
             /\ contract' = [Stored(form, None) EXCEPT !.owner = visitor]
  /\ \E service \in Services : holidays' = ContractHolidays(contract', service).cache
  /\ UNCHANGED <<timeOff, issued, sweep, today>>

\* The process dies while it makes the guest: a user with or without its
\* Guest row, whom no session names.
CreateGuestDies ==
  /\ contract = None /\ Current = None
  /\ \E visitor \in Visitors, made \in {None, today} :
       /\ users[visitor] = None
       /\ users' = [users EXCEPT ![visitor] = [guest |-> made, token |-> "none"]]
  /\ UNCHANGED <<session, contract, timeOff, issued, holidays, sweep, today>>

\* The term, the hours and the countries may all change under what is booked.
EditContract(form) ==
  /\ Owned
  /\ MayStore(form, Current)
  /\ contract' = Stored(form, Current)
  /\ UNCHANGED <<people, timeOff, issued, holidays, today>>

\* Mutant: the days booked outlive their contract.
DiscardContract == contract' = None /\ issued' = {} /\ UNCHANGED timeOff

\* What the database deletes with a contract.
Discard == contract' = None /\ timeOff' = NoTimeOff /\ issued' = {}

\* Invoices hold on to their contract, drafts of them too: where one does, this
\* is not done, and nothing else is.
DeleteContract ==
  /\ Owned
  /\ issued = {}
  /\ Discard
  /\ UNCHANGED <<people, holidays, today>>

-----------------------------------------------------------------------------
(* The days off.                                                           *)

Without(dates) == [d \in DOMAIN timeOff \ dates |-> timeOff[d]]

\* A press on a day: a half or a whole day on or off, or the next of none,
\* half and whole.
Pressed(date, portion) ==
  LET full == contract.hours
      half == contract.hours \div 2
      booked == IF date \in DOMAIN timeOff THEN timeOff[date] ELSE None
      wanted == CASE portion = "half" -> half
                  [] portion = "full" -> full
                  [] OTHER -> IF booked = half THEN full ELSE half
      off == IF portion = None THEN booked \notin {None, half} ELSE booked = wanted
  IN  IF off THEN Without({date})
      ELSE [d \in DOMAIN timeOff \cup {date} |-> IF d = date THEN wanted ELSE timeOff[d]]

ToggleDay(date, portion) ==
  /\ Owned
  /\ ~IsWeekend(date) /\ InTerm(contract, date)
  /\ timeOff' = Pressed(date, portion)
  /\ UNCHANGED <<people, contract, issued, holidays, today>>

Modes == {"home", "client", "overlap", "union"}

\* Mutant: a holiday on a weekend is booked off too.
BulkDatesWithWeekends(mode, known) ==
  LET dates == CASE mode = "home" -> known.home
                 [] mode = "client" -> known.client
                 [] mode = "overlap" -> known.home \cap known.client
                 [] mode = "union" -> known.home \cup known.client
  IN  {d \in dates : d >= today}

\* The days a bulk press covers: none of them past.
BulkDates(mode, known) ==
  LET dates == CASE mode = "home" -> known.home
                 [] mode = "client" -> known.client
                 [] mode = "overlap" -> known.home \cap known.client
                 [] mode = "union" -> known.home \cup known.client
  IN  {d \in dates : ~IsWeekend(d) /\ d >= today}

\* What is booked already stays as it is.
BulkBook(mode, service) ==
  LET known == ContractHolidays(contract, service)
  IN  /\ Owned
      /\ timeOff' = [d \in DOMAIN timeOff \cup BulkDates(mode, known) |->
                       IF d \in DOMAIN timeOff THEN timeOff[d] ELSE contract.hours]
      /\ holidays' = known.cache
      /\ UNCHANGED <<people, contract, issued, today>>

ClearTimeOff(mode, service) ==
  LET known == ContractHolidays(contract, service)
  IN  /\ Owned
      /\ timeOff' = Without(BulkDates(mode, known))
      /\ holidays' = known.cache
      /\ UNCHANGED <<people, contract, issued, today>>

ImportCalendar(file) ==
  /\ Owned
  /\ DOMAIN timeOff = {}
  /\ Imported(contract, file) # None
  /\ timeOff' = Imported(contract, file)
  /\ UNCHANGED <<people, contract, issued, holidays, today>>

\* The calendar's page, and every other that shows the contract's holidays.
OpenCalendar(service) ==
  /\ Owned
  /\ holidays' = ContractHolidays(contract, service).cache
  /\ UNCHANGED <<people, contract, timeOff, issued, today>>

\* A month's invoice is issued, for the part of the month the contract ran.
IssueInvoice(month) ==
  /\ Owned /\ IsAccountHolder(Current)
  /\ Cardinality(issued) < MaxInvoices
  /\ \A i \in issued : MonthOf(i.start) # month
  /\ EndOf(month) >= contract.start /\ StartOf(month) <= contract.end
  /\ CanInvoiceMonth(month, today)
  /\ issued' = issued \cup {InMonth(contract, month)}
  /\ UNCHANGED <<people, contract, timeOff, holidays, today>>

-----------------------------------------------------------------------------
(* Signing in, and the sweep.                                              *)

\* The token is made first and the guest's mark removed after.
SaveAccount ==
  /\ Current # None
  /\ users[Current].token = "none"
  /\ users' = [users EXCEPT ![Current].token = "held", ![Current].guest = None]
  /\ UNCHANGED <<session, contract, timeOff, issued, holidays, sweep, today>>

\* The process dies in between: a token nobody was shown.
SaveAccountDies ==
  /\ Current # None
  /\ users[Current].token = "none"
  /\ users' = [users EXCEPT ![Current].token = "unseen"]
  /\ UNCHANGED <<session, contract, timeOff, issued, holidays, sweep, today>>

\* Mutant: the guest is deleted first, and its contract with it.
GiveUpGuest(account) ==
  /\ users' = [users EXCEPT ![Current] = Gone]
  /\ IF contract # None /\ contract.owner = Current
     THEN Discard ELSE UNCHANGED <<contract, timeOff, issued>>

\* A guest's contracts go to the account it signs in to, and the guest goes.
TransferGuest(account) ==
  /\ users' = [users EXCEPT ![Current] = Gone]
  /\ contract' = IF contract # None /\ contract.owner = Current
                 THEN [contract EXCEPT !.owner = account] ELSE contract
  /\ UNCHANGED <<timeOff, issued>>

Login(account) ==
  /\ Exists(account)
  /\ users[account].token = "held" /\ account \notin Deactivated
  /\ IF IsGuest(Current) THEN TransferGuest(account)
     ELSE UNCHANGED <<users, contract, timeOff, issued>>
  /\ session' = account
  /\ UNCHANGED <<holidays, sweep, today>>

Logout ==
  /\ session' = None
  /\ UNCHANGED <<users, contract, timeOff, issued, holidays, sweep, today>>

GuestDays == 30

SweepReads ==
  /\ sweep = {}
  /\ sweep' = {u \in UserIds : IsGuest(u) /\ today - users[u].guest > GuestDays}
  /\ UNCHANGED <<users, session, contract, timeOff, issued, holidays, today>>

\* An issued invoice refuses the deletion of its user, and so does a contract
\* that names a party, for the party is deleted with the user.
DeletionRefused ==
  issued # {} \/ contract.seller # None \/ contract.buyer # None

\* So does a draft. Which drafts there are is not kept here, and only an account
\* draws any up.
MayHaveDrafts(u) == IsAccountHolder(u)

\* Deleting a user deletes what it owns, or is refused and ends the sweep.
SweepDeletes(u) ==
  LET owns == contract # None /\ contract.owner = u
  IN  /\ u \in sweep
      /\ \/ /\ owns /\ (DeletionRefused \/ MayHaveDrafts(u))
            /\ sweep' = {}
            /\ UNCHANGED <<users, contract, timeOff, issued>>
         \/ /\ ~(owns /\ DeletionRefused)
            /\ sweep' = sweep \ {u}
            /\ users' = [users EXCEPT ![u] = Gone]
            /\ IF owns THEN Discard ELSE UNCHANGED <<contract, timeOff, issued>>
      /\ UNCHANGED <<session, holidays, today>>

NextDay ==
  /\ \E d \in Today : d > today
  /\ today' = Min({d \in Today : d > today})
  /\ UNCHANGED <<people, contract, timeOff, issued, holidays>>

Next ==
  \/ \E form \in Forms : CreateContract(form) \/ EditContract(form)
  \/ CreateGuestDies
  \/ DeleteContract
  \/ \E date \in Toggles, portion \in {None, "half", "full"} : ToggleDay(date, portion)
  \/ \E mode \in Modes, service \in Services : BulkBook(mode, service) \/ ClearTimeOff(mode, service)
  \/ \E file \in Files : ImportCalendar(file)
  \/ \E service \in Services : OpenCalendar(service)
  \/ \E month \in InvoiceMonths : IssueInvoice(month)
  \/ SaveAccount \/ SaveAccountDies
  \/ \E user \in UserIds : Login(user)
  \/ Logout
  \/ SweepReads
  \/ \E u \in sweep : SweepDeletes(u)
  \/ NextDay

Spec == Init /\ [][Next]_vars

-----------------------------------------------------------------------------
(* Properties.                                                             *)

TypeOK ==
  /\ users \in [UserIds -> Users \cup {None, Gone}]
  /\ session \in UserIds \cup {None}
  /\ contract # None => /\ Exists(contract.owner)
                        /\ \E form \in Forms : \A field \in {"start", "end", "hours", "max"} :
                             contract[field] = form[field]
  /\ contract = None => DOMAIN timeOff = {} /\ issued = {}
  /\ DOMAIN timeOff \subseteq Dates
  /\ \A d \in DOMAIN timeOff : \E form \in Forms : timeOff[d] <= form.hours /\ timeOff[d] \in Nat
  /\ \A i \in issued : i.start \in Dates /\ i.end \in Dates /\ i.start <= i.end
  /\ \A key \in DOMAIN holidays :
       holidays[key] # None => holidays[key].dates # {} /\ holidays[key].fetched \in Today
  /\ sweep \subseteq UserIds /\ today \in Today

\* Everything booked, by hand, in bulk or from a file, keeps the rules an
\* import holds days off to: what is exported can be imported back, whatever
\* an edit put outside the term left behind, and is refused only where an
\* edit, or the half of a one-hour day, left hours no working day has.
ExportedComesBack ==
  contract # None =>
    LET kept == {d \in DOMAIN timeOff : InTerm(contract, d)}
        back == Imported(contract, Export(timeOff))
    IN  IF kept # {} /\ \A d \in kept : timeOff[d] \in 1 .. contract.hours
        THEN back = [d \in kept |-> timeOff[d]]
        ELSE back = None

\* The counts of a contract agree however its term and its hours are edited
\* under what is booked: the year's are its months' added up, and the days
\* listed as worked come to the month's own net, or to more only where a row
\* takes more off a day than it now holds.
CountsAgree ==
  contract # None =>
    LET months == MonthlySummary(contract, timeOff)
        recorded == RecordsMonths(contract, issued, today)
        InYearOf(year) == {m \in DOMAIN months : YearOf(m) = year}
        TooLong(m) == {d \in Days(InMonth(contract, m)) \cap DOMAIN timeOff :
                         timeOff[d] > HoursPerDay(contract)}
    IN  /\ \A year \in ContractYears(contract) :
             LET stats == YearStats(contract, timeOff, {}, {}, year)
             IN  /\ stats.total_weekdays = SumOf([m \in InYearOf(year) |-> months[m].weekdays])
                 /\ stats.hours_off = SumOf([m \in InYearOf(year) |-> months[m].hours_off])
        /\ \A m \in DOMAIN months :
             LET worked == HoursIn(WorkedDays(contract, timeOff, m))
             IN  IF TooLong(m) = {} THEN worked = months[m].net_hours
                 ELSE worked > months[m].net_hours
        /\ \A m \in DOMAIN months :
             m \in recorded <=> CanInvoiceMonth(m, today)

\* However a year of a contract is split in two, the shares of the cap never
\* add up to more than the whole's, and lose at most one day to the split; a
\* split between months loses none of a cap of so many days a month.
SharesAddUp(of) ==
  \A year \in ContractYears(of) :
    LET whole == InYear(of, year)
        Share(start, end) == ProratedMaxWorkingDays([start |-> start, end |-> end], of.max)
        all == Share(whole.start, whole.end)
    IN  /\ all <= of.max
        /\ \A d \in whole.start .. whole.end - 1 :
             LET lost == all - (Share(whole.start, d) + Share(d + 1, whole.end))
             IN  /\ lost \in {0, 1}
                 /\ of.max % 12 = 0 /\ d = EndOf(MonthOf(d))
                      /\ whole.start = StartOf(MonthOf(whole.start))
                    => lost = 0

\* As the contracts that may be created are.
SharesKeepTheCap ==
  [][contract = None /\ contract' # None => SharesAddUp(contract')]_vars

OneAfterAnother(stretches) ==
  \A i, j \in DOMAIN stretches : i < j => stretches[i].end < stretches[j].start

\* A comparison with the external calendar accounts for every day it was
\* asked about once: those invoiced are settled, those the feed publishes are
\* compared, the rest are said to be neither, each in date order, and the
\* dates that differ are the compared ones the two sides say different
\* things of.
AccountedFor(period) ==
  \A feed \in Feeds :
    LET said == Comparison(contract, timeOff, issued, today, feed, period)
        Said(stretches) == UNION {Days(stretches[i]) : i \in DOMAIN stretches}
        invoiced == Days(period) \cap UNION {Days(i) : i \in issued}
        published == Days(FeedWindow(today))
        theirs == IF feed = None THEN NoTimeOff ELSE ExternalTimeOff(feed, contract.hours, period)
        answered == feed # None \/ (Days(period) \ invoiced) \cap published = {}
    IN  IF answered
        THEN /\ Said(said.settled) = invoiced
             /\ Said(said.compared) = (Days(period) \ invoiced) \cap published
             /\ Said(said.uncompared) = Days(period) \ (invoiced \cup published)
             /\ \A stretches \in {said.settled, said.compared, said.uncompared} :
                  OneAfterAnother(stretches)
             /\ said.in_sync <=> Said(said.compared) # {} /\ said.differing = {}
             /\ said.differing =
                  {d \in (DOMAIN timeOff \cup DOMAIN theirs) \cap Said(said.compared) :
                     ~(/\ d \in DOMAIN timeOff \cap DOMAIN theirs
                       /\ timeOff[d] = theirs[d])}
        ELSE Said(said.compared) = {} /\ ~said.in_sync

PeriodIsAccountedFor ==
  contract # None =>
    /\ AccountedFor(Term(contract))
    /\ \A m \in ContractMonths(contract) :
         CanInvoiceMonth(m, today) => AccountedFor(InMonth(contract, m))

\* Holidays are never quietly out of date: a page that does not say it is
\* stale shows, of each country and year, an answer no older than thirty
\* days, whole; and a refresh that fails loses none that were known.
StaleIsSaid ==
  contract # None =>
    \A service \in Services :
      LET shown == ContractHolidays(contract, service)
          Answered(country, dates) ==
            \A year \in ContractYears(contract) :
              LET cached == shown.cache[<<country, year>>]
              IN  IF cached = None THEN Parsed(service[<<country, year>>]) = {}
                  ELSE /\ today - cached.fetched < CacheMaxAge
                       /\ \A d \in cached.dates : InTerm(contract, d) => d \in dates
      IN  /\ ~shown.stale => /\ Answered(contract.home, shown.home)
                             /\ Answered(contract.client, shown.client)
          /\ \A key \in DOMAIN holidays :
               holidays[key] # None /\ Parsed(service[key]) = None
                 => shown.cache[key] = holidays[key]

\* A contract is lost only to its owner's own press, with no invoice on it,
\* or to a sweep that read its owner as a guest past its days; it changes
\* hands only to the account its guest signs in to, which can be signed in
\* to again, and keeps what is booked on it.
ContractsAreKept ==
  [][contract # None =>
       /\ contract' = None =>
            \/ Current = contract.owner /\ issued = {} /\ users' = users
            \/ contract.owner \in sweep /\ users'[contract.owner] = Gone
       /\ contract' # None /\ contract'.owner # contract.owner =>
            /\ IsGuest(contract.owner) /\ session' = contract'.owner
            /\ users[session'].token = "held" /\ session' \notin Deactivated
            /\ users'[contract.owner] = Gone
            /\ timeOff' = timeOff /\ issued' = issued
       /\ timeOff' # timeOff /\ contract' # None => contract.owner = Current]_vars
=============================================================================
