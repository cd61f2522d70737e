--------------------------- MODULE WorkspaceProofs ---------------------------
(* What holds of a contract and its calendar whatever the users, the forms *)
(* and what the holiday service answers: rows keep their shape, a contract *)
(* is lost or changes hands only as it should, a page that does not say it *)
(* is stale is not, and what is exported and counted is what is booked.    *)
EXTENDS Workspace, WorkingDaysProofs

-----------------------------------------------------------------------------
(* The shape of the rows.                                                  *)

\* A guest whose mark is still on has no token it was shown.
PeopleInv ==
  /\ users \in [UserIds -> Users \cup {None, Gone}]
  /\ \A u \in UserIds : users[u] \in Users /\ users[u].guest # None => users[u].token # "held"
  /\ session \in UserIds \cup {None} /\ sweep \subseteq UserIds /\ today \in Today

OfAForm(row) ==
  \E form \in Forms : /\ row.start = form.start /\ row.end = form.end
                      /\ row.hours = form.hours /\ row.max = form.max

ContractInv ==
  contract # None =>
    /\ contract \in Contracts /\ contract.start < contract.end
    /\ Exists(contract.owner)
    /\ OfAForm(contract)

\* What is booked is on weekdays, and never more than some form's day.
IsBooking(booked) ==
  /\ DOMAIN booked \subseteq Dates
  /\ \A d \in DOMAIN booked : /\ ~IsWeekend(d) /\ booked[d] \in Nat
                              /\ \E form \in Forms : booked[d] <= form.hours

BookedInv ==
  /\ contract = None => DOMAIN timeOff = {} /\ issued = {}
  /\ IsBooking(timeOff)

IsBilled(i) == i.start \in Dates /\ i.end \in Dates /\ i.start <= i.end

IssuedInv == \A i \in issued : IsBilled(i)

IsCache(cache) ==
  /\ cache \in [Countries \X Years -> Caches \cup {None}]
  /\ \A key \in Countries \X Years : cache[key] # None => cache[key].dates # {}

WorkspaceInv == PeopleInv /\ ContractInv /\ BookedInv /\ IssuedInv /\ IsCache(holidays)

\* Days are numbers.
LEMMA DaysAreNumbers == Dates \subseteq Nat /\ Today \subseteq Nat /\ Today \subseteq Dates
  <1>1. Dates \subseteq Nat
    BY DEF Dates
  <1>2. QED
    BY <1>1, WorkspaceAssumption

\* Whoever is signed in is a user whose row is there.
LEMMA CurrentType ==
  ASSUME PeopleInv
  PROVE  /\ Current \in UserIds \cup {None}
         /\ Current # None => /\ Current \in UserIds /\ Exists(Current) /\ Current = session
                              /\ users[Current] \in Users
         /\ \A u \in UserIds : Exists(u) <=> users[u] \in Users
  <1>1. \A u \in UserIds : u # None
    BY NoneAssumption
  <1>2. \A u \in UserIds : Exists(u) <=> users[u] \in Users
    BY <1>1, NoneAssumption DEF PeopleInv, Exists
  <1>3. Current # None => Current = session /\ Exists(session) /\ session # None
    BY DEF Current, Exists
  <1>4. Current # None => Current \in UserIds
    BY <1>3 DEF PeopleInv
  <1>5. QED
    BY <1>2, <1>3, <1>4

\* What a form that may be stored is stored as.
StoredFor(form, user, owner) == [Stored(form, user) EXCEPT !.owner = owner]

\* A form that may be stored makes a contract of its owner.
LEMMA StoredRow ==
  ASSUME NEW form \in Forms, NEW user, MayStore(form, user), NEW owner \in UserIds,
         NEW row, row = StoredFor(form, user, owner)
  PROVE  /\ row \in Contracts /\ row # None /\ row.owner = owner
         /\ row.start < row.end /\ OfAForm(row)
  <1>1. /\ row.owner = owner /\ row.start = form.start /\ row.end = form.end
        /\ row.hours = form.hours /\ row.max = form.max
    BY DEF Stored, StoredFor
  <1>2. OfAForm(row)
    BY <1>1 DEF OfAForm
  <1>3. form.start \in Nat /\ form.end \in Nat
    BY FormsAssumption, DaysAreNumbers
  <1>4. row.start < row.end
    BY <1>1, <1>3 DEF MayStore
  <1>5. row \in Contracts
    <2>1. /\ form.start \in Dates /\ form.end \in Dates /\ form.hours \in 1..HoursInADay
          /\ form.max \in Nat /\ form.home \in Countries /\ form.client \in Countries
          /\ form.send_to_ksef \in BOOLEAN /\ form.on_ryczalt \in BOOLEAN
      BY FormsAssumption DEF MayStore
    <2> DEFINE seller == SellerOf(form, user)
               buyer == BuyerOf(form, user)
               rate == IF IsAccountHolder(user) THEN form.rate ELSE None
               currency == IF IsAccountHolder(user) THEN form.currency ELSE None
               ryczalt == form.home = Poland /\ form.on_ryczalt
    <2>2. seller \in {None} \cup {f.seller : f \in Forms} /\ buyer \in {None} \cup {f.buyer : f \in Forms}
      BY DEF SellerOf, BuyerOf
    <2>3. rate \in {None} \cup {f.rate : f \in Forms} /\ currency \in {None} \cup {f.currency : f \in Forms} /\ ryczalt \in BOOLEAN
      BY <2>1
    <2>4. row = [owner |-> owner, start |-> form.start, end |-> form.end, hours |-> form.hours,
                 max |-> form.max, home |-> form.home, client |-> form.client,
                 seller |-> seller, buyer |-> buyer, send_to_ksef |-> form.send_to_ksef,
                 rate |-> rate, currency |-> currency, on_ryczalt |-> ryczalt]
      BY DEF Stored, StoredFor
    <2> HIDE DEF rate, currency, ryczalt, seller, buyer
    <2>5. [owner |-> owner, start |-> form.start, end |-> form.end, hours |-> form.hours,
                 max |-> form.max, home |-> form.home, client |-> form.client,
                 seller |-> seller, buyer |-> buyer, send_to_ksef |-> form.send_to_ksef,
                 rate |-> rate, currency |-> currency, on_ryczalt |-> ryczalt] \in Contracts
      BY <2>1, <2>2, <2>3 DEF Contracts
    <2>6. QED
      BY <2>4, <2>5
  <1>6. QED
    BY <1>1, <1>2, <1>4, <1>5, NoneAssumption

\* An answer that can be read is a set of dates.
LEMMA ParsedType ==
  ASSUME NEW service \in Services, NEW key \in Countries \X Years
  PROVE  Parsed(service[key]) = None \/ Parsed(service[key]) \subseteq Dates
  <1> DEFINE answer == service[key]
  <1>1. answer = None \/ answer \in Seq(Dates \cup {None})
    BY ServicesAssumption
  <1>2. CASE answer = None
    BY <1>2 DEF Parsed
  <1>3. CASE answer # None /\ \E i \in DOMAIN answer : answer[i] = None
    BY <1>3 DEF Parsed
  <1>4. CASE answer # None /\ ~\E i \in DOMAIN answer : answer[i] = None
    <2>1. \A i \in DOMAIN answer : answer[i] \in Dates
      BY <1>1, <1>4
    <2>2. Parsed(answer) = {answer[i] : i \in DOMAIN answer}
      BY <1>4 DEF Parsed
    <2> HIDE DEF answer
    <2>3. Parsed(answer) \subseteq Dates
      BY <2>1, <2>2
    <2> USE DEF answer
    <2>4. QED
      BY <2>3
  <1>5. QED
    BY <1>2, <1>3, <1>4

\* What one refresh makes of a row of the cache.
Keys == Countries \X Years

IsAsked(key, country, years) == key \in {country} \X years

\* What a refresh leaves for a country and a year: what was cached unless it
\* is stale and the service answers.
LEMMA RefreshedRow ==
  ASSUME NEW cache, IsCache(cache), NEW service, NEW country, NEW years, NEW key \in Keys
  PROVE  Refreshed(cache, service, country, years)[key] =
           IF ~IsAsked(key, country, years) \/ IsFresh(cache[key]) \/ Parsed(service[key]) = None
           THEN cache[key]
           ELSE IF Parsed(service[key]) = {} THEN None
           ELSE [dates |-> Parsed(service[key]), fetched |-> today]
  <1>1. DOMAIN cache = Countries \X Years
    BY DEF IsCache
  <1>2. QED
    BY <1>1 DEF Refreshed, IsAsked, Keys

\* A refreshed cache is one.
LEMMA RefreshedType ==
  ASSUME NEW cache, IsCache(cache), NEW service \in Services, NEW country, NEW years, today \in Today
  PROVE  IsCache(Refreshed(cache, service, country, years))
  <1> DEFINE fresh == Refreshed(cache, service, country, years)
  <1>1. ASSUME NEW key \in Countries \X Years
        PROVE  fresh[key] \in Caches \cup {None} /\ (fresh[key] # None => fresh[key].dates # {})
    <2> DEFINE row == fresh[key]
               fetched == Parsed(service[key])
    <2>1. \/ row = cache[key]
          \/ row = None
          \/ fetched # None /\ fetched # {} /\ row = [dates |-> fetched, fetched |-> today]
      BY RefreshedRow DEF Keys
    <2>2. fetched = None \/ fetched \subseteq Dates
      BY ParsedType
    <2> HIDE DEF row, fetched
    <2>3. row \in Caches \cup {None} /\ (row # None => row.dates # {})
      BY <2>1, <2>2 DEF Caches, IsCache
    <2> USE DEF row
    <2>4. QED
      BY <2>3
  <1>2. fresh = [key \in Countries \X Years |-> fresh[key]]
    BY DEF Refreshed, IsCache
  <1> HIDE DEF fresh
  <1>3. IsCache(fresh)
    BY <1>1, <1>2 DEF IsCache
  <1> USE DEF fresh
  <1>4. QED
    BY <1>3

\* A contract's years are among those there are dates of.
LEMMA ContractYearsType ==
  ASSUME NEW of \in Contracts
  PROVE  ContractYears(of) \subseteq Years /\ of.home \in Countries /\ of.client \in Countries
  <1>1. of.start \in Dates /\ of.end \in Dates /\ of.home \in Countries /\ of.client \in Countries
    BY DEF Contracts
  <1>2. YearOf(MonthOf(of.start)) \in Years /\ YearOf(MonthOf(of.end)) \in Years
    BY <1>1, DateIsInItsMonth
  <1>3. QED
    BY <1>1, <1>2, CalendarAssumption DEF ContractYears, Years

\* What a page of a contract asks for leaves a cache behind, and knows dates
\* within the term.
LEMMA HolidaysKnown ==
  ASSUME WorkspaceInv, NEW of \in Contracts, NEW service \in Services
  PROVE  LET known == ContractHolidays(of, service)
         IN  /\ IsCache(known.cache)
             /\ \A d \in known.home \cup known.client : d \in Dates
  <1> DEFINE years == ContractYears(of)
             home == Refreshed(holidays, service, of.home, years)
             cache == Refreshed(home, service, of.client, years)
  <1>1. IsCache(home)
    BY RefreshedType DEF WorkspaceInv, PeopleInv
  <1>2. IsCache(cache)
    <2> HIDE DEF home
    <2>1. QED
      BY <1>1, RefreshedType DEF WorkspaceInv, PeopleInv
  <1> HIDE DEF home, cache
  <1>3. ASSUME NEW country \in {of.home, of.client}, NEW d \in DatesOf(cache, country, of)
        PROVE  d \in Dates
    <2>1. PICK year \in ContractYears(of) :
            d \in (IF cache[<<country, year>>] = None THEN {} ELSE cache[<<country, year>>].dates)
      BY DEF DatesOf
    <2>2. <<country, year>> \in Countries \X Years
      BY ContractYearsType
    <2>3. cache[<<country, year>>] \in Caches
      BY <1>2, <2>1, <2>2 DEF IsCache
    <2>4. QED
      BY <2>1, <2>3 DEF Caches
  <1>4. QED
    BY <1>2, <1>3 DEF ContractHolidays, home, cache

-----------------------------------------------------------------------------
(* Every request, every deletion of the sweep and every new day keeps them. *)

\* A contract is made, and its guest with it.
LEMMA CreateContractKeepsShape ==
  ASSUME WorkspaceInv, NEW form \in Forms, CreateContract(form)
  PROVE  WorkspaceInv'
  <1> USE DEF WorkspaceInv
  <1>1. PICK service \in Services : holidays' = ContractHolidays(contract', service).cache
    BY DEF CreateContract
  <1>2. /\ MayStore(form, Current) /\ contract = None
        /\ UNCHANGED <<timeOff, issued, sweep, today>>
    BY DEF CreateContract
  <1>3. /\ PeopleInv'
        /\ \E owner \in UserIds :
             /\ contract' = StoredFor(form, Current, owner)
             /\ Exists(owner)'
    <2>1. CASE Current # None
      <3>1. contract' = Stored(form, Current) /\ UNCHANGED <<users, session>>
        BY <2>1 DEF CreateContract
      <3>2. Current \in UserIds /\ Exists(Current)
        BY <2>1, CurrentType
      <3>3. PICK owner \in UserIds : owner = Current
        BY <3>2
      <3>4. contract' = StoredFor(form, Current, owner)
        BY <3>1, <3>3 DEF Stored, StoredFor
      <3>5. PeopleInv'
        BY <1>2, <3>1 DEF PeopleInv
      <3>6. Exists(owner)'
        BY <3>1, <3>2, <3>3 DEF Exists
      <3>7. QED
        BY <3>4, <3>5, <3>6
    <2>2. CASE Current = None
      <3>1. PICK visitor \in Visitors :
              /\ users[visitor] = None /\ users' = Guests(visitor) /\ session' = visitor
              /\ contract' = [Stored(form, None) EXCEPT !.owner = visitor]
        BY <2>2 DEF CreateContract
      <3> DEFINE guest == [guest |-> today, token |-> "none"]
      <3>2. guest \in Users
        BY DEF Users, PeopleInv
      <3>3. visitor \in UserIds /\ users' = [users EXCEPT ![visitor] = guest]
        BY <3>1 DEF UserIds, Guests
      <3>4. guest.token # "held"
        OBVIOUS
      <3> HIDE DEF guest
      <3>5. PeopleInv'
        BY <1>2, <3>1, <3>2, <3>3, <3>4 DEF PeopleInv
      <3>6. Exists(visitor)'
        BY <3>2, <3>3, NoneAssumption DEF Exists, PeopleInv
      <3>7. QED
        BY <2>2, <3>1, <3>3, <3>5, <3>6 DEF StoredFor
    <2>3. QED
      BY <2>1, <2>2
  <1>4. PICK owner \in UserIds :
          contract' = StoredFor(form, Current, owner) /\ Exists(owner)'
    BY <1>3
  <1>5. /\ contract' \in Contracts /\ contract' # None /\ contract'.owner = owner
        /\ contract'.start < contract'.end /\ OfAForm(contract')
    <2>1. PICK row : row = contract'
      OBVIOUS
    <2>2. row = StoredFor(form, Current, owner)
      BY <1>4, <2>1
    <2>3. /\ row \in Contracts /\ row # None /\ row.owner = owner
          /\ row.start < row.end /\ OfAForm(row)
      BY <1>2, <2>2, StoredRow
    <2>4. QED
      BY <2>1, <2>3
  <1>6. ContractInv'
    BY <1>4, <1>5 DEF ContractInv, OfAForm
  <1>7. BookedInv' /\ IssuedInv'
    BY <1>2, <1>5 DEF BookedInv, IssuedInv, IsBooking
  <1>8. IsCache(holidays)'
    BY <1>1, <1>5, HolidaysKnown DEF IsCache
  <1>9. QED
    BY <1>3, <1>6, <1>7, <1>8

\* An edit stores a row of its owner's.
LEMMA EditContractKeepsShape ==
  ASSUME WorkspaceInv, NEW form \in Forms, EditContract(form)
  PROVE  WorkspaceInv'
  <1> USE DEF WorkspaceInv
  <1>1. /\ MayStore(form, Current) /\ contract' = Stored(form, Current) /\ contract # None
        /\ contract.owner = Current /\ UNCHANGED <<people, timeOff, issued, holidays, today>>
    BY DEF EditContract, Owned
  <1>2. contract.owner \in UserIds /\ Exists(contract.owner)
    BY <1>1 DEF ContractInv, Contracts
  <1>3. PICK owner \in UserIds : owner = Current /\ Exists(owner)
    BY <1>1, <1>2
  <1>4. contract' = StoredFor(form, Current, owner)
    BY <1>1, <1>3 DEF Stored, StoredFor
  <1>5. /\ contract' \in Contracts /\ contract' # None /\ contract'.owner = owner
        /\ contract'.start < contract'.end /\ OfAForm(contract')
    BY <1>1, <1>4, StoredRow
  <1>6. ContractInv'
    BY <1>1, <1>3, <1>5 DEF ContractInv, OfAForm, Exists, people
  <1>7. PeopleInv' /\ BookedInv' /\ IssuedInv' /\ IsCache(holidays)'
    BY <1>1, <1>5 DEF PeopleInv, BookedInv, IssuedInv, IsBooking, IsCache, people
  <1>8. QED
    BY <1>6, <1>7

\* What leaves rows alone leaves their shape alone.
LEMMA UnchangedPeople == ASSUME PeopleInv, UNCHANGED people, UNCHANGED today PROVE PeopleInv'
  BY DEF PeopleInv, people

\* A contract that stays, of an owner that stays, keeps its shape.
LEMMA UnchangedContract ==
  ASSUME ContractInv, UNCHANGED contract, contract # None => Exists(contract.owner)'
  PROVE  ContractInv'
  BY DEF ContractInv, OfAForm

\* Accounts that stay exist as they did.
LEMMA UnchangedExists ==
  ASSUME UNCHANGED users
  PROVE  \A u : Exists(u)' <=> Exists(u)
  BY DEF Exists

\* Days booked on a contract that stays keep their shape.
LEMMA UnchangedBooked ==
  ASSUME BookedInv, UNCHANGED timeOff, UNCHANGED issued, contract' # None \/ UNCHANGED contract
  PROVE  BookedInv'
  BY DEF BookedInv, IsBooking

\* Statements that stay keep their shape.
LEMMA UnchangedIssued == ASSUME IssuedInv, UNCHANGED issued PROVE IssuedInv'
  BY DEF IssuedInv

\* A holiday cache that stays keeps its shape.
LEMMA UnchangedCache == ASSUME IsCache(holidays), UNCHANGED holidays PROVE IsCache(holidays)'
  BY DEF IsCache

\* With a contract go the days booked on it.
LEMMA DiscardKeepsShape ==
  ASSUME BookedInv, Discard
  PROVE  ContractInv' /\ BookedInv' /\ IssuedInv'
  <1>1. contract' = None /\ timeOff' = NoTimeOff /\ issued' = {}
    BY DEF Discard
  <1>2. DOMAIN timeOff' = {}
    BY <1>1 DEF NoTimeOff
  <1>3. QED
    BY <1>1, <1>2 DEF ContractInv, BookedInv, IsBooking, IssuedInv

\* Deleting a contract takes the days booked on it with it.
LEMMA DeleteContractKeepsShape == ASSUME WorkspaceInv, DeleteContract PROVE WorkspaceInv'
  BY DiscardKeepsShape, UnchangedPeople, UnchangedCache DEF WorkspaceInv, DeleteContract

\* A booking on a contract leaves the rest alone.
LEMMA BookingKeepsShape ==
  ASSUME WorkspaceInv, contract # None, UNCHANGED <<people, contract, issued, today>>,
         IsBooking(timeOff)', IsCache(holidays)'
  PROVE  WorkspaceInv'
  <1>1. PeopleInv' /\ IssuedInv'
    BY UnchangedPeople, UnchangedIssued DEF WorkspaceInv
  <1>2. ContractInv'
    BY UnchangedContract, UnchangedExists DEF WorkspaceInv, ContractInv, people
  <1>3. BookedInv'
    BY DEF WorkspaceInv, BookedInv
  <1>4. QED
    BY <1>1, <1>2, <1>3 DEF WorkspaceInv

\* The hours of a contract's working day are some form's, and a whole number
\* of them.
LEMMA HoursType ==
  ASSUME WorkspaceInv, contract # None
  PROVE  /\ contract.hours \in 1..HoursInADay /\ contract.hours \in Nat
         /\ \E form \in Forms : contract.hours = form.hours
         /\ contract \in Contracts /\ contract.start \in Dates /\ contract.end \in Dates
         /\ contract.start < contract.end
  <1>1. contract \in Contracts /\ OfAForm(contract) /\ contract.start < contract.end
    BY DEF WorkspaceInv, ContractInv
  <1>2. contract.hours \in 1..HoursInADay
    BY <1>1 DEF Contracts
  <1>3. HoursInADay = 24
    BY DEF HoursInADay
  <1>4. contract.hours \in Nat
    BY <1>2, <1>3
  <1>5. QED
    BY <1>1, <1>2, <1>4 DEF OfAForm, Contracts

\* Days off within the hours of the contract's working day may be booked.
LEMMA BookingOf ==
  ASSUME WorkspaceInv, contract # None, NEW booked, DOMAIN booked \subseteq Dates,
         \A d \in DOMAIN booked :
           \/ d \in DOMAIN timeOff /\ booked[d] = timeOff[d]
           \/ ~IsWeekend(d) /\ booked[d] \in Nat /\ booked[d] <= contract.hours
  PROVE  IsBooking(booked)
  <1>1. PICK form \in Forms : contract.hours = form.hours
    BY HoursType
  <1>2. ASSUME NEW d \in DOMAIN booked
        PROVE  /\ ~IsWeekend(d) /\ booked[d] \in Nat
               /\ \E f \in Forms : booked[d] <= f.hours
    BY <1>1 DEF WorkspaceInv, BookedInv, IsBooking
  <1>3. QED
    BY <1>2 DEF IsBooking

\* Pressing a day books a part of it at most.
LEMMA ToggleKeepsShape ==
  ASSUME WorkspaceInv, NEW date \in Toggles, NEW portion, ToggleDay(date, portion)
  PROVE  WorkspaceInv'
  <1>1. /\ contract # None /\ ~IsWeekend(date) /\ timeOff' = Pressed(date, portion)
        /\ UNCHANGED <<people, contract, issued, holidays, today>>
    BY DEF ToggleDay, Owned
  <1>2. date \in Dates
    BY WorkspaceAssumption
  <1> DEFINE full == contract.hours
             half == contract.hours \div 2
             booked == IF date \in DOMAIN timeOff THEN timeOff[date] ELSE None
             wanted == CASE portion = "half" -> half
                         [] portion = "full" -> full
                         [] OTHER -> IF booked = half THEN full ELSE half
             set == [d \in DOMAIN timeOff \cup {date} |-> IF d = date THEN wanted ELSE timeOff[d]]
  <1>3. full \in Nat /\ half \in Nat /\ half <= full
    BY <1>1, HoursType
  <1>4. wanted \in {half, full}
    OBVIOUS
  <1>5. timeOff' = Without({date}) \/ timeOff' = set
    BY <1>1 DEF Pressed
  <1>6. IsBooking(Without({date}))
    BY <1>1 DEF WorkspaceInv, BookedInv, IsBooking, Without
  <1> HIDE DEF wanted
  <1>7. IsBooking(set)
    <2>1. DOMAIN timeOff \subseteq Dates
      BY DEF WorkspaceInv, BookedInv, IsBooking
    <2>2. wanted \in Nat /\ wanted <= contract.hours
      BY <1>3, <1>4
    <2>3. DOMAIN set \subseteq Dates
      BY <1>2, <2>1
    <2>4. \A d \in DOMAIN set :
            \/ d \in DOMAIN timeOff /\ set[d] = timeOff[d]
            \/ ~IsWeekend(d) /\ set[d] \in Nat /\ set[d] <= contract.hours
      BY <1>1, <2>2
    <2> HIDE DEF set
    <2>5. QED
      BY <1>1, <2>3, <2>4, BookingOf
  <1> HIDE DEF set
  <1>8. IsBooking(timeOff)'
    BY <1>5, <1>6, <1>7 DEF IsBooking
  <1>9. IsCache(holidays)'
    BY <1>1, UnchangedCache DEF WorkspaceInv
  <1>10. QED
    BY <1>1, <1>8, <1>9, BookingKeepsShape

\* A bulk press books weekdays that are not past.
LEMMA BulkDatesType ==
  ASSUME WorkspaceInv, contract # None, NEW mode \in Modes, NEW service \in Services
  PROVE  LET known == ContractHolidays(contract, service)
         IN  /\ IsCache(known.cache)
             /\ \A d \in BulkDates(mode, known) : d \in Dates /\ ~IsWeekend(d)
  <1> DEFINE known == ContractHolidays(contract, service)
  <1>1. IsCache(known.cache) /\ \A d \in known.home \cup known.client : d \in Dates
    BY HoursType, HolidaysKnown
  <1> HIDE DEF known
  <1>2. \A d \in BulkDates(mode, known) : d \in known.home \cup known.client /\ ~IsWeekend(d)
    BY DEF BulkDates, Modes
  <1> USE DEF known
  <1>3. QED
    BY <1>1, <1>2

\* Booking a range of days books each of them whole.
LEMMA BulkKeepsShape ==
  ASSUME WorkspaceInv, NEW mode \in Modes, NEW service \in Services,
         BulkBook(mode, service) \/ ClearTimeOff(mode, service)
  PROVE  WorkspaceInv'
  <1> DEFINE known == ContractHolidays(contract, service)
             dates == BulkDates(mode, known)
             added == [d \in DOMAIN timeOff \cup dates |->
                         IF d \in DOMAIN timeOff THEN timeOff[d] ELSE contract.hours]
  <1>1. /\ contract # None /\ holidays' = known.cache
        /\ timeOff' = added \/ timeOff' = Without(dates)
        /\ UNCHANGED <<people, contract, issued, today>>
    BY DEF BulkBook, ClearTimeOff, Owned
  <1>2. IsCache(known.cache) /\ \A d \in dates : d \in Dates /\ ~IsWeekend(d)
    BY <1>1, BulkDatesType
  <1> HIDE DEF known, dates
  <1>3. IsBooking(Without(dates))
    BY DEF WorkspaceInv, BookedInv, IsBooking, Without
  <1>4. IsBooking(added)
    <2>1. DOMAIN added \subseteq Dates
      BY <1>2 DEF WorkspaceInv, BookedInv, IsBooking
    <2>2. \A d \in DOMAIN added :
            \/ d \in DOMAIN timeOff /\ added[d] = timeOff[d]
            \/ ~IsWeekend(d) /\ added[d] \in Nat /\ added[d] <= contract.hours
      BY <1>1, <1>2, HoursType
    <2> HIDE DEF added
    <2>3. QED
      BY <1>1, <2>1, <2>2, BookingOf
  <1> HIDE DEF added
  <1>5. IsBooking(timeOff)'
    BY <1>1, <1>3, <1>4 DEF IsBooking
  <1>6. IsCache(holidays)'
    BY <1>1, <1>2 DEF IsCache
  <1>7. QED
    BY <1>1, <1>5, <1>6, BookingKeepsShape

\* A file that is not refused books its weekdays of the term.
LEMMA ImportedType ==
  ASSUME WorkspaceInv, contract # None, NEW file \in Files, Imported(contract, file) # None
  PROVE  IsBooking(Imported(contract, file))
  <1> DEFINE kept == {i \in DOMAIN file :
                        ~IsWeekend(file[i].date) /\ InTerm(contract, file[i].date)}
             Latest(date) == Max({i \in kept : file[i].date = date})
             booked == [d \in {file[i].date : i \in kept} |-> file[Latest(d)].hours]
  <1>1. file \in Seq([date : Int \cup {None}, hours : Int \cup {None}])
    BY FilesAssumption
  <1>2. Imported(contract, file) = booked
    BY DEF Imported
  <1>3. Parses(file) /\ \A i \in kept : file[i].hours \in 1..contract.hours
    <2>1. CASE ~Parses(file)
      BY <2>1 DEF Imported
    <2>2. CASE \E i \in kept : file[i].hours \notin 1..contract.hours
      <3>1. kept # {}
        BY <2>2
      <3> DEFINE refused == \E i \in kept : file[i].hours \notin 1..contract.hours
                 latest == [d \in {file[i].date : i \in kept} |-> file[Latest(d)].hours]
      <3>2. Imported(contract, file) =
              IF ~Parses(file) THEN None ELSE IF kept = {} THEN None ELSE IF refused THEN None ELSE latest
        BY DEF Imported
      <3>3. refused
        BY <2>2
      <3> HIDE DEF refused, latest, kept
      <3>4. Imported(contract, file) = None
        BY <3>2, <3>3
      <3>5. QED
        BY <3>4
    <2>3. QED
      BY <2>1, <2>2
  <1>4. \A i \in DOMAIN file : file[i].date \in Int
    <2> SUFFICES ASSUME NEW i \in DOMAIN file PROVE file[i].date \in Int
      OBVIOUS
    <2> DEFINE Events == [date : Int \cup {None}, hours : Int \cup {None}]
    <2>0. file \in Seq(Events)
      BY <1>1
    <2> HIDE DEF Events
    <2>1. file[i] \in Events
      BY <2>0
    <2> USE DEF Events
    <2>2. file[i].date # None
      BY <1>3 DEF Parses
    <2>3. QED
      BY <2>1, <2>2
  <1>5. \A i \in kept : file[i].date \in Dates /\ ~IsWeekend(file[i].date)
    <2>1. contract.start \in Dates /\ contract.end \in Dates
      BY HoursType
    <2>2. EndOf(December(LastYear)) \in Nat
      <3>1. December(LastYear) \in Months
        BY CalendarAssumption DEF December, Months
      <3>2. QED
        BY <3>1, StartType
    <2>3. \A d \in Int : contract.start <= d /\ d <= contract.end => d \in Dates
      BY <2>1, <2>2 DEF Dates
    <2>4. QED
      BY <1>4, <2>3 DEF InTerm
  <1>6. \A i \in kept : Latest(file[i].date) \in kept
    <2> SUFFICES ASSUME NEW i \in kept PROVE Latest(file[i].date) \in kept
      OBVIOUS
    <2> DEFINE T == {j \in kept : file[j].date = file[i].date}
    <2>1. Len(file) \in Nat /\ DOMAIN file = 1..Len(file)
      BY <1>1
    <2>2. T \in SUBSET (0..Len(file))
      BY <2>1
    <2>3. T # {}
      OBVIOUS
    <2>4. Max(T) \in T
      <3> HIDE DEF T
      <3>1. QED
        BY <2>1, <2>2, <2>3, MaxIsGreatest
    <2>5. QED
      BY <2>4
  <1> HIDE DEF Latest
  <1>7. \A d \in DOMAIN booked : booked[d] \in 1..contract.hours /\ d \in Dates /\ ~IsWeekend(d)
    <2> SUFFICES ASSUME NEW i \in kept
                 PROVE  /\ file[Latest(file[i].date)].hours \in 1..contract.hours
                        /\ file[i].date \in Dates /\ ~IsWeekend(file[i].date)
      OBVIOUS
    <2> HIDE DEF kept
    <2>1. QED
      BY <1>3, <1>5, <1>6
  <1> HIDE DEF booked
  <1>8. \A n \in 1..contract.hours : n \in Nat /\ n <= contract.hours
    BY HoursType
  <1>9. IsBooking(booked)
    BY <1>7, <1>8, BookingOf
  <1>10. QED
    BY <1>2, <1>9

\* Importing a file books the days it keeps.
LEMMA ImportKeepsShape ==
  ASSUME WorkspaceInv, NEW file \in Files, ImportCalendar(file)
  PROVE  WorkspaceInv'
  <1>1. /\ contract # None /\ Imported(contract, file) # None /\ timeOff' = Imported(contract, file)
        /\ UNCHANGED <<people, contract, issued, holidays, today>>
    BY DEF ImportCalendar, Owned
  <1>2. IsBooking(timeOff)'
    <2>1. PICK booked : booked = Imported(contract, file) /\ IsBooking(booked)
      BY <1>1, ImportedType
    <2>2. QED
      BY <1>1, <2>1 DEF IsBooking
  <1>3. IsCache(holidays)'
    BY <1>1, UnchangedCache DEF WorkspaceInv
  <1>4. QED
    BY <1>1, <1>2, <1>3, BookingKeepsShape

\* Opening a calendar caches what the service answers.
LEMMA OpenCalendarKeepsShape ==
  ASSUME WorkspaceInv, NEW service \in Services, OpenCalendar(service)
  PROVE  WorkspaceInv'
  <1>1. /\ contract # None /\ holidays' = ContractHolidays(contract, service).cache
        /\ UNCHANGED <<people, contract, timeOff, issued, today>>
    BY DEF OpenCalendar, Owned
  <1>2. IsCache(holidays)'
    BY <1>1, HoursType, HolidaysKnown DEF IsCache
  <1>3. IsBooking(timeOff)'
    BY <1>1 DEF WorkspaceInv, BookedInv, IsBooking
  <1>4. QED
    BY <1>1, <1>2, <1>3, BookingKeepsShape

\* An invoice bills days of the calendar.
LEMMA IssueKeepsShape ==
  ASSUME WorkspaceInv, NEW month \in InvoiceMonths, IssueInvoice(month)
  PROVE  WorkspaceInv'
  <1> DEFINE billed == InMonth(contract, month)
  <1>1. /\ contract # None /\ issued' = issued \cup {billed}
        /\ EndOf(month) >= contract.start /\ StartOf(month) <= contract.end
        /\ UNCHANGED <<people, contract, timeOff, holidays, today>>
    BY DEF IssueInvoice, Owned
  <1>2. StartOf(month) \in Nat /\ EndOf(month) \in Nat /\ StartOf(month) <= EndOf(month)
    BY WorkspaceAssumption, StartType
  <1>3. contract.start \in Dates /\ contract.end \in Dates /\ contract.start < contract.end
    BY <1>1, HoursType
  <1>4. billed.start = Later(contract.start, StartOf(month)) /\ billed.end = Earlier(contract.end, EndOf(month))
    BY DEF InMonth, Clamp, Term
  <1> HIDE DEF billed
  <1>5. IsBilled(billed)
    <2>1. EndOf(December(LastYear)) \in Nat
      <3>1. December(LastYear) \in Months
        BY CalendarAssumption DEF December, Months
      <3>2. QED
        BY <3>1, StartType
    <2>2. QED
      BY <1>1, <1>2, <1>3, <1>4, <2>1 DEF IsBilled, Later, Earlier, Dates
  <1>6. IssuedInv'
    BY <1>1, <1>5 DEF WorkspaceInv, IssuedInv, IsBilled
  <1>7. PeopleInv' /\ IsCache(holidays)'
    BY <1>1, UnchangedPeople, UnchangedCache DEF WorkspaceInv
  <1>8. ContractInv'
    BY <1>1, UnchangedContract, UnchangedExists DEF WorkspaceInv, ContractInv, people
  <1>9. BookedInv'
    BY <1>1 DEF WorkspaceInv, BookedInv, IsBooking
  <1>10. QED
    BY <1>6, <1>7, <1>8, <1>9 DEF WorkspaceInv

-----------------------------------------------------------------------------
(* Users come and go.                                                      *)

\* Whoever is changed into a user is one, and the others stay.
LEMMA UserWritten ==
  ASSUME WorkspaceInv, NEW u \in UserIds, NEW row \in Users, row.guest # None => row.token # "held",
         users' = [users EXCEPT ![u] = row],
         UNCHANGED <<contract, timeOff, issued, holidays, today>>,
         session' \in UserIds \cup {None}, sweep' \subseteq UserIds
  PROVE  WorkspaceInv'
  <1>1. PeopleInv'
    BY DEF WorkspaceInv, PeopleInv
  <1>2. \A v \in UserIds : Exists(v) => Exists(v)'
    BY NoneAssumption DEF Exists, WorkspaceInv, PeopleInv
  <1>3. contract # None => contract.owner \in UserIds /\ Exists(contract.owner)
    BY DEF WorkspaceInv, ContractInv, Contracts
  <1>4. ContractInv'
    BY <1>2, <1>3, UnchangedContract DEF WorkspaceInv
  <1>5. QED
    BY <1>1, <1>4, UnchangedBooked, UnchangedIssued, UnchangedCache DEF WorkspaceInv

\* Making a guest and saving an account, whole or part way, keeps every row in
\* shape.
LEMMA AccountsKeepShape ==
  ASSUME WorkspaceInv, CreateGuestDies \/ SaveAccount \/ SaveAccountDies
  PROVE  WorkspaceInv'
  <1>1. CASE CreateGuestDies
    <2>1. PICK visitor \in Visitors, made \in {None, today} :
            users' = [users EXCEPT ![visitor] = [guest |-> made, token |-> "none"]]
      BY <1>1 DEF CreateGuestDies
    <2> DEFINE row == [guest |-> made, token |-> "none"]
    <2>2. row \in Users /\ row.token # "held" /\ visitor \in UserIds
      BY DEF Users, UserIds, WorkspaceInv, PeopleInv
    <2>3. /\ users' = [users EXCEPT ![visitor] = row]
          /\ UNCHANGED <<session, contract, timeOff, issued, holidays, sweep, today>>
      BY <1>1, <2>1 DEF CreateGuestDies
    <2> HIDE DEF row
    <2>4. QED
      BY <2>2, <2>3, UserWritten DEF WorkspaceInv, PeopleInv
  <1>2. CASE SaveAccount
    <2>1. PICK u \in UserIds : u = Current /\ users[u] \in Users
      BY <1>2, CurrentType DEF SaveAccount, WorkspaceInv
    <2> DEFINE row == [users[u] EXCEPT !.token = "held", !.guest = None]
    <2>2. users' = [users EXCEPT ![u].token = "held", ![u].guest = None]
      BY <1>2, <2>1 DEF SaveAccount
    <2>3. users' = [users EXCEPT ![u] = row]
      BY <2>1, <2>2 DEF WorkspaceInv, PeopleInv, Users
    <2>4. row \in Users /\ row.guest = None
      BY <2>1 DEF Users
    <2> HIDE DEF row
    <2>5. QED
      BY <1>2, <2>3, <2>4, UserWritten DEF SaveAccount, WorkspaceInv, PeopleInv
  <1>3. CASE SaveAccountDies
    <2>1. PICK u \in UserIds : u = Current /\ users[u] \in Users
      BY <1>3, CurrentType DEF SaveAccountDies, WorkspaceInv
    <2> DEFINE row == [users[u] EXCEPT !.token = "unseen"]
    <2>2. users' = [users EXCEPT ![u].token = "unseen"]
      BY <1>3, <2>1 DEF SaveAccountDies
    <2>3. users' = [users EXCEPT ![u] = row]
      BY <2>1, <2>2 DEF WorkspaceInv, PeopleInv, Users
    <2>4. row \in Users /\ row.token # "held"
      BY <2>1 DEF Users
    <2> HIDE DEF row
    <2>5. QED
      BY <1>3, <2>3, <2>4, UserWritten DEF SaveAccountDies, WorkspaceInv, PeopleInv
  <1>4. QED
    BY <1>1, <1>2, <1>3

\* A guest that signs in to an account is not the account, and gives it what
\* it has.
LEMMA LoginKeepsShape ==
  ASSUME WorkspaceInv, NEW account \in UserIds, Login(account)
  PROVE  WorkspaceInv'
  <1>1. /\ Exists(account) /\ users[account].token = "held" /\ session' = account
        /\ UNCHANGED <<timeOff, issued, holidays, sweep, today>>
    BY DEF Login, TransferGuest
  <1>2. users[account] \in Users
    BY <1>1, CurrentType DEF WorkspaceInv
  <1>3. CASE IsGuest(Current)
    <2>1. users' = [users EXCEPT ![Current] = Gone]
      BY <1>3 DEF Login, TransferGuest
    <2>2. contract' = IF contract # None /\ contract.owner = Current
                      THEN [contract EXCEPT !.owner = account] ELSE contract
      BY <1>3 DEF Login, TransferGuest
    <2>3. Current # None
      BY <1>3 DEF IsGuest, Exists
    <2>4. PICK u \in UserIds : u = Current /\ users[u] \in Users /\ users[u].guest # None
      BY <1>3, <2>3, CurrentType DEF IsGuest, WorkspaceInv
    <2>5. u # account
      BY <1>1, <2>4 DEF WorkspaceInv, PeopleInv
    <2>6. users' = [users EXCEPT ![u] = Gone]
      BY <2>1, <2>4
    <2>7. PeopleInv'
      BY <1>1, <2>6, NoneAssumption DEF WorkspaceInv, PeopleInv
    <2>8. \A v \in UserIds : v # u /\ Exists(v) => Exists(v)'
      BY <2>6, NoneAssumption DEF Exists, WorkspaceInv, PeopleInv
    <2>9. ContractInv' /\ (contract' = None <=> contract = None)
      <3>1. CASE contract # None /\ contract.owner = u
        <4>1. contract' = [contract EXCEPT !.owner = account] /\ contract \in Contracts
          BY <2>2, <2>4, <3>1 DEF WorkspaceInv, ContractInv
        <4>2. contract' \in Contracts /\ contract'.owner = account
          BY <4>1 DEF Contracts
        <4>3. /\ contract'.start = contract.start /\ contract'.end = contract.end
              /\ contract'.hours = contract.hours /\ contract'.max = contract.max
          BY <4>1 DEF Contracts
        <4>4. Exists(account)'
          BY <1>1, <2>5, <2>8
        <4>5. contract' # None
          BY <4>2, NoneAssumption
        <4>6. QED
          BY <3>1, <4>2, <4>3, <4>4, <4>5 DEF WorkspaceInv, ContractInv, OfAForm
      <3>2. CASE ~(contract # None /\ contract.owner = u)
        <4>1. contract' = contract
          BY <2>2, <2>4, <3>2
        <4>2. contract # None => contract.owner \in UserIds /\ Exists(contract.owner)
          BY DEF WorkspaceInv, ContractInv, Contracts
        <4>3. QED
          BY <2>8, <3>2, <4>1, <4>2, UnchangedContract DEF WorkspaceInv
      <3>3. QED
        BY <3>1, <3>2
    <2>10. BookedInv' /\ IssuedInv' /\ IsCache(holidays)'
      BY <1>1, <2>9, UnchangedIssued, UnchangedCache DEF WorkspaceInv, BookedInv, IsBooking
    <2>11. QED
      BY <2>7, <2>9, <2>10 DEF WorkspaceInv
  <1>4. CASE ~IsGuest(Current)
    <2>1. UNCHANGED <<users, contract>>
      BY <1>4 DEF Login
    <2>2. PeopleInv'
      BY <1>1, <2>1 DEF WorkspaceInv, PeopleInv
    <2>3. ContractInv'
      BY <2>1, UnchangedContract, UnchangedExists DEF WorkspaceInv, ContractInv
    <2>4. QED
      BY <1>1, <2>1, <2>2, <2>3, UnchangedBooked, UnchangedIssued, UnchangedCache DEF WorkspaceInv
  <1>5. QED
    BY <1>3, <1>4

\* A deletion of the sweep takes the contract of whom it deletes along.
LEMMA SweepKeepsShape ==
  ASSUME WorkspaceInv, SweepReads \/ \E u \in sweep : SweepDeletes(u)
  PROVE  WorkspaceInv'
  <1>1. CASE SweepReads
    <2>1. PeopleInv'
      BY <1>1 DEF SweepReads, WorkspaceInv, PeopleInv
    <2>2. ContractInv'
      BY <1>1, UnchangedContract, UnchangedExists DEF SweepReads, WorkspaceInv, ContractInv
    <2>3. QED
      BY <1>1, <2>1, <2>2, UnchangedBooked, UnchangedIssued, UnchangedCache DEF WorkspaceInv, SweepReads
  <1>2. ASSUME NEW u \in sweep, SweepDeletes(u) PROVE WorkspaceInv'
    <2> DEFINE owns == contract # None /\ contract.owner = u
               kept == sweep' = {} /\ UNCHANGED <<users, contract, timeOff, issued>>
    <2>0. u \in UserIds
      BY DEF WorkspaceInv, PeopleInv
    <2>1. UNCHANGED <<session, holidays, today>>
      BY <1>2 DEF SweepDeletes
    <2>2. CASE kept
      <3>1. sweep' = {} /\ UNCHANGED <<users, contract, timeOff, issued>>
        BY <2>2
      <3>2. PeopleInv'
        BY <2>1, <3>1 DEF WorkspaceInv, PeopleInv
      <3>3. ContractInv'
        BY <3>1, UnchangedContract, UnchangedExists DEF WorkspaceInv, ContractInv
      <3>4. QED
        BY <2>1, <3>1, <3>2, <3>3, UnchangedBooked, UnchangedIssued, UnchangedCache DEF WorkspaceInv
    <2>3. CASE ~kept
      <3>1. /\ sweep' = sweep \ {u} /\ users' = [users EXCEPT ![u] = Gone]
            /\ IF owns THEN Discard ELSE UNCHANGED <<contract, timeOff, issued>>
        BY <1>2, <2>3 DEF SweepDeletes
      <3>2. PeopleInv'
        BY <2>0, <2>1, <3>1, NoneAssumption DEF WorkspaceInv, PeopleInv
      <3>3. ContractInv' /\ BookedInv' /\ IssuedInv'
        <4>1. CASE owns
          BY <3>1, <4>1, DiscardKeepsShape DEF WorkspaceInv
        <4>2. CASE ~owns
          <5>1. UNCHANGED <<contract, timeOff, issued>>
            BY <3>1, <4>2
          <5>2. \A v \in UserIds : v # u /\ Exists(v) => Exists(v)'
            BY <2>0, <3>1, NoneAssumption DEF Exists, WorkspaceInv, PeopleInv
          <5>3. contract # None => /\ contract.owner \in UserIds /\ Exists(contract.owner)
                                   /\ contract.owner # u
            BY <4>2 DEF WorkspaceInv, ContractInv, Contracts
          <5>4. ContractInv'
            BY <5>1, <5>2, <5>3, UnchangedContract DEF WorkspaceInv
          <5>5. QED
            BY <5>1, <5>4, UnchangedBooked, UnchangedIssued DEF WorkspaceInv
        <4>3. QED
          BY <4>1, <4>2
      <3>4. QED
        BY <2>1, <3>2, <3>3, UnchangedCache DEF WorkspaceInv
    <2>4. QED
      BY <2>2, <2>3
  <1>3. QED
    BY <1>1, <1>2

\* Neither signing out nor a new day writes a row.
LEMMA DaysGoBy ==
  ASSUME WorkspaceInv, Logout \/ NextDay \/ UNCHANGED vars
  PROVE  WorkspaceInv'
  <1>1. UNCHANGED <<users, contract, timeOff, issued, holidays, sweep>>
    BY DEF Logout, NextDay, vars, people
  <1>2. session' \in UserIds \cup {None}
    BY DEF Logout, NextDay, vars, people, WorkspaceInv, PeopleInv
  <1>3. today' \in Today
    <2>1. CASE NextDay
      <3> DEFINE later == {d \in Today : d > today}
      <3>1. later # {} /\ later \in SUBSET Nat /\ today' = Min(later)
        BY <2>1, DaysAreNumbers DEF NextDay
      <3>2. Min(later) \in later
        <4> HIDE DEF later
        <4>1. QED
          BY <3>1, MinIsLeast
      <3>3. QED
        BY <3>1, <3>2
    <2>2. QED
      BY <2>1 DEF Logout, vars, WorkspaceInv, PeopleInv
  <1>4. PeopleInv'
    BY <1>1, <1>2, <1>3 DEF WorkspaceInv, PeopleInv
  <1>5. ContractInv'
    BY <1>1, UnchangedContract, UnchangedExists DEF WorkspaceInv, ContractInv
  <1>6. QED
    BY <1>1, <1>4, <1>5, UnchangedBooked, UnchangedIssued, UnchangedCache DEF WorkspaceInv

\* Every request and every night keeps the workspace in shape.
LEMMA WorkspaceStep == WorkspaceInv /\ [Next]_vars => WorkspaceInv'
  <1> SUFFICES ASSUME WorkspaceInv, [Next]_vars PROVE WorkspaceInv'
    OBVIOUS
  <1>1. ASSUME NEW form \in Forms, CreateContract(form) \/ EditContract(form) PROVE WorkspaceInv'
    BY <1>1, CreateContractKeepsShape, EditContractKeepsShape
  <1>2. ASSUME NEW date \in Toggles, NEW portion \in {None, "half", "full"}, ToggleDay(date, portion)
        PROVE  WorkspaceInv'
    BY <1>2, ToggleKeepsShape
  <1>3. ASSUME NEW mode \in Modes, NEW service \in Services,
               BulkBook(mode, service) \/ ClearTimeOff(mode, service)
        PROVE  WorkspaceInv'
    BY <1>3, BulkKeepsShape
  <1>4. ASSUME NEW file \in Files, ImportCalendar(file) PROVE WorkspaceInv'
    BY <1>4, ImportKeepsShape
  <1>5. ASSUME NEW service \in Services, OpenCalendar(service) PROVE WorkspaceInv'
    BY <1>5, OpenCalendarKeepsShape
  <1>6. ASSUME NEW month \in InvoiceMonths, IssueInvoice(month) PROVE WorkspaceInv'
    BY <1>6, IssueKeepsShape
  <1>7. ASSUME NEW user \in UserIds, Login(user) PROVE WorkspaceInv'
    BY <1>7, LoginKeepsShape
  <1>8. QED
    BY <1>1, <1>2, <1>3, <1>4, <1>5, <1>6, <1>7, DeleteContractKeepsShape, AccountsKeepShape,
       SweepKeepsShape, DaysGoBy DEF Next

\* The empty workspace has its shape.
LEMMA WorkspaceInit == Init => WorkspaceInv
  <1> SUFFICES ASSUME Init PROVE WorkspaceInv
    OBVIOUS
  <1> DEFINE account == [guest |-> None, token |-> "held"]
  <1>1. account \in Users /\ account.guest = None
    BY DEF Users
  <1> HIDE DEF account
  <1>2. users = [u \in UserIds |-> IF u \in Accounts THEN account ELSE None]
    BY DEF Init, account
  <1>3. today \in Today
    BY WorkspaceAssumption, DaysAreNumbers, MinIsLeast DEF Init
  <1>4. PeopleInv
    BY <1>1, <1>2, <1>3, NoneAssumption DEF PeopleInv, Init
  <1>5. contract = None /\ DOMAIN timeOff = {} /\ issued = {}
    BY DEF Init, NoTimeOff
  <1>6. ContractInv /\ BookedInv /\ IssuedInv
    BY <1>5 DEF ContractInv, BookedInv, IssuedInv, IsBooking
  <1>7. IsCache(holidays)
    BY DEF IsCache, Init
  <1>8. QED
    BY <1>4, <1>6, <1>7 DEF WorkspaceInv

\* The workspace is in shape in every state.
LEMMA WorkspaceHolds == Spec => []WorkspaceInv
  BY WorkspaceInit, WorkspaceStep, PTL DEF Spec

\* Rows keep their shape: no contract without a user, nothing booked or
\* billed without a contract, and none of it outside the calendar.
THEOREM RowsKeepTheirShape == Spec => []TypeOK
  <1>1. WorkspaceInv => TypeOK
    <2> SUFFICES ASSUME WorkspaceInv PROVE TypeOK
      OBVIOUS
    <2>1. ASSUME contract # None
          PROVE  \E form \in Forms : \A field \in {"start", "end", "hours", "max"} :
                   contract[field] = form[field]
      <3>1. PICK form \in Forms :
              /\ contract.start = form.start /\ contract.end = form.end
              /\ contract.hours = form.hours /\ contract.max = form.max
        BY <2>1 DEF WorkspaceInv, ContractInv, OfAForm
      <3>2. \A field \in {"start", "end", "hours", "max"} : contract[field] = form[field]
        BY <3>1
      <3>3. QED
        BY <3>2
    <2>2. \A key \in DOMAIN holidays :
            holidays[key] # None => holidays[key].dates # {} /\ holidays[key].fetched \in Today
      BY DEF WorkspaceInv, IsCache, Caches
    <2>3. \A d \in DOMAIN timeOff : \E form \in Forms : timeOff[d] <= form.hours /\ timeOff[d] \in Nat
      BY DEF WorkspaceInv, BookedInv, IsBooking
    <2>4. QED
      BY <2>1, <2>2, <2>3
      DEF TypeOK, WorkspaceInv, PeopleInv, ContractInv, BookedInv, IsBooking, IssuedInv, IsBilled
  <1>2. QED
    BY <1>1, WorkspaceHolds, PTL

-----------------------------------------------------------------------------
(* Whose a contract is.                                                    *)

\* What a step may make of a contract there is.
Kept ==
  /\ contract' = None =>
       \/ Current = contract.owner /\ issued = {} /\ users' = users
       \/ contract.owner \in sweep /\ users'[contract.owner] = Gone
  /\ contract' # None /\ contract'.owner # contract.owner =>
       /\ IsGuest(contract.owner) /\ session' = contract'.owner
       /\ users[session'].token = "held" /\ session' \notin Deactivated
       /\ users'[contract.owner] = Gone
       /\ timeOff' = timeOff /\ issued' = issued
  /\ timeOff' # timeOff /\ contract' # None => contract.owner = Current

\* What a step may do to a contract and to what is booked on it.
LEMMA KeptStep ==
  ASSUME WorkspaceInv, contract # None, [Next]_vars
  PROVE  Kept
  <1>1. ASSUME NEW form \in Forms, CreateContract(form) \/ EditContract(form) PROVE Kept
    <2>1. EditContract(form)
      BY <1>1 DEF CreateContract
    <2>2. MayStore(form, Current) /\ contract' = Stored(form, Current) /\ contract.owner = Current
      BY <2>1 DEF EditContract, Owned
    <2>3. PICK owner \in UserIds : owner = Current
      BY <2>2 DEF WorkspaceInv, ContractInv, Contracts
    <2>4. contract' = StoredFor(form, Current, owner)
      BY <2>2, <2>3 DEF Stored, StoredFor
    <2>5. PICK row : row = contract'
      OBVIOUS
    <2>6. row # None /\ row.owner = owner
      BY <2>2, <2>4, <2>5, StoredRow
    <2>7. timeOff' = timeOff
      BY <2>1 DEF EditContract
    <2>8. QED
      BY <2>2, <2>3, <2>5, <2>6, <2>7 DEF Kept
  <1>2. ASSUME DeleteContract PROVE Kept
    BY <1>2 DEF DeleteContract, Owned, Discard, people, Kept
  <1>3. ASSUME contract' = contract, timeOff' = timeOff \/ contract.owner = Current PROVE Kept
    BY <1>3 DEF Kept
  <1>4. ASSUME NEW account \in UserIds, Login(account) PROVE Kept
    <2>1. CASE IsGuest(Current) /\ contract.owner = Current
      <3>1. contract' = [contract EXCEPT !.owner = account] /\ contract \in Contracts
        BY <1>4, <2>1 DEF Login, TransferGuest, WorkspaceInv, ContractInv
      <3>2. contract' \in Contracts /\ contract'.owner = account
        BY <3>1 DEF Contracts
      <3>3. contract' # None
        BY <3>2, NoneAssumption
      <3>4. contract.owner \in UserIds /\ users' = [users EXCEPT ![contract.owner] = Gone]
        BY <1>4, <2>1, <3>1 DEF Login, TransferGuest, Contracts
      <3>5. users'[contract.owner] = Gone
        BY <3>4 DEF WorkspaceInv, PeopleInv
      <3>6. /\ session' = account /\ users[account].token = "held" /\ account \notin Deactivated
            /\ timeOff' = timeOff /\ issued' = issued
        BY <1>4, <2>1 DEF Login, TransferGuest
      <3>7. QED
        BY <2>1, <3>2, <3>3, <3>5, <3>6 DEF Kept
    <2>2. CASE ~(IsGuest(Current) /\ contract.owner = Current)
      <3>1. contract' = contract /\ timeOff' = timeOff
        BY <1>4, <2>2 DEF Login, TransferGuest
      <3>2. QED
        BY <1>3, <3>1
    <2>3. QED
      BY <2>1, <2>2
  <1>5. ASSUME NEW u \in sweep, SweepDeletes(u) PROVE Kept
    <2> DEFINE owns == contract.owner = u
               kept == UNCHANGED <<contract, timeOff>>
    <2>1. CASE owns /\ ~kept
      <3>1. users' = [users EXCEPT ![u] = Gone] /\ contract' = None
        BY <1>5, <2>1 DEF SweepDeletes, Discard
      <3>2. users'[u] = Gone
        BY <3>1 DEF WorkspaceInv, PeopleInv
      <3>3. QED
        BY <2>1, <3>1, <3>2 DEF Kept
    <2>2. CASE ~(owns /\ ~kept)
      <3>1. contract' = contract /\ timeOff' = timeOff
        BY <1>5, <2>2 DEF SweepDeletes
      <3>2. QED
        BY <1>3, <3>1
    <2>3. QED
      BY <2>1, <2>2
  <1>6. ASSUME NEW date \in Toggles, NEW portion \in {None, "half", "full"}, ToggleDay(date, portion)
        PROVE  Kept
    BY <1>3, <1>6 DEF ToggleDay, Owned
  <1>7. ASSUME NEW mode \in Modes, NEW service \in Services,
               BulkBook(mode, service) \/ ClearTimeOff(mode, service)
        PROVE  Kept
    BY <1>3, <1>7 DEF BulkBook, ClearTimeOff, Owned
  <1>8. ASSUME NEW file \in Files, ImportCalendar(file) PROVE Kept
    BY <1>3, <1>8 DEF ImportCalendar, Owned
  <1>9. ASSUME NEW service \in Services, OpenCalendar(service) PROVE Kept
    BY <1>3, <1>9 DEF OpenCalendar
  <1>10. ASSUME NEW month \in InvoiceMonths, IssueInvoice(month) PROVE Kept
    BY <1>3, <1>10 DEF IssueInvoice
  <1>11. CASE \/ CreateGuestDies \/ SaveAccount \/ SaveAccountDies \/ Logout
              \/ SweepReads \/ NextDay \/ UNCHANGED vars
    BY <1>3, <1>11
    DEF CreateGuestDies, SaveAccount, SaveAccountDies, Logout, SweepReads, NextDay, vars
  <1>12. QED
    BY <1>1, <1>2, <1>4, <1>5, <1>6, <1>7, <1>8, <1>9, <1>10, <1>11 DEF Next

\* A contract is lost only to its owner's press, without an invoice on it, or
\* to a sweep that read its owner as a guest; it changes hands only to the
\* account its guest signs in to; and only its owner changes what is booked.
THEOREM ContractsStayWithTheirOwners == Spec => ContractsAreKept
  <1> DEFINE Step == contract # None => Kept
  <1>1. WorkspaceInv /\ [Next]_vars => [Step]_vars
    BY KeptStep
  <1>2. Spec => [][Step]_vars
    BY <1>1, WorkspaceHolds, PTL DEF Spec
  <1>3. QED
    BY <1>2 DEF ContractsAreKept, Kept

-----------------------------------------------------------------------------
(* What a page shows of the holidays.                                      *)

\* A refresh that was not stale leaves fresh what it was asked for, or what the
\* service says is empty.
LEMMA RefreshAnswers ==
  ASSUME NEW cache, IsCache(cache), today \in Today, NEW service \in Services, NEW country \in Countries,
         NEW years \in SUBSET Years, ~IsStale(cache, service, country, years), NEW year \in years
  PROVE  LET row == Refreshed(cache, service, country, years)[<<country, year>>]
         IN  IF row = None THEN Parsed(service[<<country, year>>]) = {} ELSE IsFresh(row)
  <1> DEFINE key == <<country, year>>
             row == Refreshed(cache, service, country, years)[key]
             fetched == Parsed(service[key])
  <1>1. key \in Keys /\ IsAsked(key, country, years) /\ key \in Countries \X Years
    BY DEF Keys, IsAsked
  <1>2. IsFresh(cache[key]) \/ fetched # None
    BY DEF IsStale
  <1>3. \/ row = cache[key] /\ (IsFresh(cache[key]) \/ fetched = None)
        \/ ~IsFresh(cache[key]) /\ fetched # None /\ fetched = {} /\ row = None
        \/ fetched # None /\ fetched # {} /\ row = [dates |-> fetched, fetched |-> today]
    BY <1>1, RefreshedRow
  <1> HIDE DEF row, key, fetched
  <1>4. CASE row = cache[key] /\ IsFresh(cache[key])
    BY <1>4 DEF IsFresh, row, key
  <1>5. CASE fetched = {} /\ row = None
    BY <1>5 DEF row, key, fetched
  <1>6. CASE fetched # None /\ fetched # {} /\ row = [dates |-> fetched, fetched |-> today]
    <2>1. row \in Caches
      BY <1>1, <1>6, ParsedType DEF Caches, fetched
    <2>2. row # None /\ row.fetched = today
      BY <1>6, <2>1, NoneAssumption
    <2>3. today - today < CacheMaxAge
      BY DaysAreNumbers DEF CacheMaxAge
    <2>4. IsFresh(row)
      BY <2>2, <2>3 DEF IsFresh
    <2>5. QED
      BY <2>2, <2>4 DEF row, key
  <1>7. QED
    BY <1>1, <1>2, <1>3, <1>4, <1>5, <1>6

\* And what is fresh, or empty and said to be, a refresh for another country
\* leaves.
LEMMA RefreshKeeps ==
  ASSUME NEW cache, IsCache(cache), NEW service \in Services, NEW country, NEW years,
         NEW key \in Countries \X Years,
         IF cache[key] = None THEN Parsed(service[key]) = {} ELSE IsFresh(cache[key])
  PROVE  Refreshed(cache, service, country, years)[key] = cache[key]
  <1> DEFINE row == Refreshed(cache, service, country, years)[key]
             fetched == Parsed(service[key])
  <1>1. \/ row = cache[key]
        \/ ~IsFresh(cache[key]) /\ fetched = {} /\ row = None
        \/ ~IsFresh(cache[key]) /\ fetched # {}
    <2>1. key \in Keys
      BY DEF Keys
    <2>2. Refreshed(cache, service, country, years)[key] =
            IF ~IsAsked(key, country, years) \/ IsFresh(cache[key]) \/ fetched = None
            THEN cache[key]
            ELSE IF fetched = {} THEN None
            ELSE [dates |-> fetched, fetched |-> today]
      BY <2>1, RefreshedRow
    <2> HIDE DEF fetched
    <2>3. QED
      BY <2>2
  <1> HIDE DEF row, fetched
  <1>2. QED
    BY <1>1 DEF row, fetched

\* A page that does not say it is stale shows nothing older than thirty days
\* and leaves nothing out; a refresh that fails loses nothing that was known.
THEOREM StaleHolidaysAreSaid == Spec => []StaleIsSaid
  <1>1. WorkspaceInv => StaleIsSaid
    <2> SUFFICES ASSUME WorkspaceInv, contract # None PROVE StaleIsSaid
      BY DEF StaleIsSaid
    <2> SUFFICES ASSUME NEW service \in Services
                 PROVE  LET shown == ContractHolidays(contract, service)
                            Answered(country, dates) ==
                              \A year \in ContractYears(contract) :
                                LET cached == shown.cache[<<country, year>>]
                                IN  IF cached = None THEN Parsed(service[<<country, year>>]) = {}
                                    ELSE /\ today - cached.fetched < CacheMaxAge
                                         /\ \A d \in cached.dates : InTerm(contract, d) => d \in dates
                        IN  /\ ~shown.stale => /\ Answered(contract.home, shown.home)
                                               /\ Answered(contract.client, shown.client)
                            /\ \A key \in DOMAIN holidays :
                                 holidays[key] # None /\ Parsed(service[key]) = None
                                   => shown.cache[key] = holidays[key]
      BY DEF StaleIsSaid
    <2> DEFINE of == contract
               years == ContractYears(of)
               home == Refreshed(holidays, service, of.home, years)
               cache == Refreshed(home, service, of.client, years)
               stale == \/ IsStale(holidays, service, of.home, years)
                        \/ IsStale(home, service, of.client, years)
               atHome == DatesOf(cache, of.home, of)
               atClient == DatesOf(cache, of.client, of)
    <2>1. today \in Today /\ IsCache(holidays) /\ contract \in Contracts
      BY DEF WorkspaceInv, PeopleInv, ContractInv
    <2>2. years \in SUBSET Years /\ of.home \in Countries /\ of.client \in Countries
      BY <2>1, ContractYearsType
    <2>3. ContractHolidays(contract, service) =
            [cache |-> cache, home |-> atHome, client |-> atClient, stale |-> stale]
      BY DEF ContractHolidays
    <2>4. IsCache(home)
      BY <2>1, RefreshedType
    <2> HIDE DEF home
    <2>5. IsCache(cache)
      BY <2>1, <2>4, RefreshedType
    <2> DEFINE Current2(country) ==
                 \A year \in years :
                   LET row == cache[<<country, year>>]
                   IN  IF row = None THEN Parsed(service[<<country, year>>]) = {} ELSE IsFresh(row)
    <2>6. ~stale => Current2(of.home) /\ Current2(of.client)
      <3> SUFFICES ASSUME ~stale, NEW year \in years
                   PROVE  /\ LET row == cache[<<of.home, year>>]
                             IN  IF row = None THEN Parsed(service[<<of.home, year>>]) = {}
                                 ELSE IsFresh(row)
                          /\ LET row == cache[<<of.client, year>>]
                             IN  IF row = None THEN Parsed(service[<<of.client, year>>]) = {}
                                 ELSE IsFresh(row)
        OBVIOUS
      <3> HIDE DEF years
      <3>1. IF home[<<of.home, year>>] = None THEN Parsed(service[<<of.home, year>>]) = {}
            ELSE IsFresh(home[<<of.home, year>>])
        BY <2>1, <2>2, RefreshAnswers DEF home
      <3>2. <<of.home, year>> \in Countries \X Years
        BY <2>2
      <3>3. cache[<<of.home, year>>] = home[<<of.home, year>>]
        BY <2>4, <3>1, <3>2, RefreshKeeps
      <3>4. IF cache[<<of.client, year>>] = None THEN Parsed(service[<<of.client, year>>]) = {}
            ELSE IsFresh(cache[<<of.client, year>>])
        BY <2>1, <2>2, <2>4, RefreshAnswers
      <3>5. QED
        BY <3>1, <3>3, <3>4
    <2>7. ASSUME NEW key \in DOMAIN holidays, holidays[key] # None, Parsed(service[key]) = None
          PROVE  cache[key] = holidays[key]
      <3>1. key \in Keys
        BY <2>1 DEF IsCache, Keys
      <3> HIDE DEF years
      <3>2. home[key] =
              IF ~IsAsked(key, of.home, years) \/ IsFresh(holidays[key]) \/ Parsed(service[key]) = None
              THEN holidays[key]
              ELSE IF Parsed(service[key]) = {} THEN None
              ELSE [dates |-> Parsed(service[key]), fetched |-> today]
        BY <2>1, <3>1, RefreshedRow DEF home
      <3>3. cache[key] =
              IF ~IsAsked(key, of.client, years) \/ IsFresh(home[key]) \/ Parsed(service[key]) = None
              THEN home[key]
              ELSE IF Parsed(service[key]) = {} THEN None
              ELSE [dates |-> Parsed(service[key]), fetched |-> today]
        <4>1. PICK one : one = home
          OBVIOUS
        <4>2. IsCache(one) /\ cache = Refreshed(one, service, of.client, years)
          BY <2>4, <4>1
        <4> HIDE DEF cache
        <4>3. cache[key] =
                IF ~IsAsked(key, of.client, years) \/ IsFresh(one[key]) \/ Parsed(service[key]) = None
                THEN one[key]
                ELSE IF Parsed(service[key]) = {} THEN None
                ELSE [dates |-> Parsed(service[key]), fetched |-> today]
          BY <3>1, <4>2, RefreshedRow
        <4>4. QED
          BY <4>1, <4>3
      <3> HIDE DEF cache
      <3>4. home[key] = holidays[key] /\ cache[key] = home[key]
        BY <2>7, <3>2, <3>3
      <3>5. QED
        BY <3>4 DEF cache
    <2> HIDE DEF cache
    <2>8. ASSUME NEW country \in Countries, Current2(country), NEW year \in years
          PROVE  LET cached == cache[<<country, year>>]
                 IN  IF cached = None THEN Parsed(service[<<country, year>>]) = {}
                     ELSE /\ today - cached.fetched < CacheMaxAge
                          /\ \A d \in cached.dates : InTerm(contract, d) => d \in DatesOf(cache, country, of)
      BY <2>8 DEF IsFresh, DatesOf
    <2> HIDE DEF years, stale, atHome, atClient
    <2>9. QED
      BY <2>2, <2>3, <2>6, <2>7, <2>8 DEF years, atHome, atClient
  <1>2. QED
    BY <1>1, WorkspaceHolds, PTL

-----------------------------------------------------------------------------
(* What is exported can be imported.                                       *)

\* What an import makes of a file that lists every booked day once.
LEMMA ImportOfAnExport ==
  ASSUME WorkspaceInv, contract # None,
         NEW file, file = Export(timeOff),
         NEW kept, kept = {d \in DOMAIN timeOff : InTerm(contract, d)}
  PROVE  Imported(contract, file) =
           IF kept # {} /\ \A d \in kept : timeOff[d] \in 1..contract.hours
           THEN [d \in kept |-> timeOff[d]] ELSE None
  <1>0. /\ DOMAIN timeOff \subseteq Dates
        /\ \A d \in DOMAIN timeOff : ~IsWeekend(d) /\ timeOff[d] \in Nat
    BY DEF WorkspaceInv, BookedInv, IsBooking
  <1>1. DOMAIN timeOff \subseteq Nat /\ IsFiniteSet(DOMAIN timeOff)
    <2>1. EndOf(December(LastYear)) \in Nat
      <3>1. December(LastYear) \in Months
        BY CalendarAssumption DEF December, Months
      <3>2. QED
        BY <3>1, StartType
    <2>2. IsFiniteSet(Dates)
      BY <2>1, FS_Interval DEF Dates
    <2>3. QED
      BY <1>0, <2>2, FS_Subset, DaysAreNumbers
  <1>2. /\ \A i \in DOMAIN file : file[i].date \in DOMAIN timeOff /\ file[i].hours = timeOff[file[i].date]
        /\ \A d \in DOMAIN timeOff : \E i \in DOMAIN file : file[i].date = d
        /\ \A i, j \in DOMAIN file : file[i].date = file[j].date => i = j
        /\ DOMAIN file = 1..Cardinality(DOMAIN timeOff)
        /\ Cardinality(DOMAIN timeOff) \in Nat
    BY <1>1, ExportLists
  <1> DEFINE rows == {i \in DOMAIN file : ~IsWeekend(file[i].date) /\ InTerm(contract, file[i].date)}
             Latest(d) == Max({i \in rows : file[i].date = d})
             refused == \E i \in rows : file[i].hours \notin 1..contract.hours
             booked == [d \in {file[i].date : i \in rows} |-> file[Latest(d)].hours]
  <1>3. Parses(file)
    <2>1. \A i \in DOMAIN file : file[i].date \in Int /\ file[i].hours \in Int
      BY <1>0, <1>1, <1>2
    <2>2. QED
      BY <2>1, NoneAssumption DEF Parses
  <1>4. Imported(contract, file) = IF rows = {} THEN None ELSE IF refused THEN None ELSE booked
    BY <1>3 DEF Imported
  <1>5. rows = {i \in DOMAIN file : file[i].date \in kept}
    BY <1>0, <1>2
  <1>6. {file[i].date : i \in rows} = kept
    <2> HIDE DEF rows
    <2>1. \A d \in kept : \E i \in rows : file[i].date = d
      BY <1>2, <1>5
    <2>2. \A i \in rows : file[i].date \in kept
      BY <1>5
    <2>3. QED
      BY <2>1, <2>2
  <1>7. \A i \in rows : file[i].date \in kept /\ file[i].hours = timeOff[file[i].date]
    BY <1>2, <1>5
  <1>8. \A d \in kept : file[Latest(d)].hours = timeOff[d]
    <2> SUFFICES ASSUME NEW d \in kept PROVE file[Latest(d)].hours = timeOff[d]
      OBVIOUS
    <2> DEFINE T == {i \in rows : file[i].date = d}
    <2>1. T # {}
      <3> HIDE DEF rows
      <3>1. \E i \in rows : file[i].date = d
        BY <1>6
      <3>2. QED
        BY <3>1
    <2>2. T \in SUBSET (0..Cardinality(DOMAIN timeOff))
      BY <1>2
    <2> HIDE DEF T
    <2>3. Max(T) \in T
      BY <1>2, <2>1, <2>2, MaxIsGreatest
    <2> USE DEF T
    <2>4. Latest(d) \in rows /\ file[Latest(d)].date = d
      BY <2>3
    <2> HIDE DEF Latest, T, rows
    <2>5. QED
      BY <1>7, <2>4
  <1> HIDE DEF Latest
  <1>9. booked = [d \in kept |-> timeOff[d]]
    BY <1>6, <1>8
  <1>10. refused <=> ~\A d \in kept : timeOff[d] \in 1..contract.hours
    <2> HIDE DEF rows
    <2>1. \A d \in kept : \E i \in rows : file[i].date = d
      BY <1>6
    <2>2. QED
      BY <1>7, <2>1
  <1>11. rows = {} <=> kept = {}
    <2> HIDE DEF rows
    <2>1. QED
      BY <1>6
  <1> HIDE DEF rows, refused, booked
  <1>12. QED
    BY <1>4, <1>9, <1>10, <1>11

\* Whatever is booked, by hand, in bulk or from a file, and however the term
\* and the hours were edited under it: what an export writes an import of it
\* books again, day by day, and refuses only where an edit, or half of an
\* hour, left hours that no working day has.
THEOREM ExportsComeBack == Spec => []ExportedComesBack
  <1>1. WorkspaceInv => ExportedComesBack
    BY ImportOfAnExport DEF ExportedComesBack
  <1>2. QED
    BY <1>1, WorkspaceHolds, PTL

-----------------------------------------------------------------------------
(* The shares of a yearly cap.                                             *)

\* A contract that is made has a term to share the cap over.
LEMMA SharesStep ==
  ASSUME WorkspaceInv', contract' # None
  PROVE  SharesAddUp(contract')
  <1>1. contract' \in Contracts /\ contract'.start < contract'.end
    BY DEF WorkspaceInv, ContractInv
  <1>2. PICK of : of = contract'
    OBVIOUS
  <1>3. of.start \in Dates /\ of.end \in Dates /\ of.max \in Nat /\ of.start < of.end
    <2>1. \A row \in Contracts : row.start \in Dates /\ row.end \in Dates /\ row.max \in Nat
      BY DEF Contracts
    <2>2. QED
      BY <1>1, <1>2, <2>1
  <1>4. of.start <= of.end
    <2>1. of.start \in Nat /\ of.end \in Nat
      BY <1>3, DaysAreNumbers
    <2>2. QED
      BY <1>3, <2>1
  <1>5. SharesAddUp(of)
    BY <1>3, <1>4, SharesOfAYear DEF SharesAddUp
  <1>6. QED
    BY <1>2, <1>5

\* Whatever contract is made, of any term and any cap: however a year of it is
\* split, what the parts are allowed is never more than the whole year is, and
\* a day less at most.
THEOREM SharesNeverExceedTheCap == Spec => SharesKeepTheCap
  <1> DEFINE Step == contract = None /\ contract' # None => SharesAddUp(contract')
  <1>1. WorkspaceInv /\ [Next]_vars => [Step]_vars
    BY WorkspaceStep, SharesStep
  <1>2. Spec => [][Step]_vars
    BY <1>1, WorkspaceHolds, PTL DEF Spec
  <1>3. QED
    BY <1>2 DEF SharesKeepTheCap

-----------------------------------------------------------------------------
(* What the pages count.                                                   *)

\* What is booked counts, and on weekdays only.
LEMMA BookedCounts ==
  ASSUME WorkspaceInv
  PROVE  IsOff(timeOff)
  <1>1. DOMAIN timeOff \subseteq Dates /\ \A d \in DOMAIN timeOff : ~IsWeekend(d) /\ timeOff[d] \in Nat
    BY DEF WorkspaceInv, BookedInv, IsBooking
  <1> DEFINE end == EndOf(December(LastYear))
  <1>2. end \in Nat
    <2>1. December(LastYear) \in Months
      BY CalendarAssumption DEF December, Months
    <2>2. QED
      BY <2>1, StartType
  <1>3. Dates = 0..end
    BY DEF Dates
  <1> HIDE DEF end
  <1>4. IsBooked(timeOff)
    <2> DEFINE all == 0..end
               booked == DOMAIN timeOff
    <2>1. IsFiniteSet(all) /\ booked \in SUBSET all /\ all \subseteq Nat
      BY <1>1, <1>2, <1>3, FS_Interval
    <2> HIDE DEF all, booked
    <2>2. IsFiniteSet(booked) /\ booked \subseteq Nat
      BY <2>1, FS_Subset
    <2>3. QED
      BY <1>1, <2>2 DEF IsBooked, IsValued, booked
  <1>5. QED
    BY <1>1, <1>4 DEF IsOff

\* The counts of any contract over whatever is booked on it.
LEMMA CountsOfAContract ==
  ASSUME WorkspaceInv, contract # None
  PROVE  CountsAgree
  <1>1. contract.start \in Dates /\ contract.end \in Dates /\ contract.start <= contract.end
        /\ contract.hours \in Nat /\ today \in Dates
    <2>1. contract \in Contracts /\ contract.start < contract.end /\ today \in Today
      BY DEF WorkspaceInv, ContractInv, PeopleInv
    <2>2. \A row \in Contracts : row.start \in Dates /\ row.end \in Dates /\ row.hours \in 1..HoursInADay
      BY DEF Contracts
    <2>3. contract.start \in Nat /\ contract.end \in Nat
      BY <2>1, <2>2, DaysAreNumbers
    <2>4. contract.hours \in Nat
      BY <2>1, <2>2 DEF HoursInADay
    <2>5. QED
      BY <2>1, <2>2, <2>3, <2>4, DaysAreNumbers
  <1>2. IsOff(timeOff) /\ IsBooked(timeOff)
    BY BookedCounts DEF IsOff
  <1> DEFINE months == MonthlySummary(contract, timeOff)
             recorded == RecordsMonths(contract, issued, today)
             InYearOf(year) == {m \in DOMAIN months : YearOf(m) = year}
             TooLong(m) == {d \in Days(InMonth(contract, m)) \cap DOMAIN timeOff :
                              timeOff[d] > HoursPerDay(contract)}
  <1>4. DOMAIN months = ContractMonths(contract)
    BY DEF MonthlySummary
  <1>5. ASSUME NEW year \in ContractYears(contract)
        PROVE  LET stats == YearStats(contract, timeOff, {}, {}, year)
               IN  /\ stats.total_weekdays = SumOf([m \in InYearOf(year) |-> months[m].weekdays])
                   /\ stats.hours_off = SumOf([m \in InYearOf(year) |-> months[m].hours_off])
    BY <1>1, <1>2, YearIsItsMonths
  <1>6. ASSUME NEW m \in DOMAIN months
        PROVE  LET worked == HoursIn(WorkedDays(contract, timeOff, m))
               IN  IF TooLong(m) = {} THEN worked = months[m].net_hours
                   ELSE worked > months[m].net_hours
    BY <1>1, <1>2, <1>4, MonthIsItsDays
  <1>7. ASSUME NEW m \in DOMAIN months
        PROVE  m \in recorded <=> CanInvoiceMonth(m, today)
    <2>1. m \in ContractMonths(contract) /\ m \in Months
      BY <1>1, <1>4, MonthsTile DEF ContractMonths
    <2>2. m \in recorded <=> m <= LatestMonthOver(today)
      BY <2>1 DEF RecordsMonths
    <2>3. QED
      BY <1>1, <2>1, <2>2, MonthsThatAreOver
  <1> HIDE DEF months, recorded
  <1>8. QED
    BY <1>5, <1>6, <1>7 DEF CountsAgree, months, recorded

\* However a contract's term and hours were edited under what is booked: a
\* year counts what its months count, the days listed as worked come to the
\* month's net, and a month has its work on record once it is over.
THEOREM CountsNeverDisagree == Spec => []CountsAgree
  <1>1. WorkspaceInv => CountsAgree
    BY CountsOfAContract DEF CountsAgree
  <1>2. QED
    BY <1>1, WorkspaceHolds, PTL

-----------------------------------------------------------------------------
(* Every day a comparison is asked about is accounted for.                 *)

InHours(booked) == \A d \in DOMAIN booked : booked[d] \in Int

\* The hours booked of a day, or none.
BookedOn(booked, d) == IF d \in DOMAIN booked THEN booked[d] ELSE None

Disagreed(booked, external, asked, compared) ==
  {d \in (DOMAIN booked \cap Days(asked)) \cup DOMAIN external :
     InSome(compared, d) /\ BookedOn(booked, d) # BookedOn(external, d)}

Disagreeing(booked, theirs, compared) ==
  {d \in (DOMAIN booked \cup DOMAIN theirs) \cap DaysOf(compared) :
     ~(d \in DOMAIN booked \cap DOMAIN theirs /\ booked[d] = theirs[d])}

\* The dates said to differ are those compared that the two sides say
\* different things of, however much of the feed was asked for.
LEMMA DifferingDates ==
  ASSUME NEW booked, InHours(booked),
         NEW feed, NEW hours \in Int, NEW asked, NEW period, Days(asked) \subseteq Days(period),
         NEW compared, DaysOf(compared) \subseteq Days(asked),
         NEW some, some = ExternalTimeOff(feed, hours, asked),
         NEW all, all = ExternalTimeOff(feed, hours, period)
  PROVE  Disagreed(booked, some, asked, compared) = Disagreeing(booked, all, compared)
  <1>1. \A d : InSome(compared, d) <=> d \in DaysOf(compared)
    BY DEF InSome, DaysOf
  <1>2. ASSUME NEW d
        PROVE  d \in Disagreed(booked, some, asked, compared) <=> d \in Disagreeing(booked, all, compared)
    <2>1. CASE d \notin DaysOf(compared)
      BY <1>1, <2>1 DEF Disagreed, Disagreeing
    <2>2. CASE d \in DaysOf(compared)
      <3>1. d \in Days(asked)
        BY <2>2
      <3>2. /\ d \in DOMAIN some <=> d \in DOMAIN all
            /\ d \in DOMAIN some => some[d] = all[d] /\ some[d] \in Int
        BY <3>1, AskingForLess
      <3>3. d \in Disagreed(booked, some, asked, compared)
            <=> (d \in DOMAIN booked \/ d \in DOMAIN some) /\ BookedOn(booked, d) # BookedOn(some, d)
        BY <1>1, <2>2, <3>1 DEF Disagreed
      <3>4. d \in Disagreeing(booked, all, compared)
            <=> /\ d \in DOMAIN booked \/ d \in DOMAIN all
                /\ ~(d \in DOMAIN booked /\ d \in DOMAIN all /\ booked[d] = all[d])
        BY <2>2 DEF Disagreeing
      <3>5. d \in DOMAIN booked => booked[d] # None
        BY NoneAssumption DEF InHours
      <3>6. d \in DOMAIN some => some[d] # None
        BY <3>2, NoneAssumption
      <3>7. QED
        BY <3>2, <3>3, <3>4, <3>5, <3>6, Zenon DEF BookedOn
    <2>3. QED
      BY <2>1, <2>2
  <1>3. QED
    BY <1>2

\* A comparison says of a period what it should, where the feed answered, and
\* otherwise that nothing was compared.
LEMMA ComparisonAccounts ==
  ASSUME NEW last \in Nat, IsInvoiced(issued, last), NEW period, IsPeriod(period),
         IsPeriod(FeedWindow(today)), contract.hours \in Int,
         InHours(timeOff)
  PROVE  AccountedFor(period)
  <1> SUFFICES ASSUME NEW feed \in Feeds
      PROVE  LET said == Comparison(contract, timeOff, issued, today, feed, period)
                 Said(stretches) == UNION {Days(stretches[i]) : i \in DOMAIN stretches}
                 invoiced == Days(period) \cap UNION {Days(i) : i \in issued}
                 published == Days(FeedWindow(today))
                 theirs == IF feed = None THEN NoTimeOff ELSE ExternalTimeOff(feed, contract.hours, period)
                 answered == feed # None \/ (Days(period) \ invoiced) \cap published = {}
             IN  IF answered
                 THEN /\ Said(said.settled) = invoiced
                      /\ Said(said.compared) = (Days(period) \ invoiced) \cap published
                      /\ Said(said.uncompared) = Days(period) \ (invoiced \cup published)
                      /\ \A stretches \in {said.settled, said.compared, said.uncompared} :
                           OneAfterAnother(stretches)
                      /\ said.in_sync <=> Said(said.compared) # {} /\ said.differing = {}
                      /\ said.differing =
                           {d \in (DOMAIN timeOff \cup DOMAIN theirs) \cap Said(said.compared) :
                              ~(/\ d \in DOMAIN timeOff \cap DOMAIN theirs
                                /\ timeOff[d] = theirs[d])}
                 ELSE Said(said.compared) = {} /\ ~said.in_sync
    BY DEF AccountedFor
  <1> DEFINE said == Comparison(contract, timeOff, issued, today, feed, period)
             invoiced == Days(period) \cap AllDays(issued)
             published == Days(FeedWindow(today))
             theirs == IF feed = None THEN NoTimeOff ELSE ExternalTimeOff(feed, contract.hours, period)
             answered == feed # None \/ (Days(period) \ invoiced) \cap published = {}
             settled == SettledStretches(issued, period)
             open == OpenStretches(period, settled)
             compared == ComparedStretches(open, FeedWindow(today))
             uncompared == UncomparedStretches(open, FeedWindow(today))
             asked == Across(compared)
             external == ExternalTimeOff(feed, contract.hours, asked)
             differing == Disagreed(timeOff, external, asked, compared)
  <1>1. said = IF compared = <<>>
               THEN [compared |-> <<>>, uncompared |-> uncompared, settled |-> settled,
                     differing |-> {}, in_sync |-> FALSE]
               ELSE IF feed = None
               THEN [compared |-> <<>>, uncompared |-> <<>>, settled |-> <<>>,
                     differing |-> {}, in_sync |-> FALSE]
               ELSE [compared |-> compared, uncompared |-> uncompared, settled |-> settled,
                     differing |-> differing, in_sync |-> differing = {}]
    BY DEF Comparison, Across, Disagreed, BookedOn
  <1>2. IsDividedUp(settled, compared, uncompared, issued, FeedWindow(today), period)
    BY PeriodIsDividedUp
  <1> HIDE DEF said, settled, open, compared, uncompared, asked, external, differing, published
  <1>3. /\ IsRun(settled) /\ IsRun(compared) /\ IsRun(uncompared)
        /\ IsBetween(compared, period.start, period.end)
        /\ DaysOf(settled) = invoiced
        /\ DaysOf(compared) = (Days(period) \ invoiced) \cap published
        /\ DaysOf(uncompared) = Days(period) \ (invoiced \cup published)
    BY <1>2 DEF IsDividedUp, published
  <1>4. /\ compared = <<>> <=> DaysOf(compared) = {}
        /\ compared # <<>> => DaysOf(compared) \subseteq Days(asked) /\ Days(asked) \subseteq Days(period)
    BY <1>3, AcrossARun DEF asked
  <1>5. \A run : IsRun(run) => OneAfterAnother(run)
    BY DEF IsRun, InOrder, OneAfterAnother
  <1> DEFINE nothing == <<>>
  <1>6. DaysOf(nothing) = {} /\ OneAfterAnother(nothing)
    BY DEF DaysOf, OneAfterAnother
  <1> HIDE DEF nothing, invoiced
  <1>7. CASE compared = <<>>
    <2>1. /\ said.compared = nothing /\ said.uncompared = uncompared /\ said.settled = settled
          /\ said.differing = {} /\ said.in_sync = FALSE
      BY <1>1, <1>7 DEF nothing
    <2>2. DaysOf(compared) = {} /\ answered
      BY <1>3, <1>4, <1>7
    <2>3. /\ DaysOf(said.settled) = invoiced
          /\ DaysOf(said.compared) = (Days(period) \ invoiced) \cap published
          /\ DaysOf(said.uncompared) = Days(period) \ (invoiced \cup published)
      BY <1>3, <1>6, <2>1, <2>2
    <2>4. \A stretches \in {said.settled, said.compared, said.uncompared} : OneAfterAnother(stretches)
      BY <1>3, <1>5, <1>6, <2>1
    <2>5. said.differing = Disagreeing(timeOff, theirs, said.compared)
      BY <1>6, <2>1 DEF Disagreeing
    <2>6. QED
      BY <2>1, <2>2, <2>3, <2>4, <2>5, <1>6 DEF Disagreeing, DaysOf, invoiced, said, published, AllDays
  <1>8. CASE compared # <<>> /\ feed = None
    <2>1. said.compared = nothing /\ said.in_sync = FALSE
      BY <1>1, <1>8 DEF nothing
    <2>2. ~answered
      BY <1>3, <1>4, <1>8
    <2>3. QED
      BY <1>6, <2>1, <2>2 DEF DaysOf, invoiced, said, published, AllDays
  <1>9. CASE compared # <<>> /\ feed # None
    <2>1. /\ said.compared = compared /\ said.uncompared = uncompared /\ said.settled = settled
          /\ said.differing = differing /\ said.in_sync = (differing = {})
      BY <1>1, <1>9
    <2>2. differing = Disagreeing(timeOff, theirs, compared)
      <3>1. theirs = ExternalTimeOff(feed, contract.hours, period)
        BY <1>9
      <3>2. external = ExternalTimeOff(feed, contract.hours, asked)
        BY DEF external
      <3>3. PICK all : all = theirs
        OBVIOUS
      <3> HIDE DEF theirs
      <3>4. Disagreed(timeOff, external, asked, compared) = Disagreeing(timeOff, all, compared)
        <4>1. /\ all = ExternalTimeOff(feed, contract.hours, period)
              /\ DaysOf(compared) \subseteq Days(asked) /\ Days(asked) \subseteq Days(period)
          BY <1>4, <1>9, <3>1, <3>3
        <4>2. QED
          BY <3>2, <4>1, DifferingDates
      <3>5. QED
        BY <3>3, <3>4 DEF differing
    <2>3. DaysOf(compared) # {} /\ answered
      BY <1>4, <1>9
    <2>4. \A stretches \in {said.settled, said.compared, said.uncompared} : OneAfterAnother(stretches)
      BY <1>3, <1>5, <2>1
    <2>5. /\ DaysOf(said.settled) = invoiced
          /\ DaysOf(said.compared) = (Days(period) \ invoiced) \cap published
          /\ DaysOf(said.uncompared) = Days(period) \ (invoiced \cup published)
      BY <1>3, <2>1
    <2>6. said.differing = Disagreeing(timeOff, theirs, said.compared)
      BY <2>1, <2>2
    <2>7. said.in_sync <=> DaysOf(said.compared) # {} /\ said.differing = {}
      BY <2>1, <2>3
    <2>8. QED
      BY <2>3, <2>4, <2>5, <2>6, <2>7 DEF Disagreeing, DaysOf, invoiced, said, published, AllDays
  <1>10. QED
    BY <1>7, <1>8, <1>9

BilledOneMore ==
  \/ issued' = issued \/ issued' = {}
  \/ \E month \in InvoiceMonths : issued' = issued \cup {InMonth(contract, month)}

\* A step bills one period more at most.
LEMMA BilledStep == ASSUME [Next]_vars PROVE BilledOneMore
  <1>1. ASSUME NEW form \in Forms, CreateContract(form) \/ EditContract(form) PROVE BilledOneMore
    BY <1>1 DEF BilledOneMore, CreateContract, EditContract
  <1>2. ASSUME NEW date \in Toggles, NEW portion \in {None, "half", "full"}, ToggleDay(date, portion)
        PROVE  BilledOneMore
    BY <1>2 DEF BilledOneMore, ToggleDay
  <1>3. ASSUME NEW mode \in Modes, NEW service \in Services,
               BulkBook(mode, service) \/ ClearTimeOff(mode, service)
        PROVE  BilledOneMore
    BY <1>3 DEF BilledOneMore, BulkBook, ClearTimeOff
  <1>4. ASSUME NEW file \in Files, ImportCalendar(file) PROVE BilledOneMore
    BY <1>4 DEF BilledOneMore, ImportCalendar
  <1>5. ASSUME NEW service \in Services, OpenCalendar(service) PROVE BilledOneMore
    BY <1>5 DEF BilledOneMore, OpenCalendar
  <1>6. ASSUME NEW month \in InvoiceMonths, IssueInvoice(month) PROVE BilledOneMore
    BY <1>6 DEF BilledOneMore, IssueInvoice
  <1>7. ASSUME NEW account \in UserIds, Login(account) PROVE BilledOneMore
    BY <1>7 DEF BilledOneMore, Login, TransferGuest
  <1>8. ASSUME NEW u \in sweep, SweepDeletes(u) PROVE BilledOneMore
    BY <1>8 DEF BilledOneMore, SweepDeletes, Discard
  <1>9. ASSUME DeleteContract PROVE BilledOneMore
    BY <1>9 DEF BilledOneMore, DeleteContract, Discard
  <1>10. CASE \/ CreateGuestDies \/ SaveAccount \/ SaveAccountDies \/ Logout
              \/ SweepReads \/ NextDay \/ UNCHANGED vars
    BY <1>10 DEF BilledOneMore, CreateGuestDies, SaveAccount, SaveAccountDies, Logout, SweepReads, NextDay, vars
  <1>11. QED
    BY <1>1, <1>2, <1>3, <1>4, <1>5, <1>6, <1>7, <1>8, <1>9, <1>10 DEF Next

\* Only so many periods are ever billed as invoices were issued.
LEMMA BilledAreFew == Spec => []IsFiniteSet(issued)
  <1>1. Init => IsFiniteSet(issued)
    BY FS_EmptySet DEF Init
  <1>2. IsFiniteSet(issued) /\ [Next]_vars => IsFiniteSet(issued)'
    <2> SUFFICES ASSUME IsFiniteSet(issued), [Next]_vars PROVE IsFiniteSet(issued')
      OBVIOUS
    <2>1. \A month : IsFiniteSet(issued \cup {InMonth(contract, month)})
      BY FS_AddElement
    <2>2. QED
      BY <2>1, BilledStep, FS_EmptySet DEF BilledOneMore
  <1>3. QED
    BY <1>1, <1>2, PTL DEF Spec

\* The feed publishes a stretch of days.
LEMMA WindowIsAPeriod ==
  ASSUME today \in Today
  PROVE  IsPeriod(FeedWindow(today))
  <1> DEFINE m == MonthOf(today)
             first == m - 2
             final == December(YearOf(m))
  <1>1. m \in Months /\ first \in Months
    BY FeedAssumption, DaysAreNumbers, DateIsInItsMonth
  <1>2. FeedWindow(today).start = StartOf(first) /\ FeedWindow(today).end = EndOf(final)
    BY DEF FeedWindow
  <1> HIDE DEF m
  <1>3. YearOf(m) \in Years /\ MonthInYear(m) \in 1..12 /\ m = 12 * YearOf(m) + MonthInYear(m) - 1
    BY <1>1, MonthIsOfAYear
  <1>4. final \in Months /\ first < final
    BY <1>1, <1>3, CalendarAssumption DEF Months, Years, December
  <1> HIDE DEF first, final
  <1>5. EndOf(first) < StartOf(final)
    BY <1>1, <1>4, MonthsInOrder
  <1>6. /\ StartOf(first) \in Nat /\ EndOf(first) \in Nat /\ StartOf(first) <= EndOf(first)
        /\ StartOf(final) \in Nat /\ EndOf(final) \in Nat /\ StartOf(final) <= EndOf(final)
    BY <1>1, <1>4, StartType
  <1>7. QED
    BY <1>2, <1>5, <1>6 DEF IsPeriod

\* Whatever is invoiced, published and booked, each day of a contract or of a
\* month of it is said to be settled, compared or neither, and the dates said
\* to differ are those the two calendars disagree on.
THEOREM PeriodsAreAccountedFor == Spec => []PeriodIsAccountedFor
  <1>1. ASSUME WorkspaceInv, IsFiniteSet(issued) PROVE PeriodIsAccountedFor
    <2> SUFFICES ASSUME contract # None
                 PROVE  /\ AccountedFor(Term(contract))
                        /\ \A m \in ContractMonths(contract) : AccountedFor(InMonth(contract, m))
      BY DEF PeriodIsAccountedFor
    <2> DEFINE last == EndOf(December(LastYear))
    <2>1. contract.start \in Dates /\ contract.end \in Dates /\ contract.start <= contract.end
          /\ contract.hours \in Nat /\ today \in Today
      <3>1. contract \in Contracts /\ contract.start < contract.end /\ today \in Today
        BY <1>1 DEF WorkspaceInv, ContractInv, PeopleInv
      <3>2. \A row \in Contracts : row.start \in Dates /\ row.end \in Dates /\ row.hours \in 1..HoursInADay
        BY DEF Contracts
      <3>3. contract.start \in Nat /\ contract.end \in Nat
        BY <3>1, <3>2, DaysAreNumbers
      <3>4. contract.hours \in Nat
        BY <3>1, <3>2 DEF HoursInADay
      <3>5. QED
        BY <3>1, <3>2, <3>3, <3>4
    <2>2. last \in Nat
      <3>1. December(LastYear) \in Months
        BY CalendarAssumption DEF December, Months
      <3>2. QED
        BY <3>1, StartType
    <2>3. IsInvoiced(issued, last)
      <3>1. \A i \in issued : i.start \in 0..last /\ i.end \in 0..last /\ i.start <= i.end
        BY <1>1 DEF WorkspaceInv, IssuedInv, IsBilled, Dates
      <3> HIDE DEF last
      <3>2. QED
        BY <1>1, <2>2, <3>1 DEF IsInvoiced
    <2>4. InHours(timeOff)
      BY <1>1 DEF WorkspaceInv, BookedInv, IsBooking, InHours
    <2>5. IsPeriod(FeedWindow(today))
      BY <2>1, WindowIsAPeriod
    <2> HIDE DEF last
    <2>6. ASSUME NEW period, IsPeriod(period) PROVE AccountedFor(period)
      <3>1. contract.hours \in Int
        BY <2>1
      <3>2. QED
        BY <2>2, <2>3, <2>4, <2>5, <2>6, <3>1, ComparisonAccounts
    <2>7. IsPeriod(Term(contract))
      <3>1. contract.start \in Nat /\ contract.end \in Nat
        BY <2>1, DaysAreNumbers
      <3>2. Term(contract).start = contract.start /\ Term(contract).end = contract.end
        BY DEF Term
      <3>3. QED
        BY <2>1, <3>1, <3>2 DEF IsPeriod
    <2>8. ASSUME NEW m \in ContractMonths(contract) PROVE IsPeriod(InMonth(contract, m))
      <3>1. m \in MonthOf(contract.start)..MonthOf(contract.end)
        BY DEF ContractMonths
      <3>2. /\ Later(contract.start, StartOf(m)) \in Nat /\ Earlier(contract.end, EndOf(m)) \in Nat
            /\ Later(contract.start, StartOf(m)) <= Earlier(contract.end, EndOf(m))
        BY <2>1, <3>1, MonthsTile
      <3>3. /\ InMonth(contract, m).start = Later(contract.start, StartOf(m))
            /\ InMonth(contract, m).end = Earlier(contract.end, EndOf(m))
        BY DEF InMonth, Clamp, Term
      <3>4. QED
        BY <3>2, <3>3 DEF IsPeriod
    <2>9. QED
      BY <2>6, <2>7, <2>8
  <1>2. QED
    BY <1>1, WorkspaceHolds, BilledAreFew, PTL
=============================================================================
