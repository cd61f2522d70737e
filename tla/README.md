# A verification of workanother.day

workanother.day is a Django application for one-person businesses in Poland.
Its owner keeps a calendar of working days, issues invoices and submits them to
KSeF (the national invoice system), keeps the register of revenue, files it as
an annual JPK_EWP with the Ministry's document gateway, and is told what is due
when. These TLA+ modules model first the parts of it whose mistakes cannot be
taken back (a second invoice in KSeF is a second legally binding document, and a
file the tax office holds stays there whatever the database says), then the
figures and dates its pages state, which nobody checks again before paying them,
and the calendar and the accounts that everything else hangs from.

Source paths are relative to the repository; line numbers are in
`PROJECT.json` under `map`, for every definition that models code.

## 1. The system

| component | state | operations | hard behaviour |
|---|---|---|---|
| Invoice lifecycle and KSeF (`ksef/sending.py`, `ksef/submission.py`, views `invoice_save`, `invoice_send`, `invoice_rehearse`, `invoice_status`, `invoice_delete`, `invoice_mark_issued`) | `Invoice` row: state, frozen `xml`, session and invoice references, resume state, KSeF number | create, edit, rehearse, freeze, claim, open a session, submit, record, poll, settle, delete, issue by hand | lost answers, process death between statements, two requests working from copies of one row, duplicate verdicts |
| Annual files and the gateway (`jpk_gateway/`, views `filing_*`) | `Filing` rows of a year: state, purpose, reference, sent and filing date, receipt | produce, send in three calls, poll, record by hand, clear, discard | as above; and a verdict about one attempt arriving in another |
| Corrections (views `invoice_correct`) | `corrects` links, differences | correct an issued document or its last correction | chains, two requests correcting one document |
| Revenue, payments, currency sales (`invoicing.py`, models) | NBP rate, `revenue_pln`, payment and its rate, sales of the currency | state, restate, pay, sell, fill gaps | NBP outage, rounding, a correction after a payment or a sale |
| Register of revenue (`ewidencja.py`) | none; read from invoices, payments and sales | entries of a year, months, totals | which month an entry is in |
| Obligations (`obligations.py`), contributions (`contributions.py`), views `payments_*`, `contribution_holiday_*`, `declaration_*`, `health_settlement_*`, `tax_return_record`, `*_bases_*` | what was paid, granted, declared and returned; the announced wages and bases; the seller's elections | what is due in a month, bands and bases, the annual settlement, and recording what was done | rows recorded late, out of order, and under figures, elections and a register that change; bands crossed and crossed back; deadlines on another year's page |
| Declarations (`dra.py`) | none | whether a month can be filed, its sums | offered and not recordable |
| Calendar (`services.py`, `calendar_utils.py`, views of a contract) | contracts, days off, cached holidays | book, clear, edit, count | a term and hours edited under what is booked; holidays that cannot be refreshed |
| iCalendar (`ical.py`) | none | export, import, feed, compare | a feed that covers less than it is asked about |
| Mail (`mail.py`, view `invoice_deliver`) | `InvoiceDelivery` rows | deliver, record | an SMTP conversation that fails half way |
| Accounts, guests, throttle (`middleware.py`, `cleanup_guests`, `throttle.py`) | users, tokens, guest marks; counters in the cache | sign in, save, sweep; count, refuse | a sweep that deletes what has changed since it was read |
| MCP endpoint (`mcp/`) | none of its own | JSON-RPC calls over the same models | |
| Documents (`jpk.py`, `ksef/fa3.py`, `payload.py`, `metadata.py`) | none | rendering, packaging | |
| NBP client, schema validation, forms, templates, deployment | none or static | | |

**How they interact.** Everything is one process and one SQLite database.
Views load a row, call into `ksef/`, `jpk_gateway/`, `invoicing.py` or
`mail.py` with that object, and those update the row by primary key and refresh
the object. Statements commit one by one: the send paths are
`non_atomic_requests` by construction and claim rows by compare-and-swap
(`filter(state=...).update(...)`). KSeF, the gateway, NBP and SMTP are reached
by blocking calls between statements. Nothing runs in the background: what is
in flight is settled because a page polls.

**Deployment.** `src/run.sh` starts one gunicorn worker of the synchronous kind
(line 20), on one machine (`src/fly.toml`), so as deployed requests are served
one at a time, and one may be killed part way (timeout, redeploy, power). The
code does not rely on that: docstrings in `models.py`, `ksef/submission.py` and
`jpk_gateway/submission.py` state what must hold under concurrent requests. So
the runs ask both: *one worker, with crashes*, and *overlapping requests*.

## 2. Modules

| module | what it is |
|---|---|
| `InvoiceSending` | one invoice, its requests and KSeF; the properties and the inductive invariant |
| `InvoiceIssuance` | the promise in three states: open, in flight, issued |
| `InvoiceSendingProofs` | proofs: types, and that an invoice is issued once |
| `InvoiceIssuanceProofs` | extends it: verdicts, bytes, what no step does, and the refinement of `InvoiceIssuance` |
| `MCInvoiceSending` | sets of requests for the runs |
| `FilingGateway` | a year's files, their requests and the gateway |
| `AnnualFiling` | the promise: what the taxpayer knows of each file, and what the tax office has of it |
| `FilingGatewayProofs` | proofs about `FilingGateway`: references, one submission of each file, and the refinement of `AnnualFiling` |
| `MCFilingGateway` | sets of requests for the runs |
| `InvoiceLedger` | the documents of a series, their corrections, PLN figures, payments and currency sales |
| `InvoiceLedgerProofs` | proofs about `InvoiceLedger` |
| `MCInvoiceLedger` | sets of requests and the years' rates for the runs |
| `Contributions` | regimes and social contributions, as functions |
| `Obligations` | extends it: the register, the ryczalt, the health bands, the months, settlement, return and dates of a year, as functions of the rows |
| `TaxYear` | extends it: the requests that change those rows, and the properties |
| `TaxYearProofs` | proofs about `TaxYear` and the functions under it |
| `MCTaxYear` | the seller, the registers and the days for the run |
| `WorkingDays` | dates and months, what a calendar adds up to, iCalendar files, the comparison with an external calendar, as functions |
| `Workspace` | extends it: guests, accounts, the sweep, a contract and what is booked on it, the holiday cache, and the properties |
| `WorkingDaysProofs` | lemmas about `WorkingDays`: the calendar, exports, shares, counts, stretches |
| `WorkspaceProofs` | extends it: proofs about `Workspace` |
| `MCWorkspace` | the forms, presses, files, feeds and answers for the run |
| `LeastNumbers` | lemmas the proofs share: least counterexamples, sums over finite sets, lists built step by step |

### InvoiceSending

`row` is the committed `Invoice` row; `mem[w]` is request `w`'s own object,
loaded once and refreshed after each update; `pc[w]` says which statement or
call comes next; `session[w]` is the session the request has opened and `ksef`
what KSeF holds of each session. `seller` stands for the seller's NIP and
token still being the invoice's. `rehearsed` is the last document a sandbox
accepted, which the code keeps nowhere and which is here to state a property.

Steps and code: `LoadToCreate`, `Create`, `LoadToRewrite`, `Rewrite`,
`Resubmit`, `SavedUnchanged` and `ReplaceLines` are `_store_invoice`, whose
header and lines are written by separate statements, followed by the answer or
by the send or rehearsal the form's button asks for; `Render` and `Freeze` are `freeze()`;
`ClaimForSending`/`ClaimLost` the compare-and-swap; `OpenSession`,
`RecordSession`, `SendInvoice`, `RecordReference`, `RecordFailure` the body of
`send()` with its `except KSeFException`; `OpenRefused` and `NothingToSend` are
the exceptions that clause does not catch; `Ask`/`Settle` are `resolve()`;
`Delete`, `MarkIssued`, `EditSeller` the owner's other requests; `Vanished` is
a `refresh_from_db` that finds no row; `Crash` is the process dying.

What is abstracted: the details of an invoice are a member of `Payloads`, kept
as header and lines because an edit writes the two apart; a rendering is those
details and a timestamp, so two renderings of the same details differ; one
invoice goes into one session, so a session names both references and the
resume state; a number KSeF gives is named by the session accepted first with
those bytes. The check that a stored invoice is dated today, the wording of
errors and the PDF are left out: a refused request changes nothing.

KSeF is external. It decides `accepted` or `rejected`, and `duplicate` for
bytes it accepted before, which is what `DUPLICATE_CODE` is handled for.

### FilingGateway

`filings` are the rows of one year by file; a file's bytes never change, so the
file stands for them. `gateway` holds the sessions. The gateway takes three
calls (`OpenSession`, `Upload`, `FinishUpload`), each of which may take effect
and have its answer lost; an unfinished session is abandoned and then reported
as refused. `RecordReference`, `ReleaseClaim`, `RecordUnresolvedFailure`,
`Settle` are the functions of `jpk_gateway/submission.py` of those names;
`Produce`/`Store` are `filing_create`, with the purpose decided when the file
is rendered; `Record`, `Unrecord`, `Delete` are `filing_record` with and without
a date and `filing_delete`. `NextDay` lets the day of a claim, of the verdict and
of the question differ, which is what the filing date depends on.

`AnnualFiling` says what all of that is for, without sessions, claims, copies or
requests: a file is drawn up, leaves the taxpayer's hands, comes back or is filed
as of the day it left; the tax office is handed it at most once and only while it
is out; what the tax office has, or may come to have, is not sent again, taken
back or thrown away. A row that is `sending` is in flight, a produced or rejected
one a draft again (`PromisedFile`); what the gateway is processing or has
accepted is what the tax office has (`OfficeHas`).

### InvoiceLedger

`docs` are the `Invoice` rows by number (`next_number` makes that a key: a month's
invoices and corrections share one series), `paid` their payment columns,
`sales` the `CurrencySale` rows; `today` is the year. `corrects` links a
correction to the document it corrects, and `OriginalOf`,
`TotalAfterCorrections`, `Difference`, `CurrencyUnsold` are the properties of
the model of those names, recursive functions down or up the chain.

`StoreInvoice`/`RecordRevenue` are `_store_invoice`, whose conversion is a
statement of its own after the lines; `LoadToCorrect`/`StoreCorrection` are
`invoice_correct` and `correction_edit`, one transaction after a check outside
it; `Issue`, `RestatePayment`, `RecordPayment` are acceptance (or issuing by
hand) and the payment taken again after it; `Pay` is `invoice_payment`;
`LoadToSell`/`AddSale` are `currency_sale_add`; `OpenInvoice` is the conversion
`invoice_detail` makes when it is missing, and `OpenRegister` is `fill_gaps`
over `incomplete`, stopping where it stops. `incomplete` sorts by the end of the
period billed and then by the number, which is a text: the sequence in it is not
padded, so `-KOR-10` is before the `-KOR-2` it may correct, and an invoice's is
typed. `TextPlace`, a constant, says where each number comes; it may be any order.
Every conversion
in a currency (`Conversions`) either answers or does not, and does not for a
date still to come; a correction's (`CorrectionConversion`) asks nobody.

What is abstracted: a document's lines are their total; amounts are whole minor
units and `RoundHalfUp` is decimal's; a date is its year, and a year has one
rate; the seller is in Poland and on ryczalt, so every document converts; the
day and the rate of a sale, and the `Max*` limits of the form, are left out.
Sending a document is one step here, and an edit's check and write are one,
because their races are `InvoiceSending`'s. A conversion reads the row and
writes the figure in one step. That is why what is said of figures is checked
with one request at a time, and only the sales, whose transaction is modelled
step by step, with two.

### Contributions, Obligations and TaxYear

The first two change no row: they are what the pages compute. `Regime` is
`contribution_regime` with its relief of six months or seven, `Social` what a
month is charged, `AnnouncedBases` and `Announced` what the bases page and the
seller's page say of it. `Register` is what `ewidencja.py` lists of a year,
`MonthsUntil` is the loop of `obligations.schedule`, which carries revenue,
deductions and the health band from month to month (`MonthAfter`), `AnnualTax`
what the return comes to, `HealthProvision` the settlement, `NextDue`,
`HolidayApplication`, `Deadlines` and `YearDates` what the pages and the feed
offer, `IsFilable`, `Document` and `HasGuide` what of `dra.py` decides whether
a month's declaration exists and what it sums.

`TaxYear` holds one action per request of the Taxes pages. Each of those reads
the year in a transaction that takes the write lock first
(`transaction.atomic` over `BEGIN IMMEDIATE`), so a request is one step.
Underneath them the seller is edited, the register moves, the announced wages
and bases are entered, replaced and removed, and the days pass.

What is abstracted: months have 31 days, amounts are grosze, a rounding is half
up, a rate is in hundredths of a percent (the column's four digits), an invoice
is its date, figure, rate and what its payment and sales differed by
(`InvoiceLedger` models where those come from). `IsOutstanding` and `Alarms`
keep of a date whether it rings. The wording of the glossary and the wizard,
and the layout of the KEDU file, are left out.

### WorkingDays and Workspace

`WorkingDays` counts: `YearStats`, `MonthlySummary` and `WorkedDays` are
`calendar_utils.py`'s, `ProratedMaxWorkingDays` its cap, in exact parts of a
month; `Export` and `Imported` are the two directions of a file of days off;
`SettledStretches`, `OpenStretches`, `FeedWindow` and `Comparison` are the
view's comparison of a period with an external calendar, and
`ExternalTimeOff` what `ical.py` reads of one.

`Workspace` is the only contract of a browser. `users` holds for each user its
guest's mark and its token, `session` who the browser is, `contract`, `timeOff`
and `issued` the contract with its days off and issued periods, `holidays` the
cached years, `sweep` the guests that `cleanup_guests` has read and not deleted.
A request is one step; `CreateGuestDies` and `SaveAccountDies` are the process
dying between its statements. `SweepReads` and `SweepDeletes` are steps of their
own, because the command is another process: requests come between its read and
each deletion. A deletion is refused (`DeletionRefused`) where an invoice was
issued or the contract names a seller or a buyer, and may be where its user has
an account, for a draft refuses it too and which drafts there are is not kept
(`MayHaveDrafts`); for the same reason `DeleteContract` may be done or not. A page that shows holidays refreshes them (`ContractHolidays`)
from a service that answers, cannot be reached, or cannot be read for each
country and year.

What is abstracted: a file or a feed is its events with their dates and hours;
several contracts, the tokens of a feed, drafts of a contract form, staff, the
fetching of a calendar and the templates of messages are left out. A second
contract shares nothing with the first but its owner.

## 3. Runs

| run | instance | asks |
|---|---|---|
| `InvoiceOneWorker` | 1 request at a time, every operation, crashes; 2 payloads, 2 rows, 3 renderings, 3 sessions | is an invoice issued once, closed while KSeF may hold it, settled on its bytes, never changed once issued, submitted as rehearsed, and does it all implement `InvoiceIssuance`? |
| `InvoiceOverlapping` | 2 overlapping requests of every kind, the seller's edits among them; 2 sessions; fair | is an acceptance on the row always KSeF's, and does polling bring the verdict in? |
| `InvoiceStaleSession` | 1 request at a time | *violated*: a failed send that never reached KSeF goes back to draft |
| `InvoiceSecondSubmission` | 2 overlapping edits and sends | *violated*: issued once |
| `FilingOneWorker` | 1 request at a time, crashes; 2 files, 3 sessions, 2 days | is a file submitted once, held while it is, with its own receipt, and does it all implement `AnnualFiling`, its dates and its corrections of what was filed among the rest? |
| `FilingOverlapping` | 2 overlapping requests of every kind; 1 file, 2 sessions; fair | is a receipt always an accepted submission's, and does polling bring the answer in? |
| `FilingStaleVerdict` | 2 overlapping requests; 1 file, 2 sessions | *violated*: a refused file is not with the tax office |
| `LedgerOneWorker` | 1 request at a time, every operation, NBP failing anywhere; 3 documents, 2 currencies, 3 totals, 2 years, 1 sale; fair | do corrections form a chain that adds up, do payments follow it, do sales keep their inflow, do booked figures stay and missing ones arrive, but where a pass is stopped for good? |
| `LedgerOverlapping` | 2 overlapping requests that sell, pay, correct and issue; crashes; 2 documents, 2 sales | is a sale never of more than is left? |
| `LedgerRateLost` | 1 request at a time | *violated*: what has been sold keeps the rate it is measured from |
| `TaxYear` | every request of the Taxes pages on one year, 2 sets of elections, 2 registers, 3 days; at most 2 rows with a figure and 1 mark at a time | is anything recorded or deducted twice, do bands and bases agree with what is announced, can what is offered be done, does what is left to do ring? |
| `Workspace` | a guest, an account and a deactivated one, a contract of three forms across two years, 2 months to invoice, 3 files, 2 answers of the holiday service, 2 days | does anything booked survive its edits and an export, do the counts and the comparison account for every day once, is a stale holiday said to be stale, is a contract lost or handed over only as meant? |

**Why the bounds are enough.** Double submission needs two sessions, and the
longest path to one the code could take is *refused, edited, sent, lost, sent
again*: three sessions and three renderings. Two payloads tell an edited
document from the one before it, two rows a re-created invoice from the
deleted one. Two files tell a first submission from a correction, two days a
date taken at the wrong moment. Interference is always between two requests
over one row; a third adds no new pair. Three documents are a correction of a
correction, the shortest chain on which a difference from the last document and
one from the first come apart, and on which a missing figure depends on one of
another year. Rates of 3/2 and 5/2 with totals of 3 and 5 make every
conversion round; two years make a date in the future, a payment at another
rate, and a correction dated away from its invoice. `EighthToTenth` is how the eighth,
ninth and tenth documents of a month sort, the correction of the correction
before the correction: three in a chain is the least at which a text's order and
that of the chain come apart, the rest of the month being of other contracts.

In `TaxYear` the business opens in mid June on the relief, which then ends in
mid winter and takes the preferential base with it, and is edited to a full one
that opens in December; one register crosses the first threshold and is taken
back under it in December by a loss, the other has too little revenue to deduct
from, two rates, and an invoice with no figure. Requests are about October,
December, February and March, made in November, on the last day of the year and
in May, so a month is recorded before, in and after its own year; the minimum
wage rises in July past the full base, and the 20th of January is no working
day. Two rows with figures are the least with which one can be recorded before
the other and out of order.

In `Workspace` two forms differ in both ends, the hours, the countries and
the cap (a multiple of twelve and not), and a third names a buyer only. The shorter starts within a month and
ends within another, and neither invoiced month is the first; the feed's window
closes inside the longer term. One pressed day is outside the shorter term and
one is a Saturday, holidays fall on weekdays and a weekend; the second day comes
after the guests' thirty days and the holidays'. That a half of a one-hour day is
a row of no hours is stated by `ExportedComesBack`, but no form of the run has
one-hour days.

**Deadlock** is checked everywhere and never found: in the first three modules a bound on rows, renderings
or sessions refuses the request (`CreateRefused`, `RenderRefused`, `OpenFails`),
as the failure it stands for would; the owner of a tax year or of a workspace
can always do something.

**Fairness** (`FairSpec` of the modules that have one; nothing in `TaxYear` and
`Workspace` happens but when somebody asks). A request that has begun takes its
next step (weak fairness of the handler: it is synchronous code with network
timeouts). KSeF and the gateway decide what they hold. The page of an
invoice or a file in flight polls for as long as it is shown
(`invoice_detail.html`, `filing.html`), so loading it for its status, and
asking, happen infinitely often if they are possible infinitely often: strong
fairness, because other requests make them impossible in between. Nothing is
assumed of the owner: no edit, send or discard is fair. The liveness runs have
no crashes, and `InFlightIsSettled` of an invoice is about a seller that is left
alone in the end: one whose token comes and goes for ever is never asked about
at the right time.

For `InvoiceLedger` the fairness is that a request goes on once begun, and that
each year's register is opened again and again with NBP answering
(`ReadRegister`, strong because other requests come in between). That is the
docstring's own assumption: "What is left keeps its gap until the page is opened
again" (`invoicing.py:199`). Opening one year only is not enough: a correction
dated to a later year whose invoice has no figure gets none either, and stops
the pass (`reachable`) for the rest of that year, until the invoice's own year
is opened or the invoice is. And there are gaps no opening fills. Where a
correction and a document it goes back to both lack a figure and are of one
year, and the correction's number sorts first, the pass comes to the correction,
has nothing to convert it from, and stops (`invoicing.py:212`) before it reaches
the other, at every load; whatever is after it in that year, of any contract,
waits with it, until the earlier document's own page is opened. The docstring
does not speak of it. `OutOfTurn` is that state; `GapsAreFilled` says that
without it every gap is filled, so that nothing else keeps one, and without the
excuse it is violated in the same run.

**What the violations show.**

* `InvoiceStaleSession`: an invoice KSeF rejected is edited (which clears
  `session_state` but not `session_reference`, `views.py:1562`) and sent again;
  the second send fails before any session exists; `_record_failure`
  (`ksef/sending.py:91`) sees the old reference, so the invoice stays in flight
  for ever. It takes no concurrency.
* `InvoiceSecondSubmission`: an edit that loaded the invoice as rejected writes
  `state=DRAFT` by primary key, reopening an invoice that another request has
  redrafted, sent and has in flight. It takes overlapping requests.
* `FilingStaleVerdict`: a poll of a refused attempt answers late, after the file
  was sent again; the compare-and-swap is on the state and not on the
  reference, so the refusal lands on the attempt the gateway goes on to accept.
* `LedgerRateLost`: an invoice is paid and some of its currency sold; a correction
  of it is issued while NBP cannot be reached; `restate_payment` writes the
  payment over with no figure and no rate, and the sales, which
  `invoice_payment` refuses to let go of their rate, have nothing to be measured
  from. Nothing fills a payment's gap in again but submitting its date.

Other things the modules reach, and that no property denies because the code is
as it is: a send that dies between the claim and the reference leaves an
invoice or a file in flight that `resolve()` refuses, and nothing else moves
it; two overlapping sends of an unfrozen draft freeze it twice (the second
loses the claim, and the first submits its own copy of the bytes); a process
that dies between the header and the lines of an edit leaves a draft with both;
two files of a year produced before either is filed are both first
submissions; clearing the date of a filed file lets it be discarded; a hand
record that checked a file before it was sent files it in flight. In the ledger:
a process that dies between an edited draft's lines and its figure leaves the
older figure, which is issued with it; one that dies between issuing a
correction and restating the payment leaves the payment of the amount before; a
correction issued after a sale makes the unsold balance negative; two
overlapping requests can each store a correction of the same document, and an
edit of a correction loaded before it was issued reopens it.

In the tax year: the settlement charges every month at the highest band the
running total reached, where the opening of `obligations.py` (lines 11-12)
speaks of the band the year's total lands in; the two differ after a loss. It
takes off the months as they would be charged now rather than what was paid for
them, and a transfer recorded is compared with nothing afterwards. Revenue dated
before the year's first month is in the register and in no month. The funds of
the months before July are charged otherwise than the bases page states when
the year's two minimum wages are on different sides of the full base: the page
reads one of them, the month's charge its own.

In the workspace: a guest that saves its account while `cleanup_guests` is
between reading it and deleting it loses the account and its contract, unless an
invoice, drafted or issued, or a seller or a buyer that its contract names
refuses the deletion, which then ends the sweep
(`cleanup_guests.py:28`, whose help text deletes guests that have not
converted; `ContractsAreKept` admits exactly this loss and no other). A process
that dies within `save_account` leaves a token nobody was shown, and a guest who
can never ask for another. `prorated_max_working_days` says that a term broken on
month boundaries loses nothing to the floor, which holds of caps that twelve
divides; `worked_days` says that its days add up to the month's net, which holds
until hours are edited below what is booked. `CountsAgree` and `SharesKeepTheCap`
state how far each goes. A year in which a country has no holidays leaves no row,
and is asked about again at every page.

## 4. Proofs

TLC checks one instance; the theorems are for every set of workers, requests,
payloads, documents, rates, sellers, registers, terms, caps and files, and for
every bound. Each is `Spec => []Inv` or `Spec => [][A]_vars` of a property some
run checks. The last step is PTL over `Init => IInv`,
`IInv /\ [Next]_vars => IInv'` and `IInv => Inv`, with a lemma for each action or
group of actions and, under it, a step for each conjunct it can disturb.

| module | theorem | of | assuming |
|---|---|---|---|
| `InvoiceSendingProofs` | `TypeCorrect` | `TypeOK` | |
| | `IssuedAtMostOnce`, `NeverOpenWhileLive` | `IssuedOnce`, `ClosedWhileLive` | one request at a time, or none that rewrites |
| `InvoiceIssuanceProofs` | `AcceptedAlwaysIssued` | `AcceptedIsIssued` | |
| | `VerdictOnItsBytes`, `IssuedStaysAsItIs`, `SubmittedAsRehearsed` | `SettledOnItsBytes`, `IssuedIsFinal`, `RehearsedIsSubmitted` | one request at a time |
| | `SendingImplementsIssuance` | `ImplementsIssuance` | one request at a time, or none that rewrites |
| `FilingGatewayProofs` | `TypeCorrect`, `ReceiptAlwaysAccepted` | `TypeOK`, `ReceiptIsAccepted` | |
| | `FiledOnce`, `AlwaysHeldWhileLive`, `ReceiptAlwaysItsOwn`, `AlwaysCorrectsWhatWasFiled` | `SubmittedOnce`, `HeldWhileLive`, `ReceiptIsItsOwn`, `CorrectsWhatWasFiled` | `InTurn` (one request at a time, or none but producing and sending), and `NoFilingUndone` |
| | `GatewayImplementsAnnualFiling` | `ImplementsAnnualFiling` | the same |
| | `NothingIsUndone` | (`NoFilingUndone`) | `InTurn`, and no request that clears a date |
| `InvoiceLedgerProofs` | `SalesAreCovered` | `SaleIsCovered` | |
| | `RoundedToHalf` | (a lemma) | |
| | `CorrectedOnce`, `SoldOutOfAPayment`, `BookedStays` | `OneCorrection`, `SalesHaveAnInflow`, `RevenueIsFrozen` | one request at a time |
| | `WholeConversionsUntilOneIsLost`, `IssuedChainsAddUpUntilOneIsLost` | `TypeOK`, `RevenueAddsUp` | one request at a time, and `NoFigureLost` |
| | `PaymentsFollowCorrectionsUntilOneIsLost` | `PaymentIsOfWhatIsOwed` | one request at a time, and `NoPaymentLost` |
| | `WholeConversions`, `IssuedChainsAddUp`, `PaymentsFollowCorrections` | the same three | one request at a time, none of which dies |
| `TaxYearProofs` | `RowsAreOfTheirKind`, `RecordedOnce`, `PaymentsAreDeductedOnce`, `PaymentsOnlyLower`, `HighestBandReached`, `ChargesAsAnnounced`, `OffersCanBeRecorded`, `OffersCanBeDone`, `FeedRingsForAll` | `TypeOK`, `OncePerPeriod`, `DeductedOnce`, `ContributionsOnlyLower`, `BandIsTheHighestReached`, `ChargedAsAnnounced`, `OfferIsWhatCanBeRecorded`, `OfferedCanBeDone`, `RingsFromTheFeed` | |
| `WorkspaceProofs` | `RowsKeepTheirShape`, `ContractsStayWithTheirOwners`, `StaleHolidaysAreSaid`, `ExportsComeBack`, `SharesNeverExceedTheCap`, `CountsNeverDisagree`, `PeriodsAreAccountedFor` | `TypeOK`, `ContractsAreKept`, `StaleIsSaid`, `ExportedComesBack`, `SharesKeepTheCap`, `CountsAgree`, `PeriodIsAccountedFor` | |

`NoFilingUndone`, `NoFigureLost` and `NoPaymentLost` are conditions on steps, in
the proof modules: the theorem is `Spec /\ [][C]_vars => []Inv`, of every
behaviour that takes none of the steps `C` excludes. Those are the steps after
which the code can leave the property broken: a date cleared off a file that the
tax office has or that was corrected since; a death with an invoice stored over
and its revenue not recorded; a death with a correction of a paid invoice issued,
or a payment entered again under its own day, and the payment not yet recorded.
Deaths anywhere else, however many, are covered.

The last column is where the line runs between what the code guarantees and what
it leaves to the deployment's single worker: `InvoiceSecondSubmission` and
`FilingStaleVerdict` are what lies on the other side of it.

**Invoices.** `IssuedOnce` is not inductive: nothing in it says why a released
claim left nothing behind in KSeF, or why a verdict that reopens the row is about
the only live submission. `IssuingInv` adds: past the claim a request has the row
in flight to itself, and KSeF holds nothing but what it put in its own session
(`SenderInv`, `OneSender`); a request that failed with no session recorded left
nothing live; the references of a row in flight name the only session that can
be live (`ReferenceInv`); a poll asks about the references the row still has
(`AskerInv`), which with overlapping requests needs that a reference is
recorded once (`FirstReferenceInv`); and a check made before a rewrite still
stands when it is made (`RewriterInv`). `VerdictInv` is what is true of KSeF's
answers however requests overlap: a session is its request's own until
something is put in it, and a duplicate is one of a document that was accepted.
`BytesInv`, one request at a time, says that what the row shows, what is frozen
in it and what KSeF was given are one document, and that a request's copy is the
row but for the lines it has just replaced. `SendingImplementsIssuance` maps each
step to a step of `InvoiceIssuance` or a stutter, for which a row that is not
there is a draft (`AbsentIsDraft`).

**Annual files.** `ReferenceInv` holds however requests overlap: references on
rows and in requests' copies name sessions opened for that file, and a receipt
one that was accepted; it needs that the gateway only goes forward. `FilingInv`
is the argument of `IssuingInv` in the gateway's three calls: nothing a request
has not finished is with the tax office, a session finished is the one the row
names, and a copy made to ask, record or discard is the row. Clearing a date is
harmless where the row was not filed, and where it was filed only by the owner's
word; off a file that the tax office has it makes that file sendable again, and
off one corrected since it leaves the correction of nothing, which is all that
`NoFilingUndone` excludes. `GatewayImplementsAnnualFiling` maps each step to a
step of `AnnualFiling` or a stutter. It needs `ProductionInv` besides: whether a
file is a correction is decided when it is rendered and stored by a later
statement, and while one request comes after another nothing is filed, or
retracted, in between.

**The ledger.** `ShapeInv` (what rows and requests look like, under any overlap and
any crash) is enough for `SaleIsCovered`, whose transaction takes the balance it
checks. `OrderInv`, one request at a time, says what was found still stands: a
document is corrected once and after it was issued, paid once issued, its
currency sold once paid. `FigureInv` says each figure is its total's, or its
difference's at the rate of what it corrects, but for the draft whose figure is
being restated; `PaymentInv` that a payment is up to date but while a request has
yet to take it again (`OwesPayment`: between issuing a correction of a paid
invoice and recording the payment, or while recording it under the day it has).
A process that dies elsewhere leaves both standing: a new invoice whose revenue
was never recorded has no figure yet rather than an old one, and a payment not
yet recorded stands at what it was. A chain of corrections is
read by recursion along document numbers, so what is read of it is proved for
the least number for which it could fail; and a sum of sales in any order.

**The tax year.** `CurrentInv` and `RowsInv` are the types of the rows and
`PeriodInv` what the requests look for before they record. The rest is about what
is computed from any such rows:

* each regime is a stretch of months, and its three readings (its description,
  the months it holds in, the changes to register) are that stretch; a term moved
  off days off moves less than a month;
* the months of a year are a recursive function, which exists and steps from
  one month to the next for the least month at which it would not; bands are a
  running maximum, so the settlement is a sum of differences that are not negative;
* what the months deduct and carry on is the sum of what was paid, halves rounded
  month by month against once a year; a rate's share of the revenue, rounded up
  or down, against the sum of the months' shares;
* one contribution more is compared with the year without it, month by month:
  the deduction carried is larger, the ryczalt and the base of health are not.

**The workspace.** `WorkspaceInv` is the shape of users, contract, bookings, issued
periods and cache. The calendar is proved to cover every date from the first to
the last year once, leap years included, from which months and years of a
stretch add up; an export's rows are ranked by date, so that reading them back
meets each day once; the shares of a cap telescope over the months, whole and in
parts; hours off and weekdays are counted month by month and compared with the
year's. For the comparison with an external calendar the argument is about runs,
lists of stretches in date order with days between one's end and the next's
start or none (`IsRun`): sorting what was invoiced and running it together makes
a run of just the days invoiced (`SettledIsARun`), the gaps of a run are a run of
the other days (`OpenIsARun`), and so are what the feed's window keeps of them
and what it cuts away (`ComparedIsARun`, `UncomparedIsARun`). One request across all
that is compared then reads the same of each compared day as one over the whole
period would (`AskingForLess`). It rests on there being finitely many issued
periods (`BilledAreFew`), which is an invariant of its own.

**Assumptions.** Those on the constants, named beside them and evaluated by TLC on
every run: sets of requests within the known ones, bounds that are numbers, an
empty value that is none of the values (`NoneAssumption`, `MissingAssumption`,
`NoApplicationAssumption`), at least one year with a rate, no two
numbers of one text (`TextPlaceAssumption`), and the shapes of what
is entered (`SellersAssumption`, `RegistersAssumption`, `WagesAssumption`,
`FormsAssumption`, `FilesAssumption`, `ServicesAssumption`), which are the columns'
and the forms' fields. Four say more than a shape. `FeedAssumption` starts the calendar two months before
the first of the days, so that a feed's window has dates. `CalendarAssumption` keeps
the years between 1901 and 2099, where every fourth is a leap year.
`RegistersAssumption` keeps a rate under a hundred percent, as its column does.
`TermsAssumption` says that no 31 days in a row are all off, which weekends and the
dozen public holidays of a year cannot make, and that a reminder is set at most 30
days ahead, of which the choices are 0, 1, 3, 7 and 14 (`REMINDER_CHOICES`).

**Only model-checked.** The liveness properties, `GapsAreFilled` and
`InFlightIsSettled`, because fairness is out of the prover's reach. Every safety
property a passing run checks is proved. The algorithms that the code writes as
loops are recursive functions here (`NotEmpty`, `SettledStretches`, the months of
a year, chains of corrections), each proved to exist and to take its steps before
anything is proved of it; what they compute is then shown for the least step at
which it could fail.

## 5. Not modelled, and the plan

Not modelled, with the reason in `PROJECT.json`: renderers and packaging
(published layouts; their refusal is a step of the callers), delivery by mail
(one request, whose row nothing else reads but to show), the throttle's counters,
the MCP front (it reads the models through the functions modelled here),
templates, forms, migrations, backups, HTTP clients.

What is left is of the model rather than of the proofs: the mail's rows, the
throttle's counters, and amounts by line rather than by document. The theorems
that assume one request at a time assume what `run.sh` deploys; the runs of two
requests that violate a property (section 3) are the reason they do.
