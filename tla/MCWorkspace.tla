----------------------------- MODULE MCWorkspace -----------------------------
(* The forms, the presses, the calendars and the answers that the run of   *)
(* Workspace uses: the winter of 2026, which a contract runs through from  *)
(* August and, once edited, from December.                                 *)
EXTENDS Workspace

M(month, year) == 12 * year + month - 1

On(day, month, year) == StartOf(M(month, year)) + day - 1

Reachable == [reaches_ksef |-> TRUE]

Taxed == [has_tax_id |-> TRUE]

\* What a visitor fills in.
Long == [start |-> On(20, 8, 2026), end |-> On(28, 2, 2027), hours |-> 8, max |-> 216,
         home |-> "PL", client |-> "CH", seller |-> None, buyer |-> None, send_to_ksef |-> FALSE,
         rate |-> None, currency |-> None, on_ryczalt |-> FALSE]

\* The same edited inward, to a shorter day and the same country twice, and
\* sending to KSeF, which a guest cannot store.
Short == [Long EXCEPT !.start = On(7, 12, 2026), !.end = On(15, 1, 2027), !.hours = 6,
                      !.max = 220, !.client = "PL", !.seller = Reachable, !.buyer = Taxed,
                      !.send_to_ksef = TRUE, !.rate = 700, !.currency = "EUR",
                      !.on_ryczalt = TRUE]

\* Those two, the first for a buyer, and forms that are refused.
MCForms == {Long, Short, [Long EXCEPT !.buyer = Taxed],
            [Long EXCEPT !.end = On(20, 8, 2026)], [Long EXCEPT !.hours = 25],
            [Short EXCEPT !.currency = None], [Short EXCEPT !.home = "CH"]}

\* A day that only the longer term has, and a Saturday of both.
MCToggles == {On(4, 12, 2026), On(26, 12, 2026)}

Event(date, hours) == [date |-> date, hours |-> hours]

MCFiles == {<<Event(On(25, 12, 2026), 8), Event(On(26, 12, 2026), 8), Event(On(25, 12, 2026), 4),
              Event(On(1, 3, 2027), 8)>>,
            <<Event(On(2, 12, 2026), 9)>>,
            <<Event(On(5, 1, 2027), None)>>}

Holidays == [key \in {"PL", "CH"} \X Years |->
               CASE key = <<"PL", 2026>> -> <<On(25, 12, 2026), On(26, 12, 2026), On(26, 12, 2026)>>
                 [] key = <<"PL", 2027>> -> <<On(6, 1, 2027)>>
                 [] key = <<"CH", 2026>> -> <<On(25, 12, 2026)>>
                 [] OTHER -> <<>>]

\* Poland's cannot be read for one year, nor Switzerland's reached.
Failing == [Holidays EXCEPT ![<<"PL", 2027>>] = <<On(6, 1, 2027), None>>,
                            ![<<"CH", 2026>>] = None]

MCServices == {Holidays, Failing}

AllDay(start, end) == [all_day |-> TRUE, start |-> start, end |-> end, lasts |-> None]

Timed(start, lasts) == [all_day |-> FALSE, start |-> start, end |-> None, lasts |-> lasts]

MCFeeds == {None,
            <<AllDay(On(23, 12, 2026), On(28, 12, 2026)), Timed(On(25, 12, 2026), 3),
              Timed(On(2, 11, 2026), 5), AllDay(On(6, 1, 2027), None)>>}

MCToday == {On(30, 11, 2026), On(31, 12, 2026)}

MCInvoiceMonths == {M(9, 2026), M(10, 2026)}
=============================================================================
