------------------------------ MODULE Timeline ------------------------------
(***************************************************************************)
(* From the dates a user enters to the days that are shown: periods are    *)
(* stored as instants, found by instants, sent as dates of the user's time *)
(* zone, and laid out by the client in a week, in the rows of a month and  *)
(* on the page of a day.                                                   *)
(*                                                                         *)
(* A date is a number of days and day 0 a Monday; an instant is a number   *)
(* of quarters of a day, UTC.  The client's own arithmetic on dates is     *)
(* that of a browser in UTC or east of it.                                 *)
(***************************************************************************)
EXTENDS FiniteSets, FiniteSetsExt, Integers

CONSTANTS
    Zones,      \* time zones a user may have: quarters of a day ahead of UTC
    Horizon,    \* bound: the last date a period may have
    MaxPeriods, \* bound: periods at a time
    None        \* no end, or no first day

ASSUME TimelineAssumption ==
    /\ Zones \subseteq -3 .. 3
    /\ Horizon \in Nat
    /\ MaxPeriods \in Nat
    /\ None \notin Int

VARIABLES
    zone,       \* the user's timezone
    begin,      \* the day the user's time begins, if the client knows the user
    periods     \* event_periods: instants, and the dates that were entered

vars == <<zone, begin, periods>>

Dates == 0 .. Horizon

\* parseDate, and the other way about in formatPeriod.
StartOfDay(date, z) == 4 * date - z
LocalDate(instant, z) == (instant + z) \div 4

TypeOK ==
    /\ zone \in Zones
    /\ begin \in Dates \cup {None}
    /\ \A p \in periods :
        /\ p.first \in Dates /\ p.last \in Dates \cup {None}
        /\ LocalDate(p.start, zone) = p.first
        /\ p.end = None <=> p.last = None
        /\ p.end # None => LocalDate(p.end, zone) = p.last /\ p.start <= p.end

Init ==
    /\ zone \in Zones
    /\ begin \in Dates \cup {None}
    /\ periods = {}

-----------------------------------------------------------------------------

\* Fault: a date is read as one of UTC.
StoredUTC(first, last) ==
    [first |-> first, last |-> last, start |-> StartOfDay(first, 0),
     end |-> IF last = None THEN None ELSE StartOfDay(last, 0)]

Stored(first, last) ==
    [first |-> first, last |-> last, start |-> StartOfDay(first, zone),
     end |-> IF last = None THEN None ELSE StartOfDay(last, zone)]

CreatePeriod(first, last) ==
    /\ Cardinality(periods) < MaxPeriods
    /\ last # None => first <= last
    /\ periods' = periods \cup {Stored(first, last)}
    /\ UNCHANGED <<zone, begin>>

DeletePeriod(p) ==
    /\ periods' = periods \ {p}
    /\ UNCHANGED <<zone, begin>>

Next ==
    \/ \E first \in Dates, last \in Dates \cup {None} : CreatePeriod(first, last)
    \/ \E p \in periods : DeletePeriod(p)

Spec == Init /\ [][Next]_vars

-----------------------------------------------------------------------------
(* The server's answers *)

\* Fault: a period's last day is not part of it.
FindPeriodsOpenEnd(from, to) ==
    {p \in periods : p.start <= StartOfDay(to, zone)
                        /\ (p.end = None \/ p.end > StartOfDay(from, zone))}

FindPeriods(from, to) ==
    {p \in periods : p.start <= StartOfDay(to, zone)
                        /\ (p.end = None \/ p.end >= StartOfDay(from, zone))}

\* getTimeline; startDate and endDate are those of the response.
GetTimeline(from, to) ==
    {[startDate |-> LocalDate(p.start, zone),
      endDate |-> IF p.end = None THEN None ELSE LocalDate(p.end, zone)] :
        p \in FindPeriods(from, to)}

Monday(date) == date - (date % 7)
Sunday(date) == Monday(date) + 6

GetWeekTimeline(date) == GetTimeline(Monday(date), Sunday(date))

\* Fault: the day is compared with the instants themselves.
PeriodCoversInstant(p, date) ==
    4 * date >= p.start /\ (p.end = None \/ 4 * date <= p.end)

\* validatePeriodForDay compares dates of UTC.
PeriodCovers(p, date) ==
    date >= LocalDate(p.start, 0) /\ (p.end = None \/ date <= LocalDate(p.end, 0))

\* Fault: a period ends on the date its end has in UTC.
DetailDaysUTC(now) ==
    {d \in Dates : \E p \in periods :
        d >= LocalDate(p.start, zone)
            /\ d <= LocalDate(IF p.end = None THEN now ELSE p.end, 0)}

\* getGroupDetails: the days whose moods a chapter counts; an active period
\* lasts until now.
DetailDays(now) ==
    {d \in Dates : \E p \in periods :
        d >= LocalDate(p.start, zone)
            /\ d <= LocalDate(IF p.end = None THEN now ELSE p.end, zone)}

\* The analytics read the date of a day, a midnight of UTC, in the user's zone.
DateInZone(date) == LocalDate(4 * date, zone)

\* Fault: the first and the last day of a period are left out.
CategoryDaysInside(now) ==
    {d \in Dates : \E p \in periods :
        StartOfDay(DateInZone(d), zone) > p.start
            /\ StartOfDay(DateInZone(d), zone) < IF p.end = None THEN now ELSE p.end}

\* getMoodOverview: the days whose moods a category counts.
CategoryDays(now) ==
    {d \in Dates : \E p \in periods :
        DateInZone(d) >= LocalDate(p.start, zone)
            /\ DateInZone(d) <= LocalDate(IF p.end = None THEN now ELSE p.end, zone)}

-----------------------------------------------------------------------------
(* The client's views *)

GetPeriodsForDate(ps, date) ==
    {p \in ps : p.startDate <= date /\ (p.endDate = None \/ p.endDate >= date)}

BuildWeekGrid(date) ==
    [d \in Monday(date) .. Sunday(date) |-> GetPeriodsForDate(GetWeekTimeline(date), d)]

\* Fault: a Sunday is followed by another week.
LastDayAnother(to) == to + 7 - ((to + 1) % 7)

\* endSun: the range is filled up to the Sunday of its last week.
LastDay(to) == Sunday(to)

\* groupTimelineHorizontal from a Monday, or from the day given; a week is its
\* first and its last day.
Weeks(from, to, startDate) ==
    LET first == IF startDate = None THEN Monday(from) ELSE startDate IN
    IF startDate # None /\ startDate > to THEN {}
    ELSE {[first |-> d, last |-> Sunday(d)] :
            d \in {first} \cup {m \in (first + 1) .. LastDay(to) : m % 7 = 0}}

BeginsIn(from, to) == begin # None /\ begin \in from .. to

\* groupTimelineByWeeksForMonth looks at the beginning only inside its month.
MonthWeeks(from, to) == Weeks(from, to, IF BeginsIn(from, to) THEN begin ELSE None)

\* Fault: the columns are those of a whole week.
BarFromMonday(p, week, to) ==
    LET end == IF p.endDate = None THEN to ELSE p.endDate
        from == Max({p.startDate, week.first})
    IN [startCol |-> from % 7, span |-> Min({end, week.last}) - from + 1]

\* The bar of a period in a week: a column of the week, and a number of days.
Bar(p, week, to) ==
    LET end == IF p.endDate = None THEN to ELSE p.endDate
        from == Max({p.startDate, week.first})
    IN [startCol |-> from - week.first, span |-> Min({end, week.last}) - from + 1]

HasBar(p, week, to) ==
    LET end == IF p.endDate = None THEN to ELSE p.endDate
    IN p.startDate <= week.last /\ end >= week.first

BarDays(p, week, to) ==
    LET bar == Bar(p, week, to)
    IN {week.first + bar.startCol + i : i \in 0 .. bar.span - 1}

-----------------------------------------------------------------------------
(* Properties *)

\* In the view of any week each day shows the periods whose dates, as they were
\* entered, include it: neither the query by instants nor the time zone loses a
\* day at either end.
WeekShowsEntered ==
    \A date \in Dates : \A d \in DOMAIN BuildWeekGrid(date) :
        BuildWeekGrid(date)[d] =
            {[startDate |-> p.first, endDate |-> p.last] :
                p \in {q \in periods : q.first <= d /\ (q.last = None \/ d <= q.last)}}

\* Stretches of days in place of the months, which are longer.
Ranges == {r \in Dates \X Dates : r[1] < 7 /\ r[1] <= r[2]}

\* The rows of a month show every day of it that is not before the beginning,
\* each once, and no row that has none of them.
RowsCoverMonth ==
    \A r \in Ranges :
        LET from == r[1]  to == r[2]
            weeks == MonthWeeks(from, to)
            shown == (IF BeginsIn(from, to) THEN begin ELSE from) .. to
            days(w) == w.first .. w.last
        IN
        /\ shown \subseteq UNION {days(w) : w \in weeks}
        /\ \A w \in weeks : days(w) \cap shown # {} /\ Cardinality(days(w)) <= 7
        /\ \A v, w \in weeks : days(v) \cap days(w) # {} => v = w
        /\ BeginsIn(from, to) => \A w \in weeks : begin <= w.first

\* The bars of a row stay inside it and stand under the days of the month on
\* which the week's view shows the period, and under no other.
BarsMatchDays ==
    \A r \in Ranges :
        LET from == r[1]  to == r[2] IN
        \A w \in MonthWeeks(from, to), p \in GetTimeline(from, to) :
            LET days == IF HasBar(p, w, to) THEN BarDays(p, w, to) ELSE {} IN
            /\ days \subseteq w.first .. w.last
            /\ HasBar(p, w, to) => Bar(p, w, to).span > 0
            /\ \A d \in w.first .. Min({w.last, to}) :
                d \in days <=> GetPeriodsForDate({p}, d) # {}

\* The first and the last moment of each day, for an active period to last until.
Moments == {StartOfDay(d, zone) + q : d \in Dates, q \in {0, 3}}

\* The page of a chapter counts the moods of exactly the days its periods were
\* entered for, and those of an active one up to today, whatever the time zone.
DetailsCountEntered ==
    \A now \in Moments :
        DetailDays(now) =
            {d \in Dates : \E p \in periods :
                p.first <= d /\ d <= IF p.last = None THEN LocalDate(now, zone) ELSE p.last}

\* For users in UTC or east of it the analytics count the same days, and put each
\* under its own day of the week.
AnalyticsAgree ==
    zone >= 0 =>
        /\ \A now \in Moments : CategoryDays(now) = DetailDays(now)
        /\ \A d \in Dates : DateInZone(d) % 7 = d % 7

\* For users in UTC or west of it the server files media exactly under the
\* periods that the page of the day offers.
OfferedIsAccepted ==
    zone <= 0 =>
        \A date \in Dates, p \in periods :
            PeriodCovers(p, date) <=> p.first <= date /\ (p.last = None \/ date <= p.last)

=============================================================================
