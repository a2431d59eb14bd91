--------------------------- MODULE TimelineProofs ---------------------------
(***************************************************************************)
(* Theorems about Timeline, for any horizon, any number of periods and     *)
(* every time zone less than a day from UTC.  They rest on one fact: a     *)
(* period in the table is what Stored made of the dates that were entered  *)
(* (Faithful), and reading a stored midnight in the zone it was written in *)
(* gives its date back.  The rows of a month rest on another: two Mondays  *)
(* are a week apart (MondaysApart).                                        *)
(***************************************************************************)
EXTENDS Timeline, FiniteSetTheorems, TLAPS

Faithful ==
    /\ zone \in Zones
    /\ begin \in Dates \cup {None}
    /\ \A p \in periods : \E first \in Dates, last \in Dates \cup {None} :
        /\ last # None => first <= last
        /\ p = Stored(first, last)

-----------------------------------------------------------------------------
(* Instants and dates *)

\* Zones keep the order of midnights.
LEMMA DayOrder ==
  ASSUME NEW d \in Int, NEW e \in Int, NEW z \in Int
  PROVE  /\ StartOfDay(d, z) \in Int
         /\ StartOfDay(d, z) <= StartOfDay(e, z) <=> d <= e
BY SMT DEF StartOfDay

LEMMA ConstantsTyped == Zones \subseteq Int /\ Dates \subseteq Int /\ None \notin Int
BY TimelineAssumption DEF Dates

\* What the fields of a stored period are.
LEMMA PeriodFields ==
  ASSUME Faithful, NEW p \in periods
  PROVE  /\ p.first \in Dates /\ p.last \in Dates \cup {None}
         /\ p.start = StartOfDay(p.first, zone) /\ p.start \in Int
         /\ LocalDate(p.start, zone) = p.first
         /\ p.last = None => p.end = None
         /\ p.last # None => /\ p.first <= p.last
                             /\ p.end = StartOfDay(p.last, zone) /\ p.end \in Int
                             /\ LocalDate(p.end, zone) = p.last
<1>1. PICK first \in Dates, last \in Dates \cup {None} :
        (last # None => first <= last) /\ p = Stored(first, last)
  BY DEF Faithful
<1>2. /\ p.first = first /\ p.last = last
      /\ p.start = StartOfDay(first, zone)
      /\ p.end = IF last = None THEN None ELSE StartOfDay(last, zone)
  BY <1>1 DEF Stored
<1>3. zone \in Int /\ first \in Int /\ (last # None => last \in Int)
  BY ConstantsTyped DEF Faithful
<1>4. ASSUME NEW d \in Int
      PROVE  StartOfDay(d, zone) \in Int /\ LocalDate(StartOfDay(d, zone), zone) = d
  BY <1>3, SMT DEF StartOfDay, LocalDate
<1> QED
  BY <1>1, <1>2, <1>3, <1>4

-----------------------------------------------------------------------------
(* The invariant *)

LEMMA InitFaithful == Init => Faithful
BY DEF Init, Faithful

LEMMA NextFaithful == Faithful /\ [Next]_vars => Faithful'
<1> SUFFICES ASSUME Faithful, [Next]_vars PROVE Faithful'
  OBVIOUS
<1>1. ASSUME NEW first \in Dates, NEW last \in Dates \cup {None}, CreatePeriod(first, last)
      PROVE  Faithful'
  <2>1. zone' = zone /\ begin' = begin /\ periods' = periods \cup {Stored(first, last)}
    BY <1>1 DEF CreatePeriod
  <2>2. last # None => first <= last
    BY <1>1 DEF CreatePeriod
  <2> QED
    BY <2>1, <2>2 DEF Faithful, Stored
<1>2. ASSUME NEW p \in periods, DeletePeriod(p) PROVE Faithful'
  BY <1>2 DEF DeletePeriod, Faithful, Stored
<1>3. CASE UNCHANGED vars
  BY <1>3 DEF vars, Faithful, Stored
<1> QED
  BY <1>1, <1>2, <1>3 DEF Next

LEMMA AlwaysFaithful == Spec => []Faithful
BY InitFaithful, NextFaithful, PTL DEF Spec

\* The state is well-typed: reading a stored instant in the user's zone gives
\* the date that was entered (parseDate and formatPeriod).
THEOREM TypeCorrect == Spec => []TypeOK
<1>1. Faithful => TypeOK
  <2> SUFFICES ASSUME Faithful PROVE TypeOK
    OBVIOUS
  <2>1. ASSUME NEW p \in periods
        PROVE  /\ p.first \in Dates /\ p.last \in Dates \cup {None}
               /\ LocalDate(p.start, zone) = p.first
               /\ p.end = None <=> p.last = None
               /\ p.end # None => LocalDate(p.end, zone) = p.last /\ p.start <= p.end
    BY PeriodFields, ConstantsTyped, DayOrder DEF Faithful
  <2> QED
    BY <2>1 DEF Faithful, TypeOK
<1> QED
  BY <1>1, AlwaysFaithful, PTL

-----------------------------------------------------------------------------
(* The properties *)

LEMMA PeriodsFound ==
  ASSUME Faithful, NEW from \in Int, NEW to \in Int, NEW p \in periods
  PROVE  p \in FindPeriods(from, to)
            <=> p.first <= to /\ (p.last = None \/ p.last >= from)
<1>1. zone \in Int /\ p.first \in Int
  BY PeriodFields, ConstantsTyped DEF Faithful
<1>2. p.start <= StartOfDay(to, zone) <=> p.first <= to
  BY <1>1, PeriodFields, DayOrder
<1>3. (p.end = None \/ p.end >= StartOfDay(from, zone)) <=> (p.last = None \/ p.last >= from)
  <2>1. CASE p.last = None
    BY <2>1, PeriodFields
  <2>2. CASE p.last # None
    <3>1. p.last \in Int /\ p.end = StartOfDay(p.last, zone) /\ p.end \in Int
      BY <2>2, PeriodFields, ConstantsTyped
    <3>2. StartOfDay(from, zone) \in Int
      BY <1>1, DayOrder
    <3>3. StartOfDay(from, zone) <= StartOfDay(p.last, zone) <=> from <= p.last
      BY <1>1, <3>1, DayOrder
    <3> QED
      BY <2>2, <3>1, <3>2, <3>3, ConstantsTyped, SMT
  <2> QED
    BY <2>1, <2>2
<1> QED
  BY <1>2, <1>3 DEF FindPeriods

\* The dates of an answer are those that were entered.
LEMMA TimelineDates ==
  ASSUME Faithful, NEW from \in Int, NEW to \in Int
  PROVE  GetTimeline(from, to) =
            {[startDate |-> p.first, endDate |-> p.last] : p \in FindPeriods(from, to)}
<1>1. ASSUME NEW p \in FindPeriods(from, to)
      PROVE  /\ LocalDate(p.start, zone) = p.first
             /\ (IF p.end = None THEN None ELSE LocalDate(p.end, zone)) = p.last
  <2>1. p \in periods
    BY DEF FindPeriods
  <2> QED
    BY <2>1, PeriodFields, ConstantsTyped
<1> QED
  BY <1>1 DEF GetTimeline

LEMMA WeekAround ==
  ASSUME NEW date \in Int
  PROVE  Monday(date) \in Int /\ Sunday(date) \in Int
BY SMT DEF Monday, Sunday

\* Whatever the zone and the week, each day of the week's view shows exactly the
\* periods whose entered dates include it (getWeekTimeline and buildWeekGrid).
THEOREM WeeksShowWhatWasEntered == Spec => []WeekShowsEntered
<1>1. Faithful => WeekShowsEntered
  <2> SUFFICES ASSUME Faithful, NEW date \in Dates, NEW d \in DOMAIN BuildWeekGrid(date)
               PROVE  BuildWeekGrid(date)[d] =
                        {[startDate |-> p.first, endDate |-> p.last] :
                            p \in {q \in periods :
                                    q.first <= d /\ (q.last = None \/ d <= q.last)}}
    BY DEF WeekShowsEntered
  <2> DEFINE Shown(p) == [startDate |-> p.first, endDate |-> p.last]
             mon == Monday(date)
             sun == Sunday(date)
  <2>1. date \in Int /\ mon \in Int /\ sun \in Int
    BY ConstantsTyped, WeekAround
  <2>2. d \in mon .. sun /\ d \in Int
    BY <2>1 DEF BuildWeekGrid
  <2>3. GetWeekTimeline(date) = {Shown(p) : p \in FindPeriods(mon, sun)}
    BY <2>1, TimelineDates DEF GetWeekTimeline
  <2>4. BuildWeekGrid(date)[d]
          = {s \in GetWeekTimeline(date) : s.startDate <= d /\ (s.endDate = None \/ s.endDate >= d)}
    BY <2>2 DEF BuildWeekGrid, GetPeriodsForDate
  <2>5. ASSUME NEW p \in periods, p.first <= d, p.last = None \/ d <= p.last
        PROVE  p \in FindPeriods(mon, sun)
    <3>1. p.first \in Int /\ (p.last = None \/ p.last \in Int)
      BY PeriodFields, ConstantsTyped
    <3>2. p.first <= sun /\ (p.last = None \/ p.last >= mon)
      BY <2>1, <2>2, <2>5, <3>1, SMT
    <3> QED
      BY <2>1, <3>2, PeriodsFound
  <2>6. FindPeriods(mon, sun) \subseteq periods
    BY DEF FindPeriods
  <2>7. ASSUME NEW p \in periods
        PROVE  (p.last = None \/ p.last >= d) <=> (p.last = None \/ d <= p.last)
    BY <2>2, PeriodFields, ConstantsTyped
  <2> QED
    BY <2>3, <2>4, <2>5, <2>6, <2>7
<1> QED
  BY <1>1, AlwaysFaithful, PTL

\* The last day of a period, read in the user's zone, is the one that was entered,
\* and that of an active period the day it is now.
LEMMA LastDayInZone ==
  ASSUME Faithful, NEW p \in periods, NEW now
  PROVE  LocalDate(IF p.end = None THEN now ELSE p.end, zone)
            = IF p.last = None THEN LocalDate(now, zone) ELSE p.last
<1>1. CASE p.last = None
  BY <1>1, PeriodFields
<1>2. CASE p.last # None
  BY <1>2, PeriodFields, ConstantsTyped
<1> QED
  BY <1>1, <1>2

\* The page of a chapter counts the moods of exactly the days that were entered
\* (getGroupDetails), in every zone and at every moment.
THEOREM DetailsCountWhatWasEntered == Spec => []DetailsCountEntered
<1>1. Faithful => DetailsCountEntered
  <2> SUFFICES ASSUME Faithful, NEW now \in Moments, NEW d \in Dates
               PROVE  (\E p \in periods :
                        d >= LocalDate(p.start, zone)
                          /\ d <= LocalDate(IF p.end = None THEN now ELSE p.end, zone))
                      <=> (\E p \in periods :
                            p.first <= d
                              /\ d <= IF p.last = None THEN LocalDate(now, zone) ELSE p.last)
    BY DEF DetailsCountEntered, DetailDays
  <2>1. ASSUME NEW p \in periods
        PROVE  /\ d >= LocalDate(p.start, zone) <=> p.first <= d
               /\ LocalDate(IF p.end = None THEN now ELSE p.end, zone)
                    = IF p.last = None THEN LocalDate(now, zone) ELSE p.last
    BY PeriodFields, LastDayInZone, ConstantsTyped
  <2> QED
    BY <2>1
<1> QED
  BY <1>1, AlwaysFaithful, PTL

\* East of Greenwich a midnight of UTC is still the same day.
LEMMA EastSameDay ==
  ASSUME NEW z \in 0 .. 3, NEW d \in Int
  PROVE  LocalDate(4 * d, z) = d
BY SMT DEF LocalDate

\* For users in UTC or east of it the analytics count the days the page of a
\* chapter counts, under their own weekdays (getMoodOverview).
THEOREM AnalyticsAgreeInTheEast == Spec => []AnalyticsAgree
<1>1. Faithful => AnalyticsAgree
  <2> SUFFICES ASSUME Faithful, zone >= 0 PROVE
        /\ \A now \in Moments : CategoryDays(now) = DetailDays(now)
        /\ \A d \in Dates : DateInZone(d) % 7 = d % 7
    BY DEF AnalyticsAgree
  <2>1. zone \in 0 .. 3
    BY TimelineAssumption DEF Faithful
  <2>2. ASSUME NEW d \in Dates PROVE DateInZone(d) = d
    BY <2>1, ConstantsTyped, EastSameDay DEF DateInZone
  <2> QED
    BY <2>2 DEF CategoryDays, DetailDays
<1> QED
  BY <1>1, AlwaysFaithful, PTL

\* West of Greenwich a local midnight is later the same day of UTC.
LEMMA WestSameDay ==
  ASSUME NEW z \in -3 .. 0, NEW d \in Int
  PROVE  LocalDate(StartOfDay(d, z), 0) = d
BY SMT DEF LocalDate, StartOfDay

\* For users in UTC or west of it validatePeriodForDay accepts exactly the periods
\* that the page of the day offers.
THEOREM OfferedIsAcceptedInTheWest == Spec => []OfferedIsAccepted
<1>1. Faithful => OfferedIsAccepted
  <2> SUFFICES ASSUME Faithful, zone <= 0, NEW date \in Dates, NEW p \in periods
               PROVE  PeriodCovers(p, date)
                        <=> p.first <= date /\ (p.last = None \/ date <= p.last)
    BY DEF OfferedIsAccepted
  <2>1. zone \in -3 .. 0
    BY TimelineAssumption DEF Faithful
  <2>2. date \in Int /\ p.first \in Int /\ (p.last # None => p.last \in Int)
    BY PeriodFields, ConstantsTyped
  <2>3. LocalDate(p.start, 0) = p.first
    BY <2>1, <2>2, PeriodFields, WestSameDay
  <2>4. CASE p.last = None
    BY <2>2, <2>3, <2>4, PeriodFields DEF PeriodCovers
  <2>5. CASE p.last # None
    <3>1. LocalDate(p.end, 0) = p.last /\ p.end # None
      BY <2>1, <2>2, <2>5, PeriodFields, WestSameDay, ConstantsTyped
    <3> QED
      BY <2>2, <2>3, <2>5, <3>1 DEF PeriodCovers
  <2> QED
    BY <2>4, <2>5
<1> QED
  BY <1>1, AlwaysFaithful, PTL

-----------------------------------------------------------------------------
(* Bars *)

LEMMA Larger ==
  ASSUME NEW a \in Int, NEW b \in Int
  PROVE  Max({a, b}) = IF a >= b THEN a ELSE b
<1> DEFINE m == IF a >= b THEN a ELSE b
<1>1. m \in {a, b} /\ \A y \in {a, b} : m >= y
  OBVIOUS
<1>2. ASSUME NEW x \in {a, b}, \A y \in {a, b} : x >= y PROVE x = m
  BY <1>2
<1> QED
  BY <1>1, <1>2 DEF Max

LEMMA Smaller ==
  ASSUME NEW a \in Int, NEW b \in Int
  PROVE  Min({a, b}) = IF a <= b THEN a ELSE b
<1> DEFINE m == IF a <= b THEN a ELSE b
<1>1. m \in {a, b} /\ \A y \in {a, b} : m <= y
  OBVIOUS
<1>2. ASSUME NEW x \in {a, b}, \A y \in {a, b} : x <= y PROVE x = m
  BY <1>2
<1> QED
  BY <1>1, <1>2 DEF Min

\* A row of a month is some days up to a Sunday.
LEMMA RowDays ==
  ASSUME begin \in Dates \cup {None}, NEW from \in Int, NEW to \in Int,
         NEW w \in MonthWeeks(from, to)
  PROVE  w.first \in Int /\ w.last \in Int /\ w.first <= w.last
<1>1. ASSUME NEW d \in Int PROVE Sunday(d) \in Int /\ d <= Sunday(d)
  BY SMT DEF Sunday, Monday
<1>2. ASSUME NEW startDate \in Int \cup {None}, w \in Weeks(from, to, startDate)
      PROVE  \E d \in Int : w = [first |-> d, last |-> Sunday(d)]
  <2>1. Monday(from) \in Int
    BY WeekAround
  <2> DEFINE first == IF startDate = None THEN Monday(from) ELSE startDate
  <2>2. first \in Int
    BY <2>1
  <2>3. {first} \cup {m \in (first + 1) .. LastDay(to) : m % 7 = 0} \subseteq Int
    BY <2>2, SMT
  <2> QED
    BY <1>2, <2>3 DEF Weeks
<1>3. PICK d \in Int : w = [first |-> d, last |-> Sunday(d)]
  BY <1>2, ConstantsTyped DEF MonthWeeks
<1> QED
  BY <1>1, <1>3

\* A period of an answer begins by the end of the range, and not after it ends.
LEMMA AnswerDates ==
  ASSUME Faithful, NEW from \in Int, NEW to \in Int, NEW p \in GetTimeline(from, to)
  PROVE  /\ p.startDate \in Int /\ p.startDate <= to
         /\ p.endDate # None => p.endDate \in Int /\ p.startDate <= p.endDate
<1>1. PICK q \in FindPeriods(from, to) : p = [startDate |-> q.first, endDate |-> q.last]
  BY TimelineDates
<1>2. q \in periods /\ q.first <= to
  BY PeriodsFound DEF FindPeriods
<1> QED
  BY <1>1, <1>2, PeriodFields, ConstantsTyped

\* The end of a period's bars: that of the range when the period has none.
BarEnd(p, to) == IF p.endDate = None THEN to ELSE p.endDate

\* A bar covers the days from the later beginning to the earlier end.
LEMMA BarCovers ==
  ASSUME NEW p, NEW w, NEW to, BarEnd(p, to) \in Int,
         p.startDate \in Int, w.first \in Int, w.last \in Int
  PROVE  /\ BarDays(p, w, to) = {d \in Int : /\ p.startDate <= d /\ w.first <= d
                                            /\ d <= BarEnd(p, to) /\ d <= w.last}
         /\ p.startDate <= BarEnd(p, to) /\ w.first <= w.last /\ HasBar(p, w, to)
              => Bar(p, w, to).span > 0
<1> DEFINE end == BarEnd(p, to)
           lo == IF p.startDate >= w.first THEN p.startDate ELSE w.first
           hi == IF end <= w.last THEN end ELSE w.last
<1>1. Bar(p, w, to) = [startCol |-> lo - w.first, span |-> hi - lo + 1]
  BY Larger, Smaller DEF Bar, BarEnd
<1>2. lo \in Int /\ hi \in Int
  OBVIOUS
<1>3. BarDays(p, w, to) = {w.first + (lo - w.first) + i : i \in 0 .. (hi - lo + 1) - 1}
  BY <1>1 DEF BarDays
<1>4. \A i \in Int : w.first + (lo - w.first) + i = lo + i
  BY <1>2
<1>5. ASSUME NEW d \in Int, lo <= d, d <= hi
      PROVE  d \in {lo + i : i \in 0 .. (hi - lo + 1) - 1}
  <2>1. d - lo \in 0 .. (hi - lo + 1) - 1 /\ d = lo + (d - lo)
    BY <1>2, <1>5
  <2> QED
    BY <2>1
<1>6. ASSUME NEW i \in 0 .. (hi - lo + 1) - 1 PROVE lo + i \in Int /\ lo <= lo + i /\ lo + i <= hi
  BY <1>2
<1>7. BarDays(p, w, to) = {d \in Int : lo <= d /\ d <= hi}
  <2> HIDE DEF lo, hi
  <2>1. BarDays(p, w, to) = {lo + i : i \in 0 .. (hi - lo + 1) - 1}
    BY <1>3, <1>4
  <2> QED
    BY <2>1, <1>5, <1>6
<1>8. p.startDate <= end /\ w.first <= w.last /\ HasBar(p, w, to) => lo <= hi
  BY DEF HasBar, BarEnd
<1> QED
  BY <1>1, <1>2, <1>7, <1>8

\* However a month's rows are cut, a period's bars stay inside their row, have a
\* day to them, and stand under exactly the days on which the week's view shows
\* the period (calcPeriodBars).
THEOREM BarsStandUnderTheirDays == Spec => []BarsMatchDays
<1>1. Faithful => BarsMatchDays
  <2> SUFFICES ASSUME Faithful, NEW r \in Ranges, NEW w \in MonthWeeks(r[1], r[2]),
                      NEW p \in GetTimeline(r[1], r[2])
               PROVE  LET days == IF HasBar(p, w, r[2]) THEN BarDays(p, w, r[2]) ELSE {} IN
                      /\ days \subseteq w.first .. w.last
                      /\ HasBar(p, w, r[2]) => Bar(p, w, r[2]).span > 0
                      /\ \A d \in w.first .. Min({w.last, r[2]}) :
                            d \in days <=> GetPeriodsForDate({p}, d) # {}
    BY DEF BarsMatchDays
  <2> DEFINE to == r[2]
             end == BarEnd(p, to)
  <2>1. r[1] \in Int /\ to \in Int
    BY ConstantsTyped DEF Ranges
  <2>2. w.first \in Int /\ w.last \in Int /\ w.first <= w.last
    BY <2>1, RowDays DEF Faithful
  <2>3. /\ p.startDate \in Int /\ p.startDate <= to
        /\ p.endDate # None => p.endDate \in Int /\ p.startDate <= p.endDate
    BY <2>1, AnswerDates
  <2>4. end \in Int /\ p.startDate <= end
    BY <2>1, <2>3 DEF BarEnd
  <2>5. /\ BarDays(p, w, to) = {d \in Int : /\ p.startDate <= d /\ w.first <= d
                                           /\ d <= end /\ d <= w.last}
        /\ HasBar(p, w, to) => Bar(p, w, to).span > 0
    BY <2>2, <2>3, <2>4, BarCovers
  <2>6. HasBar(p, w, to) <=> p.startDate <= w.last /\ end >= w.first
    BY DEF HasBar, BarEnd
  <2>7. ASSUME NEW d \in w.first .. Min({w.last, to})
        PROVE  /\ d \in Int /\ w.first <= d /\ d <= w.last /\ d <= to
               /\ GetPeriodsForDate({p}, d) # {} <=> p.startDate <= d /\ d <= end
    <3>1. d \in Int /\ w.first <= d /\ d <= w.last /\ d <= to
      BY <2>1, <2>2, Smaller
    <3>2. GetPeriodsForDate({p}, d) # {}
            <=> p.startDate <= d /\ (p.endDate = None \/ p.endDate >= d)
      BY DEF GetPeriodsForDate
    <3>3. (p.endDate = None \/ p.endDate >= d) <=> d <= end
      BY <2>3, <3>1 DEF BarEnd
    <3> QED
      BY <3>1, <3>2, <3>3
  <2> HIDE DEF to, end
  <2>8. ASSUME NEW d \in w.first .. Min({w.last, to})
        PROVE  HasBar(p, w, to) /\ d \in BarDays(p, w, to) <=> GetPeriodsForDate({p}, d) # {}
    <3>1. d \in BarDays(p, w, to) <=> p.startDate <= d /\ d <= end
      BY <2>5, <2>7, <2>8
    <3>2. p.startDate <= d /\ d <= end => HasBar(p, w, to)
      BY <2>2, <2>3, <2>4, <2>6, <2>7, <2>8
    <3> QED
      BY <2>7, <2>8, <3>1, <3>2
  <2>9. HasBar(p, w, to) => BarDays(p, w, to) \subseteq w.first .. w.last
    BY <2>2, <2>5
  <2> QED
    BY <2>5, <2>8, <2>9 DEF to
<1> QED
  BY <1>1, AlwaysFaithful, PTL

-----------------------------------------------------------------------------
(* Rows *)

\* The Monday of a date is the last one up to it.
LEMMA MondayOf ==
  ASSUME NEW d \in Int
  PROVE  /\ Monday(d) \in Int /\ Sunday(d) = Monday(d) + 6
         /\ Monday(d) <= d /\ d <= Sunday(d)
         /\ Monday(d) % 7 = 0
<1>1. /\ d % 7 \in 0 .. 6 /\ (d - (d % 7)) % 7 = 0
  BY SMT
<1> QED
  BY <1>1 DEF Monday, Sunday

LEMMA MondaysApart ==
  ASSUME NEW d \in Int, NEW m \in Int, m % 7 = 0
  PROVE  /\ Monday(m) = m
         /\ m <= d => m <= Monday(d)
         /\ d < m => Sunday(d) < m
<1>1. /\ m <= d => m <= d - (d % 7)
      /\ d < m => d - (d % 7) + 6 < m
  BY SMT
<1> QED
  BY <1>1 DEF Monday, Sunday

\* The days a stretch of rows begins on: its first, and the Mondays after it.
RowStarts(first, to) == {first} \cup {m \in (first + 1) .. LastDay(to) : m % 7 = 0}

\* Rows that begin in the week of the first day shown, and go on to the week of the
\* last, show every day once and no week in vain.
LEMMA RowsCover ==
  ASSUME NEW first \in Int, NEW from \in Int, NEW to \in Int,
         first <= from, from <= Sunday(first), from <= to
  PROVE  /\ \A d \in from .. to : \E e \in RowStarts(first, to) : d \in e .. Sunday(e)
         /\ \A e \in RowStarts(first, to) :
              /\ e \in Int /\ first <= e /\ e <= Sunday(e) /\ Sunday(e) <= e + 6
              /\ \E d \in from .. to : d \in e .. Sunday(e)
         /\ \A e, f \in RowStarts(first, to) : e < f => Sunday(e) < f
<1>w. /\ Sunday(first) \in Int /\ first <= Sunday(first)
      /\ LastDay(to) \in Int /\ to <= LastDay(to)
  BY MondayOf DEF LastDay
<1>1. ASSUME NEW d \in from .. to
      PROVE  \E e \in RowStarts(first, to) : d \in e .. Sunday(e)
  <2> DEFINE m == Monday(d)
  <2>1. m \in Int /\ m <= d /\ d <= Sunday(d) /\ m % 7 = 0 /\ Sunday(d) = m + 6
    BY MondayOf
  <2> HIDE DEF m
  <2>2. CASE m > first
    <3>1. m \in RowStarts(first, to)
      BY <1>w, <2>1, <2>2 DEF RowStarts
    <3>2. Monday(m) = m
      BY <2>1, MondaysApart
    <3>3. Sunday(m) = m + 6
      BY <2>1, <3>2, MondayOf
    <3> QED
      BY <2>1, <3>1, <3>3
  <2>3. CASE m <= first
    <3>1. Monday(first) >= m
      BY <2>1, <2>3, MondaysApart
    <3>2. Sunday(first) >= d
      BY <2>1, <3>1, MondayOf
    <3> QED
      BY <1>w, <3>2 DEF RowStarts
  <2> QED
    BY <2>1, <2>2, <2>3
<1>2. ASSUME NEW e \in RowStarts(first, to)
      PROVE  /\ e \in Int /\ first <= e /\ e <= Sunday(e) /\ Sunday(e) <= e + 6
             /\ \E d \in from .. to : d \in e .. Sunday(e)
  <2>1. e \in Int /\ first <= e
    BY <1>w DEF RowStarts
  <2>2. Sunday(e) \in Int /\ e <= Sunday(e) /\ Sunday(e) <= e + 6
    BY <2>1, MondayOf
  <2>3. CASE e = first
    BY <2>1, <2>2, <2>3
  <2>4. CASE e # first
    <3>1. e % 7 = 0 /\ first < e /\ e <= LastDay(to)
      BY <1>w, <2>4 DEF RowStarts
    <3>2. from < e
      BY <1>w, <2>1, <3>1, MondaysApart
    <3>3. e <= to
      <4>1. ~(to < e)
        BY <1>w, <2>1, <3>1, MondaysApart DEF LastDay
      <4> QED
        BY <2>1, <4>1
    <3> QED
      BY <2>1, <2>2, <3>2, <3>3
  <2> QED
    BY <2>1, <2>2, <2>3, <2>4
<1>3. ASSUME NEW e \in RowStarts(first, to), NEW f \in RowStarts(first, to), e < f
      PROVE  Sunday(e) < f
  <2>1. e \in Int /\ first <= e /\ f \in Int
    BY <1>2
  <2>2. f % 7 = 0
    BY <1>3, <2>1 DEF RowStarts
  <2> QED
    BY <1>3, <2>1, <2>2, MondaysApart
<1> QED
  BY <1>1, <1>2, <1>3

\* Where the rows of a month begin, and the first day it shows.
LEMMA MonthRows ==
  ASSUME begin \in Dates \cup {None}, NEW from \in Int, NEW to \in Int, from <= to
  PROVE  \E first \in Int :
            LET shown == IF BeginsIn(from, to) THEN begin ELSE from IN
            /\ MonthWeeks(from, to) =
                    {[first |-> e, last |-> Sunday(e)] : e \in RowStarts(first, to)}
            /\ shown \in Int /\ first <= shown /\ shown <= Sunday(first) /\ shown <= to
            /\ BeginsIn(from, to) => first = begin
<1>1. CASE BeginsIn(from, to)
  <2>1. begin \in Int /\ begin # None /\ begin <= to
    BY <1>1, ConstantsTyped DEF BeginsIn
  <2>2. MonthWeeks(from, to) =
            {[first |-> e, last |-> Sunday(e)] : e \in RowStarts(begin, to)}
    BY <1>1, <2>1 DEF MonthWeeks, Weeks, RowStarts
  <2> QED
    BY <1>1, <2>1, <2>2, MondayOf
<1>2. CASE ~BeginsIn(from, to)
  <2>1. MonthWeeks(from, to) =
            {[first |-> e, last |-> Sunday(e)] : e \in RowStarts(Monday(from), to)}
    BY <1>2 DEF MonthWeeks, Weeks, RowStarts
  <2>2. /\ Monday(from) \in Int /\ Monday(from) <= from /\ from <= Monday(from) + 6
        /\ Monday(from) % 7 = 0
    BY MondayOf
  <2>3. Monday(Monday(from)) = Monday(from)
    BY <2>2, MondaysApart
  <2>4. from <= Sunday(Monday(from))
    BY <2>2, <2>3, MondayOf
  <2> QED
    BY <1>2, <2>1, <2>2, <2>4
<1> QED
  BY <1>1, <1>2

\* The rows of a month show every day of it from the beginning of the user's time on,
\* each once; no row is empty or longer than a week, and none starts before that
\* beginning (groupTimelineHorizontal).
THEOREM RowsCoverTheirMonth == Spec => []RowsCoverMonth
<1>1. Faithful => RowsCoverMonth
  <2> SUFFICES ASSUME Faithful, NEW r \in Ranges
               PROVE  LET from == r[1]  to == r[2]
                          weeks == MonthWeeks(from, to)
                          shown == (IF BeginsIn(from, to) THEN begin ELSE from) .. to
                          days(w) == w.first .. w.last
                      IN
                      /\ shown \subseteq UNION {days(w) : w \in weeks}
                      /\ \A w \in weeks : days(w) \cap shown # {} /\ Cardinality(days(w)) <= 7
                      /\ \A v, w \in weeks : days(v) \cap days(w) # {} => v = w
                      /\ BeginsIn(from, to) => \A w \in weeks : begin <= w.first
    BY DEF RowsCoverMonth
  <2> DEFINE from == r[1]
             to == r[2]
             weeks == MonthWeeks(from, to)
             shown == IF BeginsIn(from, to) THEN begin ELSE from
             days(w) == w.first .. w.last
  <2>1. from \in Int /\ to \in Int /\ from <= to /\ begin \in Dates \cup {None}
    BY ConstantsTyped DEF Ranges, Faithful
  <2> HIDE DEF from, to
  <2>2. PICK first \in Int :
            /\ weeks = {[first |-> e, last |-> Sunday(e)] : e \in RowStarts(first, to)}
            /\ shown \in Int /\ first <= shown /\ shown <= Sunday(first) /\ shown <= to
            /\ BeginsIn(from, to) => first = begin
    BY <2>1, MonthRows
  <2> HIDE DEF weeks, shown
  <2>3. /\ \A d \in shown .. to : \E e \in RowStarts(first, to) : d \in e .. Sunday(e)
        /\ \A e \in RowStarts(first, to) :
              /\ e \in Int /\ first <= e /\ e <= Sunday(e) /\ Sunday(e) <= e + 6
              /\ \E d \in shown .. to : d \in e .. Sunday(e)
        /\ \A e, f \in RowStarts(first, to) : e < f => Sunday(e) < f
    BY <2>1, <2>2, RowsCover
  <2>4. \A w \in weeks : \E e \in RowStarts(first, to) :
            w = [first |-> e, last |-> Sunday(e)] /\ days(w) = e .. Sunday(e)
    BY <2>2
  <2>5. ASSUME NEW e \in RowStarts(first, to)
        PROVE  \E w \in weeks : days(w) = e .. Sunday(e)
    <3>1. [first |-> e, last |-> Sunday(e)] \in weeks
      BY <2>2
    <3>2. days([first |-> e, last |-> Sunday(e)]) = e .. Sunday(e)
      OBVIOUS
    <3> QED
      BY <3>1, <3>2
  <2>6. shown .. to \subseteq UNION {days(w) : w \in weeks}
    BY <2>3, <2>5
  <2>7. ASSUME NEW w \in weeks
        PROVE  /\ days(w) \cap (shown .. to) # {} /\ Cardinality(days(w)) <= 7
               /\ BeginsIn(from, to) => begin <= w.first
    <3>1. PICK e \in RowStarts(first, to) :
            w = [first |-> e, last |-> Sunday(e)] /\ days(w) = e .. Sunday(e)
      BY <2>4
    <3>2. e \in Int /\ Sunday(e) \in Int /\ first <= e /\ e <= Sunday(e) /\ Sunday(e) <= e + 6
      BY <2>3, MondayOf
    <3>3. Cardinality(e .. Sunday(e)) = Sunday(e) - e + 1
      BY <3>2, FS_Interval
    <3>4. \E d \in shown .. to : d \in e .. Sunday(e)
      BY <2>3
    <3> QED
      BY <2>2, <3>1, <3>2, <3>3, <3>4
  <2>8. ASSUME NEW v \in weeks, NEW w \in weeks, days(v) \cap days(w) # {} PROVE v = w
    <3>1. PICK e \in RowStarts(first, to) :
            v = [first |-> e, last |-> Sunday(e)] /\ days(v) = e .. Sunday(e)
      BY <2>4
    <3>2. PICK f \in RowStarts(first, to) :
            w = [first |-> f, last |-> Sunday(f)] /\ days(w) = f .. Sunday(f)
      BY <2>4
    <3>3. PICK d \in Int : e <= d /\ d <= Sunday(e) /\ f <= d /\ d <= Sunday(f)
      BY <2>8, <3>1, <3>2
    <3>4. e \in Int /\ f \in Int /\ Sunday(e) \in Int /\ Sunday(f) \in Int
      BY <2>3, MondayOf
    <3>5. ~(e < f) /\ ~(f < e)
      BY <2>3, <3>3, <3>4
    <3> QED
      BY <3>1, <3>2, <3>4, <3>5
  <2> HIDE DEF days
  <2> QED
    BY <2>6, <2>7, <2>8 DEF days, weeks, shown, from, to
<1> QED
  BY <1>1, AlwaysFaithful, PTL

=============================================================================
