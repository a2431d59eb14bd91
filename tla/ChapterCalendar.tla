-------------------------- MODULE ChapterCalendar --------------------------
(***************************************************************************)
(* What the periods of a chapter promise to be, with every operation one   *)
(* atomic step: a calendar with at most one active period, whose closed    *)
(* periods share at most a boundary, and a chapter that can be deleted     *)
(* only while its calendar is empty.                                       *)
(***************************************************************************)
EXTENDS Naturals

CONSTANTS
    Periods,
    LastDay,
    Open

VARIABLES
    chapter,
    calendar    \* a function from the periods there are to their dates

vars == <<chapter, calendar>>

Interval == [start : 0 .. LastDay, end : (0 .. LastDay) \cup {Open}]

Active(c, p) == c[p].end = Open

\* The sentence the module's head comment says, as a predicate on calendars.
Legal(c) ==
    /\ \A p \in DOMAIN c : ~Active(c, p) => c[p].start <= c[p].end
    /\ \A p, q \in DOMAIN c : p # q =>
        /\ ~(Active(c, p) /\ Active(c, q))
        /\ ~Active(c, p) /\ ~Active(c, q) =>
              c[p].end <= c[q].start \/ c[q].end <= c[p].start

Init ==
    /\ chapter = TRUE
    /\ calendar = [p \in {} |-> 0]

\* A period appears, or an existing one gets other dates.
Put(p) ==
    /\ chapter
    /\ \E i \in Interval :
        calendar' = [q \in DOMAIN calendar \cup {p} |->
                        IF q = p THEN i ELSE calendar[q]]
    /\ Legal(calendar')
    /\ UNCHANGED chapter

Take(p) ==
    /\ p \in DOMAIN calendar
    /\ calendar' = [q \in DOMAIN calendar \ {p} |-> calendar[q]]
    /\ UNCHANGED chapter

Drop ==
    /\ chapter
    /\ DOMAIN calendar = {}
    /\ chapter' = FALSE
    /\ UNCHANGED calendar

Next ==
    \/ \E p \in Periods : Put(p) \/ Take(p)
    \/ Drop

Spec == Init /\ [][Next]_vars

=============================================================================
