---------------------------- MODULE EventPeriods ----------------------------
(***************************************************************************)
(* The periods of one chapter (an EventGroup row and its EventPeriod rows) *)
(* under concurrent HTTP requests of its owner.                            *)
(*                                                                         *)
(* EventGroupsService serves a request in two database steps.  It first    *)
(* reads the row it is about (outside any transaction), merges the dates   *)
(* of the request with those it read and refuses what is plainly wrong;    *)
(* then a SERIALIZABLE transaction compares the merged dates with the      *)
(* other rows and writes only the fields the request named.  PostgreSQL    *)
(* either runs that transaction as one atomic step or aborts it, so the    *)
(* model has one action for each of the two steps, and any request may     *)
(* fail between them.                                                      *)
(***************************************************************************)
EXTENDS Naturals

CONSTANTS
    Periods,    \* the identities EventPeriod rows may get; none is used twice
    Requests,   \* the requests the server can be serving at the same time
    LastDay,    \* local calendar days are numbered 0 .. LastDay
    Tomorrow,   \* the last day assertNotTooFarInFuture accepts
    Open,       \* endDate = NULL: the period is active
    NoPeriod    \* target of a request that is not about an existing period

ASSUME DayAssumption ==
    /\ LastDay \in Nat
    /\ Tomorrow \in 0 .. LastDay
    /\ Open \notin Nat
    /\ NoPeriod \notin Periods

VARIABLES
    chapter,    \* does the EventGroup row exist
    live,       \* the EventPeriod rows of the chapter
    deleted,    \* identities of rows that are gone
    start,      \* column start_date
    end,        \* column end_date, Open for NULL
    reqs        \* what each request has read and decided so far

vars == <<chapter, live, deleted, start, end, reqs>>

Days == 0 .. LastDay
Ends == Days \cup {Open}
Fields == {"start", "end"}

Idle == [op |-> "idle", target |-> NoPeriod, start |-> 0, end |-> 0, sets |-> {}]

Request ==
    [op     : {"idle", "create", "update", "close", "deleteChapter"},
     target : Periods \cup {NoPeriod},
     start  : Days,           \* the dates the transaction will validate
     end    : Ends,
     sets   : SUBSET Fields]  \* the columns the transaction will write

TypeOK ==
    /\ chapter \in BOOLEAN
    /\ live \in SUBSET Periods
    /\ deleted \in SUBSET Periods
    /\ live \cap deleted = {}
    /\ start \in [Periods -> Days]
    /\ end \in [Periods -> Ends]
    /\ reqs \in [Requests -> Request]

Init ==
    /\ chapter = TRUE
    /\ live = {}
    /\ deleted = {}
    /\ start = [p \in Periods |-> 0]
    /\ end = [p \in Periods |-> 0]
    /\ reqs = [r \in Requests |-> Idle]

-----------------------------------------------------------------------------
(* What the handlers ask of the rows. *)

\* Fault: "end_date = NULL" in place of "end_date IS NULL" selects no row.  Both the
\* query and the index have the condition, and either of them alone would do.
OpenRowsByEquality == {}

\* Rows with end_date NULL: findActivePeriodForGroup, and the rows the partial
\* unique index covers.
OpenRows == {p \in live : end[p] = Open}

ClosedRows == {p \in live : end[p] # Open}

\* Fault: only a start that falls inside the closed row counts as overlap.
OverlapsAtStartOnly(s, e, q) == start[q] <= s /\ s < end[q]

\* The test inside assertNoOverlap: [s, e) against the closed row q.
Overlaps(s, e, q) == s < end[q] /\ (e = Open \/ e > start[q])

\* assertNoOverlap, with the row being changed left out.
FitsClosed(s, e, self) == \A q \in ClosedRows \ {self} : ~Overlaps(s, e, q)

\* ActivePeriodExistsError is not thrown.
NoOtherActive(e, self) == e = Open => OpenRows \subseteq {self}

\* InvalidDateRangeError is not thrown.
InOrder(s, e) == e # Open => s <= e

\* The unique index on (event_group_id) WHERE end_date IS NULL.
OneActiveIndex(p, e) == e = Open => OpenRows \subseteq {p}

\* Fault: the migration that adds the CHECK on the dates is missing.
AnyDates(s, e) == TRUE

\* The CHECK on the dates.
DateOrderCheck(s, e) == e # Open => s <= e

\* What PostgreSQL enforces, whatever the application checked.
DatabaseAccepts(p, s, e) == DateOrderCheck(s, e) /\ OneActiveIndex(p, e)

Write(p, s, e) ==
    /\ DatabaseAccepts(p, s, e)
    /\ start' = [start EXCEPT ![p] = s]
    /\ end' = [end EXCEPT ![p] = e]

-----------------------------------------------------------------------------
(* First half: the reads and checks before the transaction. *)

Begin(r, request) ==
    /\ reqs[r] = Idle
    /\ reqs' = [reqs EXCEPT ![r] = request]
    /\ UNCHANGED <<chapter, live, deleted, start, end>>

Finish(r) == reqs' = [reqs EXCEPT ![r] = Idle]

\* Only the start is compared with tomorrow: the end may lie further ahead.
BeginCreate(r) ==
    /\ chapter
    /\ \E s \in 0 .. Tomorrow, e \in Ends :
        /\ InOrder(s, e)
        /\ Begin(r, [op |-> "create", target |-> NoPeriod,
                     start |-> s, end |-> e, sets |-> Fields])

\* Fields the request does not name keep the value read here.
BeginUpdate(r) ==
    \E p \in live, sets \in SUBSET Fields :
        \E s \in IF "start" \in sets THEN 0 .. Tomorrow ELSE {start[p]},
           e \in IF "end" \in sets THEN (0 .. Tomorrow) \cup {Open} ELSE {end[p]} :
            /\ InOrder(s, e)
            /\ Begin(r, [op |-> "update", target |-> p,
                         start |-> s, end |-> e, sets |-> sets])

BeginClose(r) ==
    \E p \in OpenRows, e \in 0 .. Tomorrow :
        /\ InOrder(start[p], e)
        /\ Begin(r, [op |-> "close", target |-> p,
                     start |-> start[p], end |-> e, sets |-> {"end"}])

\* Fault: the chapter is deleted without counting its periods.
BeginDeleteChapterUncounted(r) ==
    /\ chapter
    /\ Begin(r, [Idle EXCEPT !.op = "deleteChapter"])

\* deleteGroup counts the periods and refuses when there are any.
BeginDeleteChapter(r) ==
    /\ chapter
    /\ live = {}
    /\ Begin(r, [Idle EXCEPT !.op = "deleteChapter"])

-----------------------------------------------------------------------------
(* Second half: the transaction. *)

\* The foreign key refuses the row when the chapter has gone.
CommitCreate(r) ==
    LET q == reqs[r] IN
    /\ q.op = "create"
    /\ chapter
    /\ \E p \in Periods \ (live \cup deleted) :
        /\ NoOtherActive(q.end, p)
        /\ FitsClosed(q.start, q.end, p)
        /\ Write(p, q.start, q.end)
        /\ live' = live \cup {p}
    /\ Finish(r)
    /\ UNCHANGED <<chapter, deleted>>

\* Validates the merged dates, writes the named columns over the row as it is
\* now.  The update of a row that has gone fails (P2025).
CommitUpdate(r) ==
    LET q == reqs[r]
        p == q.target
    IN
    /\ q.op = "update"
    /\ p \in live
    /\ NoOtherActive(q.end, p)
    /\ FitsClosed(q.start, q.end, p)
    /\ Write(p, IF "start" \in q.sets THEN q.start ELSE start[p],
                IF "end" \in q.sets THEN q.end ELSE end[p])
    /\ Finish(r)
    /\ UNCHANGED <<chapter, live, deleted>>

\* Fault: closing is taken to be safe for every end after the start.
CommitCloseUnchecked(r) ==
    LET p == reqs[r].target IN
    /\ reqs[r].op = "close"
    /\ p \in live
    /\ Write(p, start[p], reqs[r].end)
    /\ Finish(r)
    /\ UNCHANGED <<chapter, live, deleted>>

CommitClose(r) ==
    LET q == reqs[r]
        p == q.target
    IN
    /\ q.op = "close"
    /\ p \in live
    /\ FitsClosed(q.start, q.end, p)
    /\ Write(p, start[p], q.end)
    /\ Finish(r)
    /\ UNCHANGED <<chapter, live, deleted>>

\* Fault: rows are marked deleted and still listed.
RemoveLeavesRows(gone) ==
    /\ deleted' = deleted \cup gone
    /\ UNCHANGED <<live, start, end>>

\* The rows of gone become free of dates; the identities stay spent.
Remove(gone) ==
    /\ live' = live \ gone
    /\ deleted' = deleted \cup gone
    /\ start' = [p \in Periods |-> IF p \in gone THEN 0 ELSE start[p]]
    /\ end' = [p \in Periods |-> IF p \in gone THEN 0 ELSE end[p]]

\* Deleting the EventGroup row cascades to the periods it has by now.
CommitDeleteChapter(r) ==
    /\ reqs[r].op = "deleteChapter"
    /\ chapter
    /\ chapter' = FALSE
    /\ Remove(live)
    /\ Finish(r)

\* deletePeriod: the lookup decides nothing the DELETE does not decide again,
\* so the two are one step.
DeletePeriod(p) ==
    /\ p \in live
    /\ Remove({p})
    /\ UNCHANGED <<chapter, reqs>>

\* A failed check, a serialization failure, a lost connection or a restart of
\* the server: the transaction leaves nothing behind.
Abort(r) ==
    /\ reqs[r] # Idle
    /\ Finish(r)
    /\ UNCHANGED <<chapter, live, deleted, start, end>>

Step(r) ==
    \/ BeginCreate(r)
    \/ BeginUpdate(r)
    \/ BeginClose(r)
    \/ BeginDeleteChapter(r)
    \/ CommitCreate(r)
    \/ CommitUpdate(r)
    \/ CommitClose(r)
    \/ CommitDeleteChapter(r)
    \/ Abort(r)

Next ==
    \/ \E r \in Requests : Step(r)
    \/ \E p \in Periods : DeletePeriod(p)

Spec == Init /\ [][Next]_vars

-----------------------------------------------------------------------------
(* Properties *)

\* Only one active period per chapter, whatever requests race.
AtMostOneActive ==
    \A p, q \in live : end[p] = Open /\ end[q] = Open => p = q

\* No stored period ends before it starts, even when two updates each move one
\* of its two dates after reading the other.
DatesOrdered == \A p \in live : end[p] = Open \/ start[p] <= end[p]

\* Two rows cover no common stretch of time; sharing a boundary is allowed.
Disjoint(p, q) == end[p] <= start[q] \/ end[q] <= start[p]

\* Closed periods of a chapter do not overlap (assertNoOverlap).
NoClosedOverlap ==
    \A p, q \in live :
        p # q /\ end[p] # Open /\ end[q] # Open => Disjoint(p, q)

\* What request r merged is still what the row holds in the columns r will not
\* write.
Fresh(r) ==
    reqs[r].target \in live =>
        /\ "start" \in reqs[r].sets \/ reqs[r].start = start[reqs[r].target]
        /\ "end" \in reqs[r].sets \/ reqs[r].end = end[reqs[r].target]

\* A step introduces an overlap between closed periods only when the request it
\* serves validated dates that the row no longer had: the transactions lose
\* nothing else to the interleaving of requests.
OverlapOnlyFromStaleMerge ==
    [][NoClosedOverlap /\ ~NoClosedOverlap' =>
        \E r \in Requests : reqs'[r] # reqs[r] /\ ~Fresh(r)]_vars

\* Served one request at a time, the chapter is the calendar it promises to be:
\* reading before the transaction and writing only the named columns makes no
\* difference then.
Calendar == INSTANCE ChapterCalendar WITH
    calendar <- [p \in live |-> [start |-> start[p], end |-> end[p]]]

ImplementsCalendar == Calendar!Spec

=============================================================================
