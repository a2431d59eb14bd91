------------------------------ MODULE Resources ------------------------------
(***************************************************************************)
(* The rows of one user that are counted against a tier or refer to one    *)
(* another: categories with the chapters filed under them, and day states  *)
(* with the days that have them.                                           *)
(*                                                                         *)
(* Categories and day states are created and deleted in SERIALIZABLE       *)
(* transactions; chapters and days are written by single statements, which *)
(* the foreign keys make fail when the row they name is gone.  PostgreSQL  *)
(* is external: of two overlapping SERIALIZABLE transactions that count    *)
(* the same table and insert into it, the second to commit is aborted, and *)
(* a foreign key's action on delete aborts such a transaction when it      *)
(* meets a row that the transaction's snapshot does not show.              *)
(***************************************************************************)
EXTENDS TierCache, FiniteSets

CONSTANTS
    Ids,        \* the ids of each table's rows; each is given once
    Limit,      \* TIER_LIMITS: how many rows a tier may have, -1 for any number
    Nothing     \* no row, or NULL

ASSUME ResourcesAssumption ==
    /\ DOMAIN Ids = {"categories", "dayStates", "chapters", "days"}
    /\ \A t \in DOMAIN Ids : IsFiniteSet(Ids[t]) /\ Nothing \notin Ids[t]
    /\ Limit \in [Tiers -> Nat \cup {-1}]
    /\ IsFiniteSet(Requests)

VARIABLES
    fresh,      \* ids that have not been given yet
    rows,       \* categories, day_states
    ref,        \* the category of each chapter, the day state of each day
    reqs        \* the requests that take more than one step

tableVars == <<fresh, rows, ref>>
vars == <<cacheVars, tableVars, reqs>>

\* The tables that are referred to, and what refers to each.
Tables == {"categories", "dayStates"}
Users(t) == IF t = "categories" THEN Ids.chapters ELSE Ids.days
RowIds == Ids.categories \cup Ids.dayStates

\* seen is the number of rows the request has counted.  missed says whether an
\* overlapping transaction has committed a row that the count does not include.
NoRequest == [op |-> "none", pc |-> "idle", table |-> "categories", id |-> Nothing,
              seen |-> 0, missed |-> FALSE]

Request == [op : {"none", "create", "delete", "createGroup"}, pc : {"idle", "limit", "write"},
            table : Tables, id : RowIds \cup {Nothing}, seen : Nat, missed : BOOLEAN]

TypeOK ==
    /\ CacheTypeOK
    /\ DOMAIN fresh = Tables \cup {"chapters"} /\ DOMAIN rows = Tables /\ DOMAIN ref = Tables
    /\ \A t \in DOMAIN fresh : fresh[t] \subseteq Ids[t]
    /\ \A t \in Tables :
        /\ rows[t] \subseteq Ids[t]
        /\ ref[t] \in [Users(t) -> rows[t] \cup {Nothing}]
    /\ reqs \in [Requests -> Request]

Init ==
    /\ CacheInit
    /\ fresh = [t \in Tables \cup {"chapters"} |-> Ids[t]]
    /\ rows = [t \in Tables |-> {}]
    /\ ref = [t \in Tables |-> [c \in Users(t) |-> Nothing]]
    /\ reqs = [r \in Requests |-> NoRequest]

-----------------------------------------------------------------------------

UsedBy(t, id) == {c \in Users(t) : ref[t][c] = id}
Chapters == {c \in Ids.chapters : ref["categories"][c] # Nothing}

Begin(r, request) ==
    /\ reqs[r].pc = "idle"
    /\ reqs' = [reqs EXCEPT ![r] = request]
    /\ UNCHANGED <<cacheVars, tableVars>>

End(r) == reqs' = [reqs EXCEPT ![r] = NoRequest]

\* Fault: the count may go one past the limit.
WithinLimitAndOne(t, count) == Limit[t] = -1 \/ count <= Limit[t]

WithinLimit(t, count) == Limit[t] = -1 \/ count < Limit[t]

\* The request that has counted gets the tier, and goes on or is refused.
AssertResourceLimit(r) ==
    /\ reqs[r].pc = "limit"
    /\ \/ \E t \in Tiers :
            /\ Hit(r, t) \/ Fill(r, t)
            /\ IF WithinLimit(t, reqs[r].seen)
               THEN reqs' = [reqs EXCEPT ![r].pc = "write"]
               ELSE End(r)
       \/ Miss(r) /\ UNCHANGED reqs
    /\ UNCHANGED tableVars

\* create and createFromRecommendation of categories and day states.
CountRows(r, t) ==
    Begin(r, [NoRequest EXCEPT !.op = "create", !.pc = "limit", !.table = t,
                               !.seen = Cardinality(rows[t])])

\* Fault: the transaction is not SERIALIZABLE.
InsertRowReadCommitted(r) ==
    LET t == reqs[r].table IN
    /\ reqs[r].op = "create" /\ reqs[r].pc = "write"
    /\ \E id \in fresh[t] :
        /\ rows' = [rows EXCEPT ![t] = @ \cup {id}]
        /\ fresh' = [fresh EXCEPT ![t] = @ \ {id}]
    /\ End(r)
    /\ UNCHANGED <<cacheVars, ref>>

\* The insert and the commit.
InsertRow(r) ==
    LET t == reqs[r].table
        Overlaps(q) == q # r /\ reqs[q].op = "create" /\ reqs[q].table = t
    IN
    /\ reqs[r].op = "create" /\ reqs[r].pc = "write"
    /\ ~reqs[r].missed
    /\ \E id \in fresh[t] :
        /\ rows' = [rows EXCEPT ![t] = @ \cup {id}]
        /\ fresh' = [fresh EXCEPT ![t] = @ \ {id}]
    /\ reqs' = [q \in Requests |->
                  IF q = r THEN NoRequest
                  ELSE [reqs[q] EXCEPT !.missed = @ \/ Overlaps(q)]]
    /\ UNCHANGED <<cacheVars, ref>>

\* delete of categories and day states: found, and counted as unused.
CountUses(r, t, id) ==
    /\ UsedBy(t, id) = {}
    /\ Begin(r, [NoRequest EXCEPT !.op = "delete", !.pc = "write", !.table = t, !.id = id])

\* Fault: outside a transaction, ON DELETE CASCADE and SET NULL do their work.
DeleteRowCascades(r) ==
    LET t == reqs[r].table
        id == reqs[r].id
    IN
    /\ reqs[r].op = "delete" /\ reqs[r].pc = "write"
    /\ id \in rows[t]
    /\ rows' = [rows EXCEPT ![t] = @ \ {id}]
    /\ ref' = [ref EXCEPT ![t] = [c \in Users(t) |-> IF @[c] = id THEN Nothing ELSE @[c]]]
    /\ End(r)
    /\ UNCHANGED <<cacheVars, fresh>>

\* The delete, in the transaction of the count: a use that the count did not
\* show makes it fail.
DeleteRow(r) ==
    LET t == reqs[r].table
        id == reqs[r].id
    IN
    /\ reqs[r].op = "delete" /\ reqs[r].pc = "write"
    /\ id \in rows[t]
    /\ UsedBy(t, id) = {}
    /\ rows' = [rows EXCEPT ![t] = @ \ {id}]
    /\ End(r)
    /\ UNCHANGED <<cacheVars, fresh, ref>>

\* createGroup counts, asks for the tier and inserts, in no transaction.
CountChapters(r) ==
    Begin(r, [NoRequest EXCEPT !.op = "createGroup", !.pc = "limit",
                               !.seen = Cardinality(Chapters)])

\* The category is looked up and the chapter inserted; the foreign key checks
\* the category again, so they are one step.
InsertChapter(r) ==
    /\ reqs[r].op = "createGroup" /\ reqs[r].pc = "write"
    /\ \E c \in fresh["chapters"], id \in rows["categories"] :
        /\ ref' = [ref EXCEPT !["categories"][c] = id]
        /\ fresh' = [fresh EXCEPT !["chapters"] = @ \ {c}]
    /\ End(r)
    /\ UNCHANGED <<cacheVars, rows>>

\* A conflict, a constraint, a missing row or a time-out: nothing is written.
Refuse(r) ==
    /\ reqs[r].pc = "write"
    /\ End(r)
    /\ UNCHANGED <<cacheVars, tableVars>>

\* updateGroup: one statement after its lookups, again with the foreign key.
UpdateGroup(c, id) ==
    /\ ref' = [ref EXCEPT !["categories"][c] = id]
    /\ UNCHANGED <<cacheVars, fresh, rows, reqs>>

\* deleteGroup, of a chapter without periods (EventPeriods has those).
DeleteGroup(c) ==
    /\ ref' = [ref EXCEPT !["categories"][c] = Nothing]
    /\ UNCHANGED <<cacheVars, fresh, rows, reqs>>

\* The day's upsert sets the day state or takes it away.
UpsertDay(d, s) ==
    /\ ref' = [ref EXCEPT !["dayStates"][d] = s]
    /\ UNCHANGED <<cacheVars, fresh, rows, reqs>>

RequestStep(r) ==
    \/ AssertResourceLimit(r)
    \/ InsertRow(r)
    \/ DeleteRow(r)
    \/ InsertChapter(r)
    \/ Refuse(r)

CacheStep ==
    /\ (\E t \in Tiers : ChangeTier(t)) \/ InvalidateTierCache \/ Tick
    /\ UNCHANGED <<tableVars, reqs>>

Next ==
    \/ \E r \in Requests :
        \/ \E t \in Tables :
            \/ CountRows(r, t)
            \/ \E id \in rows[t] : CountUses(r, t, id)
        \/ CountChapters(r)
        \/ RequestStep(r)
    \/ \E c \in Chapters :
        \/ \E id \in rows["categories"] : UpdateGroup(c, id)
        \/ DeleteGroup(c)
    \/ \E d \in Ids.days, s \in rows["dayStates"] \cup {Nothing} : UpsertDay(d, s)
    \/ CacheStep

Spec == Init /\ [][Next]_vars

-----------------------------------------------------------------------------
(* Properties *)

\* However creates overlap, and however old the tier they are checked against,
\* the user never has more categories, or day states, than the most generous
\* tier held so far allows.
WithinQuota ==
    \A t \in Tables : rows[t] # {} =>
        \E g \in granted : Limit[g] = -1 \/ Cardinality(rows[t]) <= Limit[g]

\* Chapters are counted outside a transaction and can go past their limit, but
\* by no more than the requests that can overlap with the one that is allowed.
ChaptersBounded ==
    Chapters # {} =>
        \E g \in granted :
            Limit[g] = -1 \/ Cardinality(Chapters) < Limit[g] + Cardinality(Requests)

\* The deletion of a category or of a day state never takes a chapter or a
\* day's state with it, even one that was filed under it after the uses were
\* counted.
UsesSurviveDeletion ==
    [][\A t \in Tables : \A c \in Users(t) :
        ref[t][c] # Nothing /\ ref'[t][c] = Nothing => rows' = rows]_vars

=============================================================================
