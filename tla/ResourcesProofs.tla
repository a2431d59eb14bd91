--------------------------- MODULE ResourcesProofs ---------------------------
(***************************************************************************)
(* Theorems about Resources, for any limits, any number of requests, rows  *)
(* and changes of the tier, and any life of a cache entry.                 *)
(*                                                                         *)
(* Every tier the cache can give has been granted (CacheInv).  A create    *)
(* that has missed nothing has counted at least the rows there are, and    *)
(* one that may write has passed the limit of a granted tier (CountInv).   *)
(* Chapters are counted outside a transaction: what bounds them is that    *)
(* the chapters there are and the creates still to come stay below the     *)
(* limit and the number of requests together (ChapterRoom).                *)
(***************************************************************************)
EXTENDS Resources, FiniteSetTheorems, TLAPS

CacheInv ==
    /\ owed <= changes
    /\ {tier, cache.tier, "FREE"} \subseteq granted
    /\ \A r \in Requests : reading[r] \in granted \cup {NotRead}

CountInv ==
    \A r \in Requests :
        /\ reqs[r].pc = "idle" => reqs[r].op = "none"
        /\ reqs[r].op = "create" /\ ~reqs[r].missed
            => Cardinality(rows[reqs[r].table]) <= reqs[r].seen
        /\ reqs[r].pc = "write" /\ reqs[r].op \in {"create", "createGroup"}
            => \E g \in granted : WithinLimit(g, reqs[r].seen)

\* The creates that were below the limit when they counted the chapters.
Pending(limit) == {r \in Requests : reqs[r].op = "createGroup" /\ reqs[r].seen < limit}

\* A limit that no tier held so far passes.
Above(limit) == \A g \in granted : Limit[g] # -1 /\ Limit[g] <= limit

Room(limit) ==
    Chapters # {} \/ Pending(limit) # {} =>
        Cardinality(Chapters) + Cardinality(Pending(limit)) < limit + Cardinality(Requests)

ChapterRoom == \A limit \in Nat : Above(limit) => Room(limit)

IInv == TypeOK /\ CacheInv /\ CountInv /\ WithinQuota /\ ChapterRoom

-----------------------------------------------------------------------------
(* Types *)

LEMMA TablesOfIds ==
  /\ IsFiniteSet(Ids.categories) /\ IsFiniteSet(Ids.dayStates) /\ IsFiniteSet(Ids.chapters)
  /\ \A t \in Tables : IsFiniteSet(Ids[t]) /\ Nothing \notin Ids[t] /\ Ids[t] \subseteq RowIds
  /\ Nothing \notin Ids.chapters
BY ResourcesAssumption DEF Tables, RowIds

LEMMA Finite ==
  ASSUME TypeOK
  PROVE  /\ \A t \in Tables : IsFiniteSet(rows[t]) /\ Cardinality(rows[t]) \in Nat
         /\ IsFiniteSet(Chapters) /\ Cardinality(Chapters) \in Nat
<1>1. \A t \in Tables : rows[t] \subseteq Ids[t]
  BY DEF TypeOK
<1>2. \A t \in Tables : IsFiniteSet(rows[t])
  BY <1>1, TablesOfIds, FS_Subset
<1>3. IsFiniteSet(Chapters)
  BY TablesOfIds, FS_Subset DEF Chapters
<1> QED
  BY <1>2, <1>3, FS_CardinalityType

LEMMA CacheTypes ==
  ASSUME CacheTypeOK, CacheInv, [Next]_vars
  PROVE  CacheTypeOK' /\ CacheInv' /\ granted \subseteq granted'
<1> USE CacheAssumption DEF CacheTypeOK, CacheInv
<1>1. ASSUME NEW t \in Tiers, ChangeTier(t)
      PROVE  CacheTypeOK' /\ CacheInv' /\ granted \subseteq granted'
  BY <1>1 DEF ChangeTier
<1>2. CASE InvalidateTierCache
  BY <1>2 DEF InvalidateTierCache, NoEntry, Tiers
<1>3. CASE Tick
  BY <1>3 DEF Tick, NoEntry, Tiers
<1>4. ASSUME NEW r \in Requests, AssertResourceLimit(r)
      PROVE  CacheTypeOK' /\ CacheInv' /\ granted \subseteq granted'
  <2>1. ASSUME NEW t \in Tiers, Hit(r, t)
        PROVE  CacheTypeOK' /\ CacheInv' /\ granted \subseteq granted'
    BY <2>1 DEF Hit, cacheVars
  <2>2. ASSUME NEW t \in Tiers, Fill(r, t)
        PROVE  CacheTypeOK' /\ CacheInv' /\ granted \subseteq granted'
    BY <2>2 DEF Fill
  <2>3. CASE Miss(r)
    BY <2>3 DEF Miss
  <2> QED
    BY <1>4, <2>1, <2>2, <2>3 DEF AssertResourceLimit
<1>5. CASE UNCHANGED cacheVars
  BY <1>5 DEF cacheVars
<1> QED
  BY <1>1, <1>2, <1>3, <1>4, <1>5
     DEF Next, RequestStep, CacheStep, CountRows, CountUses, CountChapters, Begin, InsertRow,
         DeleteRow, InsertChapter, Refuse, UpdateGroup, DeleteGroup, UpsertDay, vars

\* What a step does to the requests other than the one it is about.
LEMMA RequestTypes ==
  ASSUME TypeOK, [Next]_vars
  PROVE  reqs' \in [Requests -> Request]
<1> USE DEF TypeOK
<1>n. NoRequest \in Request
  BY DEF NoRequest, Request, Tables
<1>b. ASSUME NEW r \in Requests, NEW request \in Request, Begin(r, request)
      PROVE  reqs' \in [Requests -> Request]
  BY <1>b DEF Begin
<1>e. ASSUME NEW r \in Requests, End(r) PROVE reqs' \in [Requests -> Request]
  BY <1>e, <1>n DEF End
<1>1. ASSUME NEW r \in Requests, NEW t \in Tables, CountRows(r, t)
      PROVE  reqs' \in [Requests -> Request]
  <2>1. [NoRequest EXCEPT !.op = "create", !.pc = "limit", !.table = t,
                          !.seen = Cardinality(rows[t])] \in Request
    BY Finite DEF NoRequest, Request
  <2> QED
    BY <1>1, <1>b, <2>1 DEF CountRows
<1>2. ASSUME NEW r \in Requests, NEW t \in Tables, NEW id \in rows[t], CountUses(r, t, id)
      PROVE  reqs' \in [Requests -> Request]
  <2>1. id \in RowIds
    BY TablesOfIds
  <2>2. [NoRequest EXCEPT !.op = "delete", !.pc = "write", !.table = t, !.id = id] \in Request
    BY <2>1 DEF NoRequest, Request
  <2> QED
    BY <1>2, <1>b, <2>2 DEF CountUses
<1>3. ASSUME NEW r \in Requests, CountChapters(r) PROVE reqs' \in [Requests -> Request]
  <2>1. [NoRequest EXCEPT !.op = "createGroup", !.pc = "limit", !.seen = Cardinality(Chapters)]
          \in Request
    BY Finite DEF NoRequest, Request, Tables
  <2> QED
    BY <1>3, <1>b, <2>1 DEF CountChapters
<1>4. ASSUME NEW r \in Requests, AssertResourceLimit(r) PROVE reqs' \in [Requests -> Request]
  <2>1. CASE reqs' = [reqs EXCEPT ![r].pc = "write"]
    BY <2>1 DEF Request
  <2>2. CASE End(r) \/ UNCHANGED reqs
    BY <2>2, <1>e
  <2> QED
    BY <1>4, <2>1, <2>2 DEF AssertResourceLimit
<1>5. ASSUME NEW r \in Requests, InsertRow(r) PROVE reqs' \in [Requests -> Request]
  <2> DEFINE Overlaps(q) == q # r /\ reqs[q].op = "create" /\ reqs[q].table = reqs[r].table
  <2>1. reqs' = [q \in Requests |->
                  IF q = r THEN NoRequest
                  ELSE [reqs[q] EXCEPT !.missed = @ \/ Overlaps(q)]]
    BY <1>5 DEF InsertRow
  <2>2. ASSUME NEW q \in Requests
        PROVE  [reqs[q] EXCEPT !.missed = @ \/ Overlaps(q)] \in Request
    BY DEF Request
  <2> QED
    BY <2>1, <2>2, <1>n
<1>6. ASSUME NEW r \in Requests, DeleteRow(r) \/ InsertChapter(r) \/ Refuse(r)
      PROVE  reqs' \in [Requests -> Request]
  BY <1>6, <1>e DEF DeleteRow, InsertChapter, Refuse
<1>7. CASE UNCHANGED reqs
  BY <1>7
<1> QED
  BY <1>1, <1>2, <1>3, <1>4, <1>5, <1>6, <1>7
     DEF Next, RequestStep, CacheStep, UpdateGroup, DeleteGroup, UpsertDay, vars

TableTypes ==
    /\ DOMAIN fresh = Tables \cup {"chapters"} /\ DOMAIN rows = Tables /\ DOMAIN ref = Tables
    /\ \A t \in DOMAIN fresh : fresh[t] \subseteq Ids[t]
    /\ \A t \in Tables :
        /\ rows[t] \subseteq Ids[t]
        /\ ref[t] \in [Users(t) -> rows[t] \cup {Nothing}]

LEMMA TablesTyped ==
  ASSUME TypeOK, [Next]_vars
  PROVE  TableTypes'
<1> TableTypes
  BY DEF TypeOK, TableTypes
<1> USE DEF TableTypes
<1>1. ASSUME NEW r \in Requests, InsertRow(r) PROVE TableTypes'
  <2>1. reqs[r].table \in Tables
    BY DEF TypeOK, Request
  <2>2. PICK id \in fresh[reqs[r].table] :
          /\ rows' = [rows EXCEPT ![reqs[r].table] = @ \cup {id}]
          /\ fresh' = [fresh EXCEPT ![reqs[r].table] = @ \ {id}]
    BY <1>1 DEF InsertRow
  <2>3. ref' = ref
    BY <1>1 DEF InsertRow
  <2>4. ASSUME NEW t \in Tables
        PROVE  rows[t] \subseteq rows'[t] /\ rows'[t] \subseteq Ids[t]
    BY <2>1, <2>2
  <2>5. ASSUME NEW t \in Tables
        PROVE  ref[t] \in [Users(t) -> rows'[t] \cup {Nothing}]
    BY <2>4
  <2>6. \A t \in DOMAIN fresh' : fresh'[t] \subseteq Ids[t]
    BY <2>1, <2>2
  <2>7. DOMAIN fresh' = DOMAIN fresh /\ DOMAIN rows' = DOMAIN rows
    BY <2>2
  <2> QED
    BY <2>3, <2>4, <2>5, <2>6, <2>7 DEF Users
<1>2. ASSUME NEW r \in Requests, DeleteRow(r) PROVE TableTypes'
  <2>1. reqs[r].table \in Tables
    BY DEF TypeOK, Request
  <2>2. /\ rows' = [rows EXCEPT ![reqs[r].table] = @ \ {reqs[r].id}]
        /\ \A c \in Users(reqs[r].table) : ref[reqs[r].table][c] # reqs[r].id
        /\ UNCHANGED <<fresh, ref>>
    BY <1>2 DEF DeleteRow, UsedBy
  <2>3. ASSUME NEW t \in Tables
        PROVE  /\ rows'[t] \subseteq Ids[t]
               /\ ref[t] \in [Users(t) -> rows'[t] \cup {Nothing}]
    <3>1. CASE t = reqs[r].table
      <4>1. rows'[t] = rows[t] \ {reqs[r].id}
        BY <2>1, <2>2, <3>1
      <4>2. \A c \in Users(t) : ref[t][c] \in rows'[t] \cup {Nothing}
        BY <2>2, <3>1, <4>1
      <4> QED
        BY <4>1, <4>2
    <3>2. CASE t # reqs[r].table
      BY <2>1, <2>2, <3>2
    <3> QED
      BY <3>1, <3>2
  <2> QED
    BY <2>2, <2>3 DEF Users
<1>3. ASSUME NEW t \in Tables, NEW u \in Users(t), NEW id \in rows[t] \cup {Nothing},
             ref' = [ref EXCEPT ![t][u] = id], rows' = rows,
             DOMAIN fresh' = DOMAIN fresh, \A s \in DOMAIN fresh : fresh'[s] \subseteq fresh[s]
      PROVE  TableTypes'
  <2>1. ASSUME NEW s \in Tables PROVE ref'[s] \in [Users(s) -> rows[s] \cup {Nothing}]
    BY <1>3
  <2> QED
    BY <1>3, <2>1 DEF Users
<1>4. ASSUME NEW r \in Requests, InsertChapter(r) PROVE TableTypes'
  <2>1. PICK c \in fresh["chapters"], id \in rows["categories"] :
          /\ ref' = [ref EXCEPT !["categories"][c] = id]
          /\ fresh' = [fresh EXCEPT !["chapters"] = @ \ {c}]
    BY <1>4 DEF InsertChapter
  <2>2. c \in Users("categories") /\ "categories" \in Tables
    BY DEF Users, Tables
  <2>3. rows' = rows
    BY <1>4 DEF InsertChapter
  <2>4. DOMAIN fresh' = DOMAIN fresh /\ \A s \in DOMAIN fresh : fresh'[s] \subseteq fresh[s]
    BY <2>1
  <2> QED
    BY <1>3, <2>1, <2>2, <2>3, <2>4
<1>5. ASSUME NEW c \in Chapters,
             (\E id \in rows["categories"] : UpdateGroup(c, id)) \/ DeleteGroup(c)
      PROVE  TableTypes'
  <2>1. c \in Users("categories") /\ "categories" \in Tables
    BY DEF Users, Tables, Chapters
  <2>2. \E id \in rows["categories"] \cup {Nothing} : ref' = [ref EXCEPT !["categories"][c] = id]
    BY <1>5 DEF UpdateGroup, DeleteGroup
  <2>3. UNCHANGED <<rows, fresh>>
    BY <1>5 DEF UpdateGroup, DeleteGroup
  <2> QED
    BY <1>3, <2>1, <2>2, <2>3
<1>6. ASSUME NEW d \in Ids.days, NEW s \in rows["dayStates"] \cup {Nothing}, UpsertDay(d, s)
      PROVE  TableTypes'
  <2>1. d \in Users("dayStates") /\ "dayStates" \in Tables
    BY DEF Users, Tables
  <2>2. ref' = [ref EXCEPT !["dayStates"][d] = s] /\ UNCHANGED <<rows, fresh>>
    BY <1>6 DEF UpsertDay
  <2> QED
    BY <1>3, <2>1, <2>2
<1>7. CASE UNCHANGED tableVars
  BY <1>7 DEF tableVars, Users
<1> QED
  BY <1>1, <1>2, <1>4, <1>5, <1>6, <1>7
     DEF Next, RequestStep, CacheStep, CountRows, CountUses, CountChapters, Begin,
         AssertResourceLimit, Refuse, vars

LEMMA TypesKept ==
  ASSUME TypeOK, CacheInv, [Next]_vars
  PROVE  TypeOK'
<1>1. CacheTypeOK'
  BY CacheTypes DEF TypeOK
<1>2. TableTypes' /\ reqs' \in [Requests -> Request]
  BY TablesTyped, RequestTypes
<1> QED
  BY <1>1, <1>2 DEF TypeOK, TableTypes

-----------------------------------------------------------------------------
(* Counts and limits *)

\* A tier the request gets has been granted.
LEMMA TierGranted ==
  ASSUME CacheTypeOK, CacheInv, NEW r \in Requests, NEW t \in Tiers, Hit(r, t) \/ Fill(r, t)
  PROVE  t \in granted
BY DEF Hit, Fill, CacheInv, CacheTypeOK

\* Requests as they begin.
CreateOf(t) == [NoRequest EXCEPT !.op = "create", !.pc = "limit", !.table = t,
                                 !.seen = Cardinality(rows[t])]
GroupCreate == [NoRequest EXCEPT !.op = "createGroup", !.pc = "limit",
                                 !.seen = Cardinality(Chapters)]
DeleteOf(t, id) == [NoRequest EXCEPT !.op = "delete", !.pc = "write", !.table = t, !.id = id]

\* What a step may do to a request.
Stays(r) == reqs'[r] = reqs[r]
Ends(r) == reqs'[r] = NoRequest
Misses(r) == reqs'[r] = [reqs[r] EXCEPT !.missed = TRUE] /\ reqs[r].op = "create"
Allowed(r) ==
    /\ reqs'[r] = [reqs[r] EXCEPT !.pc = "write"]
    /\ \E g \in granted : WithinLimit(g, reqs[r].seen)
Starts(r) ==
    /\ UNCHANGED tableVars
    /\ \/ \E t \in Tables : reqs'[r] = CreateOf(t)
       \/ reqs'[r] = GroupCreate
       \/ \E t \in Tables : \E id \in rows[t] : reqs'[r] = DeleteOf(t, id)

LEMMA RequestSteps ==
  ASSUME TypeOK, CacheInv, [Next]_vars, NEW r \in Requests
  PROVE  Stays(r) \/ Ends(r) \/ Misses(r) \/ Allowed(r) \/ Starts(r)
<1> DEFINE Goal == Stays(r) \/ Ends(r) \/ Misses(r) \/ Allowed(r) \/ Starts(r)
<1> USE DEF Stays, Ends, Misses, Allowed, Starts
<1>t. reqs \in [Requests -> Request] /\ CacheTypeOK
  BY DEF TypeOK
<1>1. ASSUME NEW q \in Requests, NEW t \in Tables, CountRows(q, t) PROVE Goal
  BY <1>1, <1>t DEF CountRows, Begin, CreateOf
<1>2. ASSUME NEW q \in Requests, NEW t \in Tables, NEW id \in rows[t], CountUses(q, t, id)
      PROVE  Goal
  BY <1>2, <1>t DEF CountUses, Begin, DeleteOf
<1>3. ASSUME NEW q \in Requests, CountChapters(q) PROVE Goal
  BY <1>3, <1>t DEF CountChapters, Begin, GroupCreate
<1>4. ASSUME NEW q \in Requests, AssertResourceLimit(q) PROVE Goal
  <2>1. ASSUME NEW t \in Tiers, Hit(q, t) \/ Fill(q, t),
               IF WithinLimit(t, reqs[q].seen)
               THEN reqs' = [reqs EXCEPT ![q].pc = "write"]
               ELSE End(q)
        PROVE  Goal
    <3>1. t \in granted
      BY <2>1, <1>t, TierGranted
    <3>2. CASE WithinLimit(t, reqs[q].seen)
      BY <1>t, <2>1, <3>1, <3>2
    <3>3. CASE ~WithinLimit(t, reqs[q].seen)
      BY <1>t, <2>1, <3>3 DEF End
    <3> QED
      BY <3>2, <3>3
  <2>2. CASE UNCHANGED reqs
    BY <2>2
  <2> QED
    BY <1>4, <2>1, <2>2 DEF AssertResourceLimit
<1>5. ASSUME NEW q \in Requests, InsertRow(q) PROVE Goal
  <2>1. reqs'[r] = IF r = q THEN NoRequest
                   ELSE [reqs[r] EXCEPT !.missed = @ \/ (r # q /\ reqs[r].op = "create"
                                                          /\ reqs[r].table = reqs[q].table)]
    BY <1>5 DEF InsertRow
  <2>2. reqs[r] \in Request
    BY <1>t
  <2>3. CASE r # q /\ reqs[r].op = "create" /\ reqs[r].table = reqs[q].table
    <3>1. reqs'[r] = [reqs[r] EXCEPT !.missed = TRUE]
      BY <2>1, <2>2, <2>3 DEF Request
    <3> QED
      BY <2>3, <3>1
  <2>4. CASE r # q /\ ~(reqs[r].op = "create" /\ reqs[r].table = reqs[q].table)
    <3>1. reqs'[r] = reqs[r]
      BY <2>1, <2>2, <2>4 DEF Request
    <3> QED
      BY <3>1
  <2> QED
    BY <2>1, <2>3, <2>4
<1>6. ASSUME NEW q \in Requests, DeleteRow(q) \/ InsertChapter(q) \/ Refuse(q) PROVE Goal
  BY <1>6, <1>t DEF DeleteRow, InsertChapter, Refuse, End
<1>7. CASE UNCHANGED reqs
  BY <1>7
<1> QED
  BY <1>1, <1>2, <1>3, <1>4, <1>5, <1>6, <1>7
     DEF Next, RequestStep, CacheStep, UpdateGroup, DeleteGroup, UpsertDay, vars

\* Rows are added by one action only, which counts itself out and tells the
\* others; everything else leaves a table as it is or takes rows away.
RowAdded(t) ==
    \E r \in Requests, id \in Ids[t] :
        /\ rows'[t] = rows[t] \cup {id}
        /\ reqs[r].table = t /\ reqs[r].op = "create" /\ reqs[r].pc = "write"
        /\ ~reqs[r].missed
        /\ \A q \in Requests : reqs'[q].op = "create" /\ reqs'[q].table = t => reqs'[q].missed

LEMMA RowSteps ==
  ASSUME TypeOK, [Next]_vars, NEW t \in Tables
  PROVE  rows'[t] \subseteq rows[t] \/ RowAdded(t)
<1> DEFINE Goal == rows'[t] \subseteq rows[t] \/ RowAdded(t)
<1>t. /\ reqs \in [Requests -> Request] /\ DOMAIN rows = Tables
      /\ \A s \in DOMAIN fresh : fresh[s] \subseteq Ids[s]
      /\ DOMAIN fresh = Tables \cup {"chapters"}
  BY DEF TypeOK
<1>1. ASSUME NEW r \in Requests, InsertRow(r) PROVE Goal
  <2>1. reqs[r].table \in Tables
    BY <1>t DEF Request
  <2>2. PICK id \in fresh[reqs[r].table] : rows' = [rows EXCEPT ![reqs[r].table] = @ \cup {id}]
    BY <1>1 DEF InsertRow
  <2>3. CASE t # reqs[r].table
    BY <2>2, <2>3, <1>t
  <2>4. CASE t = reqs[r].table
    <3>1. rows'[t] = rows[t] \cup {id} /\ id \in Ids[t]
      BY <2>1, <2>2, <2>4, <1>t
    <3>2. reqs[r].op = "create" /\ reqs[r].pc = "write" /\ ~reqs[r].missed
      BY <1>1 DEF InsertRow
    <3>3. ASSUME NEW q \in Requests, reqs'[q].op = "create", reqs'[q].table = t
          PROVE  reqs'[q].missed
      <4>1. reqs'[q] = IF q = r THEN NoRequest
                       ELSE [reqs[q] EXCEPT !.missed = @ \/ (q # r /\ reqs[q].op = "create"
                                                              /\ reqs[q].table = reqs[r].table)]
        BY <1>1 DEF InsertRow
      <4>2. q # r
        BY <3>3, <4>1 DEF NoRequest
      <4>3. reqs[q] \in Request
        BY <1>t
      <4>4. reqs[q].op = "create" /\ reqs[q].table = t
        BY <3>3, <4>1, <4>2, <4>3 DEF Request
      <4> QED
        BY <4>1, <4>2, <4>3, <4>4, <2>4 DEF Request
    <3> QED
      BY <3>1, <3>2, <3>3, <2>4 DEF RowAdded
  <2> QED
    BY <2>3, <2>4
<1>2. ASSUME NEW r \in Requests, DeleteRow(r) PROVE Goal
  <2>1. reqs[r].table \in Tables
    BY <1>t DEF Request
  <2> QED
    BY <1>2, <1>t, <2>1 DEF DeleteRow
<1>3. CASE rows' = rows
  BY <1>3
<1> QED
  BY <1>1, <1>2, <1>3
     DEF Next, RequestStep, CacheStep, CountRows, CountUses, CountChapters, Begin,
         AssertResourceLimit, InsertChapter, Refuse, UpdateGroup, DeleteGroup, UpsertDay,
         tableVars, vars

LEMMA CountsKept ==
  ASSUME TypeOK, CacheInv, CountInv, [Next]_vars
  PROVE  CountInv'
<1> SUFFICES ASSUME NEW r \in Requests
             PROVE  /\ reqs'[r].pc = "idle" => reqs'[r].op = "none"
                    /\ reqs'[r].op = "create" /\ ~reqs'[r].missed
                        => Cardinality(rows'[reqs'[r].table]) <= reqs'[r].seen
                    /\ reqs'[r].pc = "write" /\ reqs'[r].op \in {"create", "createGroup"}
                        => \E g \in granted' : WithinLimit(g, reqs'[r].seen)
  BY DEF CountInv, WithinLimit
<1>g. granted \subseteq granted' /\ TypeOK'
  BY CacheTypes, TypesKept DEF TypeOK
<1>t. reqs[r] \in Request /\ reqs'[r] \in Request
  BY <1>g DEF TypeOK
<1>1. /\ reqs'[r].pc = "idle" => reqs'[r].op = "none"
      /\ reqs'[r].pc = "write" /\ reqs'[r].op \in {"create", "createGroup"}
          => \E g \in granted' : WithinLimit(g, reqs'[r].seen)
  <2>1. CASE Stays(r)
    BY <2>1, <1>g DEF CountInv, Stays
  <2>2. CASE Ends(r)
    BY <2>2 DEF NoRequest, Ends
  <2>3. CASE Misses(r)
    <3>1. reqs'[r].pc = reqs[r].pc /\ reqs'[r].op = reqs[r].op /\ reqs'[r].seen = reqs[r].seen
      BY <2>3, <1>t DEF Request, Misses
    <3> QED
      BY <3>1, <1>g DEF CountInv
  <2>4. CASE Allowed(r)
    <3>1. reqs'[r].pc = "write" /\ reqs'[r].seen = reqs[r].seen
      BY <2>4, <1>t DEF Request, Allowed
    <3> QED
      BY <2>4, <3>1, <1>g DEF Allowed
  <2>5. CASE Starts(r)
    BY <2>5 DEF NoRequest, Starts, CreateOf, GroupCreate, DeleteOf
  <2> QED
    BY <2>1, <2>2, <2>3, <2>4, <2>5, RequestSteps
<1>2. ASSUME reqs'[r].op = "create", ~reqs'[r].missed
      PROVE  Cardinality(rows'[reqs'[r].table]) <= reqs'[r].seen
  <2> DEFINE t == reqs'[r].table
  <2>1. t \in Tables
    BY <1>t DEF Request
  <2>2. rows'[t] \subseteq rows[t]
    BY <1>2, <2>1, RowSteps DEF RowAdded
  <2>3. /\ Cardinality(rows'[t]) <= Cardinality(rows[t])
        /\ Cardinality(rows'[t]) \in Nat /\ Cardinality(rows[t]) \in Nat
    BY <1>g, <2>1, <2>2, Finite, FS_Subset, FS_CardinalityType
  <2>4. CASE /\ reqs[r].op = "create" /\ ~reqs[r].missed /\ reqs[r].table = t
             /\ reqs[r].seen = reqs'[r].seen
    BY <2>3, <2>4, <1>t DEF CountInv, Request
  <2>5. CASE Stays(r)
    BY <2>5, <2>4, <1>2 DEF Stays
  <2>6. CASE Allowed(r)
    <3>1. /\ reqs'[r].op = reqs[r].op /\ reqs'[r].missed = reqs[r].missed
          /\ reqs'[r].seen = reqs[r].seen /\ reqs'[r].table = reqs[r].table
      BY <2>6, <1>t DEF Request, Allowed
    <3> QED
      BY <3>1, <2>4, <1>2
  <2>7. CASE Starts(r)
    <3>1. reqs'[r].seen = Cardinality(rows[t])
      BY <1>2, <2>7 DEF NoRequest, Starts, CreateOf, GroupCreate, DeleteOf
    <3> QED
      BY <2>3, <3>1
  <2>8. ~Ends(r) /\ ~Misses(r)
    BY <1>2, <1>t DEF NoRequest, Request, Ends, Misses
  <2> QED
    BY <2>5, <2>6, <2>7, <2>8, RequestSteps
<1> QED
  BY <1>1, <1>2

LEMMA OneMore ==
  ASSUME NEW S, IsFiniteSet(S), NEW x
  PROVE  IsFiniteSet(S \cup {x}) /\ Cardinality(S \cup {x}) <= Cardinality(S) + 1
<1>1. Cardinality(S) \in Nat
  BY FS_CardinalityType
<1>2. /\ IsFiniteSet(S \cup {x})
      /\ Cardinality(S \cup {x}) = IF x \in S THEN Cardinality(S) ELSE Cardinality(S) + 1
  BY FS_AddElement
<1> QED
  BY <1>1, <1>2

LEMMA GrantedTiers ==
  ASSUME TypeOK
  PROVE  granted \subseteq Tiers /\ \A g \in granted : Limit[g] = -1 \/ Limit[g] \in Nat
BY ResourcesAssumption DEF TypeOK, CacheTypeOK

LEMMA QuotaKept ==
  ASSUME IInv, [Next]_vars
  PROVE  WithinQuota'
<1> USE DEF IInv
<1> SUFFICES ASSUME NEW t \in Tables, rows'[t] # {}
             PROVE  \E g \in granted' : Limit[g] = -1 \/ Cardinality(rows'[t]) <= Limit[g]
  BY DEF WithinQuota
<1>g. granted \subseteq granted' /\ TypeOK'
  BY CacheTypes, TypesKept DEF TypeOK
<1>f. /\ IsFiniteSet(rows[t]) /\ Cardinality(rows[t]) \in Nat
      /\ Cardinality(rows'[t]) \in Nat
  <2>1. rows'[t] \subseteq Ids[t]
    BY <1>g DEF TypeOK
  <2> QED
    BY <2>1, Finite, TablesOfIds, FS_Subset, FS_CardinalityType
<1>1. CASE rows'[t] \subseteq rows[t]
  <2>1. Cardinality(rows'[t]) <= Cardinality(rows[t]) /\ rows[t] # {}
    BY <1>1, <1>f, FS_Subset
  <2>2. PICK g \in granted : Limit[g] = -1 \/ Cardinality(rows[t]) <= Limit[g]
    BY <2>1 DEF WithinQuota
  <2>3. Limit[g] = -1 \/ Limit[g] \in Nat
    BY GrantedTiers
  <2>4. Limit[g] = -1 \/ Cardinality(rows'[t]) <= Limit[g]
    BY <1>f, <2>1, <2>2, <2>3
  <2> QED
    BY <2>4, <1>g
<1>2. CASE RowAdded(t)
  <2>1. PICK r \in Requests, id \in Ids[t] :
          /\ rows'[t] = rows[t] \cup {id}
          /\ reqs[r].table = t /\ reqs[r].op = "create" /\ reqs[r].pc = "write"
          /\ ~reqs[r].missed
    BY <1>2 DEF RowAdded
  <2>2. Cardinality(rows'[t]) <= Cardinality(rows[t]) + 1
    BY <1>f, <2>1, OneMore
  <2>3. Cardinality(rows[t]) <= reqs[r].seen
    BY <2>1 DEF CountInv
  <2>4. PICK g \in granted : WithinLimit(g, reqs[r].seen)
    BY <2>1 DEF CountInv
  <2>5. reqs[r].seen \in Nat /\ (Limit[g] = -1 \/ Limit[g] \in Nat)
    BY GrantedTiers DEF TypeOK, Request
  <2>6. Limit[g] = -1 \/ Cardinality(rows'[t]) <= Limit[g]
    BY <1>f, <2>2, <2>3, <2>4, <2>5 DEF WithinLimit
  <2> QED
    BY <2>6, <1>g
<1> QED
  BY <1>1, <1>2, RowSteps

-----------------------------------------------------------------------------
(* Chapters *)

ChapterAdded ==
    \E r \in Requests, c \in Ids.chapters :
        /\ Chapters' \subseteq Chapters \cup {c}
        /\ reqs[r].op = "createGroup" /\ reqs[r].pc = "write"
        /\ reqs'[r] = NoRequest

LEMMA ChapterSteps ==
  ASSUME TypeOK, [Next]_vars
  PROVE  Chapters' \subseteq Chapters \/ ChapterAdded
<1>t. /\ reqs \in [Requests -> Request] /\ DOMAIN ref = Tables
      /\ ref["categories"] \in [Ids.chapters -> rows["categories"] \cup {Nothing}]
      /\ fresh["chapters"] \subseteq Ids.chapters
      /\ "categories" \in Tables /\ "dayStates" \in Tables
  BY DEF TypeOK, Tables, Users
<1>1. ASSUME NEW r \in Requests, InsertChapter(r) PROVE ChapterAdded
  <2>1. PICK c \in fresh["chapters"], id \in rows["categories"] :
          ref' = [ref EXCEPT !["categories"][c] = id]
    BY <1>1 DEF InsertChapter
  <2>2. c \in Ids.chapters /\ Chapters' \subseteq Chapters \cup {c}
    BY <1>t, <2>1 DEF Chapters
  <2>3. reqs[r].op = "createGroup" /\ reqs[r].pc = "write" /\ reqs'[r] = NoRequest
    BY <1>1, <1>t DEF InsertChapter, End
  <2> QED
    BY <2>2, <2>3 DEF ChapterAdded
<1>2. ASSUME NEW c \in Chapters,
             (\E id \in rows["categories"] : UpdateGroup(c, id)) \/ DeleteGroup(c)
      PROVE  Chapters' \subseteq Chapters
  <2>1. \E id : ref' = [ref EXCEPT !["categories"][c] = id]
    BY <1>2 DEF UpdateGroup, DeleteGroup
  <2> QED
    BY <1>t, <2>1 DEF Chapters
<1>3. ASSUME NEW d, NEW s, UpsertDay(d, s) PROVE Chapters' \subseteq Chapters
  <2>1. ref'["categories"] = ref["categories"]
    BY <1>3, <1>t DEF UpsertDay
  <2> QED
    BY <2>1 DEF Chapters
<1>4. CASE ref' = ref
  BY <1>4 DEF Chapters
<1> QED
  BY <1>1, <1>2, <1>3, <1>4
     DEF Next, RequestStep, CacheStep, CountRows, CountUses, CountChapters, Begin, InsertRow,
         DeleteRow, AssertResourceLimit, Refuse, tableVars, vars

LEMMA PendingFinite ==
  ASSUME NEW limit
  PROVE  /\ IsFiniteSet(Pending(limit)) /\ Cardinality(Pending(limit)) \in Nat
         /\ Cardinality(Pending(limit)) <= Cardinality(Requests)
         /\ Cardinality(Requests) \in Nat
<1>1. IsFiniteSet(Requests) /\ Pending(limit) \in SUBSET Requests
  BY ResourcesAssumption DEF Pending
<1> QED
  BY <1>1, FS_Subset, FS_CardinalityType

\* A request that is pending after a step and was not before has just counted.
LEMMA NewlyPending ==
  ASSUME TypeOK, CacheInv, [Next]_vars, NEW limit \in Nat,
         NEW r \in Pending(limit)', r \notin Pending(limit)
  PROVE  Cardinality(Chapters) < limit /\ Chapters' = Chapters
<1>t. reqs[r] \in Request /\ r \in Requests /\ reqs'[r].op = "createGroup"
      /\ reqs'[r].seen < limit
  BY DEF TypeOK, Pending
<1>1. ~Stays(r) /\ ~Ends(r) /\ ~Misses(r) /\ ~Allowed(r)
  BY <1>t DEF Stays, Ends, Misses, Allowed, Pending, NoRequest, Request
<1>2. Starts(r)
  BY <1>t, <1>1, RequestSteps
<1>3. reqs'[r].seen = Cardinality(Chapters)
  BY <1>t, <1>2 DEF Starts, CreateOf, GroupCreate, DeleteOf, NoRequest
<1>4. Chapters' = Chapters
  BY <1>2 DEF Starts, tableVars, Chapters
<1> QED
  BY <1>t, <1>3, <1>4

LEMMA RoomKept ==
  ASSUME IInv, [Next]_vars
  PROVE  ChapterRoom'
<1> USE DEF IInv
<1> SUFFICES ASSUME NEW limit \in Nat, Above(limit)', Chapters' # {} \/ Pending(limit)' # {}
             PROVE  Cardinality(Chapters') + Cardinality(Pending(limit)')
                        < limit + Cardinality(Requests)
  BY DEF ChapterRoom, Room, Above
<1>g. granted \subseteq granted' /\ TypeOK'
  BY CacheTypes, TypesKept DEF TypeOK
<1>a. Above(limit) /\ Room(limit)
  BY <1>g DEF Above, ChapterRoom
<1> DEFINE C == Chapters
           D == Chapters'
           P == Pending(limit)
           Q == Pending(limit)'
<1>f. /\ IsFiniteSet(C) /\ Cardinality(C) \in Nat /\ Cardinality(D) \in Nat
      /\ IsFiniteSet(P) /\ Cardinality(P) \in Nat /\ Cardinality(Q) \in Nat
      /\ Cardinality(Q) <= Cardinality(Requests) /\ Cardinality(Requests) \in Nat
  <2>1. IsFiniteSet(Q) /\ Cardinality(Q) \in Nat /\ Cardinality(Q) <= Cardinality(Requests)
    <3>1. IsFiniteSet(Requests) /\ Q \in SUBSET Requests
      BY ResourcesAssumption DEF Pending
    <3> QED
      BY <3>1, FS_Subset, FS_CardinalityType
  <2>2. Cardinality(D) \in Nat
    <3>1. IsFiniteSet(Ids.chapters) /\ D \in SUBSET Ids.chapters
      BY TablesOfIds DEF Chapters
    <3> QED
      BY <3>1, FS_Subset, FS_CardinalityType
  <2> QED
    BY <2>1, <2>2, Finite, PendingFinite
<1>1. CASE \E r \in Q : r \notin P
  <2>1. Cardinality(C) < limit /\ D = C
    BY <1>1, NewlyPending
  <2> HIDE DEF C, D, P, Q
  <2>2. Cardinality(D) + Cardinality(Q) < limit + Cardinality(Requests)
    BY <1>f, <2>1
  <2> QED
    BY <2>2 DEF D, Q
<1>2. CASE Q \subseteq P /\ D \subseteq C
  <2>1. Cardinality(Q) <= Cardinality(P) /\ Cardinality(D) <= Cardinality(C)
    BY <1>2, <1>f, FS_Subset
  <2>2. C # {} \/ P # {}
    BY <1>2
  <2>3. Cardinality(C) + Cardinality(P) < limit + Cardinality(Requests)
    BY <1>a, <2>2 DEF Room
  <2> HIDE DEF C, D, P, Q
  <2>4. Cardinality(D) + Cardinality(Q) < limit + Cardinality(Requests)
    BY <1>f, <2>1, <2>3
  <2> QED
    BY <2>4 DEF D, Q
<1>3. CASE Q \subseteq P /\ ChapterAdded
  <2>1. PICK r \in Requests, c \in Ids.chapters :
          /\ D \subseteq C \cup {c}
          /\ reqs[r].op = "createGroup" /\ reqs[r].pc = "write"
          /\ reqs'[r] = NoRequest
    BY <1>3 DEF ChapterAdded
  <2>2. r \in P
    <3>1. PICK g \in granted : WithinLimit(g, reqs[r].seen)
      BY <2>1 DEF CountInv
    <3>2. Limit[g] # -1 /\ Limit[g] <= limit /\ Limit[g] \in Nat /\ reqs[r].seen \in Nat
      BY <1>a, GrantedTiers DEF Above, TypeOK, Request
    <3>3. reqs[r].seen < limit
      BY <3>1, <3>2 DEF WithinLimit
    <3> QED
      BY <2>1, <3>3 DEF Pending
  <2>3. Q \subseteq P \ {r}
    BY <1>3, <2>1 DEF Pending, NoRequest
  <2>4. Cardinality(Q) <= Cardinality(P) - 1
    <3>1. IsFiniteSet(P \ {r}) /\ Cardinality(P \ {r}) = Cardinality(P) - 1
      BY <1>f, <2>2, FS_RemoveElement
    <3> QED
      BY <2>3, <3>1, FS_Subset
  <2>5. Cardinality(D) <= Cardinality(C) + 1
    <3>1. IsFiniteSet(C \cup {c}) /\ Cardinality(C \cup {c}) <= Cardinality(C) + 1
      BY <1>f, OneMore
    <3>2. Cardinality(D) <= Cardinality(C \cup {c}) /\ Cardinality(C \cup {c}) \in Nat
      BY <2>1, <3>1, FS_Subset, FS_CardinalityType
    <3> QED
      BY <1>f, <3>1, <3>2
  <2>6. Cardinality(C) + Cardinality(P) < limit + Cardinality(Requests)
    BY <1>a, <2>2 DEF Room
  <2> HIDE DEF C, D, P, Q
  <2>7. Cardinality(D) + Cardinality(Q) < limit + Cardinality(Requests)
    BY <1>f, <2>4, <2>5, <2>6
  <2> QED
    BY <2>7 DEF D, Q
<1> QED
  BY <1>1, <1>2, <1>3, ChapterSteps

-----------------------------------------------------------------------------
(* The theorems *)

LEMMA InitInv == Init => IInv
<1> SUFFICES ASSUME Init PROVE IInv
  OBVIOUS
<1> USE DEF Init, CacheInit
<1>1. CacheTypeOK
  BY CacheAssumption DEF CacheTypeOK, Tiers, NoEntry
<1>2. reqs \in [Requests -> Request]
  BY DEF NoRequest, Request, Tables
<1>3. /\ DOMAIN fresh = Tables \cup {"chapters"} /\ DOMAIN rows = Tables /\ DOMAIN ref = Tables
      /\ \A t \in DOMAIN fresh : fresh[t] \subseteq Ids[t]
      /\ \A t \in Tables :
          /\ rows[t] \subseteq Ids[t]
          /\ ref[t] \in [Users(t) -> rows[t] \cup {Nothing}]
  OBVIOUS
<1>4. TypeOK
  BY <1>1, <1>2, <1>3 DEF TypeOK
<1>5. CacheInv
  BY DEF CacheInv, NoEntry
<1>6. CountInv
  BY DEF CountInv, NoRequest
<1>7. WithinQuota
  BY DEF WithinQuota
<1>8. Chapters = {}
  BY DEF Chapters, Users, Tables
<1>9. \A limit : Pending(limit) = {}
  BY DEF Pending, NoRequest
<1> QED
  BY <1>4, <1>5, <1>6, <1>7, <1>8, <1>9 DEF IInv, ChapterRoom, Room

LEMMA NextInv == IInv /\ [Next]_vars => IInv'
BY CacheTypes, TypesKept, CountsKept, QuotaKept, RoomKept DEF IInv, TypeOK

LEMMA AlwaysInv == Spec => []IInv
BY InitInv, NextInv, PTL DEF Spec

\* The state of tables, cache and requests stays well-typed; in particular a
\* chapter is always filed under a category that exists.
THEOREM TypeCorrect == Spec => []TypeOK
BY AlwaysInv, PTL DEF IInv

\* Categories and day states keep within the most generous tier the user has
\* held, whatever creates overlap and however stale the cached tier is
\* (assertResourceLimit inside the SERIALIZABLE transactions).
THEOREM QuotasHold == Spec => []WithinQuota
BY AlwaysInv, PTL DEF IInv

\* Chapters, counted outside a transaction (createGroup), pass their limit by less
\* than the number of requests that can be in flight.
THEOREM ChaptersNearLimit == Spec => []ChaptersBounded
<1>1. IInv => ChaptersBounded
  <2> SUFFICES ASSUME IInv, Chapters # {}
               PROVE  \E g \in granted :
                        Limit[g] = -1 \/ Cardinality(Chapters) < Limit[g] + Cardinality(Requests)
    BY DEF ChaptersBounded
  <2>1. CASE \E g \in granted : Limit[g] = -1
    BY <2>1
  <2>2. CASE \A g \in granted : Limit[g] # -1
    <3>1. \A g \in granted : Limit[g] \in Nat
      BY <2>2, GrantedTiers DEF IInv
    <3>2. \E g \in granted : \A h \in granted : Limit[h] <= Limit[g]
      <4>1. granted \subseteq {"FREE", "PRO", "PREMIUM"} /\ "FREE" \in granted
        BY GrantedTiers DEF IInv, CacheInv, Tiers
      <4> QED
        BY <3>1, <4>1
    <3>3. PICK g \in granted : \A h \in granted : Limit[h] <= Limit[g]
      BY <3>2
    <3>4. Room(Limit[g])
      BY <2>2, <3>1, <3>3 DEF IInv, ChapterRoom, Above
    <3>5. /\ Cardinality(Pending(Limit[g])) \in Nat /\ Cardinality(Chapters) \in Nat
          /\ Cardinality(Requests) \in Nat
      BY PendingFinite, Finite DEF IInv
    <3>6. Cardinality(Chapters) < Limit[g] + Cardinality(Requests)
      BY <3>1, <3>4, <3>5 DEF Room
    <3> QED
      BY <3>6
  <2> QED
    BY <2>1, <2>2
<1> QED
  BY <1>1, AlwaysInv, PTL

\* Deleting a category or a day state never takes a use of it along (the count and
\* the delete share a transaction, and the foreign keys do the rest).
THEOREM DeletionSparesUses == Spec => UsesSurviveDeletion
<1>1. [Next]_vars => [\A t \in Tables : \A c \in Users(t) :
                        ref[t][c] # Nothing /\ ref'[t][c] = Nothing => rows' = rows]_vars
  BY DEF Next, RequestStep, CacheStep, CountRows, CountUses, CountChapters, Begin, InsertRow,
         DeleteRow, InsertChapter, AssertResourceLimit, Refuse, UpdateGroup, DeleteGroup,
         UpsertDay, tableVars, vars
<1> QED
  BY <1>1, PTL DEF Spec, UsesSurviveDeletion

=============================================================================
