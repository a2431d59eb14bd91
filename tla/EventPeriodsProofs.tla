------------------------- MODULE EventPeriodsProofs -------------------------
(***************************************************************************)
(* Proofs about EventPeriods, for any sets of periods and requests and any *)
(* horizon of days.                                                        *)
(***************************************************************************)
EXTENDS EventPeriods, TLAPS

-----------------------------------------------------------------------------
(* Type correctness *)

LEMMA IdleIsRequest == Idle \in Request
  BY DayAssumption DEF Idle, Request, Days, Ends, Fields

\* The columns stay typed when one row is written.
LEMMA WriteTyped ==
  ASSUME TypeOK, NEW p \in Periods, NEW s \in Days, NEW e \in Ends, Write(p, s, e)
  PROVE  /\ start' \in [Periods -> Days]
         /\ end' \in [Periods -> Ends]
  BY DEF TypeOK, Write

LEMMA RemoveTyped ==
  ASSUME TypeOK, NEW gone \in SUBSET live, Remove(gone)
  PROVE  /\ live' \in SUBSET Periods
         /\ deleted' \in SUBSET Periods
         /\ live' \cap deleted' = {}
         /\ start' \in [Periods -> Days]
         /\ end' \in [Periods -> Ends]
  BY DayAssumption DEF TypeOK, Remove, Days, Ends

LEMMA BeginTyped ==
  ASSUME TypeOK, NEW r \in Requests, NEW q \in Request, Begin(r, q)
  PROVE  TypeOK'
  BY DEF TypeOK, Begin

LEMMA FinishTyped ==
  ASSUME TypeOK, NEW r \in Requests, Finish(r)
  PROVE  reqs' \in [Requests -> Request]
  BY IdleIsRequest DEF TypeOK, Finish

\* Every step keeps every variable in its type.
LEMMA TypeStep == TypeOK /\ [Next]_vars => TypeOK'
<1> SUFFICES ASSUME TypeOK, [Next]_vars PROVE TypeOK'
  OBVIOUS
<1>1. ASSUME NEW r \in Requests, BeginCreate(r) PROVE TypeOK'
  <2>1. PICK s \in 0 .. Tomorrow, e \in Ends :
          Begin(r, [op |-> "create", target |-> NoPeriod,
                    start |-> s, end |-> e, sets |-> Fields])
    BY <1>1 DEF BeginCreate
  <2>2. [op |-> "create", target |-> NoPeriod, start |-> s, end |-> e,
         sets |-> Fields] \in Request
    BY DayAssumption DEF Request, Days
  <2> QED BY <2>1, <2>2, BeginTyped
<1>2. ASSUME NEW r \in Requests, BeginUpdate(r) PROVE TypeOK'
  <2>1. PICK p \in live, sets \in SUBSET Fields :
          \E s \in IF "start" \in sets THEN 0 .. Tomorrow ELSE {start[p]},
             e \in IF "end" \in sets THEN (0 .. Tomorrow) \cup {Open} ELSE {end[p]} :
            Begin(r, [op |-> "update", target |-> p,
                      start |-> s, end |-> e, sets |-> sets])
    BY <1>2 DEF BeginUpdate
  <2>2. PICK s \in IF "start" \in sets THEN 0 .. Tomorrow ELSE {start[p]},
             e \in IF "end" \in sets THEN (0 .. Tomorrow) \cup {Open} ELSE {end[p]} :
          Begin(r, [op |-> "update", target |-> p,
                    start |-> s, end |-> e, sets |-> sets])
    BY <2>1
  <2>3. s \in Days
    BY DayAssumption DEF TypeOK, Days
  <2>4. e \in Ends
    BY DayAssumption DEF TypeOK, Days, Ends
  <2>5. [op |-> "update", target |-> p, start |-> s, end |-> e, sets |-> sets]
          \in Request
    BY <2>3, <2>4 DEF TypeOK, Request
  <2> QED BY <2>2, <2>5, BeginTyped
<1>3. ASSUME NEW r \in Requests, BeginClose(r) PROVE TypeOK'
  <2>1. PICK p \in OpenRows, e \in 0 .. Tomorrow :
          Begin(r, [op |-> "close", target |-> p,
                    start |-> start[p], end |-> e, sets |-> {"end"}])
    BY <1>3 DEF BeginClose
  <2>2. [op |-> "close", target |-> p, start |-> start[p], end |-> e,
         sets |-> {"end"}] \in Request
    BY DayAssumption DEF Request, Days, Ends, Fields, OpenRows, TypeOK
  <2> QED BY <2>1, <2>2, BeginTyped
<1>4. ASSUME NEW r \in Requests, BeginDeleteChapter(r) PROVE TypeOK'
  <2>1. [Idle EXCEPT !.op = "deleteChapter"] \in Request
    BY DayAssumption DEF Idle, Request, Days, Ends, Fields
  <2> QED BY <1>4, <2>1, BeginTyped DEF BeginDeleteChapter
<1>5. ASSUME NEW r \in Requests, CommitCreate(r) PROVE TypeOK'
  <2>1. reqs' \in [Requests -> Request]
    BY <1>5, FinishTyped DEF CommitCreate
  <2>2. PICK p \in Periods \ (live \cup deleted) :
          /\ Write(p, reqs[r].start, reqs[r].end)
          /\ live' = live \cup {p}
    BY <1>5 DEF CommitCreate
  <2>3. reqs[r].start \in Days /\ reqs[r].end \in Ends
    BY DEF TypeOK, Request
  <2> QED BY <1>5, <2>1, <2>2, <2>3, WriteTyped DEF CommitCreate, TypeOK
<1>6. ASSUME NEW r \in Requests, CommitUpdate(r) PROVE TypeOK'
  <2> DEFINE q == reqs[r]
             p == q.target
             s == IF "start" \in q.sets THEN q.start ELSE start[p]
             e == IF "end" \in q.sets THEN q.end ELSE end[p]
  <2>1. reqs' \in [Requests -> Request]
    BY <1>6, FinishTyped DEF CommitUpdate
  <2>2. p \in Periods /\ Write(p, s, e) /\ UNCHANGED <<chapter, live, deleted>>
    BY <1>6 DEF CommitUpdate, TypeOK
  <2>3. s \in Days /\ e \in Ends
    BY <2>2 DEF TypeOK, Request
  <2>4. start' \in [Periods -> Days] /\ end' \in [Periods -> Ends]
    BY <2>2, <2>3, WriteTyped
  <2> QED BY <2>1, <2>2, <2>4 DEF TypeOK
<1>7. ASSUME NEW r \in Requests, CommitClose(r) PROVE TypeOK'
  <2> DEFINE q == reqs[r]
             p == q.target
  <2>1. reqs' \in [Requests -> Request]
    BY <1>7, FinishTyped DEF CommitClose
  <2>2. /\ p \in Periods
        /\ Write(p, start[p], q.end)
        /\ UNCHANGED <<chapter, live, deleted>>
    BY <1>7 DEF CommitClose, TypeOK
  <2>3. start[p] \in Days /\ q.end \in Ends
    BY <2>2 DEF TypeOK, Request
  <2>4. start' \in [Periods -> Days] /\ end' \in [Periods -> Ends]
    BY <2>2, <2>3, WriteTyped
  <2> QED BY <2>1, <2>2, <2>4 DEF TypeOK
<1>8. ASSUME NEW r \in Requests, CommitDeleteChapter(r) PROVE TypeOK'
  BY <1>8, FinishTyped, RemoveTyped DEF CommitDeleteChapter, TypeOK
<1>9. ASSUME NEW r \in Requests, Abort(r) PROVE TypeOK'
  BY <1>9, FinishTyped DEF Abort, TypeOK
<1>10. ASSUME NEW p \in Periods, DeletePeriod(p) PROVE TypeOK'
  BY <1>10, RemoveTyped DEF DeletePeriod, TypeOK
<1>11. CASE UNCHANGED vars
  BY <1>11 DEF vars, TypeOK
<1> QED
  BY <1>1, <1>2, <1>3, <1>4, <1>5, <1>6, <1>7, <1>8, <1>9, <1>10, <1>11
  DEF Next, Step

LEMMA TypeInit == Init => TypeOK
  BY IdleIsRequest, DayAssumption DEF Init, TypeOK, Days, Ends

\* The variables of EventPeriods always have their types.
THEOREM TypeCorrect == Spec => []TypeOK
  BY TypeInit, TypeStep, PTL DEF Spec

-----------------------------------------------------------------------------
(* A close request writes the end and nothing else. *)

CloseWritesEnd == \A r \in Requests : reqs[r].op = "close" => reqs[r].sets = {"end"}

LEMMA CloseWritesEndStep ==
  ASSUME TypeOK, CloseWritesEnd, [Next]_vars
  PROVE  CloseWritesEnd'
<1>1. ASSUME NEW r \in Requests, NEW q, Begin(r, q),
             q.op = "close" => q.sets = {"end"}
      PROVE  CloseWritesEnd'
  BY <1>1 DEF Begin, CloseWritesEnd, TypeOK
<1>2. ASSUME NEW r \in Requests, Finish(r) PROVE CloseWritesEnd'
  BY <1>2 DEF Finish, CloseWritesEnd, TypeOK, Idle
<1>3. ASSUME NEW r \in Requests, BeginCreate(r) PROVE CloseWritesEnd'
  BY <1>1, <1>3 DEF BeginCreate
<1>4. ASSUME NEW r \in Requests, BeginUpdate(r) PROVE CloseWritesEnd'
  BY <1>1, <1>4 DEF BeginUpdate
<1>5. ASSUME NEW r \in Requests, BeginClose(r) PROVE CloseWritesEnd'
  BY <1>1, <1>5 DEF BeginClose
<1>6. ASSUME NEW r \in Requests, BeginDeleteChapter(r) PROVE CloseWritesEnd'
  BY <1>1, <1>6 DEF BeginDeleteChapter, Idle
<1>7. ASSUME NEW r \in Requests,
             CommitCreate(r) \/ CommitUpdate(r) \/ CommitClose(r)
               \/ CommitDeleteChapter(r) \/ Abort(r)
      PROVE  CloseWritesEnd'
  BY <1>2, <1>7 DEF CommitCreate, CommitUpdate, CommitClose, CommitDeleteChapter, Abort
<1>8. ASSUME UNCHANGED reqs PROVE CloseWritesEnd'
  BY <1>8 DEF CloseWritesEnd
<1> QED
  BY <1>3, <1>4, <1>5, <1>6, <1>7, <1>8 DEF Next, Step, DeletePeriod, vars

LEMMA CloseWritesEndAlways == Spec => []CloseWritesEnd
<1>1. Init => CloseWritesEnd
  BY DEF Init, CloseWritesEnd, Idle
<1>2. TypeOK /\ CloseWritesEnd /\ [Next]_vars => CloseWritesEnd'
  BY CloseWritesEndStep
<1> QED BY <1>1, <1>2, TypeCorrect, PTL DEF Spec

-----------------------------------------------------------------------------
(* What the database alone guarantees: constraints on single writes. *)

Constrained == AtMostOneActive /\ DatesOrdered

\* A write the database accepts keeps the constraints, whoever checked what.
LEMMA WriteConstrained ==
  ASSUME TypeOK, Constrained,
         NEW p \in Periods, NEW s \in Days, NEW e \in Ends,
         Write(p, s, e), live' = live \cup {p}
  PROVE  Constrained'
<1>1. /\ start' = [start EXCEPT ![p] = s]
      /\ end' = [end EXCEPT ![p] = e]
      /\ e # Open => s <= e
      /\ e = Open => \A q \in live : end[q] = Open => q = p
  BY DEF Write, DatabaseAccepts, DateOrderCheck, OneActiveIndex, OpenRows
<1>2. AtMostOneActive'
  <2> SUFFICES ASSUME NEW a \in live', NEW b \in live',
                      end'[a] = Open, end'[b] = Open
               PROVE  a = b
    BY DEF AtMostOneActive
  <2>1. CASE a = p \/ b = p
    BY <1>1, <2>1 DEF TypeOK
  <2>2. CASE a # p /\ b # p
    BY <1>1, <2>2 DEF TypeOK, Constrained, AtMostOneActive
  <2> QED BY <2>1, <2>2
<1>3. DatesOrdered'
  BY <1>1 DEF Constrained, DatesOrdered, TypeOK
<1> QED BY <1>2, <1>3 DEF Constrained

LEMMA RemoveConstrained ==
  ASSUME TypeOK, Constrained, NEW gone \in SUBSET live, Remove(gone)
  PROVE  Constrained'
  BY DEF TypeOK, Constrained, AtMostOneActive, DatesOrdered, Remove

\* Steps that write no row keep whatever is said of the rows.
LEMMA BeginKeepsRows ==
  ASSUME NEW r \in Requests,
         BeginCreate(r) \/ BeginUpdate(r) \/ BeginClose(r)
           \/ BeginDeleteChapter(r) \/ Abort(r)
  PROVE  UNCHANGED <<chapter, live, deleted, start, end>>
  BY DEF BeginCreate, BeginUpdate, BeginClose, BeginDeleteChapter, Abort, Begin

\* The three transactions that write a row, seen as one write: the row, the
\* dates it gets, and the dates that were validated.
LEMMA CommitWrites ==
  ASSUME TypeOK, CloseWritesEnd, NEW r \in Requests,
         CommitCreate(r) \/ CommitUpdate(r) \/ CommitClose(r)
  PROVE  \E p \in Periods, s \in Days, e \in Ends :
           /\ Write(p, s, e)
           /\ live' = live \cup {p}
           /\ UNCHANGED <<chapter, deleted>>
           /\ reqs[r].op \in {"create", "update", "close"}
           /\ Finish(r)
           /\ FitsClosed(reqs[r].start, reqs[r].end, p)
           /\ reqs[r].op = "create" => chapter
           /\ reqs[r].op # "create" =>
                /\ p = reqs[r].target
                /\ p \in live
           /\ Fresh(r) => s = reqs[r].start /\ e = reqs[r].end
<1> DEFINE q == reqs[r]
<1>0. q \in Request
  BY DEF TypeOK
<1>1. CASE CommitCreate(r)
  BY <1>0, <1>1 DEF CommitCreate, Request
<1>2. CASE CommitUpdate(r)
  <2> DEFINE s == IF "start" \in q.sets THEN q.start ELSE start[q.target]
             e == IF "end" \in q.sets THEN q.end ELSE end[q.target]
  <2>1. q.target \in live /\ q.target \in Periods
    BY <1>2 DEF CommitUpdate, TypeOK
  <2>2. s \in Days /\ e \in Ends
    BY <1>0, <2>1 DEF Request, TypeOK
  <2>3. Fresh(r) => s = q.start /\ e = q.end
    BY <2>1 DEF Fresh
  <2>4. /\ Write(q.target, s, e)
        /\ live' = live \cup {q.target}
        /\ UNCHANGED <<chapter, deleted>>
        /\ q.op = "update"
        /\ Finish(r)
        /\ FitsClosed(q.start, q.end, q.target)
    BY <1>2, <2>1 DEF CommitUpdate
  <2> HIDE DEF s, e
  <2> QED BY <2>1, <2>2, <2>3, <2>4
<1>3. CASE CommitClose(r)
  <2>1. q.target \in live /\ q.target \in Periods
    BY <1>3 DEF CommitClose, TypeOK
  <2>2. start[q.target] \in Days /\ q.end \in Ends
    BY <1>0, <2>1 DEF Request, TypeOK
  <2>3. /\ Write(q.target, start[q.target], q.end)
        /\ live' = live \cup {q.target}
        /\ UNCHANGED <<chapter, deleted>>
        /\ q.op = "close"
        /\ Finish(r)
        /\ FitsClosed(q.start, q.end, q.target)
    BY <1>3, <2>1 DEF CommitClose
  <2>4. Fresh(r) => start[q.target] = q.start
    BY <2>1, <2>3 DEF Fresh, CloseWritesEnd
  <2> QED BY <2>1, <2>2, <2>3, <2>4
<1> QED BY <1>1, <1>2, <1>3

\* Every step keeps the constraints.
LEMMA ConstrainedStep ==
  ASSUME TypeOK, CloseWritesEnd, Constrained, [Next]_vars
  PROVE  Constrained'
<1>1. ASSUME NEW r \in Requests,
             BeginCreate(r) \/ BeginUpdate(r) \/ BeginClose(r)
               \/ BeginDeleteChapter(r) \/ Abort(r)
      PROVE  Constrained'
  BY <1>1, BeginKeepsRows DEF Constrained, AtMostOneActive, DatesOrdered
<1>2. ASSUME NEW r \in Requests,
             CommitCreate(r) \/ CommitUpdate(r) \/ CommitClose(r)
      PROVE  Constrained'
  BY <1>2, CommitWrites, WriteConstrained
<1>3. ASSUME NEW r \in Requests, CommitDeleteChapter(r) PROVE Constrained'
  BY <1>3, RemoveConstrained DEF CommitDeleteChapter
<1>4. ASSUME NEW p \in Periods, DeletePeriod(p) PROVE Constrained'
  BY <1>4, RemoveConstrained DEF DeletePeriod
<1>5. CASE UNCHANGED vars
  BY <1>5 DEF vars, Constrained, AtMostOneActive, DatesOrdered
<1> QED BY <1>1, <1>2, <1>3, <1>4, <1>5 DEF Next, Step

LEMMA ConstrainedAlways == Spec => []Constrained
<1>1. Init => Constrained
  BY DEF Init, Constrained, AtMostOneActive, DatesOrdered
<1>2. TypeOK /\ CloseWritesEnd /\ Constrained /\ [Next]_vars => Constrained'
  BY ConstrainedStep
<1> QED BY <1>1, <1>2, TypeCorrect, CloseWritesEndAlways, PTL DEF Spec

\* However many requests race, a chapter has at most one active period.
THEOREM OneActivePeriod == Spec => []AtMostOneActive
<1>1. Constrained => AtMostOneActive
  BY DEF Constrained
<1> QED BY <1>1, ConstrainedAlways, PTL

\* However many requests race, no period ends before it starts.
THEOREM DatesInOrder == Spec => []DatesOrdered
<1>1. Constrained => DatesOrdered
  BY DEF Constrained
<1> QED BY <1>1, ConstrainedAlways, PTL

-----------------------------------------------------------------------------
(* Overlaps *)

\* Dates that fit among the other closed rows keep the closed rows disjoint.
LEMMA FittingWriteDisjoint ==
  ASSUME TypeOK, NoClosedOverlap,
         NEW p \in Periods, NEW s \in Days, NEW e \in Ends,
         Write(p, s, e), live' = live \cup {p}, FitsClosed(s, e, p)
  PROVE  NoClosedOverlap'
<1> SUFFICES ASSUME NEW a \in live', NEW b \in live', a # b,
                    end'[a] # Open, end'[b] # Open
             PROVE  Disjoint(a, b)'
  BY DEF NoClosedOverlap
<1>1. /\ start' = [start EXCEPT ![p] = s]
      /\ end' = [end EXCEPT ![p] = e]
  BY DEF Write
<1>2. a \in Periods /\ b \in Periods
  BY DEF TypeOK
<1>3. ASSUME NEW q \in live, q # p, end[q] # Open, e # Open
      PROVE  e <= start[q] \/ end[q] <= s
  <2>1. ~(s < end[q] /\ e > start[q])
    BY <1>3 DEF FitsClosed, ClosedRows, OpenRows, Overlaps
  <2>2. s \in Nat /\ e \in Nat /\ start[q] \in Nat /\ end[q] \in Nat
    BY <1>3, DayAssumption DEF TypeOK, Days, Ends
  <2> QED BY <2>1, <2>2
<1>4. CASE a = p
  BY <1>1, <1>2, <1>3, <1>4 DEF TypeOK, Disjoint
<1>5. CASE b = p
  BY <1>1, <1>2, <1>3, <1>5 DEF TypeOK, Disjoint
<1>6. CASE a # p /\ b # p
  BY <1>1, <1>2, <1>6 DEF TypeOK, Disjoint, NoClosedOverlap
<1> QED BY <1>4, <1>5, <1>6

LEMMA RemoveDisjoint ==
  ASSUME TypeOK, NoClosedOverlap, NEW gone \in SUBSET live, Remove(gone)
  PROVE  NoClosedOverlap'
  BY DEF TypeOK, NoClosedOverlap, Disjoint, Remove

\* The only step that can make closed periods overlap is the transaction of a
\* request whose merged dates are no longer the row's.
LEMMA OverlapStep ==
  ASSUME TypeOK, CloseWritesEnd, NoClosedOverlap, [Next]_vars, ~NoClosedOverlap'
  PROVE  \E r \in Requests :
           /\ CommitCreate(r) \/ CommitUpdate(r) \/ CommitClose(r)
           /\ ~Fresh(r)
<1>1. ASSUME NEW r \in Requests,
             BeginCreate(r) \/ BeginUpdate(r) \/ BeginClose(r)
               \/ BeginDeleteChapter(r) \/ Abort(r)
      PROVE  FALSE
  BY <1>1, BeginKeepsRows DEF NoClosedOverlap, Disjoint
<1>2. ASSUME NEW r \in Requests, Fresh(r),
             CommitCreate(r) \/ CommitUpdate(r) \/ CommitClose(r)
      PROVE  FALSE
  BY <1>2, CommitWrites, FittingWriteDisjoint
<1>3. ASSUME NEW r \in Requests, CommitDeleteChapter(r) PROVE FALSE
  BY <1>3, RemoveDisjoint DEF CommitDeleteChapter
<1>4. ASSUME NEW p \in Periods, DeletePeriod(p) PROVE FALSE
  BY <1>4, RemoveDisjoint DEF DeletePeriod
<1>5. CASE UNCHANGED vars
  BY <1>5 DEF vars, NoClosedOverlap, Disjoint
<1> QED BY <1>1, <1>2, <1>3, <1>4, <1>5 DEF Next, Step

\* Closed periods come to overlap only through a stale merge, however many
\* requests race.
THEOREM OverlapNeedsStaleMerge == Spec => OverlapOnlyFromStaleMerge
<1>1. ASSUME TypeOK, CloseWritesEnd, [Next]_vars
      PROVE  NoClosedOverlap /\ ~NoClosedOverlap' =>
               \E r \in Requests : reqs'[r] # reqs[r] /\ ~Fresh(r)
  <2> SUFFICES ASSUME NoClosedOverlap, ~NoClosedOverlap'
               PROVE  \E r \in Requests : reqs'[r] # reqs[r] /\ ~Fresh(r)
    OBVIOUS
  <2>1. PICK r \in Requests :
          /\ CommitCreate(r) \/ CommitUpdate(r) \/ CommitClose(r)
          /\ ~Fresh(r)
    BY <1>1, OverlapStep
  <2>2. Finish(r) /\ reqs[r].op \in {"create", "update", "close"}
    BY <2>1 DEF CommitCreate, CommitUpdate, CommitClose
  <2>3. reqs'[r] = Idle /\ reqs[r] # Idle
    BY <1>1, <2>2 DEF Finish, Idle, TypeOK
  <2> QED BY <2>1, <2>3
<1> QED
  BY <1>1, TypeCorrect, CloseWritesEndAlways, PTL
  DEF Spec, OverlapOnlyFromStaleMerge

-----------------------------------------------------------------------------
(* One request at a time *)

\* The server never has two requests about the chapter in flight.
Sequential == \A r1, r2 \in Requests : r1 = r2

\* Inductive when requests are sequential: what the request in flight read is
\* still so when its transaction runs.
SequentialInv ==
  /\ NoClosedOverlap
  /\ \A r \in Requests : Fresh(r)
  /\ \A r \in Requests : reqs[r].op = "deleteChapter" => live = {}
  /\ \A r \in Requests : reqs[r].op = "create" => chapter
  /\ ~chapter => live = {}

LEMMA BeginSequential ==
  ASSUME TypeOK, SequentialInv, NEW r \in Requests, NEW q \in Request, Begin(r, q),
         q.target \in live =>
           /\ "start" \in q.sets \/ q.start = start[q.target]
           /\ "end" \in q.sets \/ q.end = end[q.target],
         q.op = "deleteChapter" => live = {},
         q.op = "create" => chapter
  PROVE  SequentialInv'
<1>1. reqs' = [reqs EXCEPT ![r] = q] /\ UNCHANGED <<chapter, live, deleted, start, end>>
  BY DEF Begin
<1>2. \A x \in Requests : reqs'[x] = IF x = r THEN q ELSE reqs[x]
  BY <1>1 DEF TypeOK
<1>3. NoClosedOverlap'
  BY <1>1 DEF SequentialInv, NoClosedOverlap, Disjoint
<1>4. \A x \in Requests : Fresh(x)'
  BY <1>1, <1>2 DEF SequentialInv, Fresh
<1> QED BY <1>1, <1>2, <1>3, <1>4 DEF SequentialInv

\* With every request idle, the invariant speaks of the rows alone.
LEMMA IdleSequential ==
  ASSUME \A x \in Requests : reqs'[x] = Idle,
         TypeOK', NoClosedOverlap', ~chapter' => live' = {}
  PROVE  SequentialInv'
<1>1. ASSUME NEW x \in Requests PROVE Fresh(x)'
  BY DayAssumption DEF Fresh, Idle, TypeOK
<1> QED BY <1>1 DEF SequentialInv, Idle

LEMMA SequentialStep ==
  ASSUME Sequential, TypeOK, TypeOK', CloseWritesEnd, SequentialInv, [Next]_vars
  PROVE  SequentialInv'
<1>1. ASSUME NEW r \in Requests, BeginCreate(r) PROVE SequentialInv'
  <2>1. PICK s \in 0 .. Tomorrow, e \in Ends :
          Begin(r, [op |-> "create", target |-> NoPeriod,
                    start |-> s, end |-> e, sets |-> Fields])
    BY <1>1 DEF BeginCreate
  <2>2. [op |-> "create", target |-> NoPeriod, start |-> s, end |-> e,
         sets |-> Fields] \in Request
    BY DayAssumption DEF Request, Days
  <2> QED BY <1>1, <2>1, <2>2, BeginSequential DEF BeginCreate, Fields
<1>2. ASSUME NEW r \in Requests, BeginUpdate(r) PROVE SequentialInv'
  <2>1. PICK p \in live, sets \in SUBSET Fields :
          \E s \in IF "start" \in sets THEN 0 .. Tomorrow ELSE {start[p]},
             e \in IF "end" \in sets THEN (0 .. Tomorrow) \cup {Open} ELSE {end[p]} :
            Begin(r, [op |-> "update", target |-> p,
                      start |-> s, end |-> e, sets |-> sets])
    BY <1>2 DEF BeginUpdate
  <2>2. PICK s \in IF "start" \in sets THEN 0 .. Tomorrow ELSE {start[p]},
             e \in IF "end" \in sets THEN (0 .. Tomorrow) \cup {Open} ELSE {end[p]} :
          Begin(r, [op |-> "update", target |-> p,
                    start |-> s, end |-> e, sets |-> sets])
    BY <2>1
  <2>3. s \in Days /\ e \in Ends
    BY DayAssumption DEF TypeOK, Days, Ends
  <2>4. [op |-> "update", target |-> p, start |-> s, end |-> e, sets |-> sets]
          \in Request
    BY <2>3 DEF TypeOK, Request
  <2> QED BY <2>2, <2>4, BeginSequential
<1>3. ASSUME NEW r \in Requests, BeginClose(r) PROVE SequentialInv'
  <2>1. PICK p \in OpenRows, e \in 0 .. Tomorrow :
          Begin(r, [op |-> "close", target |-> p,
                    start |-> start[p], end |-> e, sets |-> {"end"}])
    BY <1>3 DEF BeginClose
  <2>2. [op |-> "close", target |-> p, start |-> start[p], end |-> e,
         sets |-> {"end"}] \in Request
    BY DayAssumption DEF Request, Days, Ends, Fields, OpenRows, TypeOK
  <2> QED BY <2>1, <2>2, BeginSequential
<1>4. ASSUME NEW r \in Requests, BeginDeleteChapter(r) PROVE SequentialInv'
  <2>1. [Idle EXCEPT !.op = "deleteChapter"] \in Request
    BY DayAssumption DEF Idle, Request, Days, Ends, Fields
  <2> QED BY <1>4, <2>1, BeginSequential, DayAssumption DEF BeginDeleteChapter, Idle, TypeOK
<1>5. ASSUME NEW r \in Requests, Finish(r) PROVE \A x \in Requests : reqs'[x] = Idle
  BY <1>5 DEF Finish, TypeOK, Sequential
<1>6. ASSUME NEW r \in Requests,
             CommitCreate(r) \/ CommitUpdate(r) \/ CommitClose(r)
      PROVE  SequentialInv'
  <2>1. Fresh(r)
    BY DEF SequentialInv
  <2>2. NoClosedOverlap'
    BY <1>6, <2>1, CommitWrites, FittingWriteDisjoint DEF SequentialInv
  <2>3. Finish(r) /\ chapter /\ chapter'
    BY <1>6, CommitWrites DEF SequentialInv
  <2> QED BY <1>5, <2>2, <2>3, IdleSequential
<1>7. ASSUME NEW r \in Requests, CommitDeleteChapter(r) PROVE SequentialInv'
  <2>1. live' = {} /\ Finish(r)
    BY <1>7 DEF CommitDeleteChapter, Remove
  <2>2. NoClosedOverlap'
    BY <2>1 DEF NoClosedOverlap
  <2> QED BY <1>5, <2>1, <2>2, IdleSequential
<1>8. ASSUME NEW r \in Requests, Abort(r) PROVE SequentialInv'
  <2>1. NoClosedOverlap' /\ (~chapter' => live' = {}) /\ Finish(r)
    BY <1>8 DEF Abort, SequentialInv, NoClosedOverlap, Disjoint
  <2> QED BY <1>5, <2>1, IdleSequential
<1>9. ASSUME NEW p \in Periods, DeletePeriod(p) PROVE SequentialInv'
  <2>1. NoClosedOverlap'
    BY <1>9, RemoveDisjoint DEF DeletePeriod, SequentialInv
  <2>2. ASSUME NEW r \in Requests PROVE Fresh(r)'
    <3>1. Fresh(r)
      BY DEF SequentialInv
    <3>2. CASE reqs[r].target \in live \ {p}
      BY <1>9, <3>1, <3>2 DEF Fresh, DeletePeriod, Remove, TypeOK
    <3>3. CASE reqs[r].target \notin live \ {p}
      BY <1>9, <3>3 DEF Fresh, DeletePeriod, Remove
    <3> QED BY <3>2, <3>3
  <2> QED BY <1>9, <2>1, <2>2 DEF DeletePeriod, Remove, SequentialInv
<1>10. CASE UNCHANGED vars
  BY <1>10 DEF vars, SequentialInv, NoClosedOverlap, Disjoint, Fresh
<1> QED BY <1>1, <1>2, <1>3, <1>4, <1>6, <1>7, <1>8, <1>9, <1>10 DEF Next, Step

LEMMA SequentialInit == Init => SequentialInv
  BY DEF Init, SequentialInv, NoClosedOverlap, Fresh, Idle

LEMMA SequentialAlways ==
  ASSUME Sequential
  PROVE  Spec => []SequentialInv
<1>1. TypeOK /\ TypeOK' /\ CloseWritesEnd /\ SequentialInv /\ [Next]_vars
        => SequentialInv'
  BY SequentialStep
<1> QED
  BY <1>1, SequentialInit, TypeCorrect, CloseWritesEndAlways, PTL DEF Spec

\* Served one request at a time, the closed periods of a chapter never overlap.
THEOREM SequentialNoOverlap ==
  ASSUME Sequential
  PROVE  Spec => []NoClosedOverlap
<1>1. SequentialInv => NoClosedOverlap
  BY DEF SequentialInv
<1> QED BY <1>1, SequentialAlways, PTL

-----------------------------------------------------------------------------
(* Refinement of ChapterCalendar *)

cal == [p \in live |-> [start |-> start[p], end |-> end[p]]]

\* The invariants together say that the rows are a legal calendar.
LEMMA RowsLegal ==
  ASSUME TypeOK, Constrained, NoClosedOverlap
  PROVE  Calendar!Legal(cal)
<1>1. /\ DOMAIN cal = live
      /\ \A p \in live : cal[p].start = start[p] /\ cal[p].end = end[p]
  BY DEF cal
<1>2. \A p \in live : Calendar!Active(cal, p) <=> end[p] = Open
  BY <1>1 DEF Calendar!Active
<1>3. \A p \in live : end[p] # Open => start[p] <= end[p]
  BY DEF Constrained, DatesOrdered
<1>4. \A p, q \in live : p # q => ~(end[p] = Open /\ end[q] = Open)
  BY DEF Constrained, AtMostOneActive
<1>5. \A p, q \in live : p # q /\ end[p] # Open /\ end[q] # Open =>
        end[p] <= start[q] \/ end[q] <= start[p]
  BY DEF NoClosedOverlap, Disjoint
<1> HIDE DEF cal
<1> QED BY <1>1, <1>2, <1>3, <1>4, <1>5 DEF Calendar!Legal

\* A transaction that writes one row puts one period into the calendar.
LEMMA WriteIsPut ==
  ASSUME TypeOK, TypeOK', chapter, UNCHANGED chapter,
         NEW p \in Periods, NEW s \in Days, NEW e \in Ends,
         Write(p, s, e), live' = live \cup {p},
         Calendar!Legal(cal)'
  PROVE  Calendar!Put(p)
<1> DEFINE i == [start |-> s, end |-> e]
<1>1. i \in Calendar!Interval
  BY DEF Calendar!Interval, Days, Ends
<1>2. /\ start' = [start EXCEPT ![p] = s]
      /\ end' = [end EXCEPT ![p] = e]
  BY DEF Write
<1>3. cal' = [q \in DOMAIN cal \cup {p} |-> IF q = p THEN i ELSE cal[q]]
  BY <1>2 DEF cal, TypeOK
<1>4. Calendar!Legal(cal')
  OBVIOUS
<1> QED BY <1>1, <1>3, <1>4 DEF Calendar!Put, cal

LEMMA RemoveIsTake ==
  ASSUME TypeOK, NEW p \in live, Remove({p}), UNCHANGED chapter
  PROVE  Calendar!Take(p)
<1>1. cal' = [q \in DOMAIN cal \ {p} |-> cal[q]]
  BY DEF cal, Remove, TypeOK
<1> QED BY <1>1 DEF Calendar!Take, cal

LEMMA RowsUnchanged ==
  ASSUME UNCHANGED <<chapter, live, start, end>>
  PROVE  UNCHANGED Calendar!vars
  BY DEF Calendar!vars, cal

\* Each step of the service is one step of the calendar or none.
LEMMA StepRefines ==
  ASSUME TypeOK, TypeOK', CloseWritesEnd, SequentialInv,
         Constrained', NoClosedOverlap', [Next]_vars
  PROVE  [Calendar!Next]_(Calendar!vars)
<1>1. ASSUME NEW r \in Requests,
             BeginCreate(r) \/ BeginUpdate(r) \/ BeginClose(r)
               \/ BeginDeleteChapter(r) \/ Abort(r)
      PROVE  UNCHANGED Calendar!vars
  BY <1>1, BeginKeepsRows, RowsUnchanged
<1>2. ASSUME NEW r \in Requests,
             CommitCreate(r) \/ CommitUpdate(r) \/ CommitClose(r)
      PROVE  Calendar!Next
  <2>1. PICK p \in Periods, s \in Days, e \in Ends :
          /\ Write(p, s, e)
          /\ live' = live \cup {p}
          /\ UNCHANGED <<chapter, deleted>>
          /\ reqs[r].op = "create" => chapter
          /\ reqs[r].op # "create" => p \in live
    BY <1>2, CommitWrites
  <2>2. chapter
    BY <2>1 DEF SequentialInv, TypeOK
  <2>3. Calendar!Legal(cal)'
    BY RowsLegal, PTL
  <2>4. Calendar!Put(p)
    BY <2>1, <2>2, <2>3, WriteIsPut
  <2> QED BY <2>4 DEF Calendar!Next
<1>3. ASSUME NEW r \in Requests, CommitDeleteChapter(r) PROVE Calendar!Next
  <2>1. live = {} /\ live' = {} /\ chapter /\ ~chapter'
    BY <1>3 DEF CommitDeleteChapter, SequentialInv, Remove
  <2>2. UNCHANGED cal
    BY <2>1 DEF cal
  <2> QED BY <2>1, <2>2 DEF Calendar!Next, Calendar!Drop, cal
<1>4. ASSUME NEW p \in Periods, DeletePeriod(p) PROVE Calendar!Next
  BY <1>4, RemoveIsTake DEF DeletePeriod, Calendar!Next
<1>5. CASE UNCHANGED vars
  BY <1>5, RowsUnchanged DEF vars
<1> QED BY <1>1, <1>2, <1>3, <1>4, <1>5 DEF Next, Step

\* Served one request at a time, the service implements the calendar.
THEOREM SequentialRefinement ==
  ASSUME Sequential
  PROVE  Spec => ImplementsCalendar
<1>1. Init => Calendar!Init
  BY DEF Init, Calendar!Init
<1>2. TypeOK /\ TypeOK' /\ CloseWritesEnd /\ SequentialInv /\ SequentialInv'
        /\ Constrained' /\ [Next]_vars => [Calendar!Next]_(Calendar!vars)
  BY StepRefines DEF SequentialInv
<1> QED
  BY <1>1, <1>2, TypeCorrect, CloseWritesEndAlways, SequentialAlways,
     ConstrainedAlways, PTL
  DEF Spec, ImplementsCalendar, Calendar!Spec

=============================================================================
