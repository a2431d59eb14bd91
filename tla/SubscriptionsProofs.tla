------------------------- MODULE SubscriptionsProofs -------------------------
(***************************************************************************)
(* Theorems about Subscriptions, for any number of events, deliveries and  *)
(* interruptions.                                                          *)
(*                                                                         *)
(* The row takes a paid tier from an event or from a plan change.  A plan  *)
(* change writes its tier after Paddle has agreed to it, and thus after an *)
(* event that says so; IInv remembers that event while the request is at   *)
(* work.  The write does not look at the subscription the row is linked to *)
(* meanwhile, so the event may be of another one of the user's.            *)
(*                                                                         *)
(* What settles is proved for events in order (OneAtATime): the rows that  *)
(* the events make one after another exist (RowsAfter), the last agrees    *)
(* with Paddle (Shows), and the row of the table is one of them, that of   *)
(* the events answered or one further (Progress), but for a tier that a    *)
(* plan change has written and an event that is still to come will write   *)
(* as well (PlanTold).                                                     *)
(***************************************************************************)
EXTENDS Subscriptions, TLAPS

States == [status : {"none", "active", "trialing", "past_due", "paused", "canceled"},
           tier : Paid, scheduled : BOOLEAN]

Rows == [tier : Paid \cup {"FREE"},
         status : {"ACTIVE", "TRIALING", "PAST_DUE", "CANCELED", "PAUSED"},
         sub : Subs \cup {None}, canceledAt : BOOLEAN]

Deliveries == [pc : {"idle", "process", "mark", "respond"}, event : {0} \cup EventIds, ok : BOOLEAN]

UserRequests ==
    [pc : {"idle", "cancel", "saveCancel", "reactivate", "saveClear", "clear", "clearSave",
           "update", "savePlan"},
     sub : Subs \cup {None}, target : Paid \cup {"FREE"}, upgrade : BOOLEAN]

\* Paddle has agreed to a change to the tier t.
Agreed(events, t) == \E e \in DOMAIN events : events[e].type = "updated" /\ events[e].tier = t

\* Paddle has reported the tier t, of the subscription s or in agreeing to a change.
Reported(events, s, t) ==
    Agreed(events, t) \/ \E e \in DOMAIN events : events[e].sub = s /\ events[e].tier = t

\* A delivery is of an event that was sent.
HandlersInv == \A h \in Handlers : handlers[h].pc # "idle" => handlers[h].event \in DOMAIN sent

\* A request is about a subscription, one that the row was linked to, and a plan
\* is written after Paddle has agreed to it.
RequestInv ==
    /\ api.pc # "idle" => Plans /\ api.sub \in Subs /\ row.sub # None
    /\ api.pc \in {"clear", "clearSave", "update", "savePlan"} => api.target \in Paid
    /\ api.pc = "savePlan" => Agreed(sent, api.target)

IInv == TypeOK /\ HandlersInv /\ RequestInv

LEMMA TypesNamed ==
    TypeOK <=>
        /\ paddle \in [Subs -> States]
        /\ sent \in Seq(Event) /\ Len(sent) <= MaxEvents
        /\ acked \subseteq DOMAIN sent
        /\ stored \in [EventIds -> {"absent", "stored", "processed"}]
        /\ applied \in SUBSET EventIds
        /\ row \in Rows
        /\ handlers \in [Handlers -> Deliveries]
        /\ api \in UserRequests
        /\ late \subseteq Subs
        /\ errors \in 0 .. MaxErrors
        /\ drops \in 0 .. MaxDrops
  BY DEF TypeOK, States, Rows, Deliveries, UserRequests

-----------------------------------------------------------------------------
(* Paddle *)

\* The events that have been sent stay what they are.
LEMMA EventSent ==
    ASSUME TypeOK,
           NEW s \in Subs, NEW p \in States, NEW type \in ByUser \cup BySubscription,
           PaddleChanges(s, p, type)
    PROVE  /\ paddle' \in [Subs -> States]
           /\ sent' \in Seq(Event) /\ Len(sent') <= MaxEvents
           /\ DOMAIN sent \subseteq DOMAIN sent'
           /\ \A e \in DOMAIN sent : sent'[e] = sent[e]
           /\ \E e \in DOMAIN sent' : sent'[e].type = type /\ sent'[e].tier = p.tier
<1> DEFINE event == [type |-> type, sub |-> s, tier |-> p.tier, scheduled |-> p.scheduled]
<1>1. event \in Event
  BY DEF Event, States
<1>2. sent \in Seq(Event) /\ Len(sent) < MaxEvents /\ sent' = Append(sent, event)
      /\ MaxEvents \in Nat
  BY SubscriptionsAssumption DEF TypeOK, PaddleChanges
<1>3. paddle' \in [Subs -> States]
  BY TypesNamed DEF PaddleChanges
<1> HIDE DEF event
<1>4. /\ sent' \in Seq(Event) /\ Len(sent') = Len(sent) + 1
      /\ DOMAIN sent = 1 .. Len(sent) /\ DOMAIN sent' = 1 .. Len(sent) + 1
      /\ \A e \in DOMAIN sent : sent'[e] = sent[e]
      /\ sent'[Len(sent) + 1] = event
  BY <1>1, <1>2
<1>5. Len(sent') <= MaxEvents /\ DOMAIN sent \subseteq DOMAIN sent'
      /\ Len(sent) + 1 \in DOMAIN sent'
  BY <1>2, <1>4
<1>6. \E e \in DOMAIN sent' : sent'[e].type = type /\ sent'[e].tier = p.tier
  BY <1>4, <1>5 DEF event
<1> QED
  BY <1>3, <1>4, <1>5, <1>6

\* What a step of Paddle does to the rest: nothing is taken back.
Emitted ==
    /\ paddle' \in [Subs -> States]
    /\ sent' \in Seq(Event) /\ Len(sent') <= MaxEvents
    /\ DOMAIN sent \subseteq DOMAIN sent'
    /\ \A e \in DOMAIN sent : sent'[e] = sent[e]

LEMMA ReportedStays ==
    ASSUME Emitted, NEW t
    PROVE  /\ Agreed(sent, t) => Agreed(sent', t)
           /\ \A s : Reported(sent, s, t) => Reported(sent', s, t)
  BY DEF Emitted, Agreed, Reported

LEMMA StatePuts ==
    ASSUME NEW p \in States
    PROVE  /\ \A to \in {"active", "past_due", "paused", "canceled"} :
                [p EXCEPT !.status = to] \in States
           /\ [p EXCEPT !.status = "canceled", !.scheduled = FALSE] \in States
           /\ \A to \in BOOLEAN : [p EXCEPT !.scheduled = to] \in States
           /\ \A to \in Paid : [p EXCEPT !.tier = to] \in States
  BY DEF States

LEMMA PaddleEmits == ASSUME TypeOK, PaddleStep PROVE Emitted
<1> PICK s \in Subs : Checkout(s) \/ Billing(s) \/ PortalChange(s)
  BY DEF PaddleStep
<1>1. paddle[s] \in States
  BY TypesNamed
<1>2. \E p \in States, type \in ByUser \cup BySubscription : PaddleChanges(s, p, type)
  <2>1. CASE Checkout(s)
    <3> PICK t \in Paid, new \in {[status |-> "active", type |-> "created"],
                                  [status |-> "trialing", type |-> "trialing"]} :
            PaddleChanges(s, [status |-> new.status, tier |-> t, scheduled |-> FALSE], new.type)
      BY <2>1 DEF Checkout
    <3>1. [status |-> new.status, tier |-> t, scheduled |-> FALSE] \in States
      BY DEF States
    <3>2. new.type \in ByUser \cup BySubscription
      BY DEF ByUser
    <3> QED
      BY <3>1, <3>2
  <2>2. CASE Billing(s)
    <3>1. \A to \in {"active", "past_due", "paused"} : [paddle[s] EXCEPT !.status = to] \in States
      BY <1>1, StatePuts
    <3>2. [paddle[s] EXCEPT !.status = "canceled", !.scheduled = FALSE] \in States
      BY <1>1, StatePuts
    <3>3. {"activated", "past_due", "paused", "resumed", "canceled"}
            \subseteq ByUser \cup BySubscription
      BY DEF ByUser, BySubscription
    <3>4. \/ \E to \in {"active", "past_due", "paused"},
               type \in {"activated", "past_due", "paused", "resumed"} :
                PaddleChanges(s, [paddle[s] EXCEPT !.status = to], type)
          \/ PaddleChanges(s, [paddle[s] EXCEPT !.status = "canceled", !.scheduled = FALSE],
                           "canceled")
      BY <2>2, Zenon DEF Billing
    <3> QED
      BY <3>1, <3>2, <3>3, <3>4
  <2>3. CASE PortalChange(s)
    <3>1. [paddle[s] EXCEPT !.scheduled = ~@] \in States
      BY <1>1 DEF States
    <3> QED
      BY <3>1, <2>3 DEF PortalChange, BySubscription
  <2> QED
    BY <2>1, <2>2, <2>3
<1> QED
  BY <1>2, EventSent DEF Emitted

\* A request calls Paddle for the subscription it is about.
LEMMA CallEmits ==
    ASSUME TypeOK, NEW s \in Subs, NEW p \in States, CallPaddle(s, p)
    PROVE  Emitted /\ Agreed(sent', p.tier)
  BY EventSent DEF CallPaddle, Emitted, Agreed, BySubscription

-----------------------------------------------------------------------------
(* The row *)

\* An event makes a row of a row, linked if it was linked before.
LEMMA RowTyped ==
    ASSUME NEW r \in Rows, NEW ev \in Event
    PROVE  /\ Processed(r, ev) \in Rows
           /\ r.sub # None => Processed(r, ev).sub # None
<1>1. CASE ev.type \in {"created", "activated", "trialing"}
  BY <1>1, SubscriptionsAssumption DEF Processed, NewRow, Rows, Event
<1>2. CASE ev.type = "updated"
  BY <1>2 DEF Processed, UpdatedRow, Rows, Event
<1>3. CASE ev.type = "canceled"
  BY <1>3 DEF Processed, CanceledRow, Rows
<1>4. CASE ev.type \in {"past_due", "paused", "resumed"}
  BY <1>4 DEF Processed, Rows
<1> QED
  BY <1>1, <1>2, <1>3, <1>4 DEF Event, ByUser, BySubscription

-----------------------------------------------------------------------------
(* Deliveries *)

LEMMA SentIds == ASSUME TypeOK PROVE DOMAIN sent \subseteq EventIds
<1>1. sent \in Seq(Event) /\ Len(sent) <= MaxEvents /\ MaxEvents \in Nat
  BY SubscriptionsAssumption DEF TypeOK
<1>2. DOMAIN sent = 1 .. Len(sent) /\ Len(sent) \in Nat
  BY <1>1
<1> QED
  BY <1>1, <1>2 DEF EventIds

\* A step of a delivery h that leaves the row and Paddle alone.
LEMMA DeliveryKeeps ==
    ASSUME IInv, NEW h \in Handlers, NEW d \in Deliveries,
           d.pc # "idle" => d.event \in DOMAIN sent,
           handlers' = [handlers EXCEPT ![h] = d],
           stored' \in [EventIds -> {"absent", "stored", "processed"}],
           acked' \subseteq DOMAIN sent, errors' \in 0 .. MaxErrors, drops' \in 0 .. MaxDrops,
           UNCHANGED <<paddle, sent, applied, row, api, late>>
    PROVE  IInv'
<1>1. TypeOK /\ handlers \in [Handlers -> Deliveries]
  BY TypesNamed DEF IInv
<1>2. handlers' \in [Handlers -> Deliveries]
  BY <1>1
<1>3. TypeOK'
  BY <1>1, <1>2 DEF TypeOK, Deliveries
<1>4. HandlersInv'
  BY <1>1 DEF IInv, HandlersInv
<1>5. RequestInv'
  BY DEF IInv, RequestInv, Agreed
<1> QED
  BY <1>3, <1>4, <1>5 DEF IInv

LEMMA ReceiveKeeps ==
    ASSUME IInv, NEW h \in Handlers, NEW e \in EventIds, Receive(h, e)
    PROVE  IInv'
<1> DEFINE d == [pc |-> IF stored[e] = "processed" THEN "respond" ELSE "process",
                 event |-> e, ok |-> TRUE]
<1>1. TypeOK
  BY DEF IInv
<1>2. d \in Deliveries /\ e \in DOMAIN sent
  BY DEF Receive, Deliveries
<1>3. handlers' = [handlers EXCEPT ![h] = d]
      /\ UNCHANGED <<paddle, sent, applied, row, api, late, acked, errors, drops>>
  BY DEF Receive
<1>4. stored' \in [EventIds -> {"absent", "stored", "processed"}]
  BY <1>1 DEF Receive, TypeOK
<1>5. acked' \subseteq DOMAIN sent /\ errors' \in 0 .. MaxErrors /\ drops' \in 0 .. MaxDrops
  BY <1>1, <1>3 DEF TypeOK
<1>6. d.event = e
  OBVIOUS
<1> HIDE DEF d
<1> QED
  BY <1>2, <1>3, <1>4, <1>5, <1>6, DeliveryKeeps

\* What a delivery at work is of, and becomes.
LEMMA AtWork ==
    ASSUME IInv, NEW h \in Handlers, handlers[h].pc # "idle"
    PROVE  /\ handlers[h] \in Deliveries
           /\ handlers[h].event \in DOMAIN sent /\ handlers[h].event \in EventIds
           /\ sent[handlers[h].event] \in Event
           /\ \A pc \in {"mark", "respond"} :
                /\ [handlers[h] EXCEPT !.pc = pc] \in Deliveries
                /\ [handlers[h] EXCEPT !.pc = pc].event = handlers[h].event
           /\ [handlers[h] EXCEPT !.pc = "mark", !.ok = FALSE] \in Deliveries
           /\ [handlers[h] EXCEPT !.pc = "mark", !.ok = FALSE].event = handlers[h].event
           /\ Resting \in Deliveries /\ Resting.pc = "idle"
<1>1. TypeOK /\ handlers[h] \in Deliveries
  BY TypesNamed DEF IInv
<1>2. handlers[h].event \in DOMAIN sent
  BY DEF IInv, HandlersInv
<1>3. sent[handlers[h].event] \in Event
  BY <1>1, <1>2 DEF TypeOK
<1>4. handlers[h].event \in EventIds
  BY <1>1, <1>2, SentIds
<1> QED
  BY <1>1, <1>2, <1>3, <1>4 DEF Deliveries, Resting

LEMMA ProcessKeeps == ASSUME IInv, NEW h \in Handlers, Process(h) PROVE IInv'
<1> DEFINE e == handlers[h].event
           d == [handlers[h] EXCEPT !.pc = "mark"]
<1>1. handlers[h].pc = "process" /\ TypeOK /\ row \in Rows /\ handlers \in [Handlers -> Deliveries]
      /\ applied \in SUBSET EventIds
  BY TypesNamed DEF Process, IInv
<1>2. e \in DOMAIN sent /\ e \in EventIds /\ sent[e] \in Event /\ d \in Deliveries /\ d.event = e
  BY <1>1, AtWork
<1>3. /\ handlers' = [handlers EXCEPT ![h] = d]
      /\ row' = Processed(row, sent[e])
      /\ applied' = applied \cup {e}
      /\ UNCHANGED <<paddle, sent, acked, stored, api, late, errors, drops>>
  BY DEF Process
<1> HIDE DEF e, d
<1>4. row' \in Rows /\ (row.sub # None => row'.sub # None)
  BY <1>1, <1>2, <1>3, RowTyped
<1>5. handlers' \in [Handlers -> Deliveries]
  BY <1>1, <1>2, <1>3
<1>6. applied' \in SUBSET EventIds
  BY <1>1, <1>2, <1>3
<1>7. TypeOK'
  BY <1>1, <1>3, <1>4, <1>5, <1>6 DEF TypeOK, Rows, Deliveries
<1>8. HandlersInv'
  BY <1>1, <1>2, <1>3 DEF IInv, HandlersInv
<1>9. RequestInv'
  BY <1>3, <1>4 DEF IInv, RequestInv, Agreed
<1> QED
  BY <1>7, <1>8, <1>9 DEF IInv

LEMMA OtherDeliverySteps ==
    ASSUME IInv, NEW h \in Handlers, ProcessThrows(h) \/ Mark(h) \/ Respond(h) \/ Drop(h)
    PROVE  IInv'
<1>1. TypeOK /\ handlers[h].pc # "idle" /\ UNCHANGED <<paddle, sent, applied, row, api, late>>
  BY DEF IInv, ProcessThrows, Mark, Respond, Drop
<1>2. /\ acked \subseteq DOMAIN sent /\ errors \in 0 .. MaxErrors /\ drops \in 0 .. MaxDrops
      /\ stored \in [EventIds -> {"absent", "stored", "processed"}]
      /\ MaxErrors \in Nat /\ MaxDrops \in Nat
  BY <1>1, SubscriptionsAssumption DEF TypeOK
<1>3. CASE ProcessThrows(h)
  <2>1. handlers' = [handlers EXCEPT ![h] = [handlers[h] EXCEPT !.pc = "mark", !.ok = FALSE]]
    BY <1>1, <1>3, TypesNamed DEF ProcessThrows
  <2>2. errors' \in 0 .. MaxErrors /\ UNCHANGED <<acked, stored, drops>>
    BY <1>2, <1>3 DEF ProcessThrows
  <2> DEFINE d == [handlers[h] EXCEPT !.pc = "mark", !.ok = FALSE]
  <2>3. d \in Deliveries /\ d.event \in DOMAIN sent
    BY <1>1, AtWork
  <2> HIDE DEF d
  <2> QED
    BY <1>1, <1>2, <2>1, <2>2, <2>3, DeliveryKeeps DEF d
<1>4. CASE Mark(h)
  <2> DEFINE d == IF handlers[h].ok THEN [handlers[h] EXCEPT !.pc = "respond"] ELSE Resting
  <2>1. handlers' = [handlers EXCEPT ![h] = d]
    BY <1>4 DEF Mark
  <2>2. d \in Deliveries /\ (d.pc # "idle" => d.event \in DOMAIN sent)
    BY <1>1, AtWork
  <2>3. stored' \in [EventIds -> {"absent", "stored", "processed"}]
        /\ UNCHANGED <<acked, errors, drops>>
    BY <1>2, <1>4 DEF Mark
  <2> HIDE DEF d
  <2> QED
    BY <1>1, <1>2, <2>1, <2>2, <2>3, DeliveryKeeps
<1>5. CASE Respond(h) \/ Drop(h)
  <2>1. handlers' = [handlers EXCEPT ![h] = Resting] /\ UNCHANGED <<stored, errors>>
    BY <1>5 DEF Respond, Drop
  <2>2. acked' \subseteq DOMAIN sent /\ drops' \in 0 .. MaxDrops
    <3>1. handlers[h].event \in DOMAIN sent
      BY <1>1, AtWork
    <3>2. CASE Respond(h)
      BY <1>2, <3>1, <3>2 DEF Respond
    <3>3. CASE Drop(h)
      BY <1>2, <3>3 DEF Drop
    <3> QED
      BY <1>5, <3>2, <3>3
  <2> QED
    BY <1>1, <1>2, <2>1, <2>2, AtWork, DeliveryKeeps
<1> QED
  BY <1>3, <1>4, <1>5

-----------------------------------------------------------------------------
(* The user's requests *)

LEMMA NoRequestTyped == NoRequest \in UserRequests /\ NoRequest.pc = "idle"
  BY DEF NoRequest, UserRequests

\* A request that goes on to be q, with or without an event of Paddle.
LEMMA RequestKeeps ==
    ASSUME IInv, NEW q \in UserRequests, api' = q, row' \in Rows, late' \subseteq Subs,
           Emitted \/ UNCHANGED <<paddle, sent>>,
           row.sub # None => row'.sub # None,
           q.pc # "idle" => Plans /\ q.sub \in Subs /\ row'.sub # None,
           q.pc \in {"clear", "clearSave", "update", "savePlan"} => q.target \in Paid,
           q.pc = "savePlan" => Agreed(sent', q.target),
           drops' \in 0 .. MaxDrops,
           UNCHANGED <<acked, stored, applied, handlers, errors>>
    PROVE  IInv'
<1>1. TypeOK
  BY DEF IInv
<1>2. /\ paddle' \in [Subs -> States] /\ sent' \in Seq(Event) /\ Len(sent') <= MaxEvents
      /\ DOMAIN sent \subseteq DOMAIN sent'
  BY <1>1, TypesNamed DEF Emitted
<1>3. acked' \subseteq DOMAIN sent'
  BY <1>1, <1>2 DEF TypeOK
<1>4. TypeOK'
  BY <1>1, <1>2, <1>3 DEF TypeOK, States, Rows, UserRequests
<1>5. HandlersInv'
  BY <1>2 DEF IInv, HandlersInv
<1>6. RequestInv'
  BY DEF RequestInv
<1> QED
  BY <1>4, <1>5, <1>6 DEF IInv

LEMMA PaddleKeeps == ASSUME IInv, PaddleStep PROVE IInv'
<1>1. TypeOK /\ api \in UserRequests /\ row \in Rows /\ late \subseteq Subs
      /\ drops \in 0 .. MaxDrops
  BY TypesNamed DEF IInv
<1>2. Emitted
  BY <1>1, PaddleEmits
<1>3. UNCHANGED <<acked, stored, applied, row, handlers, api, late, errors, drops>>
  BY DEF PaddleStep
<1>4. RequestInv
  BY DEF IInv
<1>5. api.pc = "savePlan" => Agreed(sent', api.target)
  BY <1>2, <1>4, ReportedStays DEF RequestInv
<1>6. /\ api.pc # "idle" => Plans /\ api.sub \in Subs /\ row'.sub # None
      /\ api.pc \in {"clear", "clearSave", "update", "savePlan"} => api.target \in Paid
  BY <1>3, <1>4 DEF RequestInv
<1>7. api' = api /\ row' \in Rows /\ (row.sub # None => row'.sub # None) /\ drops' \in 0 .. MaxDrops
      /\ late' \subseteq Subs /\ (api.pc = "savePlan" => Agreed(sent', api.target))
  BY <1>1, <1>3, <1>5
<1> DEFINE q == api
<1>8. q \in UserRequests /\ api' = q
  BY <1>1, <1>7
<1> QED
  BY <1>1, <1>2, <1>3, <1>6, <1>7, <1>8, RequestKeeps

LEMMA RequestBegins ==
    ASSUME IInv, CancelSubscription \/ ReactivateSubscription \/ \E t \in Paid : ChangePlan(t)
    PROVE  IInv'
<1>1. TypeOK /\ row \in Rows /\ late \subseteq Subs /\ drops \in 0 .. MaxDrops
  BY TypesNamed DEF IInv
<1> DEFINE Begun(q) ==
        /\ api' = q /\ q.sub = row.sub
        /\ \/ q.pc \in {"cancel", "reactivate"}
           \/ q.pc \in {"clear", "update"} /\ q.target \in Paid
<1>2. \E q \in UserRequests : Begun(q)
  <2>1. ASSUME NEW pc \in {"cancel", "reactivate"}, Request(pc)
        PROVE  \E q \in UserRequests : Begun(q)
    <3>1. api' = [NoRequest EXCEPT !.pc = pc, !.sub = row.sub]
      BY <2>1 DEF Request, ApiStep
    <3>2. [NoRequest EXCEPT !.pc = pc, !.sub = row.sub] \in UserRequests
      BY <1>1 DEF NoRequest, UserRequests, Rows
    <3>3. /\ [NoRequest EXCEPT !.pc = pc, !.sub = row.sub].pc = pc
          /\ [NoRequest EXCEPT !.pc = pc, !.sub = row.sub].sub = row.sub
      BY DEF NoRequest
    <3> QED
      BY <3>1, <3>2, <3>3
  <2>2. ASSUME NEW t \in Paid, ChangePlan(t)
        PROVE  \E q \in UserRequests : Begun(q)
    <3> DEFINE up == Order[t] > Order[row.tier]
               q == [pc |-> IF row.canceledAt THEN "clear" ELSE "update",
                     sub |-> row.sub, target |-> t, upgrade |-> up]
    <3>1. api' = q
      BY <2>2 DEF ChangePlan, ApiStep
    <3>2. up \in BOOLEAN
      <4>1. Order[t] \in Nat /\ Order[row.tier] \in Nat
        BY <1>1 DEF Order, Rows, Paid
      <4> QED
        BY <4>1
    <3> HIDE DEF up
    <3>3. q \in UserRequests /\ q.sub = row.sub /\ q.pc \in {"clear", "update"} /\ q.target = t
      BY <1>1, <3>2 DEF UserRequests, Rows
    <3> HIDE DEF q
    <3> QED
      BY <3>1, <3>3
  <2> QED
    BY <2>1, <2>2 DEF CancelSubscription, ReactivateSubscription
<1>3. Plans /\ row.sub # None
      /\ UNCHANGED <<paddle, sent, row, acked, stored, applied, handlers, late, errors, drops>>
  BY DEF CancelSubscription, ReactivateSubscription, ChangePlan, Request, ApiStep
<1>4. row.sub \in Subs
  BY <1>1, <1>3 DEF Rows
<1>5. PICK q \in UserRequests : Begun(q)
  BY <1>2
<1>6. /\ row' \in Rows /\ late' \subseteq Subs /\ drops' \in 0 .. MaxDrops
      /\ q.pc # "idle" => Plans /\ q.sub \in Subs /\ row'.sub # None
      /\ q.pc \in {"clear", "clearSave", "update", "savePlan"} => q.target \in Paid
      /\ q.pc # "savePlan" /\ row' = row
  BY <1>1, <1>3, <1>4, <1>5
<1> QED
  BY <1>3, <1>5, <1>6, RequestKeeps

\* What is known of a request at work.
LEMMA RequestAtWork ==
    ASSUME IInv, api.pc # "idle"
    PROVE  /\ TypeOK /\ api \in UserRequests /\ row \in Rows /\ drops \in 0 .. MaxDrops
           /\ late \subseteq Subs
           /\ Plans /\ api.sub \in Subs /\ row.sub # None /\ paddle[api.sub] \in States
           /\ \A pc \in {"saveCancel", "saveClear", "clearSave", "update", "savePlan"} :
                /\ [api EXCEPT !.pc = pc] \in UserRequests
                /\ [api EXCEPT !.pc = pc].pc = pc
                /\ [api EXCEPT !.pc = pc].sub = api.sub
                /\ [api EXCEPT !.pc = pc].target = api.target
<1>1. TypeOK /\ api \in UserRequests /\ row \in Rows /\ drops \in 0 .. MaxDrops
      /\ paddle \in [Subs -> States] /\ late \subseteq Subs
  BY TypesNamed DEF IInv
<1>2. Plans /\ api.sub \in Subs /\ row.sub # None
  BY DEF IInv, RequestInv
<1> QED
  BY <1>1, <1>2 DEF UserRequests

\* The steps that call Paddle.
LEMMA CallKeeps ==
    ASSUME IInv, api.pc # "idle", NEW p \in States,
           NEW pc \in {"saveCancel", "saveClear", "clearSave", "savePlan"},
           CallPaddle(api.sub, p), ApiStep([api EXCEPT !.pc = pc]), UNCHANGED <<row, late>>,
           pc \in {"clearSave", "savePlan"} => api.pc \in {"clear", "update"},
           pc = "savePlan" => p.tier = api.target
    PROVE  IInv'
<1> DEFINE q == [api EXCEPT !.pc = pc]
<1>1. /\ TypeOK /\ row \in Rows /\ drops \in 0 .. MaxDrops /\ late \subseteq Subs
      /\ Plans /\ api.sub \in Subs /\ row.sub # None
      /\ q \in UserRequests /\ q.pc = pc /\ q.sub = api.sub /\ q.target = api.target
  BY RequestAtWork
<1>2. api' = q /\ UNCHANGED <<acked, stored, applied, handlers, errors, drops>>
  BY DEF ApiStep
<1> HIDE DEF q
<1>3. Emitted /\ Agreed(sent', p.tier)
  BY <1>1, CallEmits
<1>4. q.pc \in {"clear", "clearSave", "update", "savePlan"} => q.target \in Paid
  BY <1>1 DEF IInv, RequestInv
<1>5. q.pc = "savePlan" => Agreed(sent', q.target)
  BY <1>1, <1>3
<1> QED
  BY <1>1, <1>2, <1>3, <1>4, <1>5, RequestKeeps

LEMMA RequestCalls ==
    ASSUME IInv, CancelAtPaddle \/ ClearAtPaddle \/ ClearScheduledChange \/ UpdateSubscription
    PROVE  IInv'
<1>1. api.pc \in {"cancel", "reactivate", "clear", "update"}
  BY DEF CancelAtPaddle, ClearAtPaddle, ClearScheduledChange, UpdateSubscription
<1>2. paddle[api.sub] \in States
  BY <1>1, RequestAtWork
<1>3. /\ [paddle[api.sub] EXCEPT !.scheduled = TRUE] \in States
      /\ [paddle[api.sub] EXCEPT !.scheduled = FALSE] \in States
  BY <1>2, StatePuts
<1>4. CASE CancelAtPaddle
  BY <1>1, <1>3, <1>4, CallKeeps DEF CancelAtPaddle
<1>5. CASE ClearAtPaddle
  BY <1>1, <1>3, <1>5, CallKeeps DEF ClearAtPaddle
<1>6. CASE ClearScheduledChange
  BY <1>1, <1>3, <1>6, CallKeeps DEF ClearScheduledChange
<1>7. CASE UpdateSubscription
  <2>1. api.target \in Paid /\ api.pc = "update"
    BY <1>7 DEF UpdateSubscription, IInv, RequestInv
  <2>2. /\ [paddle[api.sub] EXCEPT !.tier = api.target] \in States
        /\ [paddle[api.sub] EXCEPT !.tier = api.target].tier = api.target
    BY <1>2, <2>1 DEF States
  <2> QED
    BY <1>7, <2>1, <2>2, CallKeeps DEF UpdateSubscription
<1> QED
  BY <1>4, <1>5, <1>6, <1>7

\* The steps that write the row, and the end of a request.
LEMMA RequestWrites ==
    ASSUME IInv, SaveCancel \/ SaveClear \/ SaveScheduledChange \/ SavePlan \/ ApiFails
    PROVE  IInv'
<1>1. api.pc # "idle"
  BY DEF SaveCancel, SaveClear, SaveScheduledChange, SavePlan, ApiFails
<1>2. /\ row \in Rows /\ drops \in 0 .. MaxDrops /\ Plans /\ api.sub \in Subs /\ row.sub # None
      /\ api \in UserRequests /\ late \subseteq Subs
      /\ [api EXCEPT !.pc = "update"] \in UserRequests
      /\ [api EXCEPT !.pc = "update"].pc = "update"
      /\ [api EXCEPT !.pc = "update"].sub = api.sub
      /\ [api EXCEPT !.pc = "update"].target = api.target
  BY <1>1, RequestAtWork
<1>3. row' \in Rows /\ row'.sub # None /\ late' \subseteq Subs
  <2>1. row' \in Rows /\ row'.sub # None
    BY <1>2 DEF SaveCancel, SaveClear, SaveScheduledChange, SavePlan, ApiFails, Rows, UserRequests
  <2>2. late' \subseteq Subs
    BY <1>2 DEF SaveCancel, SaveClear, SaveScheduledChange, SavePlan, ApiFails
  <2> QED
    BY <2>1, <2>2
<1>4. UNCHANGED <<paddle, sent, acked, stored, applied, handlers, errors>>
      /\ drops' \in 0 .. MaxDrops
  BY <1>2, SubscriptionsAssumption
     DEF SaveCancel, SaveClear, SaveScheduledChange, SavePlan, ApiFails, ApiStep
<1>5. CASE SaveScheduledChange
  <2>1. api' = [api EXCEPT !.pc = "update"]
    BY <1>5 DEF SaveScheduledChange, ApiStep
  <2>2. api.target \in Paid
    BY <1>5 DEF SaveScheduledChange, IInv, RequestInv
  <2> DEFINE q == [api EXCEPT !.pc = "update"]
  <2>3. /\ api' = q /\ q \in UserRequests /\ q.pc = "update" /\ q.sub \in Subs /\ q.target \in Paid
    BY <1>2, <2>1, <2>2
  <2> HIDE DEF q
  <2> QED
    BY <1>2, <1>3, <1>4, <2>3, RequestKeeps
<1>6. CASE SaveCancel \/ SaveClear \/ SavePlan \/ ApiFails
  <2>1. api' = NoRequest
    BY <1>6 DEF SaveCancel, SaveClear, SavePlan, ApiFails, ApiStep
  <2> QED
    BY <1>3, <1>4, <2>1, NoRequestTyped, RequestKeeps
<1> QED
  BY <1>5, <1>6

-----------------------------------------------------------------------------
(* Theorems *)

LEMMA InitInv == Init => IInv
<1> SUFFICES ASSUME Init PROVE IInv
  OBVIOUS
<1>1. [s \in Subs |-> [status |-> "none", tier |-> "PRO", scheduled |-> FALSE]] \in [Subs -> States]
  BY DEF States, Paid
<1>2. sent \in Seq(Event) /\ Len(sent) <= MaxEvents
  BY SubscriptionsAssumption DEF Init
<1>3. handlers \in [Handlers -> Deliveries]
  BY DEF Init, Resting, Deliveries
<1>4. row \in Rows
  BY DEF Init, Rows
<1>5. errors \in 0 .. MaxErrors /\ drops \in 0 .. MaxDrops
  BY SubscriptionsAssumption DEF Init
<1>6. TypeOK
  BY <1>1, <1>2, <1>3, <1>4, <1>5, NoRequestTyped, TypesNamed DEF Init
<1>7. HandlersInv /\ RequestInv
  BY DEF Init, HandlersInv, RequestInv, Resting, NoRequest
<1> QED
  BY <1>6, <1>7 DEF IInv

LEMMA NextInv == IInv /\ [Next]_vars => IInv'
<1> SUFFICES ASSUME IInv, [Next]_vars PROVE IInv'
  OBVIOUS
<1>1. CASE PaddleStep
  BY <1>1, PaddleKeeps
<1>2. ASSUME NEW h \in Handlers, HandlerStep(h) PROVE IInv'
  BY <1>2, ReceiveKeeps, ProcessKeeps, OtherDeliverySteps DEF HandlerStep
<1>3. CASE RequestStep
  BY <1>3, RequestBegins, RequestCalls, RequestWrites DEF RequestStep
<1>4. CASE UNCHANGED vars
  BY <1>4 DEF vars, IInv, TypeOK, HandlersInv, RequestInv, Agreed
<1> QED
  BY <1>1, <1>2, <1>3, <1>4 DEF Next

LEMMA AlwaysInv == Spec => []IInv
  BY InitInv, NextInv, PTL DEF Spec

\* The row, the table of webhook events, what is at work and what is at Paddle
\* have the types declared for them, however deliveries and requests interleave.
THEOREM TypeCorrect == Spec => []TypeOK
<1>1. IInv => TypeOK
  BY DEF IInv
<1> QED
  BY <1>1, AlwaysInv, PTL

\* An event that is applied reports what it makes of the row.
LEMMA ProcessedReported ==
    ASSUME IInv, PaidTierFromPaddle, NEW h \in Handlers, Process(h)
    PROVE  row'.tier # "FREE" => Reported(sent, row'.sub, row'.tier)
<1> DEFINE e == handlers[h].event
           ev == sent[e]
<1>1. handlers[h].pc = "process" /\ row' = Processed(row, ev) /\ ~NoSuchRow(ev)
  BY DEF Process
<1>2. e \in DOMAIN sent /\ ev \in Event
  BY <1>1, AtWork
<1>3. row \in Rows
  BY TypesNamed DEF IInv
<1>4. row.tier # "FREE" => Reported(sent, row.sub, row.tier)
  BY DEF PaidTierFromPaddle, Reported, Agreed
<1>5. Reported(sent, ev.sub, ev.tier)
  BY <1>2 DEF Reported
<1> HIDE DEF e, ev
<1>6. CASE ev.type \in {"created", "activated", "trialing"}
  BY <1>1, <1>5, <1>6 DEF Processed, NewRow
<1>7. CASE ev.type = "updated"
  <2>1. ev.sub = row.sub
    BY <1>1, <1>7 DEF NoSuchRow, BySubscription
  <2>2. row'.tier = ev.tier /\ row'.sub = row.sub
    BY <1>1, <1>3, <1>7 DEF Processed, UpdatedRow, Rows
  <2> QED
    BY <1>5, <2>1, <2>2
<1>8. CASE ev.type = "canceled"
  BY <1>1, <1>3, <1>8 DEF Processed, CanceledRow, Rows
<1>9. CASE ev.type \in {"past_due", "paused", "resumed"}
  <2>1. row'.tier = row.tier /\ row'.sub = row.sub
    BY <1>1, <1>3, <1>9 DEF Processed, Rows
  <2> QED
    BY <1>4, <2>1
<1> QED
  BY <1>2, <1>6, <1>7, <1>8, <1>9 DEF Event, ByUser, BySubscription

\* Paddle has agreed to the plan that is written.
LEMMA PlanReported ==
    ASSUME IInv, PaidTierFromPaddle, SavePlan
    PROVE  row'.tier # "FREE" => Reported(sent, row'.sub, row'.tier)
<1>1. api.pc = "savePlan"
  BY DEF SavePlan
<1>2. row \in Rows
  BY <1>1, RequestAtWork
<1>3. Agreed(sent, api.target)
  BY <1>1 DEF IInv, RequestInv
<1>4. row'.sub = row.sub /\ (row'.tier = api.target \/ row'.tier = row.tier)
  BY <1>2 DEF SavePlan, Rows
<1>5. row.tier # "FREE" => Reported(sent, row.sub, row.tier)
  BY DEF PaidTierFromPaddle, Reported, Agreed
<1> QED
  BY <1>3, <1>4, <1>5 DEF Reported

LEMMA TierKept ==
    ASSUME IInv, PaidTierFromPaddle, [Next]_vars
    PROVE  PaidTierFromPaddle'
<1>1. TypeOK /\ row \in Rows
  BY TypesNamed DEF IInv
<1>2. row.tier # "FREE" => Reported(sent, row.sub, row.tier)
  BY DEF PaidTierFromPaddle, Reported, Agreed
<1> SUFFICES row'.tier # "FREE" => Reported(sent', row'.sub, row'.tier)
  BY DEF PaidTierFromPaddle, Reported, Agreed
<1>3. ASSUME row'.sub = row.sub, row'.tier = row.tier, Emitted \/ sent' = sent
      PROVE  row'.tier # "FREE" => Reported(sent', row'.sub, row'.tier)
  BY <1>2, <1>3, ReportedStays
<1>4. CASE PaddleStep
  BY <1>1, <1>3, <1>4, PaddleEmits DEF PaddleStep
<1>5. ASSUME NEW h \in Handlers, HandlerStep(h)
      PROVE  row'.tier # "FREE" => Reported(sent', row'.sub, row'.tier)
  <2>1. CASE Process(h)
    BY <2>1, ProcessedReported DEF Process
  <2>2. CASE ~Process(h)
    BY <1>3, <1>5, <2>2 DEF HandlerStep, Receive, ProcessThrows, Mark, Respond, Drop
  <2> QED
    BY <2>1, <2>2
<1>6. CASE CancelSubscription \/ ReactivateSubscription \/ \E t \in Paid : ChangePlan(t)
  BY <1>3, <1>6 DEF CancelSubscription, ReactivateSubscription, ChangePlan, Request
<1>7. CASE CancelAtPaddle \/ ClearAtPaddle \/ ClearScheduledChange \/ UpdateSubscription
  <2>1. api.pc \in {"cancel", "reactivate", "clear", "update"} /\ row' = row
    BY <1>7 DEF CancelAtPaddle, ClearAtPaddle, ClearScheduledChange, UpdateSubscription
  <2>2. api.sub \in Subs /\ paddle[api.sub] \in States
    BY <2>1, RequestAtWork
  <2>3. api.pc = "update" => api.target \in Paid
    BY DEF IInv, RequestInv
  <2>4. \E p \in States : CallPaddle(api.sub, p)
    BY <1>7, <2>2, <2>3, StatePuts
       DEF CancelAtPaddle, ClearAtPaddle, ClearScheduledChange, UpdateSubscription
  <2> QED
    BY <1>1, <1>3, <2>1, <2>2, <2>4, CallEmits
<1>8. CASE SaveCancel \/ SaveClear \/ SaveScheduledChange \/ ApiFails
  BY <1>1, <1>3, <1>8 DEF SaveCancel, SaveClear, SaveScheduledChange, ApiFails, Rows
<1>9. CASE SavePlan
  BY <1>9, PlanReported DEF SavePlan
<1>10. CASE UNCHANGED vars
  BY <1>3, <1>10 DEF vars
<1> QED
  BY <1>4, <1>5, <1>6, <1>7, <1>8, <1>9, <1>10 DEF Next, RequestStep

LEMMA InitTier == Init => PaidTierFromPaddle
  BY DEF Init, PaidTierFromPaddle

\* In whatever order events are delivered, repeated and lost, and wherever
\* requests are interrupted, the row shows a paid tier only if Paddle has
\* reported it: of the subscription of the row, or in agreeing to a plan change
\* (SubscriptionsService.changePlan) of another of the user's.
THEOREM PaidTiersReported == Spec => []PaidTierFromPaddle
<1>1. IInv /\ PaidTierFromPaddle /\ [Next]_vars => PaidTierFromPaddle'
  BY TierKept
<1> QED
  BY <1>1, InitTier, AlwaysInv, PTL DEF Spec

-----------------------------------------------------------------------------
(* Events in order *)

\* Paddle holds an event back until the one before it is answered, the server
\* handles one delivery at a time, and the database does not fail.
OneAtATime == InOrder /\ MaxErrors = 0 /\ \A g, h \in Handlers : g = h

FirstRow == [tier |-> "FREE", status |-> "ACTIVE", sub |-> None, canceledAt |-> FALSE]

\* after[i] is the row that the first i events make of the first one.  An event
\* that looks for its row by the subscription finds it.
RowsAfter(events, after) ==
    /\ after \in [0 .. Len(events) -> Rows]
    /\ after[0] = FirstRow
    /\ \A i \in 1 .. Len(events) :
        /\ after[i] = Processed(after[i - 1], events[i])
        /\ events[i].type \in BySubscription => after[i - 1].sub = events[i].sub

\* The row r agrees with what is true at Paddle.
Shows(r, states) ==
    /\ r.sub # None =>
        /\ r.status = StatusOf[states[r.sub].status]
        /\ r.tier = IF states[r.sub].status = "canceled" THEN "FREE" ELSE states[r.sub].tier
    /\ \A s \in Subs :
        states[s].status \in {"active", "trialing", "past_due", "paused"} => r.sub = s

\* Events that write the tier of the row.
TierTypes == ByUser \cup {"updated", "canceled"}

\* k events are answered, and those applied are n, the same or one more.  The row is
\* the one they make, except that its tier may be ahead of an event to come.
Progress(after, k, n) ==
    /\ k \in Nat /\ n \in {k, k + 1} /\ n <= Len(sent)
    /\ acked = 1 .. k /\ applied = 1 .. n
    /\ \A h \in Handlers : handlers[h].pc # "idle" =>
        /\ handlers[h].event = k + 1 /\ k + 1 <= Len(sent) /\ handlers[h].ok
        /\ handlers[h].pc # "process" => n = k + 1
    /\ \A e \in EventIds : stored[e] = "processed" => e <= n
    /\ row.sub = after[n].sub /\ row.status = after[n].status
    /\ \/ late # {} \/ row.tier = after[n].tier
       \/ \E j \in n + 1 .. Len(sent) : sent[j].type \in TierTypes

\* From some event on, the rows linked to the subscription a plan was changed for
\* have the new tier until its end.
PlanTold(after) ==
    api.pc = "savePlan" =>
        /\ paddle[api.sub].status # "none" /\ paddle[api.sub].tier = api.target
        /\ \E j \in 1 .. Len(sent) :
            /\ sent[j].type = "updated"
            /\ \A i \in j .. Len(sent) :
                after[i].sub = api.sub => after[i].status = "CANCELED" \/ after[i].tier = api.target

InOrderInv ==
    \E after : /\ RowsAfter(sent, after)
               /\ Shows(after[Len(sent)], paddle)
               /\ PlanTold(after)
               /\ \E k, n \in Nat : Progress(after, k, n)

\* An event of one subscription leaves the link of the row, the others write it.
LEMMA LinkOf ==
    ASSUME NEW r \in Rows, NEW ev \in Event
    PROVE  Processed(r, ev).sub = IF ev.type \in BySubscription THEN r.sub ELSE ev.sub
<1>1. CASE ev.type \in {"created", "activated", "trialing"}
  BY <1>1 DEF Processed, NewRow, BySubscription
<1>2. CASE ev.type \in BySubscription
  BY <1>2 DEF Processed, UpdatedRow, CanceledRow, BySubscription, Rows
<1> QED
  BY <1>1, <1>2 DEF Event, ByUser

\* What an event makes of two rows that differ in the tier at most.
LEMMA TierOf ==
    ASSUME NEW r \in Rows, NEW q \in Rows, NEW ev \in Event,
           r.sub = q.sub, r.status = q.status
    PROVE  /\ Processed(r, ev).sub = Processed(q, ev).sub
           /\ Processed(r, ev).status = Processed(q, ev).status
           /\ ev.type \in TierTypes \/ r.tier = q.tier =>
                  Processed(r, ev).tier = Processed(q, ev).tier
<1>1. CASE ev.type \in {"created", "activated", "trialing"}
  BY <1>1 DEF Processed, NewRow
<1>2. CASE ev.type = "updated"
  BY <1>2 DEF Processed, UpdatedRow, Rows
<1>3. CASE ev.type = "canceled"
  BY <1>3 DEF Processed, CanceledRow, Rows
<1>4. CASE ev.type \in {"past_due", "paused", "resumed"}
  BY <1>4 DEF Processed, Rows, TierTypes, ByUser
<1> QED
  BY <1>1, <1>2, <1>3, <1>4 DEF Event, ByUser, BySubscription

\* An event that is delivered again right after it was applied changes nothing
\* (WebhookService.processEvent).
THEOREM AppliedTwice ==
    ASSUME NEW r \in Rows, NEW ev \in Event
    PROVE  Processed(Processed(r, ev), ev) = Processed(r, ev)
<1>1. CASE ev.type \in {"created", "activated", "trialing"}
  BY <1>1 DEF Processed
<1>2. CASE ev.type = "updated"
  <2>1. \A q \in Rows : Processed(q, ev) = UpdatedRow(q, ev)
    BY <1>2 DEF Processed
  <2>2. UpdatedRow(r, ev) \in Rows
    BY DEF UpdatedRow, Rows, Event
  <2>3. UpdatedRow(UpdatedRow(r, ev), ev) = UpdatedRow(r, ev)
    BY DEF UpdatedRow, Rows, Event
  <2> QED
    BY <2>1, <2>2, <2>3
<1>3. CASE ev.type = "canceled"
  BY <1>3 DEF Processed, CanceledRow, Rows
<1>4. CASE ev.type \in {"past_due", "paused", "resumed"}
  BY <1>4 DEF Processed, Rows
<1> QED
  BY <1>1, <1>2, <1>3, <1>4 DEF Event, ByUser, BySubscription

\* Paddle's change of s to p is one the event of that type tells a row that
\* agreed with Paddle before.
Tells(r, s, p, type) ==
    LET ev == [type |-> type, sub |-> s, tier |-> p.tier, scheduled |-> p.scheduled] IN
    /\ type \in BySubscription => r.sub = s
    /\ Processed(r, ev).sub = s
    /\ Processed(r, ev).status = StatusOf[p.status]
    /\ Processed(r, ev).tier = IF p.status = "canceled" THEN "FREE" ELSE p.tier
    /\ \A o \in Subs \ {s} : ~Usable(o)

\* A change that is told keeps the rows after the events in agreement with Paddle.
LEMMA ChangeTold ==
    ASSUME TypeOK, NEW after, RowsAfter(sent, after), Shows(after[Len(sent)], paddle),
           NEW s \in Subs, NEW p \in States, NEW type \in ByUser \cup BySubscription,
           PaddleChanges(s, p, type), Tells(after[Len(sent)], s, p, type)
    PROVE  \E next : /\ RowsAfter(sent', next)
                     /\ Shows(next[Len(sent')], paddle')
                     /\ \A i \in 0 .. Len(sent) : next[i] = after[i]
                     /\ Len(sent') = Len(sent) + 1
                     /\ \A i \in 1 .. Len(sent) : sent'[i] = sent[i]
                     /\ sent'[Len(sent')].type = type
                     /\ next[Len(sent')].sub = s
                     /\ next[Len(sent')].status = "CANCELED" \/ next[Len(sent')].tier = p.tier
<1> DEFINE ev == [type |-> type, sub |-> s, tier |-> p.tier, scheduled |-> p.scheduled]
           len == Len(sent)
           r == Processed(after[len], ev)
           next == [i \in 0 .. len + 1 |-> IF i <= len THEN after[i] ELSE r]
<1>1. ev \in Event
  BY DEF Event, States
<1>2. sent \in Seq(Event) /\ sent' = Append(sent, ev)
  BY DEF TypeOK, PaddleChanges
<1>3. paddle \in [Subs -> States] /\ paddle' = [paddle EXCEPT ![s] = p]
  BY TypesNamed DEF PaddleChanges
<1>4. /\ r.sub = s /\ r.status = StatusOf[p.status]
      /\ r.tier = IF p.status = "canceled" THEN "FREE" ELSE p.tier
      /\ ev.type \in BySubscription => after[len].sub = ev.sub
      /\ \A o \in Subs \ {s} : ~Usable(o)
  BY DEF Tells
<1> HIDE DEF ev
<1>5. /\ len \in Nat /\ Len(sent') = len + 1 /\ sent'[len + 1] = ev
      /\ \A i \in 1 .. len : sent'[i] = sent[i]
  BY <1>1, <1>2
<1>6. /\ after \in [0 .. len -> Rows] /\ after[0] = FirstRow /\ after[len] \in Rows
      /\ \A i \in 1 .. len :
          /\ after[i] = Processed(after[i - 1], sent[i])
          /\ sent[i].type \in BySubscription => after[i - 1].sub = sent[i].sub
  <2>1. len \in 0 .. len
    BY <1>5
  <2> QED
    BY <2>1 DEF RowsAfter
<1> HIDE DEF len
<1>7. r \in Rows
  BY <1>1, <1>6, RowTyped
<1> HIDE DEF r
<1>8. /\ next \in [0 .. len + 1 -> Rows] /\ next[len + 1] = r
      /\ \A i \in 0 .. len : next[i] = after[i]
  <2>1. len + 1 \in 0 .. len + 1 /\ ~(len + 1 <= len)
    BY <1>5
  <2>2. \A i \in 0 .. len : i \in 0 .. len + 1 /\ i <= len
    BY <1>5
  <2>3. \A i \in 0 .. len + 1 : i <= len => i \in 0 .. len
    BY <1>5
  <2> QED
    BY <1>6, <1>7, <2>1, <2>2, <2>3
<1> HIDE DEF next
<1>9. RowsAfter(sent', next)
  <2>1. ASSUME NEW i \in 1 .. len + 1
        PROVE  /\ next[i] = Processed(next[i - 1], sent'[i])
               /\ sent'[i].type \in BySubscription => next[i - 1].sub = sent'[i].sub
    <3>1. CASE i \in 1 .. len
      <4>1. i \in 0 .. len /\ i - 1 \in 0 .. len
        BY <1>5, <3>1
      <4> QED
        BY <1>5, <1>6, <1>8, <3>1, <4>1
    <3>2. CASE i = len + 1
      <4>1. i - 1 = len /\ len \in 0 .. len
        BY <1>5, <3>2
      <4> QED
        BY <1>4, <1>5, <1>8, <3>2, <4>1 DEF r
    <3> QED
      BY <1>5, <3>1, <3>2
  <2>2. 0 \in 0 .. len
    BY <1>5
  <2> QED
    BY <1>5, <1>6, <1>8, <2>1, <2>2 DEF RowsAfter
<1>10. Shows(r, paddle')
  <2>1. paddle'[s] = p /\ \A o \in Subs \ {s} : paddle'[o] = paddle[o]
    BY <1>3
  <2>2. \A o \in Subs \ {s} :
            paddle[o].status \notin {"active", "trialing", "past_due", "paused"}
    BY <1>4 DEF Usable
  <2> QED
    BY <1>4, <2>1, <2>2 DEF Shows
<1>11. ev.type = type /\ (p.status = "canceled" => StatusOf[p.status] = "CANCELED")
  BY DEF ev, StatusOf
<1> QED
  BY <1>4, <1>5, <1>8, <1>9, <1>10, <1>11 DEF len

\* What Paddle and the server's calls make of a subscription is told.
LEMMA AllTold ==
    ASSUME TypeOK, NEW r \in Rows, Shows(r, paddle), NEW s \in Subs
    PROVE  /\ Checkout(s) \/ Billing(s) \/ PortalChange(s) =>
                \E p \in States, type \in ByUser \cup BySubscription :
                    /\ PaddleChanges(s, p, type) /\ Tells(r, s, p, type)
                    /\ paddle[s].status # "none" =>
                           p.status # "none" /\ p.tier = paddle[s].tier
           /\ \A p \in States :
                CallPaddle(s, p) /\ p.status = paddle[s].status =>
                    PaddleChanges(s, p, "updated") /\ Tells(r, s, p, "updated")
<1> DEFINE Told == \E p \in States, type \in ByUser \cup BySubscription :
                       /\ PaddleChanges(s, p, type) /\ Tells(r, s, p, type)
                       /\ paddle[s].status # "none" =>
                              p.status # "none" /\ p.tier = paddle[s].tier
<1>p. paddle[s] \in States
  BY TypesNamed
<1>u. Usable(s) =>
        /\ r.sub = s /\ \A o \in Subs \ {s} : ~Usable(o)
        /\ r.status = StatusOf[paddle[s].status] /\ r.tier = paddle[s].tier
  BY SubscriptionsAssumption DEF Shows, Usable
<1>1. ASSUME Checkout(s) PROVE Told
  <2>1. PICK t \in Paid, new \in {[status |-> "active", type |-> "created"],
                                  [status |-> "trialing", type |-> "trialing"]} :
            PaddleChanges(s, [status |-> new.status, tier |-> t, scheduled |-> FALSE], new.type)
    BY <1>1 DEF Checkout
  <2> DEFINE p == [status |-> new.status, tier |-> t, scheduled |-> FALSE]
  <2>2. p \in States /\ new.type \in ByUser \cup BySubscription
    BY DEF States, ByUser
  <2>3. paddle[s].status = "none" /\ \A o \in Subs \ {s} : ~Usable(o)
    BY <1>1 DEF Checkout
  <2>4. Tells(r, s, p, new.type)
    BY <2>3 DEF Tells, Processed, NewRow, StatusOf, BySubscription
  <2> QED
    BY <2>1, <2>2, <2>3, <2>4
<1>2. ASSUME Billing(s) PROVE Told
  <2> DEFINE Turned(from, to, type) ==
          /\ paddle[s].status \in from
          /\ PaddleChanges(s, [paddle[s] EXCEPT !.status = to], type)
  <2>1. \/ Turned({"trialing", "past_due"}, "active", "activated")
        \/ Turned({"active"}, "past_due", "past_due")
        \/ Turned({"active"}, "paused", "paused")
        \/ Turned({"paused"}, "active", "resumed")
        \/ /\ Usable(s)
           /\ PaddleChanges(s, [paddle[s] EXCEPT !.status = "canceled", !.scheduled = FALSE],
                            "canceled")
    BY <1>2, Zenon DEF Billing
  <2>2. \A to \in {"active", "past_due", "paused"} :
          /\ [paddle[s] EXCEPT !.status = to] \in States
          /\ [paddle[s] EXCEPT !.status = to].status = to
          /\ [paddle[s] EXCEPT !.status = to].tier = paddle[s].tier
    BY <1>p DEF States
  <2>3. CASE Turned({"trialing", "past_due"}, "active", "activated")
    <3> DEFINE p == [paddle[s] EXCEPT !.status = "active"]
    <3>1. Usable(s) /\ PaddleChanges(s, p, "activated")
      BY <2>3 DEF Usable
    <3>2. p \in States /\ p.status = "active" /\ p.tier = paddle[s].tier
      BY <2>2
    <3> HIDE DEF p
    <3>3. Tells(r, s, p, "activated")
      BY <1>u, <3>1, <3>2 DEF Tells, Processed, NewRow, StatusOf, BySubscription
    <3> QED
      BY <3>1, <3>2, <3>3 DEF ByUser
  <2>4. ASSUME NEW to, NEW type,
               <<to, type>> \in {<<"past_due", "past_due">>, <<"paused", "paused">>,
                                 <<"active", "resumed">>},
               Turned({"active", "paused"}, to, type)
        PROVE  Told
    <3> DEFINE p == [paddle[s] EXCEPT !.status = to]
    <3>1. Usable(s) /\ PaddleChanges(s, p, type)
      BY <2>4 DEF Usable
    <3>2. p \in States /\ p.status = to /\ p.tier = paddle[s].tier
      BY <2>2, <2>4
    <3> HIDE DEF p
    <3>3. Tells(r, s, p, type)
      BY <1>u, <2>4, <3>1, <3>2 DEF Tells, Processed, StatusOf, BySubscription, Rows
    <3> QED
      BY <2>4, <3>1, <3>2, <3>3 DEF BySubscription
  <2>5. CASE /\ Usable(s)
             /\ PaddleChanges(s, [paddle[s] EXCEPT !.status = "canceled", !.scheduled = FALSE],
                              "canceled")
    <3> DEFINE p == [paddle[s] EXCEPT !.status = "canceled", !.scheduled = FALSE]
    <3>1. p \in States /\ p.status = "canceled" /\ p.tier = paddle[s].tier
      BY <1>p DEF States
    <3> HIDE DEF p
    <3>2. Tells(r, s, p, "canceled")
      <4> DEFINE ev == [type |-> "canceled", sub |-> s, tier |-> p.tier,
                        scheduled |-> p.scheduled]
      <4>1. Processed(r, ev) = CanceledRow(r)
        BY DEF Processed
      <4>2. /\ CanceledRow(r).sub = r.sub /\ CanceledRow(r).tier = "FREE"
            /\ CanceledRow(r).status = "CANCELED"
        BY DEF CanceledRow, Rows
      <4>3. StatusOf[p.status] = "CANCELED"
        BY <3>1 DEF StatusOf
      <4> QED
        BY <1>u, <2>5, <3>1, <4>1, <4>2, <4>3 DEF Tells
    <3> QED
      BY <2>5, <3>1, <3>2 DEF BySubscription, p
  <2> QED
    BY <2>1, <2>3, <2>4, <2>5
<1>3. ASSUME NEW p \in States, Usable(s), p.status = paddle[s].status,
             PaddleChanges(s, p, "updated")
      PROVE  Tells(r, s, p, "updated")
  <2>1. p.status # "canceled"
    BY <1>3 DEF Usable
  <2> QED
    BY <1>u, <1>3, <2>1 DEF Tells, Processed, UpdatedRow, BySubscription, Rows
<1>4. ASSUME PortalChange(s) PROVE Told
  <2> DEFINE p == [paddle[s] EXCEPT !.scheduled = ~@]
  <2>1. p \in States /\ p.status = paddle[s].status /\ p.tier = paddle[s].tier
    BY <1>p DEF States
  <2>2. Usable(s) /\ PaddleChanges(s, p, "updated")
    BY <1>4 DEF PortalChange
  <2> HIDE DEF p
  <2> QED
    BY <1>3, <2>1, <2>2 DEF BySubscription
<1>5. \A p \in States :
        CallPaddle(s, p) /\ p.status = paddle[s].status =>
            PaddleChanges(s, p, "updated") /\ Tells(r, s, p, "updated")
  BY <1>3 DEF CallPaddle
<1> QED
  BY <1>1, <1>2, <1>4, <1>5

\* A change at Paddle takes the rows after the events along.
LEMMA HistoryGrows ==
    ASSUME IInv, NEW after, RowsAfter(sent, after), Shows(after[Len(sent)], paddle),
           PlanTold(after),
           NEW k \in Nat, NEW n \in Nat, Progress(after, k, n),
           NEW s \in Subs, NEW p \in States, NEW type \in ByUser \cup BySubscription,
           PaddleChanges(s, p, type), Tells(after[Len(sent)], s, p, type),
           UNCHANGED <<acked, stored, applied, row, handlers, late>>,
           api' = api =>
               (paddle[s].status # "none" => p.status # "none" /\ p.tier = paddle[s].tier),
           api' # api /\ api'.pc = "savePlan" =>
               /\ api'.sub = s /\ api'.target = p.tier /\ type = "updated" /\ p.status # "none"
    PROVE  InOrderInv'
<1>1. PICK next : /\ RowsAfter(sent', next)
                  /\ Shows(next[Len(sent')], paddle')
                  /\ \A i \in 0 .. Len(sent) : next[i] = after[i]
                  /\ Len(sent') = Len(sent) + 1
                  /\ \A i \in 1 .. Len(sent) : sent'[i] = sent[i]
                  /\ sent'[Len(sent')].type = type
                  /\ next[Len(sent')].sub = s
                  /\ next[Len(sent')].status = "CANCELED" \/ next[Len(sent')].tier = p.tier
  BY ChangeTold DEF IInv
<1>2. Len(sent) \in Nat /\ n <= Len(sent)
  BY DEF IInv, TypeOK, Progress
<1>3. next[n] = after[n] /\ n <= Len(sent')
  BY <1>1, <1>2
<1>4. k + 1 <= Len(sent) => k + 1 <= Len(sent')
  BY <1>1, <1>2
<1>5. ASSUME NEW j \in n + 1 .. Len(sent), sent[j].type \in TierTypes
      PROVE  \E i \in n + 1 .. Len(sent') : sent'[i].type \in TierTypes
  <2>1. j \in 1 .. Len(sent) /\ j \in n + 1 .. Len(sent')
    BY <1>1, <1>2
  <2> QED
    BY <1>1, <1>5, <2>1
<1>6. Progress(next, k, n)'
  BY <1>3, <1>4, <1>5 DEF Progress
<1>7. /\ paddle \in [Subs -> States] /\ paddle' = [paddle EXCEPT ![s] = p]
      /\ paddle'[s] = p /\ \A o \in Subs : o # s => paddle'[o] = paddle[o]
  BY TypesNamed DEF IInv, PaddleChanges
<1>8. CASE api' = api
  <2>1. SUFFICES ASSUME api.pc = "savePlan" PROVE PlanTold(next)'
    BY <1>1, <1>6, <1>8 DEF InOrderInv, PlanTold
  <2>2. api.sub \in Subs
    BY <2>1, RequestAtWork
  <2>3. /\ paddle[api.sub].status # "none" /\ paddle[api.sub].tier = api.target
    BY <2>1 DEF PlanTold
  <2>4. PICK j \in 1 .. Len(sent) :
            /\ sent[j].type = "updated"
            /\ \A i \in j .. Len(sent) :
                after[i].sub = api.sub => after[i].status = "CANCELED" \/ after[i].tier = api.target
    BY <2>1 DEF PlanTold
  <2>5. paddle'[api.sub].status # "none" /\ paddle'[api.sub].tier = api.target
    BY <1>7, <1>8, <2>2, <2>3
  <2>6. j \in 1 .. Len(sent') /\ sent'[j].type = "updated"
    BY <1>1, <1>2, <2>4
  <2>7. ASSUME NEW i \in j .. Len(sent'), next[i].sub = api.sub
        PROVE  next[i].status = "CANCELED" \/ next[i].tier = api.target
    <3>1. CASE i = Len(sent')
      BY <1>1, <1>8, <2>3, <2>7, <3>1
    <3>2. CASE i # Len(sent')
      <4>1. i \in j .. Len(sent) /\ i \in 0 .. Len(sent)
        BY <1>1, <1>2, <3>2
      <4> QED
        BY <1>1, <2>4, <2>7, <4>1
    <3> QED
      BY <3>1, <3>2
  <2> QED
    BY <1>8, <2>5, <2>6, <2>7 DEF PlanTold
<1>9. CASE api' # api
  <2>1. SUFFICES ASSUME api'.pc = "savePlan" PROVE PlanTold(next)'
    BY <1>1, <1>6 DEF InOrderInv, PlanTold
  <2>2. api'.sub = s /\ api'.target = p.tier /\ type = "updated" /\ p.status # "none"
    BY <1>9, <2>1
  <2>3. Len(sent') \in 1 .. Len(sent') /\ \A i \in Len(sent') .. Len(sent') : i = Len(sent')
    BY <1>1, <1>2
  <2>4. paddle'[api'.sub].status # "none" /\ paddle'[api'.sub].tier = api'.target
    BY <1>7, <2>2
  <2> QED
    BY <1>1, <2>2, <2>3, <2>4 DEF PlanTold
<1> QED
  BY <1>8, <1>9

\* A step that leaves Paddle's events alone.
LEMMA HistoryStays ==
    ASSUME NEW after, RowsAfter(sent, after), Shows(after[Len(sent)], paddle), PlanTold(after),
           UNCHANGED <<sent, paddle>>, api' = api \/ api'.pc # "savePlan",
           NEW k \in Nat, NEW n \in Nat, Progress(after, k, n)'
    PROVE  InOrderInv'
<1>1. RowsAfter(sent', after) /\ Shows(after[Len(sent')], paddle')
  OBVIOUS
<1>2. PlanTold(after)'
  BY DEF PlanTold
<1> QED
  BY <1>1, <1>2 DEF InOrderInv

LEMMA DeliveryInOrder ==
    ASSUME OneAtATime, IInv, NEW after, RowsAfter(sent, after),
           NEW k \in Nat, NEW n \in Nat, Progress(after, k, n),
           NEW h \in Handlers, HandlerStep(h)
    PROVE  \E j, m \in Nat : Progress(after, j, m)'
<1>t. /\ handlers \in [Handlers -> Deliveries] /\ row \in Rows /\ sent \in Seq(Event)
      /\ stored \in [EventIds -> {"absent", "stored", "processed"}]
      /\ DOMAIN sent \subseteq EventIds /\ \A g \in Handlers : g = h
  BY TypesNamed, SentIds DEF IInv, OneAtATime
<1>l. Len(sent) \in Nat /\ DOMAIN sent = 1 .. Len(sent)
  BY <1>t
<1>p. /\ n \in {k, k + 1} /\ n <= Len(sent) /\ acked = 1 .. k /\ applied = 1 .. n
      /\ handlers[h].pc # "idle" =>
            /\ handlers[h].event = k + 1 /\ k + 1 <= Len(sent) /\ handlers[h].ok
            /\ handlers[h].pc # "process" => n = k + 1
      /\ \A e \in EventIds : stored[e] = "processed" => e <= n
      /\ row.sub = after[n].sub /\ row.status = after[n].status
  BY DEF Progress
<1>o. late' = late
  BY DEF HandlerStep, Receive, Process, ProcessThrows, Mark, Respond, Drop
<1>a. /\ after \in [0 .. Len(sent) -> Rows] /\ after[n] \in Rows
      /\ k + 1 <= Len(sent) =>
            /\ after[k] \in Rows /\ after[k + 1] = Processed(after[k], sent[k + 1])
            /\ sent[k + 1] \in Event
            /\ sent[k + 1].type \in BySubscription => after[k].sub = sent[k + 1].sub
  <2>1. n \in 0 .. Len(sent)
    BY <1>l, <1>p
  <2>2. k + 1 <= Len(sent) => k + 1 \in 1 .. Len(sent) /\ (k + 1) - 1 = k /\ k \in 0 .. Len(sent)
    BY <1>l
  <2> QED
    BY <1>t, <1>l, <2>1, <2>2 DEF RowsAfter
\* What is left to show of a step that answers and applies nothing.
<1>q. ASSUME UNCHANGED <<sent, acked, applied, row>>,
             handlers'[h].pc # "idle" =>
                /\ handlers'[h].event = k + 1 /\ k + 1 <= Len(sent) /\ handlers'[h].ok
                /\ handlers'[h].pc # "process" => n = k + 1,
             \A e \in EventIds : stored'[e] = "processed" => e <= n
      PROVE  \E j, m \in Nat : Progress(after, j, m)'
  <2>1. Progress(after, k, n)'
    BY <1>p, <1>o, <1>q, <1>t DEF Progress
  <2> QED
    BY <2>1
<1>1. ASSUME NEW e \in EventIds, Receive(h, e) PROVE \E j, m \in Nat : Progress(after, j, m)'
  <2>1. /\ e \in DOMAIN sent /\ e \notin acked /\ \A d \in 1 .. e - 1 : d \in acked
        /\ UNCHANGED <<sent, acked, applied, row>>
        /\ stored' = [stored EXCEPT ![e] = IF @ = "absent" THEN "stored" ELSE @]
    BY <1>1 DEF Receive, OneAtATime
  <2>2. handlers'[h] = [pc |-> IF stored[e] = "processed" THEN "respond" ELSE "process",
                        event |-> e, ok |-> TRUE]
    BY <1>1, <1>t DEF Receive
  <2>3. e = k + 1 /\ k + 1 <= Len(sent)
    <3>1. e \in Nat /\ 1 <= e /\ e <= Len(sent) /\ k < e
      BY <1>l, <1>p, <2>1
    <3>2. e = 1 \/ e - 1 \in 1 .. e - 1
      BY <3>1
    <3>3. e = 1 \/ e - 1 <= k
      BY <1>p, <2>1, <3>2
    <3> QED
      BY <3>1, <3>3
  <2>4. stored[e] = "processed" => n = k + 1
    BY <1>p, <2>3
  <2>5. \A d \in EventIds : stored'[d] = "processed" => d <= n
    BY <1>t, <1>p, <2>1
  <2> QED
    BY <1>q, <2>1, <2>2, <2>3, <2>4, <2>5
<1>2. CASE Process(h)
  <2>1. /\ handlers[h].pc = "process" /\ handlers[h].event = k + 1 /\ k + 1 <= Len(sent)
        /\ handlers[h].ok
    BY <1>2, <1>p DEF Process
  <2>2. /\ row' = Processed(row, sent[k + 1]) /\ applied' = applied \cup {k + 1}
        /\ UNCHANGED <<sent, acked, stored>>
    BY <1>2, <2>1 DEF Process
  <2>3. handlers'[h].pc = "mark" /\ handlers'[h].event = k + 1 /\ handlers'[h].ok
    BY <1>2, <1>t, <2>1 DEF Process, Deliveries
  <2>4. applied' = 1 .. k + 1
    BY <1>p, <2>2
  <2>5. /\ row'.sub = after[k + 1].sub /\ row'.status = after[k + 1].status
        /\ \/ late # {} \/ row'.tier = after[k + 1].tier
           \/ \E j \in k + 2 .. Len(sent) : sent[j].type \in TierTypes
    <3> DEFINE ev == sent[k + 1]
    <3>1. ev \in Event /\ after[k] \in Rows /\ after[k + 1] = Processed(after[k], ev)
          /\ after[k + 1] \in Rows /\ row \in Rows /\ row' = Processed(row, ev)
      BY <1>t, <1>a, <2>1, <2>2, RowTyped
    <3>2. \/ late # {} \/ row.tier = after[n].tier
          \/ \E j \in n + 1 .. Len(sent) : sent[j].type \in TierTypes
      BY DEF Progress
    <3>3. after[k + 1] = Processed(after[n], ev)
      BY <1>p, <3>1, AppliedTwice
    <3>4. /\ row'.sub = after[k + 1].sub /\ row'.status = after[k + 1].status
          /\ ev.type \in TierTypes \/ row.tier = after[n].tier => row'.tier = after[k + 1].tier
      <4> HIDE DEF ev
      <4> QED
        BY <1>p, <1>a, <3>1, <3>3, TierOf
    <3>5. ASSUME NEW j \in n + 1 .. Len(sent), sent[j].type \in TierTypes
          PROVE  ev.type \in TierTypes \/ j \in k + 2 .. Len(sent)
      <4>1. j = k + 1 \/ j \in k + 2 .. Len(sent)
        BY <1>l, <1>p
      <4> QED
        BY <3>5, <4>1
    <3> HIDE DEF ev
    <3> QED
      BY <3>2, <3>4, <3>5
  <2>6. \A e \in EventIds : stored'[e] = "processed" => e <= k + 1
    <3>1. \A e \in EventIds : e \in Nat
      BY DEF EventIds
    <3> QED
      BY <1>p, <2>2, <3>1
  <2>7. Progress(after, k, k + 1)'
    <3>1. (k + 1) + 1 = k + 2
      OBVIOUS
    <3> QED
      BY <1>p, <1>o, <1>t, <2>1, <2>2, <2>3, <2>4, <2>5, <2>6, <3>1 DEF Progress
  <2> QED
    BY <2>7
\* An event in order finds its row, and the database does not fail.
<1>3. ASSUME ProcessThrows(h) PROVE FALSE
  <2>1. /\ handlers[h].pc = "process" /\ handlers[h].event = k + 1 /\ k + 1 <= Len(sent)
    BY <1>3, <1>p DEF ProcessThrows
  <2>2. ~(errors < MaxErrors)
    BY DEF OneAtATime, IInv, TypeOK
  <2>3. NoSuchRow(sent[k + 1])
    BY <1>3, <2>1, <2>2 DEF ProcessThrows
  <2>4. /\ sent[k + 1].type \in BySubscription /\ sent[k + 1].sub # row.sub
        /\ sent[k + 1] \in Event
    BY <1>a, <2>1, <2>3 DEF NoSuchRow
  <2>5. after[k].sub = sent[k + 1].sub /\ after[k + 1].sub = after[k].sub
    BY <1>a, <2>1, <2>4, LinkOf
  <2> QED
    BY <1>p, <2>4, <2>5
<1>4. CASE Mark(h)
  <2>1. handlers[h].pc = "mark" /\ handlers[h].event = k + 1 /\ handlers[h].ok /\ n = k + 1
        /\ k + 1 <= Len(sent)
    BY <1>4, <1>p DEF Mark
  <2>2. /\ stored' = [stored EXCEPT ![k + 1] = "processed"]
        /\ UNCHANGED <<sent, acked, applied, row>>
    BY <1>4, <2>1 DEF Mark
  <2>3. handlers'[h].pc = "respond" /\ handlers'[h].event = k + 1 /\ handlers'[h].ok
    BY <1>4, <1>t, <2>1 DEF Mark, Deliveries
  <2>4. \A e \in EventIds : stored'[e] = "processed" => e <= n
    BY <1>t, <1>p, <2>1, <2>2
  <2> QED
    BY <1>q, <2>1, <2>2, <2>3, <2>4
<1>5. CASE Respond(h)
  <2>1. handlers[h].pc = "respond" /\ handlers[h].event = k + 1 /\ n = k + 1
        /\ k + 1 <= Len(sent)
    BY <1>5, <1>p DEF Respond
  <2>2. acked' = acked \cup {k + 1} /\ UNCHANGED <<sent, stored, applied, row>>
        /\ handlers'[h].pc = "idle"
    BY <1>5, <1>t, <2>1 DEF Respond, Resting
  <2>3. acked' = 1 .. k + 1
    BY <1>p, <2>2
  <2>4. Progress(after, k + 1, k + 1)'
    BY <1>p, <1>o, <1>t, <2>1, <2>2, <2>3 DEF Progress
  <2> QED
    BY <2>4
<1>6. CASE Drop(h)
  <2>1. UNCHANGED <<sent, acked, applied, row, stored>> /\ handlers'[h].pc = "idle"
    BY <1>6, <1>t DEF Drop, Resting
  <2> QED
    BY <1>p, <1>q, <2>1
<1> QED
  BY <1>1, <1>2, <1>3, <1>4, <1>5, <1>6 DEF HandlerStep

\* The user's requests never touch the link and the status of the row, and what they
\* have Paddle change is told in an event.
LEMMA RequestInOrder ==
    ASSUME IInv, NEW after, RowsAfter(sent, after), Shows(after[Len(sent)], paddle),
           PlanTold(after),
           NEW k \in Nat, NEW n \in Nat, Progress(after, k, n), RequestStep
    PROVE  InOrderInv'
<1>1. UNCHANGED <<acked, stored, applied, handlers>>
  BY DEF RequestStep, CancelSubscription, CancelAtPaddle, SaveCancel, ReactivateSubscription,
         ClearAtPaddle, SaveClear, ChangePlan, ClearScheduledChange, SaveScheduledChange,
         UpdateSubscription, SavePlan, ApiFails, Request, ApiStep
<1>2. CASE CancelAtPaddle \/ ClearAtPaddle \/ ClearScheduledChange \/ UpdateSubscription
  <2>1. api.pc \in {"cancel", "reactivate", "clear", "update"} /\ UNCHANGED <<row, late>>
    BY <1>2 DEF CancelAtPaddle, ClearAtPaddle, ClearScheduledChange, UpdateSubscription
  <2>2. TypeOK /\ api.sub \in Subs /\ paddle[api.sub] \in States
        /\ \A pc \in {"saveCancel", "saveClear", "clearSave", "update", "savePlan"} :
              /\ [api EXCEPT !.pc = pc].pc = pc
              /\ [api EXCEPT !.pc = pc].sub = api.sub
              /\ [api EXCEPT !.pc = pc].target = api.target
    BY <2>1, RequestAtWork
  <2>3. api.pc = "update" => api.target \in Paid
    BY DEF IInv, RequestInv
  <2>4. /\ \A to \in BOOLEAN : [paddle[api.sub] EXCEPT !.scheduled = to].status
                                  = paddle[api.sub].status
        /\ \A to \in Paid : /\ [paddle[api.sub] EXCEPT !.tier = to].status
                                  = paddle[api.sub].status
                             /\ [paddle[api.sub] EXCEPT !.tier = to].tier = to
    BY <2>2 DEF States
  <2>5. PICK p \in States : /\ CallPaddle(api.sub, p) /\ p.status = paddle[api.sub].status
                            /\ api'.pc = "savePlan" => p.tier = api.target
    <3>1. CASE CancelAtPaddle \/ ClearAtPaddle \/ ClearScheduledChange
      <4>1. \E p \in States : CallPaddle(api.sub, p) /\ p.status = paddle[api.sub].status
        BY <2>2, <2>4, <3>1, StatePuts DEF CancelAtPaddle, ClearAtPaddle, ClearScheduledChange
      <4>2. api'.pc # "savePlan"
        BY <2>2, <3>1 DEF CancelAtPaddle, ClearAtPaddle, ClearScheduledChange, ApiStep
      <4> QED
        BY <4>1, <4>2
    <3>2. CASE UpdateSubscription
      BY <2>2, <2>3, <2>4, <3>2, StatePuts DEF UpdateSubscription
    <3> QED
      BY <1>2, <3>1, <3>2
  <2>6. after[Len(sent)] \in Rows
    <3>1. Len(sent) \in 0 .. Len(sent)
      BY <2>2 DEF TypeOK
    <3> QED
      BY <3>1 DEF RowsAfter
  <2>7. /\ PaddleChanges(api.sub, p, "updated")
        /\ Tells(after[Len(sent)], api.sub, p, "updated")
    BY <2>2, <2>5, <2>6, AllTold
  <2>8. /\ api'.pc \in {"saveCancel", "saveClear", "clearSave", "savePlan"}
        /\ api'.sub = api.sub /\ api'.target = api.target
    BY <1>2, <2>2
       DEF CancelAtPaddle, ClearAtPaddle, ClearScheduledChange, UpdateSubscription, ApiStep
  <2>9. api' # api /\ p.status # "none"
    BY <2>1, <2>5, <2>8 DEF CallPaddle, Usable
  <2> QED
    BY <1>1, <2>1, <2>2, <2>5, <2>7, <2>8, <2>9, HistoryGrows DEF BySubscription
<1>3. ASSUME UNCHANGED <<sent, paddle>>, api'.pc # "savePlan",
             row'.sub = row.sub, row'.status = row.status,
             \/ row'.tier = row.tier /\ late' = late
             \/ late' # {} \/ row'.tier = after[n].tier
             \/ \E j \in n + 1 .. Len(sent) : sent[j].type \in TierTypes
      PROVE  InOrderInv'
  <2>1. Progress(after, k, n)'
    BY <1>1, <1>3 DEF Progress
  <2> QED
    BY <1>3, <2>1, HistoryStays
<1>4. CASE CancelSubscription \/ ReactivateSubscription \/ ApiFails \/ \E t \in Paid : ChangePlan(t)
  <2>1. UNCHANGED <<sent, paddle, row, late>>
    BY <1>4 DEF CancelSubscription, ReactivateSubscription, ChangePlan, ApiFails, Request
  <2>2. CASE CancelSubscription \/ ReactivateSubscription
    <3>1. \E pc \in {"cancel", "reactivate"} : api' = [NoRequest EXCEPT !.pc = pc, !.sub = row.sub]
      BY <2>2 DEF CancelSubscription, ReactivateSubscription, Request, ApiStep
    <3>2. \A pc : [NoRequest EXCEPT !.pc = pc, !.sub = row.sub].pc = pc
      BY DEF NoRequest
    <3>3. api'.pc # "savePlan"
      BY <3>1, <3>2
    <3> QED
      BY <1>3, <2>1, <3>3
  <2>3. CASE ApiFails \/ \E t \in Paid : ChangePlan(t)
    <3>1. api'.pc # "savePlan"
      BY <2>3 DEF ApiFails, ChangePlan, ApiStep, NoRequest
    <3> QED
      BY <1>3, <2>1, <3>1
  <2> QED
    BY <1>4, <2>2, <2>3
<1>5. CASE SaveCancel \/ SaveClear \/ SaveScheduledChange
  <2>1. api.pc # "idle" /\ UNCHANGED <<sent, paddle, late>>
    BY <1>5 DEF SaveCancel, SaveClear, SaveScheduledChange
  <2>2. row \in Rows /\ [api EXCEPT !.pc = "update"].pc = "update"
    BY <2>1, RequestAtWork
  <2>3. row'.sub = row.sub /\ row'.status = row.status /\ row'.tier = row.tier
    BY <1>5, <2>2 DEF SaveCancel, SaveClear, SaveScheduledChange, Rows
  <2>4. api'.pc # "savePlan"
    <3>1. api' = NoRequest \/ api' = [api EXCEPT !.pc = "update"]
      BY <1>5 DEF SaveCancel, SaveClear, SaveScheduledChange, ApiStep
    <3> QED
      BY <2>2, <3>1, NoRequestTyped
  <2> QED
    BY <1>3, <2>1, <2>3, <2>4
<1>6. CASE SavePlan
  <2>1. api.pc = "savePlan" /\ UNCHANGED <<sent, paddle>>
    BY <1>6 DEF SavePlan
  <2>2. row \in Rows /\ Len(sent) \in Nat /\ api.sub \in Subs
    BY <2>1, RequestAtWork DEF TypeOK
  <2>3. row'.sub = row.sub /\ row'.status = row.status /\ api'.pc # "savePlan"
    BY <1>6, <2>2 DEF SavePlan, Rows, ApiStep, NoRequest
  <2>4. CASE ~api.upgrade
    <3>1. row'.tier = row.tier /\ late' = late
      BY <1>6, <2>2, <2>4 DEF SavePlan, Rows
    <3> QED
      BY <1>3, <2>1, <2>3, <3>1
  <2>5. CASE api.upgrade /\ (row.sub # api.sub \/ row.status = "CANCELED")
    <3>1. late' # {}
      BY <1>6, <2>5 DEF SavePlan
    <3> QED
      BY <1>3, <2>1, <2>3, <3>1
  <2>6. CASE api.upgrade /\ row.sub = api.sub /\ row.status # "CANCELED"
    <3>1. row'.tier = api.target
      BY <1>6, <2>2, <2>6 DEF SavePlan, Rows
    <3>2. PICK j \in 1 .. Len(sent) :
              /\ sent[j].type = "updated"
              /\ \A i \in j .. Len(sent) :
                    after[i].sub = api.sub
                        => after[i].status = "CANCELED" \/ after[i].tier = api.target
      BY <2>1 DEF PlanTold
    <3>3. n <= Len(sent) /\ after[n].sub = api.sub /\ after[n].status # "CANCELED"
      BY <2>6 DEF Progress
    <3>4. CASE n < j
      <4>1. j \in n + 1 .. Len(sent) /\ sent[j].type \in TierTypes
        BY <2>2, <3>2, <3>4 DEF TierTypes
      <4> QED
        BY <1>3, <2>1, <2>3, <4>1
    <3>5. CASE ~(n < j)
      <4>1. n \in j .. Len(sent)
        BY <2>2, <3>3, <3>5
      <4>2. after[n].tier = api.target
        BY <3>2, <3>3, <4>1
      <4> QED
        BY <1>3, <2>1, <2>3, <3>1, <4>2
    <3> QED
      BY <3>4, <3>5
  <2> QED
    BY <2>4, <2>5, <2>6
<1> QED
  BY <1>2, <1>4, <1>5, <1>6 DEF RequestStep

LEMMA InOrderInit == Init => InOrderInv
<1> SUFFICES ASSUME Init PROVE InOrderInv
  OBVIOUS
<1> DEFINE after == [i \in 0 .. 0 |-> FirstRow]
<1>1. Len(sent) = 0 /\ FirstRow \in Rows
  BY DEF Init, FirstRow, Rows
<1>2. after \in [0 .. 0 -> Rows] /\ after[0] = FirstRow
  BY <1>1
<1> HIDE DEF after
<1>3. RowsAfter(sent, after)
  BY <1>1, <1>2 DEF RowsAfter
<1>4. Shows(after[Len(sent)], paddle)
  BY <1>1, <1>2 DEF Shows, FirstRow, Init
<1>5. Progress(after, 0, 0)
  BY <1>1, <1>2 DEF Init, Progress, FirstRow, Resting
<1>6. PlanTold(after)
  BY DEF Init, PlanTold, NoRequest
<1> QED
  BY <1>3, <1>4, <1>5, <1>6 DEF InOrderInv

LEMMA InOrderNext ==
    ASSUME OneAtATime, IInv, InOrderInv, [Next]_vars
    PROVE  InOrderInv'
<1>1. PICK after : /\ RowsAfter(sent, after)
                   /\ Shows(after[Len(sent)], paddle)
                   /\ PlanTold(after)
                   /\ \E k, n \in Nat : Progress(after, k, n)
  BY DEF InOrderInv
<1>2. PICK k \in Nat, n \in Nat : Progress(after, k, n)
  BY <1>1
<1>3. CASE PaddleStep
  <2>1. PICK s \in Subs : Checkout(s) \/ Billing(s) \/ PortalChange(s)
    BY <1>3 DEF PaddleStep
  <2>2. TypeOK /\ after[Len(sent)] \in Rows
    <3>1. TypeOK /\ Len(sent) \in 0 .. Len(sent)
      BY DEF IInv, TypeOK
    <3> QED
      BY <1>1, <3>1 DEF RowsAfter
  <2>3. PICK p \in States, type \in ByUser \cup BySubscription :
            /\ PaddleChanges(s, p, type) /\ Tells(after[Len(sent)], s, p, type)
            /\ paddle[s].status # "none" => p.status # "none" /\ p.tier = paddle[s].tier
    BY <1>1, <2>1, <2>2, AllTold
  <2>4. UNCHANGED <<acked, stored, applied, row, handlers, late, api>>
    BY <1>3 DEF PaddleStep
  <2> QED
    BY <1>1, <1>2, <2>3, <2>4, HistoryGrows
<1>4. ASSUME NEW h \in Handlers, HandlerStep(h) PROVE InOrderInv'
  <2>1. \E j, m \in Nat : Progress(after, j, m)'
    BY <1>1, <1>2, <1>4, DeliveryInOrder
  <2>2. UNCHANGED <<sent, paddle, api>>
    BY <1>4 DEF HandlerStep, Receive, Process, ProcessThrows, Mark, Respond, Drop
  <2> QED
    BY <1>1, <2>1, <2>2, HistoryStays
<1>5. CASE RequestStep
  BY <1>1, <1>2, <1>5, RequestInOrder
<1>6. CASE UNCHANGED vars
  BY <1>6 DEF vars, InOrderInv, Progress, PlanTold
<1> QED
  BY <1>3, <1>4, <1>5, <1>6 DEF Next

LEMMA InOrderAlways ==
    ASSUME OneAtATime
    PROVE  Spec => []InOrderInv
<1>1. IInv /\ InOrderInv /\ [Next]_vars => InOrderInv'
  BY InOrderNext
<1> QED
  BY <1>1, InOrderInit, AlwaysInv, PTL DEF Spec

\* An answered event is never one that was dropped: with deliveries in order, one at
\* a time, and a database that does not fail, the id in webhook_events stands for an
\* event that was applied, wherever deliveries and requests are cut short.
THEOREM AnswersApplied ==
    ASSUME OneAtATime
    PROVE  Spec => []AnsweredMeansApplied
<1>1. InOrderInv => AnsweredMeansApplied
  BY DEF InOrderInv, Progress, AnsweredMeansApplied
<1> QED
  BY <1>1, InOrderAlways, PTL

\* Once nothing is under way, everything is answered and applied.
LEMMA WhenSettled ==
    ASSUME TypeOK, InOrderInv, Settled
    PROVE  \E r : /\ Shows(r, paddle) /\ row.sub = r.sub /\ row.status = r.status
                  /\ late = {} => row.tier = r.tier
<1>1. PICK after : /\ RowsAfter(sent, after)
                   /\ Shows(after[Len(sent)], paddle)
                   /\ \E k, n \in Nat : Progress(after, k, n)
  BY DEF InOrderInv
<1>2. PICK k \in Nat, n \in Nat : Progress(after, k, n)
  BY <1>1
<1>3. Len(sent) \in Nat /\ 1 .. k = 1 .. Len(sent)
  <2>1. Len(sent) \in Nat /\ DOMAIN sent = 1 .. Len(sent)
    BY DEF TypeOK
  <2>2. acked = 1 .. k /\ acked = DOMAIN sent
    BY <1>2 DEF Progress, Settled, Answered
  <2> QED
    BY <2>1, <2>2
<1>4. k = Len(sent)
  <2>1. k = 0 \/ k \in 1 .. k
    OBVIOUS
  <2>2. Len(sent) = 0 \/ Len(sent) \in 1 .. Len(sent)
    BY <1>3
  <2> QED
    BY <1>3, <2>1, <2>2
<1>5. n = Len(sent)
  BY <1>2, <1>3, <1>4 DEF Progress
<1>6. ~ \E j \in n + 1 .. Len(sent) : sent[j].type \in TierTypes
  BY <1>3, <1>5
<1> QED
  BY <1>1, <1>2, <1>5, <1>6 DEF Progress

\* Once nothing is under way, the subscription the user has at Paddle is the one in
\* the row, also for a user who has changed plans and come back after a cancellation.
THEOREM RowLinked ==
    ASSUME OneAtATime
    PROVE  Spec => []SettledRowLinked
<1>1. TypeOK /\ InOrderInv => SettledRowLinked
  BY WhenSettled DEF SettledRowLinked, Shows, Usable
<1> QED
  BY <1>1, InOrderAlways, TypeCorrect, PTL

\* Once nothing is under way, the row shows the tier and the status Paddle has for
\* its subscription, for any number of events and of deliveries cut short and
\* repeated, and wherever plan changes write the row in between, as long as none of
\* them wrote an upgrade (SavePlan) when the row had the subscription canceled.
THEOREM RowMatches ==
    ASSUME OneAtATime
    PROVE  Spec => []SettledRowMatches
<1>1. TypeOK /\ InOrderInv => SettledRowMatches
  BY WhenSettled DEF SettledRowMatches, MatchesPaddle, Shows
<1> QED
  BY <1>1, InOrderAlways, TypeCorrect, PTL

=============================================================================
