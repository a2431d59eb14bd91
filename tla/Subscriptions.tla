---------------------------- MODULE Subscriptions ----------------------------
(***************************************************************************)
(* One user's subscription: the row in the subscriptions table, the        *)
(* webhook handler that writes it from Paddle's events, the three user     *)
(* requests that call Paddle and then write it, and Paddle itself.         *)
(*                                                                         *)
(* Paddle is external.  It is modelled as the code uses it: it keeps the   *)
(* true state of each subscription, describes every change in an event,    *)
(* and delivers an event again until it is answered with a 200.            *)
(*                                                                         *)
(* A delivery is handled in four steps that other deliveries and requests  *)
(* can come between: store the event id, process, mark as processed,       *)
(* answer.  A lost connection, a restart or a timeout can end a delivery   *)
(* or a request between any two of its steps.                              *)
(***************************************************************************)
EXTENDS Naturals, Sequences

CONSTANTS
    Subs,       \* Paddle subscription ids the user may get, one after another
    Handlers,   \* deliveries the server can be handling at the same time
    InOrder,    \* does Paddle hold an event back until earlier ones are answered
    Portal,     \* may the user schedule and clear a cancellation at Paddle itself
    Plans,      \* may the user send cancel, reactivate and change-plan requests
    MaxEvents,  \* bound: events Paddle emits
    MaxErrors,  \* bound: database errors while an event is processed
    MaxDrops,   \* bound: deliveries and requests cut short by anything else
    None        \* paddle_subscription_id = NULL

ASSUME SubscriptionsAssumption ==
    /\ InOrder \in BOOLEAN /\ Portal \in BOOLEAN /\ Plans \in BOOLEAN
    /\ MaxEvents \in Nat /\ MaxErrors \in Nat /\ MaxDrops \in Nat
    /\ None \notin Subs

VARIABLES
    paddle,     \* what is true of each subscription
    sent,       \* the events Paddle has emitted, in order
    acked,      \* the events answered with a 200
    stored,     \* table webhook_events: absent, stored or processed
    applied,    \* history: the events that have been applied to the row
    row,        \* table subscriptions
    handlers,   \* the deliveries being handled
    api,        \* the user's request being served
    late,       \* history: the subscriptions an upgrade of which was written when the
                \* row had them canceled, or was no longer theirs
    errors,     \* database errors so far
    drops       \* interruptions so far

vars == <<paddle, sent, acked, stored, applied, row, handlers, api, late, errors, drops>>

Paid == {"PRO", "PREMIUM"}
Order == [FREE |-> 0, PRO |-> 1, PREMIUM |-> 2]
EventIds == 1 .. MaxEvents

\* Which unique column a handler finds the row by.
ByUser == {"created", "activated", "trialing"}
BySubscription == {"updated", "canceled", "past_due", "paused", "resumed"}

Event == [type : ByUser \cup BySubscription, sub : Subs, tier : Paid, scheduled : BOOLEAN]

Resting == [pc |-> "idle", event |-> 0, ok |-> FALSE]
NoRequest == [pc |-> "idle", sub |-> None, target |-> "FREE", upgrade |-> FALSE]

TypeOK ==
    /\ paddle \in [Subs -> [status : {"none", "active", "trialing", "past_due",
                                      "paused", "canceled"},
                            tier : Paid, scheduled : BOOLEAN]]
    /\ sent \in Seq(Event) /\ Len(sent) <= MaxEvents
    /\ acked \subseteq DOMAIN sent
    /\ stored \in [EventIds -> {"absent", "stored", "processed"}]
    /\ applied \in SUBSET EventIds
    /\ row \in [tier : Paid \cup {"FREE"},
                status : {"ACTIVE", "TRIALING", "PAST_DUE", "CANCELED", "PAUSED"},
                sub : Subs \cup {None}, canceledAt : BOOLEAN]
    /\ handlers \in [Handlers -> [pc : {"idle", "process", "mark", "respond"},
                                  event : {0} \cup EventIds, ok : BOOLEAN]]
    /\ api \in [pc : {"idle", "cancel", "saveCancel", "reactivate", "saveClear",
                      "clear", "clearSave", "update", "savePlan"},
                sub : Subs \cup {None}, target : Paid \cup {"FREE"}, upgrade : BOOLEAN]
    /\ late \subseteq Subs
    /\ errors \in 0 .. MaxErrors
    /\ drops \in 0 .. MaxDrops

\* register creates the FREE row together with the user.
Init ==
    /\ paddle = [s \in Subs |-> [status |-> "none", tier |-> "PRO", scheduled |-> FALSE]]
    /\ sent = <<>>
    /\ acked = {}
    /\ stored = [e \in EventIds |-> "absent"]
    /\ applied = {}
    /\ row = [tier |-> "FREE", status |-> "ACTIVE", sub |-> None, canceledAt |-> FALSE]
    /\ handlers = [h \in Handlers |-> Resting]
    /\ api = NoRequest
    /\ late = {}
    /\ errors = 0
    /\ drops = 0

-----------------------------------------------------------------------------
(* Paddle *)

\* The subscription s becomes p, and Paddle says so in an event.
PaddleChanges(s, p, type) ==
    /\ Len(sent) < MaxEvents
    /\ paddle' = [paddle EXCEPT ![s] = p]
    /\ sent' = Append(sent, [type |-> type, sub |-> s, tier |-> p.tier,
                             scheduled |-> p.scheduled])

Usable(s) == paddle[s].status \in {"active", "trialing", "past_due", "paused"}

\* Checkout; the user has one subscription at a time.
Checkout(s) ==
    /\ paddle[s].status = "none"
    /\ \A o \in Subs : ~Usable(o)
    /\ \E t \in Paid, new \in {[status |-> "active", type |-> "created"],
                               [status |-> "trialing", type |-> "trialing"]} :
        PaddleChanges(s, [status |-> new.status, tier |-> t, scheduled |-> FALSE], new.type)

\* Billing moves the subscription along.
Billing(s) ==
    LET p == paddle[s]
        Turn(from, to, type) ==
            /\ p.status \in from
            /\ PaddleChanges(s, [p EXCEPT !.status = to], type)
    IN
    \/ Turn({"trialing", "past_due"}, "active", "activated")
    \/ Turn({"active"}, "past_due", "past_due")
    \/ Turn({"active"}, "paused", "paused")
    \/ Turn({"paused"}, "active", "resumed")
    \/ /\ Usable(s)
       /\ PaddleChanges(s, [p EXCEPT !.status = "canceled", !.scheduled = FALSE], "canceled")

\* The user acts on Paddle's own pages.
PortalChange(s) ==
    /\ Portal
    /\ Usable(s)
    /\ PaddleChanges(s, [paddle[s] EXCEPT !.scheduled = ~@], "updated")

PaddleStep ==
    /\ \E s \in Subs : Checkout(s) \/ Billing(s) \/ PortalChange(s)
    /\ UNCHANGED <<acked, stored, applied, row, handlers, api, late, errors, drops>>

-----------------------------------------------------------------------------
(* WebhookService.handleEvent *)

\* Fault: a stored event is taken to be in progress and is not continued.
ReceiveOnce(h, e) ==
    /\ handlers[h].pc = "idle"
    /\ e \in DOMAIN sent \ acked
    /\ InOrder => \A earlier \in 1 .. e - 1 : earlier \in acked
    /\ stored[e] \in {"absent", "processed"}
    /\ stored' = [stored EXCEPT ![e] = IF @ = "absent" THEN "stored" ELSE @]
    /\ handlers' = [handlers EXCEPT ![h] =
                       [pc |-> IF stored[e] = "processed" THEN "respond" ELSE "process",
                        event |-> e, ok |-> TRUE]]
    /\ UNCHANGED <<paddle, sent, acked, applied, row, api, late, errors, drops>>

\* Fault: the event is marked as processed when its id is stored.
ReceiveMarked(h, e) ==
    /\ handlers[h].pc = "idle"
    /\ e \in DOMAIN sent \ acked
    /\ InOrder => \A earlier \in 1 .. e - 1 : earlier \in acked
    /\ stored' = [stored EXCEPT ![e] = "processed"]
    /\ handlers' = [handlers EXCEPT ![h] =
                       [pc |-> IF stored[e] = "processed" THEN "respond" ELSE "process",
                        event |-> e, ok |-> TRUE]]
    /\ UNCHANGED <<paddle, sent, acked, applied, row, api, late, errors, drops>>

\* A delivery arrives.  The id is inserted; on P2002 the event is skipped if
\* the table says it was processed, and processed (again) if not.  Rows of the
\* table are never removed, so the insert and the lookup after it are one step.
Receive(h, e) ==
    /\ handlers[h].pc = "idle"
    /\ e \in DOMAIN sent \ acked
    /\ InOrder => \A earlier \in 1 .. e - 1 : earlier \in acked
    /\ stored' = [stored EXCEPT ![e] = IF @ = "absent" THEN "stored" ELSE @]
    /\ handlers' = [handlers EXCEPT ![h] =
                       [pc |-> IF stored[e] = "processed" THEN "respond" ELSE "process",
                        event |-> e, ok |-> TRUE]]
    /\ UNCHANGED <<paddle, sent, acked, applied, row, api, late, errors, drops>>

\* Fault: only the status of a canceled subscription is recorded.
CanceledRowKeepsTier(r) == [r EXCEPT !.status = "CANCELED", !.canceledAt = TRUE]

CanceledRow(r) == [r EXCEPT !.tier = "FREE", !.status = "CANCELED", !.canceledAt = TRUE]

\* Fault: the link to the Paddle subscription is left out.
NewRowUnlinked(ev, status) ==
    [tier |-> ev.tier, status |-> status, sub |-> None, canceledAt |-> FALSE]

\* handleCreatedOrActivated, handleTrialing: the row is written whole.
NewRow(ev, status) ==
    [tier |-> ev.tier, status |-> status, sub |-> ev.sub, canceledAt |-> FALSE]

\* Fault: the word Paddle has for the status is copied.
UpdatedRowCopied(r, ev) ==
    [r EXCEPT !.tier = ev.tier, !.status = ev.type, !.canceledAt = @ \/ ev.scheduled]

\* handleUpdated: a scheduled cancellation sets canceledAt, and none is ever
\* cleared; the status is left alone.
UpdatedRow(r, ev) ==
    [r EXCEPT !.tier = ev.tier, !.canceledAt = @ \/ ev.scheduled]

\* processEvent: what the row r becomes.
Processed(r, ev) ==
    CASE ev.type \in {"created", "activated"} -> NewRow(ev, "ACTIVE")
      [] ev.type = "trialing" -> NewRow(ev, "TRIALING")
      [] ev.type = "updated"  -> UpdatedRow(r, ev)
      [] ev.type = "canceled" -> CanceledRow(r)
      [] ev.type = "past_due" -> [r EXCEPT !.status = "PAST_DUE"]
      [] ev.type = "paused"   -> [r EXCEPT !.status = "PAUSED"]
      [] ev.type = "resumed"  -> [r EXCEPT !.status = "ACTIVE", !.canceledAt = FALSE]

\* The update by paddle_subscription_id finds no row (P2025).
NoSuchRow(ev) == ev.type \in BySubscription /\ ev.sub # row.sub

Process(h) ==
    LET e == handlers[h].event IN
    /\ handlers[h].pc = "process"
    /\ ~NoSuchRow(sent[e])
    /\ row' = Processed(row, sent[e])
    /\ applied' = applied \cup {e}
    /\ handlers' = [handlers EXCEPT ![h].pc = "mark"]
    /\ UNCHANGED <<paddle, sent, acked, stored, api, late, errors, drops>>

\* processEvent throws: no such row, or the database fails.
ProcessThrows(h) ==
    /\ handlers[h].pc = "process"
    /\ \/ NoSuchRow(sent[handlers[h].event]) /\ UNCHANGED errors
       \/ errors < MaxErrors /\ errors' = errors + 1
    /\ handlers' = [handlers EXCEPT ![h].pc = "mark", ![h].ok = FALSE]
    /\ UNCHANGED <<paddle, sent, acked, stored, applied, row, api, late, drops>>

\* The finally clause: markProcessed runs whether or not processing threw; an
\* exception then becomes a 500, which Paddle does not take for an answer.
Mark(h) ==
    /\ handlers[h].pc = "mark"
    /\ stored' = [stored EXCEPT ![handlers[h].event] = "processed"]
    /\ handlers' = [handlers EXCEPT ![h] =
                       IF @.ok THEN [@ EXCEPT !.pc = "respond"] ELSE Resting]
    /\ UNCHANGED <<paddle, sent, acked, applied, row, api, late, errors, drops>>

Respond(h) ==
    /\ handlers[h].pc = "respond"
    /\ acked' = acked \cup {handlers[h].event}
    /\ handlers' = [handlers EXCEPT ![h] = Resting]
    /\ UNCHANGED <<paddle, sent, stored, applied, row, api, late, errors, drops>>

\* The delivery ends without an answer.
Drop(h) ==
    /\ handlers[h].pc # "idle"
    /\ drops < MaxDrops
    /\ drops' = drops + 1
    /\ handlers' = [handlers EXCEPT ![h] = Resting]
    /\ UNCHANGED <<paddle, sent, acked, stored, applied, row, api, late, errors>>

-----------------------------------------------------------------------------
(* SubscriptionsService: cancelSubscription, reactivateSubscription, *)
(* changePlan.                                                       *)

ApiStep(request) ==
    /\ api' = request
    /\ UNCHANGED <<acked, stored, applied, handlers, errors, drops>>

\* Paddle is called, and refuses when the subscription is over.
CallPaddle(s, p) == Usable(s) /\ PaddleChanges(s, p, "updated")

Request(pc) ==
    /\ Plans /\ api.pc = "idle" /\ row.sub # None
    /\ ApiStep([NoRequest EXCEPT !.pc = pc, !.sub = row.sub])
    /\ UNCHANGED <<paddle, sent, row, late>>

CancelSubscription == Request("cancel")

CancelAtPaddle ==
    /\ api.pc = "cancel"
    /\ CallPaddle(api.sub, [paddle[api.sub] EXCEPT !.scheduled = TRUE])
    /\ ApiStep([api EXCEPT !.pc = "saveCancel"])
    /\ UNCHANGED <<row, late>>

SaveCancel ==
    /\ api.pc = "saveCancel"
    /\ row' = [row EXCEPT !.canceledAt = TRUE]
    /\ ApiStep(NoRequest)
    /\ UNCHANGED <<paddle, sent, late>>

ReactivateSubscription ==
    /\ row.canceledAt
    /\ Request("reactivate")

ClearAtPaddle ==
    /\ api.pc = "reactivate"
    /\ CallPaddle(api.sub, [paddle[api.sub] EXCEPT !.scheduled = FALSE])
    /\ ApiStep([api EXCEPT !.pc = "saveClear"])
    /\ UNCHANGED <<row, late>>

SaveClear ==
    /\ api.pc = "saveClear"
    /\ row' = [row EXCEPT !.canceledAt = FALSE]
    /\ ApiStep(NoRequest)
    /\ UNCHANGED <<paddle, sent, late>>

\* Reads the row once; every later step uses what was read here.
ChangePlan(target) ==
    /\ Plans /\ api.pc = "idle" /\ row.sub # None
    /\ row.status \in {"ACTIVE", "TRIALING"}
    /\ target # row.tier
    /\ ApiStep([pc |-> IF row.canceledAt THEN "clear" ELSE "update",
                sub |-> row.sub, target |-> target,
                upgrade |-> Order[target] > Order[row.tier]])
    /\ UNCHANGED <<paddle, sent, row, late>>

\* A pending cancellation is cleared first, at Paddle and then in the row.
ClearScheduledChange ==
    /\ api.pc = "clear"
    /\ CallPaddle(api.sub, [paddle[api.sub] EXCEPT !.scheduled = FALSE])
    /\ ApiStep([api EXCEPT !.pc = "clearSave"])
    /\ UNCHANGED <<row, late>>

\* Fault: the new tier is written with the cleared cancellation, before Paddle
\* has agreed to it.
SaveScheduledChangeAndTier ==
    /\ api.pc = "clearSave"
    /\ row' = [row EXCEPT !.tier = api.target, !.canceledAt = FALSE]
    /\ ApiStep([api EXCEPT !.pc = "update"])
    /\ UNCHANGED <<paddle, sent, late>>

SaveScheduledChange ==
    /\ api.pc = "clearSave"
    /\ row' = [row EXCEPT !.canceledAt = FALSE]
    /\ ApiStep([api EXCEPT !.pc = "update"])
    /\ UNCHANGED <<paddle, sent, late>>

UpdateSubscription ==
    /\ api.pc = "update"
    /\ CallPaddle(api.sub, [paddle[api.sub] EXCEPT !.tier = api.target])
    /\ ApiStep([api EXCEPT !.pc = "savePlan"])
    /\ UNCHANGED <<row, late>>

\* An upgrade is written at once, a downgrade left to the webhook.
SavePlan ==
    LET over == row.sub # api.sub \/ row.status = "CANCELED" IN
    /\ api.pc = "savePlan"
    /\ row' = [row EXCEPT !.tier = IF api.upgrade THEN api.target ELSE @,
                          !.canceledAt = FALSE]
    /\ late' = late \cup (IF api.upgrade /\ over THEN {api.sub} ELSE {})
    /\ ApiStep(NoRequest)
    /\ UNCHANGED <<paddle, sent>>

\* Paddle refuses, or an interruption ends the request: it answers with an error and
\* leaves what it has done.
ApiFails ==
    /\ api.pc # "idle"
    /\ \/ /\ api.pc \in {"cancel", "reactivate", "clear", "update"} /\ ~Usable(api.sub)
          /\ UNCHANGED drops
       \/ drops < MaxDrops /\ drops' = drops + 1
    /\ api' = NoRequest
    /\ UNCHANGED <<paddle, sent, acked, stored, applied, row, handlers, late, errors>>

-----------------------------------------------------------------------------

HandlerStep(h) ==
    \/ \E e \in EventIds : Receive(h, e)
    \/ Process(h)
    \/ ProcessThrows(h)
    \/ Mark(h)
    \/ Respond(h)
    \/ Drop(h)

RequestStep ==
    \/ CancelSubscription
    \/ CancelAtPaddle
    \/ SaveCancel
    \/ ReactivateSubscription
    \/ ClearAtPaddle
    \/ SaveClear
    \/ \E t \in Paid : ChangePlan(t)
    \/ ClearScheduledChange
    \/ SaveScheduledChange
    \/ UpdateSubscription
    \/ SavePlan
    \/ ApiFails

Next ==
    \/ PaddleStep
    \/ \E h \in Handlers : HandlerStep(h)
    \/ RequestStep

\* Paddle goes on delivering what is not answered, and the server goes on with
\* what it has begun; nobody has to subscribe, pay or ask for anything.
Fairness ==
    \A h \in Handlers :
        /\ \A e \in EventIds : WF_vars(Receive(h, e))
        /\ WF_vars(Process(h))
        /\ WF_vars(ProcessThrows(h))
        /\ WF_vars(Mark(h))
        /\ WF_vars(Respond(h))

Spec == Init /\ [][Next]_vars

FairSpec == Spec /\ Fairness

-----------------------------------------------------------------------------
(* Properties *)

Answered == acked = DOMAIN sent

\* Nothing is under way: every event is answered, no delivery and no request
\* is being worked on.
Settled ==
    /\ Answered
    /\ \A h \in Handlers : handlers[h].pc = "idle"
    /\ api.pc = "idle"

StatusOf == [active |-> "ACTIVE", trialing |-> "TRIALING", past_due |-> "PAST_DUE",
             paused |-> "PAUSED", canceled |-> "CANCELED"]

\* The tier the user gets and the status shown are those of the subscription the
\* row is linked to, and FREE once it is over.
MatchesPaddle ==
    row.sub # None =>
        LET p == paddle[row.sub] IN
        /\ row.status = StatusOf[p.status]
        /\ row.tier = IF p.status = "canceled" THEN "FREE" ELSE p.tier

\* Once nothing is under way the row agrees with Paddle, whatever deliveries
\* were dropped and repeated on the way, and wherever webhooks came between the
\* steps of a plan change, unless an upgrade was written to the row after the end of
\* its subscription had been.
SettledRowMatches == Settled /\ late = {} => MatchesPaddle

\* The user who has a subscription at Paddle has it in the row.
SettledRowLinked ==
    Settled => \A s \in Subs : Usable(s) => row.sub = s

\* An answered event has been applied to the row: the id in webhook_events
\* never stands for an event that was dropped.
AnsweredMeansApplied == acked \subseteq applied

\* Every event Paddle emits is eventually answered.
EventuallyAnswered == \A e \in EventIds : e \in DOMAIN sent ~> e \in acked

\* A paid tier in the row is one that Paddle has reported: of the subscription the
\* row is linked to, or in agreeing to a change of another of the user's.
PaidTierFromPaddle ==
    row.tier # "FREE" =>
        \E e \in DOMAIN sent :
            /\ sent[e].tier = row.tier
            /\ sent[e].sub = row.sub \/ sent[e].type = "updated"

=============================================================================
