------------------------- MODULE NotificationOutbox -------------------------
(***************************************************************************)
(* Booking notices: Altegio's webhook says that an appointment changed, a  *)
(* durable event is queued, and a worker reads the appointment, decides    *)
(* whether the version it reads is news, reads it again, and hands the     *)
(* notice to one messaging route after another until one does not refuse   *)
(* it.  Every hand-over is recorded before it is made.  Receipts of the    *)
(* WhatsApp provider arrive at any time, repeated and out of order.        *)
(*                                                                         *)
(* One appointment and one phone.  A version stands for the fingerprint of *)
(* what a customer can see of an appointment.  The routes a customer       *)
(* permits, and the health guard lets through, are the set open; where     *)
(* that set comes from is modelled in ContactPermissions and in            *)
(* ChannelHealth.                                                          *)
(***************************************************************************)
EXTENDS Integers, Sequences, FiniteSets

CONSTANTS
    Workers,
    Nobody,
    Versions,      \* fingerprints
    Cancelled,     \* the fingerprint of the cancelled appointment
    Order,         \* the routes, in the order of the policy
    MaxChanges,    \* bound: changes of the appointment, each of which emits an event
    MaxEvents,     \* bound: changes of the open routes
    MaxFaults      \* bound: crashes, errors, delays beyond a lease

ASSUME OutboxAssumption ==
    /\ Cancelled \in Versions
    /\ Nobody \notin Workers
    /\ Order \in Seq(STRING)
    /\ {MaxChanges, MaxEvents, MaxFaults} \subseteq Nat

Routes == {Order[i] : i \in 1..Len(Order)}
Events == 1..MaxChanges
Kinds  == {"initial", "whatsapp-failed", "recovery"}
Tasks  == Events \X Kinds

Outcomes == ({"accepted", "uncertain", "rejected"} \X Routes)
            \cup {<<"none">>, <<"duplicate_or_stale">>, <<"existing_or_assistant_booking">>,
                  <<"record_unavailable">>, <<"superseded">>, <<"appointment_started">>,
                  <<"no_linked_messenger">>}

Readings == [version : Versions, changed : 0..MaxChanges]
EventRows == [state : {"absent", "pending", "prepared", "done"}, notice : Readings,
              owner : Workers \cup {Nobody}, leased : BOOLEAN, outcome : Outcomes]
DeliveryRows == [state : {"none", "sending", "retryable_rejection", "done"},
                 outcome : Outcomes, attempted : SUBSET Routes,
                 provider : {"none", "delivered", "failed"}]
Steps == {"read", "prepare", "reread", "intent", "send", "record", "finish"}

VARIABLES
    calendar,   \* [version, changed, gone, started]: the appointment in Altegio
    origin,     \* who made it: a customer elsewhere, the assistant, a customer long ago
    open,       \* routes the customer permits and the health guard allows
    record,     \* the version last prepared, and when that version was read
    events,     \* the event rows
    deliveries, \* the delivery rows: intents, outcomes and receipts
    queue,      \* tasks not yet acknowledged
    names,      \* names of tasks the queue refuses
    work,       \* what each worker does
    fate,       \* what became of the WhatsApp message of each event
    changes, faults,
    \* ---- history, read by no action of the program
    copies,     \* how many messages of each event reached the customer
    disturbed,  \* workers whose second reading is out of date
    overlapped  \* events whose lease ended under a delivery that went on

world    == <<calendar, origin, open, changes>>
rows     == <<record, events, deliveries>>
tasks    == <<queue, names>>
received == <<fate, copies>>
vars == <<world, rows, tasks, work, received, faults, disturbed, overlapped>>

NoFault == UNCHANGED faults
Fault   == faults < MaxFaults /\ faults' = faults + 1

Nothing     == [version |-> Cancelled, changed |-> 0]
NewEvent    == [state |-> "absent", notice |-> Nothing, owner |-> Nobody,
                leased |-> FALSE, outcome |-> <<"none">>]
NewDelivery == [state |-> "none", outcome |-> <<"none">>, attempted |-> {}, provider |-> "none"]
Idle        == [pc |-> "idle"]

\* Creating a task whose name is known succeeds and adds nothing.
Schedule(t) ==
    /\ queue' = IF t \in names THEN queue ELSE queue \cup {t}
    /\ names' = names \cup {t}

\* The name of a recovery task holds the hour: it is new every hour.  A second task
\* of an event is left out: it does no more than a second dispatch of the first.
ScheduleRecovery(e) ==
    /\ queue' = IF \E t \in queue : t[1] = e THEN queue ELSE queue \cup {<<e, "recovery">>}
    /\ UNCHANGED names

-----------------------------------------------------------------------------
(* The world: the appointment changes, routes open and close, hooks arrive. *)

Disturb == disturbed' = disturbed \cup {w \in Workers : work[w].pc \in {"intent", "send", "record"}}

\* Each change makes Altegio emit the next event; a deleted record may be gone.
Change(v) ==
    /\ calendar.changed < MaxChanges /\ ~calendar.gone
    /\ changes < MaxEvents /\ changes' = changes + 1
    /\ v # calendar.version
    /\ \E gone \in IF v = Cancelled THEN BOOLEAN ELSE {FALSE} :
         calendar' = [calendar EXCEPT !.version = v, !.gone = gone, !.changed = @ + 1]
    /\ Disturb
    /\ UNCHANGED <<origin, open, rows, tasks, work, received, faults, overlapped>>

\* The appointment begins.
Start ==
    /\ changes < MaxEvents /\ changes' = changes + 1
    /\ ~calendar.started
    /\ calendar' = [calendar EXCEPT !.started = TRUE]
    /\ Disturb
    /\ UNCHANGED <<origin, open, rows, tasks, work, received, faults, overlapped>>

\* A withdrawal, a new permission, a channel paused or restored.
Reroute(routes) ==
    /\ changes < MaxEvents /\ changes' = changes + 1
    /\ routes # open
    /\ open' = routes
    /\ Disturb
    /\ UNCHANGED <<calendar, origin, rows, tasks, work, received, faults, overlapped>>

\* The webhook, once, repeatedly or never; the queue may refuse the task.
Ingest(e) ==
    /\ e <= calendar.changed
    /\ events' = IF events[e].state = "absent"
                 THEN [events EXCEPT ![e].state = "pending"] ELSE events
    /\ \/ Schedule(<<e, "initial">>) /\ NoFault
       \/ UNCHANGED tasks /\ Fault
    /\ UNCHANGED <<world, record, deliveries, work, received, disturbed, overlapped>>

-----------------------------------------------------------------------------
(* A confirmed failure of the WhatsApp message reopens a finished event.   *)

MaybeSent == {<<"accepted", "whatsapp">>, <<"uncertain", "whatsapp">>}

Failed(d) == d.provider = "failed" /\ d.outcome \in MaybeSent

WhenDone(ev, d) == Failed(d) /\ ev.state = "done" /\ ev.outcome \in MaybeSent
ReopensPrepared(ev, d) == Failed(d) /\ ev.state = "prepared"
Reopens(ev, d) ==
    /\ Failed(d)
    /\ ev.state = "prepared" \/ (ev.state = "done" /\ ev.outcome \in MaybeSent)

\* prepareWhatsAppFallback
ReopenedEvent(ev, d) ==
    IF Reopens(ev, d) THEN [ev EXCEPT !.state = "prepared", !.outcome = <<"none">>] ELSE ev
ReopenedDelivery(ev, d) ==
    IF Reopens(ev, d)
    THEN [d EXCEPT !.state = "retryable_rejection", !.outcome = <<"rejected", "whatsapp">>]
    ELSE d

\* A receipt of an attempted message: delivered (or read) is final evidence, sent
\* (left out) is none.  A provider that takes back what it said is a fault.
Receipt(e, state) ==
    LET ev == events[e]
        d  == deliveries[e]
        got == [d EXCEPT !.provider = state]
        late == state = "delivered" /\ d.state = "retryable_rejection"
                /\ d.outcome = <<"rejected", "whatsapp">>
        contrary == fate[e] \notin {state, "disputed"}
    IN /\ fate[e] \in {"delivered", "failed", "disputed"}
       /\ d.provider # "delivered"
       /\ d.provider # state \/ Failed(d)
       /\ fate' = IF contrary THEN [fate EXCEPT ![e] = "disputed"] ELSE fate
       /\ deliveries' = [deliveries EXCEPT ![e] =
            IF state = "failed" THEN ReopenedDelivery(ev, got)
            ELSE IF late THEN [got EXCEPT !.state = "done", !.outcome = <<"accepted", "whatsapp">>]
            ELSE got]
       /\ events' = [events EXCEPT ![e] =
            IF state = "failed" THEN ReopenedEvent(ev, got)
            ELSE IF late /\ ev.state = "prepared"
            THEN [ev EXCEPT !.state = "done", !.outcome = <<"accepted", "whatsapp">>]
            ELSE ev]
       /\ IF contrary THEN Fault ELSE NoFault
       /\ IF state = "failed" THEN Schedule(<<e, "whatsapp-failed">>) ELSE UNCHANGED tasks
       /\ UNCHANGED <<world, record, work, copies, disturbed, overlapped>>

Reaches(e) == copies' = [copies EXCEPT ![e] = @ + 1]

\* The provider delivers the accepted message, or gives it up.
Settle(e) ==
    /\ fate[e] = "accepted"
    /\ \/ fate' = [fate EXCEPT ![e] = "delivered"] /\ Reaches(e)
       \/ fate' = [fate EXCEPT ![e] = "failed"] /\ UNCHANGED copies
    /\ UNCHANGED <<world, rows, tasks, work, faults, disturbed, overlapped>>

-----------------------------------------------------------------------------
(* A delivery: Deliver, one step per transaction or call of a provider.    *)

At(w, pc)  == work[w].pc = pc
Event(w)   == work[w].task[1]

Fresh(t, pc) == [pc |-> pc, task |-> t, read |-> Nothing,
                 left |-> {}, outcome |-> <<"none">>, ledger |-> FALSE]
Undisturbed(w) == disturbed' = disturbed \ {w}
Goto(w, pc)  == work' = [work EXCEPT ![w] = [@ EXCEPT !.pc = pc]] /\ UNCHANGED disturbed
Stop(w)      == work' = [work EXCEPT ![w] = Idle] /\ Undisturbed(w)

Released(w, row) ==
    IF row.owner = w THEN [row EXCEPT !.leased = FALSE, !.owner = Nobody] ELSE row

\* ErrBusy: the lease went to another delivery, and there is none to release.
Busy(w) == Stop(w) /\ UNCHANGED <<events, queue, faults>>

\* The event is written, and Deliver returns no error: the deferred release of the
\* lease and the acknowledgement of the task, or a crash before them.
Return(w, row) ==
    LET e == Event(w) IN
    /\ Stop(w)
    /\ \/ /\ events' = [events EXCEPT ![e] = Released(w, row)]
          /\ queue' = queue \ {work[w].task}
          /\ NoFault
       \/ events' = [events EXCEPT ![e] = row] /\ UNCHANGED queue /\ Fault
\* finish is the next step; ledger: the delivery row is part of its transaction.
ToFinish(w, outcome, ledger) ==
    work' = [work EXCEPT ![w] = [Fresh(@.task, "finish") EXCEPT !.outcome = outcome, !.ledger = ledger]]
    /\ Undisturbed(w)

\* resumeFailedWhatsApp and the claim, two transactions of which the second uses
\* nothing of the first.  A leased event is busy: the task is dispatched again.
Dispatch(w, t) ==
    LET e == t[1]
        ev == ReopenedEvent(events[e], deliveries[e])
    IN /\ work[w] = Idle /\ t \in queue
       /\ ~events[e].leased \/ (events[e].state = "done" /\ ~Failed(deliveries[e]))
       /\ IF events[e].leased THEN UNCHANGED <<events, deliveries, work>> /\ queue' = queue \ {t}
          ELSE /\ deliveries' = [deliveries EXCEPT ![e] = ReopenedDelivery(events[e], @)]
               /\ IF ev.state = "done"
                  THEN events' = [events EXCEPT ![e] = ev] /\ queue' = queue \ {t} /\ UNCHANGED work
                  ELSE /\ events' = [events EXCEPT ![e] = [ev EXCEPT !.leased = TRUE, !.owner = w]]
                       /\ work' = [work EXCEPT ![w] =
                                     Fresh(t, IF ev.state = "pending" THEN "read" ELSE "reread")]
                       /\ UNCHANGED queue
       /\ UNCHANGED <<world, record, names, received, faults, disturbed, overlapped>>

ReadAppointment(w) ==
    /\ At(w, "read")
    /\ IF calendar.gone THEN ToFinish(w, <<"record_unavailable">>, FALSE)
       ELSE work' = [work EXCEPT ![w].pc = "prepare",
                       ![w].read = [version |-> calendar.version, changed |-> calendar.changed]]
            /\ UNCHANGED disturbed
    /\ UNCHANGED <<world, rows, tasks, received, faults, overlapped>>

NotNews(snap) ==
    record.changed > 0 /\ (record.version = snap.version \/ snap.changed < record.changed)

\* Nothing to tell: the assistant's own, one from before the service, one that began.
NotOurs(snap) ==
    \/ origin = "assistant"
    \/ origin = "earlier" /\ record.changed = 0
    \/ snap.version # Cancelled /\ calendar.started

\* Is what was read news?  The record and the event are written together.
Prepare(w) ==
    LET e == Event(w)
        snap == work[w].read
        done(row, outcome) == [row EXCEPT !.state = "done", !.outcome = outcome]
        noticed == [events[e] EXCEPT !.notice = snap]
    IN /\ At(w, "prepare")
       /\ IF events[e].owner # w THEN Busy(w) /\ UNCHANGED record
          ELSE IF NotNews(snap)
          THEN Return(w, done(events[e], <<"duplicate_or_stale">>)) /\ UNCHANGED record
          ELSE /\ record' = snap
               /\ IF NotOurs(snap)
                  THEN Return(w, done(noticed, <<"existing_or_assistant_booking">>))
                  ELSE /\ events' = [events EXCEPT ![e] = [noticed EXCEPT !.state = "prepared"]]
                       /\ work' = [work EXCEPT ![w] = Fresh(@.task, "reread")]
                       /\ UNCHANGED <<queue, faults, disturbed>>
       /\ UNCHANGED <<world, deliveries, names, received, overlapped>>

\* The routes a delivery has left are tried in the order of the policy.
First(routes) ==
    Order[CHOOSE i \in 1..Len(Order) :
            Order[i] \in routes /\ \A j \in 1..(i - 1) : Order[j] \notin routes]

RereadUnchecked(w) ==
    /\ At(w, "reread")
    /\ IF open = {} THEN ToFinish(w, <<"no_linked_messenger">>, FALSE)
       ELSE work' = [work EXCEPT ![w].pc = "intent", ![w].left = open] /\ Undisturbed(w)
    /\ UNCHANGED <<world, rows, tasks, received, faults, overlapped>>

\* The appointment again, right before sending, and the routes it may take.
Reread(w) ==
    /\ At(w, "reread")
    /\ IF calendar.gone THEN ToFinish(w, <<"record_unavailable">>, FALSE)
       ELSE IF calendar.version # events[Event(w)].notice.version THEN ToFinish(w, <<"superseded">>, FALSE)
       ELSE IF calendar.version # Cancelled /\ calendar.started
            THEN ToFinish(w, <<"appointment_started">>, FALSE)
       ELSE IF open = {} THEN ToFinish(w, <<"no_linked_messenger">>, FALSE)
       ELSE work' = [work EXCEPT ![w].pc = "intent", ![w].left = open] /\ Undisturbed(w)
    /\ UNCHANGED <<world, rows, tasks, received, faults, overlapped>>

Attempt(w) ==
    LET d == deliveries[Event(w)]
        route == First(work[w].left)
        attempt == [d EXCEPT !.state = "sending", !.outcome = <<"uncertain", route>>,
                             !.attempted = @ \cup {route}]
    IN /\ deliveries' = [deliveries EXCEPT ![Event(w)] = attempt]
       /\ Goto(w, "send")

IntentAnyway(w) ==
    /\ At(w, "intent")
    /\ Attempt(w)
    /\ UNCHANGED <<world, record, events, tasks, received, faults, overlapped>>

\* The intent of a send is durable before the send; what was attempted is not
\* attempted again, what may have been sent is not sent by another route.
Intent(w) ==
    LET d == deliveries[Event(w)]
        left == work[w].left
    IN /\ At(w, "intent")
       /\ IF d.state \in {"sending", "done"}
          THEN ToFinish(w, d.outcome, TRUE) /\ UNCHANGED deliveries
          ELSE IF First(left) \notin d.attempted THEN Attempt(w)
          ELSE /\ UNCHANGED deliveries
               /\ IF left # {First(left)}
                  THEN work' = [work EXCEPT ![w].left = @ \ {First(left)}] /\ UNCHANGED disturbed
                  ELSE ToFinish(w, d.outcome, TRUE)
       /\ UNCHANGED <<world, record, events, tasks, received, faults, overlapped>>

\* The provider accepts the notice, rejects it, or leaves it open whether it did.
Send(w) ==
    LET e == Event(w)
        route == First(work[w].left)
        Sent(verdict) == work' = [work EXCEPT ![w].pc = "record", ![w].outcome = <<verdict, route>>]
        Accepted == IF route = "whatsapp"
                    THEN fate' = [fate EXCEPT ![e] = "accepted"] /\ UNCHANGED copies
                    ELSE Reaches(e) /\ UNCHANGED fate
    IN /\ At(w, "send")
       /\ \/ Sent("accepted") /\ Accepted /\ NoFault
          \/ Sent("rejected") /\ UNCHANGED received /\ NoFault
          \/ Sent("uncertain") /\ Fault /\ (Accepted \/ UNCHANGED received)
       /\ UNCHANGED <<world, rows, tasks, disturbed, overlapped>>

Record(w) ==
    LET outcome == work[w].outcome
        rejected == outcome[1] = "rejected"
        next == work[w].left \ {First(work[w].left)}
    IN /\ At(w, "record")
       /\ deliveries' = [deliveries EXCEPT ![Event(w)] =
            [@ EXCEPT !.state = IF rejected THEN "retryable_rejection" ELSE "done",
                      !.outcome = outcome]]
       /\ IF rejected /\ next # {}
          THEN work' = [work EXCEPT ![w] = [Fresh(@.task, "intent") EXCEPT !.left = next]]
               /\ UNCHANGED disturbed
          ELSE ToFinish(w, outcome, TRUE)
       /\ UNCHANGED <<world, record, events, tasks, received, faults, overlapped>>

\* finish, which looks again for a failure that the provider has confirmed.
Finish(w) ==
    LET e == Event(w)
        done == [events[e] EXCEPT !.state = "done", !.outcome = work[w].outcome]
    IN /\ At(w, "finish")
       /\ IF events[e].owner # w THEN Busy(w) /\ UNCHANGED deliveries
          ELSE IF work[w].ledger
          THEN /\ Return(w, ReopenedEvent(done, deliveries[e]))
               /\ deliveries' = [deliveries EXCEPT ![e] = ReopenedDelivery(done, @)]
          ELSE Return(w, done) /\ UNCHANGED deliveries
       /\ UNCHANGED <<world, record, names, received, overlapped>>

Deliver(w) ==
    \/ ReadAppointment(w) \/ Prepare(w) \/ Reread(w) \/ Intent(w)
    \/ Send(w) \/ Record(w) \/ Finish(w)

\* A call of the calendar or the store fails: the lease is released, the task stays.
Fail(w) ==
    /\ Fault
    /\ work[w].pc \notin {"idle", "send"}
    /\ events' = [events EXCEPT ![Event(w)] = Released(w, @)]
    /\ Stop(w)
    /\ UNCHANGED <<world, record, deliveries, tasks, received, overlapped>>

\* The process dies, at any step, and leaves its lease.
Crash(w) ==
    /\ Fault
    /\ work[w] # Idle
    /\ Stop(w)
    /\ UNCHANGED <<world, rows, tasks, received, overlapped>>

-----------------------------------------------------------------------------
(* Leases, and the recovery that a scheduler job runs every few minutes.   *)

Working(e) == {w \in Workers : work[w] # Idle /\ Event(w) = e /\ events[e].owner = w}

\* Two minutes pass; a delivery that lasts as long is a fault.
Expire(e) ==
    /\ events[e].leased
    /\ events' = [events EXCEPT ![e].leased = FALSE,
                    ![e].owner = IF Working(e) = {} THEN Nobody ELSE @]
    /\ IF Working(e) = {} THEN NoFault /\ UNCHANGED overlapped
       ELSE Fault /\ overlapped' = overlapped \cup {e}
    /\ UNCHANGED <<world, record, deliveries, tasks, work, received, disturbed>>

ReconcilePrepared(e) ==
    /\ events[e].state = "prepared" /\ ~events[e].leased
    /\ ScheduleRecovery(e)
    /\ UNCHANGED <<world, rows, work, received, faults, disturbed, overlapped>>

\* Reconcile: an open event that nobody holds gets a task.
Reconcile(e) ==
    /\ events[e].state \in {"pending", "prepared"} /\ ~events[e].leased
    /\ ScheduleRecovery(e)
    /\ UNCHANGED <<world, rows, work, received, faults, disturbed, overlapped>>

\* reconcileUnrouted: a notice that had no route is tried again, for a day.
ReconcileUnrouted(e) ==
    /\ events[e].state = "done" /\ events[e].outcome = <<"no_linked_messenger">>
    /\ ~events[e].leased
    /\ events' = [events EXCEPT ![e].state = "prepared", ![e].outcome = <<"none">>]
    /\ ScheduleRecovery(e)
    /\ UNCHANGED <<world, record, deliveries, work, received, faults, disturbed, overlapped>>

-----------------------------------------------------------------------------
Init ==
    /\ \E v \in Versions \ {Cancelled} :
         calendar = [version |-> v, changed |-> 1, gone |-> FALSE, started |-> FALSE]
    /\ origin \in {"customer", "assistant", "earlier"}
    /\ open \in SUBSET Routes
    /\ record = Nothing
    /\ events = [e \in Events |-> NewEvent]
    /\ deliveries = [e \in Events |-> NewDelivery]
    /\ queue = {} /\ names = {}
    /\ work = [w \in Workers |-> Idle]
    /\ fate = [e \in Events |-> "none"]
    /\ changes = 0 /\ faults = 0
    /\ copies = [e \in Events |-> 0]
    /\ disturbed = {} /\ overlapped = {}

Next ==
    \/ \E v \in Versions : Change(v)
    \/ Start
    \/ \E routes \in SUBSET Routes : Reroute(routes)
    \/ \E e \in Events :
         \/ Ingest(e) \/ Settle(e) \/ Expire(e) \/ Reconcile(e) \/ ReconcileUnrouted(e)
         \/ \E state \in {"delivered", "failed"} : Receipt(e, state)
    \/ \E w \in Workers :
         \/ \E t \in queue : Dispatch(w, t)
         \/ Deliver(w) \/ Fail(w) \/ Crash(w)

\* A delivery that runs goes on; a lease ends; the job that reconciles runs again and
\* again; the queue dispatches a task until it is acknowledged.
Fairness ==
    /\ \A w \in Workers : WF_vars(Deliver(w))
    /\ \A e \in Events :
         /\ WF_vars(Expire(e) /\ Working(e) = {})
         /\ WF_vars(Reconcile(e))
         /\ SF_vars(\E t \in queue : t[1] = e /\ \E w \in Workers : Dispatch(w, t))

Spec == Init /\ [][Next]_vars /\ Fairness

-----------------------------------------------------------------------------
(* Properties.                                                             *)

\* Rows, tasks and deliveries are well-formed; a claim and its lease go together.
TypeOK ==
    /\ calendar \in [version : Versions, changed : 1..MaxChanges, gone : BOOLEAN, started : BOOLEAN]
    /\ origin \in {"customer", "assistant", "earlier"} /\ open \subseteq Routes
    /\ record \in Readings
    /\ events \in [Events -> EventRows]
    /\ \A e \in Events : events[e].leased => events[e].owner # Nobody
    /\ deliveries \in [Events -> DeliveryRows]
    /\ queue \subseteq Tasks /\ names \subseteq Tasks
    /\ \A w \in Workers : work[w] # Idle =>
         /\ work[w].pc \in Steps /\ work[w].task \in Tasks
         /\ work[w].read \in Readings /\ work[w].outcome \in Outcomes
    /\ fate \in [Events -> {"none", "accepted", "delivered", "failed", "disputed"}]
    /\ changes \in 0..MaxEvents /\ faults \in 0..MaxFaults
    /\ copies \in [Events -> Nat]
    /\ overlapped \subseteq Events
    /\ disturbed \subseteq {w \in Workers : work[w].pc \in {"intent", "send", "record"}}

\* One event reaches the customer at most once, by whatever routes, retries, crashes,
\* lost answers and fallbacks, unless the provider took back a receipt or two
\* deliveries of the event overlapped: a delivery that outlives its lease writes its
\* result over what the next one has recorded.  "Only a definitive
\* rejection/non-delivery can start fallback" (altegio-notifications.md:81)
OneCopy == \A e \in Events \ overlapped : fate[e] # "disputed" => copies[e] <= 1

\* In whatever order the receipts and the steps of a delivery come, an event is never
\* closed on a message whose failure the ledger holds: whoever writes the second of
\* the two reopens it, unless two deliveries of the event overlapped.
FailureIsSeen ==
    \A e \in Events \ overlapped : ~WhenDone(events[e], deliveries[e])

\* The same of the event alone: it is not closed as sent on a message that the
\* provider said has failed.  "Preserve its confirmed failure even if this worker
\* just recorded acceptance" (service.go:573-574)
FailureIsNotForgotten ==
    \A e \in Events :
        /\ events[e].state = "done" /\ deliveries[e].provider = "failed"
        /\ \E route \in Routes \ deliveries[e].attempted : route \in open
        => events[e].outcome \notin MaybeSent

\* A notice that goes out describes the appointment as it is, on a route that is
\* open, unless one of them changed after the second reading.  "Re-read immediately
\* before sending so a cancellation or reschedule cannot be followed by a stale
\* queued confirmation" (service.go:299-300)
NoticeIsCurrent ==
    [][\A w \in Workers :
         At(w, "send") /\ work'[w].pc = "record" =>
            \/ w \in disturbed
            \/ /\ calendar.version = events[Event(w)].notice.version
               /\ ~calendar.gone /\ First(work[w].left) \in open]_vars

\* Every change the service has heard of is dealt with in the end.
EventsEnd ==
    \A e \in Events : events[e].state # "absent" ~> events[e].state = "done"
=============================================================================
