------------------------------ MODULE Reminders ------------------------------
(***************************************************************************)
(* Appointment reminders: one per exact appointment start, stored durably, *)
(* woken by named tasks of an at-least-once queue, revalidated against the *)
(* calendar (Altegio) when due, and sent under a lease that a crashed      *)
(* delivery leaves behind.                                                 *)
(*                                                                         *)
(* A reminder is identified by its booking and the start it announces; a   *)
(* task by its reminder and its run time, as the hashes of the code do.    *)
(* The queue is Cloud Tasks: a name is refused for as long as it is known, *)
(* a task is dispatched again until a dispatch of it is acknowledged, and  *)
(* two dispatches of one task may overlap.                                 *)
(***************************************************************************)
EXTENDS Integers, FiniteSets, FiniteSetsExt

CONSTANTS
    Bookings, Starts,  \* appointments, and the times they may start at
    Workers,           \* concurrent runs of the task endpoint
    Nobody, Absent,    \* no claim; a reminder that was never stored
    NeedsOptIn,        \* WhatsApp (TRUE) or Telegram (FALSE)
    LeadTime,          \* REMINDER_LEAD_TIME
    MaxTaskDelay,      \* maxTaskDelay (29 days)
    Lease,             \* claimDuration (5 minutes)
    RequestTime,       \* longest delivery: the HTTP clients' timeouts
    Skew,              \* how far the service's clock may be behind the queue's
    MaxTime, MaxEvents, MaxFaults \* bounds: clock; changes by people and starts; failures

Reminders == Bookings \X Starts
Due(r)    == r[2] - LeadTime

Visit == [status : {"confirmed", "cancelled"}, start : Starts]
Tasks == [id : Reminders, runAt : 0..MaxTime]
Statuses == {"scheduled", "delivering", "sent", "skipped"}
Stored ==
    [status : Statuses, created : 0..MaxTime,
     claim : Workers \cup {Nobody}, expires : 0..(MaxTime + Lease)]
Steps == {"claim", "read", "send", "sent", "skip", "release"}

\* A delivery is over before its claim is: the HTTP clients give up after 15
\* seconds at most, and clocks differ by less than the minutes that remain.
ASSUME RemindersAssumption ==
    /\ Starts \subseteq Nat
    /\ {LeadTime, RequestTime, Skew, MaxTime, MaxEvents, MaxFaults} \subseteq Nat
    /\ {MaxTaskDelay, Lease} \subseteq Nat \ {0}
    /\ RequestTime + Skew < Lease
    /\ NeedsOptIn \in BOOLEAN
    /\ Nobody \notin Workers
    /\ Absent \notin Stored

VARIABLES
    now,
    calendar,   \* what Altegio holds
    local,      \* the assistant's own view of the appointments
    consents,   \* the customer may be reminded here: opted in, template approved
    toPlan,     \* appointments saved by the assistant whose Plan has yet to run
    reminders,  \* the reminder collection
    queue,      \* tasks that have not been acknowledged
    names,      \* task names the queue refuses
    work,       \* the deliveries under way
    events, faults,
    \* ---- history, read by no action of the program
    delivered,  \* how often the customer received each reminder
    excused,    \* deliveries whose record was lost
    adrift,     \* reminders whose task was refused by an error or lost
    disturbed   \* deliveries during which the appointment or the consent changed

store   == <<reminders, queue, names>>
people  == <<calendar, consents, events>>
history == <<delivered, excused>>
vars == <<now, people, local, toPlan, store, work, faults, history, adrift, disturbed>>

Idle == [pc |-> "idle"]
NotSkipped(r) == reminders[r] # Absent /\ reminders[r].status = "skipped"
Terminal(r) == reminders[r] # Absent /\ reminders[r].status \in {"sent", "skipped"}
Busy(w, pcs) == work[w].pc \in pcs
Subject(w) == work[w].task.id
Owns(w) ==
    /\ reminders[Subject(w)].status = "delivering"
    /\ reminders[Subject(w)].claim = w

FaultAllowed == faults < MaxFaults /\ now + Lease < MaxTime
Fault == FaultAllowed /\ faults' = faults + 1
NoFault == UNCHANGED faults

-----------------------------------------------------------------------------
(* Names and times of the wake-ups.                                        *)

WakeAgain(r, created, at) ==
    IF Due(r) <= at + MaxTaskDelay
    THEN Due(r)
    ELSE Min({Due(r)} \cup
             {t \in {created + k * MaxTaskDelay : k \in 1..MaxTime} : t >= at})

\* The next wake-up: the due time, or the first checkpoint after it is too far.
WakeAt(r, created, at) ==
    IF Due(r) <= at + MaxTaskDelay
    THEN Due(r)
    ELSE Min({Due(r)} \cup
             {t \in {created + k * MaxTaskDelay : k \in 1..MaxTime} : t > at})

\* Creating a task whose name is known succeeds and adds nothing.
Enqueue(new) ==
    /\ queue' = queue \cup (new \ names)
    /\ names' = names \cup new
    /\ adrift' = adrift \ {t.id : t \in new \ names}

Wake(r, created, at) == [id |-> r, runAt |-> WakeAt(r, created, at)]

NewReminder(at) ==
    [status |-> "scheduled", created |-> at, claim |-> Nobody, expires |-> 0]

\* Plan: keep the first reminder of this exact start, and arrange its wake-up.
PlanAt(r, at) ==
    IF Due(r) <= at \/ ~consents[r[1]]
    THEN UNCHANGED <<store, adrift>>
    ELSE /\ reminders' =
              IF reminders[r] = Absent
              THEN [reminders EXCEPT ![r] = NewReminder(at)] ELSE reminders
         /\ IF Terminal(r) THEN UNCHANGED <<queue, names, adrift>>
            ELSE Enqueue({Wake(r, reminders'[r].created, at)})

\* The same, when the reminder is stored and the queue answers with an error.
PlanUnqueued(r, at) ==
    /\ Due(r) > at /\ consents[r[1]] /\ ~Terminal(r)
    /\ reminders' =
         IF reminders[r] = Absent
         THEN [reminders EXCEPT ![r] = NewReminder(at)] ELSE reminders
    /\ adrift' = IF \E t \in queue : t.id = r THEN adrift ELSE adrift \cup {r}
    /\ UNCHANGED <<queue, names>>

-----------------------------------------------------------------------------
(* The customer, the assistant and the colleagues.                         *)

Edit(b) ==
    /\ events < MaxEvents
    /\ events' = events + 1
    /\ disturbed' = disturbed \cup {w \in Workers : work[w] # Idle /\ Subject(w)[1] = b}
    /\ UNCHANGED <<now, store, work, faults, history, adrift>>

\* Turns of one conversation exclude each other: the last one has planned.
TurnFree(b) == \A r \in toPlan : r[1] # b

Upcoming(b) == calendar[b].status = "confirmed" /\ calendar[b].start > now

Moved(b, s) == [calendar EXCEPT ![b] = [status |-> "confirmed", start |-> s]]

\* The assistant moves an appointment, saves it and goes on to plan its reminder.
MoveByAssistant(b, s) ==
    /\ TurnFree(b) /\ Upcoming(b) /\ s > now /\ s # calendar[b].start
    /\ calendar' = Moved(b, s)
    /\ local' = [local EXCEPT ![b] = calendar'[b]]
    /\ toPlan' = toPlan \cup {<<b, s>>}
    /\ Edit(b) /\ UNCHANGED consents

\* A colleague moves it in Altegio; the assistant is not told.
MoveByStaff(b, s) ==
    /\ Upcoming(b) /\ s > now /\ s # calendar[b].start
    /\ calendar' = Moved(b, s)
    /\ Edit(b) /\ UNCHANGED <<local, toPlan, consents>>

\* Cancelled through the assistant (local too) or in Altegio alone.
Cancel(b) ==
    /\ Upcoming(b)
    /\ calendar' = [calendar EXCEPT ![b].status = "cancelled"]
    /\ \/ local' = [local EXCEPT ![b] = calendar'[b]]
       \/ UNCHANGED local
    /\ Edit(b) /\ UNCHANGED <<toPlan, consents>>

\* STOP revokes the consent; enabling plans every appointment known to be confirmed.
OptOut(b) ==
    /\ NeedsOptIn /\ consents[b]
    /\ consents' = [consents EXCEPT ![b] = FALSE]
    /\ Edit(b) /\ UNCHANGED <<calendar, local, toPlan>>

OptIn(b) ==
    /\ NeedsOptIn /\ ~consents[b] /\ TurnFree(b)
    /\ consents' = [consents EXCEPT ![b] = TRUE]
    /\ toPlan' = IF local[b].status = "confirmed"
                 THEN toPlan \cup {<<b, local[b].start>>} ELSE toPlan
    /\ Edit(b) /\ UNCHANGED <<calendar, local>>

People(b) ==
    \/ \E s \in Starts : MoveByAssistant(b, s) \/ MoveByStaff(b, s)
    \/ Cancel(b) \/ OptOut(b) \/ OptIn(b)

\* The turn that changed the appointment plans its reminder; a crash forgets it.
Plan(r) ==
    /\ r \in toPlan
    /\ toPlan' = toPlan \ {r}
    /\ \/ PlanAt(r, now) /\ NoFault
       \/ PlanUnqueued(r, now) /\ Fault
       \/ UNCHANGED <<store, adrift>> /\ Fault
    /\ UNCHANGED <<now, people, local, work, history, disturbed>>

-----------------------------------------------------------------------------
(* A delivery: Deliver, one step per call of a shared resource.            *)

Goto(w, pc) == work' = [work EXCEPT ![w].pc = pc] /\ UNCHANGED disturbed
Stop(w)     == work' = [work EXCEPT ![w] = Idle] /\ disturbed' = disturbed \ {w}

\* The handler returns no error, and the 204 reaches the queue.
Acknowledge(w) == Stop(w) /\ queue' = queue \ {work[w].task}

\* The queue dispatches a task whose reminder is finished, or one whose reminder is
\* not due yet: a long-horizon wake-up, which arranges the next one.
WakeEarly(t) ==
    /\ t \in queue /\ t.runAt <= now
    /\ \E at \in (now - Skew .. now) \cap Nat :
         \/ /\ Terminal(t.id)
            /\ queue' = queue \ {t} /\ UNCHANGED <<names, faults>>
         \/ LET next == Wake(t.id, reminders[t.id].created, at) IN
            /\ ~Terminal(t.id) /\ Due(t.id) > at
            /\ names' = names \cup {next}
            /\ \/ queue' = (queue \cup ({next} \ names)) \ {t} /\ NoFault
               \/ queue' = queue \cup ({next} \ names) /\ Fault  \* the answer is lost
    /\ UNCHANGED <<now, people, local, toPlan, reminders, work, history, adrift, disturbed>>

\* The queue dispatches a task whose reminder is due.
Dispatch(w, t) ==
    /\ work[w] = Idle
    /\ t \in queue /\ t.runAt <= now /\ ~Terminal(t.id)
    /\ \E at \in (now - Skew .. now) \cap Nat :
         /\ Due(t.id) <= at
         /\ work' = [work EXCEPT ![w] = [task |-> t, at |-> at, pc |-> "claim"]]
    /\ UNCHANGED <<now, people, local, toPlan, store, faults, history, adrift, disturbed>>

ClaimAnyway(w) ==
    LET r == Subject(w) IN
    /\ Busy(w, {"claim"})
    /\ IF Terminal(r) THEN Acknowledge(w) /\ UNCHANGED reminders
       ELSE /\ reminders' = [reminders EXCEPT ![r].status = "delivering",
                               ![r].claim = w, ![r].expires = work[w].at + Lease]
            /\ Goto(w, "read") /\ UNCHANGED queue
    /\ UNCHANGED <<now, people, local, toPlan, names, faults, history, adrift>>

AcknowledgeBusy(w) ==
    LET r == Subject(w)
        busy == reminders[r].status = "delivering" /\ reminders[r].expires > work[w].at
    IN /\ Busy(w, {"claim"})
       /\ IF Terminal(r) \/ busy THEN Acknowledge(w) /\ UNCHANGED reminders
          ELSE /\ reminders' = [reminders EXCEPT ![r].status = "delivering",
                                  ![r].claim = w, ![r].expires = work[w].at + Lease]
               /\ Goto(w, "read") /\ UNCHANGED queue
       /\ UNCHANGED <<now, people, local, toPlan, names, faults, history, adrift>>

\* ClaimReminder: not of a terminal reminder, nor of one under an unexpired claim.
ClaimReminder(w) ==
    LET r == Subject(w)
        busy == reminders[r].status = "delivering" /\ reminders[r].expires > work[w].at
    IN /\ Busy(w, {"claim"})
       /\ \/ Terminal(r) /\ Acknowledge(w) /\ UNCHANGED reminders
          \/ ~Terminal(r) /\ busy /\ Stop(w) /\ UNCHANGED <<reminders, queue>>  \* ErrDeliveryBusy
          \/ /\ ~Terminal(r) /\ ~busy
             /\ reminders' = [reminders EXCEPT ![r].status = "delivering",
                                ![r].claim = w, ![r].expires = work[w].at + Lease]
             /\ Goto(w, "read") /\ UNCHANGED queue
       /\ UNCHANGED <<now, people, local, toPlan, names, faults, history, adrift>>

\* ReadBooking: what Altegio holds now, not the assistant's own record.
AsRecorded(b) == local[b]
ReadBooking(b) == calendar[b]

\* A start that moved is planned before the old reminder is given up.
NotPlanned(r, c) == UNCHANGED <<store, adrift>>
PlanMoved(r, c) ==
    IF c.status = "confirmed" /\ c.start # r[2]
    THEN PlanAt(<<r[1], c.start>>, now) ELSE UNCHANGED <<store, adrift>>

\* The customer's language still has a template and the consent still stands;
\* currentBooking reads Altegio, saves what it says, and plans a start that moved.
ReadAppointment(w) ==
    LET r == Subject(w)
        b == r[1]
        c == ReadBooking(b)
    IN /\ Busy(w, {"read"})
       /\ IF ~consents[b] \/ local[b].status # "confirmed"
          THEN Goto(w, "skip") /\ UNCHANGED <<local, store, adrift>>
          ELSE /\ local' = [local EXCEPT ![b] = c]
               /\ PlanMoved(r, c)
               /\ Goto(w, IF c.status = "confirmed" /\ c.start = r[2] /\ c.start > now
                          THEN "send" ELSE "skip")
       /\ UNCHANGED <<now, people, toPlan, faults, history>>

\* The provider accepts the message; an error may leave it unsent or sent.
Send(w) ==
    LET r == Subject(w) IN
    /\ Busy(w, {"send"})
    /\ \/ Goto(w, "sent") /\ NoFault
          /\ delivered' = [delivered EXCEPT ![r] = @ + 1] /\ UNCHANGED excused
       \/ Goto(w, "release") /\ Fault /\ UNCHANGED history
       \/ Goto(w, "release") /\ Fault
          /\ delivered' = [delivered EXCEPT ![r] = @ + 1]
          /\ excused' = [excused EXCEPT ![r] = @ + 1]
    /\ UNCHANGED <<now, people, local, toPlan, store, adrift>>

\* Only the delivery whose claim the reminder still holds may record its end.
FinishReminder(w, status) ==
    reminders' = IF Owns(w)
                 THEN [reminders EXCEPT ![Subject(w)].status = status,
                         ![Subject(w)].claim = Nobody, ![Subject(w)].expires = 0]
                 ELSE reminders

\* Once sent, no error is returned any more: a failed write is logged.
FinishSent(w) ==
    /\ Busy(w, {"sent"})
    /\ Acknowledge(w)
    /\ \/ FinishReminder(w, "sent") /\ NoFault /\ UNCHANGED excused
       \/ UNCHANGED reminders /\ Fault
          /\ excused' = [excused EXCEPT ![Subject(w)] = @ + 1]
    /\ UNCHANGED <<now, people, local, toPlan, names, delivered, adrift>>

\* A skip that cannot be recorded is an error; the lease is not given back.
FinishSkipped(w) ==
    /\ Busy(w, {"skip"})
    /\ \/ FinishReminder(w, "skipped") /\ NoFault
          /\ IF Owns(w) THEN Acknowledge(w) ELSE Stop(w) /\ UNCHANGED queue
       \/ UNCHANGED <<reminders, queue>> /\ Fault /\ Stop(w)
    /\ UNCHANGED <<now, people, local, toPlan, names, history, adrift>>

\* The deferred release of a delivery that returns an error: 500, tried again.  A
\* release that fails is a Crash here.
ReleaseReminder(w) ==
    /\ Busy(w, {"release"})
    /\ Stop(w)
    /\ reminders' = IF Owns(w)
                    THEN [reminders EXCEPT ![Subject(w)].status = "scheduled",
                            ![Subject(w)].claim = Nobody, ![Subject(w)].expires = 0]
                    ELSE reminders
    /\ UNCHANGED <<now, people, local, toPlan, queue, names, faults, history, adrift>>

\* A repository or calendar call fails: an error, after the release of the claim.
Fail(w) ==
    /\ Fault
    /\ Busy(w, {"read"}) /\ Goto(w, "release")
    /\ \/ UNCHANGED <<local, store, adrift>>
       \/ LET r == Subject(w)
              c == ReadBooking(r[1])
          IN /\ local[r[1]].status = "confirmed"  \* the new start could not be queued
             /\ c.status = "confirmed" /\ c.start # r[2]
             /\ local' = [local EXCEPT ![r[1]] = c]
             /\ PlanUnqueued(<<r[1], c.start>>, now)
    /\ UNCHANGED <<now, people, toPlan, history>>

\* The instance dies, a call fails before the claim, or the answer is lost (the
\* record may have been written): the queue dispatches the task again.
Crash(w) ==
    /\ Fault
    /\ work[w] # Idle
    /\ Stop(w)
    /\ \/ Busy(w, {"sent"}) /\ UNCHANGED reminders
            /\ excused' = [excused EXCEPT ![Subject(w)] = @ + 1]
       \/ Busy(w, {"sent"}) /\ FinishReminder(w, "sent") /\ UNCHANGED excused
       \/ ~Busy(w, {"sent"}) /\ UNCHANGED <<reminders, excused>>
    /\ UNCHANGED <<now, people, local, toPlan, queue, names, delivered, adrift>>

Deliver(w) ==
    \/ ClaimReminder(w) \/ ReadAppointment(w)
    \/ Send(w) \/ FinishSent(w) \/ FinishSkipped(w) \/ ReleaseReminder(w)

-----------------------------------------------------------------------------
(* The queue's losses, start-up, the clock.                                *)

\* A task is purged or exhausts its attempts, and its name is free again.
LoseTask(t) ==
    /\ Fault
    /\ t \in queue
    /\ queue' = queue \ {t}
    /\ names' = names \ {t}
    /\ adrift' = adrift \cup {t.id}
    /\ UNCHANGED <<now, people, local, toPlan, reminders, work, history, disturbed>>

\* An instance starts: tasks of scheduled reminders not yet due are restored.
Reconcile ==
    LET pending == {r \in Reminders :
                      /\ reminders[r] # Absent
                      /\ reminders[r].status = "scheduled"
                      /\ r[2] > now /\ Due(r) > now}
    IN /\ events < MaxEvents /\ events' = events + 1
       /\ Enqueue({Wake(r, reminders[r].created, now) : r \in pending})
       /\ UNCHANGED <<now, calendar, consents, local, toPlan, reminders, work, faults, history, disturbed>>

\* Time passes, but no delivery outlives its HTTP clients' timeouts, and a turn
\* goes straight on from saving an appointment to planning its reminder.
Tick ==
    /\ now < MaxTime /\ toPlan = {}
    /\ \A w \in {v \in Workers : work[v] # Idle} : now < work[w].at + RequestTime + Skew
    /\ now' = now + 1
    /\ UNCHANGED <<people, local, toPlan, store, work, faults, history, disturbed, adrift>>

-----------------------------------------------------------------------------
Init ==
    /\ now = 0
    /\ calendar \in [Bookings -> {v \in Visit : v.status = "confirmed"}]
    /\ local = calendar
    /\ consents \in [Bookings -> IF NeedsOptIn THEN BOOLEAN ELSE {TRUE}]
    /\ toPlan = {<<b, calendar[b].start>> : b \in Bookings}
    /\ reminders = [r \in Reminders |-> Absent]
    /\ queue = {} /\ names = {} /\ adrift = {}
    /\ work = [w \in Workers |-> Idle]
    /\ events = 0 /\ faults = 0
    /\ delivered = [r \in Reminders |-> 0]
    /\ excused = [r \in Reminders |-> 0]
    /\ disturbed = {}

Next ==
    \/ \E b \in Bookings : People(b)
    \/ \E r \in Reminders : Plan(r)
    \/ \E t \in queue : WakeEarly(t) \/ \E w \in Workers : Dispatch(w, t)
    \/ \E w \in Workers : Deliver(w) \/ Fail(w) \/ Crash(w)
    \/ \E t \in queue : LoseTask(t)
    \/ Reconcile
    \/ Tick

\* A handler that runs goes on, the clock too; the queue dispatches what is due
\* again and again, although the handlers may be busy with other tasks in between.
Fairness ==
    /\ \A w \in Workers : WF_vars(Deliver(w))
    /\ \A r \in Reminders :
         /\ WF_vars(Plan(r))
         /\ SF_vars(\E t \in queue :
                      t.id = r /\ (WakeEarly(t) \/ \E w \in Workers : Dispatch(w, t)))
    /\ WF_vars(Tick)

Spec == Init /\ [][Next]_vars /\ Fairness

-----------------------------------------------------------------------------
(* Properties.                                                             *)

\* Every reminder, task and delivery is well-formed.
TypeOK ==
    /\ now \in 0..MaxTime
    /\ calendar \in [Bookings -> Visit] /\ local \in [Bookings -> Visit]
    /\ consents \in [Bookings -> BOOLEAN]
    /\ toPlan \subseteq Reminders /\ adrift \subseteq Reminders
    /\ reminders \in [Reminders -> Stored \cup {Absent}]
    /\ queue \subseteq names /\ names \subseteq Tasks
    /\ work \in [Workers -> {Idle} \cup [task : Tasks, at : 0..MaxTime, pc : Steps]]
    /\ events \in 0..MaxEvents /\ faults \in 0..MaxFaults
    /\ {delivered, excused} \subseteq [Reminders -> Nat]
    /\ disturbed \subseteq {w \in Workers : work[w] # Idle}

\* A reminder neither received nor given up has a task to wake it, whatever the
\* chain of wake-ups, the retries and the duplicates did, unless its task was lost.
\* "an early wake simply chains another deterministic task" (service.go:26-28)
ChainAlive ==
    \A r \in Reminders :
        reminders[r] # Absent /\ ~Terminal(r) /\ delivered[r] = 0 /\ r \notin adrift
            => \E t \in queue : t.id = r

\* Two deliveries never hold one reminder between its claim and its record.
OneDeliveryAtATime ==
    \A v, w \in {u \in Workers : Busy(u, {"read", "send", "sent", "skip"})} :
        Subject(v) = Subject(w) => v = w

\* The customer receives a reminder again only for a delivery whose record was
\* lost: by an ambiguous send, a failed write or a crash, never by a duplicate or
\* overlapping dispatch.  "Provider sends are at-least-once" (booking-experience.md)
DuplicatesAreExplained == \A r \in Reminders : delivered[r] <= 1 + excused[r]

\* A reminder reaches the customer only while the calendar confirms exactly the
\* start it announces and the customer consents, or if that changed after this
\* delivery had begun.
\* "sends only if it is still confirmed at that same time" (README, Reminders)
SentIsCurrent ==
    [][\A r \in Reminders :
         delivered'[r] > delivered[r] =>
            \/ /\ calendar[r[1]] = [status |-> "confirmed", start |-> r[2]]
               /\ consents[r[1]]
            \/ \E w \in Workers : Busy(w, {"send"}) /\ Subject(w) = r
                                  /\ w \in disturbed]_vars

\* A reminder given up for an appointment that had moved leaves one for the new
\* start, if there still is time for it.  "[a] changed start suppresses the
\* obsolete reminder" (booking-experience.md) must not leave the customer with none.
MovedIsReplanned ==
    [][\A w \in Workers :
         Busy(w, {"skip"}) /\ work'[w] = Idle /\ reminders' # reminders =>
            LET b == Subject(w)[1] IN
            \/ w \in disturbed
            \/ calendar[b].status # "confirmed" \/ calendar[b].start - LeadTime <= now
            \/ ~consents[b]
            \/ reminders[<<b, calendar[b].start>>] # Absent]_vars

\* Every reminder whose task is not lost is received or given up in the end.
EveryReminderEnds ==
    \A r \in Reminders :
        reminders[r] # Absent ~> Terminal(r) \/ delivered[r] > 0 \/ r \in adrift
=============================================================================
