---------------------- MODULE NotificationOutbox_proofs ----------------------
(***************************************************************************)
(* Proofs about NotificationOutbox, for any number of workers, routes,     *)
(* changes and faults.                                                     *)
(*                                                                         *)
(* OneCopy is not inductive: it does not say when a route may be tried.    *)
(* The ledger of an event goes with what became of its messages (Book): as *)
(* long as it allows another attempt, nothing has reached the customer or  *)
(* is on its way.  A delivery that is about to send, or to record what it  *)
(* has sent, knows more than the ledger (Errand), and it is the only one   *)
(* of its event (Single), unless it has outlived its lease.                *)
(*                                                                         *)
(* NoticeInv adds what the rows know of the appointment and of the         *)
(* receipts: notices are current, and no failure is forgotten.             *)
(***************************************************************************)
EXTENDS NotificationOutbox, WellFoundedInduction, TLAPS

IsEvent(ev) ==
    ev = [state |-> ev.state, notice |-> ev.notice, owner |-> ev.owner,
          leased |-> ev.leased, outcome |-> ev.outcome]
IsDelivery(d) ==
    d = [state |-> d.state, outcome |-> d.outcome, attempted |-> d.attempted,
         provider |-> d.provider]
IsRun(x) ==
    /\ x = [pc |-> x.pc, task |-> x.task, read |-> x.read, left |-> x.left,
            outcome |-> x.outcome, ledger |-> x.ledger]
    /\ x.task \in Tasks /\ x.pc # "idle"

\* Rows and deliveries have their fields.
Shape ==
    /\ events = [e \in Events |-> events[e]] /\ \A e \in Events : IsEvent(events[e])
    /\ deliveries = [e \in Events |-> deliveries[e]]
    /\ \A e \in Events : IsDelivery(deliveries[e])
    /\ work = [w \in Workers |-> work[w]]
    /\ \A w \in Workers : work[w] = Idle \/ IsRun(work[w])
    /\ fate = [e \in Events |-> fate[e]] /\ copies = [e \in Events |-> copies[e]]
    /\ queue \subseteq Tasks

\* A delivery whose event was never overlapped holds the event's lease.
Single ==
    \A w \in Workers : work[w] # Idle /\ Event(w) \notin overlapped =>
        events[Event(w)].leased /\ events[Event(w)].owner = w

\* Nothing reached the customer, and nothing is on its way.
Unsent(f, c) == c = 0 /\ f \in {"none", "failed"}

\* The ledger d, and what became of the messages of its event: the fate f of the
\* one by WhatsApp and the number c that reached the customer.
Book(d, f, c) ==
    /\ "whatsapp" \notin d.attempted => f = "none"
    /\ f # "disputed" =>
         /\ d.provider = "failed" => f = "failed"
         /\ c = 0 \/ (c = 1 /\ f # "accepted")
         /\ d.state \notin {"sending", "done"} => Unsent(f, c)
         /\ d.outcome \in MaybeSent /\ f = "failed" => c = 0
         /\ d.outcome \notin MaybeSent => f \in {"none", "failed"}

\* The delivery x is about to send, or to record its result.
Errand(x, d, f, c) ==
    /\ x.pc = "send" =>
         /\ First(x.left) \in d.attempted
         /\ d.outcome = <<"uncertain", First(x.left)>>
         /\ First(x.left) = "whatsapp" => f = "none"
         /\ f # "disputed" => Unsent(f, c) /\ d.state = "sending"
    /\ x.pc = "record" /\ f # "disputed" =>
         /\ x.outcome[1] = "rejected" => Unsent(f, c)
         /\ x.outcome \in MaybeSent /\ f = "failed" => c = 0
         /\ x.outcome \notin MaybeSent => f \in {"none", "failed"}
    /\ x.pc = "record" /\ x.outcome[2] # "whatsapp" => d.outcome = <<"uncertain", x.outcome[2]>>

Books ==
    \A e \in Events \ overlapped : Book(deliveries[e], fate[e], copies[e])
Errands ==
    \A w \in Workers : work[w] # Idle /\ Event(w) \notin overlapped =>
        Errand(work[w], deliveries[Event(w)], fate[Event(w)], copies[Event(w)])

OutboxInv == Shape /\ Single /\ Books /\ Errands

-----------------------------------------------------------------------------
(* What the transactions write to an event's row and to its ledger.        *)

LEMMA EventEnds ==
    ASSUME NEW ev, IsEvent(ev), NEW a, NEW b
    PROVE  LET new == [ev EXCEPT !.state = a, !.outcome = b] IN
           IsEvent(new) /\ new.leased = ev.leased /\ new.owner = ev.owner
<1> DEFINE first == [ev EXCEPT !.state = a]
<1>1. first = [state |-> a, notice |-> ev.notice, owner |-> ev.owner,
              leased |-> ev.leased, outcome |-> ev.outcome]
      BY DEF IsEvent
<1>2. [ev EXCEPT !.state = a, !.outcome = b] = [first EXCEPT !.outcome = b]
      OBVIOUS
<1> HIDE DEF first
<1>3. [first EXCEPT !.outcome = b]
        = [state |-> a, notice |-> ev.notice, owner |-> ev.owner,
           leased |-> ev.leased, outcome |-> b]
      BY <1>1
<1>4. QED BY <1>2, <1>3 DEF IsEvent

LEMMA EventLeases ==
    ASSUME NEW ev, IsEvent(ev), NEW a, NEW b
    PROVE  LET new == [ev EXCEPT !.leased = a, !.owner = b] IN
           IsEvent(new) /\ new.leased = a /\ new.owner = b
<1> DEFINE first == [ev EXCEPT !.leased = a]
<1>1. first = [state |-> ev.state, notice |-> ev.notice, owner |-> ev.owner,
              leased |-> a, outcome |-> ev.outcome]
      BY DEF IsEvent
<1>2. [ev EXCEPT !.leased = a, !.owner = b] = [first EXCEPT !.owner = b]
      OBVIOUS
<1> HIDE DEF first
<1>3. [first EXCEPT !.owner = b]
        = [state |-> ev.state, notice |-> ev.notice, owner |-> b,
           leased |-> a, outcome |-> ev.outcome]
      BY <1>1
<1>4. QED BY <1>2, <1>3 DEF IsEvent

LEMMA EventClaims ==
    ASSUME NEW ev, IsEvent(ev), NEW w
    PROVE  LET new == [ev EXCEPT !.leased = TRUE, !.owner = w] IN
           IsEvent(new) /\ new.leased /\ new.owner = w
<1>1. ASSUME NEW a
      PROVE  LET new == [ev EXCEPT !.leased = a, !.owner = w] IN
             IsEvent(new) /\ new.leased = a /\ new.owner = w
  <2> DEFINE first == [ev EXCEPT !.leased = a]
  <2>1. first = [state |-> ev.state, notice |-> ev.notice, owner |-> ev.owner,
                leased |-> a, outcome |-> ev.outcome]
        BY DEF IsEvent
  <2>2. [ev EXCEPT !.leased = a, !.owner = w] = [first EXCEPT !.owner = w]
        OBVIOUS
  <2> HIDE DEF first
  <2>3. [first EXCEPT !.owner = w]
          = [state |-> ev.state, notice |-> ev.notice, owner |-> w,
             leased |-> a, outcome |-> ev.outcome]
        BY <2>1
  <2>4. QED BY <2>2, <2>3 DEF IsEvent
<1>2. LET new == [ev EXCEPT !.leased = TRUE, !.owner = w] IN
      IsEvent(new) /\ new.leased = TRUE /\ new.owner = w
      BY <1>1, Zenon
<1>3. QED BY <1>2, Zenon

LEMMA EventStates ==
    ASSUME NEW ev, IsEvent(ev), NEW a
    PROVE  LET new == [ev EXCEPT !.state = a] IN
           IsEvent(new) /\ new.leased = ev.leased /\ new.owner = ev.owner
<1> DEFINE first == [ev EXCEPT !.state = a]
<1>1. first = [state |-> a, notice |-> ev.notice, owner |-> ev.owner,
              leased |-> ev.leased, outcome |-> ev.outcome]
      BY DEF IsEvent
<1>2. QED BY <1>1 DEF IsEvent

LEMMA EventNotices ==
    ASSUME NEW ev, IsEvent(ev), NEW a
    PROVE  LET new == [ev EXCEPT !.notice = a] IN
           IsEvent(new) /\ new.leased = ev.leased /\ new.owner = ev.owner
<1> DEFINE first == [ev EXCEPT !.notice = a]
<1>1. first = [state |-> ev.state, notice |-> a, owner |-> ev.owner,
              leased |-> ev.leased, outcome |-> ev.outcome]
      BY DEF IsEvent
<1>2. QED BY <1>1 DEF IsEvent

LEMMA LedgerReceipts ==
    ASSUME NEW d, IsDelivery(d), NEW a
    PROVE  LET new == [d EXCEPT !.provider = a] IN
           /\ IsDelivery(new) /\ new.provider = a
           /\ new.state = d.state /\ new.outcome = d.outcome /\ new.attempted = d.attempted
<1>1. [d EXCEPT !.provider = a] = [state |-> d.state, outcome |-> d.outcome,
                                   attempted |-> d.attempted, provider |-> a]
      BY DEF IsDelivery
<1>2. QED BY <1>1 DEF IsDelivery

LEMMA LedgerResults ==
    ASSUME NEW d, IsDelivery(d), NEW a, NEW b
    PROVE  [d EXCEPT !.state = a, !.outcome = b]
             = [state |-> a, outcome |-> b,
                attempted |-> d.attempted, provider |-> d.provider]
<1> DEFINE first == [d EXCEPT !.state = a]
<1>1. first = [state |-> a, outcome |-> d.outcome,
               attempted |-> d.attempted, provider |-> d.provider]
      BY DEF IsDelivery
<1>2. [d EXCEPT !.state = a, !.outcome = b] = [first EXCEPT !.outcome = b]
      OBVIOUS
<1> HIDE DEF first
<1>3. [first EXCEPT !.outcome = b] = [state |-> a, outcome |-> b,
                                      attempted |-> d.attempted, provider |-> d.provider]
      BY <1>1
<1>4. QED BY <1>2, <1>3

-----------------------------------------------------------------------------
(* Reopening an event whose WhatsApp message has failed.                   *)

LEMMA ReopeningEvents ==
    ASSUME NEW ev, NEW d, IsEvent(ev)
    PROVE  LET new == ReopenedEvent(ev, d) IN
           /\ IsEvent(new) /\ new.leased = ev.leased /\ new.owner = ev.owner
           /\ new.notice = ev.notice
           /\ IF Reopens(ev, d) THEN new.state = "prepared" ELSE new = ev
<1>1. CASE Reopens(ev, d)
      BY <1>1 DEF ReopenedEvent, IsEvent
<1>2. CASE ~Reopens(ev, d)
      BY <1>2 DEF ReopenedEvent, IsEvent
<1>3. QED BY <1>1, <1>2

LEMMA ReopeningDeliveries ==
    ASSUME NEW ev, NEW d, IsDelivery(d)
    PROVE  LET new == ReopenedDelivery(ev, d) IN
           /\ IsDelivery(new) /\ new.attempted = d.attempted /\ new.provider = d.provider
           /\ \/ new = d
              \/ /\ d.provider = "failed" /\ d.outcome \in MaybeSent
                 /\ new.state = "retryable_rejection"
                 /\ new.outcome = <<"rejected", "whatsapp">>
<1>1. CASE Reopens(ev, d)
      BY <1>1 DEF ReopenedDelivery, IsDelivery, Reopens, Failed
<1>2. CASE ~Reopens(ev, d)
      BY <1>2 DEF ReopenedDelivery, IsDelivery
<1>3. QED BY <1>1, <1>2

LEMMA RejectedIsNotSent ==
    ASSUME NEW x  PROVE <<"rejected", x>> \notin MaybeSent
BY DEF MaybeSent

LEMMA ReopenedBook ==
    ASSUME NEW ev, NEW d, NEW f, NEW c, IsDelivery(d), Book(d, f, c)
    PROVE  /\ Book(ReopenedDelivery(ev, d), f, c)
           /\ \A x : Errand(x, d, f, c) => Errand(x, ReopenedDelivery(ev, d), f, c)
<1> DEFINE new == ReopenedDelivery(ev, d)
<1>1. CASE new = d
      BY <1>1
<1>2. CASE /\ d.provider = "failed" /\ d.outcome \in MaybeSent
           /\ new.state = "retryable_rejection"
           /\ new.outcome = <<"rejected", "whatsapp">>
  <2>1. new.attempted = d.attempted /\ new.provider = d.provider
        BY ReopeningDeliveries
  <2>2. Book(new, f, c)
        BY <1>2, <2>1, RejectedIsNotSent DEF Book, Unsent
  <2>3. ASSUME NEW x, Errand(x, d, f, c)
        PROVE  Errand(x, new, f, c)
    <3>1. d.outcome[2] = "whatsapp"
          BY <1>2 DEF MaybeSent
    <3>2. x.pc # "send"
          BY <1>2, <2>3, <3>1 DEF Errand, Book
    <3>3. x.pc = "record" => x.outcome[2] = "whatsapp"
          BY <1>2, <2>3, <3>1 DEF Errand
    <3>4. QED BY <2>3, <3>2, <3>3 DEF Errand
  <2>4. QED BY <2>2, <2>3
<1>3. QED BY <1>1, <1>2, ReopeningDeliveries

-----------------------------------------------------------------------------
(* A step of one delivery changes the rows of its own event only, a step   *)
(* of the world those of one event.                                        *)

\* What is written to the rows of e; everything else stays.
Writes(e, ev, d, f, c) ==
    /\ events' = [events EXCEPT ![e] = ev]
    /\ deliveries' = [deliveries EXCEPT ![e] = d]
    /\ fate' = [fate EXCEPT ![e] = f]
    /\ copies' = [copies EXCEPT ![e] = c]
    /\ queue' \subseteq Tasks

LEMMA Written ==
    ASSUME Shape, NEW e \in Events, NEW ev, NEW d, NEW f, NEW c, Writes(e, ev, d, f, c)
    PROVE  /\ events'[e] = ev /\ deliveries'[e] = d /\ fate'[e] = f /\ copies'[e] = c
           /\ \A o \in Events \ {e} :
                /\ events'[o] = events[o] /\ deliveries'[o] = deliveries[o]
                /\ fate'[o] = fate[o] /\ copies'[o] = copies[o]
           /\ events' = [o \in Events |-> events'[o]]
           /\ deliveries' = [o \in Events |-> deliveries'[o]]
           /\ fate' = [o \in Events |-> fate'[o]]
           /\ copies' = [o \in Events |-> copies'[o]]
<1> USE DEF Writes, Shape
<1>1. events'[e] = ev /\ events' = [o \in Events |-> events'[o]]
      /\ \A o \in Events \ {e} : events'[o] = events[o]
      OBVIOUS
<1>2. deliveries'[e] = d /\ deliveries' = [o \in Events |-> deliveries'[o]]
      /\ \A o \in Events \ {e} : deliveries'[o] = deliveries[o]
      OBVIOUS
<1>3. fate'[e] = f /\ fate' = [o \in Events |-> fate'[o]]
      /\ \A o \in Events \ {e} : fate'[o] = fate[o]
      OBVIOUS
<1>4. copies'[e] = c /\ copies' = [o \in Events |-> copies'[o]]
      /\ \A o \in Events \ {e} : copies'[o] = copies[o]
      OBVIOUS
<1>5. QED BY <1>1, <1>2, <1>3, <1>4

LEMMA AtWork ==
    ASSUME Shape, NEW w \in Workers, work[w] # Idle
    PROVE  IsRun(work[w]) /\ work[w].task \in Tasks /\ Event(w) \in Events
BY DEF Shape, IsRun, Tasks, Event

LEMMA WorldStep ==
    ASSUME OutboxInv, UNCHANGED work, NEW e \in Events,
           overlapped' \in {overlapped, overlapped \cup {e}},
           NEW ev, NEW d, NEW f, NEW c, Writes(e, ev, d, f, c),
           IsEvent(ev), IsDelivery(d),
           e \notin overlapped' =>
              /\ \/ ev.leased = events[e].leased /\ ev.owner = events[e].owner
                 \/ \A w \in Workers : work[w] # Idle => Event(w) # e
              /\ Book(d, f, c)
              /\ \A w \in Workers : work[w] # Idle /\ Event(w) = e => Errand(work[w], d, f, c)
    PROVE  OutboxInv'
<1> USE DEF OutboxInv
<1>1. /\ events'[e] = ev /\ deliveries'[e] = d /\ fate'[e] = f /\ copies'[e] = c
      /\ \A o \in Events \ {e} :
           /\ events'[o] = events[o] /\ deliveries'[o] = deliveries[o]
           /\ fate'[o] = fate[o] /\ copies'[o] = copies[o]
      /\ overlapped \subseteq overlapped'
      BY Written
<1>2. Shape'
      BY <1>1, Written DEF Shape, Writes
<1>3. Single'
  <2>1. ASSUME NEW w \in Workers, work[w] # Idle, Event(w) \notin overlapped'
        PROVE  events'[Event(w)].leased /\ events'[Event(w)].owner = w
        BY <1>1, <2>1, AtWork DEF Single
  <2>2. QED BY <2>1 DEF Single, Event
<1>4. Books'
      BY <1>1 DEF Books
<1>5. Errands'
  <2>1. ASSUME NEW w \in Workers, work[w] # Idle, Event(w) \notin overlapped'
        PROVE  Errand(work[w], deliveries'[Event(w)], fate'[Event(w)], copies'[Event(w)])
        BY <1>1, <2>1, AtWork DEF Errands
  <2>2. QED BY <2>1 DEF Errands, Event
<1>6. QED BY <1>2, <1>3, <1>4, <1>5

\* A step of delivery w, which goes on as x or ends.
LEMMA WorkerStep ==
    ASSUME OutboxInv, NEW w \in Workers, UNCHANGED overlapped, NEW x,
           work' = [work EXCEPT ![w] = x], NEW e \in Events,
           work[w] = Idle \/ Event(w) = e,
           x = Idle \/ (IsRun(x) /\ x.task[1] = e),
           NEW ev, NEW d, NEW f, NEW c, Writes(e, ev, d, f, c),
           IsEvent(ev), IsDelivery(d),
           e \notin overlapped =>
              /\ x # Idle => ev.leased /\ ev.owner = w /\ Errand(x, d, f, c)
              /\ Book(d, f, c)
              /\ \A v \in Workers \ {w} : work[v] # Idle => Event(v) # e
    PROVE  OutboxInv'
<1> USE DEF OutboxInv
<1>1. /\ events'[e] = ev /\ deliveries'[e] = d /\ fate'[e] = f /\ copies'[e] = c
      /\ \A o \in Events \ {e} :
           /\ events'[o] = events[o] /\ deliveries'[o] = deliveries[o]
           /\ fate'[o] = fate[o] /\ copies'[o] = copies[o]
      BY Written
<1>2. /\ work' = [v \in Workers |-> work'[v]]
      /\ work'[w] = x /\ \A v \in Workers \ {w} : work'[v] = work[v]
      BY DEF Shape
<1>3. Shape'
  <2>1. \A v \in Workers : work'[v] = Idle \/ IsRun(work'[v])
        BY <1>2 DEF Shape
  <2>2. \A o \in Events : IsEvent(events'[o]) /\ IsDelivery(deliveries'[o])
        BY <1>1 DEF Shape
  <2>3. QED BY <1>2, <2>1, <2>2, Written DEF Shape, Writes
<1>4. ASSUME NEW v \in Workers, work'[v] # Idle, work'[v].task[1] \notin overlapped
      PROVE  LET o == work'[v].task[1] IN
             /\ events'[o].leased /\ events'[o].owner = v
             /\ Errand(work'[v], deliveries'[o], fate'[o], copies'[o])
  <2>1. CASE v = w
        BY <1>1, <1>2, <1>4, <2>1
  <2>2. CASE v # w
    <3>1. work[v] # Idle /\ work'[v] = work[v] /\ Event(v) \notin overlapped /\ Event(v) \in Events
          BY <1>2, <1>4, <2>2, AtWork DEF Event
    <3>2. Event(v) # e
          BY <2>2, <3>1
    <3>3. QED BY <1>1, <3>1, <3>2 DEF Single, Errands, Event
  <2>3. QED BY <2>1, <2>2
<1>5. Single' /\ Errands'
      BY <1>4 DEF Single, Errands, Event
<1>6. Books'
      BY <1>1 DEF Books
<1>7. QED BY <1>3, <1>5, <1>6

\* Two deliveries of an event overlap only if the event is overlapped.
LEMMA OnlyOne ==
    ASSUME OutboxInv, NEW w \in Workers, work[w] # Idle, Event(w) \notin overlapped
    PROVE  /\ events[Event(w)].leased /\ events[Event(w)].owner = w
           /\ \A v \in Workers \ {w} : work[v] # Idle => Event(v) # Event(w)
BY DEF OutboxInv, Single

LEMMA SameRows ==
    ASSUME Shape, NEW e \in Events
    PROVE  /\ events = [events EXCEPT ![e] = events[e]]
           /\ deliveries = [deliveries EXCEPT ![e] = deliveries[e]]
           /\ fate = [fate EXCEPT ![e] = fate[e]] /\ copies = [copies EXCEPT ![e] = copies[e]]
<1>1. events = [events EXCEPT ![e] = events[e]]  BY DEF Shape
<1>2. deliveries = [deliveries EXCEPT ![e] = deliveries[e]]  BY DEF Shape
<1>3. fate = [fate EXCEPT ![e] = fate[e]]  BY DEF Shape
<1>4. copies = [copies EXCEPT ![e] = copies[e]]  BY DEF Shape
<1>5. QED BY <1>1, <1>2, <1>3, <1>4

LEMMA RowShapes ==
    ASSUME Shape, NEW e \in Events
    PROVE  IsEvent(events[e]) /\ IsDelivery(deliveries[e])
BY DEF Shape

\* What a delivery that was never overlapped knows.
LEMMA WhatIsKnown ==
    ASSUME OutboxInv, NEW w \in Workers, work[w] # Idle
    PROVE  LET e == Event(w) IN
           /\ e \in Events /\ IsRun(work[w]) /\ Shape
           /\ IsEvent(events[e]) /\ IsDelivery(deliveries[e])
           /\ e \notin overlapped =>
                /\ events[e].leased /\ events[e].owner = w
                /\ Book(deliveries[e], fate[e], copies[e])
                /\ Errand(work[w], deliveries[e], fate[e], copies[e])
                /\ \A v \in Workers \ {w} : work[v] # Idle => Event(v) # e
BY OnlyOne, AtWork, RowShapes DEF OutboxInv, Books, Errands

-----------------------------------------------------------------------------
(* The world.                                                              *)

LEMMA QuietStep ==
    ASSUME OutboxInv, UNCHANGED <<events, deliveries, work, fate, copies, overlapped>>,
           queue' \subseteq Tasks
    PROVE  OutboxInv'
<1>1. Shape'  BY DEF OutboxInv, Shape
<1>2. Single' /\ Books' /\ Errands'
      BY DEF OutboxInv, Single, Books, Errands, Event
<1>3. QED BY <1>1, <1>2 DEF OutboxInv

LEMMA Scheduling ==
    ASSUME Shape, NEW e \in Events
    PROVE  /\ \A k \in Kinds : Schedule(<<e, k>>) => queue' \subseteq Tasks
           /\ ScheduleRecovery(e) => queue' \subseteq Tasks
           /\ UNCHANGED queue => queue' \subseteq Tasks
BY DEF Shape, Schedule, ScheduleRecovery, Tasks, Kinds

LEMMA ChangesStep ==
    ASSUME OutboxInv,
           \/ \E v \in Versions : Change(v)
           \/ Start
           \/ \E routes \in SUBSET Routes : Reroute(routes)
    PROVE  OutboxInv'
<1>1. UNCHANGED <<rows, tasks, work, received, overlapped>>
      BY DEF Change, Start, Reroute
<1>2. QED BY <1>1, QuietStep DEF rows, tasks, received, OutboxInv, Shape

LEMMA IngestStep ==
    ASSUME OutboxInv, NEW e \in Events, Ingest(e)
    PROVE  OutboxInv'
<1> DEFINE ev == IF events[e].state = "absent"
                 THEN [events[e] EXCEPT !.state = "pending"] ELSE events[e]
<1>1. Shape /\ IsEvent(events[e]) /\ IsDelivery(deliveries[e])
      BY RowShapes DEF OutboxInv
<1>2. IsEvent(ev) /\ ev.leased = events[e].leased /\ ev.owner = events[e].owner
      BY <1>1 DEF IsEvent
<1>3. queue' \subseteq Tasks
      BY <1>1, Scheduling DEF Ingest, tasks, Kinds
<1>4. UNCHANGED <<deliveries, fate, copies, work, overlapped>>
      BY DEF Ingest, received
<1>5. events' = [events EXCEPT ![e] = ev]
      BY <1>1, SameRows DEF Ingest, Shape
<1> HIDE DEF ev
<1>6. Writes(e, ev, deliveries[e], fate[e], copies[e])
      BY <1>1, <1>3, <1>4, <1>5, SameRows DEF Writes
<1>7. QED BY <1>1, <1>2, <1>4, <1>6, WorldStep DEF OutboxInv, Books, Errands

LEMMA UnroutedStep ==
    ASSUME OutboxInv, NEW e \in Events, Reconcile(e) \/ ReconcileUnrouted(e)
    PROVE  OutboxInv'
<1>1. Shape /\ IsEvent(events[e]) /\ IsDelivery(deliveries[e])
      BY RowShapes DEF OutboxInv
<1>2. queue' \subseteq Tasks /\ UNCHANGED <<deliveries, fate, copies, work, overlapped>>
      BY <1>1, Scheduling DEF Reconcile, ReconcileUnrouted, received, rows
<1>3. CASE Reconcile(e)
      BY <1>2, <1>3, QuietStep DEF Reconcile, rows
<1>4. CASE ReconcileUnrouted(e)
  <2> DEFINE ev == [events[e] EXCEPT !.state = "prepared", !.outcome = <<"none">>]
  <2> DEFINE row == events[e]
  <2>1. IsEvent(row)
        BY <1>1
  <2> HIDE DEF row
  <2>2. LET new == [row EXCEPT !.state = "prepared", !.outcome = <<"none">>] IN
        IsEvent(new) /\ new.leased = row.leased /\ new.owner = row.owner
        BY <2>1, EventEnds
  <2>3. events' = [events EXCEPT ![e] = ev]
        BY <1>4 DEF ReconcileUnrouted
  <2> HIDE DEF ev
  <2>4. Writes(e, ev, deliveries[e], fate[e], copies[e])
        BY <1>1, <1>2, <2>3, SameRows DEF Writes
  <2>5. IsEvent(ev) /\ ev.leased = events[e].leased /\ ev.owner = events[e].owner
        BY <2>2 DEF ev, row
  <2>6. QED BY <1>1, <1>2, <2>4, <2>5, WorldStep DEF OutboxInv, Books, Errands
<1>5. QED BY <1>3, <1>4

\* A lease that ends under a delivery marks its event as overlapped.
LEMMA ExpireStep ==
    ASSUME OutboxInv, NEW e \in Events, Expire(e)
    PROVE  OutboxInv'
<1> DEFINE ev == [events[e] EXCEPT !.leased = FALSE,
                    !.owner = IF Working(e) = {} THEN Nobody ELSE @]
<1>1. Shape /\ IsEvent(events[e]) /\ IsDelivery(deliveries[e])
      BY RowShapes DEF OutboxInv
<1>2. IsEvent(ev)
      BY <1>1, EventLeases
<1>3. UNCHANGED <<deliveries, fate, copies, work, queue>>
      BY DEF Expire, received, tasks
<1>4. overlapped' = (IF Working(e) = {} THEN overlapped ELSE overlapped \cup {e})
      BY DEF Expire
<1>5. events' = [events EXCEPT ![e] = ev]
      BY DEF Expire
<1>6. ASSUME e \notin overlapped', NEW w \in Workers, work[w] # Idle
      PROVE  Event(w) # e
      BY <1>4, <1>6, WhatIsKnown DEF Working
<1> HIDE DEF ev
<1>7. Writes(e, ev, deliveries[e], fate[e], copies[e])
      BY <1>1, <1>3, <1>5, SameRows DEF Writes, Shape
<1>8. QED BY <1>1, <1>2, <1>3, <1>4, <1>6, <1>7, WorldStep DEF OutboxInv, Books, Errands

LEMMA SettleStep ==
    ASSUME OutboxInv, NEW e \in Events, Settle(e)
    PROVE  OutboxInv'
<1>1. Shape /\ IsEvent(events[e]) /\ IsDelivery(deliveries[e])
      BY RowShapes DEF OutboxInv
<1>2. UNCHANGED <<events, deliveries, work, overlapped, queue>> /\ fate[e] = "accepted"
      BY DEF Settle, rows, tasks
<1>3. PICK f, c : /\ fate' = [fate EXCEPT ![e] = f] /\ copies' = [copies EXCEPT ![e] = c]
                  /\ \/ f = "delivered" /\ c = copies[e] + 1
                     \/ f = "failed" /\ c = copies[e]
  <2>1. CASE fate' = [fate EXCEPT ![e] = "delivered"] /\ Reaches(e)
        BY <2>1 DEF Reaches, Shape
  <2>2. CASE fate' = [fate EXCEPT ![e] = "failed"] /\ UNCHANGED copies
        BY <1>1, <2>2, SameRows
  <2>3. QED BY <2>1, <2>2 DEF Settle
<1>4. Writes(e, events[e], deliveries[e], f, c)
      BY <1>1, <1>2, <1>3, SameRows DEF Writes, Shape
<1>5. ASSUME e \notin overlapped
      PROVE  Book(deliveries[e], f, c)
  <2>1. Book(deliveries[e], fate[e], copies[e])
        BY <1>5 DEF OutboxInv, Books
  <2>2. /\ "whatsapp" \in deliveries[e].attempted /\ deliveries[e].provider # "failed"
        /\ copies[e] = 0 /\ deliveries[e].outcome \in MaybeSent
        /\ deliveries[e].state \in {"sending", "done"}
        BY <1>2, <2>1 DEF Book, Unsent
  <2>3. QED BY <1>3, <2>2 DEF Book, Unsent
<1>6. ASSUME e \notin overlapped, NEW w \in Workers, work[w] # Idle, Event(w) = e
      PROVE  Errand(work[w], deliveries[e], f, c)
  <2>1. Errand(work[w], deliveries[e], "accepted", copies[e])
        BY <1>2, <1>6, WhatIsKnown
  <2>2. /\ work[w].pc # "send"
        /\ work[w].pc = "record" => work[w].outcome \in MaybeSent
                                    /\ work[w].outcome[1] # "rejected"
        BY <2>1 DEF Errand, Unsent
  <2>3. copies[e] = 0
        BY <1>2, <1>6 DEF OutboxInv, Books, Book
  <2>4. QED BY <1>3, <2>1, <2>2, <2>3 DEF Errand, Unsent
<1>7. QED BY <1>1, <1>2, <1>4, <1>5, <1>6, WorldStep

LEMMA ReceivedBook ==
    ASSUME NEW d, IsDelivery(d), NEW f \in {"delivered", "failed", "disputed"}, NEW c,
           Book(d, f, c), NEW state \in {"delivered", "failed"}, NEW got,
           got = [d EXCEPT !.provider = state],
           NEW after, after = IF f \notin {state, "disputed"} THEN "disputed" ELSE f
    PROVE  /\ Book(got, after, c)
           /\ \A x : Errand(x, d, f, c) => Errand(x, got, after, c)
<1>1. /\ got.provider = state /\ got.state = d.state
      /\ got.outcome = d.outcome /\ got.attempted = d.attempted
      BY LedgerReceipts
<1>2. after # "disputed" => after = f /\ f = state
      OBVIOUS
<1>3. "whatsapp" \in d.attempted
      BY DEF Book
<1>4. Book(got, after, c)
      BY <1>1, <1>2, <1>3 DEF Book
<1>5. ASSUME NEW x, Errand(x, d, f, c)
      PROVE  Errand(x, got, after, c)
  <2>1. x.pc = "send" => First(x.left) # "whatsapp"
        BY <1>5 DEF Errand
  <2>2. QED BY <1>1, <1>2, <1>5, <2>1 DEF Errand
<1>6. QED BY <1>4, <1>5

\* A late success of a message whose failure was recorded contradicts it.
LEMMA LateBook ==
    ASSUME NEW got, IsDelivery(got), NEW after, NEW c,
           got.outcome = <<"rejected", "whatsapp">>,
           got.provider = "delivered", after \in {"delivered", "disputed"},
           Book(got, after, c)
    PROVE  LET new == [got EXCEPT !.state = "done", !.outcome = <<"accepted", "whatsapp">>] IN
           /\ Book(new, after, c)
           /\ \A x : Errand(x, got, after, c) => Errand(x, new, after, c)
<1> DEFINE new == [got EXCEPT !.state = "done", !.outcome = <<"accepted", "whatsapp">>]
<1>1. new = [state |-> "done", outcome |-> <<"accepted", "whatsapp">>,
             attempted |-> got.attempted, provider |-> got.provider]
      BY LedgerResults
<1> HIDE DEF new
<1>2. after = "disputed"
      BY RejectedIsNotSent DEF Book
<1>3. Book(new, after, c)
      BY <1>1, <1>2 DEF Book
<1>4. ASSUME NEW x, Errand(x, got, after, c)
      PROVE  Errand(x, new, after, c)
  <2>1. x.pc # "send"
        BY <1>4 DEF Errand
  <2>2. ~(x.pc = "record" /\ x.outcome[2] # "whatsapp")
        BY <1>4 DEF Errand
  <2>3. QED BY <1>2, <2>1, <2>2 DEF Errand
<1>5. QED BY <1>3, <1>4 DEF new

LEMMA ReceiptStep ==
    ASSUME OutboxInv, NEW e \in Events, NEW state \in {"delivered", "failed"},
           Receipt(e, state)
    PROVE  OutboxInv'
<1> DEFINE ev  == events[e]
           d   == deliveries[e]
           got == [d EXCEPT !.provider = state]
           contrary == fate[e] \notin {state, "disputed"}
           late == state = "delivered" /\ d.state = "retryable_rejection"
                   /\ d.outcome = <<"rejected", "whatsapp">>
           after == IF contrary THEN "disputed" ELSE fate[e]
           nextEv == IF state = "failed" THEN ReopenedEvent(ev, got)
                     ELSE IF late /\ ev.state = "prepared"
                     THEN [ev EXCEPT !.state = "done", !.outcome = <<"accepted", "whatsapp">>]
                     ELSE ev
           nextD == IF state = "failed" THEN ReopenedDelivery(ev, got)
                    ELSE IF late
                    THEN [got EXCEPT !.state = "done", !.outcome = <<"accepted", "whatsapp">>]
                    ELSE got
<1>1. Shape /\ IsEvent(ev) /\ IsDelivery(d)
      BY RowShapes DEF OutboxInv
<1>2. /\ fate[e] \in {"delivered", "failed", "disputed"}
      /\ fate' = IF contrary THEN [fate EXCEPT ![e] = "disputed"] ELSE fate
      /\ deliveries' = [deliveries EXCEPT ![e] = nextD]
      /\ events' = [events EXCEPT ![e] = nextEv]
      /\ UNCHANGED <<work, copies, overlapped>>
      /\ Schedule(<<e, "whatsapp-failed">>) \/ UNCHANGED queue
      BY DEF Receipt, tasks
<1>3. queue' \subseteq Tasks
      BY <1>1, <1>2, Scheduling DEF Kinds
<1>4. fate' = [fate EXCEPT ![e] = after]
      BY <1>1, <1>2, SameRows
<1>5. /\ IsDelivery(got) /\ got.provider = state
      /\ got.state = d.state /\ got.outcome = d.outcome
      BY <1>1, LedgerReceipts
<1>6. IsEvent(nextEv) /\ nextEv.leased = ev.leased /\ nextEv.owner = ev.owner
  <2> HIDE DEF ev, got, late
  <2>1. IsEvent(ReopenedEvent(ev, got)) /\ ReopenedEvent(ev, got).leased = ev.leased
        /\ ReopenedEvent(ev, got).owner = ev.owner
        BY <1>1, ReopeningEvents
  <2>2. LET new == [ev EXCEPT !.state = "done", !.outcome = <<"accepted", "whatsapp">>] IN
        IsEvent(new) /\ new.leased = ev.leased /\ new.owner = ev.owner
        BY <1>1, EventEnds
  <2>3. QED BY <1>1, <2>1, <2>2
<1>7. IsDelivery(nextD)
  <2> HIDE DEF ev, got, late
  <2>1. IsDelivery(ReopenedDelivery(ev, got))
        BY <1>5, ReopeningDeliveries
  <2>2. [got EXCEPT !.state = "done", !.outcome = <<"accepted", "whatsapp">>]
          = [state |-> "done", outcome |-> <<"accepted", "whatsapp">>,
             attempted |-> got.attempted, provider |-> got.provider]
        BY <1>5, LedgerResults
  <2>3. QED BY <1>5, <2>1, <2>2 DEF IsDelivery
<1>8. ASSUME e \notin overlapped
      PROVE  /\ Book(nextD, after, copies[e])
             /\ \A x : Errand(x, d, fate[e], copies[e]) => Errand(x, nextD, after, copies[e])
  <2>1. Book(d, fate[e], copies[e])
        BY <1>8 DEF OutboxInv, Books
  <2>2. /\ Book(got, after, copies[e])
        /\ \A x : Errand(x, d, fate[e], copies[e]) => Errand(x, got, after, copies[e])
        BY <1>1, <1>2, <2>1, ReceivedBook
  <2>3. state = "delivered" => after \in {"delivered", "disputed"}
        BY <1>2
  <2> HIDE DEF ev, d, got, after
  <2>4. /\ Book(ReopenedDelivery(ev, got), after, copies[e])
        /\ \A x : Errand(x, got, after, copies[e])
                    => Errand(x, ReopenedDelivery(ev, got), after, copies[e])
        BY <1>5, <2>2, ReopenedBook
  <2>5. late => LET new == [got EXCEPT !.state = "done", !.outcome = <<"accepted", "whatsapp">>]
                IN /\ Book(new, after, copies[e])
                   /\ \A x : Errand(x, got, after, copies[e]) => Errand(x, new, after, copies[e])
        BY <1>5, <2>2, <2>3, LateBook
  <2>6. QED BY <2>2, <2>4, <2>5
<1>9. UNCHANGED copies /\ copies = [copies EXCEPT ![e] = copies[e]]
      BY <1>1, <1>2, SameRows
<1> HIDE DEF nextEv, nextD, after
<1>10. Writes(e, nextEv, nextD, after, copies[e])
      BY <1>2, <1>3, <1>4, <1>9 DEF Writes
<1>11. QED BY <1>2, <1>6, <1>7, <1>8, <1>10, WorldStep, WhatIsKnown

-----------------------------------------------------------------------------
(* A delivery.                                                             *)

LEMMA RunMoves ==
    ASSUME NEW x, IsRun(x), NEW a, a # "idle"
    PROVE  LET new == [x EXCEPT !.pc = a] IN
           /\ IsRun(new) /\ new.pc = a /\ new.task = x.task
           /\ new.left = x.left /\ new.outcome = x.outcome
<1>1. [x EXCEPT !.pc = a] = [pc |-> a, task |-> x.task, read |-> x.read, left |-> x.left,
                             outcome |-> x.outcome, ledger |-> x.ledger]
      BY DEF IsRun
<1>2. QED BY <1>1 DEF IsRun

LEMMA FreshRuns ==
    ASSUME NEW t \in Tasks, NEW a, a # "idle"
    PROVE  IsRun(Fresh(t, a)) /\ Fresh(t, a).pc = a /\ Fresh(t, a).task = t
BY DEF Fresh, IsRun

LEMMA RunResults ==
    ASSUME NEW x, IsRun(x), NEW a, NEW b
    PROVE  [x EXCEPT !.outcome = a, !.ledger = b]
             = [pc |-> x.pc, task |-> x.task, read |-> x.read, left |-> x.left,
                outcome |-> a, ledger |-> b]
<1> DEFINE first == [x EXCEPT !.outcome = a]
<1>1. first = [pc |-> x.pc, task |-> x.task, read |-> x.read, left |-> x.left,
               outcome |-> a, ledger |-> x.ledger]
      BY DEF IsRun
<1>2. [x EXCEPT !.outcome = a, !.ledger = b] = [first EXCEPT !.ledger = b]
      OBVIOUS
<1> HIDE DEF first
<1>3. [first EXCEPT !.ledger = b]
        = [pc |-> x.pc, task |-> x.task, read |-> x.read, left |-> x.left,
           outcome |-> a, ledger |-> b]
      BY <1>1
<1>4. QED BY <1>2, <1>3

\* A delivery goes on, but not to a send, or ends.
LEMMA QuietRunStep ==
    ASSUME OutboxInv, NEW w \in Workers, work[w] # Idle, NEW x,
           work' = [work EXCEPT ![w] = x],
           x = Idle \/ (IsRun(x) /\ x.task = work[w].task /\ x.pc \notin {"send", "record"}),
           NEW ev, IsEvent(ev), events' = [events EXCEPT ![Event(w)] = ev],
           x # Idle => /\ ev.leased = events[Event(w)].leased
                       /\ ev.owner = events[Event(w)].owner,
           NEW d, IsDelivery(d), deliveries' = [deliveries EXCEPT ![Event(w)] = d],
           Event(w) \notin overlapped => Book(d, fate[Event(w)], copies[Event(w)]),
           UNCHANGED <<fate, copies, overlapped>>, queue' \subseteq Tasks
    PROVE  OutboxInv'
<1> DEFINE e == Event(w)
<1>1. /\ e \in Events /\ Shape
      /\ e \notin overlapped => /\ events[e].leased /\ events[e].owner = w
                                /\ \A v \in Workers \ {w} : work[v] # Idle => Event(v) # e
      BY WhatIsKnown
<1>2. x = Idle \/ (IsRun(x) /\ x.task[1] = e)
      BY DEF Event
<1>3. Writes(e, ev, d, fate[e], copies[e])
      BY <1>1, SameRows DEF Writes
<1>4. x # Idle => Errand(x, d, fate[e], copies[e])
      BY DEF Errand
<1> HIDE DEF e
<1>5. work[w] = Idle \/ Event(w) = e
      BY DEF e
<1>6. /\ e \notin overlapped => Book(d, fate[e], copies[e])
      /\ x # Idle => ev.leased = events[e].leased /\ ev.owner = events[e].owner
      BY DEF e
<1>7. QED BY <1>1, <1>2, <1>3, <1>4, <1>5, <1>6, WorkerStep

\* The same where the rows stay as they are.
LEMMA MoveStep ==
    ASSUME OutboxInv, NEW w \in Workers, work[w] # Idle, NEW x,
           work' = [work EXCEPT ![w] = x],
           x = Idle \/ (IsRun(x) /\ x.task = work[w].task /\ x.pc \notin {"send", "record"}),
           UNCHANGED <<events, deliveries, fate, copies, overlapped>>, queue' \subseteq Tasks
    PROVE  OutboxInv'
<1>1. /\ Event(w) \in Events /\ Shape
      /\ IsEvent(events[Event(w)]) /\ IsDelivery(deliveries[Event(w)])
      /\ Event(w) \notin overlapped =>
           Book(deliveries[Event(w)], fate[Event(w)], copies[Event(w)])
      BY WhatIsKnown
<1>2. /\ events' = [events EXCEPT ![Event(w)] = events[Event(w)]]
      /\ deliveries' = [deliveries EXCEPT ![Event(w)] = deliveries[Event(w)]]
      BY <1>1, SameRows
<1>3. QED BY <1>1, <1>2, QuietRunStep

LEMMA ToFinishMoves ==
    ASSUME Shape, NEW w \in Workers, work[w] # Idle, NEW a, NEW b, ToFinish(w, a, b)
    PROVE  \E x : /\ work' = [work EXCEPT ![w] = x]
                  /\ IsRun(x) /\ x.task = work[w].task /\ x.pc = "finish"
<1> DEFINE t == work[w].task
           start == Fresh(t, "finish")
           x == [start EXCEPT !.outcome = a, !.ledger = b]
<1>1. work' = [work EXCEPT ![w] = x]
      BY DEF ToFinish
<1>2. t \in Tasks
      BY AtWork
<1> HIDE DEF t
<1>3. IsRun(start) /\ start.pc = "finish" /\ start.task = t
      BY <1>2, FreshRuns
<1> HIDE DEF start
<1>4. x = [pc |-> start.pc, task |-> start.task, read |-> start.read, left |-> start.left,
           outcome |-> a, ledger |-> b]
      BY <1>3, RunResults
<1> HIDE DEF x
<1>5. IsRun(x) /\ x.task = t /\ x.pc = "finish"
      BY <1>2, <1>3, <1>4 DEF IsRun
<1>6. QED BY <1>1, <1>5 DEF t

LEMMA ReadStep ==
    ASSUME OutboxInv, NEW w \in Workers, ReadAppointment(w)
    PROVE  OutboxInv'
<1>1. work[w].pc = "read" /\ Shape /\ queue' \subseteq Tasks
      /\ UNCHANGED <<events, deliveries, fate, copies, overlapped>>
      BY DEF ReadAppointment, At, rows, tasks, received, OutboxInv, Shape
<1>2. work[w] # Idle
      BY <1>1 DEF Idle
<1>3. IsRun(work[w])
      BY <1>1, <1>2, AtWork
<1>4. PICK x : /\ work' = [work EXCEPT ![w] = x]
               /\ IsRun(x) /\ x.task = work[w].task /\ x.pc \in {"finish", "prepare"}
  <2>1. CASE ToFinish(w, <<"record_unavailable">>, FALSE)
        BY <1>1, <1>2, <2>1, ToFinishMoves
  <2>2. CASE work' = [work EXCEPT ![w].pc = "prepare",
                       ![w].read = [version |-> calendar.version, changed |-> calendar.changed]]
    <3> DEFINE r == [version |-> calendar.version, changed |-> calendar.changed]
    <3> HIDE DEF r
    <3> DEFINE run == work[w]
               x == [run EXCEPT !.pc = "prepare", !.read = r]
               first == [run EXCEPT !.pc = "prepare"]
    <3>1. work' = [work EXCEPT ![w] = x]
          BY <1>1, <2>2 DEF r, Shape
    <3>2. IsRun(run)
          BY <1>3
    <3> HIDE DEF run
    <3>3. IsRun(first) /\ first.pc = "prepare" /\ first.task = run.task
          BY <3>2, RunMoves
    <3>4. x = [first EXCEPT !.read = r]
          OBVIOUS
    <3> HIDE DEF first, x
    <3>5. x = [pc |-> "prepare", task |-> run.task, read |-> r, left |-> first.left,
               outcome |-> first.outcome, ledger |-> first.ledger]
          BY <3>3, <3>4 DEF IsRun
    <3>6. IsRun(x) /\ x.task = run.task /\ x.pc = "prepare"
          BY <3>2, <3>5 DEF IsRun
    <3>7. QED BY <3>1, <3>6 DEF run
  <2>3. QED BY <2>1, <2>2 DEF ReadAppointment
<1>5. QED BY <1>1, <1>2, <1>4, MoveStep

LEMMA RereadStep ==
    ASSUME OutboxInv, NEW w \in Workers, Reread(w)
    PROVE  OutboxInv'
<1>1. work[w].pc = "reread" /\ Shape /\ queue' \subseteq Tasks
      /\ UNCHANGED <<events, deliveries, fate, copies, overlapped>>
      BY DEF Reread, At, rows, tasks, received, OutboxInv, Shape
<1>2. work[w] # Idle
      BY <1>1 DEF Idle
<1>3. IsRun(work[w])
      BY <1>1, <1>2, AtWork
<1>4. PICK x : /\ work' = [work EXCEPT ![w] = x]
               /\ IsRun(x) /\ x.task = work[w].task /\ x.pc \in {"finish", "intent"}
  <2>1. CASE \E a : ToFinish(w, a, FALSE)
        BY <1>1, <1>2, <2>1, ToFinishMoves
  <2>2. CASE work' = [work EXCEPT ![w].pc = "intent", ![w].left = open]
    <3> DEFINE run == work[w]
               targets == open
               x == [run EXCEPT !.pc = "intent", !.left = targets]
               first == [run EXCEPT !.pc = "intent"]
    <3>1. work' = [work EXCEPT ![w] = x]
          BY <1>1, <2>2 DEF Shape
    <3>2. IsRun(run)
          BY <1>3
    <3> HIDE DEF run, targets
    <3>3. IsRun(first) /\ first.pc = "intent" /\ first.task = run.task
          BY <3>2, RunMoves
    <3>4. x = [first EXCEPT !.left = targets]
          OBVIOUS
    <3> HIDE DEF first, x
    <3>5. x = [pc |-> "intent", task |-> run.task, read |-> first.read, left |-> targets,
               outcome |-> first.outcome, ledger |-> first.ledger]
          BY <3>3, <3>4 DEF IsRun
    <3>6. IsRun(x) /\ x.task = run.task /\ x.pc = "intent"
          BY <3>2, <3>5 DEF IsRun
    <3>7. QED BY <3>1, <3>6 DEF run
  <2>3. QED BY <2>1, <2>2 DEF Reread
<1>5. QED BY <1>1, <1>2, <1>4, MoveStep

LEMMA CrashStep ==
    ASSUME OutboxInv, NEW w \in Workers, Crash(w)
    PROVE  OutboxInv'
BY MoveStep DEF Crash, Stop, rows, tasks, received, OutboxInv, Shape

\* The release of a lease at the end of a delivery.
LEMMA Releasing ==
    ASSUME NEW w \in Workers, NEW row, IsEvent(row)
    PROVE  IsEvent(Released(w, row))
<1>1. CASE row.owner = w
      BY <1>1, EventLeases DEF Released
<1>2. CASE row.owner # w
      BY <1>2 DEF Released
<1>3. QED BY <1>1, <1>2

LEMMA FailStep ==
    ASSUME OutboxInv, NEW w \in Workers, Fail(w)
    PROVE  OutboxInv'
<1>1. work[w] # Idle
      BY DEF Fail, Idle
<1>2. /\ Event(w) \in Events /\ Shape
      /\ IsEvent(events[Event(w)]) /\ IsDelivery(deliveries[Event(w)])
      /\ Event(w) \notin overlapped =>
           Book(deliveries[Event(w)], fate[Event(w)], copies[Event(w)])
      BY <1>1, WhatIsKnown
<1>3. deliveries' = [deliveries EXCEPT ![Event(w)] = deliveries[Event(w)]]
      BY <1>2, SameRows DEF Fail
<1>4. IsEvent(Released(w, events[Event(w)]))
      BY <1>2, Releasing
<1>5. /\ events' = [events EXCEPT ![Event(w)] = Released(w, events[Event(w)])]
      /\ work' = [work EXCEPT ![w] = Idle]
      /\ UNCHANGED <<fate, copies, overlapped, queue>>
      BY DEF Fail, Stop, received, tasks
<1>6. QED BY <1>1, <1>2, <1>3, <1>4, <1>5, QuietRunStep DEF Shape

LEMMA ReturnMoves ==
    ASSUME Shape, NEW w \in Workers, NEW row, IsEvent(row), Return(w, row)
    PROVE  /\ \E ev : IsEvent(ev) /\ events' = [events EXCEPT ![Event(w)] = ev]
           /\ work' = [work EXCEPT ![w] = Idle] /\ queue' \subseteq Tasks
<1>1. IsEvent(Released(w, row))
      BY Releasing
<1>2. queue' \subseteq Tasks /\ work' = [work EXCEPT ![w] = Idle]
      BY DEF Return, Stop, Shape
<1>3. \/ events' = [events EXCEPT ![Event(w)] = Released(w, row)]
      \/ events' = [events EXCEPT ![Event(w)] = row]
      BY DEF Return
<1>4. QED BY <1>1, <1>2, <1>3

\* A delivery returns, having written its event and nothing to the ledger.
LEMMA ReturnStep ==
    ASSUME OutboxInv, NEW w \in Workers, work[w] # Idle,
           NEW row, IsEvent(row), Return(w, row),
           NEW d, IsDelivery(d), deliveries' = [deliveries EXCEPT ![Event(w)] = d],
           Event(w) \notin overlapped => Book(d, fate[Event(w)], copies[Event(w)]),
           UNCHANGED <<fate, copies, overlapped>>
    PROVE  OutboxInv'
<1>1. PICK ev : IsEvent(ev) /\ events' = [events EXCEPT ![Event(w)] = ev]
      BY ReturnMoves DEF OutboxInv
<1>2. work' = [work EXCEPT ![w] = Idle] /\ queue' \subseteq Tasks
      BY ReturnMoves DEF OutboxInv
<1>3. QED BY <1>1, <1>2, QuietRunStep

LEMMA PrepareStep ==
    ASSUME OutboxInv, NEW w \in Workers, Prepare(w)
    PROVE  OutboxInv'
<1> DEFINE snap == work[w].read
           ev == events[Event(w)]
           noticed == [ev EXCEPT !.notice = snap]
<1>1. work[w].pc = "prepare" /\ work[w] # Idle
      BY DEF Prepare, At, Idle
<1>2. UNCHANGED <<deliveries, fate, copies, overlapped>>
      BY DEF Prepare, received
<1>3. /\ Event(w) \in Events /\ Shape /\ IsRun(work[w])
      /\ IsEvent(ev) /\ IsDelivery(deliveries[Event(w)])
      /\ Event(w) \notin overlapped =>
           Book(deliveries[Event(w)], fate[Event(w)], copies[Event(w)])
      BY <1>1, WhatIsKnown
<1>4. deliveries' = [deliveries EXCEPT ![Event(w)] = deliveries[Event(w)]]
      BY <1>2, <1>3, SameRows
<1>5. \/ Busy(w)
      \/ Return(w, [ev EXCEPT !.state = "done", !.outcome = <<"duplicate_or_stale">>])
      \/ Return(w, [noticed EXCEPT !.state = "done", !.outcome = <<"existing_or_assistant_booking">>])
      \/ /\ events' = [events EXCEPT ![Event(w)] = [noticed EXCEPT !.state = "prepared"]]
         /\ work' = [work EXCEPT ![w] = Fresh(work[w].task, "reread")]
         /\ UNCHANGED queue
      BY DEF Prepare
<1>6. CASE Busy(w)
      BY <1>1, <1>2, <1>3, <1>6, MoveStep DEF Busy, Stop, Shape
<1> HIDE DEF snap, ev
<1>7. IsEvent(noticed) /\ noticed.leased = ev.leased /\ noticed.owner = ev.owner
      BY <1>3, EventNotices
<1> HIDE DEF noticed
<1>8. CASE Return(w, [ev EXCEPT !.state = "done", !.outcome = <<"duplicate_or_stale">>])
  <2>1. IsEvent([ev EXCEPT !.state = "done", !.outcome = <<"duplicate_or_stale">>])
        BY <1>3, EventEnds
  <2>2. QED BY <1>1, <1>2, <1>3, <1>4, <1>8, <2>1, ReturnStep
<1>9. CASE Return(w, [noticed EXCEPT !.state = "done", !.outcome = <<"existing_or_assistant_booking">>])
  <2>1. IsEvent([noticed EXCEPT !.state = "done", !.outcome = <<"existing_or_assistant_booking">>])
        BY <1>7, EventEnds
  <2>2. QED BY <1>1, <1>2, <1>3, <1>4, <1>9, <2>1, ReturnStep
<1>10. CASE /\ events' = [events EXCEPT ![Event(w)] = [noticed EXCEPT !.state = "prepared"]]
            /\ work' = [work EXCEPT ![w] = Fresh(work[w].task, "reread")]
            /\ UNCHANGED queue
  <2>1. LET new == [noticed EXCEPT !.state = "prepared"] IN
        IsEvent(new) /\ new.leased = noticed.leased /\ new.owner = noticed.owner
        BY <1>7, EventStates
  <2>2. work[w].task \in Tasks
        BY <1>3 DEF IsRun
  <2>3. /\ IsRun(Fresh(work[w].task, "reread"))
        /\ Fresh(work[w].task, "reread").task = work[w].task
        /\ Fresh(work[w].task, "reread").pc = "reread"
        BY <2>2, FreshRuns
  <2> DEFINE new == [noticed EXCEPT !.state = "prepared"]
             x == Fresh(work[w].task, "reread")
  <2>4. /\ IsEvent(new) /\ new.leased = events[Event(w)].leased
        /\ new.owner = events[Event(w)].owner
        BY <1>7, <2>1 DEF ev
  <2>5. events' = [events EXCEPT ![Event(w)] = new] /\ work' = [work EXCEPT ![w] = x]
        BY <1>10
  <2>6. queue' \subseteq Tasks
        BY <1>3, <1>10 DEF Shape
  <2>7. IsRun(x) /\ x.task = work[w].task /\ x.pc \notin {"send", "record"}
        BY <2>3
  <2> HIDE DEF new, x
  <2>8. QED BY <1>1, <1>2, <1>3, <1>4, <2>4, <2>5, <2>6, <2>7, QuietRunStep
<1>11. QED BY <1>5, <1>6, <1>8, <1>9, <1>10

LEMMA FinishStep ==
    ASSUME OutboxInv, NEW w \in Workers, Finish(w)
    PROVE  OutboxInv'
<1> DEFINE ev == events[Event(w)]
           d == deliveries[Event(w)]
           outcome == work[w].outcome
           done == [ev EXCEPT !.state = "done", !.outcome = outcome]
<1>1. work[w].pc = "finish" /\ work[w] # Idle
      BY DEF Finish, At, Idle
<1>2. UNCHANGED <<fate, copies, overlapped>>
      BY DEF Finish, received
<1>3. /\ Event(w) \in Events /\ Shape /\ IsEvent(ev) /\ IsDelivery(d)
      /\ Event(w) \notin overlapped => Book(d, fate[Event(w)], copies[Event(w)])
      BY <1>1, WhatIsKnown
<1>4. \/ Busy(w) /\ UNCHANGED deliveries
      \/ /\ Return(w, ReopenedEvent(done, d))
         /\ deliveries' = [deliveries EXCEPT ![Event(w)] = ReopenedDelivery(done, d)]
      \/ Return(w, done) /\ UNCHANGED deliveries
      BY DEF Finish
<1>5. CASE Busy(w) /\ UNCHANGED deliveries
      BY <1>1, <1>2, <1>3, <1>5, MoveStep DEF Busy, Stop, Shape
<1>6. deliveries = [deliveries EXCEPT ![Event(w)] = d]
      BY <1>3, SameRows
<1> HIDE DEF ev, d, outcome
<1>7. IsEvent(done)
      BY <1>3, EventEnds
<1> HIDE DEF done
<1>8. /\ IsEvent(ReopenedEvent(done, d)) /\ IsDelivery(ReopenedDelivery(done, d))
      /\ Event(w) \notin overlapped =>
           Book(ReopenedDelivery(done, d), fate[Event(w)], copies[Event(w)])
      BY <1>3, <1>7, ReopeningEvents, ReopeningDeliveries, ReopenedBook
<1>9. CASE /\ Return(w, ReopenedEvent(done, d))
           /\ deliveries' = [deliveries EXCEPT ![Event(w)] = ReopenedDelivery(done, d)]
      BY <1>1, <1>2, <1>8, <1>9, ReturnStep
<1>10. CASE Return(w, done) /\ UNCHANGED deliveries
      BY <1>1, <1>2, <1>3, <1>6, <1>7, <1>10, ReturnStep
<1>11. QED BY <1>4, <1>5, <1>9, <1>10

LEMMA LedgerAttempts ==
    ASSUME NEW d, IsDelivery(d), NEW a, NEW b, NEW g
    PROVE  [d EXCEPT !.state = a, !.outcome = b, !.attempted = g]
             = [state |-> a, outcome |-> b, attempted |-> g, provider |-> d.provider]
<1> DEFINE second == [d EXCEPT !.state = a, !.outcome = b]
<1>1. second = [state |-> a, outcome |-> b,
                attempted |-> d.attempted, provider |-> d.provider]
      BY LedgerResults
<1>2. [d EXCEPT !.state = a, !.outcome = b, !.attempted = g] = [second EXCEPT !.attempted = g]
      OBVIOUS
<1> HIDE DEF second
<1>3. [second EXCEPT !.attempted = g]
        = [state |-> a, outcome |-> b, attempted |-> g, provider |-> d.provider]
      BY <1>1
<1>4. QED BY <1>2, <1>3

\* An attempt is entered only where nothing was sent.
LEMMA AttemptStep ==
    ASSUME OutboxInv, NEW w \in Workers, work[w] # Idle, work[w].pc = "intent",
           deliveries[Event(w)].state \notin {"sending", "done"},
           First(work[w].left) \notin deliveries[Event(w)].attempted,
           Attempt(w), UNCHANGED <<events, fate, copies, queue, overlapped>>
    PROVE  OutboxInv'
<1> DEFINE e == Event(w)
           d == deliveries[e]
           run == work[w]
           h == First(run.left)
           tried == d.attempted \cup {h}
           new == [d EXCEPT !.state = "sending", !.outcome = <<"uncertain", h>>,
                            !.attempted = tried]
           x == [run EXCEPT !.pc = "send"]
<1>1. /\ e \in Events /\ IsRun(run) /\ Shape
      /\ IsEvent(events[e]) /\ IsDelivery(d)
      /\ e \notin overlapped =>
           /\ events[e].leased /\ events[e].owner = w
           /\ Book(d, fate[e], copies[e])
           /\ \A v \in Workers \ {w} : work[v] # Idle => Event(v) # e
      BY WhatIsKnown
<1>2. work' = [work EXCEPT ![w] = x]
      BY DEF Attempt, Goto
<1>3. deliveries' = [deliveries EXCEPT ![e] = new]
      BY DEF Attempt
<1>4. Event(w) = e /\ run.task[1] = e
      BY DEF Event
<1>5. h \notin d.attempted /\ d.state \notin {"sending", "done"}
      OBVIOUS
<1>6. queue' \subseteq Tasks
      BY <1>1 DEF Shape
<1>7. /\ events' = [events EXCEPT ![e] = events[e]]
      /\ fate' = [fate EXCEPT ![e] = fate[e]] /\ copies' = [copies EXCEPT ![e] = copies[e]]
      BY <1>1, SameRows
<1> HIDE DEF e, d, run
<1>8. /\ IsRun(x) /\ x.pc = "send" /\ x.task = run.task /\ x.left = run.left
      BY <1>1, RunMoves
<1>9. new = [state |-> "sending", outcome |-> <<"uncertain", h>>,
             attempted |-> d.attempted \cup {h}, provider |-> d.provider]
  <2> DEFINE result == <<"uncertain", h>>
  <2>1. new = [d EXCEPT !.state = "sending", !.outcome = result, !.attempted = tried]
        OBVIOUS
  <2> HIDE DEF tried, result, new
  <2>2. new = [state |-> "sending", outcome |-> result,
               attempted |-> tried, provider |-> d.provider]
    <3>1. IsDelivery(d)
          BY <1>1
    <3> DEFINE sending == "sending"
    <3>2. new = [d EXCEPT !.state = sending, !.outcome = result, !.attempted = tried]
          BY <2>1
    <3> HIDE DEF sending
    <3>3. new = [state |-> sending, outcome |-> result,
                 attempted |-> tried, provider |-> d.provider]
          BY <3>1, <3>2, LedgerAttempts, Zenon
    <3>4. QED BY <3>3 DEF sending
  <2>3. QED BY <2>2 DEF tried, result
<1>10. IsDelivery(new)
      BY <1>9 DEF IsDelivery
<1> HIDE DEF new, x
<1>11. ASSUME e \notin overlapped
       PROVE  Book(new, fate[e], copies[e]) /\ Errand(x, new, fate[e], copies[e])
  <2>1. Book(d, fate[e], copies[e])
        BY <1>1, <1>11
  <2>2. "whatsapp" \notin new.attempted => fate[e] = "none"
        BY <1>9, <2>1 DEF Book
  <2>3. h = "whatsapp" => fate[e] = "none"
        BY <1>5, <2>1 DEF Book
  <2>4. fate[e] # "disputed" => Unsent(fate[e], copies[e])
        BY <1>5, <2>1 DEF Book
  <2>5. Book(new, fate[e], copies[e])
        BY <1>9, <2>1, <2>2, <2>4 DEF Book, Unsent
  <2>6. Errand(x, new, fate[e], copies[e])
        BY <1>8, <1>9, <2>3, <2>4 DEF Errand
  <2>7. QED BY <2>5, <2>6
<1>12. Writes(e, events[e], new, fate[e], copies[e])
      BY <1>3, <1>6, <1>7 DEF Writes
<1>13. x.task[1] = e
      BY <1>4, <1>8
<1>14. QED BY <1>1, <1>2, <1>4, <1>8, <1>10, <1>11, <1>12, <1>13, WorkerStep

LEMMA IntentStep ==
    ASSUME OutboxInv, NEW w \in Workers, Intent(w)
    PROVE  OutboxInv'
<1>1. work[w].pc = "intent" /\ Shape /\ queue' \subseteq Tasks
      /\ UNCHANGED <<events, fate, copies, queue, overlapped>>
      BY DEF Intent, At, tasks, received, OutboxInv, Shape
<1>2. work[w] # Idle
      BY <1>1 DEF Idle
<1>3. IsRun(work[w])
      BY <1>1, <1>2, AtWork
<1>4. \/ (\E a : ToFinish(w, a, TRUE)) /\ UNCHANGED deliveries
      \/ /\ deliveries[Event(w)].state \notin {"sending", "done"}
         /\ First(work[w].left) \notin deliveries[Event(w)].attempted
         /\ Attempt(w)
      \/ work' = [work EXCEPT ![w].left = @ \ {First(work[w].left)}] /\ UNCHANGED deliveries
      BY DEF Intent
<1>5. CASE (\E a : ToFinish(w, a, TRUE)) /\ UNCHANGED deliveries
  <2>1. PICK x : /\ work' = [work EXCEPT ![w] = x]
                 /\ IsRun(x) /\ x.task = work[w].task /\ x.pc = "finish"
        BY <1>1, <1>2, <1>5, ToFinishMoves
  <2>2. QED BY <1>1, <1>2, <1>5, <2>1, MoveStep
<1>6. CASE /\ deliveries[Event(w)].state \notin {"sending", "done"}
           /\ First(work[w].left) \notin deliveries[Event(w)].attempted
           /\ Attempt(w)
      BY <1>1, <1>2, <1>6, AttemptStep
<1>7. CASE work' = [work EXCEPT ![w].left = @ \ {First(work[w].left)}] /\ UNCHANGED deliveries
  <2> DEFINE run == work[w]
             rest == run.left \ {First(run.left)}
             x == [run EXCEPT !.left = rest]
  <2>1. work' = [work EXCEPT ![w] = x]
        BY <1>1, <1>7 DEF Shape
  <2>2. IsRun(run) /\ run.pc = "intent"
        BY <1>1, <1>3
  <2> HIDE DEF run, rest
  <2>3. x = [pc |-> "intent", task |-> run.task, read |-> run.read, left |-> rest,
             outcome |-> run.outcome, ledger |-> run.ledger]
        BY <2>2 DEF IsRun
  <2> HIDE DEF x
  <2>4. IsRun(x) /\ x.task = run.task /\ x.pc = "intent"
        BY <2>2, <2>3 DEF IsRun
  <2>5. QED BY <1>1, <1>2, <1>7, <2>1, <2>4, MoveStep DEF run
<1>8. QED BY <1>4, <1>5, <1>6, <1>7

\* The provider answers, or does not, and has the message or has not.
LEMMA SendStep ==
    ASSUME OutboxInv, NEW w \in Workers, Send(w)
    PROVE  OutboxInv'
<1> DEFINE e == Event(w)
           d == deliveries[e]
           run == work[w]
           h == First(run.left)
<1>1. run.pc = "send" /\ run # Idle
      BY DEF Send, At, Idle
<1>2. /\ e \in Events /\ IsRun(run) /\ Shape
      /\ IsEvent(events[e]) /\ IsDelivery(d)
      /\ e \notin overlapped =>
           /\ events[e].leased /\ events[e].owner = w
           /\ Book(d, fate[e], copies[e])
           /\ Errand(run, d, fate[e], copies[e])
           /\ \A v \in Workers \ {w} : work[v] # Idle => Event(v) # e
      BY <1>1, WhatIsKnown
<1>3. UNCHANGED <<events, deliveries, queue, overlapped>>
      BY DEF Send, rows, tasks
<1>4. PICK verdict \in {"accepted", "rejected", "uncertain"} :
        /\ work' = [work EXCEPT ![w].pc = "record", ![w].outcome = <<verdict, h>>]
        /\ \/ /\ verdict # "rejected"
              /\ IF h = "whatsapp" THEN fate' = [fate EXCEPT ![e] = "accepted"] /\ UNCHANGED copies
                 ELSE Reaches(e) /\ UNCHANGED fate
           \/ verdict # "accepted" /\ UNCHANGED received
      BY DEF Send
<1>5. PICK f, c :
        /\ fate' = [fate EXCEPT ![e] = f] /\ copies' = [copies EXCEPT ![e] = c]
        /\ \/ verdict # "rejected" /\ h = "whatsapp" /\ f = "accepted" /\ c = copies[e]
           \/ verdict # "rejected" /\ h # "whatsapp" /\ f = fate[e] /\ c = copies[e] + 1
           \/ verdict # "accepted" /\ f = fate[e] /\ c = copies[e]
  <2>1. fate = [fate EXCEPT ![e] = fate[e]] /\ copies = [copies EXCEPT ![e] = copies[e]]
        BY <1>2, SameRows
  <2>2. CASE verdict # "rejected" /\ h = "whatsapp"
             /\ fate' = [fate EXCEPT ![e] = "accepted"] /\ UNCHANGED copies
        BY <2>1, <2>2
  <2>3. CASE verdict # "rejected" /\ h # "whatsapp" /\ Reaches(e) /\ UNCHANGED fate
        BY <2>1, <2>3 DEF Reaches
  <2>4. CASE verdict # "accepted" /\ UNCHANGED received
        BY <2>1, <2>4 DEF received
  <2>5. QED BY <1>4, <2>2, <2>3, <2>4
<1> DEFINE told == <<verdict, h>>
           x == [run EXCEPT !.pc = "record", !.outcome = told]
           first == [run EXCEPT !.pc = "record"]
<1>6. work' = [work EXCEPT ![w] = x]
      BY <1>2, <1>4 DEF Shape
<1>7. run.task[1] = e /\ Event(w) = e
      BY DEF Event
<1>8. /\ events' = [events EXCEPT ![e] = events[e]]
      /\ deliveries' = [deliveries EXCEPT ![e] = d]
      /\ queue' \subseteq Tasks
      BY <1>2, <1>3, SameRows DEF Shape
<1>9. told[1] = verdict /\ told[2] = h
      /\ (told \in MaybeSent => h = "whatsapp")
      /\ (h = "whatsapp" /\ verdict # "rejected" => told \in MaybeSent)
      BY DEF MaybeSent
<1>10. h # "whatsapp" => <<"uncertain", h>> \notin MaybeSent
      BY DEF MaybeSent
<1>11. h = "whatsapp" => <<"uncertain", h>> \in MaybeSent
      BY DEF MaybeSent
<1> HIDE DEF run, told
<1>12. IsRun(first) /\ first.pc = "record" /\ first.task = run.task
      BY <1>2, RunMoves
<1>13. x = [first EXCEPT !.outcome = told]
      OBVIOUS
<1> HIDE DEF first, x
<1>14. x = [pc |-> "record", task |-> run.task, read |-> first.read, left |-> first.left,
            outcome |-> told, ledger |-> first.ledger]
      BY <1>12, <1>13 DEF IsRun
<1>15. IsRun(x) /\ x.task[1] = e /\ x.pc = "record" /\ x.outcome = told
      BY <1>2, <1>7, <1>14 DEF IsRun
<1> HIDE DEF e, d, h
<1>16. ASSUME e \notin overlapped
       PROVE  Book(d, f, c) /\ Errand(x, d, f, c)
  <2>1. Book(d, fate[e], copies[e])
        BY <1>2, <1>16
  <2>2. /\ h \in d.attempted /\ d.outcome = <<"uncertain", h>>
        /\ h = "whatsapp" => fate[e] = "none"
        /\ fate[e] # "disputed" => Unsent(fate[e], copies[e]) /\ d.state = "sending"
        BY <1>1, <1>2, <1>16 DEF Errand, h
  <2>3. Book(d, f, c)
        BY <1>5, <1>10, <1>11, <2>1, <2>2 DEF Book, Unsent
  <2>4. Errand(x, d, f, c)
        BY <1>5, <1>9, <1>15, <2>2 DEF Errand, Unsent
  <2>5. QED BY <2>3, <2>4
<1>17. Writes(e, events[e], d, f, c)
      BY <1>5, <1>8 DEF Writes
<1>18. QED BY <1>2, <1>3, <1>6, <1>7, <1>15, <1>16, <1>17, WorkerStep

LEMMA RecordStep ==
    ASSUME OutboxInv, NEW w \in Workers, Record(w)
    PROVE  OutboxInv'
<1> DEFINE e == Event(w)
           d == deliveries[e]
           outcome == work[w].outcome
           rejected == outcome[1] = "rejected"
           state == IF rejected THEN "retryable_rejection" ELSE "done"
           new == [d EXCEPT !.state = state, !.outcome = outcome]
<1>1. work[w].pc = "record" /\ work[w] # Idle
      BY DEF Record, At, Idle
<1>2. /\ e \in Events /\ IsRun(work[w]) /\ Shape
      /\ IsEvent(events[e]) /\ IsDelivery(d)
      /\ e \notin overlapped => /\ Book(d, fate[e], copies[e])
                                /\ Errand(work[w], d, fate[e], copies[e])
      BY <1>1, WhatIsKnown
<1>3. UNCHANGED <<events, fate, copies, queue, overlapped>> /\ queue' \subseteq Tasks
      BY <1>2 DEF Record, received, tasks, Shape
<1>4. deliveries' = [deliveries EXCEPT ![e] = new]
      BY DEF Record
<1>5. events' = [events EXCEPT ![e] = events[e]]
      BY <1>2, <1>3, SameRows
<1>6. PICK x : /\ work' = [work EXCEPT ![w] = x]
               /\ IsRun(x) /\ x.task = work[w].task /\ x.pc \in {"finish", "intent"}
  <2>1. CASE ToFinish(w, outcome, TRUE)
        BY <1>1, <1>2, <2>1, ToFinishMoves
  <2>2. CASE work' = [work EXCEPT ![w] = [Fresh(work[w].task, "intent")
                                            EXCEPT !.left = work[w].left \ {First(work[w].left)}]]
    <3> DEFINE t == work[w].task
               rest == work[w].left \ {First(work[w].left)}
               start == Fresh(t, "intent")
               y == [start EXCEPT !.left = rest]
    <3>1. work' = [work EXCEPT ![w] = y]
          BY <2>2
    <3>2. t \in Tasks
          BY <1>1, <1>2, AtWork
    <3> HIDE DEF t, rest
    <3>3. IsRun(start) /\ start.pc = "intent" /\ start.task = t
          BY <3>2, FreshRuns
    <3> HIDE DEF start
    <3>4. y = [pc |-> start.pc, task |-> start.task, read |-> start.read, left |-> rest,
               outcome |-> start.outcome, ledger |-> start.ledger]
          BY <3>3 DEF IsRun
    <3> HIDE DEF y
    <3>5. IsRun(y) /\ y.task = t /\ y.pc = "intent"
          BY <3>2, <3>3, <3>4 DEF IsRun
    <3>6. QED BY <3>1, <3>5 DEF t
  <2>3. QED BY <2>1, <2>2 DEF Record
<1>7. ASSUME e \notin overlapped
      PROVE  /\ Book(d, fate[e], copies[e])
             /\ fate[e] # "disputed" =>
                  /\ rejected => Unsent(fate[e], copies[e])
                  /\ outcome \in MaybeSent /\ fate[e] = "failed" => copies[e] = 0
                  /\ outcome \notin MaybeSent => fate[e] \in {"none", "failed"}
      BY <1>1, <1>2, <1>7 DEF Errand
<1> HIDE DEF d, outcome
<1>8. new = [state |-> state, outcome |-> outcome,
             attempted |-> d.attempted, provider |-> d.provider]
  <2> HIDE DEF state
  <2>1. QED BY <1>2, LedgerResults
<1>9. IsDelivery(new)
      BY <1>8 DEF IsDelivery
<1> HIDE DEF new
<1>10. e \notin overlapped => Book(new, fate[e], copies[e])
      BY <1>7, <1>8 DEF Book
<1>11. QED BY <1>1, <1>2, <1>3, <1>4, <1>5, <1>6, <1>9, <1>10, QuietRunStep

\* A delivery begins where no lease is held.
LEMMA DispatchStep ==
    ASSUME OutboxInv, NEW w \in Workers, NEW t \in queue, Dispatch(w, t)
    PROVE  OutboxInv'
<1> DEFINE e == t[1]
           ev == ReopenedEvent(events[e], deliveries[e])
           d == ReopenedDelivery(events[e], deliveries[e])
<1>1. t \in Tasks /\ e \in Events /\ Shape
      BY DEF OutboxInv, Shape, Tasks
<1>2. work[w] = Idle /\ UNCHANGED <<fate, copies, overlapped>>
      BY DEF Dispatch, received
<1>3. queue' \subseteq Tasks
      BY <1>1 DEF Dispatch, Shape
<1>4. CASE events[e].leased
      BY <1>2, <1>3, <1>4, QuietStep DEF Dispatch
<1>5. CASE ~events[e].leased
  <2>1. /\ IsEvent(ev) /\ ev.leased = events[e].leased /\ ev.owner = events[e].owner
        /\ IsDelivery(d)
        BY <1>1, RowShapes, ReopeningEvents, ReopeningDeliveries
  <2>2. e \notin overlapped =>
          /\ Book(d, fate[e], copies[e])
          /\ \A v \in Workers : work[v] # Idle => Event(v) # e
        BY <1>1, <1>5, RowShapes, ReopenedBook DEF OutboxInv, Books, Single
  <2>3. /\ deliveries' = [deliveries EXCEPT ![e] = d]
        /\ fate' = [fate EXCEPT ![e] = fate[e]] /\ copies' = [copies EXCEPT ![e] = copies[e]]
        BY <1>1, <1>2, <1>5, SameRows DEF Dispatch
  <2>4. \/ events' = [events EXCEPT ![e] = ev] /\ UNCHANGED work
        \/ /\ events' = [events EXCEPT ![e] = [ev EXCEPT !.leased = TRUE, !.owner = w]]
           /\ \/ work' = [work EXCEPT ![w] = Fresh(t, "read")]
              \/ work' = [work EXCEPT ![w] = Fresh(t, "reread")]
        BY <1>5 DEF Dispatch
  <2> HIDE DEF e, ev, d
  <2>5. CASE events' = [events EXCEPT ![e] = ev] /\ UNCHANGED work
    <3>1. Writes(e, ev, d, fate[e], copies[e])
          BY <1>3, <2>3, <2>5 DEF Writes
    <3>2. QED BY <1>1, <1>2, <2>1, <2>2, <2>5, <3>1, WorldStep
  <2>6. ASSUME NEW pc \in {"read", "reread"}, work' = [work EXCEPT ![w] = Fresh(t, pc)],
               events' = [events EXCEPT ![e] = [ev EXCEPT !.leased = TRUE, !.owner = w]]
        PROVE  OutboxInv'
    <3> DEFINE new == [ev EXCEPT !.leased = TRUE, !.owner = w]
               x == Fresh(t, pc)
    <3>1. IsEvent(new) /\ new.leased /\ new.owner = w
      <4>1. IsEvent(ev)
            BY <2>1
      <4>2. QED BY <4>1, EventClaims
    <3>2. IsRun(x) /\ x.pc = pc /\ x.task = t
          BY <1>1, FreshRuns
    <3>3. x.task[1] = e
          BY <3>2 DEF e
    <3> HIDE DEF new, x
    <3>4. Errand(x, d, fate[e], copies[e])
          BY <3>2 DEF Errand
    <3>5. Writes(e, new, d, fate[e], copies[e])
          BY <1>3, <2>3, <2>6 DEF Writes, new
    <3>6. work' = [work EXCEPT ![w] = x]
          BY <2>6 DEF x
    <3>7. /\ work[w] = Idle /\ UNCHANGED overlapped /\ e \in Events
          /\ IsDelivery(d) /\ IsEvent(new)
          /\ x = Idle \/ (IsRun(x) /\ x.task[1] = e)
          BY <1>1, <1>2, <2>1, <3>1, <3>2, <3>3
    <3>8. e \notin overlapped =>
            /\ x # Idle => new.leased /\ new.owner = w /\ Errand(x, d, fate[e], copies[e])
            /\ Book(d, fate[e], copies[e])
            /\ \A v \in Workers \ {w} : work[v] # Idle => Event(v) # e
          BY <2>2, <3>1, <3>4
    <3>9. QED BY <3>5, <3>6, <3>7, <3>8, WorkerStep
  <2>7. QED BY <2>4, <2>5, <2>6
<1>6. QED BY <1>4, <1>5

-----------------------------------------------------------------------------
(* The invariant, and what follows from it.                                *)

LEMMA OutboxStarts == Init => OutboxInv
<1> SUFFICES ASSUME Init PROVE OutboxInv
    OBVIOUS
<1>1. \A e \in Events : IsEvent(events[e]) /\ IsDelivery(deliveries[e])
      BY DEF Init, NewEvent, NewDelivery, IsEvent, IsDelivery
<1>2. Shape
      BY <1>1 DEF Init, Shape
<1>3. Single /\ Errands
      BY DEF Init, Single, Errands
<1>4. Books
      BY DEF Init, Books, Book, Unsent, NewDelivery, MaybeSent
<1>5. QED BY <1>2, <1>3, <1>4 DEF OutboxInv

LEMMA OutboxSteps == OutboxInv /\ [Next]_vars => OutboxInv'
<1> SUFFICES ASSUME OutboxInv, [Next]_vars PROVE OutboxInv'
    OBVIOUS
<1>1. CASE \/ \E v \in Versions : Change(v)
           \/ Start
           \/ \E routes \in SUBSET Routes : Reroute(routes)
      BY <1>1, ChangesStep
<1>2. ASSUME NEW e \in Events,
             \/ Ingest(e) \/ Settle(e) \/ Expire(e) \/ Reconcile(e) \/ ReconcileUnrouted(e)
             \/ \E state \in {"delivered", "failed"} : Receipt(e, state)
      PROVE  OutboxInv'
      BY <1>2, IngestStep, SettleStep, ExpireStep, UnroutedStep, ReceiptStep
<1>3. ASSUME NEW w \in Workers,
             (\E t \in queue : Dispatch(w, t)) \/ Deliver(w) \/ Fail(w) \/ Crash(w)
      PROVE  OutboxInv'
      BY <1>3, DispatchStep, ReadStep, PrepareStep, RereadStep, IntentStep, SendStep,
         RecordStep, FinishStep, FailStep, CrashStep DEF Deliver
<1>4. CASE UNCHANGED vars
      BY <1>4, QuietStep DEF vars, rows, tasks, received, OutboxInv, Shape
<1>5. QED BY <1>1, <1>2, <1>3, <1>4 DEF Next

\* The ledger of an event is never behind its messages: while it allows another
\* attempt nothing has reached the customer and nothing is on its way, at every step
\* of every delivery that has not outlived its lease (the durable intent and the
\* recorded outcome of Deliver, service.go:443-505).
THEOREM OutboxInvariance == Spec => []OutboxInv
BY OutboxStarts, OutboxSteps, PTL DEF Spec

\* One event reaches the customer at most once, whatever routes, retries, crashes,
\* lost answers and fallbacks there are, unless the provider took back a receipt or a
\* delivery outlived its lease (altegio-notifications.md:81).
THEOREM OneCopyPerEvent == Spec => []OneCopy
<1>1. OutboxInv => OneCopy
      BY DEF OutboxInv, Books, Book, OneCopy
<1>2. QED BY <1>1, OutboxInvariance, PTL

-----------------------------------------------------------------------------
(* Notices are current, and failures are seen.  Both need to know when the *)
(* row of an event is decided: it is prepared once, by the delivery that   *)
(* holds it, and no delivery that was there before prepares it again       *)
(* (Knows).  What a delivery has read then stays true until the world      *)
(* changes under it (UpToDate).  A row that is done while a delivery of    *)
(* its event goes on was closed by a late success of WhatsApp, which is    *)
(* final (Closed).                                                         *)

Decided(ev) == ev.state \in {"prepared", "done"}

\* What worker v, in the run x, knows of the row ev of its event.
Knows(v, x, ev) ==
    /\ x.pc \in {"read", "prepare"} /\ ev.owner = v => ~Decided(ev)
    /\ x.pc \in {"reread", "intent", "send", "record"} => Decided(ev)
    /\ x.pc = "finish" /\ ~x.ledger => x.outcome \notin MaybeSent

\* The notice of ev describes the appointment, and what x has left is open.
UpToDate(x, ev) ==
    x.pc \in {"intent", "send", "record"} =>
        /\ calendar.version = ev.notice.version /\ ~calendar.gone
        /\ x.left \subseteq open /\ x.left # {}

Informed ==
    \A w \in Workers : work[w] # Idle =>
        /\ Knows(w, work[w], events[Event(w)])
        /\ w \notin disturbed => UpToDate(work[w], events[Event(w)])

\* Tasks and messages are about events that the webhook has brought.
Heard ==
    /\ \A e \in Events : events[e].state \in {"absent", "pending", "prepared", "done"}
    /\ \A t \in queue : events[t[1]].state # "absent"
    /\ \A e \in Events : fate[e] # "none" => events[e].state # "absent"

Closed ==
    \A e \in Events \ overlapped :
        /\ ~WhenDone(events[e], deliveries[e])
        /\ \A w \in Workers : work[w] # Idle /\ Event(w) = e /\ events[e].state = "done" =>
             deliveries[e].provider = "delivered"

NoticeInv == OutboxInv /\ open \subseteq Routes /\ Informed /\ Heard /\ Closed

-----------------------------------------------------------------------------
(* How a row goes on, in a step of worker w or of the world (Nobody).      *)

RowGoesOn(w, old, ev) ==
    /\ Decided(old) => Decided(ev) /\ ev.notice = old.notice
    /\ Decided(ev) /\ ~Decided(old) => old.owner = w
    /\ ev.owner \in {old.owner, w, Nobody}
    /\ ev.state \in {"absent", "pending", "prepared", "done"}
    /\ old.state # "absent" => ev.state # "absent"

LEMMA OthersStayInformed ==
    ASSUME Informed, Shape, NEW w, NEW e \in Events, NEW ev,
           events' = [events EXCEPT ![e] = ev], RowGoesOn(w, events[e], ev),
           UNCHANGED <<calendar, open>>,
           NEW v \in Workers, v # w, work'[v] = work[v], work[v] # Idle,
           v \in disturbed' <=> v \in disturbed
    PROVE  /\ Knows(v, work[v], events'[Event(v)])
           /\ v \notin disturbed' =>
                (work[v].pc \in {"intent", "send", "record"} =>
                   /\ calendar'.version = events'[Event(v)].notice.version /\ ~calendar'.gone
                   /\ work[v].left \subseteq open' /\ work[v].left # {})
<1>1. /\ Knows(v, work[v], events[Event(v)])
      /\ v \notin disturbed => UpToDate(work[v], events[Event(v)])
      BY DEF Informed
<1>2. Event(v) \in Events /\ v # Nobody
      BY AtWork, OutboxAssumption
<1>3. CASE Event(v) # e
  <2>1. events'[Event(v)] = events[Event(v)]
        BY <1>2, <1>3 DEF Shape
  <2>2. QED BY <1>1, <2>1 DEF UpToDate
<1>4. CASE Event(v) = e
  <2>1. events'[Event(v)] = ev
        BY <1>2, <1>4 DEF Shape
  <2>2. Knows(v, work[v], ev)
    <3>1. /\ Decided(ev) /\ ~Decided(events[e]) => events[e].owner = w
          /\ ev.owner \in {events[e].owner, w, Nobody}
          /\ Decided(events[e]) => Decided(ev)
          BY DEF RowGoesOn
    <3>2. ev.owner = v => events[e].owner = v
          BY <1>2, <3>1
    <3>3. QED BY <1>1, <1>4, <3>1, <3>2 DEF Knows
  <2>3. work[v].pc \in {"intent", "send", "record"} => ev.notice = events[e].notice
        BY <1>1, <1>4 DEF Knows, RowGoesOn
  <2>4. QED BY <1>1, <1>4, <2>1, <2>2, <2>3 DEF UpToDate
<1>5. QED BY <1>3, <1>4

\* A step writes the row and the ledger of one event, and moves worker w only.
NoticeWrites(w, e, ev, d) ==
    /\ events' = [events EXCEPT ![e] = ev] /\ RowGoesOn(w, events[e], ev)
    /\ deliveries' = [deliveries EXCEPT ![e] = d]
    /\ \A o \in Events \ {e} : fate'[o] = fate[o]
    /\ fate'[e] # "none" => ev.state # "absent"
    /\ \A t \in queue' \ queue : t[1] = e /\ ev.state # "absent"
    /\ UNCHANGED <<calendar, open>> /\ overlapped \subseteq overlapped'
    /\ \A v \in Workers : v # w =>
          work'[v] = work[v] /\ (v \in disturbed' <=> v \in disturbed)
    /\ w \in Workers /\ work'[w] # Idle =>
          /\ work'[w].task[1] = e /\ Knows(w, work'[w], ev)
          /\ w \notin disturbed' => UpToDate(work'[w], ev)
    /\ e \notin overlapped' =>
          /\ ~WhenDone(ev, d)
          /\ ev.state = "done" =>
               \/ d.provider = "delivered"
               \/ \A v \in Workers : work'[v] # Idle => work'[v].task[1] # e

LEMMA NoticeStep ==
    ASSUME NoticeInv, NEW w, NEW e \in Events, NEW ev, NEW d, NoticeWrites(w, e, ev, d)
    PROVE  (open \subseteq Routes /\ Informed /\ Heard /\ Closed)'
<1> USE DEF NoticeWrites
<1>1. Shape /\ Informed /\ Heard /\ Closed /\ open' \subseteq Routes
      BY DEF NoticeInv, OutboxInv
<1>2. /\ events'[e] = ev /\ deliveries'[e] = d
      /\ \A o \in Events \ {e} : events'[o] = events[o] /\ deliveries'[o] = deliveries[o]
      BY <1>1 DEF Shape
<1>3. ASSUME NEW v \in Workers, work'[v] # Idle
      PROVE  /\ Knows(v, work'[v], events'[work'[v].task[1]])
             /\ v \notin disturbed' =>
                  (work'[v].pc \in {"intent", "send", "record"} =>
                     /\ calendar'.version = events'[work'[v].task[1]].notice.version
                     /\ ~calendar'.gone
                     /\ work'[v].left \subseteq open' /\ work'[v].left # {})
  <2>1. CASE v = w
        BY <1>2, <1>3, <2>1 DEF UpToDate
  <2>2. CASE v # w
    <3>1. work'[v] = work[v] /\ work[v] # Idle /\ (v \in disturbed' <=> v \in disturbed)
          BY <1>3, <2>2
    <3>2. UNCHANGED <<calendar, open>>
          OBVIOUS
    <3>3. /\ Knows(v, work[v], events'[Event(v)])
          /\ v \notin disturbed' =>
               (work[v].pc \in {"intent", "send", "record"} =>
                  /\ calendar'.version = events'[Event(v)].notice.version /\ ~calendar'.gone
                  /\ work[v].left \subseteq open' /\ work[v].left # {})
          BY <1>1, <2>2, <3>1, <3>2, OthersStayInformed
    <3>4. QED BY <3>1, <3>3 DEF Event
  <2>3. QED BY <2>1, <2>2
<1>4. Informed'
      BY <1>3 DEF Informed, UpToDate, Event
<1>5. Heard'
  <2>1. ASSUME NEW t \in queue'
        PROVE  events'[t[1]].state # "absent"
    <3>1. CASE t \in queue
      <4>1. t[1] \in Events /\ events[t[1]].state # "absent"
            BY <1>1, <3>1 DEF Heard, Shape, Tasks
      <4>2. QED BY <1>2, <4>1 DEF RowGoesOn
    <3>2. CASE t \notin queue
          BY <1>2, <3>2
    <3>3. QED BY <3>1, <3>2
  <2>2. ASSUME NEW o \in Events, fate'[o] # "none"
        PROVE  events'[o].state # "absent"
        BY <1>1, <1>2, <2>2 DEF Heard
  <2>3. \A o \in Events : events'[o].state \in {"absent", "pending", "prepared", "done"}
        BY <1>1, <1>2 DEF Heard, RowGoesOn
  <2>4. QED BY <2>1, <2>2, <2>3 DEF Heard
<1>6. Closed'
  <2>1. ASSUME NEW o \in Events, o \notin overlapped'
        PROVE  /\ ~WhenDone(events'[o], deliveries'[o])
               /\ \A v \in Workers : work'[v] # Idle /\ work'[v].task[1] = o
                                     /\ events'[o].state = "done" =>
                    deliveries'[o].provider = "delivered"
    <3>1. CASE o = e
          BY <1>2, <2>1, <3>1
    <3>2. CASE o # e
      <4>1. o \notin overlapped
            BY <2>1
      <4>2. ~WhenDone(events[o], deliveries[o])
            BY <1>1, <4>1 DEF Closed
      <4>3. ASSUME NEW v \in Workers, work'[v] # Idle, work'[v].task[1] = o,
                   events[o].state = "done"
            PROVE  deliveries[o].provider = "delivered"
        <5>1. v # w
              BY <3>2, <4>3
        <5>2. work'[v] = work[v]
              BY <5>1
        <5>3. work[v] # Idle /\ Event(v) = o
              BY <4>3, <5>2 DEF Event
        <5>4. QED BY <1>1, <4>1, <4>3, <5>3 DEF Closed
      <4>4. QED BY <1>2, <3>2, <4>2, <4>3
    <3>3. QED BY <3>1, <3>2
  <2>2. QED BY <2>1 DEF Closed, Event
<1>7. QED BY <1>1, <1>4, <1>5, <1>6

LEMMA SameGoesOn ==
    ASSUME NoticeInv, NEW w, NEW e \in Events
    PROVE  RowGoesOn(w, events[e], events[e])
BY DEF RowGoesOn, NoticeInv, Heard

\* The rows stay as they are, and so does every worker.
LEMMA NoticeStays ==
    ASSUME NoticeInv, UNCHANGED <<calendar, open, events, deliveries, work, disturbed, overlapped>>,
           NEW e \in Events, \A o \in Events \ {e} : fate'[o] = fate[o],
           fate'[e] # "none" => events[e].state # "absent",
           \A t \in queue' \ queue : t[1] = e /\ events[e].state # "absent"
    PROVE  (open \subseteq Routes /\ Informed /\ Heard /\ Closed)'
<1>1. Heard'
  <2>1. \A t \in queue' : events'[t[1]].state # "absent"
        BY DEF NoticeInv, Heard
  <2>2. \A o \in Events : fate'[o] # "none" => events'[o].state # "absent"
        BY DEF NoticeInv, Heard
  <2>3. QED BY <2>1, <2>2 DEF NoticeInv, Heard
<1>2. Informed' /\ (open \subseteq Routes)'
      BY DEF NoticeInv, Informed, UpToDate, Event
<1>3. Closed'
      BY DEF NoticeInv, Closed, Event
<1>4. QED BY <1>1, <1>2, <1>3

\* What is known of the row of an event that a worker is at.
LEMMA NoticeKnown ==
    ASSUME NoticeInv, NEW w \in Workers, work[w] # Idle
    PROVE  LET e == Event(w) IN
           /\ e \in Events /\ IsRun(work[w]) /\ Shape
           /\ IsEvent(events[e]) /\ IsDelivery(deliveries[e])
           /\ Knows(w, work[w], events[e])
           /\ w \notin disturbed => UpToDate(work[w], events[e])
           /\ events[e].state \in {"absent", "pending", "prepared", "done"}
           /\ e \notin overlapped =>
                /\ events[e].owner = w
                /\ ~WhenDone(events[e], deliveries[e])
                /\ events[e].state = "done" => deliveries[e].provider = "delivered"
                /\ \A v \in Workers \ {w} : work[v] # Idle => Event(v) # e
<1>1. OutboxInv /\ Informed /\ Heard /\ Closed
      BY DEF NoticeInv
<1>2. /\ Event(w) \in Events /\ IsRun(work[w]) /\ Shape
      /\ IsEvent(events[Event(w)]) /\ IsDelivery(deliveries[Event(w)])
      /\ Event(w) \notin overlapped =>
           /\ events[Event(w)].owner = w
           /\ \A v \in Workers \ {w} : work[v] # Idle => Event(v) # Event(w)
      BY <1>1, WhatIsKnown
<1>3. /\ Knows(w, work[w], events[Event(w)])
      /\ w \notin disturbed => UpToDate(work[w], events[Event(w)])
      BY <1>1 DEF Informed
<1>4. Event(w) \notin overlapped =>
        /\ ~WhenDone(events[Event(w)], deliveries[Event(w)])
        /\ events[Event(w)].state = "done" => deliveries[Event(w)].provider = "delivered"
      BY <1>1, <1>2 DEF Closed
<1>5. events[Event(w)].state \in {"absent", "pending", "prepared", "done"}
      BY <1>1, <1>2 DEF Heard
<1>6. QED BY <1>2, <1>3, <1>4, <1>5

\* A worker moves on, or stops; it may write to the ledger, but no receipt.
LEMMA NoticeMoves ==
    ASSUME NoticeInv, NEW w \in Workers, work[w] # Idle, NEW x,
           work' = [work EXCEPT ![w] = x],
           UNCHANGED <<calendar, open, events, overlapped>>, queue' \subseteq queue,
           NEW d, deliveries' = [deliveries EXCEPT ![Event(w)] = d],
           d.provider = deliveries[Event(w)].provider,
           d = deliveries[Event(w)] \/ x # Idle,
           \A o \in Events \ {Event(w)} : fate'[o] = fate[o],
           fate'[Event(w)] # "none" => events[Event(w)].state # "absent",
           disturbed' \in {disturbed, disturbed \ {w}},
           x # Idle =>
              /\ x.task = work[w].task /\ Knows(w, x, events[Event(w)])
              /\ w \notin disturbed' => UpToDate(x, events[Event(w)])
    PROVE  (open \subseteq Routes /\ Informed /\ Heard /\ Closed)'
<1> DEFINE e == Event(w)
<1>1. /\ e \in Events /\ Shape
      /\ e \notin overlapped =>
           /\ ~WhenDone(events[e], deliveries[e])
           /\ events[e].state = "done" => deliveries[e].provider = "delivered"
      BY NoticeKnown
<1>2. events' = [events EXCEPT ![e] = events[e]]
      BY <1>1, SameRows
<1>3. RowGoesOn(w, events[e], events[e])
      BY <1>1, SameGoesOn
<1>4. e \notin overlapped' =>
        /\ ~WhenDone(events[e], d)
        /\ events[e].state = "done" =>
             \/ d.provider = "delivered"
             \/ \A v \in Workers : work'[v] # Idle => work'[v].task[1] # e
      BY <1>1 DEF WhenDone, Failed
<1>5. work'[w] = x /\ \A v \in Workers : v # w => work'[v] = work[v]
      BY <1>1 DEF Shape
<1>6. \A v \in Workers : v # w =>
        work'[v] = work[v] /\ (v \in disturbed' <=> v \in disturbed)
      BY <1>5
<1>7. w \in Workers /\ work'[w] # Idle =>
        /\ work'[w].task[1] = e /\ Knows(w, work'[w], events[e])
        /\ w \notin disturbed' => UpToDate(work'[w], events[e])
      BY <1>5 DEF Event
<1>8. /\ deliveries' = [deliveries EXCEPT ![e] = d]
      /\ \A o \in Events \ {e} : fate'[o] = fate[o]
      /\ fate'[e] # "none" => events[e].state # "absent"
      /\ UNCHANGED <<calendar, open>> /\ overlapped \subseteq overlapped'
      OBVIOUS
<1>9. \A t \in queue' \ queue : t[1] = e /\ events[e].state # "absent"
      OBVIOUS
<1> HIDE DEF e
<1>10. NoticeWrites(w, e, events[e], d)
       BY <1>2, <1>3, <1>4, <1>6, <1>7, <1>8, <1>9 DEF NoticeWrites
<1>11. QED BY <1>1, <1>10, NoticeStep

-----------------------------------------------------------------------------
(* The steps of the world.                                                 *)

LEMMA ChangesKeepNotices ==
    ASSUME NoticeInv,
           \/ \E v \in Versions : Change(v)
           \/ Start
           \/ \E routes \in SUBSET Routes : Reroute(routes)
    PROVE  (open \subseteq Routes /\ Informed /\ Heard /\ Closed)'
<1>1. /\ UNCHANGED <<events, deliveries, queue, work, fate, overlapped>>
      /\ disturbed' = disturbed \cup {w \in Workers : work[w].pc \in {"intent", "send", "record"}}
      BY DEF Change, Start, Reroute, rows, tasks, received, Disturb
<1>2. (open \subseteq Routes)'
      BY DEF NoticeInv, Change, Start, Reroute
<1>3. Heard' /\ Closed'
      BY <1>1 DEF NoticeInv, Heard, Closed, Event
<1>4. ASSUME NEW w \in Workers, work[w] # Idle
      PROVE  /\ Knows(w, work[w], events[Event(w)])
             /\ w \notin disturbed' => work[w].pc \notin {"intent", "send", "record"}
      BY <1>1, <1>4 DEF NoticeInv, Informed
<1>5. Informed'
      BY <1>1, <1>4 DEF Informed, UpToDate, Event
<1>6. QED BY <1>2, <1>3, <1>5

LEMMA SettleKeepsNotices ==
    ASSUME NoticeInv, NEW e \in Events, Settle(e) \/ Reconcile(e)
    PROVE  (open \subseteq Routes /\ Informed /\ Heard /\ Closed)'
<1>1. UNCHANGED <<calendar, open, events, deliveries, work, disturbed, overlapped>>
      BY DEF Settle, Reconcile, rows, world
<1>2. Shape /\ Heard
      BY DEF NoticeInv, OutboxInv
<1>3. CASE Settle(e)
  <2>1. fate[e] = "accepted" /\ UNCHANGED queue
        BY <1>3 DEF Settle, tasks
  <2>2. \A o \in Events \ {e} : fate'[o] = fate[o]
        BY <1>2, <1>3 DEF Settle, Shape
  <2>3. QED BY <1>1, <1>2, <2>1, <2>2, NoticeStays DEF Heard
<1>4. CASE Reconcile(e)
  <2>1. events[e].state # "absent" /\ UNCHANGED fate
        BY <1>4 DEF Reconcile, received
  <2>2. \A t \in queue' \ queue : t[1] = e
        BY <1>4 DEF Reconcile, ScheduleRecovery
  <2>3. QED BY <1>1, <2>1, <2>2, NoticeStays
<1>5. QED BY <1>3, <1>4

\* A step of the world writes the row and the ledger of one event.
LEMMA NoticeWorld ==
    ASSUME NoticeInv, NEW e \in Events, NEW ev, NEW d,
           events' = [events EXCEPT ![e] = ev], RowGoesOn(Nobody, events[e], ev),
           deliveries' = [deliveries EXCEPT ![e] = d],
           \A o \in Events \ {e} : fate'[o] = fate[o],
           fate'[e] # "none" => ev.state # "absent",
           \A t \in queue' \ queue : t[1] = e /\ ev.state # "absent",
           calendar' = calendar, open' = open, work' = work, disturbed' = disturbed,
           overlapped \subseteq overlapped',
           e \notin overlapped' =>
              /\ ~WhenDone(ev, d)
              /\ ev.state = "done" =>
                   \/ d.provider = "delivered"
                   \/ \A v \in Workers : work[v] # Idle => Event(v) # e
    PROVE  (open \subseteq Routes /\ Informed /\ Heard /\ Closed)'
<1>1. \A v \in Workers : v # Nobody =>
        work'[v] = work[v] /\ (v \in disturbed' <=> v \in disturbed)
      OBVIOUS
<1>2. Nobody \in Workers /\ work'[Nobody] # Idle =>
        /\ work'[Nobody].task[1] = e /\ Knows(Nobody, work'[Nobody], ev)
        /\ Nobody \notin disturbed' => UpToDate(work'[Nobody], ev)
      BY OutboxAssumption
<1>3. e \notin overlapped' =>
        /\ ~WhenDone(ev, d)
        /\ ev.state = "done" =>
             \/ d.provider = "delivered"
             \/ \A v \in Workers : work'[v] # Idle => work'[v].task[1] # e
      BY DEF Event
<1>4. UNCHANGED <<calendar, open>>
      OBVIOUS
<1>5. NoticeWrites(Nobody, e, ev, d)
      BY <1>1, <1>2, <1>3, <1>4 DEF NoticeWrites
<1>6. QED BY <1>5, NoticeStep

LEMMA EventOutcomes ==
    ASSUME NEW ev, IsEvent(ev), NEW a, NEW b
    PROVE  [ev EXCEPT !.state = a, !.outcome = b]
             = [state |-> a, notice |-> ev.notice, owner |-> ev.owner,
                leased |-> ev.leased, outcome |-> b]
<1> DEFINE first == [ev EXCEPT !.state = a]
<1>1. first = [state |-> a, notice |-> ev.notice, owner |-> ev.owner,
              leased |-> ev.leased, outcome |-> ev.outcome]
      BY DEF IsEvent
<1>2. [ev EXCEPT !.state = a, !.outcome = b] = [first EXCEPT !.outcome = b]
      OBVIOUS
<1> HIDE DEF first
<1>3. [first EXCEPT !.outcome = b]
        = [state |-> a, notice |-> ev.notice, owner |-> ev.owner,
           leased |-> ev.leased, outcome |-> b]
      BY <1>1
<1>4. QED BY <1>2, <1>3

LEMMA EventHolders ==
    ASSUME NEW ev, IsEvent(ev), NEW a, NEW b
    PROVE  [ev EXCEPT !.leased = a, !.owner = b]
             = [state |-> ev.state, notice |-> ev.notice, owner |-> b,
                leased |-> a, outcome |-> ev.outcome]
<1> DEFINE first == [ev EXCEPT !.leased = a]
<1>1. first = [state |-> ev.state, notice |-> ev.notice, owner |-> ev.owner,
              leased |-> a, outcome |-> ev.outcome]
      BY DEF IsEvent
<1>2. [ev EXCEPT !.leased = a, !.owner = b] = [first EXCEPT !.owner = b]
      OBVIOUS
<1> HIDE DEF first
<1>3. [first EXCEPT !.owner = b]
        = [state |-> ev.state, notice |-> ev.notice, owner |-> b,
           leased |-> a, outcome |-> ev.outcome]
      BY <1>1
<1>4. QED BY <1>2, <1>3

LEMMA IngestKeepsNotices ==
    ASSUME NoticeInv, NEW e \in Events, Ingest(e)
    PROVE  (open \subseteq Routes /\ Informed /\ Heard /\ Closed)'
<1> DEFINE old == events[e]
           ev == IF old.state = "absent" THEN [old EXCEPT !.state = "pending"] ELSE old
           d == deliveries[e]
<1>1. /\ Shape /\ IsEvent(old) /\ Heard /\ Closed
      /\ old.state \in {"absent", "pending", "prepared", "done"}
      BY RowShapes DEF NoticeInv, OutboxInv, Heard
<1>2. /\ UNCHANGED <<deliveries, fate, work, overlapped>>
      /\ calendar' = calendar /\ open' = open /\ disturbed' = disturbed
      BY DEF Ingest, received, world
<1>3. events' = [events EXCEPT ![e] = ev] /\ deliveries' = [deliveries EXCEPT ![e] = d]
      BY <1>1, <1>2, SameRows DEF Ingest
<1>4. \A t \in queue' \ queue : t[1] = e
      BY DEF Ingest, Schedule, tasks
<1>5. /\ e \notin overlapped => ~WhenDone(old, d)
      /\ e \notin overlapped /\ old.state = "done" =>
           \/ d.provider = "delivered"
           \/ \A v \in Workers : work[v] # Idle => Event(v) # e
      BY <1>1 DEF Closed
<1> HIDE DEF old, d
<1>6. /\ old.state = "absent" => ev.state = "pending" /\ ev.notice = old.notice
                                 /\ ev.owner = old.owner
      /\ old.state # "absent" => ev = old
      BY <1>1 DEF IsEvent
<1> HIDE DEF ev
<1>7. /\ RowGoesOn(Nobody, old, ev) /\ ev.state # "absent"
      /\ ev.state = "done" => ev = old
      BY <1>1, <1>6 DEF RowGoesOn, Decided
<1>8. e \notin overlapped' =>
        /\ ~WhenDone(ev, d)
        /\ ev.state = "done" =>
             \/ d.provider = "delivered"
             \/ \A v \in Workers : work[v] # Idle => Event(v) # e
      BY <1>2, <1>5, <1>7 DEF WhenDone
<1>9. RowGoesOn(Nobody, events[e], ev)
      BY <1>7 DEF old
<1>10. work' = work /\ overlapped \subseteq overlapped'
       /\ \A o \in Events \ {e} : fate'[o] = fate[o]
       BY <1>2
<1>11. \A t \in queue' \ queue : t[1] = e /\ ev.state # "absent"
       BY <1>4, <1>7
<1>12. QED BY <1>2, <1>3, <1>7, <1>8, <1>9, <1>10, <1>11, NoticeWorld

LEMMA UnroutedKeepsNotices ==
    ASSUME NoticeInv, NEW e \in Events, ReconcileUnrouted(e)
    PROVE  (open \subseteq Routes /\ Informed /\ Heard /\ Closed)'
<1> DEFINE old == events[e]
           ev == [old EXCEPT !.state = "prepared", !.outcome = <<"none">>]
           d == deliveries[e]
<1>1. Shape /\ IsEvent(old) /\ old.state = "done"
      BY RowShapes DEF NoticeInv, OutboxInv, ReconcileUnrouted
<1>2. /\ UNCHANGED <<deliveries, fate, work, overlapped>>
      /\ calendar' = calendar /\ open' = open /\ disturbed' = disturbed
      /\ events' = [events EXCEPT ![e] = ev]
      BY DEF ReconcileUnrouted, received, world
<1>3. deliveries' = [deliveries EXCEPT ![e] = d]
      BY <1>1, <1>2, SameRows
<1>4. \A t \in queue' \ queue : t[1] = e
      BY DEF ReconcileUnrouted, ScheduleRecovery
<1> HIDE DEF old, d
<1>5. ev = [state |-> "prepared", notice |-> old.notice, owner |-> old.owner,
            leased |-> old.leased, outcome |-> <<"none">>]
      BY <1>1, EventOutcomes
<1> HIDE DEF ev
<1>6. RowGoesOn(Nobody, old, ev) /\ ev.state = "prepared"
      BY <1>1, <1>5 DEF RowGoesOn, Decided
<1>7. ~WhenDone(ev, d) /\ ev.state # "done" /\ ev.state # "absent"
      BY <1>6 DEF WhenDone
<1>8. RowGoesOn(Nobody, events[e], ev)
      BY <1>6 DEF old
<1>9. work' = work /\ overlapped \subseteq overlapped'
       /\ \A o \in Events \ {e} : fate'[o] = fate[o]
      BY <1>2
<1>10. \A t \in queue' \ queue : t[1] = e /\ ev.state # "absent"
       BY <1>4, <1>7
<1>11. QED BY <1>2, <1>3, <1>7, <1>8, <1>9, <1>10, NoticeWorld

LEMMA ExpireKeepsNotices ==
    ASSUME NoticeInv, NEW e \in Events, Expire(e)
    PROVE  (open \subseteq Routes /\ Informed /\ Heard /\ Closed)'
<1> DEFINE old == events[e]
           next == IF Working(e) = {} THEN Nobody ELSE old.owner
           ev == [old EXCEPT !.leased = FALSE, !.owner = next]
           d == deliveries[e]
<1>1. /\ Shape /\ IsEvent(old) /\ Heard /\ Closed
      /\ old.state \in {"absent", "pending", "prepared", "done"}
      BY RowShapes DEF NoticeInv, OutboxInv, Heard
<1>2. /\ UNCHANGED <<deliveries, fate, work, queue>> /\ overlapped \subseteq overlapped'
      /\ calendar' = calendar /\ open' = open /\ disturbed' = disturbed
      /\ events' = [events EXCEPT ![e] = ev]
      BY DEF Expire, received, world, tasks
<1>3. deliveries' = [deliveries EXCEPT ![e] = d]
      BY <1>1, <1>2, SameRows
<1>4. /\ e \notin overlapped' => ~WhenDone(old, d)
      /\ e \notin overlapped' /\ old.state = "done" =>
           \/ d.provider = "delivered"
           \/ \A v \in Workers : work[v] # Idle => Event(v) # e
      BY <1>1, <1>2 DEF Closed
<1>5. fate[e] # "none" => old.state # "absent"
      BY <1>1 DEF Heard
<1> HIDE DEF old, d
<1>6. next \in {old.owner, Nobody}
      OBVIOUS
<1> HIDE DEF next
<1>7. ev = [state |-> old.state, notice |-> old.notice, owner |-> next,
            leased |-> FALSE, outcome |-> old.outcome]
      BY <1>1, EventHolders
<1> HIDE DEF ev
<1>8. /\ RowGoesOn(Nobody, old, ev) /\ ev.state = old.state /\ ev.outcome = old.outcome
      BY <1>1, <1>6, <1>7 DEF RowGoesOn, Decided
<1>9. /\ e \notin overlapped' =>
           /\ ~WhenDone(ev, d)
           /\ ev.state = "done" =>
                \/ d.provider = "delivered"
                \/ \A v \in Workers : work[v] # Idle => Event(v) # e
      /\ fate'[e] # "none" => ev.state # "absent"
      BY <1>2, <1>4, <1>5, <1>8 DEF WhenDone
<1>10. RowGoesOn(Nobody, events[e], ev)
      BY <1>8 DEF old
<1>11. work' = work /\ \A o \in Events \ {e} : fate'[o] = fate[o]
       BY <1>2
<1>12. \A t \in queue' \ queue : t[1] = e /\ ev.state # "absent"
       BY <1>2
<1>13. QED BY <1>2, <1>3, <1>9, <1>10, <1>11, <1>12, NoticeWorld

LEMMA ReceiptKeepsNotices ==
    ASSUME NoticeInv, NEW e \in Events, NEW state \in {"delivered", "failed"},
           Receipt(e, state)
    PROVE  (open \subseteq Routes /\ Informed /\ Heard /\ Closed)'
<1> DEFINE old == events[e]
           d   == deliveries[e]
           got == [d EXCEPT !.provider = state]
           late == state = "delivered" /\ d.state = "retryable_rejection"
                   /\ d.outcome = <<"rejected", "whatsapp">>
           sent == <<"accepted", "whatsapp">>
           ended == [old EXCEPT !.state = "done", !.outcome = sent]
           told == [got EXCEPT !.state = "done", !.outcome = sent]
           ev == IF state = "failed" THEN ReopenedEvent(old, got)
                 ELSE IF late /\ old.state = "prepared" THEN ended
                 ELSE old
           new == IF state = "failed" THEN ReopenedDelivery(old, got)
                  ELSE IF late THEN told
                  ELSE got
<1>1. /\ Shape /\ IsEvent(old) /\ IsDelivery(d) /\ Heard /\ Closed
      /\ old.state \in {"absent", "pending", "prepared", "done"}
      BY RowShapes DEF NoticeInv, OutboxInv, Heard
<1>2. /\ fate[e] # "none" /\ d.provider # "delivered"
      /\ UNCHANGED <<work, overlapped>>
      /\ calendar' = calendar /\ open' = open /\ disturbed' = disturbed
      BY DEF Receipt, world
<1>3. /\ events' = [events EXCEPT ![e] = ev] /\ deliveries' = [deliveries EXCEPT ![e] = new]
      /\ fate' \in {fate, [fate EXCEPT ![e] = "disputed"]}
      BY DEF Receipt
<1>4. \A o \in Events \ {e} : fate'[o] = fate[o]
      BY <1>1, <1>3 DEF Shape
<1>5. \A t \in queue' \ queue : t[1] = e
      BY DEF Receipt, Schedule, tasks
<1>6. old.state # "absent"
      BY <1>1, <1>2 DEF Heard
<1>7. e \notin overlapped /\ old.state = "done" =>
        \A v \in Workers : work[v] # Idle => Event(v) # e
      BY <1>1, <1>2 DEF Closed
<1> HIDE DEF old, d, late, sent
<1>8. IsDelivery(got) /\ got.provider = state /\ got.outcome = d.outcome
      BY <1>1, LedgerReceipts
<1>9. ended = [state |-> "done", notice |-> old.notice, owner |-> old.owner,
               leased |-> old.leased, outcome |-> sent]
      BY <1>1, EventOutcomes
<1>10. told = [state |-> "done", outcome |-> sent,
               attempted |-> got.attempted, provider |-> got.provider]
      BY <1>8, LedgerResults
<1> HIDE DEF ended, told
<1> HIDE DEF got
<1>11. LET r == ReopenedEvent(old, got) IN
       /\ r.owner = old.owner /\ r.notice = old.notice
       /\ IF Reopens(old, got) THEN r.state = "prepared" ELSE r = old
       BY <1>1, ReopeningEvents
<1>12. CASE state = "failed"
  <2>1. ev = ReopenedEvent(old, got) /\ new = ReopenedDelivery(old, got)
        BY <1>12
  <2> HIDE DEF ev, new
  <2>2. CASE Reopens(old, got)
    <3>1. ev.state = "prepared" /\ ev.owner = old.owner /\ ev.notice = old.notice
          BY <1>11, <2>1, <2>2
    <3>2. Decided(old)
          BY <2>2 DEF Reopens, Decided
    <3>3. RowGoesOn(Nobody, old, ev) /\ ev.state # "absent" /\ ev.state # "done"
          BY <3>1, <3>2 DEF RowGoesOn, Decided
    <3>4. ~WhenDone(ev, new)
          BY <3>1 DEF WhenDone
    <3>5. RowGoesOn(Nobody, events[e], ev)
          BY <3>3 DEF old
    <3>6. work' = work /\ overlapped \subseteq overlapped'
          BY <1>2
    <3>7. \A t \in queue' \ queue : t[1] = e /\ ev.state # "absent"
          BY <1>5, <3>3
    <3>8. QED BY <1>2, <1>3, <1>4, <3>3, <3>4, <3>5, <3>6, <3>7, NoticeWorld
  <2>3. CASE ~Reopens(old, got)
    <3>1. ev = old /\ new = got
          BY <1>11, <2>1, <2>3 DEF ReopenedDelivery
    <3>2. ~WhenDone(old, got)
          BY <2>3 DEF Reopens, WhenDone
    <3>3. RowGoesOn(Nobody, events[e], ev)
          BY <3>1, SameGoesOn DEF old
    <3>4. e \notin overlapped' =>
            /\ ~WhenDone(ev, new)
            /\ ev.state = "done" =>
                 \/ new.provider = "delivered"
                 \/ \A v \in Workers : work[v] # Idle => Event(v) # e
          BY <1>2, <1>7, <3>1, <3>2
    <3>5. work' = work /\ overlapped \subseteq overlapped'
          BY <1>2
    <3>6. ev.state # "absent" /\ \A t \in queue' \ queue : t[1] = e /\ ev.state # "absent"
          BY <1>5, <1>6, <3>1
    <3>7. QED BY <1>2, <1>3, <1>4, <3>3, <3>4, <3>5, <3>6, NoticeWorld
  <2>4. QED BY <2>2, <2>3
<1>13. CASE state = "delivered"
  <2>1. ev \in {ended, old} /\ (ev = ended => old.state = "prepared" \/ ended = old)
        /\ new \in {told, got}
        BY <1>13
  <2> HIDE DEF ev, new
  <2>2. new.provider = "delivered"
        BY <1>8, <1>10, <1>13, <2>1
  <2>3. ~WhenDone(ev, new)
        BY <2>2 DEF WhenDone, Failed
  <2>4. RowGoesOn(Nobody, old, ev) /\ ev.state # "absent"
    <3>1. CASE ev = old
          BY <1>6, <3>1, SameGoesOn DEF old
    <3>2. CASE ev = ended /\ old.state = "prepared"
          BY <1>9, <3>2 DEF RowGoesOn, Decided
    <3>3. QED BY <2>1, <3>1, <3>2
  <2>5. RowGoesOn(Nobody, events[e], ev)
        BY <2>4 DEF old
  <2>6. work' = work /\ overlapped \subseteq overlapped'
        BY <1>2
  <2>7. \A t \in queue' \ queue : t[1] = e /\ ev.state # "absent"
        BY <1>5, <2>4
  <2>8. QED BY <1>2, <1>3, <1>4, <2>2, <2>3, <2>4, <2>5, <2>6, <2>7, NoticeWorld
<1>14. QED BY <1>12, <1>13

-----------------------------------------------------------------------------
(* The steps of a delivery.                                                *)

LEMMA DispatchKeepsNotices ==
    ASSUME NoticeInv, NEW w \in Workers, NEW t \in queue, Dispatch(w, t)
    PROVE  (open \subseteq Routes /\ Informed /\ Heard /\ Closed)'
<1> DEFINE e == t[1]
           old == events[e]
           ev == ReopenedEvent(old, deliveries[e])
           d == ReopenedDelivery(old, deliveries[e])
           x(pc) == Fresh(t, pc)
<1>1. /\ t \in Tasks /\ e \in Events /\ Shape /\ Heard /\ Closed /\ Nobody # w
      BY OutboxAssumption DEF NoticeInv, OutboxInv, Shape, Tasks
<1>2. /\ work[w] = Idle
      /\ calendar' = calendar /\ open' = open /\ disturbed' = disturbed
      /\ fate' = fate /\ overlapped' = overlapped /\ queue' \subseteq queue
      BY DEF Dispatch, received, world
<1>3. /\ old.state \in {"pending", "prepared", "done"} /\ IsEvent(old)
      BY <1>1, RowShapes DEF Heard
<1>4. CASE events[e].leased
  <2>1. UNCHANGED <<calendar, open, events, deliveries, work, disturbed, overlapped>>
        BY <1>2, <1>4 DEF Dispatch
  <2>2. fate'[e] # "none" => events[e].state # "absent"
        BY <1>3
  <2>3. QED BY <1>1, <1>2, <2>1, <2>2, NoticeStays
<1>5. CASE ~events[e].leased
  <2>1. /\ deliveries' = [deliveries EXCEPT ![e] = d]
        /\ \/ ev.state = "done" /\ events' = [events EXCEPT ![e] = ev] /\ work' = work
           \/ /\ ev.state # "done"
              /\ events' = [events EXCEPT ![e] = [ev EXCEPT !.leased = TRUE, !.owner = w]]
              /\ work' = [work EXCEPT ![w] =
                            x(IF ev.state = "pending" THEN "read" ELSE "reread")]
        BY <1>5 DEF Dispatch
  <2>2. e \notin overlapped /\ old.state = "done" =>
          \/ deliveries[e].provider = "delivered"
          \/ \A v \in Workers : work[v] # Idle => Event(v) # e
        BY <1>1 DEF Closed
  <2>3. e \notin overlapped => ~WhenDone(old, deliveries[e])
        BY <1>1 DEF Closed
  <2>4. /\ IsEvent(ev) /\ ev.owner = old.owner /\ ev.notice = old.notice
        /\ IF Reopens(old, deliveries[e]) THEN ev.state = "prepared" ELSE ev = old
        BY <1>3, ReopeningEvents
  <2>5. Reopens(old, deliveries[e]) => Decided(old)
        BY DEF Reopens, Decided
  <2>6. ~Reopens(old, deliveries[e]) => d = deliveries[e]
        BY DEF ReopenedDelivery
  <2>7. ev.state \in {"pending", "prepared", "done"}
        BY <1>3, <2>4
  <2>8. \A o \in Events \ {e} : fate'[o] = fate[o]
        BY <1>2
  <2> HIDE DEF e, old, ev, d, x
  <2>9. CASE ev.state = "done" /\ events' = [events EXCEPT ![e] = ev] /\ work' = work
    <3>1. ev = old /\ d = deliveries[e]
          BY <2>4, <2>6, <2>9
    <3>2. RowGoesOn(Nobody, events[e], ev)
          BY <1>1, <3>1, SameGoesOn DEF old
    <3>3. e \notin overlapped' =>
            /\ ~WhenDone(ev, d)
            /\ ev.state = "done" =>
                 \/ d.provider = "delivered"
                 \/ \A v \in Workers : work[v] # Idle => Event(v) # e
          BY <1>2, <2>2, <2>3, <3>1
    <3>4. overlapped \subseteq overlapped'
          BY <1>2
    <3>5. ev.state # "absent" /\ \A s \in queue' \ queue : s[1] = e /\ ev.state # "absent"
          BY <1>2, <2>7
    <3>6. QED BY <1>1, <1>2, <2>1, <2>8, <2>9, <3>2, <3>3, <3>4, <3>5, NoticeWorld
  <2>10. CASE /\ ev.state # "done"
              /\ events' = [events EXCEPT ![e] = [ev EXCEPT !.leased = TRUE, !.owner = w]]
              /\ work' = [work EXCEPT ![w] =
                            x(IF ev.state = "pending" THEN "read" ELSE "reread")]
    <3> DEFINE row == [ev EXCEPT !.leased = TRUE, !.owner = w]
               pc == IF ev.state = "pending" THEN "read" ELSE "reread"
    <3>1. row = [state |-> ev.state, notice |-> ev.notice, owner |-> w,
                 leased |-> TRUE, outcome |-> ev.outcome]
          BY <2>4, EventHolders
    <3>2. events' = [events EXCEPT ![e] = row]
          BY <2>10
    <3> HIDE DEF row
    <3>3. RowGoesOn(w, old, row)
          BY <2>4, <2>5, <2>7, <3>1 DEF RowGoesOn, Decided
    <3>4. RowGoesOn(w, events[e], row)
          BY <3>3 DEF old
    <3>5. /\ IsRun(x(pc)) /\ x(pc).pc = pc /\ x(pc).task[1] = e
          BY <1>1, FreshRuns DEF x, e
    <3>6. /\ work'[w] = x(pc) /\ \A v \in Workers : v # w => work'[v] = work[v]
          BY <1>1, <2>10 DEF Shape
    <3>7. row.state = ev.state /\ (row.state = "pending" \/ Decided(row))
          BY <2>7, <2>10, <3>1 DEF Decided
    <3>8. Knows(w, x(pc), row) /\ UpToDate(x(pc), row)
          BY <3>5, <3>7 DEF Knows, UpToDate, Decided
    <3>9. w \in Workers /\ work'[w] # Idle =>
            /\ work'[w].task[1] = e /\ Knows(w, work'[w], row)
            /\ w \notin disturbed' => UpToDate(work'[w], row)
          BY <3>5, <3>6, <3>8
    <3>10. \A v \in Workers : v # w =>
             work'[v] = work[v] /\ (v \in disturbed' <=> v \in disturbed)
          BY <1>2, <3>6
    <3>11. e \notin overlapped' =>
             /\ ~WhenDone(row, d)
             /\ row.state = "done" =>
                  \/ d.provider = "delivered"
                  \/ \A v \in Workers : work'[v] # Idle => work'[v].task[1] # e
          BY <2>10, <3>7 DEF WhenDone
    <3>12. overlapped \subseteq overlapped' /\ UNCHANGED <<calendar, open>>
          BY <1>2
    <3>13. row.state # "absent" /\ \A s \in queue' \ queue : s[1] = e /\ row.state # "absent"
          BY <1>2, <2>7, <3>7
    <3>14. e \in Events /\ deliveries' = [deliveries EXCEPT ![e] = d]
           BY <1>1, <2>1 DEF e
    <3> HIDE DEF pc
    <3>15. NoticeWrites(w, e, row, d)
           BY <2>8, <3>2, <3>4, <3>9, <3>10, <3>11, <3>12, <3>13, <3>14 DEF NoticeWrites
    <3>16. QED BY <3>14, <3>15, NoticeStep
  <2>11. QED BY <2>1, <2>9, <2>10
<1>6. QED BY <1>4, <1>5

\* A worker stops, and what it has written closes its event or leaves it open.
LEMMA NoticeEnds ==
    ASSUME NoticeInv, NEW w \in Workers, work[w] # Idle, NEW ev, NEW d,
           work' = [work EXCEPT ![w] = Idle],
           events' = [events EXCEPT ![Event(w)] = ev], RowGoesOn(w, events[Event(w)], ev),
           deliveries' = [deliveries EXCEPT ![Event(w)] = d],
           Event(w) \notin overlapped => ~WhenDone(ev, d),
           UNCHANGED <<calendar, open, fate, overlapped>>, queue' \subseteq queue, disturbed' = disturbed \ {w}
    PROVE  (open \subseteq Routes /\ Informed /\ Heard /\ Closed)'
<1> DEFINE e == Event(w)
<1>1. /\ e \in Events /\ Shape /\ Heard
      /\ e \notin overlapped => \A v \in Workers \ {w} : work[v] # Idle => Event(v) # e
      BY NoticeKnown DEF NoticeInv
<1>2. work'[w] = Idle /\ \A v \in Workers : v # w => work'[v] = work[v]
      BY <1>1 DEF Shape
<1>3. \A v \in Workers : v # w =>
        work'[v] = work[v] /\ (v \in disturbed' <=> v \in disturbed)
      BY <1>2
<1>4. w \in Workers /\ work'[w] # Idle =>
        /\ work'[w].task[1] = e /\ Knows(w, work'[w], ev)
        /\ w \notin disturbed' => UpToDate(work'[w], ev)
      BY <1>2
<1>5. e \notin overlapped' =>
        /\ ~WhenDone(ev, d)
        /\ ev.state = "done" =>
             \/ d.provider = "delivered"
             \/ \A v \in Workers : work'[v] # Idle => work'[v].task[1] # e
      BY <1>1, <1>2 DEF Event
<1>6. fate'[e] # "none" => ev.state # "absent"
      BY <1>1 DEF Heard, RowGoesOn
<1>7. /\ events' = [events EXCEPT ![e] = ev] /\ deliveries' = [deliveries EXCEPT ![e] = d]
      /\ RowGoesOn(w, events[e], ev)
      /\ UNCHANGED <<calendar, open>> /\ overlapped \subseteq overlapped'
      /\ \A o \in Events \ {e} : fate'[o] = fate[o]
      OBVIOUS
<1>8. \A t \in queue' \ queue : t[1] = e /\ ev.state # "absent"
      OBVIOUS
<1> HIDE DEF e
<1>9. NoticeWrites(w, e, ev, d)
      BY <1>3, <1>4, <1>5, <1>6, <1>7, <1>8 DEF NoticeWrites
<1>10. QED BY <1>1, <1>9, NoticeStep

\* A worker goes on to finish, or in whatever it does keeps the rows.
LEMMA NoticeGoes ==
    ASSUME NoticeInv, NEW w \in Workers, work[w] # Idle, NEW x,
           work' = [work EXCEPT ![w] = x],
           calendar' = calendar, open' = open, events' = events, deliveries' = deliveries,
           fate' = fate, overlapped' = overlapped, queue' \subseteq queue,
           disturbed' \in {disturbed, disturbed \ {w}},
           x # Idle =>
              /\ x.task = work[w].task /\ Knows(w, x, events[Event(w)])
              /\ w \notin disturbed' => UpToDate(x, events[Event(w)])
    PROVE  (open \subseteq Routes /\ Informed /\ Heard /\ Closed)'
<1> DEFINE e == Event(w)
           d == deliveries[e]
<1>1. e \in Events /\ Shape /\ Heard
      BY NoticeKnown DEF NoticeInv
<1>2. deliveries' = [deliveries EXCEPT ![e] = d]
      BY <1>1, SameRows
<1>3. fate'[e] # "none" => events[e].state # "absent"
      BY <1>1 DEF Heard
<1>4. \A o \in Events \ {e} : fate'[o] = fate[o]
      OBVIOUS
<1>5. UNCHANGED <<calendar, open, events, overlapped>>
      OBVIOUS
<1>6. d.provider = deliveries[Event(w)].provider
      OBVIOUS
<1>7. QED BY <1>2, <1>3, <1>4, <1>5, NoticeMoves

\* The run x is about to finish with the outcome a, with the ledger or without it (b).
Finishes(x, a, b) == x.pc = "finish" /\ x.outcome = a /\ x.ledger = b

LEMMA ToFinishFinishes ==
    ASSUME Shape, NEW w \in Workers, work[w] # Idle, NEW a, NEW b, ToFinish(w, a, b)
    PROVE  \E x : /\ work' = [work EXCEPT ![w] = x]
                  /\ x.task = work[w].task /\ Finishes(x, a, b)
<1> DEFINE t == work[w].task
           start == Fresh(t, "finish")
           x == [start EXCEPT !.outcome = a, !.ledger = b]
<1>1. work' = [work EXCEPT ![w] = x]
      BY DEF ToFinish
<1>2. t \in Tasks
      BY AtWork
<1> HIDE DEF t
<1>3. IsRun(start) /\ start.pc = "finish" /\ start.task = t
      BY <1>2, FreshRuns
<1> HIDE DEF start
<1>4. x = [pc |-> start.pc, task |-> start.task, read |-> start.read, left |-> start.left,
           outcome |-> a, ledger |-> b]
      BY <1>3, RunResults
<1> HIDE DEF x
<1>5. x.task = t /\ Finishes(x, a, b)
      BY <1>3, <1>4 DEF Finishes
<1>6. QED BY <1>1, <1>5 DEF t

\* A worker goes on to finish: with the ledger, or with an outcome that no message has.
LEMMA FinishingKeepsNotices ==
    ASSUME NoticeInv, NEW w \in Workers, work[w] # Idle, NEW a, NEW b \in BOOLEAN,
           ToFinish(w, a, b), b \/ a \notin MaybeSent,
           calendar' = calendar, open' = open, events' = events, deliveries' = deliveries,
           fate' = fate, overlapped' = overlapped, queue' \subseteq queue
    PROVE  (open \subseteq Routes /\ Informed /\ Heard /\ Closed)'
<1>1. Shape
      BY DEF NoticeInv, OutboxInv
<1>2. PICK x : /\ work' = [work EXCEPT ![w] = x]
               /\ x.task = work[w].task /\ Finishes(x, a, b)
      BY <1>1, ToFinishFinishes
<1>3. Knows(w, x, events[Event(w)]) /\ UpToDate(x, events[Event(w)])
      BY <1>2 DEF Finishes, Knows, UpToDate
<1>4. disturbed' = disturbed \ {w}
      BY DEF ToFinish, Undisturbed
<1>5. QED BY <1>2, <1>3, <1>4, NoticeGoes

LEMMA ReadKeepsNotices ==
    ASSUME NoticeInv, NEW w \in Workers, ReadAppointment(w)
    PROVE  (open \subseteq Routes /\ Informed /\ Heard /\ Closed)'
<1>1. work[w].pc = "read" /\ work[w] # Idle
      BY DEF ReadAppointment, At, Idle
<1>2. /\ IsRun(work[w]) /\ Shape /\ Knows(w, work[w], events[Event(w)])
      BY <1>1, NoticeKnown
<1>3. /\ calendar' = calendar /\ open' = open /\ events' = events /\ deliveries' = deliveries
      /\ fate' = fate /\ overlapped' = overlapped /\ queue' \subseteq queue
      BY DEF ReadAppointment, world, rows, tasks, received
<1>4. CASE ToFinish(w, <<"record_unavailable">>, FALSE)
  <2>1. <<"record_unavailable">> \notin MaybeSent
        BY DEF MaybeSent
  <2>2. QED BY <1>1, <1>3, <1>4, <2>1, FinishingKeepsNotices
<1>5. CASE /\ work' = [work EXCEPT ![w].pc = "prepare",
                         ![w].read = [version |-> calendar.version, changed |-> calendar.changed]]
           /\ UNCHANGED disturbed
  <2> DEFINE r == [version |-> calendar.version, changed |-> calendar.changed]
  <2> HIDE DEF r
  <2> DEFINE run == work[w]
             x == [run EXCEPT !.pc = "prepare", !.read = r]
             first == [run EXCEPT !.pc = "prepare"]
  <2>1. work' = [work EXCEPT ![w] = x]
        BY <1>2, <1>5 DEF r, Shape
  <2>2. IsRun(run) /\ run.pc = "read" /\ Knows(w, run, events[Event(w)])
        BY <1>1, <1>2
  <2> HIDE DEF run
  <2>3. IsRun(first) /\ first.pc = "prepare" /\ first.task = run.task
        BY <2>2, RunMoves
  <2>4. x = [first EXCEPT !.read = r]
        OBVIOUS
  <2> HIDE DEF first, x
  <2>5. x = [pc |-> "prepare", task |-> run.task, read |-> r, left |-> first.left,
             outcome |-> first.outcome, ledger |-> first.ledger]
        BY <2>3, <2>4 DEF IsRun
  <2>6. /\ x.task = run.task /\ Knows(w, x, events[Event(w)])
        /\ UpToDate(x, events[Event(w)])
        BY <2>2, <2>5 DEF Knows, UpToDate
  <2>7. x.task = work[w].task
        BY <2>6 DEF run
  <2>8. disturbed' = disturbed
        BY <1>5
  <2>9. QED BY <1>1, <1>3, <2>1, <2>6, <2>7, <2>8, NoticeGoes
<1>6. QED BY <1>4, <1>5 DEF ReadAppointment

LEMMA RereadKeepsNotices ==
    ASSUME NoticeInv, NEW w \in Workers, Reread(w)
    PROVE  (open \subseteq Routes /\ Informed /\ Heard /\ Closed)'
<1>1. work[w].pc = "reread" /\ work[w] # Idle
      BY DEF Reread, At, Idle
<1>2. /\ IsRun(work[w]) /\ Shape /\ Knows(w, work[w], events[Event(w)])
      BY <1>1, NoticeKnown
<1>3. /\ calendar' = calendar /\ open' = open /\ events' = events /\ deliveries' = deliveries
      /\ fate' = fate /\ overlapped' = overlapped /\ queue' \subseteq queue
      BY DEF Reread, world, rows, tasks, received
<1>4. CASE \E a \in {<<"record_unavailable">>, <<"superseded">>, <<"appointment_started">>,
                     <<"no_linked_messenger">>} : ToFinish(w, a, FALSE)
  <2>1. PICK a \in {<<"record_unavailable">>, <<"superseded">>, <<"appointment_started">>,
                    <<"no_linked_messenger">>} : ToFinish(w, a, FALSE)
        BY <1>4
  <2>2. a \notin MaybeSent
        BY <2>1 DEF MaybeSent
  <2>3. QED BY <1>1, <1>3, <2>1, <2>2, FinishingKeepsNotices
<1>5. CASE /\ ~calendar.gone /\ calendar.version = events[Event(w)].notice.version
           /\ open # {}
           /\ work' = [work EXCEPT ![w].pc = "intent", ![w].left = open] /\ Undisturbed(w)
  <2> DEFINE run == work[w]
             targets == open
             x == [run EXCEPT !.pc = "intent", !.left = targets]
             first == [run EXCEPT !.pc = "intent"]
  <2>1. work' = [work EXCEPT ![w] = x]
        BY <1>2, <1>5 DEF Shape
  <2>2. IsRun(run) /\ run.pc = "reread" /\ Knows(w, run, events[Event(w)])
        BY <1>1, <1>2
  <2> HIDE DEF run, targets
  <2>3. IsRun(first) /\ first.pc = "intent" /\ first.task = run.task
        BY <2>2, RunMoves
  <2>4. x = [first EXCEPT !.left = targets]
        OBVIOUS
  <2> HIDE DEF first, x
  <2>5. x = [pc |-> "intent", task |-> run.task, read |-> first.read, left |-> targets,
             outcome |-> first.outcome, ledger |-> first.ledger]
        BY <2>3, <2>4 DEF IsRun
  <2>6. x.task = run.task /\ x.pc = "intent" /\ x.left = open
        BY <2>5 DEF targets
  <2>7. Knows(w, x, events[Event(w)]) /\ UpToDate(x, events[Event(w)])
        BY <1>5, <2>2, <2>6 DEF Knows, UpToDate
  <2>8. x.task = work[w].task
        BY <2>6 DEF run
  <2>9. disturbed' = disturbed \ {w}
        BY <1>5 DEF Undisturbed
  <2>10. QED BY <1>1, <1>3, <2>1, <2>7, <2>8, <2>9, NoticeGoes
<1>6. QED BY <1>4, <1>5 DEF Reread

LEMMA CrashKeepsNotices ==
    ASSUME NoticeInv, NEW w \in Workers, Crash(w)
    PROVE  (open \subseteq Routes /\ Informed /\ Heard /\ Closed)'
<1>1. /\ work[w] # Idle /\ work' = [work EXCEPT ![w] = Idle] /\ disturbed' = disturbed \ {w}
      BY DEF Crash, Stop, Undisturbed
<1>2. /\ calendar' = calendar /\ open' = open /\ events' = events /\ deliveries' = deliveries
      /\ fate' = fate /\ overlapped' = overlapped /\ queue' \subseteq queue
      BY DEF Crash, world, rows, tasks, received
<1>3. QED BY <1>1, <1>2, NoticeGoes

LEMMA LeftKeepsNotices ==
    ASSUME NoticeInv, NEW w \in Workers, work[w] # Idle, work[w].pc = "intent",
           work[w].left # {First(work[w].left)},
           work' = [work EXCEPT ![w].left = @ \ {First(work[w].left)}],
           calendar' = calendar, open' = open, events' = events, deliveries' = deliveries,
           fate' = fate, overlapped' = overlapped, queue' = queue, disturbed' = disturbed
    PROVE  (open \subseteq Routes /\ Informed /\ Heard /\ Closed)'
<1> DEFINE run == work[w]
           rest == run.left \ {First(run.left)}
           x == [run EXCEPT !.left = rest]
<1>1. /\ IsRun(run) /\ Shape /\ Knows(w, run, events[Event(w)]) /\ run.pc = "intent"
      /\ w \notin disturbed => UpToDate(run, events[Event(w)])
      BY NoticeKnown
<1>2. work' = [work EXCEPT ![w] = x]
      BY <1>1 DEF Shape
<1>3. w \notin disturbed => rest \subseteq open /\ rest # {}
      BY <1>1 DEF UpToDate
<1> HIDE DEF run, rest
<1>4. x = [pc |-> "intent", task |-> run.task, read |-> run.read, left |-> rest,
           outcome |-> run.outcome, ledger |-> run.ledger]
      BY <1>1 DEF IsRun
<1> HIDE DEF x
<1>5. /\ x.task = run.task /\ Knows(w, x, events[Event(w)])
      /\ w \notin disturbed' => UpToDate(x, events[Event(w)])
      BY <1>1, <1>3, <1>4 DEF Knows, UpToDate
<1>6. x.task = work[w].task
      BY <1>5 DEF run
<1>7. QED BY <1>2, <1>5, <1>6, NoticeGoes

LEMMA AttemptKeepsNotices ==
    ASSUME NoticeInv, NEW w \in Workers, work[w] # Idle, work[w].pc = "intent", Attempt(w),
           UNCHANGED <<calendar, open, events, overlapped>>, fate' = fate, queue' = queue
    PROVE  (open \subseteq Routes /\ Informed /\ Heard /\ Closed)'
<1> DEFINE e == Event(w)
           d == deliveries[e]
           run == work[w]
           h == First(run.left)
           tried == d.attempted \cup {h}
           result == <<"uncertain", h>>
           sending == "sending"
           new == [d EXCEPT !.state = sending, !.outcome = result, !.attempted = tried]
           x == [run EXCEPT !.pc = "send"]
<1>1. /\ e \in Events /\ IsRun(run) /\ Shape /\ Heard /\ IsDelivery(d)
      /\ Knows(w, run, events[e]) /\ run.pc = "intent"
      /\ w \notin disturbed => UpToDate(run, events[e])
      BY NoticeKnown DEF NoticeInv
<1>2. work' = [work EXCEPT ![w] = x] /\ disturbed' = disturbed
      BY DEF Attempt, Goto
<1>3. deliveries' = [deliveries EXCEPT ![e] = new]
      BY DEF Attempt
<1>4. fate'[e] # "none" => events[e].state # "absent"
      BY <1>1 DEF Heard
<1> HIDE DEF d, run, tried, result, sending
<1>5. new = [state |-> sending, outcome |-> result,
             attempted |-> tried, provider |-> d.provider]
  <2>1. IsDelivery(d)
        BY <1>1
  <2>2. new = [d EXCEPT !.state = sending, !.outcome = result, !.attempted = tried]
        OBVIOUS
  <2> HIDE DEF new
  <2>3. QED BY <2>1, <2>2, LedgerAttempts, Zenon
<1>6. /\ IsRun(x) /\ x.pc = "send" /\ x.task = run.task /\ x.left = run.left
      BY <1>1, RunMoves
<1> HIDE DEF new, x
<1>7. new.provider = deliveries[e].provider /\ x # Idle
      BY <1>5, <1>6 DEF d, Idle
<1>8. /\ x.task = work[w].task /\ Knows(w, x, events[e])
      /\ w \notin disturbed' => UpToDate(x, events[e])
      BY <1>1, <1>2, <1>6 DEF Knows, UpToDate, run
<1>9. \A o \in Events \ {e} : fate'[o] = fate[o]
      OBVIOUS
<1>10. QED BY <1>2, <1>3, <1>4, <1>7, <1>8, <1>9, NoticeMoves

LEMMA IntentKeepsNotices ==
    ASSUME NoticeInv, NEW w \in Workers, Intent(w)
    PROVE  (open \subseteq Routes /\ Informed /\ Heard /\ Closed)'
<1>1. work[w].pc = "intent" /\ work[w] # Idle
      BY DEF Intent, At, Idle
<1>2. /\ UNCHANGED <<calendar, open, events, overlapped>> /\ fate' = fate /\ queue' = queue
      BY DEF Intent, tasks, received, world
<1>3. CASE (\E a : ToFinish(w, a, TRUE)) /\ deliveries' = deliveries
      BY <1>1, <1>2, <1>3, FinishingKeepsNotices
<1>4. CASE Attempt(w)
      BY <1>1, <1>2, <1>4, AttemptKeepsNotices
<1>5. CASE /\ work[w].left # {First(work[w].left)}
           /\ work' = [work EXCEPT ![w].left = @ \ {First(work[w].left)}]
           /\ deliveries' = deliveries /\ disturbed' = disturbed
      BY <1>1, <1>2, <1>5, LeftKeepsNotices
<1>6. QED BY <1>3, <1>4, <1>5 DEF Intent

LEMMA SendKeepsNotices ==
    ASSUME NoticeInv, NEW w \in Workers, Send(w)
    PROVE  (open \subseteq Routes /\ Informed /\ Heard /\ Closed)'
<1> DEFINE e == Event(w)
           run == work[w]
<1>1. run.pc = "send" /\ run # Idle
      BY DEF Send, At, Idle
<1>2. /\ e \in Events /\ IsRun(run) /\ Shape /\ IsDelivery(deliveries[e])
      /\ Knows(w, run, events[e])
      /\ w \notin disturbed => UpToDate(run, events[e])
      BY <1>1, NoticeKnown
<1>3. /\ UNCHANGED <<calendar, open, events, overlapped>> /\ deliveries' = deliveries
      /\ queue' \subseteq queue /\ disturbed' = disturbed
      BY DEF Send, rows, tasks, world
<1>4. PICK told : work' = [work EXCEPT ![w].pc = "record", ![w].outcome = told]
      BY DEF Send
<1>5. \A o \in Events \ {e} : fate'[o] = fate[o]
      BY <1>2 DEF Send, received, Shape
<1>6. deliveries' = [deliveries EXCEPT ![e] = deliveries[e]]
      BY <1>2, <1>3, SameRows
<1>7. fate'[e] # "none" => events[e].state # "absent"
      BY <1>1, <1>2 DEF Knows, Decided
<1> DEFINE first == [run EXCEPT !.pc = "record"]
           x == [run EXCEPT !.pc = "record", !.outcome = told]
<1>8. work' = [work EXCEPT ![w] = x]
      BY <1>2, <1>4 DEF Shape
<1> HIDE DEF run
<1>9. IsRun(first) /\ first.pc = "record" /\ first.task = run.task /\ first.left = run.left
      BY <1>2, RunMoves
<1>10. x = [first EXCEPT !.outcome = told]
      OBVIOUS
<1> HIDE DEF first, x
<1>11. x = [pc |-> "record", task |-> run.task, read |-> first.read, left |-> run.left,
            outcome |-> told, ledger |-> first.ledger]
      BY <1>9, <1>10 DEF IsRun
<1>12. /\ x.task = work[w].task /\ Knows(w, x, events[e])
       /\ w \notin disturbed' => UpToDate(x, events[e])
      BY <1>1, <1>2, <1>3, <1>11 DEF Knows, UpToDate, run
<1>13. work[w] # Idle
      BY <1>1 DEF run
<1>14. QED BY <1>3, <1>5, <1>6, <1>7, <1>8, <1>12, <1>13, NoticeMoves

LEMMA RecordKeepsNotices ==
    ASSUME NoticeInv, NEW w \in Workers, Record(w)
    PROVE  (open \subseteq Routes /\ Informed /\ Heard /\ Closed)'
<1> DEFINE e == Event(w)
           d == deliveries[e]
           outcome == work[w].outcome
           state == IF outcome[1] = "rejected" THEN "retryable_rejection" ELSE "done"
           new == [d EXCEPT !.state = state, !.outcome = outcome]
           rest == work[w].left \ {First(work[w].left)}
<1>1. work[w].pc = "record" /\ work[w] # Idle
      BY DEF Record, At, Idle
<1>2. /\ e \in Events /\ IsRun(work[w]) /\ Shape /\ Heard /\ IsDelivery(d)
      /\ Knows(w, work[w], events[e])
      /\ w \notin disturbed => UpToDate(work[w], events[e])
      BY <1>1, NoticeKnown DEF NoticeInv
<1>3. /\ UNCHANGED <<calendar, open, events, overlapped>> /\ fate' = fate
      /\ queue' \subseteq queue
      BY DEF Record, received, tasks, world
<1>4. deliveries' = [deliveries EXCEPT ![e] = new]
      BY DEF Record
<1>5. fate'[e] # "none" => events[e].state # "absent"
      BY <1>2, <1>3 DEF Heard
<1>6. PICK x : /\ work' = [work EXCEPT ![w] = x] /\ x # Idle
               /\ x.task = work[w].task /\ Knows(w, x, events[e])
               /\ w \notin disturbed' => UpToDate(x, events[e])
               /\ disturbed' \in {disturbed, disturbed \ {w}}
  <2>1. CASE ToFinish(w, outcome, TRUE)
    <3>1. PICK x : /\ work' = [work EXCEPT ![w] = x]
                   /\ x.task = work[w].task /\ Finishes(x, outcome, TRUE)
          BY <1>1, <1>2, <2>1, ToFinishFinishes
    <3>2. x # Idle /\ Knows(w, x, events[e]) /\ UpToDate(x, events[e])
          BY <3>1 DEF Finishes, Knows, UpToDate, Idle
    <3>3. disturbed' = disturbed \ {w}
          BY <2>1 DEF ToFinish, Undisturbed
    <3>4. QED BY <3>1, <3>2, <3>3
  <2>2. CASE /\ rest # {} /\ disturbed' = disturbed
             /\ work' = [work EXCEPT ![w] = [Fresh(work[w].task, "intent") EXCEPT !.left = rest]]
    <3> DEFINE t == work[w].task
               start == Fresh(t, "intent")
               y == [start EXCEPT !.left = rest]
    <3>1. work' = [work EXCEPT ![w] = y] /\ disturbed' = disturbed
          BY <2>2
    <3>2. t \in Tasks
          BY <1>1, <1>2, AtWork
    <3>3. w \notin disturbed => /\ rest \subseteq open /\ rest # {}
                                /\ calendar.version = events[e].notice.version /\ ~calendar.gone
          BY <1>1, <1>2, <2>2 DEF UpToDate
    <3>4. Decided(events[e])
          BY <1>1, <1>2 DEF Knows
    <3> HIDE DEF t, rest
    <3>5. IsRun(start) /\ start.pc = "intent" /\ start.task = t
          BY <3>2, FreshRuns
    <3> HIDE DEF start
    <3>6. y = [pc |-> "intent", task |-> t, read |-> start.read, left |-> rest,
               outcome |-> start.outcome, ledger |-> start.ledger]
          BY <3>5 DEF IsRun
    <3> HIDE DEF y
    <3>7. y # Idle /\ y.task = work[w].task
          BY <3>6 DEF t, Idle
    <3>8. Knows(w, y, events[e]) /\ (w \notin disturbed => UpToDate(y, events[e]))
          BY <3>3, <3>4, <3>6 DEF Knows, UpToDate
    <3>9. QED BY <3>1, <3>7, <3>8
  <2>3. QED BY <2>1, <2>2 DEF Record
<1> HIDE DEF d, outcome, state
<1>7. new = [state |-> state, outcome |-> outcome,
             attempted |-> d.attempted, provider |-> d.provider]
      BY <1>2, LedgerResults
<1> HIDE DEF new
<1>8. new.provider = deliveries[e].provider
      BY <1>7 DEF d
<1>9. \A o \in Events \ {e} : fate'[o] = fate[o]
      BY <1>3
<1>10. QED BY <1>1, <1>3, <1>4, <1>5, <1>6, <1>8, <1>9, NoticeMoves

\* The release of a lease changes neither the state of a row nor its notice.
LEMMA ReleasedGoesOn ==
    ASSUME NEW w \in Workers, NEW old, NEW row, IsEvent(row), RowGoesOn(w, old, row), NEW d,
           ~WhenDone(row, d)
    PROVE  RowGoesOn(w, old, Released(w, row)) /\ ~WhenDone(Released(w, row), d)
<1> DEFINE new == [row EXCEPT !.leased = FALSE, !.owner = Nobody]
<1>1. new = [state |-> row.state, notice |-> row.notice, owner |-> Nobody,
             leased |-> FALSE, outcome |-> row.outcome]
      BY EventHolders
<1>2. Released(w, row) = IF row.owner = w THEN new ELSE row
      BY DEF Released
<1> HIDE DEF new
<1>3. RowGoesOn(w, old, new) /\ ~WhenDone(new, d)
      BY <1>1 DEF RowGoesOn, WhenDone, Decided
<1>4. QED BY <1>2, <1>3

LEMMA FailKeepsNotices ==
    ASSUME NoticeInv, NEW w \in Workers, Fail(w)
    PROVE  (open \subseteq Routes /\ Informed /\ Heard /\ Closed)'
<1> DEFINE e == Event(w)
           ev == Released(w, events[e])
           d == deliveries[e]
<1>1. work[w] # Idle
      BY DEF Fail, Idle
<1>2. /\ e \in Events /\ Shape /\ IsEvent(events[e])
      /\ RowGoesOn(w, events[e], events[e])
      /\ e \notin overlapped => ~WhenDone(events[e], d)
      BY <1>1, NoticeKnown, SameGoesOn
<1>3. /\ events' = [events EXCEPT ![e] = ev] /\ work' = [work EXCEPT ![w] = Idle]
      /\ disturbed' = disturbed \ {w} /\ queue' \subseteq queue
      /\ UNCHANGED <<calendar, open, fate, overlapped>> /\ deliveries' = deliveries
      BY DEF Fail, Stop, Undisturbed, world, tasks, received
<1>4. deliveries' = [deliveries EXCEPT ![e] = d]
      BY <1>2, <1>3, SameRows
<1>5. RowGoesOn(w, events[e], ev)
  <2> DEFINE unseen == [provider |-> "none"]
  <2>1. ~WhenDone(events[e], unseen)
        BY DEF WhenDone, Failed
  <2>2. QED BY <1>2, <2>1, ReleasedGoesOn
<1>6. e \notin overlapped => ~WhenDone(ev, d)
      BY <1>2, ReleasedGoesOn
<1>7. QED BY <1>1, <1>3, <1>4, <1>5, <1>6, NoticeEnds

\* A delivery returns, having written its event.
LEMMA ReturnKeepsNotices ==
    ASSUME NoticeInv, NEW w \in Workers, work[w] # Idle, NEW row, IsEvent(row),
           RowGoesOn(w, events[Event(w)], row), Return(w, row),
           NEW d, deliveries' = [deliveries EXCEPT ![Event(w)] = d], ~WhenDone(row, d),
           UNCHANGED <<calendar, open, fate, overlapped>>
    PROVE  (open \subseteq Routes /\ Informed /\ Heard /\ Closed)'
<1>1. /\ work' = [work EXCEPT ![w] = Idle] /\ disturbed' = disturbed \ {w}
      /\ queue' \subseteq queue
      BY DEF Return, Stop, Undisturbed
<1>2. PICK ev \in {Released(w, row), row} : events' = [events EXCEPT ![Event(w)] = ev]
      BY DEF Return
<1>3. RowGoesOn(w, events[Event(w)], ev) /\ ~WhenDone(ev, d)
      BY <1>2, ReleasedGoesOn
<1>4. QED BY <1>1, <1>2, <1>3, NoticeEnds

LEMMA BusyKeepsNotices ==
    ASSUME NoticeInv, NEW w \in Workers, work[w] # Idle, Busy(w), deliveries' = deliveries,
           calendar' = calendar, open' = open, fate' = fate, overlapped' = overlapped
    PROVE  (open \subseteq Routes /\ Informed /\ Heard /\ Closed)'
<1>1. /\ work' = [work EXCEPT ![w] = Idle] /\ disturbed' = disturbed \ {w}
      /\ queue' \subseteq queue /\ events' = events
      BY DEF Busy, Stop, Undisturbed
<1>2. QED BY <1>1, NoticeGoes

LEMMA PrepareKeepsNotices ==
    ASSUME NoticeInv, NEW w \in Workers, Prepare(w)
    PROVE  (open \subseteq Routes /\ Informed /\ Heard /\ Closed)'
<1> DEFINE e == Event(w)
           old == events[e]
           d == deliveries[e]
           snap == work[w].read
           noticed == [old EXCEPT !.notice = snap]
           stale == <<"duplicate_or_stale">>
           ours == <<"existing_or_assistant_booking">>
           end1 == [old EXCEPT !.state = "done", !.outcome = stale]
           end2 == [noticed EXCEPT !.state = "done", !.outcome = ours]
           goOn == [noticed EXCEPT !.state = "prepared"]
<1>1. work[w].pc = "prepare" /\ work[w] # Idle
      BY DEF Prepare, At, Idle
<1>2. /\ e \in Events /\ Shape /\ IsRun(work[w]) /\ IsEvent(old)
      /\ Knows(w, work[w], old) /\ Heard
      BY <1>1, NoticeKnown DEF NoticeInv
<1>3. /\ UNCHANGED <<calendar, open, fate, overlapped>> /\ deliveries' = deliveries
      BY DEF Prepare, received, world
<1>4. deliveries' = [deliveries EXCEPT ![e] = d]
      BY <1>2, <1>3, SameRows
<1>5. \/ Busy(w)
      \/ /\ old.owner = w
         /\ \/ Return(w, end1) \/ Return(w, end2)
            \/ /\ events' = [events EXCEPT ![e] = goOn]
               /\ work' = [work EXCEPT ![w] = Fresh(work[w].task, "reread")]
               /\ UNCHANGED <<queue, disturbed>>
      BY DEF Prepare
<1>6. CASE Busy(w)
      BY <1>1, <1>3, <1>6, BusyKeepsNotices
<1>7. old.owner = w => ~Decided(old)
      BY <1>1, <1>2 DEF Knows
<1>8. stale \notin MaybeSent /\ ours \notin MaybeSent
      BY DEF MaybeSent
<1> HIDE DEF old, d, snap, stale, ours
<1>9. IsEvent(end1) /\ IsEvent(noticed)
      BY <1>2, EventEnds, EventNotices
<1>10. end1 = [state |-> "done", notice |-> old.notice, owner |-> old.owner,
               leased |-> old.leased, outcome |-> stale]
       BY <1>2, EventOutcomes
<1>11. noticed.owner = old.owner
       BY <1>2, EventNotices
<1> HIDE DEF noticed, end1
<1>12. IsEvent(end2) /\ IsEvent(goOn) /\ goOn.owner = noticed.owner
       BY <1>9, EventEnds, EventStates
<1>13. end2 = [state |-> "done", notice |-> noticed.notice, owner |-> noticed.owner,
               leased |-> noticed.leased, outcome |-> ours]
       BY <1>9, EventOutcomes
<1>14. goOn.state = "prepared"
       BY <1>9 DEF IsEvent
<1> HIDE DEF end2, goOn
<1>15. CASE old.owner = w /\ Return(w, end1)
  <2>1. RowGoesOn(w, old, end1)
        BY <1>7, <1>10, <1>15 DEF RowGoesOn, Decided
  <2>2. RowGoesOn(w, events[Event(w)], end1)
        BY <2>1 DEF old
  <2>3. ~WhenDone(end1, d)
        BY <1>8, <1>10 DEF WhenDone
  <2>4. QED BY <1>1, <1>3, <1>4, <1>9, <1>15, <2>2, <2>3, ReturnKeepsNotices
<1>16. CASE old.owner = w /\ Return(w, end2)
  <2>1. RowGoesOn(w, old, end2)
        BY <1>7, <1>11, <1>13, <1>16 DEF RowGoesOn, Decided
  <2>2. RowGoesOn(w, events[Event(w)], end2)
        BY <2>1 DEF old
  <2>3. ~WhenDone(end2, d)
        BY <1>8, <1>13 DEF WhenDone
  <2>4. QED BY <1>1, <1>3, <1>4, <1>12, <1>16, <2>2, <2>3, ReturnKeepsNotices
<1>17. CASE /\ old.owner = w
            /\ events' = [events EXCEPT ![e] = goOn]
            /\ work' = [work EXCEPT ![w] = Fresh(work[w].task, "reread")]
            /\ UNCHANGED <<queue, disturbed>>
  <2> DEFINE x == Fresh(work[w].task, "reread")
  <2>1. work[w].task \in Tasks
        BY <1>2 DEF IsRun
  <2>2. x.pc = "reread" /\ x.task = work[w].task /\ x # Idle
        BY <2>1, FreshRuns DEF Idle
  <2>3. work'[w] = x /\ \A v \in Workers : v # w => work'[v] = work[v]
        BY <1>2, <1>17 DEF Shape
  <2> HIDE DEF x
  <2>4. RowGoesOn(w, old, goOn)
        BY <1>7, <1>11, <1>12, <1>14, <1>17 DEF RowGoesOn, Decided
  <2>5. Knows(w, x, goOn) /\ UpToDate(x, goOn)
        BY <1>14, <2>2 DEF Knows, UpToDate, Decided
  <2>6. w \in Workers /\ work'[w] # Idle =>
          /\ work'[w].task[1] = e /\ Knows(w, work'[w], goOn)
          /\ w \notin disturbed' => UpToDate(work'[w], goOn)
        BY <2>2, <2>3, <2>5 DEF Event
  <2>7. RowGoesOn(w, events[e], goOn)
        BY <2>4 DEF old
  <2>8. ~WhenDone(goOn, d) /\ goOn.state # "done" /\ goOn.state # "absent"
        BY <1>14 DEF WhenDone
  <2>9. NoticeWrites(w, e, goOn, d)
        BY <1>3, <1>4, <1>17, <2>3, <2>6, <2>7, <2>8 DEF NoticeWrites
  <2>10. QED BY <1>2, <2>9, NoticeStep
<1>18. QED BY <1>5, <1>6, <1>15, <1>16, <1>17

LEMMA FinishKeepsNotices ==
    ASSUME NoticeInv, NEW w \in Workers, Finish(w)
    PROVE  (open \subseteq Routes /\ Informed /\ Heard /\ Closed)'
<1> DEFINE e == Event(w)
           old == events[e]
           d == deliveries[e]
           outcome == work[w].outcome
           done == [old EXCEPT !.state = "done", !.outcome = outcome]
           row == ReopenedEvent(done, d)
           new == ReopenedDelivery(done, d)
<1>1. work[w].pc = "finish" /\ work[w] # Idle
      BY DEF Finish, At, Idle
<1>2. /\ e \in Events /\ Shape /\ IsEvent(old) /\ Knows(w, work[w], old)
      BY <1>1, NoticeKnown
<1>3. UNCHANGED <<calendar, open, fate, overlapped>>
      BY DEF Finish, received, world
<1>4. \/ Busy(w) /\ deliveries' = deliveries
      \/ /\ old.owner = w /\ Return(w, row)
         /\ deliveries' = [deliveries EXCEPT ![e] = new]
      \/ old.owner = w /\ ~work[w].ledger /\ Return(w, done) /\ deliveries' = deliveries
      BY DEF Finish
<1>5. CASE Busy(w) /\ deliveries' = deliveries
      BY <1>1, <1>3, <1>5, BusyKeepsNotices
<1>6. deliveries = [deliveries EXCEPT ![e] = d]
      BY <1>2, SameRows
<1>7. ~work[w].ledger => outcome \notin MaybeSent
      BY <1>1, <1>2 DEF Knows
<1> HIDE DEF old, d, outcome
<1>8. IsEvent(done)
      BY <1>2, EventEnds
<1>9. done = [state |-> "done", notice |-> old.notice, owner |-> old.owner,
              leased |-> old.leased, outcome |-> outcome]
      BY <1>2, EventOutcomes
<1> HIDE DEF done
<1>10. old.owner = w => RowGoesOn(w, old, done)
  <2>1. Decided(old) => done.notice = old.notice
        BY <1>9
  <2>2. QED BY <1>9 DEF RowGoesOn, Decided
<1>11. CASE old.owner = w /\ ~work[w].ledger /\ Return(w, done) /\ deliveries' = deliveries
  <2>1. ~WhenDone(done, d)
        BY <1>7, <1>9, <1>11 DEF WhenDone
  <2>2. RowGoesOn(w, events[Event(w)], done)
        BY <1>10, <1>11 DEF old
  <2>3. QED BY <1>1, <1>3, <1>6, <1>8, <1>11, <2>1, <2>2, ReturnKeepsNotices
<1>12. /\ IsEvent(row) /\ row.owner = done.owner /\ row.notice = done.notice
       /\ IF Reopens(done, d) THEN row.state = "prepared" ELSE row = done
       BY <1>8, ReopeningEvents
<1>13. ~Reopens(done, d) => new = d
       BY DEF ReopenedDelivery
<1> HIDE DEF row, new
<1>14. CASE /\ old.owner = w /\ Return(w, row)
            /\ deliveries' = [deliveries EXCEPT ![e] = new]
  <2>1. ~WhenDone(row, new)
    <3>1. CASE Reopens(done, d)
          BY <1>12, <3>1 DEF WhenDone
    <3>2. CASE ~Reopens(done, d)
          BY <1>12, <1>13, <3>2 DEF WhenDone, Reopens
    <3>3. QED BY <3>1, <3>2
  <2>2. RowGoesOn(w, old, row)
        BY <1>9, <1>10, <1>12, <1>14 DEF RowGoesOn, Decided
  <2>3. RowGoesOn(w, events[Event(w)], row)
        BY <2>2 DEF old
  <2>4. QED BY <1>1, <1>3, <1>12, <1>14, <2>1, <2>3, ReturnKeepsNotices
<1>15. QED BY <1>4, <1>5, <1>11, <1>14

-----------------------------------------------------------------------------
LEMMA NoticesStart == Init => NoticeInv
<1> SUFFICES ASSUME Init PROVE NoticeInv
    OBVIOUS
<1>1. OutboxInv
      BY OutboxStarts
<1>2. open \subseteq Routes /\ Informed
      BY DEF Init, Informed
<1>3. \A e \in Events : events[e] = NewEvent /\ fate[e] = "none"
      BY DEF Init
<1>4. Heard
      BY <1>3 DEF Heard, Init, NewEvent
<1>5. Closed
      BY <1>3 DEF Closed, NewEvent, WhenDone
<1>6. QED BY <1>1, <1>2, <1>4, <1>5 DEF NoticeInv

LEMMA NoticesStep == NoticeInv /\ [Next]_vars => NoticeInv'
<1> SUFFICES ASSUME NoticeInv, [Next]_vars PROVE NoticeInv'
    OBVIOUS
<1>1. OutboxInv'
      BY OutboxSteps DEF NoticeInv
<1>2. SUFFICES (open \subseteq Routes /\ Informed /\ Heard /\ Closed)'
      BY <1>1 DEF NoticeInv
<1>3. CASE \/ \E v \in Versions : Change(v)
           \/ Start
           \/ \E routes \in SUBSET Routes : Reroute(routes)
      BY <1>3, ChangesKeepNotices
<1>4. ASSUME NEW e \in Events,
             \/ Ingest(e) \/ Settle(e) \/ Expire(e) \/ Reconcile(e) \/ ReconcileUnrouted(e)
             \/ \E state \in {"delivered", "failed"} : Receipt(e, state)
      PROVE  (open \subseteq Routes /\ Informed /\ Heard /\ Closed)'
      BY <1>4, IngestKeepsNotices, SettleKeepsNotices, ExpireKeepsNotices,
         UnroutedKeepsNotices, ReceiptKeepsNotices
<1>5. ASSUME NEW w \in Workers,
             (\E t \in queue : Dispatch(w, t)) \/ Deliver(w) \/ Fail(w) \/ Crash(w)
      PROVE  (open \subseteq Routes /\ Informed /\ Heard /\ Closed)'
      BY <1>5, DispatchKeepsNotices, ReadKeepsNotices, PrepareKeepsNotices,
         RereadKeepsNotices, IntentKeepsNotices, SendKeepsNotices, RecordKeepsNotices,
         FinishKeepsNotices, FailKeepsNotices, CrashKeepsNotices DEF Deliver
<1>6. CASE UNCHANGED vars
  <2>1. UNCHANGED <<calendar, open, events, deliveries, work, disturbed, overlapped, fate, queue>>
        BY <1>6 DEF vars, world, rows, tasks, received
  <2>2. QED BY <2>1 DEF NoticeInv, Informed, Heard, Closed, UpToDate, Event
<1>7. QED BY <1>3, <1>4, <1>5, <1>6 DEF Next

\* A delivery that has read its appointment again knows a row that is not prepared
\* again, and no event is closed on a message that has failed.
THEOREM NoticeInvariance == Spec => []NoticeInv
BY NoticesStart, NoticesStep, PTL DEF Spec

\* In whatever order the receipts and the steps of a delivery come, an event is never
\* closed on a message whose failure the ledger holds, unless two deliveries of the
\* event overlapped (finish, service.go:566-583; receipts.go:80-130).
THEOREM FailuresAreSeen == Spec => []FailureIsSeen
<1>1. NoticeInv => FailureIsSeen
      BY DEF NoticeInv, Closed, FailureIsSeen
<1>2. QED BY <1>1, NoticeInvariance, PTL

\* The first of some routes is one of them.
LEMMA FirstIsOneOfThem ==
    ASSUME NEW S, S \subseteq Routes, S # {}
    PROVE  First(S) \in S
<1> DEFINE I == {i \in 1..Len(Order) : Order[i] \in S}
           R == {ss \in Nat \X Nat : ss[1] < ss[2]}
<1>1. Len(Order) \in Nat
      BY OutboxAssumption
<1>2. I \in SUBSET Nat /\ I # {}
      BY <1>1 DEF Routes
<1>3. IsWellFoundedOn(R, Nat)
      BY NatLessThanWellFounded DEF OpToRel
<1>4. PICK i \in I : \A j \in I : <<j, i>> \notin R
  <2> HIDE DEF R, I
  <2>1. QED BY <1>2, <1>3, WFMin, Zenon
<1>5. ASSUME NEW j \in 1..(i - 1)
      PROVE  Order[j] \notin S
  <2>1. /\ j \in Nat /\ i \in Nat /\ j < i /\ j \in 1..Len(Order)
        BY <1>1, <1>4
  <2>2. <<j, i>> \in R
        BY <2>1
  <2>3. j \notin I
        BY <1>4, <2>2
  <2>4. QED BY <2>1, <2>3
<1>6. \E k \in 1..Len(Order) : Order[k] \in S /\ \A j \in 1..(k - 1) : Order[j] \notin S
      BY <1>4, <1>5
<1>7. QED BY <1>6 DEF First

\* A notice that goes out describes the appointment as it is, on a route that is open,
\* unless one of them changed after the second reading (service.go:299-300).
THEOREM NoticesAreCurrent == Spec => NoticeIsCurrent
<1> DEFINE Current == \A w \in Workers :
                        At(w, "send") /\ work'[w].pc = "record" =>
                          \/ w \in disturbed
                          \/ /\ calendar.version = events[Event(w)].notice.version
                             /\ ~calendar.gone /\ First(work[w].left) \in open
<1>1. NoticeInv => Current
  <2> SUFFICES ASSUME NoticeInv, NEW w \in Workers, At(w, "send"), w \notin disturbed
               PROVE  /\ calendar.version = events[Event(w)].notice.version
                      /\ ~calendar.gone /\ First(work[w].left) \in open
      OBVIOUS
  <2>1. work[w] # Idle /\ work[w].pc = "send"
        BY DEF At, Idle
  <2>2. UpToDate(work[w], events[Event(w)])
        BY <2>1 DEF NoticeInv, Informed
  <2>3. /\ calendar.version = events[Event(w)].notice.version /\ ~calendar.gone
        /\ work[w].left \subseteq open /\ work[w].left # {}
        BY <2>1, <2>2 DEF UpToDate
  <2>4. work[w].left \subseteq Routes
        BY <2>3 DEF NoticeInv
  <2>5. First(work[w].left) \in work[w].left
        BY <2>3, <2>4, FirstIsOneOfThem
  <2>6. QED BY <2>3, <2>5
<1>2. NoticeInv /\ [Next]_vars => [Current]_vars
      BY <1>1
<1>3. QED BY <1>2, NoticeInvariance, PTL DEF Spec, NoticeIsCurrent
=============================================================================
