-------------------------- MODULE Reminders_proofs --------------------------
(***************************************************************************)
(* Proofs about Reminders, for any number of appointments, starts, workers *)
(* and faults, and any lead time, horizon and skew.                        *)
(*                                                                         *)
(* OneDeliveryAtATime is not inductive: it does not say why a lease cannot *)
(* be taken from a delivery that still runs.  A delivery between its claim *)
(* and its record owns the lease, which ends Lease after the delivery's    *)
(* clock reading (Held), and the delivery itself ends earlier (InTime).    *)
(* Whoever finds the lease expired therefore reads a clock at which its    *)
(* holder has ended.  As a reminder has one holder, and its holder counts  *)
(* for one receipt at most, each receipt beyond the first is excused       *)
(* (Accounted).                                                            *)
(*                                                                         *)
(* WatchInv adds what a delivery has read of its appointment (reminders    *)
(* are current, and a moved appointment gets a new one), and ChainInv that *)
(* every reminder still to be sent has a task that wakes it.               *)
(***************************************************************************)
EXTENDS Reminders, WellFoundedInduction, TLAPS

Holding == {"read", "send", "sent", "skip"}
Wakes == {Wake(r, c, a) : r \in Reminders, c \in 0..MaxTime, a \in 0..MaxTime}
Rows == [Reminders -> Stored \cup {Absent}]
Runs == [task : Wakes, at : 0..MaxTime, pc : Steps]

Types ==
    /\ now \in 0..MaxTime
    /\ calendar \in [Bookings -> Visit]
    /\ reminders \in Rows
    /\ queue \subseteq Wakes
    /\ work \in [Workers -> {Idle} \cup Runs]
    /\ delivered \in [Reminders -> Nat] /\ excused \in [Reminders -> Nat]

\* Only reminders that were stored have tasks and deliveries.
Known ==
    /\ \A t \in queue : reminders[t.id] # Absent
    /\ \A w \in Workers : work[w] # Idle => reminders[Subject(w)] # Absent

\* A delivery ends within its HTTP clients' timeouts.
InTime ==
    \A w \in Workers : work[w] # Idle =>
        work[w].at <= now /\ now <= work[w].at + RequestTime + Skew

\* A delivery between its claim and its record owns the lease it took.
Held ==
    \A w \in Workers : Busy(w, Holding) =>
        /\ Owns(w)
        /\ reminders[Subject(w)].expires = work[w].at + Lease

Sent(r) == reminders[r] # Absent /\ reminders[r].status = "sent"
Sending(r) == \E w \in Workers : Busy(w, {"sent"}) /\ Subject(w) = r

\* The one receipt that needs no excuse is recorded or about to be.
Accounted ==
    \A r \in Reminders :
        /\ delivered[r] <= 1 + excused[r]
        /\ ~Sent(r) /\ ~Sending(r) => delivered[r] <= excused[r]

RemindersInv == Types /\ Known /\ InTime /\ Held /\ Accounted

-----------------------------------------------------------------------------
\* A task belongs to its reminder.
LEMMA WakeIsKnown ==
    \A t \in Wakes : t.id \in Reminders
BY DEF Wakes, Wake

LEMMA WakeIsWake ==
    ASSUME NEW r \in Reminders, NEW c \in 0..MaxTime, NEW a \in 0..MaxTime
    PROVE  Wake(r, c, a) \in Wakes /\ Wake(r, c, a).id = r
BY DEF Wakes, Wake

LEMMA NewIsStored == \A at \in 0..MaxTime : NewReminder(at) \in Stored
BY RemindersAssumption DEF NewReminder, Stored, Statuses

\* A worker at a step of its delivery has a task.
LEMMA AtWork ==
    ASSUME Types, NEW w \in Workers
    PROVE  /\ work[w] # Idle => work[w] \in Runs
           /\ \A pcs \in SUBSET Steps : Busy(w, pcs) => work[w] # Idle /\ work[w] \in Runs
           /\ work[w] # Idle => Subject(w) \in Reminders
BY WakeIsKnown DEF Types, Busy, Idle, Runs, Steps, Subject

\* A delivery that moves on, or that ends.
LEMMA MovesOn ==
    ASSUME Types, NEW w \in Workers, work[w] # Idle, NEW pc \in Steps,
           work' = [work EXCEPT ![w].pc = pc]
    PROVE  /\ work' \in [Workers -> {Idle} \cup Runs]
           /\ work'[w] # Idle
           /\ work'[w].pc = pc /\ work'[w].task = work[w].task /\ work'[w].at = work[w].at
           /\ \A v \in Workers \ {w} : work'[v] = work[v]
<1>1. work[w] \in Runs  BY AtWork
<1>2. [work[w] EXCEPT !.pc = pc] \in Runs  BY <1>1 DEF Runs
<1>3. work'[w] = [work[w] EXCEPT !.pc = pc]  BY DEF Types
<1>4. work'[w] # Idle  BY <1>1, <1>2, <1>3 DEF Runs, Idle, Steps
<1>5. QED  BY <1>1, <1>2, <1>3, <1>4 DEF Types, Runs

LEMMA Ends ==
    ASSUME Types, NEW w \in Workers, work' = [work EXCEPT ![w] = Idle]
    PROVE  /\ work' \in [Workers -> {Idle} \cup Runs]
           /\ work'[w] = Idle
           /\ \A v \in Workers \ {w} : work'[v] = work[v]
BY DEF Types

-----------------------------------------------------------------------------
(* Quiet steps: no reminder that was stored changes, and no delivery takes *)
(* hold of one or sends.                                                   *)

Grows ==
    /\ reminders' \in Rows
    /\ \A r \in Reminders : reminders[r] # Absent => reminders'[r] = reminders[r]
    /\ queue' \subseteq Wakes
    /\ \A t \in queue' : reminders'[t.id] # Absent

Proceeds ==
    /\ work' \in [Workers -> {Idle} \cup Runs]
    /\ \A w \in Workers :
         \/ work'[w] = work[w]
         \/ work'[w] = Idle /\ ~Busy(w, {"sent"})
         \/ /\ work[w] # Idle /\ work'[w] # Idle
            /\ work'[w].task = work[w].task /\ work'[w].at = work[w].at
            /\ work'[w].pc \in Holding => Busy(w, Holding)
            /\ ~Busy(w, {"sent"})

Quiet ==
    /\ Grows /\ Proceeds
    /\ now' \in 0..MaxTime /\ calendar' \in [Bookings -> Visit]
    /\ \/ now' = now
       \/ /\ now' = now + 1
          /\ \A w \in Workers : work[w] # Idle => now < work[w].at + RequestTime + Skew
    /\ UNCHANGED history

LEMMA QuietKeepsInv == RemindersInv /\ Quiet => RemindersInv'
<1> SUFFICES ASSUME RemindersInv, Quiet  PROVE RemindersInv'
    OBVIOUS
<1> USE DEF RemindersInv
<1>1. Types'
      BY DEF Quiet, Grows, Proceeds, Types, history
<1>2. ASSUME NEW w \in Workers, work'[w] # Idle
      PROVE  /\ work[w] # Idle /\ Subject(w) \in Reminders
             /\ work'[w].task = work[w].task /\ work'[w].at = work[w].at
             /\ work'[w].pc \in Holding => Busy(w, Holding)
      BY <1>2, AtWork DEF Quiet, Proceeds, Busy
<1>3. Known'
  <2>1. ASSUME NEW w \in Workers, work'[w] # Idle
        PROVE  reminders'[work'[w].task.id] # Absent
        BY <2>1, <1>2 DEF Known, Quiet, Grows, Subject
  <2>2. QED BY <2>1 DEF Known, Quiet, Grows, Subject
<1>4. InTime'
  <2>1. ASSUME NEW w \in Workers, work'[w] # Idle
        PROVE  work'[w].at <= now' /\ now' <= work'[w].at + RequestTime + Skew
    <3>1. work[w].at \in 0..MaxTime
          BY <1>2, <2>1, AtWork DEF Runs
    <3>2. QED BY <3>1, <1>2, <2>1, RemindersAssumption DEF InTime, Quiet, Types
  <2>2. QED BY <2>1 DEF InTime
<1>5. Held'
  <2>1. ASSUME NEW w \in Workers, work'[w].pc \in Holding
        PROVE  /\ reminders'[work'[w].task.id].status = "delivering"
               /\ reminders'[work'[w].task.id].claim = w
               /\ reminders'[work'[w].task.id].expires = work'[w].at + Lease
    <3>1. work'[w] # Idle  BY <2>1 DEF Holding, Idle
    <3>2. reminders'[Subject(w)] = reminders[Subject(w)]
          BY <3>1, <1>2 DEF Quiet, Grows, Known
    <3>3. QED BY <2>1, <3>1, <3>2, <1>2 DEF Held, Owns, Subject
  <2>2. QED BY <2>1 DEF Held, Busy, Owns, Subject
<1>6. Accounted'
  <2>1. ASSUME NEW r \in Reminders
        PROVE  (Sent(r) => Sent(r)') /\ (Sending(r) => Sending(r)')
    <3>1. Sent(r) => Sent(r)'
          BY DEF Sent, Quiet, Grows
    <3>2. ASSUME NEW w \in Workers, Busy(w, {"sent"}) /\ Subject(w) = r
          PROVE  work'[w] = work[w]
          BY <3>2 DEF Quiet, Proceeds
    <3>3. QED BY <3>1, <3>2 DEF Sending, Busy, Subject
  <2>2. QED BY <2>1 DEF Accounted, Quiet, history
<1>7. QED BY <1>1, <1>3, <1>4, <1>5, <1>6

-----------------------------------------------------------------------------
(* Loud steps: one delivery changes its own reminder or what it delivered. *)

Alone(w) ==
    \A v \in Workers \ {w} : Busy(v, Holding) => Subject(v) # Subject(w)

SettlesWork(w) ==
    /\ work[w] # Idle
    /\ work' \in [Workers -> {Idle} \cup Runs]
    /\ \A v \in Workers \ {w} : work'[v] = work[v]
    /\ \/ work'[w] = Idle
       \/ work'[w] # Idle /\ work'[w].task = work[w].task /\ work'[w].at = work[w].at

SettlesRow(w) ==
    LET r == Subject(w) IN
    /\ reminders' \in Rows
    /\ reminders'[r] # Absent
    /\ \A q \in Reminders \ {r} : reminders'[q] = reminders[q]
    /\ reminders' # reminders => Alone(w)
    /\ work'[w].pc \in Holding =>
         /\ reminders'[r].status = "delivering" /\ reminders'[r].claim = w
         /\ reminders'[r].expires = work[w].at + Lease
    /\ queue' \subseteq queue
    /\ UNCHANGED <<now, calendar>>

SettlesAccount(w) ==
    /\ delivered' \in [Reminders -> Nat] /\ excused' \in [Reminders -> Nat]
    /\ \A q \in Reminders :
         IF q = Subject(w)
         THEN /\ delivered'[q] <= 1 + excused'[q]
              /\ ~Sent(q)' /\ ~Sending(q)' => delivered'[q] <= excused'[q]
         ELSE delivered'[q] = delivered[q] /\ excused'[q] = excused[q]

Settles(w) == SettlesWork(w) /\ SettlesRow(w) /\ SettlesAccount(w)

LEMMA SettlingKeepsInv ==
    ASSUME RemindersInv, NEW w \in Workers, Settles(w)
    PROVE  RemindersInv'
<1> USE DEF RemindersInv, Settles
<1> DEFINE r == Subject(w)
<1>0. r \in Reminders  BY AtWork DEF SettlesWork
<1>1. Types'
      BY DEF SettlesWork, SettlesRow, SettlesAccount, Types
<1>2. ASSUME NEW v \in Workers, work'[v] # Idle
      PROVE  /\ work[v] # Idle /\ Subject(v) \in Reminders
             /\ work'[v].task = work[v].task /\ work'[v].at = work[v].at
      BY <1>2, AtWork DEF SettlesWork
<1>3. Known'
  <2>1. ASSUME NEW v \in Workers, work'[v] # Idle
        PROVE  reminders'[work'[v].task.id] # Absent
        BY <2>1, <1>2 DEF Known, SettlesRow, Subject
  <2>2. ASSUME NEW t \in queue'  PROVE reminders'[t.id] # Absent
        BY <2>2, WakeIsKnown DEF Known, SettlesRow, Types
  <2>3. QED BY <2>1, <2>2 DEF Known, Subject
<1>4. InTime'
      BY <1>2 DEF InTime, SettlesRow
<1>5. Held'
  <2>1. ASSUME NEW v \in Workers, work'[v].pc \in Holding
        PROVE  /\ reminders'[work'[v].task.id].status = "delivering"
               /\ reminders'[work'[v].task.id].claim = v
               /\ reminders'[work'[v].task.id].expires = work'[v].at + Lease
    <3>1. work'[v] # Idle  BY <2>1 DEF Holding, Idle
    <3>2. CASE v = w
          BY <3>1, <3>2, <1>2, <2>1 DEF SettlesRow, Subject
    <3>3. CASE v # w
      <4>1. work'[v] = work[v] /\ Busy(v, Holding)
            BY <3>3, <2>1 DEF SettlesWork, Busy
      <4>2. reminders'[Subject(v)] = reminders[Subject(v)]
            BY <4>1, <3>1, <3>3, <1>2 DEF SettlesRow, Alone
      <4>3. QED BY <4>1, <4>2 DEF Held, Owns, Subject
    <3>4. QED BY <3>2, <3>3
  <2>2. QED BY <2>1 DEF Held, Busy, Owns, Subject
<1>6. Accounted'
  <2>1. ASSUME NEW q \in Reminders \ {r}
        PROVE  /\ Sent(q) => Sent(q)'
               /\ Sending(q) => Sending(q)'
    <3>1. Sent(q) => Sent(q)'
          BY DEF Sent, SettlesRow
    <3>2. ASSUME NEW v \in Workers, Busy(v, {"sent"}) /\ Subject(v) = q
          PROVE  work'[v] = work[v]
          BY <3>2 DEF SettlesWork
    <3>3. QED BY <3>1, <3>2 DEF Sending, Busy, Subject
  <2>2. ASSUME NEW q \in Reminders \ {r}
        PROVE  /\ delivered'[q] <= 1 + excused'[q]
               /\ ~Sent(q)' /\ ~Sending(q)' => delivered'[q] <= excused'[q]
        BY <2>1 DEF Accounted, SettlesAccount
  <2>3. QED BY <2>2 DEF Accounted, SettlesAccount
<1>7. QED BY <1>1, <1>3, <1>4, <1>5, <1>6

\* The owner of a lease has its reminder to itself.
LEMMA OwnerIsAlone ==
    ASSUME RemindersInv, NEW w \in Workers, Owns(w)
    PROVE  Alone(w)
BY DEF RemindersInv, Held, Owns, Alone

LEMMA HolderOwns ==
    ASSUME RemindersInv, NEW w \in Workers, Busy(w, Holding)
    PROVE  /\ Owns(w) /\ Alone(w)
           /\ reminders[Subject(w)].expires = work[w].at + Lease
           /\ Subject(w) \in Reminders
           /\ reminders[Subject(w)] \in Stored /\ reminders[Subject(w)] # Absent
           /\ ~Sent(Subject(w))
<1>1. work[w] # Idle  BY DEF Busy, Holding, Idle
<1>2. Subject(w) \in Reminders  BY <1>1, AtWork DEF RemindersInv
<1>3. reminders[Subject(w)] # Absent  BY <1>1 DEF RemindersInv, Known
<1>4. QED BY <1>1, <1>2, <1>3, OwnerIsAlone
          DEF RemindersInv, Held, Types, Rows, Sent, Owns

\* A claim is granted only when the claim before has run out, and a delivery has
\* ended by then.
LEMMA ClaimantIsAlone ==
    ASSUME RemindersInv, NEW w \in Workers, work[w] # Idle,
           ~(reminders[Subject(w)].status = "delivering"
             /\ reminders[Subject(w)].expires > work[w].at)
    PROVE  Alone(w)
<1> SUFFICES ASSUME NEW v \in Workers \ {w}, Busy(v, Holding), Subject(v) = Subject(w)
             PROVE  FALSE
    BY DEF Alone
<1>1. work[v] # Idle /\ work[v].at \in Nat /\ work[w].at \in Nat
      BY AtWork DEF RemindersInv, Busy, Holding, Idle, Runs
<1>2. now \in Nat /\ RequestTime \in Nat /\ Skew \in Nat /\ Lease \in Nat
      BY RemindersAssumption DEF RemindersInv, Types
<1>3. work[w].at <= now /\ now <= work[v].at + RequestTime + Skew
      BY <1>1 DEF RemindersInv, InTime
<1>4. reminders[Subject(w)].status = "delivering"
      /\ reminders[Subject(w)].expires = work[v].at + Lease
      BY HolderOwns DEF Owns
<1>5. QED BY <1>1, <1>2, <1>3, <1>4, RemindersAssumption

-----------------------------------------------------------------------------
(* What the actions do to the reminders and their tasks.                   *)

LEMMA SameStoreGrows ==
    ASSUME RemindersInv, reminders' = reminders, queue' \subseteq queue
    PROVE  Grows
BY WakeIsKnown DEF RemindersInv, Types, Known, Grows

LEMMA StoringGrows ==
    ASSUME RemindersInv, NEW r \in Reminders,
           reminders' = IF reminders[r] = Absent
                        THEN [reminders EXCEPT ![r] = NewReminder(now)] ELSE reminders
    PROVE  /\ reminders' \in Rows
           /\ reminders'[r] \in Stored /\ reminders'[r] # Absent
           /\ \A q \in Reminders : reminders[q] # Absent => reminders'[q] = reminders[q]
BY NewIsStored, RemindersAssumption DEF RemindersInv, Types, Rows

LEMMA PlanGrows ==
    ASSUME RemindersInv, NEW r \in Reminders, PlanAt(r, now) \/ PlanUnqueued(r, now)
    PROVE  Grows
<1>1. CASE UNCHANGED store
      BY <1>1, SameStoreGrows DEF store
<1>2. CASE PlanUnqueued(r, now)
      BY <1>2, StoringGrows, WakeIsKnown DEF PlanUnqueued, Grows, RemindersInv, Types, Known
<1>3. CASE PlanAt(r, now) /\ ~UNCHANGED store
  <2>1. reminders' = IF reminders[r] = Absent
                     THEN [reminders EXCEPT ![r] = NewReminder(now)] ELSE reminders
        BY <1>3 DEF PlanAt, store
  <2> DEFINE created == reminders'[r].created
             next == Wake(r, created, now)
  <2>a. now \in 0..MaxTime
        BY DEF RemindersInv, Types
  <2>b. reminders'[r] \in Stored
        BY <2>1, StoringGrows
  <2>c. created \in 0..MaxTime
        BY <2>b DEF Stored
  <2>2. next \in Wakes /\ next.id = r
    <3> HIDE DEF created
    <3>1. QED BY <2>a, <2>c, WakeIsWake
  <2>3. queue' \subseteq queue \cup {next}
        BY <1>3 DEF PlanAt, Enqueue, store
  <2>4. QED BY <2>1, <2>2, <2>3, StoringGrows, WakeIsKnown
            DEF Grows, RemindersInv, Types, Known
<1>4. QED BY <1>1, <1>2, <1>3

LEMMA StandingStill ==
    ASSUME RemindersInv, UNCHANGED work
    PROVE  Proceeds
BY DEF RemindersInv, Types, Proceeds

\* A delivery that has nothing to record ends, or goes on as it was allowed to.
LEMMA GoingOn ==
    ASSUME RemindersInv, NEW w \in Workers, work[w] # Idle, ~Busy(w, {"sent"}),
           \/ work' = [work EXCEPT ![w] = Idle]
           \/ \E pc \in Steps :
                /\ work' = [work EXCEPT ![w].pc = pc]
                /\ pc \in Holding => Busy(w, Holding)
    PROVE  Proceeds
<1>1. CASE work' = [work EXCEPT ![w] = Idle]
      BY <1>1, Ends DEF RemindersInv, Proceeds
<1>2. ASSUME NEW pc \in Steps, work' = [work EXCEPT ![w].pc = pc],
             pc \in Holding => Busy(w, Holding)
      PROVE  Proceeds
  <2>1. /\ work' \in [Workers -> {Idle} \cup Runs]
        /\ work'[w] # Idle
        /\ work'[w].pc = pc /\ work'[w].task = work[w].task /\ work'[w].at = work[w].at
        /\ \A v \in Workers \ {w} : work'[v] = work[v]
        BY <1>2, MovesOn DEF RemindersInv
  <2>2. QED BY <1>2, <2>1 DEF Proceeds
<1>3. QED BY <1>1, <1>2

LEMMA SameTime ==
    ASSUME RemindersInv, Grows, Proceeds, UNCHANGED <<now, calendar, history>>
    PROVE  Quiet
BY DEF RemindersInv, Types, Quiet

-----------------------------------------------------------------------------
(* The actions.                                                            *)

LEMMA PeopleStep ==
    ASSUME RemindersInv, NEW b \in Bookings, People(b)
    PROVE  RemindersInv'
<1>1. calendar' \in [Bookings -> Visit]
  <2>1. ASSUME NEW s \in Starts, calendar' = Moved(b, s)
        PROVE  calendar' \in [Bookings -> Visit]
        BY <2>1 DEF RemindersInv, Types, Moved, Visit
  <2>2. ASSUME calendar' = [calendar EXCEPT ![b].status = "cancelled"]
        PROVE  calendar' \in [Bookings -> Visit]
    <3>1. [calendar[b] EXCEPT !.status = "cancelled"] \in Visit
          BY DEF RemindersInv, Types, Visit
    <3>2. QED BY <2>2, <3>1 DEF RemindersInv, Types
  <2>3. UNCHANGED calendar \/ (\E s \in Starts : calendar' = Moved(b, s))
        \/ calendar' = [calendar EXCEPT ![b].status = "cancelled"]
        BY DEF People, MoveByAssistant, MoveByStaff, Cancel, OptOut, OptIn
  <2>4. QED BY <2>1, <2>2, <2>3 DEF RemindersInv, Types
<1>2. UNCHANGED <<now, store, work, history>>
      BY DEF People, MoveByAssistant, MoveByStaff, Cancel, OptOut, OptIn, Edit
<1>3. Grows /\ Proceeds
      BY <1>2, SameStoreGrows, StandingStill DEF store
<1>4. QED BY <1>1, <1>2, <1>3, QuietKeepsInv DEF Quiet, RemindersInv, Types

LEMMA PlanStep ==
    ASSUME RemindersInv, NEW r \in Reminders, Plan(r)
    PROVE  RemindersInv'
<1>1. Grows
  <2>1. CASE UNCHANGED store
        BY <2>1, SameStoreGrows DEF store
  <2>2. QED BY <2>1, PlanGrows DEF Plan
<1>2. UNCHANGED <<now, calendar, work, history>>
      BY DEF Plan, people
<1>3. QED BY <1>1, <1>2, StandingStill, SameTime, QuietKeepsInv

LEMMA QueueStep ==
    ASSUME RemindersInv, NEW t \in queue, WakeEarly(t) \/ LoseTask(t)
    PROVE  RemindersInv'
<1>1. UNCHANGED <<now, calendar, work, history, reminders>>
      BY DEF WakeEarly, LoseTask, people
<1>2. Grows
  <2>1. CASE queue' \subseteq queue
        BY <1>1, <2>1, SameStoreGrows
  <2>2. ASSUME NEW at \in (now - Skew .. now) \cap Nat,
               queue' \subseteq queue \cup {Wake(t.id, reminders[t.id].created, at)}
        PROVE  Grows
    <3>1. t.id \in Reminders /\ reminders[t.id] # Absent /\ reminders[t.id] \in Stored
          BY WakeIsKnown DEF RemindersInv, Types, Known, Rows
    <3>2. at \in 0..MaxTime
          BY RemindersAssumption DEF RemindersInv, Types
    <3>3. reminders[t.id].created \in 0..MaxTime
          BY <3>1 DEF Stored
    <3>4. Wake(t.id, reminders[t.id].created, at) \in Wakes
          /\ Wake(t.id, reminders[t.id].created, at).id = t.id
          BY <3>1, <3>2, <3>3, WakeIsWake
    <3>5. QED BY <1>1, <2>2, <3>1, <3>4 DEF RemindersInv, Types, Known, Grows
  <2>3. QED BY <2>1, <2>2 DEF WakeEarly, LoseTask
<1>3. QED BY <1>1, <1>2, StandingStill, SameTime, QuietKeepsInv

LEMMA ReconcileStep ==
    ASSUME RemindersInv, Reconcile
    PROVE  RemindersInv'
<1>1. UNCHANGED <<now, calendar, work, history, reminders>>
      BY DEF Reconcile
<1>2. Grows
  <2>1. ASSUME NEW t \in queue', t \notin queue
        PROVE  t \in Wakes /\ reminders'[t.id] # Absent
    <3>1. PICK r \in Reminders : reminders[r] # Absent
                                 /\ t = Wake(r, reminders[r].created, now)
          BY <2>1 DEF Reconcile, Enqueue
    <3>2. reminders[r].created \in 0..MaxTime /\ now \in 0..MaxTime
          BY <3>1 DEF RemindersInv, Types, Rows, Stored
    <3>3. QED BY <1>1, <3>1, <3>2, WakeIsWake
  <2>2. QED BY <1>1, <2>1 DEF RemindersInv, Types, Known, Grows
<1>3. QED BY <1>1, <1>2, StandingStill, SameTime, QuietKeepsInv

LEMMA TickStep ==
    ASSUME RemindersInv, Tick
    PROVE  RemindersInv'
<1>1. Grows /\ Proceeds
      BY SameStoreGrows, StandingStill DEF Tick, store
<1>2. now' \in 0..MaxTime
      BY RemindersAssumption DEF RemindersInv, Types, Tick
<1>3. QED BY <1>1, <1>2, QuietKeepsInv DEF Quiet, Tick, people, RemindersInv, Types

\* A delivery begins with the time of its own clock.
LEMMA DispatchStep ==
    ASSUME RemindersInv, NEW w \in Workers, NEW t \in queue, Dispatch(w, t)
    PROVE  RemindersInv'
<1> USE DEF RemindersInv
<1>1. PICK at \in (now - Skew .. now) \cap Nat :
        work' = [work EXCEPT ![w] = [task |-> t, at |-> at, pc |-> "claim"]]
      BY DEF Dispatch
<1>2. work[w] = Idle /\ UNCHANGED <<now, calendar, reminders, queue, history>>
      BY DEF Dispatch, people, store
<1>3. at \in 0..MaxTime /\ at <= now /\ now <= at + RequestTime + Skew
      BY RemindersAssumption DEF Types
<1>4. /\ work' \in [Workers -> {Idle} \cup Runs]
      /\ work'[w] = [task |-> t, at |-> at, pc |-> "claim"]
      /\ \A v \in Workers \ {w} : work'[v] = work[v]
      BY <1>1, <1>3 DEF Types, Runs, Steps
<1>5. Types'
      BY <1>2, <1>4 DEF Types, history
<1>6. Known'
      BY <1>2, <1>4 DEF Known, Subject
<1>7. InTime'
      BY <1>2, <1>3, <1>4 DEF InTime
<1>8. Held'
  <2>1. ASSUME NEW v \in Workers, work'[v].pc \in Holding
        PROVE  v # w
        BY <2>1, <1>4 DEF Holding
  <2>2. QED BY <1>2, <1>4, <2>1 DEF Held, Busy, Owns, Subject
<1>9. Accounted'
  <2>1. \A r \in Reminders : Sent(r)' = Sent(r)
        BY <1>2 DEF Sent
  <2>2. \A r \in Reminders : Sending(r) => Sending(r)'
    <3>1. ~Busy(w, {"sent"})  BY <1>2 DEF Busy, Idle
    <3>2. QED BY <1>4, <3>1 DEF Sending, Busy, Subject
  <2>3. QED BY <1>2, <2>1, <2>2 DEF Accounted, history
<1>10. QED BY <1>5, <1>6, <1>7, <1>8, <1>9

\* A change of the three fields of a claim, one after another.
LEMMA RowFields ==
    ASSUME NEW row \in Stored, NEW s, NEW c, NEW e
    PROVE  [row EXCEPT !.status = s, !.claim = c, !.expires = e]
             = [status |-> s, created |-> row.created, claim |-> c, expires |-> e]
<1> DEFINE first == [row EXCEPT !.status = s]
           second == [first EXCEPT !.claim = c]
<1>1. first = [status |-> s, created |-> row.created,
               claim |-> row.claim, expires |-> row.expires]
      BY DEF Stored
<1>2. [row EXCEPT !.status = s, !.claim = c, !.expires = e] = [second EXCEPT !.expires = e]
      OBVIOUS
<1> HIDE DEF first
<1>3. second = [status |-> s, created |-> row.created,
                claim |-> c, expires |-> row.expires]
      BY <1>1
<1> HIDE DEF second
<1>4. [second EXCEPT !.expires = e]
        = [status |-> s, created |-> row.created, claim |-> c, expires |-> e]
      BY <1>3
<1>5. QED BY <1>2, <1>4

LEMMA RowChanges ==
    ASSUME RemindersInv, NEW w \in Workers, work[w] # Idle,
           NEW status \in Statuses, NEW c \in Workers \cup {Nobody},
           NEW e \in 0..(MaxTime + Lease),
           reminders' = [reminders EXCEPT ![Subject(w)].status = status,
                           ![Subject(w)].claim = c, ![Subject(w)].expires = e]
    PROVE  LET r == Subject(w) IN
           /\ reminders' \in Rows /\ reminders'[r] # Absent
           /\ reminders'[r].status = status /\ reminders'[r].claim = c
           /\ reminders'[r].expires = e
           /\ \A q \in Reminders \ {r} : reminders'[q] = reminders[q]
<1> DEFINE r == Subject(w)
<1>1. r \in Reminders /\ reminders[r] \in Stored
      BY AtWork DEF RemindersInv, Types, Known, Rows
<1> DEFINE row == reminders[r]
           new == [row EXCEPT !.status = status, !.claim = c, !.expires = e]
<1>2. /\ new \in Stored
      /\ new.status = status /\ new.claim = c /\ new.expires = e
  <2> HIDE DEF row
  <2>1. row \in Stored
        BY <1>1 DEF row
  <2>2. new = [status |-> status, created |-> row.created, claim |-> c, expires |-> e]
    <3> HIDE DEF new
    <3>1. new = [row EXCEPT !.status = status, !.claim = c, !.expires = e]
          BY Zenon DEF new
    <3>2. QED BY <2>1, <3>1, RowFields, Zenon
  <2> HIDE DEF new
  <2>3. QED BY <2>1, <2>2 DEF Stored
<1>3. reminders' = [reminders EXCEPT ![r] = new]
      BY DEF RemindersInv, Types, Rows
<1> HIDE DEF new, r
<1>4. reminders' \in Rows /\ reminders'[r] = new
      /\ \A q \in Reminders \ {r} : reminders'[q] = reminders[q]
  <2>1. reminders \in [Reminders -> Stored \cup {Absent}]
        BY DEF RemindersInv, Types, Rows
  <2>2. new \in Stored \cup {Absent}
        BY <1>2
  <2>3. QED BY <1>1, <1>3, <2>1, <2>2 DEF Rows
<1>5. new # Absent  BY <1>2, RemindersAssumption
<1>6. QED BY <1>2, <1>4, <1>5 DEF r

\* A delivery that stops, or goes on from one step that holds the reminder to
\* another, settles its work.
LEMMA StopSettles ==
    ASSUME RemindersInv, NEW w \in Workers, work[w] # Idle, Stop(w)
    PROVE  /\ SettlesWork(w) /\ work'[w].pc \notin Holding
           /\ \A v \in Workers \ {w} : work'[v] = work[v]
<1>1. /\ work' \in [Workers -> {Idle} \cup Runs]
      /\ work'[w] = Idle
      /\ \A v \in Workers \ {w} : work'[v] = work[v]
      BY Ends DEF RemindersInv, Stop
<1>2. Idle.pc \notin Holding
      BY DEF Idle, Holding
<1>3. QED BY <1>1, <1>2 DEF SettlesWork

LEMMA GotoSettles ==
    ASSUME RemindersInv, NEW w \in Workers, work[w] # Idle,
           NEW pc \in Steps, Goto(w, pc)
    PROVE  /\ SettlesWork(w) /\ work'[w].pc = pc
           /\ work'[w].task = work[w].task
           /\ \A v \in Workers \ {w} : work'[v] = work[v]
<1>1. /\ work' \in [Workers -> {Idle} \cup Runs]
      /\ work'[w] # Idle
      /\ work'[w].pc = pc /\ work'[w].task = work[w].task /\ work'[w].at = work[w].at
      /\ \A v \in Workers \ {w} : work'[v] = work[v]
      BY MovesOn DEF RemindersInv, Goto
<1>2. QED BY <1>1 DEF SettlesWork

\* What was delivered stays as it is, and no delivery that counts ends.
LEMMA SameAccount ==
    ASSUME RemindersInv, NEW w \in Workers, UNCHANGED history,
           work[w] # Idle, ~Busy(w, {"sent"}),
           \A v \in Workers \ {w} : work'[v] = work[v],
           ~Sent(Subject(w))
    PROVE  SettlesAccount(w)
<1>1. \A q \in Reminders : Sending(q) => Sending(q)'
      BY DEF Sending, Busy, Subject
<1>2. QED BY <1>1 DEF RemindersInv, Types, Accounted, SettlesAccount, history

LEMMA ClaimStep ==
    ASSUME RemindersInv, NEW w \in Workers, ClaimReminder(w)
    PROVE  RemindersInv'
<1> DEFINE r == Subject(w)
<1>1. /\ Busy(w, {"claim"}) /\ work[w] # Idle /\ ~Busy(w, {"sent"})
      /\ UNCHANGED <<now, calendar, history>>
      BY DEF ClaimReminder, Busy, Idle, people
<1>2. CASE Stop(w) /\ UNCHANGED reminders /\ queue' \subseteq queue
  <2>1. Grows /\ Proceeds
        BY <1>1, <1>2, SameStoreGrows, GoingOn DEF Stop
  <2>2. QED BY <1>1, <2>1, SameTime, QuietKeepsInv
<1>3. CASE /\ ~Terminal(r)
           /\ ~(reminders[r].status = "delivering" /\ reminders[r].expires > work[w].at)
           /\ reminders' = [reminders EXCEPT ![r].status = "delivering",
                              ![r].claim = w, ![r].expires = work[w].at + Lease]
           /\ Goto(w, "read") /\ UNCHANGED queue
  <2>1. work[w].at + Lease \in 0..(MaxTime + Lease)
        BY <1>1, AtWork, RemindersAssumption DEF RemindersInv, Runs
  <2>2. /\ reminders' \in Rows /\ reminders'[r] # Absent
        /\ reminders'[r].status = "delivering" /\ reminders'[r].claim = w
        /\ reminders'[r].expires = work[w].at + Lease
        /\ \A q \in Reminders \ {r} : reminders'[q] = reminders[q]
        BY <1>1, <1>3, <2>1, RowChanges DEF Statuses
  <2>3. SettlesWork(w) /\ \A v \in Workers \ {w} : work'[v] = work[v]
        BY <1>1, <1>3, GotoSettles DEF Steps
  <2>4. Alone(w)
        BY <1>1, <1>3, ClaimantIsAlone
  <2>5. SettlesRow(w)
        BY <1>1, <1>3, <2>2, <2>4 DEF SettlesRow
  <2>6. SettlesAccount(w)
        BY <1>1, <1>3, <2>3, SameAccount DEF Sent, Terminal
  <2>7. QED BY <2>3, <2>5, <2>6, SettlingKeepsInv DEF Settles
<1>4. QED BY <1>2, <1>3 DEF ClaimReminder, Acknowledge

LEMMA ReadStep ==
    ASSUME RemindersInv, NEW w \in Workers, ReadAppointment(w)
    PROVE  RemindersInv'
<1> DEFINE r == Subject(w)
           c == ReadBooking(r[1])
<1>1. /\ Busy(w, {"read"}) /\ work[w] # Idle /\ Busy(w, Holding) /\ ~Busy(w, {"sent"})
      /\ UNCHANGED <<now, calendar, history>>
      BY DEF ReadAppointment, Busy, Idle, people, Holding
<1>2. r \in Reminders
      BY <1>1, AtWork DEF RemindersInv
<1>3. c \in Visit /\ r[1] \in Bookings
      BY <1>2 DEF RemindersInv, Types, ReadBooking, Reminders
<1>4. <<r[1], c.start>> \in Reminders
      BY <1>3 DEF Visit, Reminders
<1>5. UNCHANGED store \/ PlanAt(<<r[1], c.start>>, now)
      BY DEF ReadAppointment, PlanMoved
<1>6. Grows
  <2>1. CASE UNCHANGED store
        BY <2>1, SameStoreGrows DEF store
  <2>2. QED BY <1>4, <1>5, <2>1, PlanGrows
<1>7. Goto(w, "send") \/ Goto(w, "skip")
      BY DEF ReadAppointment
<1>8. Proceeds
      BY <1>1, <1>7, GoingOn DEF Goto, Steps
<1>9. QED BY <1>1, <1>6, <1>8, SameTime, QuietKeepsInv

LEMMA FailStep ==
    ASSUME RemindersInv, NEW w \in Workers, Fail(w)
    PROVE  RemindersInv'
<1> DEFINE r == Subject(w)
           c == ReadBooking(r[1])
<1>1. /\ Busy(w, {"read"}) /\ work[w] # Idle /\ ~Busy(w, {"sent"})
      /\ UNCHANGED <<now, calendar, history>>
      BY DEF Fail, Busy, Idle, people
<1>2. r \in Reminders
      BY <1>1, AtWork DEF RemindersInv
<1>3. <<r[1], c.start>> \in Reminders
      BY <1>2 DEF RemindersInv, Types, ReadBooking, Reminders, Visit
<1>4. UNCHANGED store \/ PlanUnqueued(<<r[1], c.start>>, now)
      BY DEF Fail
<1>5. Grows
  <2>1. CASE UNCHANGED store
        BY <2>1, SameStoreGrows DEF store
  <2>2. QED BY <1>3, <1>4, <2>1, PlanGrows
<1>6. Proceeds
      BY <1>1, GoingOn DEF Fail, Goto, Steps, Holding
<1>7. QED BY <1>1, <1>5, <1>6, SameTime, QuietKeepsInv

\* A step that leaves the reminder as it is settles its row, if the delivery goes
\* on holding it or ends.
LEMMA SameRow ==
    ASSUME RemindersInv, NEW w \in Workers, work[w] # Idle,
           UNCHANGED <<now, calendar, reminders>>, queue' \subseteq queue,
           work'[w].pc \in Holding => Busy(w, Holding)
    PROVE  SettlesRow(w)
<1>1. reminders[Subject(w)] # Absent
      BY DEF RemindersInv, Known
<1>2. work'[w].pc \in Holding => Owns(w) /\ reminders[Subject(w)].expires = work[w].at + Lease
      BY HolderOwns
<1>3. QED BY <1>1, <1>2 DEF RemindersInv, Types, SettlesRow, Owns

LEMMA SendStep ==
    ASSUME RemindersInv, NEW w \in Workers, Send(w)
    PROVE  RemindersInv'
<1> DEFINE r == Subject(w)
<1>1. /\ Busy(w, {"send"}) /\ work[w] # Idle /\ ~Busy(w, {"sent"}) /\ Busy(w, Holding)
      /\ UNCHANGED <<now, calendar, reminders, queue>>
      BY DEF Send, Busy, Idle, Holding, people, store
<1>2. r \in Reminders /\ ~Sent(r) /\ Alone(w)
      BY <1>1, HolderOwns
<1>3. ~Sending(r)
      BY <1>1, <1>2 DEF Sending, Alone, Busy, Holding
<1>4. delivered[r] <= excused[r] /\ delivered[r] \in Nat /\ excused[r] \in Nat
      BY <1>2, <1>3 DEF RemindersInv, Accounted, Types
<1>5. CASE Goto(w, "sent") /\ delivered' = [delivered EXCEPT ![r] = @ + 1] /\ UNCHANGED excused
  <2>1. SettlesWork(w) /\ work'[w].pc = "sent" /\ work'[w].task = work[w].task
        BY <1>1, <1>5, GotoSettles DEF Steps
  <2>2. \A q \in Reminders : q = r => Sending(q)'
        BY <2>1 DEF Sending, Busy, Subject
  <2>3. SettlesRow(w)
        BY <1>1, SameRow
  <2>4. delivered'[r] <= 1 + excused'[r]
        BY <1>2, <1>4, <1>5 DEF RemindersInv, Types
  <2>5. SettlesAccount(w)
        BY <1>2, <1>5, <2>2, <2>4 DEF SettlesAccount, RemindersInv, Types
  <2>6. QED BY <2>1, <2>3, <2>5, SettlingKeepsInv DEF Settles
<1>6. CASE Goto(w, "release") /\ UNCHANGED history
  <2>1. Grows /\ Proceeds
        BY <1>1, <1>6, SameStoreGrows, GoingOn DEF Goto, Steps, Holding
  <2>2. QED BY <1>1, <1>6, <2>1, SameTime, QuietKeepsInv
<1>7. CASE /\ Goto(w, "release")
           /\ delivered' = [delivered EXCEPT ![r] = @ + 1]
           /\ excused' = [excused EXCEPT ![r] = @ + 1]
  <2>1. SettlesWork(w) /\ work'[w].pc = "release"
        BY <1>1, <1>7, GotoSettles DEF Steps
  <2>2. SettlesRow(w)
        BY <1>1, SameRow
  <2>3. delivered'[r] <= excused'[r] /\ delivered'[r] <= 1 + excused'[r]
        BY <1>2, <1>4, <1>7 DEF RemindersInv, Types
  <2>4. SettlesAccount(w)
        BY <1>2, <1>7, <2>3 DEF SettlesAccount, RemindersInv, Types
  <2>5. QED BY <2>1, <2>2, <2>4, SettlingKeepsInv DEF Settles
<1>8. QED BY <1>5, <1>6, <1>7 DEF Send

\* The owner's record: the reminder's end or its release, and the lease is gone.
LEMMA RecordSettles ==
    ASSUME RemindersInv, NEW w \in Workers, work[w] # Idle, Owns(w), Stop(w),
           UNCHANGED <<now, calendar>>, queue' \subseteq queue,
           NEW status \in {"sent", "skipped", "scheduled"},
           reminders' = [reminders EXCEPT ![Subject(w)].status = status,
                           ![Subject(w)].claim = Nobody, ![Subject(w)].expires = 0]
    PROVE  /\ SettlesWork(w) /\ SettlesRow(w)
           /\ \A v \in Workers \ {w} : work'[v] = work[v]
           /\ reminders'[Subject(w)].status = status
<1>1. SettlesWork(w) /\ work'[w].pc \notin Holding
      /\ \A v \in Workers \ {w} : work'[v] = work[v]
      BY StopSettles
<1>2. 0 \in 0..(MaxTime + Lease)
      BY RemindersAssumption
<1>3. LET r == Subject(w) IN
      /\ reminders' \in Rows /\ reminders'[r] # Absent
      /\ reminders'[r].status = status
      /\ \A q \in Reminders \ {r} : reminders'[q] = reminders[q]
      BY <1>2, RowChanges DEF Statuses
<1>4. Alone(w)
      BY OwnerIsAlone
<1>5. QED BY <1>1, <1>3, <1>4 DEF SettlesRow

\* A sent reminder whose record is written is accounted for by it; one whose
\* record is lost is excused.
LEMMA SentStep ==
    ASSUME RemindersInv, NEW w \in Workers, Busy(w, {"sent"}), Stop(w),
           UNCHANGED <<now, calendar, delivered>>, queue' \subseteq queue,
           \/ FinishReminder(w, "sent") /\ UNCHANGED excused
           \/ /\ UNCHANGED reminders
              /\ excused' = [excused EXCEPT ![Subject(w)] = @ + 1]
    PROVE  RemindersInv'
<1> DEFINE r == Subject(w)
<1>1. work[w] # Idle /\ Busy(w, Holding)
      BY DEF Busy, Idle, Holding
<1>2. r \in Reminders /\ Owns(w)
      BY <1>1, HolderOwns
<1>3. delivered[r] <= 1 + excused[r] /\ delivered[r] \in Nat /\ excused[r] \in Nat
      BY <1>2 DEF RemindersInv, Accounted, Types
<1>4. CASE FinishReminder(w, "sent") /\ UNCHANGED excused
  <2>1. reminders' = [reminders EXCEPT ![r].status = "sent", ![r].claim = Nobody,
                        ![r].expires = 0]
        BY <1>2, <1>4 DEF FinishReminder
  <2>2. SettlesWork(w) /\ SettlesRow(w) /\ reminders'[r].status = "sent"
        BY <1>1, <1>2, <2>1, RecordSettles
  <2>3. \A q \in Reminders : q = r => Sent(q)'
        BY <2>2 DEF SettlesRow, Sent
  <2>4. SettlesAccount(w)
        BY <1>3, <1>4, <2>3 DEF SettlesAccount, RemindersInv, Types
  <2>5. QED BY <2>2, <2>4, SettlingKeepsInv DEF Settles
<1>5. CASE UNCHANGED reminders /\ excused' = [excused EXCEPT ![r] = @ + 1]
  <2>1. SettlesWork(w) /\ work'[w].pc \notin Holding
        BY <1>1, StopSettles
  <2>2. SettlesRow(w)
        BY <1>1, <1>5, <2>1, SameRow
  <2>3. delivered'[r] <= excused'[r] /\ delivered'[r] <= 1 + excused'[r]
        BY <1>2, <1>3, <1>5 DEF RemindersInv, Types
  <2>4. SettlesAccount(w)
        BY <1>2, <1>5, <2>3 DEF SettlesAccount, RemindersInv, Types
  <2>5. QED BY <2>1, <2>2, <2>4, SettlingKeepsInv DEF Settles
<1>6. QED BY <1>4, <1>5

LEMMA EndStep ==
    ASSUME RemindersInv, NEW w \in Workers,
           FinishSent(w) \/ FinishSkipped(w) \/ ReleaseReminder(w) \/ Crash(w)
    PROVE  RemindersInv'
<1> DEFINE r == Subject(w)
<1>1. UNCHANGED <<now, calendar, delivered>> /\ queue' \subseteq queue /\ Stop(w)
      BY DEF FinishSent, FinishSkipped, ReleaseReminder, Crash, people, history, Acknowledge
<1>2. CASE Busy(w, {"sent"})
  <2>1. \/ FinishReminder(w, "sent") /\ UNCHANGED excused
        \/ UNCHANGED reminders /\ excused' = [excused EXCEPT ![r] = @ + 1]
        BY <1>2 DEF FinishSent, FinishSkipped, ReleaseReminder, Crash, Busy
  <2>2. QED BY <1>1, <1>2, <2>1, SentStep
<1>3. CASE ~Busy(w, {"sent"})
  <2>1. work[w] # Idle /\ UNCHANGED history
        BY <1>1, <1>3 DEF FinishSent, FinishSkipped, ReleaseReminder, Crash, Busy, Idle, history
  <2>2. CASE UNCHANGED reminders
    <3>1. Grows /\ Proceeds
          BY <1>1, <1>3, <2>1, <2>2, SameStoreGrows, GoingOn DEF Stop
    <3>2. QED BY <1>1, <2>1, <3>1, SameTime, QuietKeepsInv
  <2>3. ASSUME NEW status \in {"skipped", "scheduled"}, Owns(w),
               reminders' = [reminders EXCEPT ![r].status = status,
                               ![r].claim = Nobody, ![r].expires = 0]
        PROVE  RemindersInv'
    <3>1. SettlesWork(w) /\ SettlesRow(w) /\ \A v \in Workers \ {w} : work'[v] = work[v]
          BY <1>1, <2>1, <2>3, RecordSettles
    <3>2. SettlesAccount(w)
          BY <1>3, <2>1, <2>3, <3>1, SameAccount DEF Owns, Sent
    <3>3. QED BY <3>1, <3>2, SettlingKeepsInv DEF Settles
  <2>4. QED BY <1>3, <2>2, <2>3
            DEF FinishSent, FinishSkipped, ReleaseReminder, Crash, FinishReminder
<1>4. QED BY <1>2, <1>3

-----------------------------------------------------------------------------
LEMMA RemindersStart == Init => RemindersInv
<1> SUFFICES ASSUME Init PROVE RemindersInv
    OBVIOUS
<1>1. \A w \in Workers : ~Busy(w, Holding) /\ ~Busy(w, {"sent"})
      BY DEF Init, Busy, Idle, Holding
<1>2. Types
  <2>1. 0 \in 0..MaxTime  BY RemindersAssumption
  <2>2. calendar \in [Bookings -> Visit]  BY DEF Init
  <2>3. QED BY <2>1, <2>2 DEF Init, Types, Rows
<1>3. Known /\ InTime
      BY DEF Init, Known, InTime
<1>4. Held /\ Accounted
      BY <1>1 DEF Init, Held, Accounted
<1>5. QED BY <1>2, <1>3, <1>4 DEF RemindersInv

LEMMA RemindersStep == RemindersInv /\ [Next]_vars => RemindersInv'
<1> SUFFICES ASSUME RemindersInv, [Next]_vars PROVE RemindersInv'
    OBVIOUS
<1>1. CASE UNCHANGED vars
  <2>1. Grows /\ Proceeds
        BY <1>1, SameStoreGrows, StandingStill DEF vars, store
  <2>2. QED BY <1>1, <2>1, SameTime, QuietKeepsInv DEF vars, people, history
<1>2. CASE \E w \in Workers : Deliver(w) \/ Fail(w) \/ Crash(w)
      BY <1>2, ClaimStep, ReadStep, SendStep, EndStep, FailStep DEF Deliver
<1>3. CASE \/ \E b \in Bookings : People(b)
           \/ \E r \in Reminders : Plan(r)
           \/ \E t \in queue : WakeEarly(t) \/ LoseTask(t) \/ \E w \in Workers : Dispatch(w, t)
           \/ Reconcile \/ Tick
      BY <1>3, PeopleStep, PlanStep, QueueStep, DispatchStep, ReconcileStep, TickStep
<1>4. QED BY <1>1, <1>2, <1>3 DEF Next

\* The inductive invariant: types, the claim of every running delivery with the
\* time it has left, and what the customer received.
THEOREM RemindersInvariance == Spec => []RemindersInv
<1>1. Init => RemindersInv  BY RemindersStart
<1>2. RemindersInv /\ [Next]_vars => RemindersInv'  BY RemindersStep
<1>3. QED BY <1>1, <1>2, PTL DEF Spec

\* Two deliveries never hold one reminder between its claim and its record: the
\* claim of ClaimReminder outlasts the requests a delivery makes.
THEOREM OneDelivery == Spec => []OneDeliveryAtATime
<1>1. RemindersInv => OneDeliveryAtATime
      BY HolderOwns DEF OneDeliveryAtATime, Alone, Holding
<1>2. QED BY <1>1, RemindersInvariance, PTL

\* The customer receives a reminder a second time only for a delivery whose record
\* was lost (Deliver's ambiguous send, failed FinishReminder or crash).
THEOREM DuplicatesExplained == Spec => []DuplicatesAreExplained
<1>1. RemindersInv => DuplicatesAreExplained
      BY DEF RemindersInv, Accounted, DuplicatesAreExplained
<1>2. QED BY <1>1, RemindersInvariance, PTL

-----------------------------------------------------------------------------
(* What a delivery read stays true until it acts on it, or the delivery is *)
(* one of those that were disturbed.                                       *)

\* The assistant's own record never shows less than the calendar.
Followed ==
    /\ consents \in [Bookings -> BOOLEAN] /\ local \in [Bookings -> Visit]
    /\ \A b \in Bookings : local[b].status # "confirmed" => calendar[b].status # "confirmed"

Announces(w) ==
    LET r == Subject(w) IN
    /\ calendar[r[1]] = [status |-> "confirmed", start |-> r[2]]
    /\ consents[r[1]]

Replanned(w) ==
    LET b == Subject(w)[1] IN
    \/ calendar[b].status # "confirmed" \/ calendar[b].start - LeadTime <= now
    \/ ~consents[b]
    \/ reminders[<<b, calendar[b].start>>] # Absent

Watched ==
    \A w \in Workers \ disturbed :
        /\ Busy(w, {"send"}) => Announces(w)
        /\ Busy(w, {"skip"}) => Replanned(w)

WatchInv == RemindersInv /\ Followed /\ Watched

LEMMA OwnerRecords ==
    ASSUME RemindersInv, NEW w \in Workers, work[w] # Idle,
           NEW status \in {"sent", "skipped", "scheduled"}, Owns(w),
           reminders' = [reminders EXCEPT ![Subject(w)].status = status,
                           ![Subject(w)].claim = Nobody, ![Subject(w)].expires = 0],
           NEW r \in Reminders, reminders[r] # Absent
    PROVE  reminders'[r] # Absent
<1>1. 0 \in 0..(MaxTime + Lease)
      BY RemindersAssumption
<1>2. /\ reminders'[Subject(w)] # Absent
      /\ \A q \in Reminders \ {Subject(w)} : reminders'[q] = reminders[q]
      BY <1>1, RowChanges DEF Statuses
<1>3. QED BY <1>2

\* A stored reminder is never removed.
LEMMA StoredStays ==
    ASSUME RemindersInv, Next, NEW r \in Reminders, reminders[r] # Absent
    PROVE  reminders'[r] # Absent
<1>1. CASE UNCHANGED reminders
      BY <1>1
<1>2. ASSUME NEW q \in Reminders, PlanAt(q, now) \/ PlanUnqueued(q, now)
      PROVE  reminders'[r] # Absent
      BY <1>2, PlanGrows DEF Grows
<1>3. CASE \E q \in Reminders : Plan(q)
      BY <1>1, <1>2, <1>3 DEF Plan, store
<1>4. ASSUME NEW w \in Workers, Deliver(w) \/ Fail(w) \/ Crash(w)
      PROVE  reminders'[r] # Absent
  <2>1. work[w] # Idle
        BY <1>4 DEF Deliver, Fail, Crash, ClaimReminder, ReadAppointment, Send, FinishSent,
                    FinishSkipped, ReleaseReminder, Busy, Idle
  <2>2. CASE ReadAppointment(w) \/ Fail(w)
    <3> DEFINE q == <<Subject(w)[1], ReadBooking(Subject(w)[1]).start>>
    <3>1. q \in Reminders
          BY <2>1, AtWork DEF RemindersInv, Types, Reminders, ReadBooking, Visit
    <3>2. UNCHANGED reminders \/ PlanAt(q, now) \/ PlanUnqueued(q, now)
          BY <2>2 DEF ReadAppointment, Fail, PlanMoved, store
    <3>3. QED BY <1>1, <1>2, <3>1, <3>2
  <2>3. CASE ClaimReminder(w)
    <3>1. CASE reminders' = [reminders EXCEPT ![Subject(w)].status = "delivering",
                               ![Subject(w)].claim = w,
                               ![Subject(w)].expires = work[w].at + Lease]
      <4>1. work[w].at + Lease \in 0..(MaxTime + Lease)
            BY <2>1, AtWork, RemindersAssumption DEF RemindersInv, Runs
      <4>2. /\ reminders'[Subject(w)] # Absent
            /\ \A q \in Reminders \ {Subject(w)} : reminders'[q] = reminders[q]
            BY <2>1, <3>1, <4>1, RowChanges DEF Statuses
      <4>3. QED BY <4>2
    <3>2. QED BY <1>1, <2>3, <3>1 DEF ClaimReminder
  <2>4. CASE Send(w)
        BY <1>1, <2>4 DEF Send, store
  <2>5. CASE FinishSent(w) \/ FinishSkipped(w) \/ ReleaseReminder(w) \/ Crash(w)
    <3>1. \/ UNCHANGED reminders
          \/ /\ Owns(w)
             /\ \E status \in {"sent", "skipped", "scheduled"} :
                  reminders' = [reminders EXCEPT ![Subject(w)].status = status,
                                  ![Subject(w)].claim = Nobody, ![Subject(w)].expires = 0]
          BY <2>5 DEF FinishSent, FinishSkipped, ReleaseReminder, Crash, FinishReminder
    <3>2. QED BY <1>1, <2>1, <3>1, OwnerRecords
  <2>6. QED BY <1>4, <2>2, <2>3, <2>4, <2>5 DEF Deliver
<1>5. CASE \/ \E b \in Bookings : People(b)
           \/ \E t \in queue : WakeEarly(t) \/ LoseTask(t) \/ \E w \in Workers : Dispatch(w, t)
           \/ Reconcile \/ Tick
      BY <1>1, <1>5 DEF People, MoveByAssistant, MoveByStaff, Cancel, OptOut, OptIn, Edit,
                        WakeEarly, LoseTask, Dispatch, Reconcile, Tick, store
<1>6. QED BY <1>3, <1>4, <1>5 DEF Next

\* A step that leaves the appointments and the consents alone, and lets no
\* delivery reach its decision, keeps what the others have read.
LEMMA WatchKept ==
    ASSUME WatchInv, RemindersInv', UNCHANGED <<calendar, consents>>, now' >= now,
           \A r \in Reminders : reminders[r] # Absent => reminders'[r] # Absent,
           \A w \in Workers \ disturbed' :
               work'[w].pc \in {"send", "skip"} => work'[w] = work[w] /\ w \notin disturbed
    PROVE  Watched'
<1>1. ASSUME NEW w \in Workers \ disturbed', work'[w].pc \in {"send", "skip"}
      PROVE  /\ work'[w].pc = "send" => Announces(w)'
             /\ work'[w].pc = "skip" => Replanned(w)'
  <2>1. work'[w] = work[w] /\ w \notin disturbed /\ work[w] # Idle
        BY <1>1 DEF Idle
  <2>2. Subject(w) \in Reminders /\ Subject(w)' = Subject(w)
        BY <2>1, AtWork DEF WatchInv, RemindersInv, Subject
  <2>3. /\ work[w].pc = "send" => Announces(w)
        /\ work[w].pc = "skip" => Replanned(w)
        BY <2>1 DEF WatchInv, Watched, Busy
  <2>4. Subject(w)[1] \in Bookings /\ calendar[Subject(w)[1]].start \in Int
        /\ <<Subject(w)[1], calendar[Subject(w)[1]].start>> \in Reminders
    <3>1. Subject(w)[1] \in Bookings
          BY <2>2 DEF Reminders
    <3>2. calendar[Subject(w)[1]] \in Visit
          BY <3>1 DEF WatchInv, RemindersInv, Types
    <3>3. calendar[Subject(w)[1]].start \in Starts
          BY <3>2 DEF Visit
    <3>4. Starts \subseteq Int
          BY RemindersAssumption
    <3>5. <<Subject(w)[1], calendar[Subject(w)[1]].start>> \in Reminders
          BY <3>1, <3>3 DEF Reminders
    <3>6. QED BY <3>1, <3>3, <3>4, <3>5
  <2>5. now \in Int /\ now' \in Int
        BY DEF WatchInv, RemindersInv, Types
  <2>6. work[w].pc = "send" => Announces(w)'
        BY <2>2, <2>3 DEF Announces
  <2>7. work[w].pc = "skip" => Replanned(w)'
        BY <2>2, <2>3, <2>4, <2>5, RemindersAssumption DEF Replanned
  <2>8. QED BY <2>1, <2>6, <2>7
<1>2. QED BY <1>1 DEF Watched, Busy

\* A change of an appointment disturbs every delivery about it.
LEMMA PeopleWatched ==
    ASSUME WatchInv, RemindersInv', NEW b \in Bookings, People(b)
    PROVE  Followed' /\ Watched'
<1>1. /\ disturbed' = disturbed \cup {w \in Workers : work[w] # Idle /\ Subject(w)[1] = b}
      /\ UNCHANGED <<now, work, reminders>>
      BY DEF People, MoveByAssistant, MoveByStaff, Cancel, OptOut, OptIn, Edit, store
<1>2. /\ calendar \in [Bookings -> Visit] /\ local \in [Bookings -> Visit]
      /\ consents \in [Bookings -> BOOLEAN] /\ calendar' \in [Bookings -> Visit]
      BY DEF WatchInv, RemindersInv, Types, Followed
<1>3. \A c \in Bookings \ {b} :
        calendar'[c] = calendar[c] /\ consents'[c] = consents[c] /\ local'[c] = local[c]
      BY <1>2 DEF People, MoveByAssistant, MoveByStaff, Cancel, OptOut, OptIn, Moved
<1>4. /\ consents' \in [Bookings -> BOOLEAN] /\ local' \in [Bookings -> Visit]
      /\ local'[b].status # "confirmed" => calendar'[b].status # "confirmed"
  <2>1. \/ local' = local \/ local' = [local EXCEPT ![b] = calendar'[b]]
        BY DEF People, MoveByAssistant, MoveByStaff, Cancel, OptOut, OptIn
  <2>2. calendar[b].status = "confirmed" \/ UNCHANGED calendar
        BY DEF People, MoveByAssistant, MoveByStaff, Cancel, OptOut, OptIn, Upcoming
  <2>3. consents' \in [Bookings -> BOOLEAN]
        BY <1>2 DEF People, MoveByAssistant, MoveByStaff, Cancel, OptOut, OptIn
  <2>4. QED BY <1>2, <2>1, <2>2, <2>3 DEF WatchInv, Followed
<1>5. Followed'
      BY <1>3, <1>4 DEF WatchInv, Followed
<1>6. ASSUME NEW w \in Workers \ disturbed', work[w].pc \in {"send", "skip"}
      PROVE  /\ work[w].pc = "send" => Announces(w)'
             /\ work[w].pc = "skip" => Replanned(w)'
  <2>1. work[w] # Idle
        BY <1>6 DEF Idle
  <2>2. w \notin disturbed /\ Subject(w)[1] \in Bookings \ {b} /\ Subject(w)' = Subject(w)
        BY <1>1, <1>6, <2>1, AtWork DEF WatchInv, RemindersInv, Subject, Reminders
  <2>3. /\ work[w].pc = "send" => Announces(w)
        /\ work[w].pc = "skip" => Replanned(w)
        BY <2>2 DEF WatchInv, Watched, Busy
  <2>4. QED BY <1>1, <1>3, <2>2, <2>3 DEF Announces, Replanned
<1>7. QED BY <1>1, <1>5, <1>6 DEF Watched, Busy

\* What a delivery decides is what the calendar and the consent say as it reads.
LEMMA ReadWatched ==
    ASSUME WatchInv, RemindersInv', NEW w \in Workers, ReadAppointment(w)
    PROVE  Followed' /\ Watched'
<1> DEFINE r == Subject(w)
           b == r[1]
           c == calendar[b]
<1>1. /\ work[w] # Idle
      /\ UNCHANGED <<now, calendar, consents, disturbed>>
      /\ Goto(w, "send") \/ Goto(w, "skip")
      BY DEF ReadAppointment, Busy, Idle, people, Goto
<1>2. /\ calendar \in [Bookings -> Visit] /\ local \in [Bookings -> Visit]
      /\ consents \in [Bookings -> BOOLEAN]
      BY DEF WatchInv, RemindersInv, Types, Followed
<1>3. r \in Reminders
      BY <1>1, AtWork DEF WatchInv, RemindersInv
<1>4. b \in Bookings /\ r[2] \in Starts
      BY <1>3 DEF Reminders
<1>5. c \in Visit
      BY <1>2, <1>4
<1>6. c.start \in Starts /\ c = [status |-> c.status, start |-> c.start]
      BY <1>5 DEF Visit
<1>7. /\ work'[w].task = work[w].task /\ work'[w].pc \in {"send", "skip"}
      /\ \A v \in Workers \ {w} : work'[v] = work[v]
  <2>1. ASSUME NEW pc \in {"send", "skip"}, Goto(w, pc)
        PROVE  /\ work'[w].pc = pc /\ work'[w].task = work[w].task
               /\ \A v \in Workers \ {w} : work'[v] = work[v]
        BY <1>1, <2>1, GotoSettles DEF WatchInv, Steps
  <2>2. QED BY <1>1, <2>1
<1>8. Subject(w)' = r
      BY <1>7 DEF Subject
<1> HIDE DEF r
<1>9. Followed'
  <2>1. local' = local \/ local' = [local EXCEPT ![b] = c]
        BY DEF ReadAppointment, ReadBooking, r
  <2>2. QED BY <1>1, <1>2, <1>4, <1>5, <2>1 DEF WatchInv, Followed
<1>10. work'[w].pc = "send" => Announces(w)'
  <2>1. ASSUME work'[w].pc = "send"
        PROVE  consents[b] /\ c.status = "confirmed" /\ c.start = r[2]
    <3>1. ~Goto(w, "skip")
      <4>1. "skip" \in Steps
            BY DEF Steps
      <4>2. QED BY <1>1, <2>1, <4>1, GotoSettles DEF WatchInv
    <3>2. QED BY <3>1 DEF ReadAppointment, ReadBooking, r
  <2>2. QED BY <1>1, <1>6, <1>8, <2>1 DEF Announces
<1>11. work'[w].pc = "skip" => Replanned(w)'
  <2> SUFFICES ASSUME work'[w].pc = "skip"
               PROVE  \/ c.status # "confirmed" \/ c.start - LeadTime <= now
                      \/ ~consents[b] \/ reminders'[<<b, c.start>>] # Absent
      BY <1>1, <1>8 DEF Replanned
  <2>1. ~Goto(w, "send")
    <3>1. "send" \in Steps
          BY DEF Steps
    <3>2. QED BY <1>1, <3>1, GotoSettles DEF WatchInv
  <2>2. CASE ~consents[b] \/ local[b].status # "confirmed"
        BY <1>4, <2>2 DEF WatchInv, Followed
  <2>3. CASE consents[b] /\ local[b].status = "confirmed"
    <3>1. PlanMoved(r, c) /\ (c.status = "confirmed" /\ c.start = r[2] => c.start <= now)
      <4>1. c.start > now => ~(c.status = "confirmed" /\ c.start = r[2])
            BY <2>1, <2>3 DEF ReadAppointment, ReadBooking, r
      <4>2. PlanMoved(r, c)
            BY <2>3 DEF ReadAppointment, ReadBooking, r
      <4>3. c.start \in Nat /\ now \in Nat
            BY <1>6, RemindersAssumption DEF WatchInv, RemindersInv, Types
      <4>4. QED BY <4>1, <4>2, <4>3
    <3>2. CASE c.status = "confirmed" /\ c.start = r[2]
      <4>1. c.start \in Nat /\ now \in Nat /\ LeadTime \in Nat
            BY <1>6, RemindersAssumption DEF WatchInv, RemindersInv, Types
      <4>2. c.start - LeadTime <= now
            BY <3>1, <3>2, <4>1
      <4>3. QED BY <4>2
    <3>3. CASE c.status = "confirmed" /\ c.start # r[2]
      <4> DEFINE q == <<b, c.start>>
      <4>1. PlanAt(q, now)
            BY <3>1, <3>3 DEF PlanMoved
      <4>2. q \in Reminders /\ q[1] = b /\ q[2] = c.start
            BY <1>4, <1>6 DEF Reminders
      <4>3. CASE Due(q) <= now \/ ~consents[q[1]]
            BY <4>2, <4>3 DEF Due
      <4>4. CASE ~(Due(q) <= now \/ ~consents[q[1]])
        <5>1. reminders' = IF reminders[q] = Absent
                           THEN [reminders EXCEPT ![q] = NewReminder(now)] ELSE reminders
              BY <4>1, <4>4 DEF PlanAt
        <5>2. reminders'[q] # Absent
              BY <4>2, <5>1, StoringGrows DEF WatchInv
        <5>3. QED BY <5>2
      <4>5. QED BY <4>3, <4>4
    <3>4. QED BY <3>2, <3>3
  <2>4. QED BY <2>2, <2>3
<1>12. ASSUME NEW v \in Workers \ disturbed', v # w
       PROVE  /\ work'[v].pc = "send" => Announces(v)'
              /\ work'[v].pc = "skip" => Replanned(v)'
  <2> SUFFICES ASSUME work'[v].pc \in {"send", "skip"}
               PROVE  /\ work'[v].pc = "send" => Announces(v)'
                      /\ work'[v].pc = "skip" => Replanned(v)'
      OBVIOUS
  <2>1. work'[v] = work[v] /\ v \notin disturbed /\ work[v] # Idle
        BY <1>1, <1>7, <1>12 DEF Idle
  <2>2. Subject(v) \in Reminders /\ Subject(v)' = Subject(v)
        BY <2>1, AtWork DEF WatchInv, RemindersInv, Subject
  <2>3. <<Subject(v)[1], calendar[Subject(v)[1]].start>> \in Reminders
    <3>1. Subject(v)[1] \in Bookings
          BY <2>2 DEF Reminders
    <3>2. calendar[Subject(v)[1]] \in Visit
          BY <1>2, <3>1
    <3>3. QED BY <3>1, <3>2 DEF Reminders, Visit
  <2>4. ASSUME NEW q \in Reminders, reminders[q] # Absent
        PROVE  reminders'[q] # Absent
    <3>1. CASE UNCHANGED store
          BY <2>4, <3>1 DEF store
    <3>2. CASE PlanAt(<<b, c.start>>, now)
      <4>1. <<b, c.start>> \in Reminders
            BY <1>4, <1>6 DEF Reminders
      <4>2. QED BY <2>4, <3>2, <4>1, PlanGrows DEF WatchInv, Grows
    <3>3. QED BY <3>1, <3>2 DEF ReadAppointment, PlanMoved, ReadBooking, r
  <2>5. /\ work[v].pc = "send" => Announces(v)
        /\ work[v].pc = "skip" => Replanned(v)
        BY <2>1 DEF WatchInv, Watched, Busy
  <2>6. QED BY <1>1, <2>1, <2>2, <2>3, <2>4, <2>5 DEF Announces, Replanned
<1>13. QED BY <1>9, <1>10, <1>11, <1>12 DEF Watched, Busy

\* Every other step of a delivery: it moves on without deciding, or ends.
LEMMA DeliveryWatched ==
    ASSUME WatchInv, RemindersInv', Next, NEW w \in Workers,
           Deliver(w) \/ Fail(w) \/ Crash(w)
    PROVE  Followed' /\ Watched'
<1>1. CASE ReadAppointment(w)
      BY <1>1, ReadWatched
<1>2. CASE ~ReadAppointment(w)
  <2>1. /\ work[w] # Idle /\ UNCHANGED <<now, calendar, consents>>
        /\ \/ Stop(w)
           \/ Goto(w, "read") \/ Goto(w, "sent") \/ Goto(w, "release")
        BY <1>2 DEF Deliver, Fail, Crash, ClaimReminder, Send, FinishSent, FinishSkipped,
                    ReleaseReminder, Acknowledge, Busy, Idle, people
  <2>2. /\ work'[w].pc \notin {"send", "skip"}
        /\ \A v \in Workers \ {w} : work'[v] = work[v]
        /\ disturbed \subseteq disturbed' \cup {w}
    <3>1. CASE Stop(w)
          BY <3>1, Ends DEF WatchInv, RemindersInv, Stop, Idle
    <3>2. ASSUME NEW pc \in {"read", "sent", "release"}, Goto(w, pc)
          PROVE  /\ work'[w].pc \notin {"send", "skip"}
                 /\ \A v \in Workers \ {w} : work'[v] = work[v]
                 /\ disturbed' = disturbed
      <4>1. pc \in Steps /\ pc \notin {"send", "skip"}
            BY DEF Steps
      <4>2. work'[w].pc = pc /\ \A v \in Workers \ {w} : work'[v] = work[v]
            BY <2>1, <3>2, <4>1, GotoSettles DEF WatchInv
      <4>3. QED BY <3>2, <4>1, <4>2 DEF Goto
    <3>3. QED BY <2>1, <3>1, <3>2
  <2>3. Followed'
    <3>1. ASSUME NEW b \in Bookings, local' = [local EXCEPT ![b] = calendar[b]]
          PROVE  Followed'
          BY <2>1, <3>1 DEF WatchInv, RemindersInv, Types, Followed
    <3>2. CASE UNCHANGED local
          BY <2>1, <3>2 DEF WatchInv, Followed
    <3>3. Subject(w)[1] \in Bookings
          BY <2>1, AtWork DEF WatchInv, RemindersInv, Reminders
    <3>4. UNCHANGED local \/ local' = [local EXCEPT ![Subject(w)[1]] = calendar[Subject(w)[1]]]
          BY <1>2 DEF Deliver, Fail, Crash, ClaimReminder, Send, FinishSent, FinishSkipped,
                      ReleaseReminder, ReadBooking
    <3>5. QED BY <3>1, <3>2, <3>3, <3>4
  <2>4. \A r \in Reminders : reminders[r] # Absent => reminders'[r] # Absent
        BY StoredStays DEF WatchInv
  <2>5. now' >= now
        BY <2>1 DEF WatchInv, RemindersInv, Types
  <2>6. QED BY <2>1, <2>2, <2>3, <2>4, <2>5, WatchKept
<1>3. QED BY <1>1, <1>2

\* Planning, the queue, the clock and the start of an instance decide nothing.
LEMMA SystemWatched ==
    ASSUME WatchInv, RemindersInv', Next,
           \/ \E r \in Reminders : Plan(r)
           \/ \E t \in queue : WakeEarly(t) \/ LoseTask(t) \/ \E w \in Workers : Dispatch(w, t)
           \/ Reconcile \/ Tick
    PROVE  Followed' /\ Watched'
<1>1. UNCHANGED <<calendar, consents, local, disturbed>>
      BY DEF Plan, WakeEarly, LoseTask, Dispatch, Reconcile, Tick, people
<1>2. now' = now \/ now' = now + 1
      BY DEF Plan, WakeEarly, LoseTask, Dispatch, Reconcile, Tick
<1>3. now' >= now
      BY <1>2 DEF WatchInv, RemindersInv, Types
<1>4. ASSUME NEW w \in Workers, work'[w].pc \in {"send", "skip"}
      PROVE  work'[w] = work[w]
  <2>1. CASE UNCHANGED work
        BY <2>1
  <2>2. ASSUME NEW v \in Workers, NEW t \in queue, Dispatch(v, t)
        PROVE  work'[w] = work[w]
    <3>1. PICK at : work' = [work EXCEPT ![v] = [task |-> t, at |-> at, pc |-> "claim"]]
          BY <2>2 DEF Dispatch
    <3>2. QED BY <1>4, <3>1 DEF WatchInv, RemindersInv, Types
  <2>3. QED BY <2>1, <2>2 DEF Plan, WakeEarly, LoseTask, Reconcile, Tick
<1>5. \A r \in Reminders : reminders[r] # Absent => reminders'[r] # Absent
      BY StoredStays DEF WatchInv
<1>6. Watched'
      BY <1>1, <1>3, <1>4, <1>5, WatchKept
<1>7. QED BY <1>1, <1>6 DEF WatchInv, Followed

LEMMA WatchStart == Init => WatchInv
<1> SUFFICES ASSUME Init PROVE WatchInv
    OBVIOUS
<1>1. RemindersInv
      BY RemindersStart
<1>2. \A w \in Workers : work[w].pc = "idle"
      BY DEF Init, Idle
<1>3. Watched
      BY <1>2 DEF Watched, Busy
<1>4. Followed
  <2>1. local = calendar /\ calendar \in [Bookings -> {v \in Visit : v.status = "confirmed"}]
        /\ consents \in [Bookings -> BOOLEAN]
        BY DEF Init
  <2>2. QED BY <2>1 DEF Followed
<1>5. QED BY <1>1, <1>3, <1>4 DEF WatchInv

LEMMA WatchStep == WatchInv /\ [Next]_vars => WatchInv'
<1> SUFFICES ASSUME WatchInv, [Next]_vars PROVE WatchInv'
    OBVIOUS
<1>1. RemindersInv'
      BY RemindersStep DEF WatchInv
<1>2. CASE UNCHANGED vars
  <2>1. UNCHANGED <<now, calendar, consents, local, work, reminders, disturbed>>
        BY <1>2 DEF vars, people, store
  <2>2. Followed' /\ Watched'
        BY <2>1 DEF WatchInv, Followed, Watched, Busy, Subject, Announces, Replanned
  <2>3. QED BY <1>1, <2>2 DEF WatchInv
<1>3. CASE Next
  <2>1. Followed' /\ Watched'
        BY <1>1, <1>3, PeopleWatched, DeliveryWatched, SystemWatched DEF Next
  <2>2. QED BY <1>1, <2>1 DEF WatchInv
<1>4. QED BY <1>2, <1>3

\* The inductive invariant of what deliveries have read.
THEOREM WatchInvariance == Spec => []WatchInv
<1>1. Init => WatchInv  BY WatchStart
<1>2. WatchInv /\ [Next]_vars => WatchInv'  BY WatchStep
<1>3. QED BY <1>1, <1>2, PTL DEF Spec

\* Deliver and currentBooking: a reminder is sent only while the calendar
\* confirms the start it announces and the customer consents, or to a delivery
\* that was under way when that changed.
THEOREM RemindersAreCurrent == Spec => SentIsCurrent
<1>1. ASSUME WatchInv, [Next]_vars, NEW r \in Reminders, delivered'[r] > delivered[r]
      PROVE  \/ /\ calendar[r[1]] = [status |-> "confirmed", start |-> r[2]]
                /\ consents[r[1]]
             \/ \E w \in Workers : Busy(w, {"send"}) /\ Subject(w) = r /\ w \in disturbed
  <2>1. delivered \in [Reminders -> Nat]
        BY <1>1 DEF WatchInv, RemindersInv, Types
  <2>2. delivered' # delivered
        BY <1>1, <2>1
  <2>3. PICK w \in Workers : Send(w)
        BY <1>1, <2>2 DEF Next, People, MoveByAssistant, MoveByStaff, Cancel, OptOut, OptIn,
             Edit, Plan, WakeEarly, Dispatch, Deliver, ClaimReminder, ReadAppointment,
             FinishSent, FinishSkipped, ReleaseReminder, Fail, Crash, LoseTask, Reconcile,
             Tick, vars, history
  <2>4. Busy(w, {"send"}) /\ Subject(w) = r
    <3>1. delivered' = [delivered EXCEPT ![Subject(w)] = @ + 1]
          BY <2>2, <2>3 DEF Send, history
    <3>2. QED BY <1>1, <2>1, <2>3, <3>1 DEF Send
  <2>5. w \notin disturbed => Announces(w)
        BY <1>1, <2>4 DEF WatchInv, Watched
  <2>6. QED BY <2>4, <2>5 DEF Announces
<1>2. WatchInv /\ [Next]_vars =>
        [\A r \in Reminders :
           delivered'[r] > delivered[r] =>
              \/ /\ calendar[r[1]] = [status |-> "confirmed", start |-> r[2]]
                 /\ consents[r[1]]
              \/ \E w \in Workers : Busy(w, {"send"}) /\ Subject(w) = r
                                    /\ w \in disturbed]_vars
      BY <1>1
<1>3. QED BY <1>2, WatchInvariance, PTL DEF Spec, SentIsCurrent

\* currentBooking plans the start of a moved appointment before the delivery gives
\* its own reminder up (FinishReminder as skipped).
THEOREM MovesAreReplanned == Spec => MovedIsReplanned
<1>1. ASSUME WatchInv, NEW w \in Workers, Busy(w, {"skip"})
      PROVE  w \in disturbed \/ Replanned(w)
      BY <1>1 DEF WatchInv, Watched
<1>2. WatchInv /\ [Next]_vars =>
        [\A w \in Workers :
           Busy(w, {"skip"}) /\ work'[w] = Idle /\ reminders' # reminders =>
              LET b == Subject(w)[1] IN
              \/ w \in disturbed
              \/ calendar[b].status # "confirmed" \/ calendar[b].start - LeadTime <= now
              \/ ~consents[b]
              \/ reminders[<<b, calendar[b].start>>] # Absent]_vars
      BY <1>1 DEF Replanned
<1>3. QED BY <1>2, WatchInvariance, PTL DEF Spec, MovedIsReplanned

-----------------------------------------------------------------------------
(* The chain of wake-ups, when no instance's clock is behind the queue's.  *)
(* ChainAlive is not inductive: a wake-up whose name is refused must still *)
(* be in the queue.  It is, because it is yet to come (Named): nothing is  *)
(* acknowledged before its time, and a task that is lost frees its name.   *)

Named ==
    /\ queue \subseteq names /\ names \subseteq Wakes
    /\ \A t \in names : reminders[t.id] # Absent
    /\ \A t \in names : t.runAt > now => t \in queue

Begun ==
    /\ \A w \in Workers : work[w] # Idle => work[w].task.runAt <= now
    /\ \A w \in Workers : Busy(w, {"sent"}) => delivered[Subject(w)] > 0

\* A reminder that ChainAlive promises a task.
Waits(r) ==
    reminders[r] # Absent /\ ~Terminal(r) /\ delivered[r] = 0 /\ r \notin adrift

ChainInv == RemindersInv /\ Named /\ Begun /\ ChainAlive

\* A set of times has a first one.
LEMMA Least ==
    ASSUME NEW S \in SUBSET Nat, S # {}
    PROVE  Min(S) \in S
<1> DEFINE R == {ss \in Nat \X Nat : ss[1] < ss[2]}
<1>1. IsWellFoundedOn(R, Nat)
      BY NatLessThanWellFounded DEF OpToRel
<1>2. PICK x \in S : \A y \in S : <<y, x>> \notin R
      BY <1>1, WFMin, Zenon
<1>3. \A y \in S : x <= y
  <2> SUFFICES ASSUME NEW y \in S PROVE x <= y
      OBVIOUS
  <2>1. x \in Nat /\ y \in Nat /\ <<y, x>> \notin R
        BY <1>2
  <2>2. <<y, x>> \in Nat \X Nat /\ <<y, x>>[1] = y /\ <<y, x>>[2] = x
        BY <2>1
  <2>3. QED BY <2>1, <2>2
<1>4. QED BY <1>2, <1>3 DEF Min

\* The next wake-up of a reminder that is not due is yet to come.
LEMMA NextIsLater ==
    ASSUME NEW r \in Reminders, NEW created \in 0..MaxTime, NEW at \in 0..MaxTime
    PROVE  /\ Wake(r, created, at).runAt \in Int
           /\ Due(r) > at => Wake(r, created, at).runAt > at
<1> DEFINE S == {Due(r)} \cup
                {t \in {created + k * MaxTaskDelay : k \in 1..MaxTime} : t > at}
<1>1. Due(r) \in Int /\ MaxTaskDelay \in Nat
  <2>1. r[2] \in Starts
        BY DEF Reminders
  <2>2. r[2] \in Nat /\ LeadTime \in Nat /\ MaxTaskDelay \in Nat
        BY <2>1, RemindersAssumption
  <2>3. QED BY <2>2 DEF Due
<1>2. ASSUME Due(r) > at
      PROVE  Min(S) \in Int /\ Min(S) > at
  <2>1. \A t \in S : t \in Nat /\ t > at
    <3>1. \A k \in 1..MaxTime : created + k * MaxTaskDelay \in Nat
          BY <1>1, RemindersAssumption
    <3>2. QED BY <1>1, <1>2, <3>1
  <2>2. S \in SUBSET Nat /\ S # {}
        BY <2>1
  <2> HIDE DEF S
  <2>3. Min(S) \in S
        BY <2>2, Least
  <2> DEFINE m == Min(S)
  <2> HIDE DEF m
  <2>4. m \in Nat /\ m > at
        BY <2>1, <2>3 DEF m
  <2>5. m \in Int
        BY <2>4
  <2>6. QED BY <2>4, <2>5 DEF m
<1>3. WakeAt(r, created, at) = IF Due(r) <= at + MaxTaskDelay THEN Due(r) ELSE Min(S)
      BY DEF WakeAt
<1> HIDE DEF S
<1>4. Wake(r, created, at).runAt = WakeAt(r, created, at)
      BY DEF Wake
<1>5. QED BY <1>1, <1>2, <1>3, <1>4

\* A step leaves the chain alone if what it enqueues is new, what it takes from
\* the queue is no more to come, and no reminder is left waiting without a task.
LEMMA ChainKept ==
    ASSUME ChainInv, RemindersInv', now' >= now, queue' \subseteq names', names' \subseteq Wakes,
           \A t \in names' : t \in names \/ (t \in queue' /\ reminders'[t.id] # Absent),
           \A r \in Reminders : reminders[r] # Absent => reminders'[r] # Absent,
           \A t \in queue \ queue' : t \notin names' \/ t.runAt <= now,
           \A r \in Reminders : Waits(r)' =>
              \/ \E t \in queue' : t.id = r
              \/ Waits(r) /\ \A t \in queue \ queue' : t.id # r
    PROVE  Named' /\ ChainAlive'
<1>1. \A t \in names' : reminders'[t.id] # Absent
      BY WakeIsKnown DEF ChainInv, Named
<1>2. ASSUME NEW t \in names', t.runAt > now'
      PROVE  t \in queue'
  <2>1. t.runAt \in Int /\ now \in Int /\ now' \in Int
    <3>1. PICK r \in Reminders, c \in 0..MaxTime, a \in 0..MaxTime : t = Wake(r, c, a)
          BY DEF Wakes
    <3>2. t.runAt \in Int
          BY <3>1, NextIsLater
    <3>3. QED BY <3>2 DEF ChainInv, RemindersInv, Types
  <2>2. QED BY <1>2, <2>1 DEF ChainInv, Named
<1>3. Named'
      BY <1>1, <1>2 DEF Named
<1>4. ASSUME NEW r \in Reminders, Waits(r)'
      PROVE  \E t \in queue' : t.id = r
      BY <1>4 DEF ChainInv, ChainAlive, Waits
<1>5. QED BY <1>3, <1>4 DEF ChainAlive, Waits

\* A step that leaves the names alone, takes no task away and stores nothing new.
LEMMA SameTasks ==
    ASSUME ChainInv, RemindersInv', now' >= now, UNCHANGED <<queue, names, adrift>>,
           \A r \in Reminders : delivered'[r] = 0 => delivered[r] = 0,
           \A r \in Reminders :
              \/ reminders'[r] = reminders[r]
              \/ reminders[r] # Absent /\ ~Terminal(r) /\ reminders'[r] # Absent
    PROVE  Named' /\ ChainAlive'
<1>1. \A r \in Reminders : Waits(r)' => Waits(r)
      BY DEF Waits, Terminal
<1>2. queue' \subseteq names' /\ names' \subseteq Wakes
      BY DEF ChainInv, Named
<1>3. QED BY <1>1, <1>2, ChainKept

\* A stored reminder has its task, or is adrift.
LEMMA PlanChained ==
    ASSUME ChainInv, RemindersInv', NEW q \in Reminders, PlanAt(q, now) \/ PlanUnqueued(q, now),
           UNCHANGED <<now, delivered>>
    PROVE  Named' /\ ChainAlive'
<1> USE DEF ChainInv
<1>0. now \in 0..MaxTime /\ now' >= now
      BY DEF RemindersInv, Types
<1>1. CASE UNCHANGED <<store, adrift>>
      BY <1>0, <1>1, SameTasks DEF store
<1>2. CASE PlanUnqueued(q, now)
  <2>1. \A r \in Reminders : reminders[r] # Absent => reminders'[r] # Absent
        BY <1>2, PlanGrows DEF Grows
  <2>2. \A r \in Reminders \ {q} : reminders'[r] = reminders[r]
        BY <1>2 DEF PlanUnqueued, RemindersInv, Types, Rows
  <2>3. UNCHANGED <<queue, names>>
        BY <1>2 DEF PlanUnqueued
  <2>4. adrift \subseteq adrift' /\ (q \in adrift' \/ \E t \in queue : t.id = q)
        BY <1>2 DEF PlanUnqueued
  <2>5. \A r \in Reminders : Waits(r)' => \/ \E t \in queue' : t.id = r
                                          \/ Waits(r)
        BY <2>2, <2>3, <2>4 DEF Waits, Terminal
  <2>6. queue' \subseteq names' /\ names' \subseteq Wakes
        BY <2>3 DEF Named
  <2>7. QED BY <1>0, <2>1, <2>3, <2>5, <2>6, ChainKept
<1>3. CASE PlanAt(q, now) /\ ~UNCHANGED <<store, adrift>>
  <2>1. reminders' = IF reminders[q] = Absent
                     THEN [reminders EXCEPT ![q] = NewReminder(now)] ELSE reminders
        BY <1>3 DEF PlanAt
  <2>2. /\ reminders'[q] \in Stored
        /\ \A r \in Reminders : reminders[r] # Absent => reminders'[r] # Absent
        BY <2>1, StoringGrows
  <2>3. \A r \in Reminders \ {q} : reminders'[r] = reminders[r]
        BY <2>1 DEF RemindersInv, Types, Rows
  <2>4. CASE Terminal(q)
    <3>1. UNCHANGED <<queue, names, adrift>> /\ reminders' = reminders
          BY <1>3, <2>1, <2>4 DEF PlanAt, Terminal
    <3>2. QED BY <1>0, <3>1, SameTasks
  <2>5. CASE ~Terminal(q)
    <3> DEFINE next == Wake(q, reminders'[q].created, now)
    <3>1. Enqueue({next})
          BY <1>3, <2>5 DEF PlanAt
    <3>2. next \in Wakes /\ next.id = q
      <4>1. reminders'[q].created \in 0..MaxTime
            BY <2>2 DEF Stored
      <4>2. QED BY <1>0, <4>1, WakeIsWake
    <3> HIDE DEF next
    <3>3. /\ queue' = queue \cup ({next} \ names) /\ names' = names \cup {next}
          /\ adrift \ {next.id} \subseteq adrift' /\ (next \in names => adrift' = adrift)
          BY <3>1 DEF Enqueue
    <3>4. reminders[q] = Absent => next \in queue'
          BY <3>2, <3>3 DEF Named
    <3>5. \A r \in Reminders : Waits(r)' => \/ \E t \in queue' : t.id = r
                                            \/ Waits(r)
      <4>1. ASSUME NEW r \in Reminders \ {q}, Waits(r)'
            PROVE  Waits(r)
            BY <2>3, <3>2, <3>3, <4>1 DEF Waits, Terminal
      <4>2. CASE next \in queue'
            BY <3>2, <4>1, <4>2
      <4>3. CASE next \notin queue'
        <5>1. next \in names /\ reminders' = reminders
              BY <2>1, <3>3, <3>4, <4>3
        <5>2. QED BY <3>3, <5>1 DEF Waits, Terminal
      <4>4. QED BY <4>2, <4>3
    <3>6. /\ queue' \subseteq names' /\ names' \subseteq Wakes /\ queue \subseteq queue'
          /\ \A t \in names' : t \in names \/ (t \in queue' /\ reminders'[t.id] # Absent)
      <4>1. reminders'[q] # Absent
            BY <2>1, StoringGrows
      <4>2. QED BY <3>2, <3>3, <4>1 DEF Named
    <3>7. QED BY <1>0, <2>2, <3>5, <3>6, ChainKept
  <2>6. QED BY <2>4, <2>5
<1>4. QED BY <1>1, <1>2, <1>3

LEMMA TaskTimes ==
    ASSUME ChainInv, NEW t \in names
    PROVE  t.id \in Reminders /\ t.runAt \in Int
<1>1. PICK r \in Reminders, c \in 0..MaxTime, a \in 0..MaxTime : t = Wake(r, c, a)
      BY DEF ChainInv, Named, Wakes
<1>2. QED BY <1>1, NextIsLater, WakeIsWake

\* With no clock behind the queue's, an early wake-up always arranges a later one.
LEMMA WakeChained ==
    ASSUME Skew = 0, ChainInv, RemindersInv', NEW t \in queue, WakeEarly(t)
    PROVE  Named' /\ ChainAlive'
<1> USE DEF ChainInv
<1>1. PICK at \in (now - Skew .. now) \cap Nat :
         \/ /\ Terminal(t.id)
            /\ queue' = queue \ {t} /\ UNCHANGED <<names, faults>>
         \/ LET next == Wake(t.id, reminders[t.id].created, at) IN
            /\ ~Terminal(t.id) /\ Due(t.id) > at
            /\ names' = names \cup {next}
            /\ \/ queue' = (queue \cup ({next} \ names)) \ {t} /\ NoFault
               \/ queue' = queue \cup ({next} \ names) /\ Fault
      BY DEF WakeEarly
<1>2. at = now /\ now \in 0..MaxTime /\ t.runAt <= now
      BY DEF RemindersInv, Types, WakeEarly
<1>3. UNCHANGED <<now, reminders, delivered, adrift>>
      BY DEF WakeEarly, history
<1>4. /\ t \in names /\ t.id \in Reminders /\ t.runAt \in Int
      /\ reminders[t.id] # Absent
      BY TaskTimes DEF Named
<1>5. reminders[t.id].created \in 0..MaxTime
      BY <1>4 DEF RemindersInv, Types, Rows, Stored
<1>6. \A r \in Reminders : Waits(r)' = Waits(r)
      BY <1>3 DEF Waits, Terminal
<1>7. now' >= now /\ \A r \in Reminders : reminders[r] # Absent => reminders'[r] # Absent
      BY <1>2, <1>3
<1>8. CASE Terminal(t.id) /\ queue' = queue \ {t} /\ UNCHANGED names
  <2>1. \A r \in Reminders : Waits(r)' => Waits(r) /\ \A u \in queue \ queue' : u.id # r
        BY <1>6, <1>8 DEF Waits
  <2>2. queue' \subseteq names' /\ names' \subseteq Wakes
        BY <1>8 DEF Named
  <2>3. \A u \in queue \ queue' : u \notin names' \/ u.runAt <= now
        BY <1>2, <1>8
  <2>4. QED BY <1>7, <1>8, <2>1, <2>2, <2>3, ChainKept
<1>9. CASE LET next == Wake(t.id, reminders[t.id].created, at) IN
           /\ ~Terminal(t.id) /\ Due(t.id) > at
           /\ names' = names \cup {next}
           /\ \/ queue' = (queue \cup ({next} \ names)) \ {t}
              \/ queue' = queue \cup ({next} \ names)
  <2> DEFINE next == Wake(t.id, reminders[t.id].created, now)
  <2>1. next \in Wakes /\ next.id = t.id /\ next.runAt > now /\ next.runAt \in Int
        BY <1>2, <1>4, <1>5, <1>9, WakeIsWake, NextIsLater
  <2>2. /\ names' = names \cup {next}
        /\ \/ queue' = (queue \cup ({next} \ names)) \ {t}
           \/ queue' = queue \cup ({next} \ names)
        BY <1>2, <1>9
  <2> HIDE DEF next
  <2>3. next # t /\ next \in queue'
        BY <1>2, <1>4, <2>1, <2>2 DEF Named
  <2>4. \A r \in Reminders : Waits(r)' => \/ \E u \in queue' : u.id = r
                                          \/ Waits(r) /\ \A u \in queue \ queue' : u.id # r
        BY <1>6, <2>1, <2>2, <2>3
  <2>5. queue' \subseteq names' /\ names' \subseteq Wakes
        BY <1>4, <2>1, <2>2 DEF Named
  <2>6. \A u \in queue \ queue' : u \notin names' \/ u.runAt <= now
        BY <1>2, <2>2
  <2>7. \A u \in names' : u \in names \/ (u \in queue' /\ reminders'[u.id] # Absent)
        BY <1>3, <1>4, <2>1, <2>2, <2>3
  <2>8. QED BY <1>7, <2>4, <2>5, <2>6, <2>7, ChainKept
<1>10. QED BY <1>1, <1>8, <1>9

LEMMA LossChained ==
    ASSUME ChainInv, RemindersInv', NEW t \in queue, LoseTask(t)
    PROVE  Named' /\ ChainAlive'
<1> USE DEF ChainInv
<1>1. /\ queue' = queue \ {t} /\ names' = names \ {t} /\ adrift' = adrift \cup {t.id}
      /\ UNCHANGED <<now, reminders, delivered>>
      BY DEF LoseTask, history
<1>2. \A r \in Reminders : Waits(r)' => Waits(r) /\ \A u \in queue \ queue' : u.id # r
      BY <1>1 DEF Waits, Terminal
<1>3. queue' \subseteq names' /\ names' \subseteq Wakes
      BY <1>1 DEF Named
<1>4. now' >= now
      BY <1>1 DEF RemindersInv, Types
<1>5. QED BY <1>1, <1>2, <1>3, <1>4, ChainKept

LEMMA ReconcileChained ==
    ASSUME ChainInv, RemindersInv', Reconcile
    PROVE  Named' /\ ChainAlive'
<1> USE DEF ChainInv
<1> DEFINE new == {Wake(r, reminders[r].created, now) : r \in
                     {q \in Reminders :
                        /\ reminders[q] # Absent
                        /\ reminders[q].status = "scheduled"
                        /\ q[2] > now /\ Due(q) > now}}
<1>1. Enqueue(new) /\ UNCHANGED <<now, reminders, delivered>>
      BY DEF Reconcile, history
<1>2. now \in 0..MaxTime
      BY DEF RemindersInv, Types
<1>3. ASSUME NEW t \in new
      PROVE  t \in Wakes /\ reminders[t.id] # Absent
  <2>1. PICK r \in Reminders : reminders[r] # Absent
                               /\ t = Wake(r, reminders[r].created, now)
        BY <1>3
  <2>2. reminders[r].created \in 0..MaxTime
        BY <2>1 DEF RemindersInv, Types, Rows, Stored
  <2>3. QED BY <1>2, <2>1, <2>2, WakeIsWake
<1> HIDE DEF new
<1>4. /\ queue' = queue \cup (new \ names) /\ names' = names \cup new
      /\ adrift' = adrift \ {t.id : t \in new \ names}
      BY <1>1 DEF Enqueue
<1>5. \A r \in Reminders : Waits(r)' => \/ \E t \in queue' : t.id = r
                                        \/ Waits(r)
      BY <1>1, <1>4 DEF Waits, Terminal
<1>6. /\ queue' \subseteq names' /\ names' \subseteq Wakes /\ queue \subseteq queue'
      /\ \A t \in names' : t \in names \/ (t \in queue' /\ reminders'[t.id] # Absent)
      BY <1>1, <1>3, <1>4 DEF Named
<1>7. now' >= now
      BY <1>1, <1>2
<1>8. QED BY <1>1, <1>5, <1>6, <1>7, ChainKept

\* The task of a delivery is acknowledged when its reminder is received or over.
LEMMA AcknowledgedChained ==
    ASSUME ChainInv, RemindersInv', NEW w \in Workers, work[w] # Idle,
           queue' = queue \ {work[w].task}, UNCHANGED <<now, names, adrift, delivered>>,
           \A q \in Reminders :
              \/ reminders'[q] = reminders[q]
              \/ reminders[q] # Absent /\ ~Terminal(q) /\ reminders'[q] # Absent,
           NEW r, r = Subject(w), ~Waits(r)'
    PROVE  Named' /\ ChainAlive'
<1> USE DEF ChainInv
<1>1. work[w].task.id = r /\ work[w].task.runAt <= now
      BY DEF Begun, Subject
<1>2. \A q \in Reminders : Waits(q)' => Waits(q)
      BY DEF Waits, Terminal
<1>3. \A q \in Reminders : Waits(q)' => Waits(q) /\ \A t \in queue \ queue' : t.id # q
      BY <1>1, <1>2
<1>4. queue' \subseteq names' /\ names' \subseteq Wakes
      BY DEF Named
<1>5. now' >= now
      BY DEF RemindersInv, Types
<1>6. \A t \in queue \ queue' : t \notin names' \/ t.runAt <= now
      BY <1>1
<1>7. \A q \in Reminders : reminders[q] # Absent => reminders'[q] # Absent
      OBVIOUS
<1>8. QED BY <1>3, <1>4, <1>5, <1>6, <1>7, ChainKept

\* The record of a delivery's end changes one reminder that was not over.
LEMMA OwnerChanges ==
    ASSUME RemindersInv, NEW w \in Workers, work[w] # Idle, Owns(w),
           NEW status \in Statuses,
           reminders' = [reminders EXCEPT ![Subject(w)].status = status,
                           ![Subject(w)].claim = Nobody, ![Subject(w)].expires = 0]
    PROVE  /\ reminders'[Subject(w)] # Absent /\ reminders'[Subject(w)].status = status
           /\ \A q \in Reminders :
                \/ reminders'[q] = reminders[q]
                \/ reminders[q] # Absent /\ ~Terminal(q) /\ reminders'[q] # Absent
<1>1. 0 \in 0..(MaxTime + Lease)
      BY RemindersAssumption
<1>2. /\ reminders'[Subject(w)] # Absent /\ reminders'[Subject(w)].status = status
      /\ \A q \in Reminders \ {Subject(w)} : reminders'[q] = reminders[q]
      BY <1>1, RowChanges
<1>3. reminders[Subject(w)] # Absent /\ ~Terminal(Subject(w))
      BY DEF RemindersInv, Known, Owns, Terminal
<1>4. QED BY <1>2, <1>3

LEMMA ClaimChained ==
    ASSUME ChainInv, RemindersInv', NEW w \in Workers, ClaimReminder(w)
    PROVE  Named' /\ ChainAlive'
<1> USE DEF ChainInv
<1> DEFINE r == Subject(w)
<1>1. work[w] # Idle /\ UNCHANGED <<now, names, delivered, adrift>>
      BY DEF ClaimReminder, Busy, Idle, history
<1>2. now' >= now /\ \A q \in Reminders : delivered'[q] = 0 => delivered[q] = 0
      BY <1>1 DEF RemindersInv, Types
<1>3. CASE Terminal(r) /\ Acknowledge(w) /\ UNCHANGED reminders
  <2>1. PICK q \in Reminders : q = Subject(w)
        BY <1>1, AtWork DEF RemindersInv
  <2>2. ~Waits(q)' /\ queue' = queue \ {work[w].task}
        BY <1>3, <2>1 DEF Waits, Terminal, Acknowledge
  <2>3. QED BY <1>1, <1>3, <2>1, <2>2, AcknowledgedChained
<1>4. CASE UNCHANGED <<reminders, queue>>
      BY <1>1, <1>2, <1>4, SameTasks
<1>5. CASE /\ ~Terminal(r)
           /\ reminders' = [reminders EXCEPT ![r].status = "delivering",
                              ![r].claim = w, ![r].expires = work[w].at + Lease]
           /\ UNCHANGED queue
  <2>1. work[w].at + Lease \in 0..(MaxTime + Lease)
        BY <1>1, AtWork, RemindersAssumption DEF RemindersInv, Runs
  <2>2. /\ reminders'[r] # Absent
        /\ \A q \in Reminders \ {r} : reminders'[q] = reminders[q]
        BY <1>1, <1>5, <2>1, RowChanges DEF Statuses
  <2>3. reminders[r] # Absent
        BY <1>1 DEF RemindersInv, Known
  <2>4. \A q \in Reminders :
           \/ reminders'[q] = reminders[q]
           \/ reminders[q] # Absent /\ ~Terminal(q) /\ reminders'[q] # Absent
        BY <1>5, <2>2, <2>3
  <2>5. QED BY <1>1, <1>2, <1>5, <2>4, SameTasks
<1>6. QED BY <1>3, <1>4, <1>5 DEF ClaimReminder

LEMMA EndChained ==
    ASSUME ChainInv, RemindersInv', NEW w \in Workers,
           FinishSent(w) \/ FinishSkipped(w) \/ ReleaseReminder(w) \/ Crash(w)
    PROVE  Named' /\ ChainAlive'
<1> USE DEF ChainInv
<1> DEFINE r == Subject(w)
<1>1. work[w] # Idle /\ UNCHANGED <<now, names, delivered, adrift>>
      BY DEF FinishSent, FinishSkipped, ReleaseReminder, Crash, Busy, Idle, history
<1>2. now' >= now /\ \A q \in Reminders : delivered'[q] = 0 => delivered[q] = 0
      BY <1>1 DEF RemindersInv, Types
<1>3. \/ UNCHANGED reminders
      \/ /\ Owns(w)
         /\ \E status \in Statuses :
              reminders' = [reminders EXCEPT ![r].status = status,
                              ![r].claim = Nobody, ![r].expires = 0]
      BY DEF FinishSent, FinishSkipped, ReleaseReminder, Crash, FinishReminder, Statuses
<1>4. \A q \in Reminders :
         \/ reminders'[q] = reminders[q]
         \/ reminders[q] # Absent /\ ~Terminal(q) /\ reminders'[q] # Absent
      BY <1>1, <1>3, OwnerChanges
<1>5. CASE UNCHANGED queue
      BY <1>1, <1>2, <1>4, <1>5, SameTasks
<1>6. CASE FinishSent(w)
  <2>1. delivered[r] > 0 /\ queue' = queue \ {work[w].task}
        BY <1>6 DEF Begun, FinishSent, Acknowledge
  <2>2. PICK q \in Reminders : q = Subject(w)
        BY <1>1, AtWork DEF RemindersInv
  <2>3. ~Waits(q)'
        BY <1>1, <2>1, <2>2 DEF Waits
  <2>4. QED BY <1>1, <1>4, <2>1, <2>2, <2>3, AcknowledgedChained
<1>7. CASE FinishSkipped(w) /\ ~UNCHANGED queue
  <2>1. /\ Owns(w) /\ queue' = queue \ {work[w].task}
        /\ reminders' = [reminders EXCEPT ![r].status = "skipped",
                           ![r].claim = Nobody, ![r].expires = 0]
        BY <1>7 DEF FinishSkipped, FinishReminder, Acknowledge
  <2>2. reminders'[r] # Absent /\ reminders'[r].status = "skipped"
        BY <1>1, <2>1, OwnerChanges DEF Statuses
  <2>3. PICK q \in Reminders : q = Subject(w)
        BY <1>1, AtWork DEF RemindersInv
  <2>4. ~Waits(q)'
        BY <2>2, <2>3 DEF Waits, Terminal
  <2>5. QED BY <1>1, <1>4, <2>1, <2>3, <2>4, AcknowledgedChained
<1>8. QED BY <1>5, <1>6, <1>7 DEF ReleaseReminder, Crash

LEMMA DeliverChained ==
    ASSUME ChainInv, RemindersInv', NEW w \in Workers, Deliver(w) \/ Fail(w) \/ Crash(w)
    PROVE  Named' /\ ChainAlive'
<1> USE DEF ChainInv
<1> DEFINE r == Subject(w)
<1>1. CASE Send(w)
  <2>1. UNCHANGED <<now, reminders, queue, names, adrift>> /\ work[w] # Idle
        BY <1>1 DEF Send, store, Busy, Idle
  <2>2. \A q \in Reminders : delivered'[q] = 0 => delivered[q] = 0
        BY <1>1 DEF Send, history, RemindersInv, Types
  <2>3. now' >= now
        BY <2>1 DEF RemindersInv, Types
  <2>4. QED BY <2>1, <2>2, <2>3, SameTasks
<1>2. CASE ReadAppointment(w) \/ Fail(w)
  <2> DEFINE q == <<r[1], ReadBooking(r[1]).start>>
  <2>1. work[w] # Idle /\ UNCHANGED <<now, delivered>>
        BY <1>2 DEF ReadAppointment, Fail, Busy, Idle, history
  <2>2. q \in Reminders
        BY <2>1, AtWork DEF RemindersInv, Types, Reminders, ReadBooking, Visit
  <2>3. UNCHANGED <<store, adrift>> \/ PlanAt(q, now) \/ PlanUnqueued(q, now)
        BY <1>2 DEF ReadAppointment, Fail, PlanMoved
  <2>4. CASE UNCHANGED <<store, adrift>>
    <3>1. now' >= now /\ \A p \in Reminders : delivered'[p] = 0 => delivered[p] = 0
          BY <2>1 DEF RemindersInv, Types
    <3>2. UNCHANGED <<reminders, queue, names, adrift>>
          BY <2>4 DEF store
    <3>3. QED BY <3>1, <3>2, SameTasks
  <2>5. QED BY <2>1, <2>2, <2>3, <2>4, PlanChained
<1>3. QED BY <1>1, <1>2, ClaimChained, EndChained DEF Deliver

\* A delivery begins with a task whose time has come.
LEMMA BegunKept ==
    ASSUME ChainInv, RemindersInv', Next
    PROVE  Begun'
<1> USE DEF ChainInv
<1>1. \A q \in Reminders : delivered[q] > 0 => delivered'[q] > 0
  <2>1. CASE UNCHANGED delivered
        BY <2>1
  <2>2. ASSUME NEW w \in Workers, Send(w)
        PROVE  \A q \in Reminders : delivered[q] > 0 => delivered'[q] > 0
        BY <2>2 DEF Send, history, RemindersInv, Types
  <2>3. QED BY <2>1, <2>2 DEF Next, People, MoveByAssistant, MoveByStaff, Cancel, OptOut, OptIn,
             Edit, Plan, WakeEarly, Dispatch, Deliver, ClaimReminder, ReadAppointment,
             FinishSent, FinishSkipped, ReleaseReminder, Fail, Crash, LoseTask, Reconcile,
             Tick, history
<1>2. now \in Nat /\ now' \in Nat /\ now' >= now
  <2>1. now' = now \/ now' = now + 1
        BY DEF Next, People, MoveByAssistant, MoveByStaff, Cancel, OptOut, OptIn,
             Edit, Plan, WakeEarly, Dispatch, Deliver, ClaimReminder, ReadAppointment, Send,
             FinishSent, FinishSkipped, ReleaseReminder, Fail, Crash, LoseTask, Reconcile, Tick
  <2>2. QED BY <2>1 DEF RemindersInv, Types
<1>3. ASSUME NEW v \in Workers, work'[v] = work[v]
      PROVE  /\ work'[v] # Idle => work'[v].task.runAt <= now'
             /\ work'[v].pc = "sent" => delivered'[Subject(v)'] > 0
  <2>1. work[v] # Idle => Subject(v) \in Reminders /\ Subject(v)' = Subject(v)
                          /\ work[v].task.runAt \in Int /\ work[v].task.runAt <= now
    <3> SUFFICES ASSUME work[v] # Idle
                 PROVE  Subject(v) \in Reminders /\ Subject(v)' = Subject(v)
                        /\ work[v].task.runAt \in Int /\ work[v].task.runAt <= now
        OBVIOUS
    <3>1. Subject(v) \in Reminders /\ work[v].task \in Wakes
          BY AtWork DEF RemindersInv, Runs
    <3>2. PICK r \in Reminders, c \in 0..MaxTime, a \in 0..MaxTime : work[v].task = Wake(r, c, a)
          BY <3>1 DEF Wakes
    <3>3. QED BY <1>3, <3>1, <3>2, NextIsLater DEF Begun, Subject
  <2>2. work[v].pc = "sent" => work[v] # Idle /\ delivered[Subject(v)] > 0
        BY DEF Begun, Busy, Idle
  <2>3. QED BY <1>1, <1>2, <1>3, <2>1, <2>2
<1>4. ASSUME NEW w \in Workers, Deliver(w) \/ Fail(w) \/ Crash(w)
      PROVE  Begun'
  <2>1. work[w] # Idle /\ UNCHANGED now
        BY <1>4 DEF Deliver, Fail, Crash, ClaimReminder, ReadAppointment, Send, FinishSent,
                    FinishSkipped, ReleaseReminder, Busy, Idle
  <2>2. Stop(w) \/ \E pc \in Steps : Goto(w, pc) /\ (pc = "sent" => Send(w))
        BY <1>4 DEF Deliver, Fail, Crash, ClaimReminder, ReadAppointment, Send, FinishSent,
                    FinishSkipped, ReleaseReminder, Acknowledge, Steps
  <2>3. CASE Stop(w)
    <3>1. work'[w] = Idle /\ work'[w].pc # "sent" /\ \A v \in Workers \ {w} : work'[v] = work[v]
          BY <2>3, Ends DEF RemindersInv, Stop, Idle
    <3>2. QED BY <1>3, <3>1 DEF Begun, Busy, Subject
  <2>4. ASSUME NEW pc \in Steps, Goto(w, pc), pc = "sent" => Send(w)
        PROVE  Begun'
    <3>1. /\ work'[w].pc = pc /\ work'[w].task = work[w].task
          /\ \A v \in Workers \ {w} : work'[v] = work[v]
          BY <2>1, <2>4, GotoSettles
    <3>2. work'[w].task.runAt <= now'
          BY <2>1, <3>1 DEF Begun
    <3>3. pc = "sent" => delivered'[Subject(w)'] > 0
      <4> SUFFICES ASSUME pc = "sent" PROVE delivered'[Subject(w)'] > 0
          OBVIOUS
      <4>1. Subject(w) \in Reminders /\ Subject(w)' = Subject(w)
            BY <2>1, <3>1, AtWork DEF RemindersInv, Subject
      <4>2. delivered' = [delivered EXCEPT ![Subject(w)] = @ + 1]
        <5>1. ~Goto(w, "release")
          <6>1. "release" \in Steps
                BY DEF Steps
          <6>2. QED BY <2>1, <3>1, <6>1, GotoSettles
        <5>2. QED BY <2>4, <5>1 DEF Send
      <4>3. QED BY <4>1, <4>2 DEF RemindersInv, Types
    <3>4. QED BY <1>3, <3>1, <3>2, <3>3 DEF Begun, Busy, Subject
  <2>5. QED BY <2>2, <2>3, <2>4
<1>5. ASSUME NEW t \in queue, NEW w \in Workers, Dispatch(w, t)
      PROVE  Begun'
  <2>1. PICK at : work' = [work EXCEPT ![w] = [task |-> t, at |-> at, pc |-> "claim"]]
        BY <1>5 DEF Dispatch
  <2>2. /\ work'[w].task = t /\ work'[w].pc = "claim"
        /\ \A v \in Workers \ {w} : work'[v] = work[v]
        BY <2>1 DEF RemindersInv, Types
  <2>3. t.runAt <= now'
        BY <1>5 DEF Dispatch
  <2>4. QED BY <1>3, <2>2, <2>3 DEF Begun, Busy, Subject
<1>6. CASE UNCHANGED work
      BY <1>3, <1>6 DEF Begun, Busy, Subject
<1>7. QED BY <1>4, <1>5, <1>6 DEF Next, People, MoveByAssistant, MoveByStaff, Cancel, OptOut,
             OptIn, Edit, Plan, WakeEarly, LoseTask, Reconcile, Tick

LEMMA ChainStep ==
    ASSUME Skew = 0, ChainInv, Next
    PROVE  ChainInv'
<1> USE DEF ChainInv
<1>1. RemindersInv'
      BY RemindersStep
<1>2. Begun'
      BY <1>1, BegunKept
<1>3. CASE \E w \in Workers : Deliver(w) \/ Fail(w) \/ Crash(w)
      BY <1>1, <1>2, <1>3, DeliverChained
<1>4. CASE \E t \in queue : WakeEarly(t) \/ LoseTask(t)
      BY <1>1, <1>2, <1>4, WakeChained, LossChained
<1>5. CASE Reconcile
      BY <1>1, <1>2, <1>5, ReconcileChained
<1>6. CASE /\ UNCHANGED <<reminders, queue, names, adrift, delivered>>
           /\ now' = now \/ now' = now + 1
  <2>1. now' >= now
        BY <1>6 DEF RemindersInv, Types
  <2>2. QED BY <1>1, <1>2, <1>6, <2>1, SameTasks
<1>7. ASSUME NEW r \in Reminders, Plan(r)
      PROVE  ChainInv'
  <2>1. UNCHANGED <<now, delivered>>
        BY <1>7 DEF Plan, history
  <2>2. UNCHANGED <<store, adrift>> \/ PlanAt(r, now) \/ PlanUnqueued(r, now)
        BY <1>7 DEF Plan
  <2>3. CASE UNCHANGED <<store, adrift>>
        BY <1>6, <2>1, <2>3 DEF store
  <2>4. QED BY <1>1, <1>2, <2>1, <2>2, <2>3, PlanChained
<1>8. CASE \/ \E b \in Bookings : People(b)
           \/ \E t \in queue, w \in Workers : Dispatch(w, t)
           \/ Tick
      BY <1>6, <1>8 DEF People, MoveByAssistant, MoveByStaff, Cancel, OptOut, OptIn, Edit,
             Dispatch, Tick, store, history
<1>9. QED BY <1>3, <1>4, <1>5, <1>7, <1>8 DEF Next

LEMMA ChainStart == Init => ChainInv
<1> SUFFICES ASSUME Init PROVE ChainInv
    OBVIOUS
<1>1. RemindersInv
      BY RemindersStart
<1>2. Named /\ ChainAlive
      BY DEF Init, Named, ChainAlive
<1>3. Begun
      BY DEF Init, Begun, Busy, Idle
<1>4. QED BY <1>1, <1>2, <1>3 DEF ChainInv

\* When no instance's clock is behind the queue's, the wake-ups of scheduleWake
\* never break off: every reminder neither received nor given up has a task in the
\* queue, unless its task was refused with an error or lost.
THEOREM ChainNeverBreaks ==
    ASSUME Skew = 0
    PROVE  Spec => []ChainAlive
<1>1. Init => ChainInv
      BY ChainStart
<1>2. ChainInv /\ [Next]_vars => ChainInv'
  <2>1. ASSUME ChainInv, UNCHANGED vars
        PROVE  ChainInv'
    <3>1. RemindersInv'
          BY <2>1, RemindersStep DEF ChainInv
    <3>2. QED BY <2>1, <3>1 DEF ChainInv, Named, Begun, ChainAlive, Terminal, Busy, Subject,
                   vars, store, history
  <2>2. QED BY <2>1, ChainStep
<1>3. ChainInv => ChainAlive
      BY DEF ChainInv
<1>4. QED BY <1>1, <1>2, <1>3, PTL DEF Spec
=============================================================================
