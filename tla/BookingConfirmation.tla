------------------------ MODULE BookingConfirmation ------------------------
(***************************************************************************)
(* How a customer's appointments are made, cancelled and moved: the        *)
(* assistant prepares a proposal, the customer agrees in a later message,  *)
(* and only then is the calendar (Altegio) asked to change anything.       *)
(*                                                                         *)
(* One conversation.  Its turns exclude each other (LockExclusive of       *)
(* ConversationTurns), so one turn runs at a time; messages may arrive     *)
(* while it runs, be redelivered after it failed, and supersede it.  The   *)
(* language model may call any tool at any time with any arguments.        *)
(*                                                                         *)
(* Messages are numbered as the customer sent them.  A slot is the time it *)
(* begins, in the unit of the clock.                                       *)
(***************************************************************************)
EXTENDS Integers, FiniteSets

CONSTANTS
    Nothing,           \* no draft, no change, no appointment, no phone
    Phones,            \* phone numbers the customer may prove to be theirs
    Slots,             \* times that may be proposed
    Texts,             \* what a message may say
    MaxDraftAge,       \* maxDraftAge and maxChangeDraftAge (1 hour)
    RepeatsRecognised, \* whether the calendar recognises a repeated booking key
    AnswersUnreadable, \* whether a created booking may be answered with an error
    MaxMessages,       \* bound: customer messages
    MaxProposals,      \* bound: proposals prepared
    MaxAppointments,   \* bound: appointments in the calendar
    MaxTools,          \* bound: tools called in a turn (6 rounds of 8)
    MaxFaults,         \* bound: failures and crashes
    MaxEvents,         \* bound: actions of colleagues and of other customers
    Horizon            \* bound: the clock

ASSUME BookingAssumption ==
    /\ Slots \subseteq Nat
    /\ {MaxDraftAge, MaxMessages, MaxProposals, MaxAppointments, MaxTools,
        MaxFaults, MaxEvents, Horizon} \subseteq Nat
    /\ {RepeatsRecognised, AnswersUnreadable} \subseteq BOOLEAN
    /\ Texts \subseteq {"yes", "no", "code", "visits", "browse", "other"}
    /\ Nothing \notin Phones

Messages  == 1..MaxMessages
Proposals == 1..MaxProposals
Refs      == 1..MaxAppointments

VARIABLES
    \* ---- what the customer sent, and what became of it
    status, text, latest,
    \* ---- the shared stores: conversation, local appointment records, identity
    saved, local, verified,
    \* ---- the calendar: appointments, and times held by other customers
    calendar, taken,
    \* ---- the turn that holds the conversation
    pc, turn,
    \* ---- the clock and the bounds
    now, proposals, faults, events,
    \* ---- history, read by no action of the program
    dead,       \* proposals put aside: replaced, left, or overtaken by a colleague
    shown,      \* how many messages the customer had sent when each summary went out
    told,       \* proposals of which the customer was told that the time was taken
    held        \* the times each appointment has had in the calendar

inbox   == <<status, text, latest>>
world   == <<calendar, taken>>
bounds  == <<proposals, faults, events>>
history == <<dead, shown, told, held>>
vars == <<inbox, saved, local, verified, world, pc, turn, now, bounds, history>>

(***************************************************************************)
(* Documents.                                                              *)
(***************************************************************************)
\* The key of a draft is its IdempotencyKey.  A change has none; its number
\* identifies it to the properties.
Draft == [key : Proposals, slot : Slots, phone : Phones, at : 0..Horizon,
          from : Messages, awaiting : BOOLEAN]
Change == [key : Proposals, kind : {"cancel", "move"}, ref : Refs, to : Slots \cup {Nothing},
           at : 0..Horizon, from : Messages]

\* human: staff have the conversation.  rev: ExternalReplyRevision.
\* owner: the proved phone of the profile the conversation belongs to.
Conversation == [draft : Draft \cup {Nothing}, change : Change \cup {Nothing},
                 human : BOOLEAN, rev : 0..MaxEvents, owner : Phones \cup {Nothing}]

\* proposal, from and by: what it was last changed for, the message that
\* prepared that, and the one that confirmed it.
Appointment == [key : Nat, slot : Slots, phone : Phones, live : BOOLEAN,
                proposal : 0..MaxProposals, from : 0..MaxMessages, by : 0..MaxMessages]
LocalRecord == [slot : Slots, live : BOOLEAN]

Answers == {"summary", "booked", "taken", "unknown", "changed", "other"}

\* conv is the turn's own copy of the conversation, phone the proved phone it read
\* when it began, b the time of the appointment being changed as it was looked up.
\* attempted: the application has carried out the agreed change already.
\* say and about: what the answer will tell, of which proposal.  unresolved and
\* drops are history: an outcome nobody learned, proposals left behind.
Turn == [msg : Messages, conv : Conversation, phone : Phones \cup {Nothing},
         cancelled : BOOLEAN, tools : 0..MaxTools, attempted : BOOLEAN,
         say : Answers, about : Proposals \cup {Nothing}, unresolved : BOOLEAN,
         b : Slots \cup {Nothing}, drops : SUBSET Proposals]

\* An absent document is none of the documents.
ASSUME NothingIsNoDocument ==
    /\ Nothing \notin Draft /\ Nothing \notin Change
    /\ Nothing \notin Appointment /\ Nothing \notin LocalRecord /\ Nothing \notin Turn

Steps == {"idle", "reading", "replying", "creating", "changing", "saving", "sending"}

TypeOK ==
    /\ status \in [Messages -> {"unsent", "waiting", "failed", "handled"}]
    /\ text \in [Messages -> Texts \cup {Nothing}]
    /\ latest \in 0..MaxMessages
    /\ saved \in Conversation
    /\ local \in [Refs -> LocalRecord \cup {Nothing}]
    /\ verified \in Phones \cup {Nothing}
    /\ calendar \in [Refs -> Appointment \cup {Nothing}]
    /\ taken \subseteq Slots
    /\ pc \in Steps
    /\ turn \in Turn \cup {Nothing}
    /\ (pc = "idle") = (turn = Nothing)
    /\ now \in 0..Horizon
    /\ proposals \in 0..MaxProposals
    /\ faults \in 0..MaxFaults
    /\ events \in 0..MaxEvents
    /\ dead \subseteq Proposals
    /\ shown \in [Proposals -> Messages \cup {Nothing}]
    /\ told \subseteq Proposals
    /\ held \in [Refs -> SUBSET Slots]

NewConversation == [draft |-> Nothing, change |-> Nothing, human |-> FALSE, rev |-> 0,
                    owner |-> Nothing]

\* The customer may have an appointment from an earlier conversation.
BookedBefore(s, p) ==
    [key |-> 0, slot |-> s, phone |-> p, live |-> TRUE, proposal |-> 0, from |-> 0, by |-> 0]

Init ==
    /\ status = [m \in Messages |-> "unsent"]
    /\ text = [m \in Messages |-> Nothing]
    /\ latest = 0
    /\ saved = NewConversation
    /\ verified \in Phones \cup {Nothing}
    /\ \/ calendar = [x \in Refs |-> Nothing]
       \/ \E s \in Slots, p \in Phones : calendar = [x \in Refs |-> IF x = 1 THEN BookedBefore(s, p) ELSE Nothing]
    /\ local = [x \in Refs |-> IF calendar[x] = Nothing THEN Nothing
                                ELSE [slot |-> calendar[x].slot, live |-> TRUE]]
    /\ taken = {}
    /\ pc = "idle"
    /\ turn = Nothing
    /\ now = 0 /\ proposals = 0 /\ faults = 0 /\ events = 0
    /\ dead = {} /\ told = {}
    /\ shown = [p \in Proposals |-> Nothing]
    /\ held = [x \in Refs |-> IF calendar[x] = Nothing THEN {} ELSE {calendar[x].slot}]

(***************************************************************************)
(* The turn.                                                               *)
(***************************************************************************)
Goto(step) == pc' = step

\* The turn's copy of the conversation.
Conv == turn.conv

\* A turn goes on to the next tool only if it was not superseded and no
\* colleague has answered in the meantime (checkExternalReply).
MayCallTool ==
    /\ pc = "replying"
    /\ ~turn.cancelled
    /\ saved.rev = Conv.rev
    /\ turn.tools < MaxTools

UnchangedButTurn == UNCHANGED <<inbox, saved, local, verified, world, now, bounds, history>>

\* Proposals the turn puts aside; dead when it is saved.
Earlier == 1..proposals

OneFault == faults < MaxFaults /\ faults' = faults + 1

\* Expired is strict: a proposal is good until the end of its hour.
Fresh(p) == now - p.at <= MaxDraftAge
ValidDraft(d) == Fresh(d) /\ d.slot > now
ValidChange(c) == Fresh(c) /\ (c.kind = "move" => c.to > now)

(***************************************************************************)
(* Deliveries.                                                             *)
(***************************************************************************)
\* A newer message cancels the running turn if it lands on the same instance.
SupersedesTurn ==
    turn' = IF turn = Nothing THEN turn ELSE [turn EXCEPT !.cancelled = TRUE]

Arrive(m, t) ==
    /\ status[m] = "unsent" /\ \A n \in 1..(m - 1) : status[n] # "unsent"
    /\ status' = [status EXCEPT ![m] = "waiting"]
    /\ text' = [text EXCEPT ![m] = t]
    /\ latest' = m
    /\ SupersedesTurn \/ UNCHANGED turn
    /\ UNCHANGED <<saved, local, verified, world, pc, now, bounds, history>>

\* RegisterTurn is unconditional, so a redelivered message is the latest again.
Redeliver(m) ==
    /\ status[m] = "failed"
    /\ status' = [status EXCEPT ![m] = "waiting"]
    /\ latest' = m
    /\ SupersedesTurn \/ UNCHANGED turn
    /\ UNCHANGED <<text, saved, local, verified, world, pc, now, bounds, history>>

\* identify and openConversation.  A chat whose owner was proved to be someone
\* else keeps only the proposal that was waiting for this very proof.
Opened ==
    IF saved.owner = verified THEN saved
    ELSE [saved EXCEPT
            !.owner = verified,
            !.change = Nothing,
            !.draft = IF @ # Nothing /\ @.awaiting /\ @.phone = verified THEN @ ELSE Nothing]

Opening(m) ==
    /\ pc = "idle"
    /\ status[m] = "waiting"
    /\ saved' = Opened

\* A message is left to staff, or folded into a newer one before it is read.
LeaveOrFold(m) ==
    /\ Opening(m)
    /\ saved.human \/ latest # m
    /\ status' = [status EXCEPT ![m] = "handled"]
    /\ text' = [text EXCEPT ![m] = Nothing]
    /\ UNCHANGED <<latest, local, verified, world, pc, turn, now, bounds, history>>

OpenTurn(m) ==
    /\ Opening(m)
    /\ ~saved.human
    /\ latest = m
    /\ turn' = [msg |-> m, conv |-> Opened, phone |-> verified, cancelled |-> FALSE,
                tools |-> 0, attempted |-> FALSE, say |-> "other", about |-> Nothing,
                unresolved |-> FALSE, b |-> Nothing, drops |-> {}]
    /\ Goto("reading")
    /\ UNCHANGED <<inbox, local, verified, world, now, bounds, history>>

(***************************************************************************)
(* Messages the application answers itself, before any model is asked.     *)
(***************************************************************************)
Says(what) == pc = "reading" /\ text[turn.msg] = what

\* The turn goes on with this copy of the conversation and this answer.
Reply(conv, say, step) ==
    /\ turn' = [turn EXCEPT !.conv = conv, !.say = say]
    /\ Goto(step)
    /\ UnchangedButTurn

\* The same, and the customer is moving on from everything proposed before.
Abandon(conv, say, step) ==
    /\ turn' = [turn EXCEPT !.conv = conv, !.say = say, !.drops = Earlier]
    /\ Goto(step)
    /\ UnchangedButTurn

\* resumeVerifiedBooking: the proposal for the proved phone is read out again
\* and needs a fresh confirmation; one for another phone, or too old, is dropped.
Resumed(conv, phone) ==
    IF conv.draft = Nothing \/ ~conv.draft.awaiting THEN conv
    ELSE IF conv.draft.phone = phone /\ ValidDraft(conv.draft)
         THEN [conv EXCEPT !.draft.awaiting = FALSE, !.draft.from = turn.msg]
         ELSE [conv EXCEPT !.draft = Nothing]

Resumes(conv, phone) ==
    conv.draft # Nothing /\ conv.draft.awaiting /\ Resumed(conv, phone).draft # Nothing

ResumedTurn(conv, phone) ==
    [turn EXCEPT !.conv = Resumed(conv, phone), !.phone = phone,
                 !.say = IF Resumes(conv, phone) THEN "summary" ELSE "other",
                 !.about = IF Resumes(conv, phone) THEN conv.draft.key ELSE Nothing]

\* "My appointments", and what follows a contact shared outside the turn.
ShowAppointments ==
    /\ Says("visits")
    /\ turn' = IF turn.phone = Nothing THEN turn ELSE ResumedTurn(Conv, turn.phone)
    /\ Goto("saving")
    /\ UNCHANGED <<inbox, saved, local, verified, world, now, bounds, history>>

\* The code that was sent to phone p is entered: the phone is proved, and a
\* proposal that was not waiting for it is dropped.
VerifyCode(p) ==
    /\ Says("code")
    /\ verified' = p
    /\ LET conv == [Conv EXCEPT !.owner = p, !.change = Nothing]
           after == ResumedTurn(conv, p)
       IN  turn' = IF Resumes(conv, p) THEN after ELSE [after EXCEPT !.conv.draft = Nothing]
    /\ Goto("saving")
    /\ UNCHANGED <<inbox, saved, local, world, now, bounds, history>>

RefuseCode == Says("code") /\ Reply(Conv, "other", "saving")

\* The catalogue buttons abandon every unconfirmed proposal.
BrowseCatalogue ==
    /\ Says("browse")
    /\ Abandon([Conv EXCEPT !.draft = Nothing, !.change = Nothing], "other", "saving")

\* "No" leaves the appointment alone.
LeaveItAlone ==
    /\ Says("no")
    /\ Conv.change # Nothing
    /\ Abandon([Conv EXCEPT !.change = Nothing], "other", "saving")

AskModel ==
    /\ \/ Says("other")
       \/ Says("no") /\ Conv.change = Nothing
       \/ Says("yes") /\ Conv.change = Nothing /\ Conv.draft = Nothing
    /\ Reply(Conv, "other", "replying")

\* A plain "yes" to a change that is too old, or was prepared by this very message.
RefuseExpiredChange ==
    /\ Says("yes")
    /\ Conv.change # Nothing
    /\ ~ValidChange(Conv.change) \/ Conv.change.from = turn.msg
    /\ Reply([Conv EXCEPT !.change = Nothing], "other", "saving")

(***************************************************************************)
(* Tools: new appointments.                                                *)
(***************************************************************************)
Occupied(s) ==
    \/ s \in taken
    \/ \E x \in Refs : calendar[x] # Nothing /\ calendar[x].live /\ calendar[x].slot = s

\* The old proposal goes even if the new selection turns out not to fit.
PrepareBooking(s, p) ==
    /\ MayCallTool
    /\ LET cleared == [Conv EXCEPT !.draft = Nothing, !.change = Nothing]
           key == proposals + 1
           draft == [key |-> key, slot |-> s, phone |-> p, at |-> now, from |-> turn.msg,
                     awaiting |-> turn.phone # p]
           counted == [turn EXCEPT !.tools = @ + 1, !.drops = Earlier]
       IN  \/ /\ turn' = [counted EXCEPT !.conv = cleared, !.say = "other"]
              /\ UNCHANGED <<pc, proposals>>
           \/ /\ proposals < MaxProposals
              /\ s > now /\ ~Occupied(s)
              /\ proposals' = key
              /\ turn' = [counted EXCEPT !.conv = [cleared EXCEPT !.draft = draft],
                                         !.say = IF draft.awaiting THEN "other" ELSE "summary",
                                         !.about = key]
              /\ Goto(IF draft.awaiting THEN "saving" ELSE "replying")
    /\ UNCHANGED <<inbox, saved, local, verified, world, now, faults, events, history>>

\* Mutant: the message that prepared a proposal may confirm it.
NeverPreparedNow(p) == FALSE

\* The summary was for another message to confirm.
PreparedNow(p) == p.from = turn.msg

\* confirm_booking up to the call to the calendar.
ConfirmBooking(counted) ==
    LET d == Conv.draft IN
    /\ \/ /\ d # Nothing => ValidDraft(d) /\ PreparedNow(d)
          /\ turn' = counted
          /\ Goto("replying")
       \/ /\ d # Nothing /\ ~ValidDraft(d)
          /\ turn' = [counted EXCEPT !.conv.draft = Nothing]
          /\ Goto("replying")
       \/ /\ d # Nothing /\ ValidDraft(d) /\ ~PreparedNow(d)
          /\ \/ /\ turn.phone # d.phone
                /\ turn' = [counted EXCEPT !.conv.draft.awaiting = TRUE, !.say = "other"]
                /\ Goto("saving")
             \/ /\ turn.phone = d.phone
                /\ turn' = counted
                /\ Goto("creating")
             \* the service cannot be read, or may no longer be booked alone
             \/ /\ turn.phone = d.phone
                /\ turn' \in {counted, [counted EXCEPT !.conv.draft = Nothing]}
                /\ Goto("replying")
    /\ UnchangedButTurn

SayYesToBooking ==
    /\ Says("yes")
    /\ Conv.draft # Nothing /\ Conv.change = Nothing
    /\ ConfirmBooking(turn)

CallConfirmBooking ==
    /\ MayCallTool
    /\ ConfirmBooking([turn EXCEPT !.tools = @ + 1])

(***************************************************************************)
(* The calendar's side of a booking.                                       *)
(***************************************************************************)
\* Mutant: every attempt has a key of its own.
AttemptKey(d) == d.key + (MaxProposals + 1) * faults

\* Create sends the draft's key as its own: the same on every attempt.
RequestKey(d) == d.key

Recorded(key) == {x \in Refs : calendar[x] # Nothing /\ calendar[x].key = key}

Repeated(d) == RepeatsRecognised /\ Recorded(RequestKey(d)) # {}

\* The calendar carries out the request and x is the appointment it answers with.
Books(d, x) ==
    \/ /\ Repeated(d)
       /\ x \in Recorded(RequestKey(d))
       /\ UNCHANGED <<calendar, held>>
    \/ /\ ~Repeated(d) /\ ~Occupied(d.slot)
       /\ calendar[x] = Nothing /\ \A y \in 1..(x - 1) : calendar[y] # Nothing
       /\ calendar' = [calendar EXCEPT ![x] =
              [key |-> RequestKey(d), slot |-> d.slot, phone |-> d.phone, live |-> TRUE,
               proposal |-> d.key, from |-> d.from, by |-> turn.msg]]
       /\ held' = [held EXCEPT ![x] = @ \cup {d.slot}]

\* The request did not reach the calendar, or the answer did not reach us.
MayHaveBooked(d) ==
    \/ \E x \in Refs : Books(d, x)
    \/ UNCHANGED <<calendar, held>>

AroundCall == UNCHANGED <<inbox, saved, verified, taken, now, proposals, events, dead, shown, told>>

\* Mutant: the customer is told, and nobody else.
UnresolvedQuietly(key) ==
    [turn EXCEPT !.say = "unknown", !.about = key, !.unresolved = TRUE]

\* Nobody learned whether the calendar did it: staff are asked to find out.
Unresolved(key) ==
    [turn EXCEPT !.conv.human = TRUE, !.say = "unknown", !.about = key, !.unresolved = TRUE]

\* The appointment exists.  Recording it locally is attempted and may fail.
BookingMade(x) ==
    /\ pc = "creating"
    /\ Books(Conv.draft, x)
    /\ \/ local' = [local EXCEPT ![x] = [slot |-> Conv.draft.slot, live |-> TRUE]] /\ UNCHANGED faults
       \/ UNCHANGED local /\ OneFault
    /\ turn' = [turn EXCEPT !.conv.draft = Nothing, !.say = "booked", !.about = Conv.draft.key]
    /\ Goto("saving")
    /\ AroundCall

\* Somebody took the time; the draft is no use any more.
BookingRefused ==
    /\ pc = "creating"
    /\ ~Repeated(Conv.draft) /\ Occupied(Conv.draft.slot)
    /\ turn' = [turn EXCEPT !.conv.draft = Nothing, !.say = "taken", !.about = Conv.draft.key]
    /\ Goto("replying")
    /\ UnchangedButTurn

\* The request left and no answer came: the draft stays and staff are asked.
\* A superseded turn's call is cut off the same way.
BookingUnknown ==
    /\ pc = "creating"
    /\ OneFault \/ (turn.cancelled /\ UNCHANGED faults)
    /\ MayHaveBooked(Conv.draft)
    /\ turn' = Unresolved(Conv.draft.key)
    /\ Goto("replying")
    /\ UNCHANGED local /\ AroundCall

\* An error status, or an answer that cannot be read: the tool just failed.
BookingFails ==
    /\ pc = "creating"
    /\ OneFault
    /\ \/ UNCHANGED <<calendar, held>> /\ turn' = [turn EXCEPT !.say = "other"]
       \/ /\ AnswersUnreadable
          /\ \E x \in Refs : Books(Conv.draft, x)
          /\ turn' = [turn EXCEPT !.say = "other", !.unresolved = TRUE]
    /\ Goto("replying")
    /\ UNCHANGED local /\ AroundCall

(***************************************************************************)
(* Tools: cancelling and moving an appointment.                            *)
(***************************************************************************)
\* ownedBooking: the appointment is the proved phone's, and its management
\* proof is in the local record.
Owned(x) ==
    /\ calendar[x] # Nothing /\ calendar[x].phone = turn.phone
    /\ local[x] # Nothing

Upcoming(x) == calendar[x].slot > now

Counted == [turn EXCEPT !.tools = @ + 1]

\* Mutant: a draft stays confirmable next to the change.
WithBoth(conv, change) == [conv EXCEPT !.change = change]

\* A prepared change replaces whatever else was waiting for an answer.
WithChange(conv, change) == [conv EXCEPT !.draft = Nothing, !.change = change]

MayCallChangeTool == MayCallTool /\ ~turn.attempted /\ turn.phone # Nothing

\* Without a proved phone every change tool ends in the verification prompt.
AskForPhone ==
    /\ MayCallTool /\ ~turn.attempted /\ turn.phone = Nothing
    /\ turn' = [Counted EXCEPT !.say = "other"]
    /\ Goto("saving")
    /\ UnchangedButTurn

\* The same change prepared again keeps its confirmation.
AlreadyPrepared(kind, x, to) ==
    /\ Conv.change # Nothing
    /\ Conv.change.kind = kind /\ Conv.change.ref = x /\ Conv.change.to = to
    /\ ValidChange(Conv.change)

Prepare(kind, x, to) ==
    LET key == IF AlreadyPrepared(kind, x, to) THEN Conv.change.key ELSE proposals + 1
        change == IF AlreadyPrepared(kind, x, to) THEN Conv.change
                  ELSE [key |-> key, kind |-> kind, ref |-> x, to |-> to,
                        at |-> now, from |-> turn.msg]
    IN  /\ key \in Proposals
        /\ proposals' = IF key > proposals THEN key ELSE proposals
        /\ turn' = [Counted EXCEPT !.conv = WithChange(@, change), !.say = "summary",
                                   !.about = key, !.drops = IF key > proposals THEN Earlier ELSE @]
        /\ UNCHANGED <<inbox, saved, local, verified, world, pc, now, faults, events, history>>

PrepareCancellation(x) ==
    /\ MayCallChangeTool /\ Owned(x)
    /\ \/ /\ ~calendar[x].live
          /\ turn' = [Counted EXCEPT !.conv.change = Nothing]
          /\ UNCHANGED pc /\ UnchangedButTurn
       \/ /\ calendar[x].live /\ Upcoming(x)
          /\ Prepare("cancel", x, Nothing)

PrepareReschedule(x, s) ==
    /\ MayCallChangeTool /\ Owned(x)
    /\ calendar[x].live /\ Upcoming(x)
    /\ s # calendar[x].slot /\ s > now /\ ~Occupied(s)
    /\ Prepare("move", x, s)

\* confirm_cancellation and confirm_reschedule up to the call to the calendar.
\* Most refusals leave the change where it is; only an appointment that is
\* over, or cannot be moved any more, ends it.
ConfirmChange(counted) ==
    LET c == Conv.change
        refused == ~(c # Nothing /\ ValidChange(c) /\ ~PreparedNow(c) /\ Owned(c.ref))
    IN  /\ \/ /\ turn.phone = Nothing
              /\ turn' = [counted EXCEPT !.say = "other"]
              /\ Goto("saving")
           \* refused, the tool for the other kind of change, or a lookup that failed
           \/ /\ turn.phone # Nothing
              /\ turn' = counted
              /\ Goto("replying")
           \/ /\ turn.phone # Nothing /\ ~refused
              /\ c.kind = "cancel" /\ ~calendar[c.ref].live
              /\ turn' = [counted EXCEPT !.conv.change = Nothing, !.say = "changed", !.about = c.key]
              /\ Goto("saving")
           \/ /\ turn.phone # Nothing /\ ~refused
              /\ (c.kind = "move" /\ ~calendar[c.ref].live) \/ (calendar[c.ref].live /\ ~Upcoming(c.ref))
              /\ turn' = [counted EXCEPT !.conv.change = Nothing]
              /\ Goto("replying")
           \/ /\ turn.phone # Nothing /\ ~refused
              /\ calendar[c.ref].live /\ Upcoming(c.ref)
              /\ turn' = [counted EXCEPT !.b = calendar[c.ref].slot]
              /\ Goto("changing")
        /\ UnchangedButTurn

SayYesToChange ==
    /\ Says("yes")
    /\ Conv.change # Nothing /\ ValidChange(Conv.change) /\ ~PreparedNow(Conv.change)
    /\ ConfirmChange([turn EXCEPT !.attempted = TRUE])

CallConfirmChange ==
    /\ MayCallTool /\ ~turn.attempted
    /\ ConfirmChange(Counted)

\* The calendar carries out the change, also when staff moved or cancelled the
\* appointment since it was looked up.
Changes(c) ==
    LET mark(a) == [a EXCEPT !.proposal = c.key, !.from = c.from, !.by = turn.msg] IN
    \/ /\ c.kind = "cancel"
       /\ calendar' = [calendar EXCEPT ![c.ref] = [mark(@) EXCEPT !.live = FALSE]]
       /\ UNCHANGED held
    \/ /\ c.kind = "move" /\ calendar[c.ref].live
       /\ calendar[c.ref].slot = c.to \/ ~Occupied(c.to)
       /\ calendar' = [calendar EXCEPT ![c.ref] = [mark(@) EXCEPT !.slot = c.to]]
       /\ held' = [held EXCEPT ![c.ref] = @ \cup {c.to}]

\* What recordChangedBooking writes: the appointment as it was looked up, with the change.
ChangedRecord(c) ==
    [slot |-> IF c.kind = "move" THEN c.to ELSE turn.b, live |-> c.kind = "move"]

ChangeMade ==
    /\ pc = "changing"
    /\ Changes(Conv.change)
    /\ \/ local' = [local EXCEPT ![Conv.change.ref] = ChangedRecord(Conv.change)] /\ UNCHANGED faults
       \/ UNCHANGED local /\ OneFault
    /\ turn' = [turn EXCEPT !.conv.change = Nothing, !.say = "changed", !.about = Conv.change.key]
    /\ Goto("saving")
    /\ AroundCall

\* The new time was taken, or the appointment is gone: the latter keeps the change.
ChangeRefused ==
    /\ pc = "changing"
    /\ Conv.change.kind = "move" /\ calendar[Conv.change.ref].slot # Conv.change.to
    /\ turn' = IF calendar[Conv.change.ref].live
               THEN [turn EXCEPT !.conv.change = Nothing, !.say = "other"]
               ELSE [turn EXCEPT !.say = "other"]
    /\ calendar[Conv.change.ref].live => Occupied(Conv.change.to)
    /\ Goto("replying")
    /\ UnchangedButTurn

\* Mutant: the change is recorded although its outcome is not known.
ChangeAssumed ==
    /\ pc = "changing"
    /\ OneFault
    /\ Changes(Conv.change) \/ UNCHANGED <<calendar, held>>
    /\ local' = [local EXCEPT ![Conv.change.ref] = ChangedRecord(Conv.change)]
    /\ turn' = Unresolved(Conv.change.key)
    /\ Goto("replying")
    /\ AroundCall

ChangeUnknown ==
    /\ pc = "changing"
    /\ OneFault \/ (turn.cancelled /\ UNCHANGED faults)
    /\ Changes(Conv.change) \/ UNCHANGED <<calendar, held>>
    /\ turn' = Unresolved(Conv.change.key)
    /\ Goto("replying")
    /\ UNCHANGED local /\ AroundCall

\* Altegio refuses for a reason of its own; nothing changed, and the change stays.
ChangeFails ==
    /\ pc = "changing"
    /\ OneFault
    /\ turn' = [turn EXCEPT !.say = "other"]
    /\ Goto("replying")
    /\ UNCHANGED <<local, calendar, held>> /\ AroundCall

(***************************************************************************)
(* The end of a turn.                                                      *)
(***************************************************************************)
\* The model answers, asks for a person, or gives up.
Answer ==
    /\ pc = "replying"
    /\ \E human \in {Conv.human, TRUE} : turn' = [turn EXCEPT !.conv.human = human]
    /\ Goto("saving")
    /\ UnchangedButTurn

\* Nobody reads a message again once it has been handled.
Ends(outcome) ==
    /\ status' = [status EXCEPT ![turn.msg] = outcome]
    /\ text' = IF outcome = "handled" THEN [text EXCEPT ![turn.msg] = Nothing] ELSE text
    /\ pc' = "idle"
    /\ turn' = Nothing
    /\ UNCHANGED <<latest, verified, taken, now, proposals, events>>

\* Mutant: the last save wins.
MayAlwaysSave == TRUE

\* Save checks ExternalReplyRevision, so a colleague's answer wins.
MaySave == saved.rev = Conv.rev

Store ==
    /\ saved' = Conv
    /\ dead' = dead \cup turn.drops

Undisturbed == UNCHANGED <<local, calendar, held>>

SaveTurn ==
    /\ pc = "saving"
    /\ MaySave
    /\ Store
    /\ Goto("sending")
    /\ UNCHANGED <<inbox, local, verified, world, turn, now, bounds, shown, told, held>>

\* A colleague has answered: the turn ends without an answer.
StaffAnswered ==
    /\ pc \in {"replying", "saving", "sending"}
    /\ ~MaySave
    /\ Ends("handled")
    /\ Undisturbed /\ UNCHANGED <<saved, faults, dead, shown, told>>

\* A superseded turn is folded into the newer message.  What it did is saved if
\* that works.
Fold ==
    /\ \/ pc = "replying" /\ turn.cancelled
       \/ pc = "sending" /\ (turn.cancelled \/ latest # turn.msg)
    /\ \/ MaySave /\ Store /\ UNCHANGED faults
       \/ ~MaySave /\ UNCHANGED <<saved, dead, faults>>
       \/ OneFault /\ UNCHANGED <<saved, dead>>
    /\ Ends("handled")
    /\ Undisturbed /\ UNCHANGED <<shown, told>>

Delivered ==
    /\ shown' = IF turn.say = "summary" /\ shown[turn.about] = Nothing
                THEN [shown EXCEPT ![turn.about] =
                         Cardinality({m \in Messages : status[m] # "unsent"})]
                ELSE shown
    /\ told' = IF turn.say = "taken" THEN told \cup {turn.about} ELSE told

MaySend == pc = "sending" /\ latest = turn.msg /\ ~turn.cancelled /\ MaySave

Send ==
    /\ MaySend
    /\ Delivered
    /\ Ends("handled")
    /\ Undisturbed /\ UNCHANGED <<saved, faults, dead>>

\* The send fails for good, or for now, or its completion is lost; the customer
\* may have the answer all the same.
SendFails ==
    /\ MaySend
    /\ OneFault
    /\ Delivered \/ UNCHANGED <<shown, told>>
    /\ \E outcome \in {"handled", "failed"} : Ends(outcome)
    /\ Undisturbed /\ UNCHANGED <<saved, dead>>

\* A call the turn needs fails, or its process stops: the message is redelivered.
\* The save, or the calendar, may have done its part.
TurnFails ==
    /\ turn # Nothing
    /\ OneFault
    /\ \/ pc = "saving" /\ MaySave /\ Store
       \/ UNCHANGED <<saved, dead>>
    /\ \/ pc = "creating" /\ \E x \in Refs : Books(Conv.draft, x)
       \/ pc = "changing" /\ Changes(Conv.change)
       \/ UNCHANGED <<calendar, held>>
    /\ Ends("failed")
    /\ UNCHANGED <<local, shown, told>>

(***************************************************************************)
(* Colleagues, other customers and time.                                   *)
(***************************************************************************)
OneEvent == events < MaxEvents /\ events' = events + 1

\* An answer typed in the channel's own inbox takes over at once.
StaffReply ==
    /\ OneEvent
    /\ saved' = [saved EXCEPT !.human = TRUE, !.rev = @ + 1, !.draft = Nothing, !.change = Nothing]
    /\ dead' = dead \cup Earlier
    /\ UNCHANGED <<inbox, local, verified, world, pc, turn, now, proposals, faults, shown, told, held>>

\* A command, or a takeover that has lapsed.
ResumeAssistant ==
    /\ pc = "idle" /\ saved.human
    /\ OneEvent
    /\ saved' = [saved EXCEPT !.human = FALSE]
    /\ UNCHANGED <<inbox, local, verified, world, pc, turn, now, proposals, faults, history>>

\* AcceptTelegramContact, outside any turn.
ShareContact(p) ==
    /\ OneEvent
    /\ verified' = p
    /\ UNCHANGED <<inbox, saved, local, world, pc, turn, now, proposals, faults, history>>

OthersTake(s) ==
    /\ OneEvent
    /\ ~Occupied(s)
    /\ taken' = taken \cup {s}
    /\ UNCHANGED <<inbox, saved, local, verified, calendar, pc, turn, now, proposals, faults, history>>

StaffCancels(x) ==
    /\ OneEvent
    /\ calendar[x] # Nothing /\ calendar[x].live
    /\ calendar' = [calendar EXCEPT ![x].live = FALSE]
    /\ UNCHANGED <<inbox, saved, local, verified, taken, pc, turn, now, proposals, faults, history>>

StaffMoves(x, s) ==
    /\ OneEvent
    /\ calendar[x] # Nothing /\ calendar[x].live /\ ~Occupied(s)
    /\ calendar' = [calendar EXCEPT ![x].slot = s]
    /\ held' = [held EXCEPT ![x] = @ \cup {s}]
    /\ UNCHANGED <<inbox, saved, local, verified, taken, pc, turn, now, proposals, faults, dead, shown, told>>

Tick ==
    /\ now < Horizon
    /\ now' = now + 1
    /\ UNCHANGED <<inbox, saved, local, verified, world, pc, turn, bounds, history>>

(***************************************************************************)
(* The system.                                                             *)
(***************************************************************************)
Delivering ==
    \E m \in Messages :
        (\E t \in Texts : Arrive(m, t)) \/ Redeliver(m) \/ LeaveOrFold(m) \/ OpenTurn(m)

Reading ==
    \/ ShowAppointments \/ RefuseCode \/ BrowseCatalogue \/ LeaveItAlone \/ AskModel
    \/ RefuseExpiredChange \/ SayYesToBooking \/ SayYesToChange
    \/ \E p \in Phones : VerifyCode(p)

Booking ==
    \/ \E s \in Slots, p \in Phones : PrepareBooking(s, p)
    \/ CallConfirmBooking
    \/ \E x \in Refs : BookingMade(x)
    \/ BookingRefused \/ BookingUnknown \/ BookingFails

Changing ==
    \/ AskForPhone \/ CallConfirmChange
    \/ \E x \in Refs : PrepareCancellation(x) \/ \E s \in Slots : PrepareReschedule(x, s)
    \/ ChangeMade \/ ChangeRefused \/ ChangeUnknown \/ ChangeFails

Ending == Answer \/ SaveTurn \/ StaffAnswered \/ Fold \/ Send \/ SendFails \/ TurnFails

Environment ==
    \/ StaffReply \/ ResumeAssistant \/ Tick
    \/ \E p \in Phones : ShareContact(p)
    \/ \E s \in Slots : OthersTake(s)
    \/ \E x \in Refs : StaffCancels(x) \/ \E s \in Slots : StaffMoves(x, s)

Next == Delivering \/ Reading \/ Booking \/ Changing \/ Ending \/ Environment

Spec == Init /\ [][Next]_vars

(***************************************************************************)
(* Safety.                                                                 *)
(***************************************************************************)
\* A proposal becomes at most one appointment, however often its confirmation
\* is repeated after a lost answer, a failed save or a crash.
OneAppointmentPerProposal ==
    \A p \in Proposals :
        Cardinality({x \in Refs : calendar[x] # Nothing /\ calendar[x].proposal = p}) <= 1

\* Nothing is booked or changed while handling the message it was prepared
\* from, not even when that message is handled again after a failure.
ConfirmedByAnotherMessage ==
    \A x \in Refs : calendar[x] # Nothing /\ calendar[x].by # 0 => calendar[x].by # calendar[x].from

\* One answer can never consent to two things: a draft and a change are never
\* pending together.
OneProposalAtATime == saved.draft = Nothing \/ saved.change = Nothing

\* No proposal that was put aside becomes confirmable again: one that a newer
\* proposal replaced, that the customer browsed away from, a change answered with
\* "no", or any that a colleague's answer made obsolete.  A draft of a new
\* appointment answered with "no" is not put aside: the message goes to the model,
\* and a later "yes" within the hour books that draft.
DroppedStaysDropped ==
    /\ saved.draft # Nothing => saved.draft.key \notin dead
    /\ saved.change # Nothing => saved.change.key \notin dead

\* A customer told that the time was taken has no appointment from that
\* proposal, not even one made by an earlier attempt that was cut off.
NotBookedIsTrue ==
    \A x \in Refs : calendar[x] # Nothing => calendar[x].proposal \notin told

\* The local record never runs ahead of the calendar: it shows a cancellation
\* only of an appointment that is cancelled, and only times it really had.
LocalFollowsCalendar ==
    \A x \in Refs : local[x] # Nothing =>
        /\ local[x].slot \in held[x]
        /\ ~local[x].live => ~calendar[x].live

\* A message whose handling left an outcome that nobody learned is done only
\* when staff have the conversation, unless the folded turn's save fails.
UnresolvedIsHandedOver ==
    [][/\ turn # Nothing /\ turn.unresolved
       /\ status'[turn.msg] = "handled"
       /\ faults' = faults
       => saved'.human]_vars

\* Whatever is booked or changed was agreed to in a message the customer sent
\* after the summary of exactly that went out.
AgreedAfterSummary ==
    \A x \in Refs : calendar[x] # Nothing /\ calendar[x].by # 0 =>
        shown[calendar[x].proposal] # Nothing /\ calendar[x].by > shown[calendar[x].proposal]
=============================================================================
