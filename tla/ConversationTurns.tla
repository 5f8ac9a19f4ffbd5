-------------------------- MODULE ConversationTurns --------------------------
(***************************************************************************)
(* One customer conversation served by several instances of the gateway.   *)
(*                                                                         *)
(* Customer messages arrive as webhook deliveries which the provider       *)
(* repeats until they are acknowledged (Service.Handle).  Colleagues relay *)
(* answers through the staff chat (RelayStaffReply), change who is         *)
(* answering (RunStaffCommand), and answer in the channel's own inbox,     *)
(* which the service only sees afterwards as an echo (RecordExternalReply).*)
(* Instances crash, store calls fail, and a provider may accept a message  *)
(* without the service learning of it.                                     *)
(*                                                                         *)
(* One tick of time is a coarse unit: a request lives at most TurnTimeout  *)
(* ticks (2 minutes), an unfinished claim ClaimTTL (5 minutes), a handover *)
(* nobody picks up HandoffTimeout (2 hours).                               *)
(***************************************************************************)
EXTENDS ClaimStore

CONSTANTS
    Deliveries,        \* customer messages of this conversation
    StaffReplies,      \* colleagues' replies typed in the staff chat
    Echoes,            \* colleagues' replies typed in the channel's own inbox
    Commands,          \* the staff commands in use, of {"take", "resume"}
    Lock,              \* the claim key that locks the conversation
    NoDelivery,        \* "no turn registered yet"
    NoWork,            \* what an idle request is doing
    Instances,         \* running copies of the gateway
    InstanceOf,        \* the instance that serves each request
    TurnTimeout,       \* lifetime of a request
    HandoffTimeout,    \* how long the assistant leaves a conversation to staff
    SendErrorsClassified, \* whether the sender reports a lost answer as uncertain
    ChannelCanFail,    \* whether the channel may be known to be unavailable
    UnknownChanges,    \* whether Altegio may leave a requested change unanswered
    MaxFaults,         \* bound: failures, crashes and slow attempts per behaviour
    MaxCommands        \* bound: staff commands per behaviour

Keys == Deliveries \cup StaffReplies \cup {Lock}
Work == Deliveries \cup StaffReplies \cup Commands

ASSUME ConversationAssumption ==
    /\ TurnTimeout \in Nat
    /\ TurnTimeout < ClaimTTL
    /\ HandoffTimeout \in Nat
    /\ MaxFaults \in Nat
    /\ MaxCommands \in Nat
    /\ InstanceOf \in [Requests -> Instances]
    /\ Deliveries \cap StaffReplies = {}
    /\ Deliveries \cap Commands = {}
    /\ StaffReplies \cap Commands = {}
    /\ Lock \notin Deliveries \cup StaffReplies \cup Commands
    /\ NoDelivery \notin Deliveries
    /\ NoWork \notin Deliveries \cup StaffReplies \cup Commands
    /\ Commands \subseteq {"take", "resume"}
    /\ {SendErrorsClassified, ChannelCanFail, UnknownChanges} \subseteq BOOLEAN

VARIABLES
    \* ---- the shared stores
    processed,  \* the claim documents
    latest,     \* the newest customer message any instance registered
    stored,     \* the conversation document
    transcript, \* customer messages recorded in the transcript
    echo,       \* what has become of each native staff reply
    \* ---- per instance: the turn that a newer message may cancel
    active,
    \* ---- the providers: deliveries whose last copy was answered with success,
    \* although their completion is not recorded
    acknowledged,
    \* ---- per request
    pc, work, budget, turn,
    \* ---- bounds
    faults, commands,
    \* ---- history, read by no action of the program
    sends,      \* messages the provider accepted, per piece of work
    lost,       \* attempts that ended after a send without recording it
    folded,     \* deliveries completed as superseded, with the turn then newest
    told,       \* what became of the notice of the current handover
    seen        \* messages read by the answers that were sent

stores  == <<processed, latest, stored, transcript, echo>>
request == <<pc, work, budget, turn>>
bounds  == <<faults, commands>>
history == <<sends, lost, folded, told, seen>>
vars    == <<stores, active, acknowledged, request, bounds, history>>

(***************************************************************************)
(* The conversation document.                                              *)
(***************************************************************************)
States == {"assistant_active", "human_requested", "human_active"}

\* age is the time since HandoffAt, and means nothing while the assistant is
\* active; stale holds the native replies sent no later than
\* AssistantResumedAt.  Nothing closes a conversation, so that state is left out.
Conversation == [state : States, rev : Nat,
                 age : 0..(HandoffTimeout + 1), stale : SUBSET Echoes]

NewConversation ==
    [state |-> "assistant_active", rev |-> 0, age |-> 0, stale |-> {}]

AssistantMayReply(c) == c.state = "assistant_active"

Overdue(c) == ~AssistantMayReply(c) /\ c.age > HandoffTimeout

SentEchoes == {e \in Echoes : echo[e] # "unsent"}

TransitionTo(c, next) ==
    IF c.state = next THEN c
    ELSE [c EXCEPT !.state = next, !.age = 0,
                   !.stale = IF next = "assistant_active" THEN SentEchoes ELSE @]

ObserveExternalReplyKeepsRevision(c, e) ==
    IF e \in c.stale THEN c
    ELSE [c EXCEPT !.state = "human_active", !.age = 0]

ObserveExternalReply(c, e) ==
    IF e \in c.stale THEN c
    ELSE [c EXCEPT !.state = "human_active", !.age = 0, !.rev = @ + 1]

Older(c) ==
    IF AssistantMayReply(c) \/ c.age > HandoffTimeout THEN c
    ELSE [c EXCEPT !.age = @ + 1]

(***************************************************************************)
(* Requests.                                                               *)
(***************************************************************************)
\* The steps of Handle, RelayStaffReply and RunStaffCommand.  Those in
\* LockedSteps run with the conversation locked.
LockedTurnSteps ==
    {"opening", "openSaving", "receiving", "deciding", "outageSaving",
     "outageTelling", "forwarding", "withdrawing", "checkingTurn", "composing", "saving",
     "announcing", "recheckingTurn", "checkingStaff", "sending",
     "storingChoices", "folding", "completing"}
LockedRelaySteps == {"opening", "relaySaving", "relaySending", "relayRecording"}
LockedCommandSteps == {"opening", "commandSaving"}
UnlockSteps == {"unlocking", "unlockThenRelease", "unlockThenComplete"}
LockedSteps ==
    LockedTurnSteps \cup LockedRelaySteps \cup LockedCommandSteps \cup UnlockSteps
UnlockedSteps == {"registering", "superseding", "locking", "releasing", "settling"}
Steps == {"idle"} \cup LockedSteps \cup UnlockedSteps

\* What a request remembers: its copy of the conversation, whether a newer
\* message cancelled it, whether a handover has to be announced, the messages
\* its answer was composed from, and whether the provider accepted its message.
Turn == [conv : Conversation, cancelled : BOOLEAN, reason : BOOLEAN,
         read : SUBSET Deliveries, accepted : BOOLEAN]

NewTurn == [conv |-> NewConversation, cancelled |-> FALSE, reason |-> FALSE,
            read |-> {}, accepted |-> FALSE]

TypeOK ==
    /\ processed \in [Keys -> Entry]
    /\ latest \in Deliveries \cup {NoDelivery}
    /\ stored \in Conversation
    /\ transcript \subseteq Deliveries
    /\ echo \in [Echoes -> {"unsent", "sent", "recorded"}]
    /\ active \in [Instances -> Requests \cup {NoRequest}]
    /\ acknowledged \subseteq Deliveries
    /\ pc \in [Requests -> Steps]
    /\ work \in [Requests -> Work \cup {NoWork}]
    /\ budget \in [Requests -> 0..TurnTimeout]
    /\ turn \in [Requests -> Turn]
    /\ faults \in 0..MaxFaults
    /\ commands \in 0..MaxCommands
    /\ sends \in [Deliveries \cup StaffReplies -> Nat]
    /\ lost \in [Deliveries \cup StaffReplies -> Nat]
    /\ folded \subseteq Deliveries \X (Deliveries \cup {NoDelivery})
    /\ told \in {"untold", "logged", "told"}
    /\ seen \subseteq Deliveries

Init ==
    /\ processed = [k \in Keys |-> Absent]
    /\ latest = NoDelivery
    /\ stored = NewConversation
    /\ transcript = {}
    /\ echo = [e \in Echoes |-> "unsent"]
    /\ active = [i \in Instances |-> NoRequest]
    /\ acknowledged = {}
    /\ pc = [r \in Requests |-> "idle"]
    /\ work = [r \in Requests |-> NoWork]
    /\ budget = [r \in Requests |-> 0]
    /\ turn = [r \in Requests |-> NewTurn]
    /\ faults = 0 /\ commands = 0
    /\ sends = [k \in Deliveries \cup StaffReplies |-> 0]
    /\ lost = [k \in Deliveries \cup StaffReplies |-> 0]
    /\ folded = {} /\ told = "untold" /\ seen = {}

(***************************************************************************)
(* Shared steps.                                                           *)
(***************************************************************************)
Goto(r, step) == pc' = [pc EXCEPT ![r] = step]

\* A claim id is drawn afresh, so no live claim carries it.
Fresh(r) == pc[r] = "idle" /\ \A k \in Keys : processed[k].owner = r => processed[k].ttl = 0

Begin(r, w, step) ==
    /\ Goto(r, step)
    /\ work' = [work EXCEPT ![r] = w]
    /\ budget' = [budget EXCEPT ![r] = TurnTimeout]
    /\ turn' = [turn EXCEPT ![r] = NewTurn]

\* The request is answered; Activate's cleanup has removed it from its instance.
Retire(r) ==
    /\ Goto(r, "idle")
    /\ work' = [work EXCEPT ![r] = NoWork]
    /\ budget' = [budget EXCEPT ![r] = 0]
    /\ turn' = [turn EXCEPT ![r] = NewTurn]
    /\ active' = [i \in Instances |-> IF active[i] = r THEN NoRequest ELSE active[i]]

OneFault == faults < MaxFaults /\ faults' = faults + 1

Conflict(r) == stored.rev # turn[r].conv.rev

\* Save replaces the document.  The history beside it starts afresh with each
\* handover and with each return to the assistant.
Save(c) ==
    /\ stored' = c
    /\ told' = IF c.state = "human_requested" /\ <<c.state, c.age>> = <<stored.state, stored.age>>
                THEN told ELSE "untold"

\* The provider accepts the message a request sends.
Accept(r) ==
    /\ sends' = [sends EXCEPT ![work[r]] = @ + 1]
    /\ turn' = [turn EXCEPT ![r].accepted = TRUE]

\* The call ended in an error, whether or not the provider had accepted it.
MaybeAccept(r) == Accept(r) \/ UNCHANGED <<sends, turn>>

Forgets(rs) ==
    lost' = [k \in DOMAIN lost |-> lost[k] + (IF \E r \in rs : turn[r].accepted /\ work[r] = k
                                             THEN 1 ELSE 0)]

(***************************************************************************)
(* Handle: taking a delivery up.                                           *)
(***************************************************************************)
\* A copy that finds the delivery claimed is answered with an error, one that finds
\* it completed with success; neither does anything else.  A provider that sends
\* another copy waits for another answer.
ReceiveDelivery(r, d) ==
    /\ Fresh(r)
    /\ Claimable(processed[d])
    /\ processed' = [processed EXCEPT ![d] = ClaimedBy(r)]
    /\ acknowledged' = acknowledged \ {d}
    /\ Begin(r, d, "registering")
    /\ UNCHANGED <<latest, stored, transcript, echo, active, bounds, history>>

RegisterTurn(r) ==
    /\ pc[r] = "registering"
    /\ latest' = work[r]
    /\ Goto(r, "superseding")
    /\ UNCHANGED <<processed, stored, transcript, echo, active, acknowledged, work, budget, turn,
                   bounds, history>>

\* Cancels whatever turn this instance is composing for the conversation.
SupersedeEverywhere(r) ==
    /\ pc[r] = "superseding"
    /\ turn' = [t \in Requests |-> IF \E i \in Instances : t = active[i]
                                   THEN [turn[t] EXCEPT !.cancelled = TRUE] ELSE turn[t]]
    /\ Goto(r, "locking")
    /\ UNCHANGED <<stores, active, acknowledged, work, budget, bounds, history>>

Supersede(r) ==
    /\ pc[r] = "superseding"
    /\ turn' = [t \in Requests |-> IF t = active[InstanceOf[r]]
                                   THEN [turn[t] EXCEPT !.cancelled = TRUE] ELSE turn[t]]
    /\ Goto(r, "locking")
    /\ UNCHANGED <<stores, active, acknowledged, work, budget, bounds, history>>

LockIgnoringHolder(r) ==
    /\ pc[r] = "locking"
    /\ ClaimableIgnoringLease(processed[Lock])
    /\ processed' = [processed EXCEPT ![Lock] = ClaimedBy(r)]
    /\ Goto(r, "opening")
    /\ UNCHANGED <<latest, stored, transcript, echo, active, acknowledged, work, budget, turn,
                   bounds, history>>

LockConversation(r) ==
    /\ pc[r] = "locking"
    /\ Claimable(processed[Lock])
    /\ processed' = [processed EXCEPT ![Lock] = ClaimedBy(r)]
    /\ Goto(r, "opening")
    /\ UNCHANGED <<latest, stored, transcript, echo, active, acknowledged, work, budget, turn,
                   bounds, history>>

\* The request's time ran out while another one held the conversation.
GiveUpWaiting(r) ==
    /\ pc[r] = "locking"
    /\ budget[r] = 0
    /\ ~Claimable(processed[Lock])
    /\ Goto(r, "releasing")
    /\ UNCHANGED <<stores, active, acknowledged, work, budget, turn, bounds, history>>

\* The conversation is read only once it is locked.  A relay takes it over
\* and a command moves it before either is saved.
LoadConversation(r) ==
    /\ pc[r] = "opening"
    /\ \/ /\ work[r] \in Deliveries
          /\ turn' = [turn EXCEPT ![r].conv = stored]
          /\ Goto(r, "openSaving")
       \/ /\ work[r] \in StaffReplies
          /\ turn' = [turn EXCEPT ![r].conv = [TransitionTo(stored, "human_active") EXCEPT !.age = 0]]
          /\ Goto(r, "relaySaving")
       \/ /\ work[r] \in Commands
          /\ turn' = [turn EXCEPT ![r].conv =
                        TransitionTo(stored, IF work[r] = "resume" THEN "assistant_active"
                                                                  ELSE "human_active")]
          /\ Goto(r, "commandSaving")
    /\ UNCHANGED <<stores, active, acknowledged, work, budget, bounds, history>>

\* Saving a copy that an echo has overtaken ends the turn: the delivery is
\* completed and nothing is sent.
SaveStep(r, from, to) ==
    /\ pc[r] = from
    /\ IF Conflict(r)
       THEN /\ Goto(r, "unlockThenComplete")
            /\ UNCHANGED <<stored, told>>
       ELSE /\ Save(turn[r].conv)
            /\ Goto(r, to)
    /\ UNCHANGED <<processed, latest, transcript, echo, active, acknowledged, work, budget, turn,
                   bounds, sends, lost, folded, seen>>

SaveOpened(r) == SaveStep(r, "openSaving", "receiving")

(***************************************************************************)
(* Handle: deciding who answers.                                           *)
(***************************************************************************)
\* A press on a keyboard that is no longer current is answered at once, and
\* leaves no trace in the transcript.
RefuseExpiredChoice(r) ==
    /\ pc[r] = "receiving"
    /\ AssistantMayReply(turn[r].conv)
    /\ Accept(r)
    /\ Goto(r, "completing")
    /\ UNCHANGED <<stores, active, acknowledged, work, budget, bounds, lost, folded, told, seen>>

RecordInbound(r) ==
    /\ pc[r] = "receiving"
    /\ transcript' = transcript \cup {work[r]}
    /\ Goto(r, "deciding")
    /\ UNCHANGED <<processed, latest, stored, echo, active, acknowledged, work, budget, turn,
                   bounds, history>>

\* The channel is known to refuse replies: staff get the conversation.
FindChannelOut(r) ==
    /\ pc[r] = "deciding"
    /\ ChannelCanFail
    /\ turn' = [turn EXCEPT ![r].conv =
                  IF AssistantMayReply(@) THEN TransitionTo(@, "human_requested") ELSE @]
    /\ Goto(r, "outageSaving")
    /\ UNCHANGED <<stores, active, acknowledged, work, budget, bounds, history>>

SaveOutage(r) == SaveStep(r, "outageSaving", "outageTelling")

Telling(r, from, to) ==
    /\ pc[r] = from
    /\ told' = IF stored.state = "human_requested" THEN "told" ELSE told
    /\ Goto(r, to)
    /\ UNCHANGED <<stores, active, acknowledged, work, budget, turn, bounds,
                   sends, lost, folded, seen>>

TellOutage(r) == Telling(r, "outageTelling", "completing")

\* The conversation once a handover nobody picked up has lapsed.
AfterTimeout(c) == IF Overdue(c) THEN TransitionTo(c, "assistant_active") ELSE c

LeaveToStaffQuietly(r) ==
    /\ pc[r] = "deciding"
    /\ ~AssistantMayReply(AfterTimeout(turn[r].conv))
    /\ Goto(r, "completing")
    /\ UNCHANGED <<stores, active, acknowledged, work, budget, turn, bounds, history>>

LeaveToStaff(r) ==
    /\ pc[r] = "deciding"
    /\ ~AssistantMayReply(AfterTimeout(turn[r].conv))
    /\ Goto(r, "forwarding")
    /\ UNCHANGED <<stores, active, acknowledged, work, budget, turn, bounds, history>>

Forward(r) == \E step \in {"completing", "withdrawing"} : Telling(r, "forwarding", step)

\* STOP withdraws the consent to reminders even while staff have the conversation.
WithdrawConsent(r) == SaveStep(r, "withdrawing", "completing")

\* Becomes the turn a newer message on this instance cancels.
ActivateTurn(r) ==
    /\ pc[r] = "deciding"
    /\ LET c == AfterTimeout(turn[r].conv)
           i == InstanceOf[r]
       IN  /\ AssistantMayReply(c)
           /\ turn' = [t \in Requests |->
                         IF t = r THEN [turn[t] EXCEPT !.conv = c]
                         ELSE IF t = active[i] THEN [turn[t] EXCEPT !.cancelled = TRUE]
                         ELSE turn[t]]
           /\ active' = [active EXCEPT ![i] = r]
    /\ Goto(r, "checkingTurn")
    /\ UNCHANGED <<stores, acknowledged, work, budget, bounds, history>>

(***************************************************************************)
(* Handle: composing and sending the answer.                               *)
(***************************************************************************)
Superseded(r) == turn[r].cancelled \/ latest # work[r]

\* A turn that finds itself obsolete is folded into the newer one.
FindSuperseded(r) ==
    /\ \/ pc[r] \in {"checkingTurn", "recheckingTurn"} /\ Superseded(r)
       \/ pc[r] \in {"composing", "checkingStaff"} /\ turn[r].cancelled
    /\ Goto(r, "folding")
    /\ UNCHANGED <<stores, active, acknowledged, work, budget, turn, bounds, history>>

ReadHistory(r) ==
    /\ pc[r] = "checkingTurn"
    /\ latest = work[r]
    /\ turn' = [turn EXCEPT ![r].read = transcript]
    /\ Goto(r, "composing")
    /\ UNCHANGED <<stores, active, acknowledged, work, budget, bounds, history>>

\* Text from the model, from a menu entry, or an apology.
ComposeAnswer(r) ==
    /\ pc[r] = "composing"
    /\ Goto(r, "saving")
    /\ UNCHANGED <<stores, active, acknowledged, work, budget, turn, bounds, history>>

HandCopyOver(r, announced) ==
    /\ AssistantMayReply(turn[r].conv)
    /\ turn' = [turn EXCEPT ![r].conv = TransitionTo(@, "human_requested"),
                            ![r].reason = announced]

\* "Talk to a person" is answered without the model.
HandOver(r) ==
    /\ pc[r] = "composing"
    /\ HandCopyOver(r, TRUE)
    /\ Goto(r, "saving")
    /\ UNCHANGED <<stores, active, acknowledged, work, budget, bounds, history>>

\* A tool the model asked for runs only after another look for staff activity;
\* the model then has a further round.
RequestHandoff(r) ==
    /\ pc[r] = "composing"
    /\ ~Conflict(r)
    /\ HandCopyOver(r, TRUE)
    /\ UNCHANGED <<stores, active, acknowledged, pc, work, budget, bounds, history>>

\* A cancellation or a move that Altegio did not answer.
UnknownChange(r) ==
    /\ UnknownChanges
    /\ pc[r] = "composing"
    /\ HandCopyOver(r, FALSE)
    /\ UNCHANGED <<stores, active, acknowledged, pc, work, budget, bounds, history>>

FindStaffReplied(r) ==
    /\ pc[r] \in {"composing", "checkingStaff"}
    /\ Conflict(r)
    /\ Goto(r, "unlockThenComplete")
    /\ UNCHANGED <<stores, active, acknowledged, work, budget, turn, bounds, history>>

SaveAnsweredSilently(r) == SaveStep(r, "saving", "recheckingTurn")

SaveAnswered(r) ==
    SaveStep(r, "saving", IF turn[r].reason THEN "announcing" ELSE "recheckingTurn")

Announce(r) == Telling(r, "announcing", "recheckingTurn")

RecheckTurn(r) ==
    /\ pc[r] = "recheckingTurn"
    /\ latest = work[r]
    /\ Goto(r, "checkingStaff")
    /\ UNCHANGED <<stores, active, acknowledged, work, budget, turn, bounds, history>>

CheckStaffSkipped(r) ==
    /\ pc[r] = "checkingStaff"
    /\ Goto(r, "sending")
    /\ UNCHANGED <<stores, active, acknowledged, work, budget, turn, bounds, history>>

CheckStaff(r) ==
    /\ pc[r] = "checkingStaff"
    /\ ~Conflict(r)
    /\ Goto(r, "sending")
    /\ UNCHANGED <<stores, active, acknowledged, work, budget, turn, bounds, history>>

Send(r) ==
    /\ pc[r] = "sending"
    /\ Accept(r)
    /\ seen' = seen \cup turn[r].read
    /\ Goto(r, "storingChoices")
    /\ UNCHANGED <<stores, active, acknowledged, work, budget, bounds, lost, folded, told>>

\* Cancelled while sending: the provider may or may not have the message.
SendCancelled(r) ==
    /\ pc[r] = "sending"
    /\ turn[r].cancelled
    /\ \/ /\ Accept(r)
          /\ seen' = seen \cup turn[r].read
       \/ UNCHANGED <<sends, turn, seen>>
    /\ Goto(r, "folding")
    /\ UNCHANGED <<stores, active, acknowledged, work, budget, bounds, lost, folded, told>>

\* Failing to store the choices of a reply that has been sent is only logged.
BestEffortSave(r) ==
    IF Conflict(r) THEN UNCHANGED <<stored, told>> ELSE Save(turn[r].conv)

StoreChoices(r) ==
    /\ pc[r] = "storingChoices"
    /\ BestEffortSave(r)
    /\ Goto(r, "completing")
    /\ UNCHANGED <<processed, latest, transcript, echo, active, acknowledged, work, budget, turn,
                   bounds, sends, lost, folded, seen>>

Fold(r) ==
    /\ pc[r] = "folding"
    /\ BestEffortSave(r)
    /\ folded' = folded \cup {<<work[r], latest>>}
    /\ Goto(r, "completing")
    /\ UNCHANGED <<processed, latest, transcript, echo, active, acknowledged, work, budget, turn,
                   bounds, sends, lost, seen>>

\* A send that ends in an error.  An outcome the sender reports as uncertain or
\* rejected is terminal and the delivery is completed; any other error hands it
\* back for a retry.  Only the Meta sender reports the first two.
SendFails(r) ==
    /\ pc[r] \in {"receiving", "sending"}
    /\ pc[r] = "receiving" => AssistantMayReply(turn[r].conv)
    /\ OneFault
    /\ MaybeAccept(r)
    /\ \/ SendErrorsClassified /\ Goto(r, "unlockThenComplete")
       \/ ~SendErrorsClassified /\ Goto(r, "unlockThenRelease")
    /\ UNCHANGED <<stores, active, acknowledged, work, budget, commands, lost, folded, told, seen>>

\* A definite refusal such as a rate limit: nothing was sent.
SendRefused(r) ==
    /\ pc[r] = "sending"
    /\ OneFault
    /\ Goto(r, "unlockThenRelease")
    /\ UNCHANGED <<stores, active, acknowledged, work, budget, turn, commands, history>>

(***************************************************************************)
(* Every request: finishing.                                               *)
(***************************************************************************)
\* Mutant: the webhook answers with success whatever became of the message.
AnswerSuccess(r) ==
    \/ UNCHANGED acknowledged
    \/ work[r] \in Deliveries /\ acknowledged' = acknowledged \cup {work[r]}

\* How the webhook answers at the end of a request: with success unless the
\* delivery was given back.  (Meta's webhook takes the two terminal errors of a
\* send for success, and no other sender reports them.)  The answer may be lost on
\* its way.  A recorded delivery is dropped when it comes again, so that it makes
\* no difference whether its provider saw the answer.
AnswerWebhook(r) ==
    \/ UNCHANGED acknowledged
    \/ /\ pc[r] # "releasing" /\ work[r] \in Deliveries /\ ~processed'[work[r]].done
       /\ acknowledged' = acknowledged \cup {work[r]}

\* Handle records completion while it still holds the conversation.
Complete(r) ==
    /\ pc[r] = "completing"
    /\ processed' = [processed EXCEPT ![work[r]] = CompleteEntry(@, r)]
    /\ Goto(r, "unlocking")
    /\ UNCHANGED <<latest, stored, transcript, echo, active, acknowledged, work, budget, turn,
                   bounds, history>>

\* Failing to record completion is only logged: the claim is kept and lapses.
CompleteFails(r) ==
    /\ pc[r] \in {"completing", "settling"}
    /\ OneFault
    /\ Forgets({r})
    /\ UNCHANGED <<stores, commands, sends, folded, told, seen>>
    /\ \/ pc[r] = "completing" /\ Goto(r, "unlocking")
          /\ UNCHANGED <<active, acknowledged, work, budget, turn>>
       \/ pc[r] = "settling" /\ Retire(r) /\ AnswerWebhook(r)

Unlock(r) ==
    /\ pc[r] = "unlocking"
    /\ processed' = [processed EXCEPT ![Lock] = ReleaseEntry(@, r)]
    /\ Retire(r)
    /\ AnswerWebhook(r)
    /\ UNCHANGED <<latest, stored, transcript, echo, bounds, history>>

\* On the way out with an error the conversation is unlocked first and the
\* delivery settled after it.
UnlockThenSettle(r) ==
    /\ pc[r] \in {"unlockThenRelease", "unlockThenComplete"}
    /\ processed' = [processed EXCEPT ![Lock] = ReleaseEntry(@, r)]
    /\ Goto(r, IF pc[r] = "unlockThenRelease" THEN "releasing" ELSE "settling")
    /\ UNCHANGED <<latest, stored, transcript, echo, active, acknowledged, work, budget, turn,
                   bounds, history>>

\* A command claims nothing, so it has nothing to give back.
ReleaseDelivery(r) ==
    /\ pc[r] = "releasing"
    /\ processed' = IF work[r] \in Commands THEN processed
                    ELSE [processed EXCEPT ![work[r]] = ReleaseEntry(@, r)]
    /\ Retire(r)
    /\ AnswerWebhook(r)
    /\ UNCHANGED <<latest, stored, transcript, echo, bounds, history>>

Settle(r) ==
    /\ pc[r] = "settling"
    /\ processed' = IF work[r] \in Commands THEN processed
                    ELSE [processed EXCEPT ![work[r]] = CompleteEntry(@, r)]
    /\ Retire(r)
    /\ AnswerWebhook(r)
    /\ UNCHANGED <<latest, stored, transcript, echo, bounds, history>>

(***************************************************************************)
(* RelayStaffReply and RunStaffCommand.                                    *)
(***************************************************************************)
StartRelay(r, s) ==
    /\ Fresh(r)
    /\ Claimable(processed[s])
    /\ processed' = [processed EXCEPT ![s] = ClaimedBy(r)]
    /\ Begin(r, s, "locking")
    /\ UNCHANGED <<latest, stored, transcript, echo, active, acknowledged, bounds, history>>

\* The takeover is saved before the message is sent.
SaveTakeover(r) ==
    /\ pc[r] = "relaySaving"
    /\ IF Conflict(r)
       THEN /\ Goto(r, "unlockThenRelease")
            /\ UNCHANGED <<stored, told>>
       ELSE /\ Save(turn[r].conv)
            /\ Goto(r, "relaySending")
    /\ UNCHANGED <<processed, latest, transcript, echo, active, acknowledged, work, budget, turn,
                   bounds, sends, lost, folded, seen>>

RelaySend(r) ==
    /\ pc[r] = "relaySending"
    /\ Accept(r)
    /\ Goto(r, "relayRecording")
    /\ UNCHANGED <<stores, active, acknowledged, work, budget, bounds, lost, folded, told, seen>>

RelaySendFailsForRetry(r) ==
    /\ pc[r] = "relaySending"
    /\ OneFault
    /\ MaybeAccept(r)
    /\ Goto(r, "unlockThenRelease")
    /\ UNCHANGED <<stores, active, acknowledged, work, budget, commands, lost, folded, told, seen>>

\* Once attempted, a relayed message is completed whatever came of it.
RelaySendFails(r) ==
    /\ pc[r] = "relaySending"
    /\ OneFault
    /\ MaybeAccept(r)
    /\ Goto(r, "unlockThenComplete")
    /\ UNCHANGED <<stores, active, acknowledged, work, budget, commands, lost, folded, told, seen>>

RecordRelay(r) ==
    /\ pc[r] = "relayRecording"
    /\ IF Conflict(r) THEN UNCHANGED <<stored, told>>
                      ELSE Save([turn[r].conv EXCEPT !.age = 0])
    /\ Goto(r, "unlockThenComplete")
    /\ UNCHANGED <<processed, latest, transcript, echo, active, acknowledged, work, budget, turn,
                   bounds, sends, lost, folded, seen>>

StartCommand(r, c) ==
    /\ Fresh(r)
    /\ commands < MaxCommands
    /\ commands' = commands + 1
    /\ Begin(r, c, "locking")
    /\ UNCHANGED <<stores, active, acknowledged, faults, history>>

SaveCommand(r) ==
    /\ pc[r] = "commandSaving"
    /\ IF Conflict(r) THEN UNCHANGED <<stored, told>> ELSE Save(turn[r].conv)
    /\ Goto(r, "unlocking")
    /\ UNCHANGED <<processed, latest, transcript, echo, active, acknowledged, work, budget, turn,
                   bounds, sends, lost, folded, seen>>

(***************************************************************************)
(* Native staff replies, failures and time.                                *)
(***************************************************************************)
StaffWriteNatively(e) ==
    /\ echo[e] = "unsent"
    /\ echo' = [echo EXCEPT ![e] = "sent"]
    /\ UNCHANGED <<processed, latest, stored, transcript, active, acknowledged, request,
                   bounds, history>>

\* Recorded without waiting for the lock; a repeated echo changes nothing.
RecordExternalReply(e) ==
    /\ echo[e] = "sent"
    /\ echo' = [echo EXCEPT ![e] = "recorded"]
    /\ stored' = ObserveExternalReply(stored, e)
    /\ told' = IF stored' = stored THEN told ELSE "untold"
    /\ UNCHANGED <<processed, latest, transcript, active, acknowledged, request, bounds,
                   sends, lost, folded, seen>>

\* A notice that cannot be delivered is logged with everything it said, and the
\* turn goes on.
NoticeFails(r) ==
    /\ OneFault
    /\ \/ pc[r] = "announcing" /\ Goto(r, "recheckingTurn")
       \/ pc[r] \in {"outageTelling", "forwarding"} /\ Goto(r, "completing")
    /\ told' = IF stored.state = "human_requested" /\ told = "untold" THEN "logged" ELSE told
    /\ UNCHANGED <<stores, active, acknowledged, work, budget, turn, commands, sends, lost, folded,
                   seen>>

\* A store call, a check or the model fails, or the request runs out of time.
FailsUnlocked == {"registering", "locking"}
FailsLocked ==
    {"opening", "openSaving", "receiving", "deciding", "outageSaving", "withdrawing", "checkingTurn",
     "composing", "saving", "recheckingTurn", "checkingStaff", "relaySaving", "commandSaving"}

Fail(r) ==
    /\ OneFault
    /\ \/ pc[r] \in FailsUnlocked /\ Goto(r, "releasing")
       \/ pc[r] \in FailsLocked /\ Goto(r, "unlockThenRelease")
    /\ UNCHANGED <<stores, active, acknowledged, work, budget, turn, commands, history>>

\* The write was committed and its acknowledgement was lost.
SaveAckLost(r) ==
    /\ pc[r] \in {"openSaving", "outageSaving", "withdrawing", "saving", "relaySaving",
                 "commandSaving"}
    /\ OneFault
    /\ ~Conflict(r)
    /\ Save(turn[r].conv)
    /\ Goto(r, "unlockThenRelease")
    /\ UNCHANGED <<processed, latest, transcript, echo, active, acknowledged, work, budget, turn,
                   commands, sends, lost, folded, seen>>

LockAckLost(r) ==
    /\ pc[r] = "locking"
    /\ OneFault
    /\ Claimable(processed[Lock])
    /\ processed' = [processed EXCEPT ![Lock] = ClaimedBy(r)]
    /\ Goto(r, "releasing")
    /\ UNCHANGED <<latest, stored, transcript, echo, active, acknowledged, work, budget, turn,
                   commands, history>>

UnlockLost(r) ==
    /\ pc[r] \in UnlockSteps
    /\ OneFault
    /\ UNCHANGED <<stores, commands, history>>
    /\ \/ pc[r] = "unlocking" /\ Retire(r) /\ AnswerWebhook(r)
       \/ /\ pc[r] # "unlocking"
          /\ Goto(r, IF pc[r] = "unlockThenRelease" THEN "releasing" ELSE "settling")
          /\ UNCHANGED <<active, acknowledged, work, budget, turn>>

\* An instance stops: its requests vanish, what they claimed stays claimed.
Crash(i) ==
    LET gone == {r \in Requests : InstanceOf[r] = i /\ pc[r] # "idle"}
    IN  /\ gone # {}
        /\ OneFault
        /\ Forgets({r \in gone : pc[r] # "unlocking"})
        /\ pc' = [r \in Requests |-> IF r \in gone THEN "idle" ELSE pc[r]]
        /\ work' = [r \in Requests |-> IF r \in gone THEN NoWork ELSE work[r]]
        /\ budget' = [r \in Requests |-> IF r \in gone THEN 0 ELSE budget[r]]
        /\ turn' = [r \in Requests |-> IF r \in gone THEN NewTurn ELSE turn[r]]
        /\ active' = [active EXCEPT ![i] = NoRequest]
        /\ UNCHANGED <<stores, acknowledged, commands, sends, folded, told, seen>>

\* A request is over by the time its budget is used up.
Tick ==
    /\ \A r \in Requests : pc[r] # "idle" => budget[r] > 0
    /\ processed' = [k \in Keys |-> Elapsed(processed[k])]
    /\ stored' = Older(stored)
    /\ budget' = [r \in Requests |-> IF pc[r] = "idle" THEN budget[r] ELSE budget[r] - 1]
    /\ turn' = [r \in Requests |-> [turn[r] EXCEPT !.conv = Older(@)]]
    /\ UNCHANGED <<latest, transcript, echo, active, acknowledged, pc, work, bounds, history>>

(***************************************************************************)
(* The system.                                                             *)
(***************************************************************************)
Handling(r) ==
    \/ RegisterTurn(r) \/ Supersede(r) \/ LockConversation(r) \/ GiveUpWaiting(r)
    \/ LoadConversation(r) \/ SaveOpened(r) \/ RefuseExpiredChoice(r) \/ RecordInbound(r)
    \/ FindChannelOut(r) \/ SaveOutage(r) \/ TellOutage(r)
    \/ LeaveToStaff(r) \/ Forward(r) \/ WithdrawConsent(r) \/ ActivateTurn(r)

Answering(r) ==
    \/ FindSuperseded(r) \/ ReadHistory(r) \/ ComposeAnswer(r) \/ HandOver(r)
    \/ RequestHandoff(r) \/ UnknownChange(r) \/ FindStaffReplied(r)
    \/ SaveAnswered(r) \/ Announce(r) \/ RecheckTurn(r) \/ CheckStaff(r)
    \/ Send(r) \/ SendCancelled(r) \/ StoreChoices(r) \/ Fold(r)

Finishing(r) ==
    \/ Complete(r) \/ Unlock(r) \/ UnlockThenSettle(r) \/ ReleaseDelivery(r) \/ Settle(r)

Staffing(r) == SaveTakeover(r) \/ RelaySend(r) \/ RecordRelay(r) \/ SaveCommand(r)

Progress(r) == Handling(r) \/ Answering(r) \/ Finishing(r) \/ Staffing(r)

Failing(r) ==
    \/ Fail(r) \/ SendFails(r) \/ SendRefused(r) \/ RelaySendFails(r)
    \/ CompleteFails(r) \/ NoticeFails(r) \/ SaveAckLost(r) \/ LockAckLost(r) \/ UnlockLost(r)

Redeliver(d) == \E r \in Requests : ReceiveDelivery(r, d)
RedeliverStaff(s) == \E r \in Requests : StartRelay(r, s)

Next ==
    \/ \E r \in Requests : Progress(r) \/ Failing(r)
    \/ \E d \in Deliveries : Redeliver(d)
    \/ \E s \in StaffReplies : RedeliverStaff(s)
    \/ \E r \in Requests, c \in Commands : StartCommand(r, c)
    \/ \E e \in Echoes : StaffWriteNatively(e) \/ RecordExternalReply(e)
    \/ \E i \in Instances : Crash(i)
    \/ Tick

Spec == Init /\ [][Next]_vars

Repeat(d) == d \notin acknowledged /\ Redeliver(d)

\* Requests run, time passes, and a provider repeats what was not answered with
\* success.  Nothing is assumed of colleagues and of failures.
FairSpec ==
    /\ Spec
    /\ \A r \in Requests : WF_vars(Progress(r))
    /\ \A d \in Deliveries : WF_vars(Repeat(d))
    /\ WF_vars(Tick)

(***************************************************************************)
(* Safety.                                                                 *)
(***************************************************************************)
\* The conversation is locked by one request at a time, whatever crashed or
\* was slow before it: two turns never interleave their saves or their sends.
LockExclusive ==
    \A r, s \in Requests : pc[r] \in LockedSteps /\ pc[s] \in LockedSteps => r = s

\* A request never outlives its lease: as long as it runs, the claims it took
\* are still its own and will expire only after it must have ended.
HoldsClaim(r, k) == processed[k].owner = r /\ ~processed[k].done /\ processed[k].ttl > budget[r]

LeaseCoversRequest ==
    \A r \in Requests :
        /\ pc[r] \in LockedSteps => HoldsClaim(r, Lock)
        /\ pc[r] \notin {"idle", "unlocking"} /\ work[r] \in Deliveries \cup StaffReplies
              => HoldsClaim(r, work[r])

\* A customer message is answered, and a colleague's message relayed, at most
\* once, plus once for each attempt that was cut off between the provider
\* accepting the message and the completion being recorded.
AnsweredOnce ==
    \A k \in Deliveries \cup StaffReplies : sends[k] <= 1 + lost[k]

\* Once a colleague has taken over, no answer of the assistant passes its last
\* check: the customer hears at most the one that had already passed it.
TakeoverSilencesAssistant ==
    [][\A r \in Requests :
          work[r] \in Deliveries /\ pc[r] # "sending" /\ pc'[r] = "sending" =>
              stored.state # "human_active"]_vars

\* A colleague keeps the conversation until somebody resumes the assistant or
\* the takeover lapses: no stale copy saved by another request undoes it.
TakeoverHolds ==
    [][stored.state = "human_active" /\ stored'.state # "human_active" =>
          \/ stored.age > HandoffTimeout
          \/ \E r \in Requests : pc[r] = "commandSaving" /\ work[r] = "resume"]_vars

\* Every turn folded into a newer message was indeed not the newest one.
NewestTurnIsNotFolded == \A f \in folded : f[1] # f[2]

Quiet == \A r \in Requests : pc[r] = "idle"
AllHandled == Quiet /\ \A d \in Deliveries : processed[d].done

\* Once everything has been handled and nothing failed, the newest message has not
\* been folded into an older one, so of several fragments at least the last is
\* answered or left to staff; and it has been answered if the assistant still has
\* the conversation.  The exceptions of the latter are a colleague's command and a
\* folded turn: either may give a conversation back to the assistant after its
\* newest message was left to staff.
NewestIsAnswered ==
    AllHandled /\ faults = 0 =>
        /\ \A f \in folded : f[1] # latest
        /\ folded = {} /\ commands = 0 /\ AssistantMayReply(stored) => sends[latest] > 0

\* Once everything has been handled, each message folded into a newer one was
\* part of what some answer was composed from, unless staff have the
\* conversation.
FoldedMessageWasRead ==
    AllHandled /\ AssistantMayReply(stored) => \A f \in folded : f[1] \in seen

\* A conversation handed over to staff is one that somebody knows about, as long as
\* no call failed: at the latest once everything has been handled, and at once when
\* no turn was folded.  A turn cancelled by a newer message saves the handover it
\* composed without announcing it, and leaves that to the newer message.
HandoffIsAnnounced ==
    /\ AllHandled \/ (Quiet /\ folded = {})
    /\ faults = 0 /\ stored.state = "human_requested"
    => told # "untold"

(***************************************************************************)
(* Liveness, under FairSpec.                                               *)
(***************************************************************************)
\* A message is settled when it is recorded as completed, or when its provider has
\* seen a success from a request that kept its claim: one that worked the message
\* off, and only failed to record that.
Settled(d) == processed[d].done \/ (d \in acknowledged /\ processed[d] # Absent)

\* Every customer message is eventually settled, whatever instance crashed or
\* failed while holding it or its conversation.  It need not be recorded: Handle
\* reports success even when recording fails, and nobody repeats the message then.
EveryDeliverySettles == \A d \in Deliveries : <>Settled(d)

\* A handover reaches staff even when the turn that decided it was cut off or
\* superseded before it announced anything.
HandoverReachesStaff ==
    [](stored.state = "human_requested" => <>(told # "untold" \/ stored.state # "human_requested"))

(***************************************************************************)
(* The claims implement exclusive work.                                    *)
(***************************************************************************)
Holders(k) ==
    {r \in Requests : IF k = Lock THEN pc[r] \in LockedSteps
                      ELSE work[r] = k /\ pc[r] \notin {"idle", "unlocking"}}

Exclusive == INSTANCE ExclusiveWork WITH
    holders  <- [k \in Keys |-> Holders(k)],
    finished <- {k \in Keys : processed[k].done}

\* Every step of the leases is a step of, or is invisible to, exclusive work.
ImplementsExclusiveWork == Exclusive!Spec
=============================================================================
