----------------------- MODULE ConversationTurns_proofs -----------------------
(***************************************************************************)
(* Proofs about ConversationTurns, for any number of requests, instances,  *)
(* customer messages, staff replies and echoes, and any timeouts that keep *)
(* a request shorter than its lease.                                       *)
(*                                                                         *)
(* The argument: a request holds every claim it took for longer than it    *)
(* can still run (LeaseCoversRequest).  A claim is only ever taken over    *)
(* once it has expired, and only ever completed or given back by its       *)
(* owner, so nobody else can disturb it; hence two requests never hold the *)
(* conversation together (LockExclusive), and the leases implement         *)
(* exclusive work (ImplementsExclusiveWork).                               *)
(*                                                                         *)
(* Four more invariants rest on that one, each with its argument where it  *)
(* is stated: CopyInv relates the copies of the conversation to the        *)
(* document (what colleagues took over stays taken over), CountInv counts  *)
(* what the provider accepted (no message is answered twice), NoticeInv    *)
(* follows a handover on its way to staff, and NewestInv follows the       *)
(* newest message until it is answered or left to staff.                   *)
(***************************************************************************)
EXTENDS ConversationTurns, TLAPS

\* What a request at a given step is working on.
DeliverySteps == ({"registering", "superseding"} \cup LockedTurnSteps) \ {"opening"}
RelaySteps == {"relaySaving", "relaySending", "relayRecording"}

WorkOfStep ==
    \A r \in Requests :
        /\ pc[r] # "idle" => work[r] \in Work
        /\ pc[r] \in DeliverySteps => work[r] \in Deliveries
        /\ pc[r] \in RelaySteps => work[r] \in StaffReplies
        /\ pc[r] = "commandSaving" => work[r] \in Commands

\* The inductive invariant.
Inv == TypeOK /\ WorkOfStep /\ LeaseCoversRequest

(***************************************************************************)
(* The operators on claims and on the conversation document.               *)
(***************************************************************************)
\* Every operation of the claim store leaves a well formed document.
LEMMA EntryTypes ==
    ASSUME NEW e \in Entry, NEW r \in Requests
    PROVE  /\ Absent \in Entry
           /\ Absent.owner = NoRequest
           /\ ClaimedBy(r) \in Entry
           /\ CompleteEntry(e, r) \in Entry
           /\ ReleaseEntry(e, r) \in Entry
           /\ Elapsed(e) \in Entry
BY ClaimStoreAssumption
   DEF Entry, Absent, Completed, ClaimedBy, CompleteEntry, ReleaseEntry, Elapsed

\* A conversation begins well formed.
LEMMA NewConversationType == NewConversation \in Conversation
BY ConversationAssumption DEF Conversation, States, NewConversation

\* Time passing leaves a claim well formed.
LEMMA ElapsedType == \A e \in Entry : Elapsed(e) \in Entry
BY ClaimStoreAssumption DEF Entry, Elapsed

\* Every transition leaves a well formed conversation.
LEMMA ConversationTypes ==
    ASSUME NEW c \in Conversation, NEW next \in States
    PROVE  /\ TransitionTo(c, next) \in Conversation
           /\ [TransitionTo(c, next) EXCEPT !.age = 0] \in Conversation
           /\ [c EXCEPT !.age = 0] \in Conversation
           /\ Older(c) \in Conversation
           /\ AfterTimeout(c) \in Conversation
<1> USE ConversationAssumption DEF Conversation, States
<1>2. ASSUME NEW n \in States
      PROVE  TransitionTo(c, n) \in Conversation
  <2>1. SentEchoes \in SUBSET Echoes
    BY DEF SentEchoes
  <2>2. CASE c.state = n
    BY <2>2 DEF TransitionTo
  <2>3. CASE c.state # n
    <3> DEFINE stale == IF n = "assistant_active" THEN SentEchoes ELSE c.stale
    <3>1. TransitionTo(c, n) = [state |-> n, rev |-> c.rev, age |-> 0, stale |-> stale]
      BY <2>3 DEF TransitionTo
    <3>2. stale \in SUBSET Echoes
      BY <2>1
    <3> HIDE DEF stale
    <3> QED BY <3>1, <3>2
  <2> QED BY <2>2, <2>3
<1>3. [TransitionTo(c, next) EXCEPT !.age = 0] \in Conversation
  BY <1>2
<1>4. Older(c) \in Conversation
  BY DEF Older
<1>5. AfterTimeout(c) \in Conversation
  BY <1>2 DEF AfterTimeout
<1> QED BY <1>2, <1>3, <1>4, <1>5

\* Recording an echo of a native staff reply leaves a well formed conversation.
LEMMA EchoTypes ==
    ASSUME NEW c \in Conversation, NEW e \in Echoes
    PROVE  ObserveExternalReply(c, e) \in Conversation
<1> USE ConversationAssumption DEF Conversation, States
<1>1. CASE e \in c.stale
  BY <1>1 DEF ObserveExternalReply
<1>2. CASE e \notin c.stale
  <2>1. ObserveExternalReply(c, e) =
          [state |-> "human_active", rev |-> c.rev + 1, age |-> 0, stale |-> c.stale]
    BY <1>2 DEF ObserveExternalReply
  <2> QED BY <2>1
<1> QED BY <1>1, <1>2

\* A request that changes its copy of the conversation remains well formed.
LEMMA TurnTypes ==
    ASSUME NEW t \in Turn, NEW c \in Conversation, NEW b \in BOOLEAN
    PROVE  /\ [t EXCEPT !.conv = c] \in Turn
           /\ [t EXCEPT !.cancelled = b] \in Turn
           /\ [t EXCEPT !.conv = c, !.reason = b] \in Turn
<1> USE DEF Turn
<1>1. [t EXCEPT !.conv = c] \in Turn
  OBVIOUS
<1>2. [t EXCEPT !.cancelled = b] \in Turn
  OBVIOUS
<1>3. [t EXCEPT !.conv = c, !.reason = b] \in Turn
  <2> DEFINE first == [t EXCEPT !.conv = c]
  <2>1. first \in Turn
    BY <1>1
  <2>2. [t EXCEPT !.conv = c, !.reason = b] = [first EXCEPT !.reason = b]
    OBVIOUS
  <2> HIDE DEF first
  <2>3. [first EXCEPT !.reason = b] \in Turn
    BY <2>1
  <2> QED BY <2>2, <2>3, Zenon
<1> QED BY <1>1, <1>2, <1>3

\* The copy that HandCopyOver leaves.
LEMMA HandoverTypes ==
    ASSUME TypeOK, NEW r \in Requests, NEW b \in BOOLEAN, HandCopyOver(r, b)
    PROVE  turn' \in [Requests -> Turn]
<1> DEFINE c == TransitionTo(turn[r].conv, "human_requested")
<1>1. turn \in [Requests -> Turn] /\ turn[r] \in Turn
  BY DEF TypeOK
<1>2. turn[r].conv \in Conversation
  BY <1>1 DEF Turn
<1>3. c \in Conversation
  BY <1>2, ConversationTypes DEF States
<1>4. turn' = [turn EXCEPT ![r].conv = c, ![r].reason = b]
  BY DEF HandCopyOver
<1> HIDE DEF c
<1> DEFINE first == [turn EXCEPT ![r].conv = c]
<1>5. first \in [Requests -> Turn] /\ first[r] \in Turn
  BY <1>1, <1>3, TurnTypes
<1>6. turn' = [first EXCEPT ![r].reason = b]
  BY <1>4
<1> HIDE DEF first
<1>7. [first[r] EXCEPT !.reason = b] \in Turn
  BY <1>5 DEF Turn
<1> QED BY <1>5, <1>6, <1>7

\* The steps the actions name.
LEMMA StepNames ==
    /\ {"idle", "registering", "superseding", "locking", "releasing", "settling"} \subseteq Steps
    /\ {"opening", "openSaving", "receiving", "deciding", "outageSaving", "outageTelling",
        "forwarding", "withdrawing", "checkingTurn", "composing", "saving", "announcing",
        "recheckingTurn", "checkingStaff", "sending", "storingChoices", "folding",
        "completing", "relaySaving", "relaySending", "relayRecording", "commandSaving",
        "unlocking", "unlockThenRelease", "unlockThenComplete"} \subseteq Steps
BY DEF Steps, LockedSteps, UnlockedSteps, LockedTurnSteps, LockedRelaySteps,
       LockedCommandSteps, UnlockSteps

\* The steps only Handle goes through.
LEMMA DeliveryStepNames ==
    {"registering", "superseding", "openSaving", "receiving", "deciding", "outageSaving",
     "outageTelling", "forwarding", "withdrawing", "checkingTurn", "composing", "saving",
     "announcing", "recheckingTurn", "checkingStaff", "sending", "storingChoices",
     "folding", "completing"} \subseteq DeliverySteps
BY DEF DeliverySteps, LockedTurnSteps

\* Types of the variables that the shared steps assign.
LEMMA RetireTypes ==
    ASSUME TypeOK, NEW r \in Requests, Retire(r)
    PROVE  /\ pc' \in [Requests -> Steps]
           /\ work' \in [Requests -> Work \cup {NoWork}]
           /\ budget' \in [Requests -> 0..TurnTimeout]
           /\ turn' \in [Requests -> Turn]
           /\ active' \in [Instances -> Requests \cup {NoRequest}]
<1> USE ConversationAssumption, StepNames DEF TypeOK, Retire, Goto
<1>1. NewTurn \in Turn
  BY NewConversationType DEF Turn, NewTurn
<1>2. active' \in [Instances -> Requests \cup {NoRequest}]
  OBVIOUS
<1> QED BY <1>1, <1>2

\* What the provider hears of a request's end only adds deliveries to the acknowledged ones.
LEMMA AnswerTypes ==
    ASSUME TypeOK, NEW r \in Requests, AnswerWebhook(r)
    PROVE  acknowledged' \subseteq Deliveries
BY DEF TypeOK, AnswerWebhook

\* Counting a message the provider accepted keeps the counters' types.
LEMMA AcceptTypes ==
    ASSUME TypeOK, NEW r \in Requests, work[r] \in Deliveries \cup StaffReplies, Accept(r)
    PROVE  /\ sends' \in [Deliveries \cup StaffReplies -> Nat]
           /\ turn' \in [Requests -> Turn]
<1> USE DEF TypeOK, Accept
<1>1. turn' \in [Requests -> Turn]
  <2>1. \A b \in BOOLEAN : [turn[r] EXCEPT !.accepted = b] \in Turn
    BY DEF Turn
  <2> QED BY <2>1
<1>2. sends' \in [Deliveries \cup StaffReplies -> Nat]
  OBVIOUS
<1> QED BY <1>1, <1>2

(***************************************************************************)
(* Types.                                                                  *)
(***************************************************************************)
LEMMA TypeInit == Init => TypeOK
<1> SUFFICES ASSUME Init PROVE TypeOK
  OBVIOUS
<1>1. NewTurn \in Turn
  BY NewConversationType DEF Turn, NewTurn
<1>2. Absent \in Entry
  BY ClaimStoreAssumption DEF Absent, Entry
<1> QED BY <1>1, <1>2, NewConversationType, StepNames, ConversationAssumption DEF Init, TypeOK

\* A turn that is taking its message up.
LEMMA TypeHandling ==
    ASSUME TypeOK, WorkOfStep, NEW r \in Requests, Handling(r)
    PROVE  TypeOK'
<1> USE StepNames DEF TypeOK, Goto, stores, request, bounds, history
<1>1. CASE RegisterTurn(r)
  BY <1>1, DeliveryStepNames DEF RegisterTurn, WorkOfStep
<1>2. CASE Supersede(r)
  <2>1. \A t \in Requests : turn[t] \in Turn /\ [turn[t] EXCEPT !.cancelled = TRUE] \in Turn
    BY NewConversationType, TurnTypes
  <2>2. turn' \in [Requests -> Turn]
    BY <1>2, <2>1 DEF Supersede
  <2> QED BY <1>2, <2>2 DEF Supersede
<1>3. CASE LockConversation(r)
  BY <1>3, EntryTypes DEF LockConversation, Keys
<1>4. CASE GiveUpWaiting(r)
  BY <1>4 DEF GiveUpWaiting
<1>5. CASE LoadConversation(r)
  <2>1. stored \in Conversation
    OBVIOUS
  <2> DEFINE relay == [TransitionTo(stored, "human_active") EXCEPT !.age = 0]
             command == TransitionTo(stored, IF work[r] = "resume" THEN "assistant_active"
                                                                   ELSE "human_active")
  <2>2. relay \in Conversation /\ command \in Conversation
    BY <2>1, ConversationTypes DEF States
  <2>3. \E c \in Conversation : turn' = [turn EXCEPT ![r].conv = c]
    <3>1. \/ turn' = [turn EXCEPT ![r].conv = stored]
          \/ turn' = [turn EXCEPT ![r].conv = relay]
          \/ turn' = [turn EXCEPT ![r].conv = command]
      BY <1>5, Zenon DEF LoadConversation
    <3> HIDE DEF relay, command
    <3> QED BY <2>1, <2>2, <3>1
  <2>4. turn' \in [Requests -> Turn]
    <3>1. PICK c \in Conversation : turn' = [turn EXCEPT ![r].conv = c]
      BY <2>3
    <3>2. turn \in [Requests -> Turn] /\ [turn[r] EXCEPT !.conv = c] \in Turn
      BY NewConversationType, TurnTypes
    <3> QED BY <3>1, <3>2
  <2> HIDE DEF relay, command
  <2> QED BY <1>5, <2>4 DEF LoadConversation
<1>6. CASE SaveOpened(r)
  BY <1>6 DEF SaveOpened, SaveStep, Save, Turn
<1>7. CASE RefuseExpiredChoice(r)
  BY <1>7, DeliveryStepNames, AcceptTypes DEF RefuseExpiredChoice, WorkOfStep
<1>8. CASE RecordInbound(r)
  BY <1>8, DeliveryStepNames DEF RecordInbound, WorkOfStep
<1>9. CASE FindChannelOut(r)
  <2>1. PICK c \in Conversation : turn' = [turn EXCEPT ![r].conv = c]
    <3> DEFINE old == turn[r].conv
               next == TransitionTo(old, "human_requested")
    <3>1. old \in Conversation
      BY DEF Turn
    <3>2. next \in Conversation
      BY <3>1, ConversationTypes DEF States
    <3> HIDE DEF next
    <3>3. turn' = [turn EXCEPT ![r].conv = IF AssistantMayReply(old) THEN next ELSE old]
      BY <1>9 DEF FindChannelOut, next
    <3> QED BY <3>1, <3>2, <3>3
  <2>2. turn' \in [Requests -> Turn]
    BY <2>1, TurnTypes
  <2> QED BY <1>9, <2>2 DEF FindChannelOut
<1>10. CASE SaveOutage(r)
  BY <1>10 DEF SaveOutage, SaveStep, Save, Turn
<1>11. CASE TellOutage(r)
  BY <1>11 DEF TellOutage, Telling
<1>12. CASE LeaveToStaff(r)
  BY <1>12 DEF LeaveToStaff
<1>13. CASE Forward(r)
  BY <1>13 DEF Forward, Telling
<1>14. CASE WithdrawConsent(r)
  BY <1>14 DEF WithdrawConsent, SaveStep, Save, Turn
<1>15. CASE ActivateTurn(r)
  <2> DEFINE c == AfterTimeout(turn[r].conv)
  <2>0. turn[r].conv \in Conversation
    BY DEF Turn
  <2>1. c \in Conversation
    BY <2>0, ConversationTypes DEF States
  <2>a. turn' = [t \in Requests |->
                   IF t = r THEN [turn[t] EXCEPT !.conv = c]
                   ELSE IF t = active[InstanceOf[r]] THEN [turn[t] EXCEPT !.cancelled = TRUE]
                   ELSE turn[t]]
    BY <1>15 DEF ActivateTurn
  <2>b. \A t \in Requests : [turn[t] EXCEPT !.cancelled = TRUE] \in Turn
    BY NewConversationType, TurnTypes
  <2>2. turn' \in [Requests -> Turn]
    <3> HIDE DEF c
    <3> QED BY <2>1, <2>a, <2>b, TurnTypes
  <2>3. active' \in [Instances -> Requests \cup {NoRequest}]
    BY <1>15 DEF ActivateTurn
  <2> QED BY <1>15, <2>2, <2>3 DEF ActivateTurn
<1> QED BY <1>1, <1>2, <1>3, <1>4, <1>5, <1>6, <1>7, <1>8, <1>9, <1>10, <1>11, <1>12, <1>13, <1>14, <1>15 DEF Handling

\* A turn that is answering.
LEMMA TypeAnswering ==
    ASSUME TypeOK, WorkOfStep, NEW r \in Requests, Answering(r)
    PROVE  TypeOK'
<1> USE StepNames DEF TypeOK, Goto, stores, request, bounds, history
<1>1. CASE FindSuperseded(r)
  BY <1>1 DEF FindSuperseded
<1>2. CASE ReadHistory(r)
  BY <1>2 DEF ReadHistory, Turn
<1>3. CASE ComposeAnswer(r)
  BY <1>3 DEF ComposeAnswer
<1>4. CASE HandOver(r)
  BY <1>4, HandoverTypes DEF HandOver
<1>5. CASE RequestHandoff(r)
  BY <1>5, HandoverTypes DEF RequestHandoff
<1>6. CASE UnknownChange(r)
  BY <1>6, HandoverTypes DEF UnknownChange
<1>7. CASE FindStaffReplied(r)
  BY <1>7 DEF FindStaffReplied
<1>8. CASE SaveAnswered(r)
  BY <1>8 DEF SaveAnswered, SaveStep, Save, Turn
<1>9. CASE Announce(r)
  BY <1>9 DEF Announce, Telling
<1>10. CASE RecheckTurn(r)
  BY <1>10 DEF RecheckTurn
<1>11. CASE CheckStaff(r)
  BY <1>11 DEF CheckStaff
<1>12. CASE Send(r)
  BY <1>12, DeliveryStepNames, AcceptTypes DEF Send, WorkOfStep, Turn
<1>13. CASE SendCancelled(r)
  BY <1>13, DeliveryStepNames, AcceptTypes DEF SendCancelled, WorkOfStep, Turn
<1>14. CASE StoreChoices(r)
  BY <1>14 DEF StoreChoices, BestEffortSave, Save, Turn
<1>15. CASE Fold(r)
  BY <1>15, DeliveryStepNames DEF Fold, BestEffortSave, Save, WorkOfStep, Turn
<1> QED BY <1>1, <1>2, <1>3, <1>4, <1>5, <1>6, <1>7, <1>8, <1>9, <1>10, <1>11, <1>12, <1>13, <1>14, <1>15 DEF Answering

\* A request that ends, a relay, a command.
LEMMA TypeFinishing ==
    ASSUME TypeOK, WorkOfStep, NEW r \in Requests, Finishing(r) \/ Staffing(r)
    PROVE  TypeOK'
<1> USE StepNames DEF TypeOK, Goto, stores, request, bounds, history
<1>1. CASE Complete(r)
  BY <1>1, EntryTypes, DeliveryStepNames DEF Complete, Keys, WorkOfStep
<1>2. CASE Unlock(r)
  BY <1>2, EntryTypes, RetireTypes, AnswerTypes DEF Unlock, Keys
<1>3. CASE UnlockThenSettle(r)
  BY <1>3, EntryTypes DEF UnlockThenSettle, Keys
<1>4. CASE ReleaseDelivery(r)
  BY <1>4, EntryTypes, RetireTypes, AnswerTypes DEF ReleaseDelivery, Keys, WorkOfStep, Work
<1>5. CASE Settle(r)
  BY <1>5, EntryTypes, RetireTypes, AnswerTypes DEF Settle, Keys, WorkOfStep, Work
<1>6. CASE SaveTakeover(r)
  BY <1>6 DEF SaveTakeover, Save, Turn
<1>7. CASE RelaySend(r)
  BY <1>7, AcceptTypes DEF RelaySend, WorkOfStep, RelaySteps
<1>8. CASE RecordRelay(r)
  BY <1>8, ConversationTypes DEF RecordRelay, Save, Turn, States
<1>9. CASE SaveCommand(r)
  BY <1>9 DEF SaveCommand, Save, Turn
<1> QED BY <1>1, <1>2, <1>3, <1>4, <1>5, <1>6, <1>7, <1>8, <1>9 DEF Finishing, Staffing

\* Failures are counted within their bound.
LEMMA FaultType == TypeOK /\ OneFault => faults' \in 0..MaxFaults
BY ConversationAssumption DEF TypeOK, OneFault

\* A call that fails.
LEMMA TypeFailing ==
    ASSUME TypeOK, WorkOfStep, NEW r \in Requests, Failing(r)
    PROVE  TypeOK'
<1> USE StepNames, FaultType DEF TypeOK, Goto, stores, request, bounds, history
<1>1. CASE Fail(r)
  BY <1>1 DEF Fail, FailsUnlocked, FailsLocked
<1>2. CASE SendFails(r)
  BY <1>2, DeliveryStepNames, AcceptTypes DEF SendFails, MaybeAccept,
     WorkOfStep
<1>3. CASE SendRefused(r)
  BY <1>3 DEF SendRefused
<1>4. CASE RelaySendFails(r)
  BY <1>4, AcceptTypes DEF RelaySendFails, MaybeAccept, WorkOfStep,
     RelaySteps
<1>5. CASE CompleteFails(r)
  BY <1>5, RetireTypes, AnswerTypes DEF CompleteFails, Forgets
<1>6. CASE NoticeFails(r)
  BY <1>6 DEF NoticeFails
<1>7. CASE SaveAckLost(r)
  BY <1>7 DEF SaveAckLost, Save, Turn
<1>8. CASE LockAckLost(r)
  BY <1>8, EntryTypes DEF LockAckLost, Keys
<1>9. CASE UnlockLost(r)
  BY <1>9, RetireTypes, AnswerTypes DEF UnlockLost
<1> QED BY <1>1, <1>2, <1>3, <1>4, <1>5, <1>6, <1>7, <1>8, <1>9 DEF Failing

\* Requests that begin, colleagues, crashes and time.
LEMMA TypeStarting ==
    ASSUME TypeOK, NEW r \in Requests
    PROVE  /\ \A d \in Deliveries : ReceiveDelivery(r, d) => TypeOK'
           /\ \A s \in StaffReplies : StartRelay(r, s) => TypeOK'
           /\ \A c \in Commands : StartCommand(r, c) => TypeOK'
<1> USE StepNames DEF TypeOK, Goto, stores, bounds, history
<1>1. NewTurn \in Turn
  BY NewConversationType DEF Turn, NewTurn
<1>2. ASSUME NEW d \in Deliveries, ReceiveDelivery(r, d) PROVE TypeOK'
  <2>1. processed' \in [Keys -> Entry]
    BY <1>2, EntryTypes DEF ReceiveDelivery, Keys
  <2> QED BY <1>1, <1>2, <2>1, ConversationAssumption DEF ReceiveDelivery, Begin, Work
<1>3. ASSUME NEW s \in StaffReplies, StartRelay(r, s) PROVE TypeOK'
  <2>1. processed' \in [Keys -> Entry]
    BY <1>3, EntryTypes DEF StartRelay, Keys
  <2> QED BY <1>1, <1>3, <2>1, ConversationAssumption DEF StartRelay, Begin, Work
<1>4. ASSUME NEW c \in Commands, StartCommand(r, c) PROVE TypeOK'
  BY <1>1, <1>4, ConversationAssumption DEF StartCommand, Begin, Work
<1> QED BY <1>2, <1>3, <1>4

\* Echoes, crashes and the passing of time.
LEMMA TypeEnvironment ==
    ASSUME TypeOK
    PROVE  /\ \A e \in Echoes : StaffWriteNatively(e) \/ RecordExternalReply(e) => TypeOK'
           /\ \A i \in Instances : Crash(i) => TypeOK'
           /\ Tick => TypeOK'
<1> USE StepNames, ConversationAssumption DEF TypeOK, stores, request, bounds, history
<1>1. ASSUME NEW e \in Echoes, StaffWriteNatively(e) PROVE TypeOK'
  BY <1>1 DEF StaffWriteNatively
<1>2. ASSUME NEW e \in Echoes, RecordExternalReply(e) PROVE TypeOK'
  BY <1>2, EchoTypes DEF RecordExternalReply
<1>3. ASSUME NEW i \in Instances, Crash(i) PROVE TypeOK'
  <2>1. NewTurn \in Turn
    BY NewConversationType DEF Turn, NewTurn
  <2> QED BY <1>3, <2>1 DEF Crash, OneFault, Forgets
<1>4. CASE Tick
  <2>1. processed' \in [Keys -> Entry]
    BY <1>4, ElapsedType DEF Tick
  <2>2. stored' \in Conversation
    BY <1>4, ConversationTypes DEF Tick, States
  <2>3. budget' \in [Requests -> 0..TurnTimeout]
    BY <1>4 DEF Tick
  <2>4. turn' \in [Requests -> Turn]
    <3>1. ASSUME NEW r \in Requests
          PROVE  [turn[r] EXCEPT !.conv = Older(@)] \in Turn
      <4> DEFINE c == Older(turn[r].conv)
      <4>1. turn[r] \in Turn /\ turn[r].conv \in Conversation
        BY DEF Turn
      <4>2. c \in Conversation
        BY <4>1, ConversationTypes DEF States
      <4> HIDE DEF c
      <4>3. [turn[r] EXCEPT !.conv = c] \in Turn
        BY <4>1, <4>2, TurnTypes
      <4> QED BY <4>3 DEF c
    <3> QED BY <1>4, <3>1 DEF Tick
  <2> QED BY <1>4, <2>1, <2>2, <2>3, <2>4 DEF Tick
<1> QED BY <1>1, <1>2, <1>3, <1>4

\* No step of the system leaves the types.
LEMMA TypeNext == TypeOK /\ WorkOfStep /\ [Next]_vars => TypeOK'
<1> SUFFICES ASSUME TypeOK, WorkOfStep, [Next]_vars PROVE TypeOK'
  OBVIOUS
<1>1. CASE \E r \in Requests : Progress(r) \/ Failing(r)
  BY <1>1, TypeHandling, TypeAnswering, TypeFinishing, TypeFailing DEF Progress
<1>2. CASE UNCHANGED vars
  BY <1>2 DEF TypeOK, vars, stores, request, bounds, history
<1> QED BY <1>1, <1>2, TypeStarting, TypeEnvironment DEF Next, Redeliver, RedeliverStaff

(***************************************************************************)
(* Leases.                                                                 *)
(***************************************************************************)
\* Which steps hold the conversation, and which belong to whom.
LEMMA StepKinds ==
    /\ {"opening", "openSaving", "receiving", "deciding", "outageSaving", "outageTelling",
        "forwarding", "withdrawing", "checkingTurn", "composing", "saving", "announcing",
        "recheckingTurn", "checkingStaff", "sending", "storingChoices", "folding",
        "completing", "relaySaving", "relaySending", "relayRecording", "commandSaving",
        "unlocking", "unlockThenRelease", "unlockThenComplete"} \subseteq LockedSteps
    /\ \A q \in {"idle", "registering", "superseding", "locking", "releasing", "settling"} :
           q \notin LockedSteps
    /\ \A q \in {"relaySaving", "relaySending", "relayRecording", "idle", "locking", "opening",
                 "commandSaving", "unlocking", "unlockThenRelease", "unlockThenComplete",
                 "releasing", "settling"} : q \notin DeliverySteps
BY DEF LockedSteps, LockedTurnSteps, LockedRelaySteps, LockedCommandSteps, UnlockSteps,
       DeliverySteps, RelaySteps

\* A step of r that takes up, gives back and finishes nothing.
QuietMove(r) ==
    /\ UNCHANGED <<processed, work, budget>>
    /\ pc' = [pc EXCEPT ![r] = pc'[r]]
    /\ pc'[r] \in Steps
    /\ {pc[r], pc'[r]} \cap {"idle", "unlocking"} = {}
    /\ pc'[r] \in LockedSteps <=> pc[r] \in LockedSteps
    /\ pc'[r] \in DeliverySteps => work[r] \in Deliveries
    /\ pc'[r] \in RelaySteps => work[r] \in StaffReplies
    /\ pc'[r] = "commandSaving" => work[r] \in Commands

\* Taking a message up is quiet but for the lock.
LEMMA QuietHandling ==
    ASSUME TypeOK, WorkOfStep, NEW r \in Requests, Handling(r)
    PROVE  QuietMove(r) \/ LockConversation(r)
<1>0. pc \in [Requests -> Steps]
  BY DEF TypeOK
<1> USE <1>0, StepNames, StepKinds, DeliveryStepNames
    DEF WorkOfStep, QuietMove, RelaySteps, stores, request, bounds, history
<1>1. CASE RegisterTurn(r)
  BY <1>1 DEF RegisterTurn, Goto
<1>2. CASE Supersede(r)
  BY <1>2 DEF Supersede, Goto
<1>3. CASE GiveUpWaiting(r)
  BY <1>3 DEF GiveUpWaiting, Goto
<1>4. CASE LoadConversation(r)
  BY <1>4 DEF LoadConversation, Goto
<1>5. CASE SaveOpened(r)
  BY <1>5 DEF SaveOpened, Goto, SaveStep
<1>6. CASE RefuseExpiredChoice(r)
  BY <1>6 DEF RefuseExpiredChoice, Goto
<1>7. CASE RecordInbound(r)
  BY <1>7 DEF RecordInbound, Goto
<1>8. CASE FindChannelOut(r)
  BY <1>8 DEF FindChannelOut, Goto
<1>9. CASE SaveOutage(r)
  BY <1>9 DEF SaveOutage, Goto, SaveStep
<1>10. CASE TellOutage(r)
  BY <1>10 DEF TellOutage, Goto, Telling
<1>11. CASE LeaveToStaff(r)
  BY <1>11 DEF LeaveToStaff, Goto
<1>12. CASE Forward(r)
  BY <1>12 DEF Forward, Goto, Telling
<1>13. CASE WithdrawConsent(r)
  BY <1>13 DEF WithdrawConsent, Goto, SaveStep
<1>14. CASE ActivateTurn(r)
  BY <1>14 DEF ActivateTurn, Goto
<1> QED BY <1>1, <1>2, <1>3, <1>4, <1>5, <1>6, <1>7, <1>8, <1>9, <1>10, <1>11, <1>12, <1>13, <1>14 DEF Handling

\* Answering is quiet.
LEMMA QuietAnswering ==
    ASSUME TypeOK, WorkOfStep, NEW r \in Requests, Answering(r)
    PROVE  QuietMove(r)
<1>0. pc \in [Requests -> Steps]
  BY DEF TypeOK
<1> USE <1>0, StepNames, StepKinds, DeliveryStepNames
    DEF WorkOfStep, QuietMove, RelaySteps, stores, request, bounds, history
<1>1. CASE FindSuperseded(r)
  BY <1>1 DEF FindSuperseded, Goto
<1>2. CASE ReadHistory(r)
  BY <1>2 DEF ReadHistory, Goto
<1>3. CASE ComposeAnswer(r)
  BY <1>3 DEF ComposeAnswer, Goto
<1>4. CASE HandOver(r)
  BY <1>4 DEF HandOver, Goto
<1>5. CASE RequestHandoff(r)
  BY <1>5 DEF RequestHandoff
<1>6. CASE UnknownChange(r)
  BY <1>6 DEF UnknownChange
<1>7. CASE FindStaffReplied(r)
  BY <1>7 DEF FindStaffReplied, Goto
<1>8. CASE SaveAnswered(r)
  BY <1>8 DEF SaveAnswered, Goto, SaveStep
<1>9. CASE Announce(r)
  BY <1>9 DEF Announce, Goto, Telling
<1>10. CASE RecheckTurn(r)
  BY <1>10 DEF RecheckTurn, Goto
<1>11. CASE CheckStaff(r)
  BY <1>11 DEF CheckStaff, Goto
<1>12. CASE Send(r)
  BY <1>12 DEF Send, Goto
<1>13. CASE SendCancelled(r)
  BY <1>13 DEF SendCancelled, Goto
<1>14. CASE StoreChoices(r)
  BY <1>14 DEF StoreChoices, Goto, BestEffortSave
<1>15. CASE Fold(r)
  BY <1>15 DEF Fold, Goto, BestEffortSave
<1> QED BY <1>1, <1>2, <1>3, <1>4, <1>5, <1>6, <1>7, <1>8, <1>9, <1>10, <1>11, <1>12, <1>13, <1>14, <1>15 DEF Answering

\* So is relaying.
LEMMA QuietStaffing ==
    ASSUME TypeOK, WorkOfStep, NEW r \in Requests, Staffing(r)
    PROVE  QuietMove(r) \/ SaveCommand(r)
<1>0. pc \in [Requests -> Steps]
  BY DEF TypeOK
<1> USE <1>0, StepNames, StepKinds, DeliveryStepNames
    DEF WorkOfStep, QuietMove, RelaySteps, stores, request, bounds, history
<1>1. CASE SaveTakeover(r)
  BY <1>1 DEF SaveTakeover, Goto
<1>2. CASE RelaySend(r)
  BY <1>2 DEF RelaySend, Goto
<1>3. CASE RecordRelay(r)
  BY <1>3 DEF RecordRelay, Goto
<1> QED BY <1>1, <1>2, <1>3 DEF Staffing

\* And so are most failures.
LEMMA QuietFailing ==
    ASSUME TypeOK, WorkOfStep, NEW r \in Requests, Failing(r)
    PROVE  QuietMove(r) \/ CompleteFails(r) \/ LockAckLost(r) \/ UnlockLost(r)
<1>0. pc \in [Requests -> Steps]
  BY DEF TypeOK
<1> USE <1>0, StepNames, StepKinds, DeliveryStepNames
    DEF WorkOfStep, QuietMove, RelaySteps, stores, request, bounds, history
<1>1. CASE Fail(r)
  BY <1>1 DEF Fail, Goto, FailsUnlocked, FailsLocked
<1>2. CASE SendFails(r)
  BY <1>2 DEF SendFails, Goto
<1>3. CASE SendRefused(r)
  BY <1>3 DEF SendRefused, Goto
<1>4. CASE RelaySendFails(r)
  BY <1>4 DEF RelaySendFails, Goto
<1>5. CASE NoticeFails(r)
  BY <1>5 DEF NoticeFails, Goto
<1>6. CASE SaveAckLost(r)
  BY <1>6 DEF SaveAckLost, Goto
<1> QED BY <1>1, <1>2, <1>3, <1>4, <1>5, <1>6 DEF Failing

\* A quiet step keeps what every request relies on.
LEMMA QuietInvariant ==
    ASSUME Inv, NEW r \in Requests, QuietMove(r)
    PROVE  (WorkOfStep /\ LeaseCoversRequest)'
<1> USE DEF Inv, TypeOK, QuietMove
<1>1. WorkOfStep'
  BY StepKinds DEF WorkOfStep
<1>2. ASSUME NEW s \in Requests
      PROVE  /\ pc'[s] \in LockedSteps => pc[s] \in LockedSteps
             /\ pc'[s] \notin {"idle", "unlocking"} => pc[s] \notin {"idle", "unlocking"}
  OBVIOUS
<1>3. UNCHANGED <<processed, work, budget>>
  OBVIOUS
<1>4. LeaseCoversRequest'
  <2> USE <1>2, <1>3
  <2> HIDE DEF TypeOK, QuietMove
  <2> QED BY DEF LeaseCoversRequest, HoldsClaim
<1> QED BY <1>1, <1>4

\* What r does to a document leaves the claims of every other request alone,
\* whichever operation of the store it is.
Touches(r, k) ==
    \/ Claimable(processed[k]) /\ processed' = [processed EXCEPT ![k] = ClaimedBy(r)]
    \/ processed' = [processed EXCEPT ![k] = CompleteEntry(@, r)]
    \/ processed' = [processed EXCEPT ![k] = ReleaseEntry(@, r)]

\* Claim, Complete and Release by r leave another request's claim as it was.
LEMMA OthersKeepTheirClaims ==
    ASSUME TypeOK, NEW r \in Requests, NEW s \in Requests, r # s, NEW k \in Keys, NEW j \in Keys,
           HoldsClaim(s, j), budget'[s] = budget[s], Touches(r, k)
    PROVE  HoldsClaim(s, j)'
<1> USE DEF TypeOK, HoldsClaim
<1>1. CASE j # k
  BY <1>1 DEF Touches
<1>2. CASE j = k
  <2>1. ~Claimable(processed[k])
    BY <1>2 DEF Claimable, Entry
  <2> QED BY <1>2, <2>1 DEF Touches, CompleteEntry, ReleaseEntry
<1> QED BY <1>1, <1>2

\* They leave r's own claim on any other document as it was.
LEMMA OwnOtherClaims ==
    ASSUME TypeOK, NEW r \in Requests, NEW k \in Keys, NEW j \in Keys, j # k,
           HoldsClaim(r, j), budget'[r] = budget[r], Touches(r, k)
    PROVE  HoldsClaim(r, j)'
BY DEF TypeOK, HoldsClaim, Touches

\* A claim just taken outlives the request that took it.
LEMMA FreshClaim ==
    ASSUME TypeOK, NEW r \in Requests, NEW k \in Keys,
           processed' = [processed EXCEPT ![k] = ClaimedBy(r)], budget'[r] \in 0..TurnTimeout
    PROVE  HoldsClaim(r, k)'
BY ConversationAssumption, ClaimStoreAssumption DEF TypeOK, HoldsClaim, ClaimedBy

\* A request that moves, touching at most one document, and keeps what it
\* needs at its next step.
LEMMA LoudMove ==
    ASSUME Inv, NEW r \in Requests, NEW k \in Keys,
           Touches(r, k) \/ UNCHANGED processed,
           NEW q \in Steps, NEW w \in Work \cup {NoWork},
           pc' = [pc EXCEPT ![r] = q],
           work' = [work EXCEPT ![r] = w],
           \A s \in Requests : s # r => budget'[s] = budget[s],
           q # "idle" => w \in Work, q # "commandSaving",
           q \in DeliverySteps => w \in Deliveries,
           q \in RelaySteps => w \in StaffReplies,
           q \in LockedSteps => HoldsClaim(r, Lock)',
           q \notin {"idle", "unlocking"} /\ w \in Deliveries \cup StaffReplies
              => HoldsClaim(r, w)'
    PROVE  (WorkOfStep /\ LeaseCoversRequest)'
<1>1. WorkOfStep'
  BY DEF WorkOfStep, Inv, TypeOK
<1>2. ASSUME NEW s \in Requests, NEW j \in Keys, s # r, HoldsClaim(s, j)
      PROVE  HoldsClaim(s, j)'
  <2>1. CASE Touches(r, k)
    BY <1>2, <2>1, OthersKeepTheirClaims DEF Inv
  <2>2. CASE UNCHANGED processed
    BY <1>2, <2>2 DEF HoldsClaim
  <2> QED BY <2>1, <2>2
<1>3. LeaseCoversRequest'
  <2> SUFFICES ASSUME NEW s \in Requests
               PROVE  /\ pc'[s] \in LockedSteps => HoldsClaim(s, Lock)'
                      /\ pc'[s] \notin {"idle", "unlocking"} /\ work'[s] \in Deliveries \cup StaffReplies
                            => HoldsClaim(s, work[s])'
    BY DEF LeaseCoversRequest, HoldsClaim
  <2>1. CASE s = r
    BY <2>1 DEF Inv, TypeOK
  <2>2. CASE s # r
    <3>1. pc'[s] = pc[s] /\ work'[s] = work[s]
      BY <2>2 DEF Inv, TypeOK
    <3>2. Lock \in Keys /\ (work[s] \in Deliveries \cup StaffReplies => work[s] \in Keys)
      BY DEF Keys
    <3>3. /\ pc[s] \in LockedSteps => HoldsClaim(s, Lock)
          /\ pc[s] \notin {"idle", "unlocking"} /\ work[s] \in Deliveries \cup StaffReplies
                => HoldsClaim(s, work[s])
      BY DEF Inv, LeaseCoversRequest
    <3> QED BY <2>2, <3>1, <3>2, <3>3, <1>2 DEF HoldsClaim
  <2> QED BY <2>1, <2>2
<1> QED BY <1>1, <1>3

\* The steps that take, give back or finish something.
LEMMA LoudSteps ==
    ASSUME Inv, NEW r \in Requests,
           \/ LockConversation(r) \/ LockAckLost(r) \/ SaveCommand(r) \/ Finishing(r)
           \/ CompleteFails(r) \/ UnlockLost(r)
    PROVE  (WorkOfStep /\ LeaseCoversRequest)'
<1> USE StepNames, StepKinds, DeliveryStepNames DEF Inv
<1>0. /\ Lock \in Keys
      /\ Deliveries \cup StaffReplies \subseteq Keys
      /\ Lock \notin Deliveries \cup StaffReplies
      /\ NoWork \notin Deliveries \cup StaffReplies
      /\ Deliveries \cup StaffReplies \cup Commands = Work
      /\ pc \in [Requests -> Steps]
      /\ work \in [Requests -> Work \cup {NoWork}]
      /\ budget \in [Requests -> 0..TurnTimeout]
      /\ pc = [pc EXCEPT ![r] = pc[r]] /\ work = [work EXCEPT ![r] = work[r]]
  BY ConversationAssumption DEF Keys, Work, TypeOK
<1>9. /\ pc[r] # "idle" => work[r] \in Work
      /\ pc[r] \in DeliverySteps => work[r] \in Deliveries
      /\ pc[r] \in LockedSteps => HoldsClaim(r, Lock)
      /\ pc[r] \notin {"idle", "unlocking"} /\ work[r] \in Deliveries \cup StaffReplies
            => HoldsClaim(r, work[r])
  BY DEF WorkOfStep, LeaseCoversRequest
<1>1. CASE LockConversation(r)
  <2>1. /\ Touches(r, Lock)
        /\ processed' = [processed EXCEPT ![Lock] = ClaimedBy(r)]
        /\ pc' = [pc EXCEPT ![r] = "opening"]
        /\ pc[r] = "locking"
        /\ UNCHANGED <<work, budget>>
    BY <1>1 DEF LockConversation, Goto, Touches
  <2>2. HoldsClaim(r, Lock)'
    BY <1>0, <2>1, FreshClaim
  <2>3. work[r] \in Deliveries \cup StaffReplies => HoldsClaim(r, work[r])'
    BY <1>0, <1>9, <2>1, OwnOtherClaims DEF HoldsClaim
  <2> QED BY <1>0, <1>9, <2>1, <2>2, <2>3, LoudMove DEF RelaySteps
<1>2. CASE LockAckLost(r)
  <2>1. /\ Touches(r, Lock)
        /\ pc' = [pc EXCEPT ![r] = "releasing"]
        /\ pc[r] = "locking"
        /\ UNCHANGED <<work, budget>>
    BY <1>2 DEF LockAckLost, Goto, Touches
  <2>2. work[r] \in Deliveries \cup StaffReplies => HoldsClaim(r, work[r])'
    BY <1>0, <1>9, <2>1, OwnOtherClaims DEF HoldsClaim
  <2> QED BY <1>0, <1>9, <2>1, <2>2, LoudMove DEF RelaySteps
<1>3. CASE SaveCommand(r)
  <2>1. /\ UNCHANGED <<processed, work, budget>>
        /\ pc' = [pc EXCEPT ![r] = "unlocking"]
        /\ pc[r] = "commandSaving"
    BY <1>3 DEF SaveCommand, Goto
  <2>2. HoldsClaim(r, Lock)'
    BY <1>9, <2>1 DEF HoldsClaim
  <2> QED BY <1>0, <1>9, <2>1, <2>2, LoudMove DEF RelaySteps
<1>4. CASE Complete(r)
  <2>1. /\ Touches(r, work[r])
        /\ pc' = [pc EXCEPT ![r] = "unlocking"]
        /\ pc[r] = "completing"
        /\ UNCHANGED <<work, budget>>
    BY <1>4 DEF Complete, Goto, Touches
  <2>2. HoldsClaim(r, Lock)'
    BY <1>0, <1>9, <2>1, OwnOtherClaims
  <2> QED BY <1>0, <1>9, <2>1, <2>2, LoudMove DEF RelaySteps
<1>5. CASE UnlockThenSettle(r) \/ (UnlockLost(r) /\ pc[r] # "unlocking")
  <2>1. /\ Touches(r, Lock) \/ UNCHANGED processed
        /\ \E q \in {"releasing", "settling"} : pc' = [pc EXCEPT ![r] = q]
        /\ pc[r] \in {"unlockThenRelease", "unlockThenComplete"}
        /\ UNCHANGED <<work, budget>>
    BY <1>5 DEF UnlockThenSettle, UnlockLost, UnlockSteps, Goto, Touches, stores
  <2>2. work[r] \in Deliveries \cup StaffReplies => HoldsClaim(r, work[r])'
    BY <1>0, <1>9, <2>1, OwnOtherClaims DEF HoldsClaim
  <2> PICK q \in {"releasing", "settling"} : pc' = [pc EXCEPT ![r] = q]
    BY <2>1
  <2>3. /\ q \in Steps \ {"idle"}
        /\ q \notin LockedSteps \cup DeliverySteps \cup RelaySteps
        /\ work[r] \in Work
    BY <1>9, <2>1 DEF RelaySteps
  <2>4. Touches(r, Lock) \/ UNCHANGED processed
    BY <2>1
  <2>5. /\ work' = [work EXCEPT ![r] = work[r]]
        /\ \A s \in Requests : s # r => budget'[s] = budget[s]
    BY <1>0, <2>1
  <2> QED BY <1>0, <2>2, <2>3, <2>4, <2>5, LoudMove
<1>6. CASE CompleteFails(r) /\ pc[r] = "completing"
  <2>1. /\ UNCHANGED <<processed, work, budget>>
        /\ pc' = [pc EXCEPT ![r] = "unlocking"]
    BY <1>6 DEF CompleteFails, Goto, stores
  <2>2. HoldsClaim(r, Lock)'
    BY <1>6, <1>9, <2>1 DEF HoldsClaim
  <2> QED BY <1>0, <1>6, <1>9, <2>1, <2>2, LoudMove DEF RelaySteps
<1>7. CASE \/ Unlock(r) \/ ReleaseDelivery(r) \/ Settle(r)
           \/ UnlockLost(r) /\ pc[r] = "unlocking"
           \/ CompleteFails(r) /\ pc[r] = "settling"
  <2>1. /\ Retire(r)
        /\ \/ Touches(r, Lock)
           \/ work[r] \notin Commands /\ pc[r] # "idle" /\ Touches(r, work[r])
           \/ UNCHANGED processed
    BY <1>7 DEF Unlock, ReleaseDelivery, Settle, UnlockLost, CompleteFails, Touches, stores
  <2>2. /\ pc' = [pc EXCEPT ![r] = "idle"]
        /\ work' = [work EXCEPT ![r] = NoWork]
        /\ \A s \in Requests : s # r => budget'[s] = budget[s]
    BY <1>0, <2>1 DEF Retire, Goto
  <2>3. \E k \in Keys : Touches(r, k) \/ UNCHANGED processed
    BY <1>0, <1>9, <2>1 DEF Touches
  <2> PICK k \in Keys : Touches(r, k) \/ UNCHANGED processed
    BY <2>3
  <2>4. /\ "idle" \in Steps
        /\ "idle" \notin LockedSteps /\ "idle" \notin DeliverySteps /\ "idle" \notin RelaySteps
        /\ NoWork \in Work \cup {NoWork}
    BY DEF RelaySteps
  <2> QED BY <2>2, <2>4, LoudMove
<1>8. CompleteFails(r) => pc[r] = "completing" \/ pc[r] = "settling"
  BY DEF CompleteFails
<1>10. CASE CompleteFails(r)
  BY <1>6, <1>7, <1>8, <1>10
<1>11. CASE UnlockLost(r)
  BY <1>5, <1>7, <1>11
<1>12. CASE Finishing(r)
  BY <1>4, <1>5, <1>7, <1>12 DEF Finishing
<1> QED BY <1>1, <1>2, <1>3, <1>10, <1>11, <1>12

\* Requests that begin.
LEMMA Starting ==
    ASSUME Inv, NEW r \in Requests, NEW k \in Deliveries \cup StaffReplies \cup Commands,
           \/ k \in Deliveries /\ ReceiveDelivery(r, k)
           \/ k \in StaffReplies /\ StartRelay(r, k)
           \/ k \in Commands /\ StartCommand(r, k)
    PROVE  (WorkOfStep /\ LeaseCoversRequest)'
<1> USE StepNames, StepKinds, DeliveryStepNames DEF Inv
<1>0. /\ Lock \in Keys
      /\ Deliveries \cup StaffReplies \subseteq Keys
      /\ Deliveries \cup StaffReplies \cup Commands = Work
      /\ (Deliveries \cup StaffReplies) \cap Commands = {}
      /\ Deliveries \cap StaffReplies = {}
      /\ budget \in [Requests -> 0..TurnTimeout]
  BY ConversationAssumption DEF Keys, Work, TypeOK
<1>1. /\ pc' = [pc EXCEPT ![r] = IF k \in Deliveries THEN "registering" ELSE "locking"]
      /\ work' = [work EXCEPT ![r] = k]
      /\ budget' = [budget EXCEPT ![r] = TurnTimeout]
      /\ k \in Deliveries \cup StaffReplies =>
            Touches(r, k) /\ processed' = [processed EXCEPT ![k] = ClaimedBy(r)]
      /\ k \in Commands => UNCHANGED processed
  BY <1>0 DEF ReceiveDelivery, StartRelay, StartCommand, Begin, Goto, Touches, stores
<1>2. /\ budget'[r] \in 0..TurnTimeout
      /\ \A s \in Requests : s # r => budget'[s] = budget[s]
  BY <1>0, <1>1, ConversationAssumption
<1>3. k \in Deliveries \cup StaffReplies => HoldsClaim(r, k)'
  BY <1>0, <1>1, <1>2, FreshClaim
<1>4. CASE k \in Deliveries
  BY <1>0, <1>1, <1>2, <1>3, <1>4, LoudMove DEF RelaySteps
<1>5. CASE k \in StaffReplies
  BY <1>0, <1>1, <1>2, <1>3, <1>5, LoudMove DEF RelaySteps
<1>6. CASE k \in Commands
  BY <1>0, <1>1, <1>2, <1>6, LoudMove DEF RelaySteps
<1> QED BY <1>4, <1>5, <1>6

\* Colleagues, crashes and time.
LEMMA Surroundings ==
    ASSUME Inv,
           \/ \E e \in Echoes : StaffWriteNatively(e) \/ RecordExternalReply(e)
           \/ \E i \in Instances : Crash(i)
           \/ Tick
           \/ UNCHANGED vars
    PROVE  (WorkOfStep /\ LeaseCoversRequest)'
<1> USE DEF Inv, WorkOfStep, LeaseCoversRequest, HoldsClaim, stores, request
<1>1. CASE (\E e \in Echoes : StaffWriteNatively(e) \/ RecordExternalReply(e)) \/ UNCHANGED vars
  <2>1. UNCHANGED <<processed, pc, work, budget>>
    BY <1>1 DEF StaffWriteNatively, RecordExternalReply, vars
  <2> QED BY <2>1
<1>2. ASSUME NEW i \in Instances, Crash(i)
      PROVE  (WorkOfStep /\ LeaseCoversRequest)'
  <2>1. /\ UNCHANGED processed
        /\ \A r \in Requests : \/ pc'[r] = "idle"
                               \/ /\ pc'[r] = pc[r] /\ work'[r] = work[r]
                                  /\ budget'[r] = budget[r]
    BY <1>2 DEF Crash
  <2>2. "idle" \notin LockedSteps \cup DeliverySteps \cup RelaySteps
    BY StepKinds DEF RelaySteps
  <2> QED BY <2>1, <2>2
<1>3. CASE Tick
  <2>1. /\ UNCHANGED <<pc, work>>
        /\ \A r \in Requests : pc[r] # "idle" => budget[r] > 0 /\ budget'[r] = budget[r] - 1
    BY <1>3 DEF Tick, TypeOK
  <2>2. \A k \in Keys : /\ processed'[k].owner = processed[k].owner
                        /\ processed'[k].done = processed[k].done
                        /\ processed[k].ttl > 0 => processed'[k].ttl = processed[k].ttl - 1
    BY <1>3 DEF Tick, TypeOK, Elapsed, Entry
  <2>3. /\ Lock \in Keys /\ Deliveries \cup StaffReplies \subseteq Keys
        /\ "idle" \notin LockedSteps
        /\ budget \in [Requests -> 0..TurnTimeout]
        /\ \A k \in Keys : processed[k].ttl \in Nat
    BY StepKinds DEF Keys, TypeOK, Entry
  <2> QED BY <2>1, <2>2, <2>3, ConversationAssumption
<1> QED BY <1>1, <1>2, <1>3

\* Every step keeps the inductive invariant.
LEMMA InvNext == Inv /\ [Next]_vars => Inv'
<1> SUFFICES ASSUME Inv, [Next]_vars PROVE Inv'
  OBVIOUS
<1>1. TypeOK'
  BY TypeNext DEF Inv
<1>2. (WorkOfStep /\ LeaseCoversRequest)'
  <2>1. CASE \E r \in Requests : Progress(r) \/ Failing(r)
    <3> PICK r \in Requests : Progress(r) \/ Failing(r)
      BY <2>1
    <3>1. \/ QuietMove(r) \/ LockConversation(r) \/ SaveCommand(r) \/ Finishing(r)
          \/ CompleteFails(r) \/ LockAckLost(r) \/ UnlockLost(r)
      BY QuietHandling, QuietAnswering, QuietStaffing, QuietFailing DEF Inv, Progress
    <3> QED BY <3>1, QuietInvariant, LoudSteps
  <2>2. CASE \E r \in Requests, k \in Work :
               \/ k \in Deliveries /\ ReceiveDelivery(r, k)
               \/ k \in StaffReplies /\ StartRelay(r, k)
               \/ k \in Commands /\ StartCommand(r, k)
    BY <2>2, Starting DEF Work
  <2> QED BY <2>1, <2>2, Surroundings DEF Next, Redeliver, RedeliverStaff, Work
<1> QED BY <1>1, <1>2 DEF Inv

\* The inductive invariant holds initially.
LEMMA InvInit == Init => Inv
<1> SUFFICES ASSUME Init PROVE Inv
  OBVIOUS
<1>1. TypeOK
  BY TypeInit
<1>2. WorkOfStep /\ LeaseCoversRequest
  BY StepKinds DEF Init, WorkOfStep, LeaseCoversRequest, RelaySteps
<1> QED BY <1>1, <1>2 DEF Inv

(***************************************************************************)
(* The theorems.                                                           *)
(***************************************************************************)
\* The inductive invariant holds in every reachable state: no step of Handle,
\* RelayStaffReply or RunStaffCommand, no failed call and no crash leaves a
\* request without the claims it relies on.
THEOREM Invariance == Spec => []Inv
BY InvInit, InvNext, PTL DEF Spec

\* Every variable keeps its type.
THEOREM TypeCorrectness == Spec => []TypeOK
<1>1. Inv => TypeOK
  BY DEF Inv
<1> QED BY <1>1, Invariance, PTL

\* A request holds its claims for as long as it can still run, so completing or
\* releasing a delivery never touches a claim that has passed to someone else.
THEOREM LeasesCoverRequests == Spec => []LeaseCoversRequest
<1>1. Inv => LeaseCoversRequest
  BY DEF Inv
<1> QED BY <1>1, Invariance, PTL

\* lockConversation excludes: no two requests are ever between taking a
\* conversation's lock and giving it back.
THEOREM LockExclusion == Spec => []LockExclusive
<1>1. Inv => LockExclusive
  BY DEF Inv, LockExclusive, LeaseCoversRequest, HoldsClaim
<1> QED BY <1>1, Invariance, PTL

(***************************************************************************)
(* The claims implement exclusive work.                                    *)
(***************************************************************************)
\* A key has at most one holder, and its claim is live.
LEMMA OneHolder ==
    ASSUME Inv, NEW k \in Keys, NEW r \in Holders(k)
    PROVE  /\ Holders(k) = {r}
           /\ processed[k].owner = r /\ ~processed[k].done /\ ~Claimable(processed[k])
<1>1. \A s \in Holders(k) : s \in Requests /\ HoldsClaim(s, k)
  BY DEF Holders, Inv, LeaseCoversRequest, Keys
<1>2. processed[k].ttl \in Nat /\ \A s \in Requests : budget[s] \in Nat
  BY ConversationAssumption DEF Inv, TypeOK, Entry
<1> QED BY <1>1, <1>2 DEF HoldsClaim, Claimable

\* How the holders of a key change when one request moves.
LEMMA HoldersAfter ==
    ASSUME TypeOK, NEW r \in Requests, NEW q, NEW w, NEW k \in Keys,
           pc' = [pc EXCEPT ![r] = q], work' = [work EXCEPT ![r] = w]
    PROVE  LET holds == IF k = Lock THEN q \in LockedSteps
                        ELSE w = k /\ q \notin {"idle", "unlocking"}
           IN  /\ holds => Holders(k)' = Holders(k) \cup {r}
               /\ ~holds => Holders(k)' = Holders(k) \ {r}
BY DEF TypeOK, Holders

\* Nothing that exclusive work sees changes.
Quietly == UNCHANGED <<[k \in Keys |-> Holders(k)], {k \in Keys : processed[k].done}>>

\* A quiet step is invisible to exclusive work.
LEMMA QuietRefines ==
    ASSUME Inv, NEW r \in Requests, QuietMove(r)
    PROVE  Quietly
<1>1. ASSUME NEW k \in Keys PROVE Holders(k)' = Holders(k)
  BY DEF QuietMove, Holders, Inv, TypeOK
<1>2. UNCHANGED processed
  BY DEF QuietMove
<1> QED BY <1>1, <1>2 DEF Quietly

\* A request that lets go of one key, finishing it or not.
LEMMA LettingGo ==
    ASSUME Inv, NEW r \in Requests, NEW k \in Keys, r \in Holders(k),
           Holders(k)' = Holders(k) \ {r},
           \A j \in Keys : j # k => Holders(j)' = Holders(j),
           \A j \in Keys : j # k => processed'[j].done = processed[j].done
    PROVE  /\ ~processed'[k].done => Exclusive!GiveBack(k)
           /\ processed'[k].done => Exclusive!Finish(k)
<1>1. Holders(k)' = {} /\ Holders(k) # {} /\ ~processed[k].done
  BY OneHolder
<1>2. [j \in Keys |-> Holders(j)]' = [[j \in Keys |-> Holders(j)] EXCEPT ![k] = {}]
  BY <1>1
<1>3. CASE ~processed'[k].done
  <2>1. UNCHANGED {j \in Keys : processed[j].done}
    BY <1>1, <1>3
  <2> QED BY <1>2, <1>3, <2>1 DEF Exclusive!GiveBack
<1>4. CASE processed'[k].done
  <2>1. {j \in Keys : processed[j].done}' = {j \in Keys : processed[j].done} \cup {k}
    BY <1>1, <1>4
  <2> QED BY <1>1, <1>2, <1>4, <2>1 DEF Exclusive!Finish
<1> QED BY <1>3, <1>4

\* A request that claims a document.
LEMMA Taking ==
    ASSUME Inv, NEW r \in Requests, NEW k \in Keys,
           Claimable(processed[k]), processed' = [processed EXCEPT ![k] = ClaimedBy(r)],
           Holders(k)' = Holders(k) \cup {r},
           \A j \in Keys : j # k => Holders(j)' = Holders(j)
    PROVE  Exclusive!Take(k, r)
<1>1. Holders(k) = {} /\ ~processed[k].done
  BY OneHolder DEF Claimable
<1>2. [j \in Keys |-> Holders(j)]' = [[j \in Keys |-> Holders(j)] EXCEPT ![k] = {r}]
  BY <1>1
<1>3. UNCHANGED {j \in Keys : processed[j].done}
  BY <1>1 DEF Inv, TypeOK, ClaimedBy
<1> QED BY <1>1, <1>2, <1>3 DEF Exclusive!Take

\* A request that goes home drops what it held; it holds one key at most.
LEMMA GoingHome ==
    ASSUME Inv, NEW r \in Requests, Retire(r), NEW k \in Keys,
           \A j \in Keys : r \in Holders(j) => j = k,
           \A j \in Keys : j # k => processed'[j].done = processed[j].done,
           r \notin Holders(k) => processed'[k].done = processed[k].done
    PROVE  Quietly \/ Exclusive!Next
<1>1. \A j \in Keys : Holders(j)' = Holders(j) \ {r}
  BY StepKinds DEF Retire, Goto, Holders, Inv, TypeOK
<1>2. CASE r \in Holders(k)
  <2>1. Exclusive!GiveBack(k) \/ Exclusive!Finish(k)
    BY <1>1, <1>2, LettingGo
  <2> QED BY <2>1 DEF Exclusive!Next
<1>3. CASE r \notin Holders(k)
  <2>1. \A j \in Keys : Holders(j)' = Holders(j) /\ processed'[j].done = processed[j].done
    BY <1>1, <1>3
  <2> QED BY <2>1 DEF Quietly
<1> QED BY <1>2, <1>3

\* Locking, completing, releasing and unlocking are steps of exclusive work.
LEMMA LoudRefines ==
    ASSUME Inv, NEW r \in Requests,
           \/ LockConversation(r) \/ LockAckLost(r) \/ SaveCommand(r) \/ Finishing(r)
           \/ CompleteFails(r) \/ UnlockLost(r)
    PROVE  Quietly \/ Exclusive!Next
<1>0. /\ Lock \in Keys
      /\ Deliveries \cup StaffReplies \subseteq Keys
      /\ Lock \notin Deliveries \cup StaffReplies
      /\ Deliveries \cap StaffReplies = {}
      /\ (Deliveries \cup StaffReplies) \cap Commands = {}
      /\ Lock \notin Deliveries \cup StaffReplies
      /\ \A k \in Keys : k # Lock => k \in Deliveries \cup StaffReplies
      /\ TypeOK
      /\ pc \in [Requests -> Steps] /\ processed \in [Keys -> Entry]
      /\ pc = [pc EXCEPT ![r] = pc[r]] /\ work = [work EXCEPT ![r] = work[r]]
  BY ConversationAssumption DEF Keys, Work, Inv, TypeOK
<1>9. /\ pc[r] # "idle" => work[r] \in Deliveries \cup StaffReplies \cup Commands
      /\ pc[r] \in DeliverySteps => work[r] \in Deliveries
      /\ pc[r] = "commandSaving" => work[r] \in Commands
  BY DEF Inv, WorkOfStep, Work
<1>1. CASE LockConversation(r)
  <2>1. /\ Claimable(processed[Lock])
        /\ processed' = [processed EXCEPT ![Lock] = ClaimedBy(r)]
        /\ pc' = [pc EXCEPT ![r] = "opening"] /\ pc[r] = "locking"
        /\ UNCHANGED work
    BY <1>1 DEF LockConversation, Goto
  <2>2. Holders(Lock)' = Holders(Lock) \cup {r}
    BY <1>0, <2>1, StepKinds DEF Holders
  <2>3. \A j \in Keys : j # Lock => Holders(j)' = Holders(j)
    BY <1>0, <2>1 DEF Holders
  <2> QED BY <1>0, <2>1, <2>2, <2>3, Taking DEF Exclusive!Next
<1>2. CASE LockAckLost(r)
  <2>1. /\ Claimable(processed[Lock])
        /\ processed' = [processed EXCEPT ![Lock] = ClaimedBy(r)]
        /\ pc' = [pc EXCEPT ![r] = "releasing"] /\ pc[r] = "locking"
        /\ UNCHANGED work
    BY <1>2 DEF LockAckLost, Goto
  <2>2. \A j \in Keys : Holders(j)' = Holders(j)
    BY <1>0, <2>1, StepKinds DEF Holders
  <2>3. ~processed[Lock].done /\ ~processed'[Lock].done
    BY <1>0, <2>1 DEF Claimable, ClaimedBy
  <2>4. \A j \in Keys : j # Lock => processed'[j] = processed[j]
    BY <1>0, <2>1
  <2> QED BY <2>2, <2>3, <2>4 DEF Quietly
<1>3. CASE SaveCommand(r)
  <2>1. /\ UNCHANGED <<processed, work>>
        /\ pc' = [pc EXCEPT ![r] = "unlocking"] /\ pc[r] = "commandSaving"
    BY <1>3 DEF SaveCommand, Goto
  <2>2. \A j \in Keys : Holders(j)' = Holders(j)
    BY <1>0, <1>9, <2>1, StepKinds DEF Holders
  <2> QED BY <2>1, <2>2 DEF Quietly
<1>4. CASE Complete(r) \/ (CompleteFails(r) /\ pc[r] = "completing")
  <2>1. /\ \/ processed' = [processed EXCEPT ![work[r]] = CompleteEntry(@, r)]
           \/ UNCHANGED processed
        /\ pc' = [pc EXCEPT ![r] = "unlocking"] /\ pc[r] = "completing"
        /\ UNCHANGED work
    BY <1>4 DEF Complete, CompleteFails, Goto, stores
  <2> PICK k \in Keys \ {Lock} : k = work[r]
    BY <1>0, <1>9, <2>1, DeliveryStepNames
  <2>3. r \in Holders(k)
    BY <2>1 DEF Holders
  <2>4. Holders(k)' = Holders(k) \ {r}
    BY <1>0, <2>1 DEF Holders
  <2>5. \A j \in Keys : j # k => Holders(j)' = Holders(j)
    BY <1>0, <2>1, StepKinds DEF Holders
  <2>6. \A j \in Keys : j # k => processed'[j].done = processed[j].done
    BY <1>0, <2>1
  <2>7. Exclusive!GiveBack(k) \/ Exclusive!Finish(k)
    BY <2>3, <2>4, <2>5, <2>6, LettingGo
  <2> QED BY <2>7 DEF Exclusive!Next
<1>5. CASE UnlockThenSettle(r) \/ (UnlockLost(r) /\ pc[r] # "unlocking")
  <2>1. /\ processed' \in {processed, [processed EXCEPT ![Lock] = ReleaseEntry(@, r)]}
        /\ \E q \in {"releasing", "settling"} : pc' = [pc EXCEPT ![r] = q]
        /\ pc[r] \in {"unlockThenRelease", "unlockThenComplete"}
        /\ UNCHANGED work
    BY <1>5 DEF UnlockThenSettle, UnlockLost, UnlockSteps, Goto, stores
  <2> PICK q \in {"releasing", "settling"} : pc' = [pc EXCEPT ![r] = q]
    BY <2>1
  <2>2. /\ q \notin LockedSteps /\ q \notin {"idle", "unlocking"}
        /\ pc[r] \in LockedSteps /\ pc[r] \notin {"idle", "unlocking"}
    BY <2>1, StepKinds
  <2>3. r \in Holders(Lock) /\ Holders(Lock)' = Holders(Lock) \ {r}
    BY <1>0, <2>2 DEF Holders
  <2>4. \A j \in Keys : j # Lock => Holders(j)' = Holders(j)
    BY <1>0, <2>1, <2>2 DEF Holders
  <2>5. \A j \in Keys : j # Lock => processed'[j].done = processed[j].done
    BY <1>0, <2>1
  <2>6. Exclusive!GiveBack(Lock) \/ Exclusive!Finish(Lock)
    BY <1>0, <2>3, <2>4, <2>5, LettingGo
  <2> QED BY <1>0, <2>6 DEF Exclusive!Next
<1>6. CASE Unlock(r) \/ (UnlockLost(r) /\ pc[r] = "unlocking")
  <2>1. /\ pc[r] = "unlocking" /\ Retire(r)
        /\ \A j \in Keys : j # Lock => processed'[j] = processed[j]
    BY <1>0, <1>6 DEF Unlock, UnlockLost, stores
  <2>2. r \in Holders(Lock) /\ \A j \in Keys : r \in Holders(j) => j = Lock
    BY <2>1, StepKinds DEF Holders
  <2> QED BY <1>0, <2>1, <2>2, GoingHome
<1>7. CASE ReleaseDelivery(r) \/ Settle(r) \/ (CompleteFails(r) /\ pc[r] = "settling")
  <2>1. /\ pc[r] \in {"releasing", "settling"} /\ Retire(r)
        /\ \A j \in Keys : j # work[r] => processed'[j] = processed[j]
        /\ work[r] \in Commands => UNCHANGED processed
    BY <1>0, <1>7 DEF ReleaseDelivery, Settle, CompleteFails, stores
  <2>2. \A j \in Keys : r \in Holders(j) => j = work[r]
    BY <2>1, StepKinds DEF Holders
  <2>3. CASE work[r] \in Commands
    BY <1>0, <2>1, <2>2, <2>3, GoingHome
  <2>4. CASE work[r] \in Deliveries \cup StaffReplies
    <3> PICK k \in Keys \ {Lock} : k = work[r]
      BY <1>0, <2>4
    <3>1. r \in Holders(k)
      BY <2>1 DEF Holders
    <3> QED BY <2>1, <2>2, <3>1, GoingHome
  <2> QED BY <1>9, <2>1, <2>3, <2>4
<1>8. CompleteFails(r) => pc[r] = "completing" \/ pc[r] = "settling"
  BY DEF CompleteFails
<1>10. CASE CompleteFails(r)
  BY <1>4, <1>7, <1>8, <1>10
<1>11. CASE UnlockLost(r)
  BY <1>5, <1>6, <1>11
<1>12. CASE Finishing(r)
  BY <1>4, <1>5, <1>6, <1>7, <1>12 DEF Finishing
<1> QED BY <1>1, <1>2, <1>3, <1>10, <1>11, <1>12

\* So is claiming a delivery or a relayed message; a command claims nothing.
LEMMA StartingRefines ==
    ASSUME Inv, NEW r \in Requests, NEW k \in Deliveries \cup StaffReplies \cup Commands,
           \/ k \in Deliveries /\ ReceiveDelivery(r, k)
           \/ k \in StaffReplies /\ StartRelay(r, k)
           \/ k \in Commands /\ StartCommand(r, k)
    PROVE  Quietly \/ Exclusive!Next
<1>0. /\ Deliveries \cup StaffReplies \subseteq Keys
      /\ Lock \notin Deliveries \cup StaffReplies
      /\ (Deliveries \cup StaffReplies) \cap Commands = {}
      /\ \A j \in Keys : j # Lock => j \in Deliveries \cup StaffReplies
      /\ pc \in [Requests -> Steps] /\ work \in [Requests -> Work \cup {NoWork}]
  BY ConversationAssumption DEF Keys, Inv, TypeOK
<1>1. /\ \E q \in {"registering", "locking"} : pc' = [pc EXCEPT ![r] = q]
      /\ pc[r] = "idle"
      /\ work' = [work EXCEPT ![r] = k]
      /\ k \in Deliveries \cup StaffReplies =>
            Claimable(processed[k]) /\ processed' = [processed EXCEPT ![k] = ClaimedBy(r)]
      /\ k \in Commands => UNCHANGED processed
  BY <1>0, ConversationAssumption
     DEF ReceiveDelivery, StartRelay, StartCommand, Begin, Goto, Fresh, stores
<1> PICK q \in {"registering", "locking"} : pc' = [pc EXCEPT ![r] = q]
  BY <1>1
<1>2. q \notin LockedSteps /\ "idle" \notin LockedSteps /\ q \notin {"idle", "unlocking"}
  BY StepKinds
<1>3. \A j \in Keys : j # k => Holders(j)' = Holders(j)
  BY <1>0, <1>1, <1>2 DEF Holders
<1>4. CASE k \in Commands
  <2>1. k \notin Keys
    BY <1>0, <1>4, ConversationAssumption
  <2> QED BY <1>1, <1>3, <1>4, <2>1 DEF Quietly
<1>5. CASE k \in Deliveries \cup StaffReplies
  <2>1. Holders(k)' = Holders(k) \cup {r}
    BY <1>0, <1>1, <1>2, <1>5 DEF Holders
  <2>2. Exclusive!Take(k, r)
    BY <1>0, <1>1, <1>3, <1>5, <2>1, Taking
  <2> QED BY <1>0, <1>5, <2>2 DEF Exclusive!Next
<1> QED BY <1>4, <1>5

\* A crash drops what the instance held; echoes and time are invisible.
LEMMA SurroundingsRefine ==
    ASSUME Inv,
           \/ \E e \in Echoes : StaffWriteNatively(e) \/ RecordExternalReply(e)
           \/ \E i \in Instances : Crash(i)
           \/ Tick
           \/ UNCHANGED vars
    PROVE  Quietly \/ Exclusive!Next
<1>1. CASE (\E e \in Echoes : StaffWriteNatively(e) \/ RecordExternalReply(e)) \/ UNCHANGED vars
  <2>1. UNCHANGED <<processed, pc, work>>
    BY <1>1 DEF StaffWriteNatively, RecordExternalReply, vars, stores, request
  <2> QED BY <2>1 DEF Quietly, Holders
<1>2. ASSUME NEW i \in Instances, Crash(i)
      PROVE  Exclusive!Next
  <2> DEFINE gone == {r \in Requests : InstanceOf[r] = i /\ pc[r] # "idle"}
  <2>1. PICK rs \in SUBSET Requests : rs = gone
    OBVIOUS
  <2>2. /\ UNCHANGED processed
        /\ \A r \in rs : pc'[r] = "idle"
        /\ \A r \in Requests \ rs : pc'[r] = pc[r] /\ work'[r] = work[r]
    BY <1>2, <2>1 DEF Crash, stores
  <2>3. \A k \in Keys : Holders(k)' = Holders(k) \ rs
    BY <2>2, StepKinds DEF Holders
  <2>4. Exclusive!Drop(rs)
    BY <2>2, <2>3 DEF Exclusive!Drop
  <2> QED BY <2>4 DEF Exclusive!Next
<1>3. CASE Tick
  <2>1. UNCHANGED <<pc, work>>
    BY <1>3 DEF Tick
  <2>2. \A k \in Keys : processed'[k].done = processed[k].done
    BY <1>3 DEF Tick, Elapsed, Inv, TypeOK, Entry
  <2> QED BY <2>1, <2>2 DEF Quietly, Holders
<1> QED BY <1>1, <1>2, <1>3

\* At first nobody holds anything and nothing is finished.
LEMMA InitRefines == Init => Exclusive!Init
BY StepKinds, ConversationAssumption DEF Init, Exclusive!Init, Holders, Absent

\* Every step of the leases is a step of exclusive work or a stutter.
LEMMA StepRefines == Inv /\ [Next]_vars => [Exclusive!Next]_Exclusive!vars
<1> SUFFICES ASSUME Inv, [Next]_vars PROVE Quietly \/ Exclusive!Next
  BY DEF Quietly, Exclusive!vars
<1>1. CASE \E r \in Requests : Progress(r) \/ Failing(r)
  <2> PICK r \in Requests : Progress(r) \/ Failing(r)
    BY <1>1
  <2>1. \/ QuietMove(r) \/ LockConversation(r) \/ SaveCommand(r) \/ Finishing(r)
        \/ CompleteFails(r) \/ LockAckLost(r) \/ UnlockLost(r)
    BY QuietHandling, QuietAnswering, QuietStaffing, QuietFailing DEF Inv, Progress
  <2> QED BY <2>1, QuietRefines, LoudRefines
<1>2. CASE \E r \in Requests, k \in Work :
             \/ k \in Deliveries /\ ReceiveDelivery(r, k)
             \/ k \in StaffReplies /\ StartRelay(r, k)
             \/ k \in Commands /\ StartCommand(r, k)
  BY <1>2, StartingRefines DEF Work
<1> QED BY <1>1, <1>2, SurroundingsRefine DEF Next, Redeliver, RedeliverStaff, Work

\* The leases, with their clocks, crashes and lost acknowledgements, implement
\* exclusive work: one holder at a time for each delivery, each relayed message
\* and the conversation, and nothing finished is ever taken up again.
THEOREM ClaimsImplementExclusiveWork == Spec => ImplementsExclusiveWork
BY InitRefines, StepRefines, Invariance, PTL DEF Spec, ImplementsExclusiveWork, Exclusive!Spec

(***************************************************************************)
(* What a colleague took over stays taken over.                            *)
(*                                                                         *)
(* A turn, a relay or a command saves a copy of the conversation that it   *)
(* may have read long ago.  The argument: only a recorded native reply     *)
(* changes the document under the holder of the lock; such a reply raises  *)
(* the revision, so the holder's Save is refused; and a copy whose         *)
(* revision is still current was made of the conversation as it is.        *)
(***************************************************************************)
\* The steps at which a request's copy may still be saved or judged by, those
\* of them at which it is the document itself, and those of an active turn.
CopySteps ==
    {"openSaving", "receiving", "deciding", "outageSaving", "forwarding", "withdrawing",
     "checkingTurn", "composing", "saving", "announcing", "recheckingTurn", "checkingStaff",
     "sending", "storingChoices", "folding", "relaySaving", "relaySending",
     "relayRecording", "commandSaving"}
EqualSteps ==
    {"openSaving", "receiving", "deciding", "forwarding", "withdrawing", "announcing",
     "recheckingTurn", "checkingStaff", "sending", "storingChoices"}
TurnSteps ==
    {"checkingTurn", "composing", "saving", "announcing", "recheckingTurn", "checkingStaff",
     "sending", "storingChoices", "folding"}

\* How the copy c of a request that does w at step q stands to the document s.
CopyStands(q, w, c, s) ==
    /\ c.rev <= s.rev
    /\ q \in CopySteps /\ c.rev # s.rev => s.state = "human_active"
    /\ q \in CopySteps /\ c.rev = s.rev /\ s.state = "human_active" =>
          \/ c.state = "human_active" /\ c.age <= s.age
          \/ s.age > HandoffTimeout
          \/ q = "commandSaving" /\ w = "resume"
    /\ q \in EqualSteps /\ c.rev = s.rev => c.state = s.state /\ c.age = s.age
    /\ q \in TurnSteps => c.state # "human_active"
    /\ q \in RelaySteps => c.state = "human_active"
    /\ q = "commandSaving" => c.state # "human_requested"

Copies == \A r \in Requests : CopyStands(pc[r], work[r], turn[r].conv, stored)

\* The inductive invariant.
CopyInv == Inv /\ Copies

\* A step with an untouched copy and an untouched document.
Onwards(p, q) ==
    \/ q \notin CopySteps
    \/ /\ p \in CopySteps
       /\ q \in EqualSteps => p \in EqualSteps
       /\ q \in TurnSteps => p \in TurnSteps
       /\ q \in RelaySteps => p \in RelaySteps
       /\ q # "commandSaving"

LEMMA CopyMoves ==
    ASSUME NEW p, NEW q, NEW w, NEW c \in Conversation, NEW s \in Conversation,
           CopyStands(p, w, c, s), Onwards(p, q), p # "commandSaving" \/ q \notin CopySteps
    PROVE  CopyStands(q, w, c, s)
<1>1. CASE q \notin CopySteps
  BY <1>1 DEF CopyStands, CopySteps, EqualSteps, TurnSteps, RelaySteps
<1>2. CASE q \in CopySteps
  BY <1>2 DEF CopyStands, Onwards
<1> QED BY <1>1, <1>2

\* A request that holds no copy any more.
LEMMA CopyRests ==
    ASSUME NEW q, NEW w, NEW c \in Conversation, NEW s \in Conversation,
           q \notin CopySteps, c.rev <= s.rev
    PROVE  CopyStands(q, w, c, s)
BY DEF CopyStands, CopySteps, EqualSteps, TurnSteps, RelaySteps

\* Time passes for the copy as for the document.
LEMMA CopyAges ==
    ASSUME NEW q, NEW w, NEW c \in Conversation, NEW s \in Conversation, CopyStands(q, w, c, s)
    PROVE  CopyStands(q, w, Older(c), Older(s))
<1> DEFINE AgeOf(x) == IF AssistantMayReply(x) \/ x.age > HandoffTimeout THEN x.age ELSE x.age + 1
<1>1. ASSUME NEW x \in Conversation
      PROVE  /\ Older(x).rev = x.rev /\ Older(x).state = x.state
             /\ Older(x).age = AgeOf(x)
  BY <1>1 DEF Older, Conversation
<1>2. /\ c.age \in 0..(HandoffTimeout + 1) /\ s.age \in 0..(HandoffTimeout + 1)
      /\ c.rev \in Nat /\ s.rev \in Nat /\ HandoffTimeout \in Nat
  BY ConversationAssumption DEF Conversation
<1>3. /\ s.age > HandoffTimeout => AgeOf(s) > HandoffTimeout
      /\ c.state = "human_active" /\ s.state = "human_active" /\ c.age <= s.age
            => AgeOf(c) <= AgeOf(s) \/ AgeOf(s) > HandoffTimeout
      /\ c.state = s.state /\ c.age = s.age => AgeOf(c) = AgeOf(s)
  BY <1>2 DEF AssistantMayReply
<1> HIDE DEF AgeOf
<1> DEFINE d == Older(c)
           t == Older(s)
<1>4. /\ d.rev = c.rev /\ d.state = c.state /\ d.age = AgeOf(c)
      /\ t.rev = s.rev /\ t.state = s.state /\ t.age = AgeOf(s)
  BY <1>1
<1> HIDE DEF d, t
<1>5. CopyStands(q, w, d, t)
  BY <1>3, <1>4 DEF CopyStands
<1> QED BY <1>5 DEF d, t

\* An echo either changes nothing or leaves every copy behind.
LEMMA CopyOvertaken ==
    ASSUME NEW q, NEW w, NEW c \in Conversation, NEW s \in Conversation, NEW e,
           CopyStands(q, w, c, s)
    PROVE  CopyStands(q, w, c, ObserveExternalReply(s, e))
<1>1. CASE e \in s.stale
  BY <1>1 DEF ObserveExternalReply
<1>2. CASE e \notin s.stale
  <2> DEFINE t == ObserveExternalReply(s, e)
  <2>1. t.rev = s.rev + 1 /\ t.state = "human_active"
    BY <1>2 DEF ObserveExternalReply, Conversation
  <2>2. c.rev \in Nat /\ s.rev \in Nat
    BY DEF Conversation
  <2>3. EqualSteps \subseteq CopySteps
    BY DEF EqualSteps, CopySteps
  <2> HIDE DEF t
  <2>4. CopyStands(q, w, c, t)
    BY <2>1, <2>2, <2>3 DEF CopyStands
  <2> QED BY <2>4 DEF t
<1> QED BY <1>1, <1>2

\* A copy that has just been saved is the document.
LEMMA CopySaved ==
    ASSUME NEW q, NEW w, NEW c \in Conversation,
           q \in TurnSteps => c.state # "human_active",
           q \in RelaySteps => c.state = "human_active",
           q # "commandSaving"
    PROVE  CopyStands(q, w, c, c)
BY DEF CopyStands, Conversation

\* The steps whose copy and document stay as they are.
Still(r) ==
    /\ stored' = stored
    /\ \A t \in Requests : turn'[t].conv = turn[t].conv /\ work'[t] = work[t]
    /\ \A t \in Requests \ {r} : pc'[t] = pc[t]
    /\ Onwards(pc[r], pc'[r]) /\ (pc[r] = "commandSaving" => pc'[r] \notin CopySteps)

LEMMA StillKeeps ==
    ASSUME CopyInv, TypeOK', NEW r \in Requests, Still(r)
    PROVE  Copies'
<1> SUFFICES ASSUME NEW t \in Requests
             PROVE  CopyStands(pc'[t], work'[t], turn'[t].conv, stored')
  BY DEF Copies
<1>1. turn[t].conv \in Conversation /\ stored \in Conversation
  BY DEF CopyInv, Inv, TypeOK, Turn
<1>2. CopyStands(pc[t], work[t], turn[t].conv, stored)
  BY DEF CopyInv, Copies
<1>3. CASE t = r
  BY <1>1, <1>2, <1>3, CopyMoves DEF Still
<1>4. CASE t # r
  BY <1>2, <1>4 DEF Still
<1> QED BY <1>3, <1>4

\* Accepting a message leaves the copies alone.
LEMMA AcceptsQuietly ==
    ASSUME TypeOK, NEW r \in Requests, Accept(r) \/ UNCHANGED turn
    PROVE  \A t \in Requests : /\ turn'[t].conv = turn[t].conv
                               /\ turn'[t].cancelled = turn[t].cancelled
                               /\ turn'[t].reason = turn[t].reason
BY DEF TypeOK, Turn, Accept

\* Taking a message up and answering it.
LEMMA StillTurning ==
    ASSUME TypeOK, NEW r \in Requests,
           \/ RegisterTurn(r) \/ Supersede(r) \/ LockConversation(r) \/ GiveUpWaiting(r)
           \/ RefuseExpiredChoice(r) \/ RecordInbound(r) \/ TellOutage(r) \/ LeaveToStaff(r)
           \/ Forward(r) \/ FindSuperseded(r) \/ ReadHistory(r) \/ ComposeAnswer(r)
           \/ FindStaffReplied(r) \/ Announce(r) \/ RecheckTurn(r) \/ CheckStaff(r) \/ Send(r)
           \/ SendCancelled(r) \/ RelaySend(r) \/ Complete(r) \/ UnlockThenSettle(r)
    PROVE  Still(r)
<1>0. pc \in [Requests -> Steps] /\ turn \in [Requests -> Turn]
  BY DEF TypeOK
<1> USE <1>0 DEF Still, Onwards, CopySteps, EqualSteps, TurnSteps, RelaySteps, Goto, stores, request,
                 bounds, history
<1>1. CASE RegisterTurn(r)
  BY <1>1 DEF RegisterTurn
<1>2. CASE Supersede(r)
  BY <1>2 DEF Supersede, Turn
<1>3. CASE LockConversation(r)
  BY <1>3 DEF LockConversation
<1>4. CASE GiveUpWaiting(r)
  BY <1>4 DEF GiveUpWaiting
<1>5. CASE RefuseExpiredChoice(r)
  BY <1>5, AcceptsQuietly DEF RefuseExpiredChoice
<1>6. CASE RecordInbound(r)
  BY <1>6 DEF RecordInbound
<1>7. CASE TellOutage(r) \/ Forward(r) \/ Announce(r)
  BY <1>7 DEF TellOutage, Forward, Announce, Telling
<1>8. CASE LeaveToStaff(r)
  BY <1>8 DEF LeaveToStaff
<1>9. CASE FindSuperseded(r)
  BY <1>9 DEF FindSuperseded
<1>10. CASE ReadHistory(r)
  BY <1>10 DEF ReadHistory, Turn
<1>11. CASE ComposeAnswer(r)
  BY <1>11 DEF ComposeAnswer
<1>12. CASE FindStaffReplied(r)
  BY <1>12 DEF FindStaffReplied
<1>13. CASE RecheckTurn(r)
  BY <1>13 DEF RecheckTurn
<1>14. CASE CheckStaff(r)
  BY <1>14 DEF CheckStaff
<1>15. CASE Send(r)
  BY <1>15, AcceptsQuietly DEF Send
<1>16. CASE SendCancelled(r)
  BY <1>16, AcceptsQuietly DEF SendCancelled
<1>17. CASE RelaySend(r)
  BY <1>17, AcceptsQuietly DEF RelaySend
<1>18. CASE Complete(r)
  BY <1>18 DEF Complete
<1>19. CASE UnlockThenSettle(r)
  BY <1>19 DEF UnlockThenSettle
<1> QED BY <1>1, <1>2, <1>3, <1>4, <1>5, <1>6, <1>7, <1>8, <1>9, <1>10, <1>11, <1>12, <1>13, <1>14,
           <1>15, <1>16, <1>17, <1>18, <1>19

\* Failures.
LEMMA StillFailing ==
    ASSUME TypeOK, NEW r \in Requests, Failing(r)
    PROVE  Still(r) \/ SaveAckLost(r) \/ (Retire(r) /\ UNCHANGED stores)
<1>0. pc \in [Requests -> Steps] /\ turn \in [Requests -> Turn]
  BY DEF TypeOK
<1> USE <1>0 DEF Still, Onwards, CopySteps, EqualSteps, TurnSteps, RelaySteps, Goto, stores, request,
                 bounds, history
<1>1. CASE Fail(r)
  BY <1>1 DEF Fail, FailsUnlocked, FailsLocked
<1>2. CASE SendFails(r)
  BY <1>2, AcceptsQuietly DEF SendFails, MaybeAccept
<1>3. CASE SendRefused(r)
  BY <1>3 DEF SendRefused
<1>4. CASE RelaySendFails(r)
  BY <1>4, AcceptsQuietly DEF RelaySendFails, MaybeAccept
<1>5. CASE CompleteFails(r)
  BY <1>5 DEF CompleteFails
<1>6. CASE NoticeFails(r)
  BY <1>6 DEF NoticeFails
<1>7. CASE LockAckLost(r)
  BY <1>7 DEF LockAckLost
<1>8. CASE UnlockLost(r)
  BY <1>8 DEF UnlockLost
<1> QED BY <1>1, <1>2, <1>3, <1>4, <1>5, <1>6, <1>7, <1>8 DEF Failing

\* A request that begins or ends holds no copy.
LEMMA ResetKeeps ==
    ASSUME CopyInv, NEW r \in Requests, NEW q, q \notin CopySteps, NEW w,
           UNCHANGED stored,
           pc' = [pc EXCEPT ![r] = q],
           work' = [work EXCEPT ![r] = w],
           turn' = [turn EXCEPT ![r] = NewTurn]
    PROVE  Copies'
<1> SUFFICES ASSUME NEW t \in Requests
             PROVE  CopyStands(pc'[t], work'[t], turn'[t].conv, stored')
  BY DEF Copies
<1>0. /\ pc \in [Requests -> Steps] /\ turn \in [Requests -> Turn]
      /\ work \in [Requests -> Work \cup {NoWork}]
  BY DEF CopyInv, Inv, TypeOK
<1>1. CopyStands(pc[t], work[t], turn[t].conv, stored)
  BY DEF CopyInv, Copies
<1>2. CASE t = r
  <2>1. pc'[t] = q /\ turn'[t].conv = NewConversation
    BY <1>0, <1>2 DEF NewTurn
  <2>2. /\ NewConversation \in Conversation /\ stored \in Conversation
        /\ NewConversation.rev <= stored.rev
    BY NewConversationType DEF CopyInv, Inv, TypeOK, Conversation, NewConversation
  <2> QED BY <2>1, <2>2, CopyRests
<1>3. CASE t # r
  BY <1>0, <1>1, <1>3
<1> QED BY <1>2, <1>3

\* Two requests never hold the lock.
LEMMA LockedAlone ==
    ASSUME Inv, NEW r \in Requests, NEW t \in Requests, t # r, pc[r] \in LockedSteps
    PROVE  pc[t] \notin LockedSteps
BY DEF Inv, LeaseCoversRequest, HoldsClaim

\* The copies belong to holders of the lock.
LEMMA CopyStepsAreLocked == CopySteps \subseteq LockedSteps
BY StepKinds DEF CopySteps

\* The holder of the lock saves a copy that no echo overtook.
LEMMA SavingKeeps ==
    ASSUME CopyInv, NEW r \in Requests, NEW q, NEW c \in Conversation,
           pc[r] \in CopySteps, ~Conflict(r), c.rev = turn[r].conv.rev,
           stored' = c, pc' = [pc EXCEPT ![r] = q], UNCHANGED <<work, turn>>,
           q \notin CopySteps \/ (/\ c = turn[r].conv
                                  /\ q \in TurnSteps => c.state # "human_active"
                                  /\ q \in RelaySteps => c.state = "human_active"
                                  /\ q # "commandSaving")
    PROVE  Copies'
<1> SUFFICES ASSUME NEW t \in Requests
             PROVE  CopyStands(pc'[t], work'[t], turn'[t].conv, stored')
  BY DEF Copies
<1>0. /\ pc \in [Requests -> Steps] /\ turn \in [Requests -> Turn]
      /\ turn[t].conv \in Conversation
  BY DEF CopyInv, Inv, TypeOK, Turn
<1>1. turn'[t].conv = turn[t].conv /\ turn[t].conv.rev <= stored.rev /\ stored.rev = c.rev
  BY DEF CopyInv, Copies, CopyStands, Conflict
<1>2. CASE t = r
  <2>1. pc'[t] = q /\ turn[t].conv.rev = c.rev /\ c.rev \in Nat
    BY <1>0, <1>2 DEF Conversation
  <2>2. CASE q \notin CopySteps
    BY <1>0, <1>1, <2>1, <2>2, CopyRests
  <2>3. CASE q \in CopySteps
    <3>1. CopyStands(q, work'[t], c, c)
      BY <2>3, CopySaved
    <3> QED BY <1>1, <1>2, <2>1, <2>3, <3>1
  <2> QED BY <2>2, <2>3
<1>3. CASE t # r
  <2>1. pc'[t] = pc[t] /\ pc[t] \notin CopySteps
    BY <1>0, <1>3, LockedAlone, CopyStepsAreLocked DEF CopyInv
  <2> QED BY <1>0, <1>1, <2>1, CopyRests
<1> QED BY <1>2, <1>3

\* The holder of the lock changes its copy.
LEMMA ChangingKeeps ==
    ASSUME CopyInv, TypeOK', NEW r \in Requests,
           UNCHANGED <<stored, work>>,
           \A t \in Requests \ {r} : pc'[t] = pc[t] /\ turn'[t].conv = turn[t].conv,
           CopyStands(pc'[r], work[r], turn'[r].conv, stored)
    PROVE  Copies'
BY DEF CopyInv, Copies

\* Taking the copy, and what a command or a relay makes of it.
LEMMA LoadingKeeps ==
    ASSUME CopyInv, TypeOK', NEW r \in Requests, LoadConversation(r)
    PROVE  Copies'
<1>0. /\ pc \in [Requests -> Steps] /\ turn \in [Requests -> Turn]
      /\ stored \in Conversation
  BY DEF CopyInv, Inv, TypeOK
<1> DEFINE relay == [TransitionTo(stored, "human_active") EXCEPT !.age = 0]
           next == IF work[r] = "resume" THEN "assistant_active" ELSE "human_active"
           command == TransitionTo(stored, next)
<1>1. /\ relay.rev = stored.rev /\ relay.state = "human_active" /\ relay.age = 0
      /\ command.rev = stored.rev /\ command.state = next
      /\ command.state = stored.state => command = stored
      /\ relay \in Conversation /\ command \in Conversation
  <2>1. ASSUME NEW n \in States
        PROVE  /\ TransitionTo(stored, n).rev = stored.rev
               /\ TransitionTo(stored, n).state = n
               /\ stored.state = n => TransitionTo(stored, n) = stored
    BY <1>0 DEF TransitionTo, Conversation, States
  <2>2. next \in States /\ "human_active" \in States
    BY DEF States
  <2>3. relay \in Conversation /\ command \in Conversation
    BY <1>0, <2>2, ConversationTypes
  <2>4. /\ relay.rev = stored.rev /\ relay.state = "human_active" /\ relay.age = 0
    <3> DEFINE moved == TransitionTo(stored, "human_active")
    <3>1. moved \in Conversation /\ moved.rev = stored.rev /\ moved.state = "human_active"
      BY <1>0, <2>1, <2>2, ConversationTypes
    <3> HIDE DEF moved
    <3>2. LET m == [moved EXCEPT !.age = 0]
          IN  m.rev = stored.rev /\ m.state = "human_active" /\ m.age = 0
      BY <3>1 DEF Conversation
    <3> QED BY <3>2 DEF moved
  <2> HIDE DEF relay
  <2> QED BY <2>1, <2>2, <2>3, <2>4
<1>2. stored.rev \in Nat /\ stored.age \in Nat /\ 0 <= stored.age
  BY <1>0, ConversationAssumption DEF Conversation
<1> HIDE DEF relay, command
<1>3. \/ turn' = [turn EXCEPT ![r].conv = stored] /\ pc'[r] = "openSaving"
      \/ turn' = [turn EXCEPT ![r].conv = relay] /\ pc'[r] = "relaySaving"
      \/ turn' = [turn EXCEPT ![r].conv = command] /\ pc'[r] = "commandSaving"
  BY <1>0 DEF LoadConversation, Goto, relay, command
<1>4. CopyStands("openSaving", work[r], stored, stored)
  BY <1>0, CopySaved DEF TurnSteps, RelaySteps
<1>5. CopyStands("relaySaving", work[r], relay, stored)
  BY <1>1, <1>2 DEF CopyStands, EqualSteps, TurnSteps, RelaySteps
<1>6. CopyStands("commandSaving", work[r], command, stored)
  <2>1. command.rev <= stored.rev /\ command.rev = stored.rev
    BY <1>1, <1>2
  <2>2. command.state # "human_active" => work[r] = "resume"
    BY <1>1
  <2>3. command.state = "human_active" /\ stored.state = "human_active"
          => command.age <= stored.age
    BY <1>1, <1>2
  <2>4. command.state # "human_requested"
    BY <1>1
  <2> QED BY <2>1, <2>2, <2>3, <2>4 DEF CopyStands, EqualSteps, TurnSteps, RelaySteps
<1>7. CopyStands(pc'[r], work[r], turn'[r].conv, stored)
  <2>1. \A x \in Conversation : [turn EXCEPT ![r].conv = x][r].conv = x
    BY <1>0 DEF Turn
  <2>2. stored \in Conversation /\ relay \in Conversation /\ command \in Conversation
    BY <1>0, <1>1
  <2>3. CASE turn' = [turn EXCEPT ![r].conv = stored] /\ pc'[r] = "openSaving"
    <3>1. turn'[r].conv = stored
      BY <2>1, <2>2, <2>3
    <3> QED BY <1>4, <2>3, <3>1
  <2>4. CASE turn' = [turn EXCEPT ![r].conv = relay] /\ pc'[r] = "relaySaving"
    <3>1. turn'[r].conv = relay
      BY <2>1, <2>2, <2>4
    <3> QED BY <1>5, <2>4, <3>1
  <2>5. CASE turn' = [turn EXCEPT ![r].conv = command] /\ pc'[r] = "commandSaving"
    <3>1. turn'[r].conv = command
      BY <2>1, <2>2, <2>5
    <3> QED BY <1>6, <2>5, <3>1
  <2> QED BY <1>3, <2>3, <2>4, <2>5
<1>8. /\ UNCHANGED <<stored, work>>
      /\ \A t \in Requests \ {r} : pc'[t] = pc[t] /\ turn'[t].conv = turn[t].conv
  BY <1>0, <1>3 DEF LoadConversation, Goto, stores
<1> QED BY <1>7, <1>8, ChangingKeeps

\* Handing a copy over that the assistant may still answer from.
LEMMA CopyHandedOver ==
    ASSUME NEW p, NEW q, NEW w, NEW c \in Conversation, NEW s \in Conversation,
           CopyStands(p, w, c, s), p \in CopySteps \ {"commandSaving"}, AssistantMayReply(c),
           q \in {"outageSaving", "composing", "saving"}
    PROVE  CopyStands(q, w, TransitionTo(c, "human_requested"), s)
<1> DEFINE d == TransitionTo(c, "human_requested")
<1>1. d.rev = c.rev /\ d.state = "human_requested"
  BY DEF TransitionTo, Conversation
<1>2. c.state = "assistant_active"
  BY DEF AssistantMayReply
<1> HIDE DEF d
<1>3. CopyStands(q, w, d, s)
  BY <1>1, <1>2 DEF CopyStands, EqualSteps, RelaySteps, CopySteps
<1> QED BY <1>3 DEF d

\* A handover that nobody picked up lapses for the copy as for the document.
LEMMA CopyLapses ==
    ASSUME NEW w, NEW c \in Conversation, NEW s \in Conversation,
           CopyStands("deciding", w, c, s), AssistantMayReply(AfterTimeout(c))
    PROVE  CopyStands("checkingTurn", w, AfterTimeout(c), s)
<1> DEFINE d == AfterTimeout(c)
<1>1. d.rev = c.rev /\ d.state = "assistant_active"
  BY DEF AfterTimeout, TransitionTo, Conversation, AssistantMayReply
<1>2. "deciding" \in CopySteps /\ "deciding" \in EqualSteps
  BY DEF CopySteps, EqualSteps
<1>3. s.state = "human_active" /\ c.rev = s.rev => s.age > HandoffTimeout
  <2> SUFFICES ASSUME s.state = "human_active", c.rev = s.rev PROVE s.age > HandoffTimeout
    OBVIOUS
  <2>1. c.state = "human_active" /\ c.age = s.age
    BY <1>2 DEF CopyStands
  <2>2. Overdue(c)
    BY <2>1 DEF AfterTimeout, AssistantMayReply
  <2> QED BY <2>1, <2>2 DEF Overdue
<1>4. c.rev <= s.rev /\ (c.rev # s.rev => s.state = "human_active")
  BY <1>2 DEF CopyStands
<1> HIDE DEF d
<1>5. CopyStands("checkingTurn", w, d, s)
  BY <1>1, <1>3, <1>4 DEF CopyStands, EqualSteps, RelaySteps
<1> QED BY <1>5 DEF d

\* A turn that decides, or hands over while it answers.
LEMMA DecidingKeeps ==
    ASSUME CopyInv, TypeOK', NEW r \in Requests,
           FindChannelOut(r) \/ HandOver(r) \/ RequestHandoff(r) \/ UnknownChange(r) \/ ActivateTurn(r)
    PROVE  Copies'
<1> DEFINE c == turn[r].conv
           d == TransitionTo(c, "human_requested")
<1>0. /\ pc \in [Requests -> Steps] /\ turn \in [Requests -> Turn]
      /\ stored \in Conversation /\ c \in Conversation
      /\ CopyStands(pc[r], work[r], c, stored)
  BY DEF CopyInv, Inv, TypeOK, Copies, Turn
<1>1. /\ UNCHANGED <<stored, work>>
      /\ \A t \in Requests \ {r} : pc'[t] = pc[t] /\ turn'[t].conv = turn[t].conv
  BY <1>0 DEF FindChannelOut, HandOver, RequestHandoff, UnknownChange, ActivateTurn, HandCopyOver,
              Goto, stores, request, Turn
<1>2. CASE FindChannelOut(r)
  <2>1. /\ pc[r] = "deciding" /\ pc'[r] = "outageSaving"
        /\ turn' = [turn EXCEPT ![r].conv = IF AssistantMayReply(c) THEN d ELSE c]
    BY <1>0, <1>2 DEF FindChannelOut, Goto
  <2> HIDE DEF c, d
  <2>2. turn'[r].conv = IF AssistantMayReply(c) THEN d ELSE c
    BY <1>0, <2>1
  <2>3. CASE AssistantMayReply(c)
    <3>1. CopyStands("outageSaving", work[r], d, stored)
      BY <1>0, <2>1, <2>3, CopyHandedOver DEF CopySteps, c, d
    <3> QED BY <1>1, <2>1, <2>2, <2>3, <3>1, ChangingKeeps
  <2>4. CASE ~AssistantMayReply(c)
    <3>1. CopyStands("outageSaving", work[r], c, stored)
      BY <1>0, <2>1, CopyMoves DEF Onwards, CopySteps, EqualSteps, TurnSteps, RelaySteps
    <3> QED BY <1>1, <2>1, <2>2, <2>4, <3>1, ChangingKeeps
  <2> QED BY <2>3, <2>4
<1>3. CASE HandOver(r) \/ RequestHandoff(r) \/ UnknownChange(r)
  <2>1. /\ pc[r] = "composing" /\ pc'[r] \in {"composing", "saving"}
        /\ AssistantMayReply(c)
        /\ turn'[r].conv = d
    BY <1>0, <1>3 DEF HandOver, RequestHandoff, UnknownChange, HandCopyOver, Goto, Turn
  <2> HIDE DEF c, d
  <2>2. CopyStands(pc'[r], work[r], d, stored)
    BY <1>0, <2>1, CopyHandedOver DEF CopySteps, c, d
  <2> QED BY <1>1, <2>1, <2>2, ChangingKeeps
<1>4. CASE ActivateTurn(r)
  <2>1. /\ pc[r] = "deciding" /\ pc'[r] = "checkingTurn"
        /\ AssistantMayReply(AfterTimeout(c))
        /\ turn'[r].conv = AfterTimeout(c)
    BY <1>0, <1>4 DEF ActivateTurn, Goto, Turn
  <2> HIDE DEF c, d
  <2>2. CopyStands("checkingTurn", work[r], AfterTimeout(c), stored)
    BY <1>0, <2>1, CopyLapses
  <2> QED BY <1>1, <2>1, <2>2, ChangingKeeps
<1> QED BY <1>2, <1>3, <1>4

\* Every save, whether it is refused or not.
LEMMA SavesKeep ==
    ASSUME CopyInv, TypeOK', NEW r \in Requests,
           \/ SaveOpened(r) \/ SaveOutage(r) \/ WithdrawConsent(r) \/ SaveAnswered(r)
           \/ StoreChoices(r) \/ Fold(r) \/ SaveTakeover(r) \/ RecordRelay(r) \/ SaveCommand(r)
           \/ SaveAckLost(r)
    PROVE  Copies'
<1> DEFINE c == turn[r].conv
<1>0. /\ pc \in [Requests -> Steps] /\ turn \in [Requests -> Turn]
      /\ c \in Conversation
      /\ CopyStands(pc[r], work[r], c, stored)
  BY DEF CopyInv, Inv, TypeOK, Copies, Turn
<1>1. [c EXCEPT !.age = 0] \in Conversation /\ [c EXCEPT !.age = 0].rev = c.rev
  BY <1>0, ConversationTypes DEF States, Conversation
<1>2. /\ pc[r] \in CopySteps
      /\ pc' = [pc EXCEPT ![r] = pc'[r]]
      /\ UNCHANGED <<work, turn>>
  BY <1>0 DEF SaveOpened, SaveOutage, WithdrawConsent, SaveAnswered, SaveStep, StoreChoices, Fold,
              SaveTakeover, RecordRelay, SaveCommand, SaveAckLost, Goto, CopySteps
<1>3. CASE UNCHANGED stored /\ pc'[r] \notin CopySteps
  <2>1. Still(r)
    BY <1>0, <1>2, <1>3 DEF Still, Onwards
  <2> QED BY <2>1, StillKeeps
<1>4. CASE /\ ~Conflict(r) /\ pc'[r] \notin CopySteps
           /\ stored' \in {c, [c EXCEPT !.age = 0]}
  BY <1>0, <1>1, <1>2, <1>4, SavingKeeps
<1>5. CASE ~Conflict(r) /\ stored' = c /\ pc'[r] \in {"receiving", "relaySending"}
                        /\ (pc'[r] = "relaySending" => pc[r] = "relaySaving")
  <2>1. /\ pc'[r] \notin TurnSteps /\ pc'[r] # "commandSaving"
        /\ pc'[r] \in RelaySteps => c.state = "human_active"
    BY <1>0, <1>5 DEF TurnSteps, RelaySteps, CopyStands
  <2> QED BY <1>0, <1>2, <1>5, <2>1, SavingKeeps
<1>6. CASE /\ ~Conflict(r) /\ stored' = c
           /\ pc[r] = "saving" /\ pc'[r] \in {"announcing", "recheckingTurn"}
  <2>1. /\ c.state # "human_active" /\ pc'[r] # "commandSaving" /\ pc'[r] \notin RelaySteps
    BY <1>0, <1>6 DEF TurnSteps, RelaySteps, CopyStands
  <2> QED BY <1>0, <1>2, <1>6, <2>1, SavingKeeps
<1> USE <1>0, <1>2 DEF Save, Goto, CopySteps, stores
<1>7. CASE SaveOpened(r) \/ SaveOutage(r) \/ WithdrawConsent(r) \/ SaveAnswered(r)
  BY <1>3, <1>4, <1>5, <1>6, <1>7
     DEF SaveOpened, SaveOutage, WithdrawConsent, SaveAnswered, SaveStep
<1>8. CASE StoreChoices(r) \/ Fold(r)
  BY <1>3, <1>4, <1>8 DEF StoreChoices, Fold, BestEffortSave
<1>9. CASE SaveTakeover(r)
  BY <1>3, <1>5, <1>9 DEF SaveTakeover
<1>10. CASE RecordRelay(r) \/ SaveCommand(r)
  BY <1>3, <1>4, <1>10 DEF RecordRelay, SaveCommand
<1>11. CASE SaveAckLost(r)
  BY <1>4, <1>11 DEF SaveAckLost
<1> QED BY <1>7, <1>8, <1>9, <1>10, <1>11

\* Requests that end.
LEMMA EndingKeeps ==
    ASSUME CopyInv, NEW r \in Requests, Retire(r), UNCHANGED stored
    PROVE  Copies'
<1>1. "idle" \notin CopySteps
  BY DEF CopySteps
<1> QED BY <1>1, ResetKeeps DEF Retire, Goto

\* Requests that begin.
LEMMA BeginningKeeps ==
    ASSUME CopyInv, NEW r \in Requests, NEW k,
           \/ ReceiveDelivery(r, k) \/ StartRelay(r, k) \/ StartCommand(r, k)
    PROVE  Copies'
<1>1. "registering" \notin CopySteps /\ "locking" \notin CopySteps
  BY DEF CopySteps
<1>2. \/ Begin(r, k, "registering") /\ UNCHANGED stored
      \/ Begin(r, k, "locking") /\ UNCHANGED stored
  BY DEF ReceiveDelivery, StartRelay, StartCommand, stores
<1>3. CASE Begin(r, k, "registering") /\ UNCHANGED stored
  BY <1>1, <1>3, ResetKeeps DEF Begin, Goto
<1>4. CASE Begin(r, k, "locking") /\ UNCHANGED stored
  BY <1>1, <1>4, ResetKeeps DEF Begin, Goto
<1> QED BY <1>2, <1>3, <1>4

\* Native replies, crashes and time.
LEMMA AroundKeeps ==
    ASSUME CopyInv, TypeOK',
           \/ \E e \in Echoes : StaffWriteNatively(e) \/ RecordExternalReply(e)
           \/ \E i \in Instances : Crash(i)
           \/ Tick
           \/ UNCHANGED vars
    PROVE  Copies'
<1> SUFFICES ASSUME NEW t \in Requests
             PROVE  CopyStands(pc'[t], work'[t], turn'[t].conv, stored')
  BY DEF Copies
<1>0. /\ turn \in [Requests -> Turn]
      /\ stored \in Conversation /\ turn[t].conv \in Conversation
      /\ CopyStands(pc[t], work[t], turn[t].conv, stored)
  BY DEF CopyInv, Inv, TypeOK, Copies, Turn
<1>1. CASE (\E e \in Echoes : StaffWriteNatively(e)) \/ UNCHANGED vars
  BY <1>0, <1>1 DEF StaffWriteNatively, vars, stores, request
<1>2. CASE \E e \in Echoes : RecordExternalReply(e)
  BY <1>0, <1>2, CopyOvertaken DEF RecordExternalReply, request
<1>3. ASSUME NEW i \in Instances, Crash(i)
      PROVE  CopyStands(pc'[t], work'[t], turn'[t].conv, stored')
  <2>1. /\ UNCHANGED stored
        /\ \/ pc'[t] = "idle" /\ turn'[t] = NewTurn
           \/ pc'[t] = pc[t] /\ work'[t] = work[t] /\ turn'[t] = turn[t]
    BY <1>3 DEF Crash, stores
  <2>2. /\ "idle" \notin CopySteps
        /\ NewTurn.conv \in Conversation /\ NewTurn.conv.rev <= stored.rev
    BY <1>0, NewConversationType DEF CopySteps, NewTurn, NewConversation, Conversation
  <2>3. CopyStands("idle", work'[t], NewTurn.conv, stored)
    BY <1>0, <2>2, CopyRests
  <2> QED BY <1>0, <2>1, <2>3
<1>4. CASE Tick
  <2>1. /\ stored' = Older(stored) /\ UNCHANGED <<pc, work>>
        /\ turn'[t] = [turn[t] EXCEPT !.conv = Older(@)]
    BY <1>4 DEF Tick
  <2>2. turn'[t].conv = Older(turn[t].conv)
    BY <1>0, <2>1 DEF Turn
  <2> QED BY <1>0, <2>1, <2>2, CopyAges
<1> QED BY <1>1, <1>2, <1>3, <1>4

\* Every step keeps the copies in their relation to the document.
LEMMA CopyNext == CopyInv /\ [Next]_vars => CopyInv'
<1> SUFFICES ASSUME CopyInv, [Next]_vars PROVE Copies'
  BY InvNext DEF CopyInv
<1>0. TypeOK /\ TypeOK'
  BY InvNext DEF CopyInv, Inv
<1>1. ASSUME NEW r \in Requests, Progress(r) \/ Failing(r) PROVE Copies'
  <2>1. CASE Failing(r)
    BY <1>0, <2>1, StillFailing, StillKeeps, SavesKeep, EndingKeeps DEF stores
  <2>2. CASE Handling(r) \/ Answering(r) \/ Staffing(r)
    BY <1>0, <2>2, StillTurning, StillKeeps, LoadingKeeps, DecidingKeeps, SavesKeep
       DEF Handling, Answering, Staffing
  <2>3. CASE Finishing(r)
    <3>1. CASE Complete(r) \/ UnlockThenSettle(r)
      BY <1>0, <3>1, StillTurning, StillKeeps
    <3>2. CASE Unlock(r) \/ ReleaseDelivery(r) \/ Settle(r)
      BY <3>2, EndingKeeps DEF Unlock, ReleaseDelivery, Settle
    <3> QED BY <2>3, <3>1, <3>2 DEF Finishing
  <2> QED BY <1>1, <2>1, <2>2, <2>3 DEF Progress
<1>2. CASE \E r \in Requests, k \in Work :
               ReceiveDelivery(r, k) \/ StartRelay(r, k) \/ StartCommand(r, k)
  BY <1>2, BeginningKeeps
<1> QED BY <1>0, <1>1, <1>2, AroundKeeps DEF Next, Redeliver, RedeliverStaff, Work

\* The copies stand to the document as they must in every reachable state.
THEOREM CopyInvariance == Spec => []CopyInv
<1>1. Init => CopyInv
  <2> SUFFICES ASSUME Init PROVE Copies
    BY InvInit DEF CopyInv
  <2>1. /\ NewConversation \in Conversation /\ NewConversation.rev <= NewConversation.rev
        /\ "idle" \notin CopySteps
    BY NewConversationType DEF NewConversation, CopySteps
  <2> QED BY <2>1, CopyRests DEF Init, Copies, NewTurn
<1> QED BY <1>1, CopyNext, PTL DEF Spec

\* The steps that write the conversation document: a save by the holder of the
\* lock that no native reply overtook, a recorded native reply, and time.
LEMMA Writers ==
    ASSUME CopyInv, [Next]_vars
    PROVE  \/ stored'.state = stored.state
           \/ stored'.state = "human_active"
           \/ \E r \in Requests : /\ pc[r] \in CopySteps /\ ~Conflict(r)
                                  /\ stored'.state = turn[r].conv.state
<1> DEFINE Wrote(r) == /\ pc[r] \in CopySteps /\ ~Conflict(r)
                       /\ stored'.state = turn[r].conv.state
           Goal == \/ stored'.state = stored.state
                   \/ stored'.state = "human_active"
                   \/ \E r \in Requests : Wrote(r)
<1>0. TypeOK /\ stored \in Conversation
  BY DEF CopyInv, Inv, TypeOK
<1>1. ASSUME NEW r \in Requests, Progress(r) \/ Failing(r) PROVE Goal
  <2>1. turn[r].conv \in Conversation
    BY <1>0 DEF TypeOK, Turn
  <2>2. [turn[r].conv EXCEPT !.age = 0].state = turn[r].conv.state
    BY <2>1 DEF Conversation
  <2>3. CASE \/ SaveOpened(r) \/ SaveOutage(r) \/ WithdrawConsent(r) \/ SaveAnswered(r)
             \/ StoreChoices(r) \/ Fold(r) \/ SaveTakeover(r) \/ RecordRelay(r)
             \/ SaveCommand(r) \/ SaveAckLost(r)
    <3>1. UNCHANGED stored \/ Wrote(r)
      BY <2>2, <2>3
         DEF SaveOpened, SaveOutage, WithdrawConsent, SaveAnswered, SaveStep, StoreChoices, Fold,
             BestEffortSave, SaveTakeover, RecordRelay, SaveCommand, SaveAckLost, Save, CopySteps
    <3> QED BY <3>1
  <2>4. CASE Failing(r)
    BY <1>0, <2>3, <2>4, StillFailing DEF Still, stores
  <2>5. CASE Handling(r) \/ Answering(r) \/ Staffing(r)
    <3>1. CASE FindChannelOut(r) \/ HandOver(r) \/ RequestHandoff(r) \/ UnknownChange(r)
               \/ ActivateTurn(r) \/ LoadConversation(r)
      BY <3>1 DEF FindChannelOut, HandOver, RequestHandoff, UnknownChange, ActivateTurn,
                  LoadConversation, stores
    <3> QED BY <1>0, <2>3, <2>5, <3>1, StillTurning
            DEF Handling, Answering, Staffing, Still
  <2>6. CASE Finishing(r)
    BY <2>6 DEF Finishing, Complete, Unlock, UnlockThenSettle, ReleaseDelivery, Settle
  <2> QED BY <1>1, <2>4, <2>5, <2>6 DEF Progress
<1>2. CASE \E e \in Echoes : RecordExternalReply(e)
  BY <1>0, <1>2 DEF RecordExternalReply, ObserveExternalReply, Conversation
<1>3. CASE Tick
  BY <1>0, <1>3 DEF Tick, Older, Conversation
<1>4. CASE \/ \E e \in Echoes : StaffWriteNatively(e)
           \/ \E i \in Instances : Crash(i)
           \/ UNCHANGED vars
           \/ \E r \in Requests, k \in Work :
                 ReceiveDelivery(r, k) \/ StartRelay(r, k) \/ StartCommand(r, k)
  BY <1>4 DEF StaffWriteNatively, Crash, ReceiveDelivery, StartRelay, StartCommand, vars, stores
<1>5. Goal
  BY <1>1, <1>2, <1>3, <1>4 DEF Next, Redeliver, RedeliverStaff, Work
<1> QED BY <1>5

\* A colleague's takeover, by a relayed reply, a command or a native reply, is
\* undone by no stale Save of another request: only "resume" ends it, or its own
\* time limit.
THEOREM TakeoversHold == Spec => TakeoverHolds
<1> DEFINE Kept ==
      stored.state = "human_active" /\ stored'.state # "human_active" =>
          \/ stored.age > HandoffTimeout
          \/ \E r \in Requests : pc[r] = "commandSaving" /\ work[r] = "resume"
<1>1. CopyInv /\ [Next]_vars => Kept
  <2> SUFFICES ASSUME CopyInv, [Next]_vars,
                      stored.state = "human_active", stored'.state # "human_active",
                      ~(stored.age > HandoffTimeout)
               PROVE  \E r \in Requests : pc[r] = "commandSaving" /\ work[r] = "resume"
    OBVIOUS
  <2>1. PICK r \in Requests : /\ pc[r] \in CopySteps /\ ~Conflict(r)
                              /\ stored'.state = turn[r].conv.state
    BY Writers
  <2>2. CopyStands(pc[r], work[r], turn[r].conv, stored)
    BY DEF CopyInv, Copies
  <2> QED BY <2>1, <2>2 DEF CopyStands, Conflict
<1>2. CopyInv /\ [Next]_vars => [Kept]_vars
  BY <1>1
<1> HIDE DEF Kept
<1>3. Spec => [][Kept]_vars
  BY <1>2, CopyInvariance, PTL DEF Spec
<1> QED BY <1>3 DEF Kept, TakeoverHolds

\* The only way to the sending of an answer.
LEMMA OnlyCheckStaffSends ==
    ASSUME TypeOK, NEW r \in Requests, NEW t \in Requests, Progress(t) \/ Failing(t),
           pc[r] # "sending", pc'[r] = "sending"
    PROVE  t = r /\ CheckStaff(r)
<1>0. pc \in [Requests -> Steps]
  BY DEF TypeOK
<1> USE <1>0 DEF Goto, request
<1>1. CASE Handling(t)
  BY <1>1 DEF Handling, RegisterTurn, Supersede, LockConversation, GiveUpWaiting, LoadConversation,
              SaveOpened, RefuseExpiredChoice, RecordInbound, FindChannelOut, SaveOutage,
              TellOutage, LeaveToStaff, Forward, WithdrawConsent, ActivateTurn, SaveStep, Telling
<1>2. CASE Answering(t)
  BY <1>2 DEF Answering, FindSuperseded, ReadHistory, ComposeAnswer, HandOver, RequestHandoff,
              UnknownChange, FindStaffReplied, SaveAnswered, Announce, RecheckTurn, CheckStaff,
              Send, SendCancelled, StoreChoices, Fold, SaveStep, Telling
<1>3. CASE Finishing(t)
  BY <1>3 DEF Finishing, Complete, Unlock, UnlockThenSettle, ReleaseDelivery, Settle, Retire
<1>4. CASE Staffing(t)
  BY <1>4 DEF Staffing, SaveTakeover, RelaySend, RecordRelay, SaveCommand
<1>5. CASE Failing(t)
  BY <1>5 DEF Failing, Fail, SendFails, SendRefused, RelaySendFails, CompleteFails, NoticeFails,
              SaveAckLost, LockAckLost, UnlockLost, Retire
<1> QED BY <1>1, <1>2, <1>3, <1>4, <1>5 DEF Progress

\* staffActive, the last check before an answer is sent, is enough: no answer of
\* the assistant passes it once the document says that a colleague has taken over.
THEOREM TakeoversSilence == Spec => TakeoverSilencesAssistant
<1> DEFINE Silent ==
      \A r \in Requests :
          work[r] \in Deliveries /\ pc[r] # "sending" /\ pc'[r] = "sending" =>
              stored.state # "human_active"
<1>1. CopyInv /\ [Next]_vars => Silent
  <2> SUFFICES ASSUME CopyInv, [Next]_vars, NEW r \in Requests,
                      pc[r] # "sending", pc'[r] = "sending"
               PROVE  stored.state # "human_active"
    OBVIOUS
  <2>0. TypeOK /\ pc \in [Requests -> Steps]
    BY DEF CopyInv, Inv, TypeOK
  <2>1. pc[r] = "checkingStaff" /\ ~Conflict(r)
    <3>1. ASSUME NEW t \in Requests, Progress(t) \/ Failing(t)
          PROVE  t = r /\ CheckStaff(r)
      BY <2>0, <3>1, OnlyCheckStaffSends
    <3>2. CASE \E t \in Requests, k \in Work :
                  ReceiveDelivery(t, k) \/ StartRelay(t, k) \/ StartCommand(t, k)
      BY <2>0, <3>2 DEF ReceiveDelivery, StartRelay, StartCommand, Begin, Goto
    <3>3. CASE \/ \E e \in Echoes : StaffWriteNatively(e) \/ RecordExternalReply(e)
               \/ \E i \in Instances : Crash(i)
               \/ Tick
               \/ UNCHANGED vars
      BY <2>0, <3>3 DEF StaffWriteNatively, RecordExternalReply, Crash, Tick, vars, request
    <3> QED BY <3>1, <3>2, <3>3 DEF Next, Redeliver, RedeliverStaff, Work, CheckStaff
  <2>2. CopyStands(pc[r], work[r], turn[r].conv, stored)
    BY DEF CopyInv, Copies
  <2>3. turn[r].conv.state = stored.state /\ turn[r].conv.state # "human_active"
    BY <2>1, <2>2 DEF CopyStands, Conflict, EqualSteps, TurnSteps
  <2> QED BY <2>3
<1>2. CopyInv /\ [Next]_vars => [Silent]_vars
  BY <1>1
<1> HIDE DEF Silent
<1>3. Spec => [][Silent]_vars
  BY <1>2, CopyInvariance, PTL DEF Spec
<1> QED BY <1>3 DEF Silent, TakeoverSilencesAssistant

(***************************************************************************)
(* A message is answered once.                                             *)
(*                                                                         *)
(* The argument, for a sender that reports an uncertain outcome: what the  *)
(* provider accepted for a message is known to the one request that holds  *)
(* its claim, until that request records the completion or is cut off.     *)
(* Only who holds a claim sends, and a completed message is never claimed  *)
(* again, so every further message follows an attempt that was cut off.    *)
(***************************************************************************)
Messages == Deliveries \cup StaffReplies

\* The steps after a message was given to the provider.
SentSteps == {"storingChoices", "folding", "completing", "relayRecording",
              "unlockThenComplete", "settling", "unlocking"}

\* A message that is done, or whose holder had an answer to it accepted.
Answered(k) == processed[k].done \/ \E r \in Holders(k) : turn[r].accepted

Tally(k) ==
    /\ sends[k] <= 1 + lost[k]
    /\ ~Answered(k) => sends[k] <= lost[k]

Marked == \A r \in Requests : turn[r].accepted => pc[r] \in SentSteps

\* The inductive invariant.
CountInv == Inv /\ Marked /\ \A k \in Messages : Tally(k)

\* The requests that hold a message are those that work on it.
LEMMA HoldersOfMessage ==
    \A k \in Messages : Holders(k) = {r \in Requests : work[r] = k /\ pc[r] \notin {"idle", "unlocking"}}
BY ConversationAssumption DEF Holders, Messages

\* A step that sends nothing, cuts nothing off and keeps what is answered.
Keeping(r) ==
    /\ UNCHANGED <<sends, lost>>
    /\ \A k \in Messages : processed[k].done => processed'[k].done
    /\ \A t \in Requests \ {r} :
          pc'[t] = pc[t] /\ work'[t] = work[t] /\ turn'[t].accepted = turn[t].accepted
    /\ turn'[r].accepted => turn[r].accepted /\ (pc[r] \in SentSteps => pc'[r] \in SentSteps)
    /\ turn[r].accepted /\ pc[r] \notin {"idle", "unlocking"} /\ work[r] \in Messages =>
          \/ processed'[work[r]].done
          \/ turn'[r].accepted /\ work'[r] = work[r] /\ pc'[r] \notin {"idle", "unlocking"}

\* The tally of a message whose counts a step does not change.
LEMMA TallyStays ==
    ASSUME TypeOK, NEW k \in Messages, Tally(k), Answered(k) => Answered(k)',
           UNCHANGED <<sends, lost>>
    PROVE  Tally(k)'
BY DEF Tally

LEMMA KeepingCounts ==
    ASSUME CountInv, NEW r \in Requests, Keeping(r)
    PROVE  Marked' /\ \A k \in Messages : Tally(k)'
<1>1. Marked'
  BY DEF CountInv, Marked, Keeping
<1>2. ASSUME NEW k \in Messages PROVE Answered(k) => Answered(k)'
  <2>1. ASSUME processed[k].done PROVE processed'[k].done
    BY <2>1 DEF Keeping
  <2>2. ASSUME NEW t \in Holders(k), turn[t].accepted
        PROVE  processed'[k].done \/ (t \in Holders(k)' /\ turn'[t].accepted)
    <3>1. t \in Requests /\ work[t] = k /\ pc[t] \notin {"idle", "unlocking"}
      BY HoldersOfMessage
    <3>2. work'[t] = k /\ pc'[t] \notin {"idle", "unlocking"} => t \in Holders(k)'
      BY <3>1, ConversationAssumption DEF Holders, Messages
    <3>3. CASE t = r
      BY <2>2, <3>1, <3>2, <3>3 DEF Keeping
    <3>4. CASE t # r
      BY <2>2, <3>1, <3>2, <3>4 DEF Keeping
    <3> QED BY <3>3, <3>4
  <2> QED BY <2>1, <2>2 DEF Answered
<1>3. ASSUME NEW k \in Messages PROVE Tally(k)'
  BY <1>2, TallyStays DEF CountInv, Inv, Keeping
<1> QED BY <1>1, <1>3

\* What no operation of the claim store does: take up a completed message.
LEMMA DoneStays ==
    ASSUME TypeOK, NEW r \in Requests, NEW k \in Keys, Touches(r, k)
    PROVE  \A j \in Keys : processed[j].done => processed'[j].done
BY DEF TypeOK, Touches, Claimable, CompleteEntry, ReleaseEntry, Completed, Entry

\* Quiet steps keep the count, but for the sending ones.
LEMMA QuietCounts ==
    ASSUME TypeOK, NEW r \in Requests, QuietMove(r), UNCHANGED <<sends, lost>>,
           \A t \in Requests : turn'[t].accepted = turn[t].accepted,
           pc[r] \in SentSteps => pc'[r] \in SentSteps
    PROVE  Keeping(r)
BY DEF TypeOK, QuietMove, Keeping

\* The provider accepts a message.
LEMMA AcceptingCounts ==
    ASSUME CountInv, TypeOK', NEW r \in Requests, QuietMove(r), Accept(r), UNCHANGED lost,
           work[r] \in Messages, pc[r] \notin SentSteps, pc'[r] \in SentSteps
    PROVE  Marked' /\ \A k \in Messages : Tally(k)'
<1> PICK m \in Messages : m = work[r]
  OBVIOUS
<1>0. /\ TypeOK /\ Inv /\ m \in Keys /\ ~turn[r].accepted
      /\ sends \in [Messages -> Nat] /\ lost \in [Messages -> Nat]
  BY DEF CountInv, Inv, TypeOK, Keys, Messages, Marked
<1>1. /\ turn'[r].accepted
      /\ \A t \in Requests \ {r} : turn'[t].accepted = turn[t].accepted
      /\ sends' = [sends EXCEPT ![m] = @ + 1]
  BY <1>0 DEF Accept, TypeOK, Turn
<1>2. Marked'
  BY <1>0, <1>1 DEF CountInv, Marked, QuietMove, TypeOK
<1>3. UNCHANGED processed /\ \A k \in Keys : Holders(k)' = Holders(k)
  BY <1>0 DEF QuietMove, Holders, TypeOK
<1>4. r \in Holders(m)
  BY HoldersOfMessage DEF QuietMove
<1>5. Holders(m) = {r} /\ ~processed[m].done
  BY <1>0, <1>4, OneHolder
<1>6. ~Answered(m) /\ Answered(m)'
  BY <1>0, <1>1, <1>3, <1>4, <1>5 DEF Answered
<1>7. Tally(m)'
  <2>1. sends[m] <= lost[m] /\ sends'[m] = sends[m] + 1 /\ lost'[m] = lost[m]
    BY <1>0, <1>1, <1>6 DEF CountInv, Tally
  <2>2. sends[m] \in Nat /\ lost[m] \in Nat
    BY <1>0
  <2> QED BY <1>6, <2>1, <2>2 DEF Tally
<1>8. ASSUME NEW k \in Messages, k # m PROVE Tally(k)'
  <2>1. k \in Keys /\ r \notin Holders(k)
    BY <1>8, HoldersOfMessage DEF Keys, Messages
  <2>2. Answered(k)' <=> Answered(k)
    BY <1>1, <1>3, <2>1 DEF Answered, Holders
  <2>3. sends'[k] = sends[k] /\ lost'[k] = lost[k]
    BY <1>0, <1>1, <1>8
  <2> QED BY <2>2, <2>3 DEF CountInv, Tally
<1> QED BY <1>2, <1>7, <1>8

\* The sending steps.
Sending(r) ==
    \/ RefuseExpiredChoice(r) \/ Send(r) \/ RelaySend(r)
    \/ (SendCancelled(r) \/ SendFails(r) \/ RelaySendFails(r)) /\ Accept(r)

LEMMA SendingCounts ==
    ASSUME CountInv, TypeOK', SendErrorsClassified, NEW r \in Requests, Sending(r)
    PROVE  Marked' /\ \A k \in Messages : Tally(k)'
<1>0. /\ Inv /\ TypeOK /\ WorkOfStep /\ pc \in [Requests -> Steps]
  BY DEF CountInv, Inv, TypeOK
<1>1. QuietMove(r)
  BY <1>0, QuietHandling, QuietAnswering, QuietStaffing, QuietFailing
     DEF Sending, Handling, Answering, Staffing, Failing, LockConversation, SaveCommand, CompleteFails,
         LockAckLost, UnlockLost, UnlockSteps, RefuseExpiredChoice, Send, RelaySend, SendCancelled,
         SendFails, RelaySendFails
<1>2. Accept(r) /\ UNCHANGED lost
  BY DEF Sending, RefuseExpiredChoice, Send, RelaySend, SendCancelled, SendFails, RelaySendFails
<1>3. /\ pc[r] \in {"receiving", "sending", "relaySending"}
      /\ pc'[r] \in {"completing", "storingChoices", "folding", "unlockThenComplete", "relayRecording"}
  BY <1>0 DEF Sending, RefuseExpiredChoice, Send, RelaySend, SendCancelled, SendFails,
              RelaySendFails, Goto
<1>4. work[r] \in Messages
  BY <1>0, <1>3, DeliveryStepNames DEF WorkOfStep, RelaySteps, Messages
<1> QED BY <1>1, <1>2, <1>3, <1>4, AcceptingCounts DEF SentSteps

\* The other steps of a turn send nothing.
LEMMA TurningCounts ==
    ASSUME CountInv, SendErrorsClassified, NEW r \in Requests,
           Handling(r) \/ Answering(r) \/ Staffing(r), ~Sending(r), QuietMove(r)
    PROVE  Keeping(r)
<1>0. TypeOK /\ pc \in [Requests -> Steps] /\ turn \in [Requests -> Turn]
  BY DEF CountInv, Inv, TypeOK
<1>1. SUFFICES /\ UNCHANGED <<sends, lost>>
               /\ \A t \in Requests : turn'[t].accepted = turn[t].accepted
               /\ pc[r] \in SentSteps => pc'[r] \in SentSteps
  BY <1>0, QuietCounts
<1> USE <1>0 DEF SentSteps, Goto, stores, request, bounds, history
<1>2. CASE Handling(r)
  <2>1. CASE Supersede(r) \/ LoadConversation(r) \/ FindChannelOut(r) \/ ActivateTurn(r)
    BY <2>1 DEF Supersede, LoadConversation, FindChannelOut, ActivateTurn, Turn
  <2>2. CASE RegisterTurn(r) \/ LockConversation(r) \/ GiveUpWaiting(r) \/ RecordInbound(r)
             \/ LeaveToStaff(r)
    BY <2>2 DEF RegisterTurn, LockConversation, GiveUpWaiting, RecordInbound, LeaveToStaff
  <2>3. CASE SaveOpened(r) \/ SaveOutage(r) \/ WithdrawConsent(r)
    BY <2>3 DEF SaveOpened, SaveOutage, WithdrawConsent, SaveStep
  <2>4. CASE TellOutage(r) \/ Forward(r)
    BY <2>4 DEF TellOutage, Forward, Telling
  <2> QED BY <1>2, <2>1, <2>2, <2>3, <2>4 DEF Handling, Sending
<1>3. CASE Answering(r)
  <2>1. CASE ReadHistory(r) \/ HandOver(r) \/ RequestHandoff(r) \/ UnknownChange(r)
    BY <2>1 DEF ReadHistory, HandOver, RequestHandoff, UnknownChange, HandCopyOver, Turn
  <2>2. CASE FindSuperseded(r) \/ ComposeAnswer(r) \/ FindStaffReplied(r) \/ RecheckTurn(r)
             \/ CheckStaff(r)
    BY <2>2 DEF FindSuperseded, ComposeAnswer, FindStaffReplied, RecheckTurn, CheckStaff
  <2>3. CASE SaveAnswered(r) \/ StoreChoices(r) \/ Fold(r)
    BY <2>3 DEF SaveAnswered, SaveStep, StoreChoices, Fold, BestEffortSave
  <2>4. CASE Announce(r)
    BY <2>4 DEF Announce, Telling
  <2>5. CASE SendCancelled(r)
    BY <2>5 DEF SendCancelled, Sending
  <2> QED BY <1>3, <2>1, <2>2, <2>3, <2>4, <2>5 DEF Answering, Sending
<1>4. CASE Staffing(r)
  BY <1>4 DEF Staffing, Sending, SaveTakeover, RecordRelay, SaveCommand
<1> QED BY <1>2, <1>3, <1>4

\* Neither do most failures.
LEMMA FailuresCount ==
    ASSUME CountInv, SendErrorsClassified, NEW r \in Requests, Failing(r), ~Sending(r), QuietMove(r),
           ~CompleteFails(r)
    PROVE  Keeping(r)
<1>0. TypeOK /\ pc \in [Requests -> Steps] /\ turn \in [Requests -> Turn]
  BY DEF CountInv, Inv, TypeOK
<1>1. SUFFICES /\ UNCHANGED <<sends, lost>>
               /\ \A t \in Requests : turn'[t].accepted = turn[t].accepted
               /\ pc[r] \in SentSteps => pc'[r] \in SentSteps
  BY <1>0, QuietCounts
<1> USE <1>0 DEF SentSteps, Goto, stores, request, bounds, history
<1>2. CASE Fail(r)
  BY <1>2 DEF Fail, FailsUnlocked, FailsLocked
<1>3. CASE SendFails(r) \/ RelaySendFails(r)
  BY <1>3 DEF SendFails, RelaySendFails, MaybeAccept, Sending
<1>4. CASE SendRefused(r) \/ NoticeFails(r) \/ SaveAckLost(r)
  BY <1>4 DEF SendRefused, NoticeFails, SaveAckLost
<1>5. CASE LockAckLost(r) \/ UnlockLost(r)
  <2>1. CASE LockAckLost(r)
    BY <2>1 DEF LockAckLost
  <2>2. CASE UnlockLost(r)
    BY <2>2 DEF UnlockLost, UnlockSteps, QuietMove
  <2> QED BY <1>5, <2>1, <2>2
<1> QED BY <1>2, <1>3, <1>4, <1>5 DEF Failing

\* Taking and giving back, which send nothing either.
LEMMA LoudCounts ==
    ASSUME CountInv, NEW r \in Requests,
           \/ LockConversation(r) \/ LockAckLost(r) \/ SaveCommand(r) \/ Finishing(r) \/ UnlockLost(r)
    PROVE  Keeping(r)
<1>0. /\ Inv /\ TypeOK /\ WorkOfStep /\ pc \in [Requests -> Steps] /\ turn \in [Requests -> Turn]
      /\ work \in [Requests -> Work \cup {NoWork}] /\ processed \in [Keys -> Entry]
      /\ Lock \in Keys /\ Messages \subseteq Keys /\ Lock \notin Messages
      /\ Messages \cap Commands = {} /\ Work = Messages \cup Commands
      /\ turn[r].accepted => pc[r] \in SentSteps
  BY ConversationAssumption DEF CountInv, Marked, Inv, TypeOK, Keys, Messages, Work
<1>1. pc[r] # "idle" => work[r] \in Work
  BY <1>0 DEF WorkOfStep
<1>2. /\ pc[r] = "commandSaving" => work[r] \in Commands
      /\ pc[r] = "completing" => work[r] \in Deliveries
  BY <1>0, DeliveryStepNames DEF WorkOfStep
<1>3. pc[r] \notin {"idle", "unlocking"} /\ work[r] \in Messages =>
          processed[work[r]].owner = r /\ ~processed[work[r]].done
  BY <1>0 DEF Inv, LeaseCoversRequest, HoldsClaim, Messages
<1>4. UNCHANGED <<sends, lost>>
  BY DEF LockConversation, LockAckLost, SaveCommand, Finishing, Complete, Unlock, UnlockThenSettle,
         ReleaseDelivery, Settle, UnlockLost, history
<1>5. CASE LockConversation(r) \/ LockAckLost(r)
  <2>1. /\ Touches(r, Lock) /\ UNCHANGED <<work, turn>>
        /\ pc[r] = "locking" /\ \A t \in Requests \ {r} : pc'[t] = pc[t]
    BY <1>0, <1>5 DEF LockConversation, LockAckLost, Touches, Goto
  <2>2. \A k \in Messages : processed[k].done => processed'[k].done
    BY <1>0, <2>1, DoneStays
  <2> QED BY <1>0, <1>4, <2>1, <2>2 DEF Keeping, SentSteps
<1>6. CASE SaveCommand(r)
  <2>1. /\ UNCHANGED <<work, turn, processed>>
        /\ pc[r] = "commandSaving" /\ \A t \in Requests \ {r} : pc'[t] = pc[t]
    BY <1>0, <1>6 DEF SaveCommand, Goto
  <2> QED BY <1>0, <1>4, <2>1 DEF Keeping, SentSteps
<1>7. CASE Complete(r)
  <2>1. /\ processed' = [processed EXCEPT ![work[r]] = CompleteEntry(@, r)]
        /\ UNCHANGED <<work, turn>>
        /\ pc[r] = "completing" /\ \A t \in Requests \ {r} : pc'[t] = pc[t]
        /\ pc'[r] = "unlocking"
    BY <1>0, <1>7 DEF Complete, Goto
  <2>2. work[r] \in Messages /\ work[r] \in Keys
    BY <1>0, <1>2, <2>1 DEF Messages
  <2>3. processed'[work[r]].done
    BY <1>0, <1>3, <2>1, <2>2 DEF CompleteEntry, Completed
  <2>4. \A k \in Messages : processed[k].done => processed'[k].done
    BY <1>0, <2>1, <2>2, DoneStays DEF Touches
  <2> QED BY <1>0, <1>4, <2>1, <2>3, <2>4 DEF Keeping, SentSteps
<1>8. CASE UnlockThenSettle(r) \/ (UnlockLost(r) /\ pc[r] # "unlocking")
  <2>1. /\ Touches(r, Lock) \/ UNCHANGED processed
        /\ UNCHANGED <<work, turn>>
        /\ \A t \in Requests \ {r} : pc'[t] = pc[t]
        /\ \/ pc[r] = "unlockThenRelease" /\ pc'[r] = "releasing"
           \/ pc[r] = "unlockThenComplete" /\ pc'[r] = "settling"
    BY <1>0, <1>8 DEF UnlockThenSettle, UnlockLost, UnlockSteps, Goto, Touches, stores
  <2>2. \A k \in Messages : processed[k].done => processed'[k].done
    BY <1>0, <2>1, DoneStays
  <2> QED BY <1>0, <1>4, <2>1, <2>2 DEF Keeping, SentSteps
<1>9. CASE \/ Unlock(r) \/ ReleaseDelivery(r) \/ Settle(r)
           \/ UnlockLost(r) /\ pc[r] = "unlocking"
  <2>1. /\ \A t \in Requests \ {r} : pc'[t] = pc[t] /\ work'[t] = work[t] /\ turn'[t] = turn[t]
        /\ ~turn'[r].accepted
    BY <1>0, <1>9 DEF Unlock, ReleaseDelivery, Settle, UnlockLost, Retire, Goto, NewTurn
  <2>2. \E k \in Keys : Touches(r, k) \/ UNCHANGED processed
    BY <1>0, <1>1, <1>9
       DEF Unlock, ReleaseDelivery, Settle, UnlockLost, Touches, stores
  <2>3. \A k \in Messages : processed[k].done => processed'[k].done
    BY <1>0, <2>2, DoneStays
  <2>4. CASE Settle(r) /\ work[r] \in Messages
    <3>1. /\ pc[r] = "settling" /\ work[r] \in Keys
          /\ processed' = [processed EXCEPT ![work[r]] = CompleteEntry(@, r)]
      BY <1>0, <2>4 DEF Settle
    <3>2. processed'[work[r]].done
      BY <1>0, <1>3, <2>4, <3>1 DEF CompleteEntry, Completed
    <3> QED BY <1>4, <2>1, <2>3, <3>2 DEF Keeping
  <2>5. CASE pc[r] \in {"unlocking", "releasing"} \/ work[r] \notin Messages
    BY <1>0, <1>4, <2>1, <2>3, <2>5 DEF Keeping, SentSteps
  <2>6. Settle(r) \/ pc[r] \in {"unlocking", "releasing"}
    BY <1>9 DEF Unlock, ReleaseDelivery
  <2> QED BY <2>4, <2>5, <2>6
<1> QED BY <1>5, <1>6, <1>7, <1>8, <1>9 DEF Finishing

\* Attempts that are cut off: what the provider accepted for them is forgotten,
\* and counted as lost.
LEMMA LosingCounts ==
    ASSUME CountInv, TypeOK', NEW gone \in SUBSET Requests,
           Forgets({r \in gone : pc[r] # "unlocking"}),
           UNCHANGED <<processed, sends>>,
           \A t \in Requests \ gone : pc'[t] = pc[t] /\ work'[t] = work[t] /\ turn'[t] = turn[t],
           \A t \in gone : turn'[t].accepted => turn[t].accepted /\ pc'[t] \in SentSteps
    PROVE  Marked' /\ \A k \in Messages : Tally(k)'
<1>0. /\ TypeOK /\ sends \in [Messages -> Nat] /\ lost \in [Messages -> Nat]
  BY DEF CountInv, Inv, TypeOK, Messages
<1>1. Marked'
  BY DEF CountInv, Marked
<1>2. ASSUME NEW k \in Messages PROVE Tally(k)'
  <2>1. /\ Tally(k) /\ sends'[k] = sends[k] /\ sends[k] \in Nat /\ lost[k] \in Nat
    BY <1>0 DEF CountInv
  <2>2. CASE \E t \in gone : pc[t] # "unlocking" /\ turn[t].accepted /\ work[t] = k
    <3>1. lost'[k] = lost[k] + 1
      BY <1>0, <2>2 DEF Forgets
    <3> QED BY <2>1, <3>1 DEF Tally
  <2>3. CASE ~ \E t \in gone : pc[t] # "unlocking" /\ turn[t].accepted /\ work[t] = k
    <3>1. lost'[k] = lost[k]
      BY <1>0, <2>3 DEF Forgets
    <3>2. Answered(k) => Answered(k)'
      <4> SUFFICES ASSUME NEW t \in Holders(k), turn[t].accepted
                   PROVE  t \in Holders(k)' /\ turn'[t].accepted
        BY DEF Answered
      <4>1. t \in Requests \ gone
        BY <2>3, HoldersOfMessage
      <4> QED BY <4>1, HoldersOfMessage, ConversationAssumption DEF Holders, Messages
    <3> QED BY <2>1, <3>1, <3>2 DEF Tally
  <2> QED BY <2>2, <2>3
<1> QED BY <1>1, <1>2

LEMMA CutOffCounts ==
    ASSUME CountInv, TypeOK',
           (\E r \in Requests : CompleteFails(r)) \/ (\E i \in Instances : Crash(i))
    PROVE  Marked' /\ \A k \in Messages : Tally(k)'
<1>0. /\ pc \in [Requests -> Steps] /\ turn \in [Requests -> Turn]
      /\ work \in [Requests -> Work \cup {NoWork}]
  BY DEF CountInv, Inv, TypeOK
<1>1. ASSUME NEW r \in Requests, CompleteFails(r)
      PROVE  Marked' /\ \A k \in Messages : Tally(k)'
  <2>1. /\ pc[r] \in {"completing", "settling"}
        /\ Forgets({r}) /\ UNCHANGED <<processed, sends>>
    BY <1>1 DEF CompleteFails, stores
  <2>2. {t \in {r} : pc[t] # "unlocking"} = {r}
    BY <2>1
  <2>3. /\ \A t \in Requests \ {r} : pc'[t] = pc[t] /\ work'[t] = work[t] /\ turn'[t] = turn[t]
        /\ turn'[r].accepted => turn[r].accepted /\ pc'[r] \in SentSteps
    BY <1>0, <1>1 DEF CompleteFails, Retire, Goto, NewTurn, SentSteps
  <2> QED BY <2>1, <2>2, <2>3, LosingCounts
<1>2. ASSUME NEW i \in Instances, Crash(i)
      PROVE  Marked' /\ \A k \in Messages : Tally(k)'
  <2> DEFINE gone == {r \in Requests : InstanceOf[r] = i /\ pc[r] # "idle"}
  <2>1. /\ Forgets({r \in gone : pc[r] # "unlocking"}) /\ UNCHANGED <<processed, sends>>
    BY <1>2 DEF Crash, stores
  <2>2. /\ \A t \in Requests \ gone : pc'[t] = pc[t] /\ work'[t] = work[t] /\ turn'[t] = turn[t]
        /\ \A t \in gone : ~turn'[t].accepted
    BY <1>2 DEF Crash, NewTurn
  <2>3. gone \in SUBSET Requests
    OBVIOUS
  <2> HIDE DEF gone
  <2> QED BY <2>1, <2>2, <2>3, LosingCounts
<1> QED BY <1>1, <1>2

\* Requests that begin.
LEMMA BeginningCounts ==
    ASSUME CountInv, NEW r \in Requests, NEW k \in Work,
           \/ k \in Deliveries /\ ReceiveDelivery(r, k)
           \/ k \in StaffReplies /\ StartRelay(r, k)
           \/ k \in Commands /\ StartCommand(r, k)
    PROVE  Keeping(r)
<1>0. /\ TypeOK /\ pc \in [Requests -> Steps] /\ turn \in [Requests -> Turn]
      /\ work \in [Requests -> Work \cup {NoWork}] /\ Messages \subseteq Keys
      /\ (Deliveries \cup StaffReplies) \cap Commands = {} /\ Deliveries \cap StaffReplies = {}
  BY ConversationAssumption DEF CountInv, Inv, TypeOK, Keys, Messages
<1>1. /\ Fresh(r) /\ UNCHANGED <<sends, lost>>
      /\ UNCHANGED processed \/ (k \in Messages /\ Touches(r, k))
      /\ Begin(r, k, "registering") \/ Begin(r, k, "locking")
  BY DEF ReceiveDelivery, StartRelay, StartCommand, Touches, history, stores, Messages
<1>2. \A j \in Messages : processed[j].done => processed'[j].done
  BY <1>0, <1>1, DoneStays
<1>3. /\ \A t \in Requests \ {r} : pc'[t] = pc[t] /\ work'[t] = work[t] /\ turn'[t] = turn[t]
      /\ ~turn'[r].accepted /\ pc[r] = "idle"
  BY <1>0, <1>1 DEF Begin, Goto, NewTurn, Fresh
<1> QED BY <1>1, <1>2, <1>3 DEF Keeping

\* Native replies and time.
LEMMA AroundCounts ==
    ASSUME CountInv,
           \/ \E e \in Echoes : StaffWriteNatively(e) \/ RecordExternalReply(e)
           \/ Tick
           \/ UNCHANGED vars
    PROVE  Marked' /\ \A k \in Messages : Tally(k)'
<1>0. /\ TypeOK /\ turn \in [Requests -> Turn] /\ processed \in [Keys -> Entry]
      /\ Messages \subseteq Keys
  BY DEF CountInv, Inv, TypeOK, Keys, Messages
<1>1. UNCHANGED <<pc, work, sends, lost>>
  BY DEF StaffWriteNatively, RecordExternalReply, Tick, vars, request, history
<1>2. \A r \in Requests : turn'[r].accepted = turn[r].accepted
  BY <1>0 DEF StaffWriteNatively, RecordExternalReply, Tick, vars, request, Turn
<1>3. \A k \in Messages : processed'[k].done = processed[k].done
  BY <1>0 DEF StaffWriteNatively, RecordExternalReply, Tick, vars, stores, Elapsed, Entry
<1>4. Marked'
  BY <1>1, <1>2 DEF CountInv, Marked
<1>5. ASSUME NEW k \in Messages PROVE Answered(k) => Answered(k)'
  BY <1>1, <1>2, <1>3 DEF Answered, Holders
<1>6. ASSUME NEW k \in Messages PROVE Tally(k)'
  BY <1>0, <1>1, <1>5, TallyStays DEF CountInv
<1> QED BY <1>4, <1>6

\* Every step keeps the count.
LEMMA CountNext ==
    ASSUME SendErrorsClassified, CountInv, [Next]_vars
    PROVE  CountInv'
<1> DEFINE Goal == Marked' /\ \A k \in Messages : Tally(k)'
<1>0. Inv' /\ TypeOK' /\ Inv /\ TypeOK /\ WorkOfStep
  BY InvNext DEF CountInv, Inv
<1> SUFFICES Goal
  BY <1>0 DEF CountInv
<1>1. ASSUME NEW r \in Requests, Progress(r) \/ Failing(r) PROVE Goal
  <2>1. CASE Sending(r)
    BY <1>0, <2>1, SendingCounts
  <2>2. CASE CompleteFails(r)
    BY <1>0, <2>2, CutOffCounts
  <2>3. CASE LockConversation(r) \/ LockAckLost(r) \/ SaveCommand(r) \/ Finishing(r)
             \/ UnlockLost(r)
    BY <2>3, LoudCounts, KeepingCounts
  <2>4. CASE /\ ~Sending(r) /\ ~CompleteFails(r)
             /\ ~(LockConversation(r) \/ LockAckLost(r) \/ SaveCommand(r) \/ Finishing(r)
                    \/ UnlockLost(r))
    <3>1. QuietMove(r)
      BY <1>0, <1>1, <2>4, QuietHandling, QuietAnswering, QuietStaffing, QuietFailing DEF Progress
    <3>2. Keeping(r)
      BY <1>1, <2>4, <3>1, TurningCounts, FailuresCount DEF Progress
    <3> QED BY <3>2, KeepingCounts
  <2> QED BY <2>1, <2>2, <2>3, <2>4
<1>2. CASE \E r \in Requests, k \in Work :
               \/ k \in Deliveries /\ ReceiveDelivery(r, k)
               \/ k \in StaffReplies /\ StartRelay(r, k)
               \/ k \in Commands /\ StartCommand(r, k)
  BY <1>2, BeginningCounts, KeepingCounts
<1> HIDE DEF Goal
<1>3. CASE \/ \E i \in Instances : Crash(i)
           \/ \E e \in Echoes : StaffWriteNatively(e) \/ RecordExternalReply(e)
           \/ Tick
           \/ UNCHANGED vars
  BY <1>0, <1>3, CutOffCounts, AroundCounts DEF Goal
<1> QED BY <1>1, <1>2, <1>3 DEF Next, Redeliver, RedeliverStaff, Work

\* With a sender that reports an uncertain outcome, a customer message is answered
\* and a colleague's message relayed at most once, plus once for each attempt that
\* was cut off between the provider accepting it and the completion being recorded.
THEOREM MessagesAnsweredOnce ==
    ASSUME SendErrorsClassified
    PROVE  Spec => []AnsweredOnce
<1>1. Init => CountInv
  <2> SUFFICES ASSUME Init PROVE Marked /\ \A k \in Messages : Tally(k)
    BY InvInit DEF CountInv
  <2>1. Marked
    BY DEF Init, Marked, NewTurn
  <2>2. \A k \in Messages : sends[k] = 0 /\ lost[k] = 0
    BY DEF Init, Messages
  <2> QED BY <2>1, <2>2 DEF Tally
<1>2. CountInv /\ [Next]_vars => CountInv'
  BY CountNext
<1>3. CountInv => AnsweredOnce
  BY DEF CountInv, Tally, AnsweredOnce, Messages
<1> QED BY <1>1, <1>2, <1>3, PTL DEF Spec

(***************************************************************************)
(* A handover is announced.                                                *)
(*                                                                         *)
(* The argument, as long as no call fails: a turn that saves a handover    *)
(* announces it next, unless a newer message cancelled the turn.  The      *)
(* message that cancelled it has not been given the conversation yet, and  *)
(* whoever handles it either finds the handover and tells staff, or finds  *)
(* it lapsed and replaces it.                                              *)
(***************************************************************************)
\* The steps of a message that has not had the conversation, those at which it
\* may still tell staff or replace the handover, those of a request that is not
\* or not yet an active turn, and those after the answer has been saved.
WaitingSteps == {"registering", "superseding", "locking", "releasing"}
AheadSteps ==
    WaitingSteps \cup {"opening", "openSaving", "receiving", "deciding", "outageSaving",
                       "forwarding", "checkingTurn", "composing", "saving", "folding"}
EarlySteps ==
    {"idle", "registering", "superseding", "locking", "opening", "openSaving", "receiving",
     "deciding", "relaySaving", "relaySending", "relayRecording", "commandSaving"}
SavedSteps == {"recheckingTurn", "checkingStaff", "sending", "storingChoices"}
TellingSteps == {"outageTelling", "announcing"}

\* A message that is still to be handled, by a request at one of the steps S.
Within(d, S) == ~processed[d].done /\ \A t \in Holders(d) : pc[t] \in S

\* Only an active turn is ever cancelled.
Early ==
    \A r \in Requests : pc[r] \in EarlySteps =>
        ~turn[r].cancelled /\ \A i \in Instances : active[i] # r

\* What cancelled a turn is waiting for the conversation.
Cancelling ==
    \A r \in Requests : pc[r] \in TurnSteps /\ turn[r].cancelled =>
        \E d \in Deliveries : Within(d, WaitingSteps)

\* What a turn t at step q owes to staff, with the document s and the notice o.
Owes(q, t, s, o) ==
    /\ q = "checkingTurn" => t.conv.state = "assistant_active"
    /\ q \in {"composing", "saving"} /\ t.conv.state = "human_requested" => t.reason
    /\ q \in SavedSteps /\ t.conv.rev = s.rev /\ s.state = "human_requested" => o # "untold"
    /\ q = "folding" /\ t.conv.rev = s.rev /\ t.conv.state = "human_requested" =>
          \/ t.cancelled
          \/ o # "untold" /\ s.state = "human_requested" /\ s.age = t.conv.age

\* Who is going to announce a handover that staff have not been told of.
Pending ==
    stored.state = "human_requested" /\ told = "untold" =>
        \/ \E r \in Requests : pc[r] \in TellingSteps
        \/ folded # {} /\ \E d \in Deliveries : Within(d, AheadSteps)

Noticed ==
    /\ Early
    /\ Cancelling
    /\ \A r \in Requests : Owes(pc[r], turn[r], stored, told)
    /\ Pending

\* The inductive invariant.
NoticeInv == CopyInv /\ (faults = 0 => Noticed)

\* A failure shows.
LEMMA FailuresShow ==
    ASSUME TypeOK, \/ \E r \in Requests : Failing(r)
                   \/ \E i \in Instances : Crash(i)
    PROVE  faults' # 0
<1>1. OneFault
  BY DEF Failing, Crash, Fail, SendFails, SendRefused, RelaySendFails, CompleteFails, NoticeFails,
         SaveAckLost, LockAckLost, UnlockLost
<1> QED BY <1>1 DEF OneFault, TypeOK

\* Nothing but a failure counts as one.
LEMMA NoFailure ==
    ASSUME \/ \E r \in Requests : Progress(r)
           \/ \E r \in Requests, k \in Work :
                 ReceiveDelivery(r, k) \/ StartRelay(r, k) \/ StartCommand(r, k)
           \/ \E e \in Echoes : StaffWriteNatively(e) \/ RecordExternalReply(e)
           \/ Tick
           \/ UNCHANGED vars
    PROVE  UNCHANGED faults
<1> USE DEF bounds, history
<1>1. ASSUME NEW r \in Requests, Handling(r) PROVE UNCHANGED faults
  BY <1>1 DEF Handling, RegisterTurn, Supersede, LockConversation, GiveUpWaiting, LoadConversation,
              SaveOpened, RefuseExpiredChoice, RecordInbound, FindChannelOut, SaveOutage,
              TellOutage, LeaveToStaff, Forward, WithdrawConsent, ActivateTurn, SaveStep, Telling
<1>2. ASSUME NEW r \in Requests, Answering(r) PROVE UNCHANGED faults
  BY <1>2 DEF Answering, FindSuperseded, ReadHistory, ComposeAnswer, HandOver, RequestHandoff,
              UnknownChange, FindStaffReplied, SaveAnswered, Announce, RecheckTurn, CheckStaff,
              Send, SendCancelled, StoreChoices, Fold, SaveStep, Telling
<1>3. ASSUME NEW r \in Requests, Finishing(r) \/ Staffing(r) PROVE UNCHANGED faults
  BY <1>3 DEF Finishing, Complete, Unlock, UnlockThenSettle, ReleaseDelivery, Settle,
              Staffing, SaveTakeover, RelaySend, RecordRelay, SaveCommand
<1>4. ASSUME NEW r \in Requests, NEW k \in Work,
             ReceiveDelivery(r, k) \/ StartRelay(r, k) \/ StartCommand(r, k)
      PROVE  UNCHANGED faults
  BY <1>4 DEF ReceiveDelivery, StartRelay, StartCommand
<1>5. CASE \/ \E e \in Echoes : StaffWriteNatively(e) \/ RecordExternalReply(e)
           \/ Tick
           \/ UNCHANGED vars
  BY <1>5 DEF StaffWriteNatively, RecordExternalReply, Tick, vars
<1> QED BY <1>1, <1>2, <1>3, <1>4, <1>5 DEF Progress

\* The waiting steps are not those of the holder of the lock, the steps of a turn are.
LEMMA StepRelations ==
    /\ WaitingSteps \subseteq AheadSteps
    /\ WaitingSteps \cap LockedSteps = {}
    /\ TurnSteps \subseteq CopySteps
    /\ TurnSteps \cap EarlySteps = {}
    /\ SavedSteps \subseteq CopySteps /\ SavedSteps \subseteq TurnSteps /\ SavedSteps \subseteq EqualSteps
    /\ "idle" \in EarlySteps /\ "idle" \notin CopySteps
BY StepKinds DEF WaitingSteps, AheadSteps, TurnSteps, CopySteps, EarlySteps, SavedSteps, EqualSteps

\* What a step of r may do to the marks of active turns.
Marking(r) ==
    /\ \A t \in Requests : turn'[t].cancelled =>
          turn[t].cancelled \/ \E i \in Instances : active[i] = t
    /\ \A t \in Requests : (\E i \in Instances : active'[i] = t) =>
          (\E i \in Instances : active[i] = t) \/ pc'[t] \notin EarlySteps
    /\ \A t \in Requests : pc'[t] \in EarlySteps => pc[t] \in EarlySteps

LEMMA MarkingKeeps ==
    ASSUME Early, NEW r \in Requests, Marking(r)
    PROVE  Early'
BY DEF Early, Marking

\* A request that ends leaves the registry of its instance.
LEMMA RetiringKeeps ==
    ASSUME TypeOK, Early, NEW r \in Requests, Retire(r)
    PROVE  Early'
<1>1. \A t \in Requests \ {r} : pc'[t] = pc[t] /\ turn'[t] = turn[t]
  BY DEF TypeOK, Retire, Goto
<1>2. ~turn'[r].cancelled
  BY DEF TypeOK, Retire, NewTurn
<1>3. \A i \in Instances : active'[i] # r /\ (active'[i] = active[i] \/ active'[i] = NoRequest)
  BY ClaimStoreAssumption DEF TypeOK, Retire
<1> QED BY <1>1, <1>2, <1>3, ClaimStoreAssumption DEF Early

\* What every step of r leaves alone, unless it ends.
Plain(r) ==
    /\ UNCHANGED active
    /\ \A t \in Requests : turn'[t].cancelled = turn[t].cancelled
    /\ \A t \in Requests \ {r} : pc'[t] = pc[t] /\ turn'[t] = turn[t]
    /\ pc'[r] \in EarlySteps => pc[r] \in EarlySteps
    /\ pc'[r] \in TurnSteps => pc[r] \in TurnSteps

\* Every step of a request but three kinds leaves the marks alone.
LEMMA PlainSteps ==
    ASSUME TypeOK, NEW r \in Requests, Progress(r)
    PROVE  Plain(r) \/ Supersede(r) \/ ActivateTurn(r) \/ Retire(r)
<1>0. pc \in [Requests -> Steps] /\ turn \in [Requests -> Turn]
  BY DEF TypeOK
<1> USE <1>0 DEF Plain, EarlySteps, TurnSteps, Goto, stores, request, bounds, history
<1>1. CASE RegisterTurn(r) \/ LockConversation(r) \/ GiveUpWaiting(r) \/ RecordInbound(r)
  BY <1>1 DEF RegisterTurn, LockConversation, GiveUpWaiting, RecordInbound
<1>2. CASE LoadConversation(r)
  BY <1>2 DEF LoadConversation, Turn
<1>3. CASE SaveOpened(r) \/ SaveOutage(r) \/ WithdrawConsent(r) \/ SaveAnswered(r)
  BY <1>3 DEF SaveOpened, SaveOutage, WithdrawConsent, SaveAnswered, SaveStep
<1>4. CASE RefuseExpiredChoice(r) \/ Send(r) \/ SendCancelled(r) \/ RelaySend(r)
  BY <1>4, AcceptsQuietly DEF RefuseExpiredChoice, Send, SendCancelled, RelaySend, Accept
<1>5. CASE FindChannelOut(r)
  BY <1>5 DEF FindChannelOut, Turn
<1>6. CASE TellOutage(r) \/ Forward(r) \/ Announce(r)
  BY <1>6 DEF TellOutage, Forward, Announce, Telling
<1>7. CASE LeaveToStaff(r) \/ FindSuperseded(r) \/ ComposeAnswer(r) \/ FindStaffReplied(r)
           \/ RecheckTurn(r) \/ CheckStaff(r)
  BY <1>7 DEF LeaveToStaff, FindSuperseded, ComposeAnswer, FindStaffReplied, RecheckTurn, CheckStaff
<1>8. CASE ReadHistory(r)
  BY <1>8 DEF ReadHistory, Turn
<1>9. CASE HandOver(r) \/ RequestHandoff(r) \/ UnknownChange(r)
  BY <1>9 DEF HandOver, RequestHandoff, UnknownChange, HandCopyOver, Turn
<1>10. CASE StoreChoices(r) \/ Fold(r) \/ Complete(r) \/ UnlockThenSettle(r)
  BY <1>10 DEF StoreChoices, Fold, Complete, UnlockThenSettle
<1>11. CASE SaveTakeover(r) \/ RecordRelay(r) \/ SaveCommand(r)
  BY <1>11 DEF SaveTakeover, RecordRelay, SaveCommand
<1>12. CASE Unlock(r) \/ ReleaseDelivery(r) \/ Settle(r)
  BY <1>12 DEF Unlock, ReleaseDelivery, Settle
<1> QED BY <1>1, <1>2, <1>3, <1>4, <1>5, <1>6, <1>7, <1>8, <1>9, <1>10, <1>11, <1>12
        DEF Progress, Handling, Answering, Finishing, Staffing

\* A newer message cancels the turn registered on its instance.
LEMMA SupersedeMarks ==
    ASSUME TypeOK, NEW r \in Requests, Supersede(r)
    PROVE  Marking(r)
<1>0. pc \in [Requests -> Steps] /\ turn \in [Requests -> Turn] /\ InstanceOf[r] \in Instances
  BY ConversationAssumption DEF TypeOK
<1>1. \A t \in Requests : turn'[t].cancelled => turn[t].cancelled \/ t = active[InstanceOf[r]]
  BY <1>0 DEF Supersede, Turn
<1>2. UNCHANGED active /\ pc[r] = "superseding" /\ pc' = [pc EXCEPT ![r] = "locking"]
  BY DEF Supersede, Goto
<1>3. "superseding" \in EarlySteps
  BY DEF EarlySteps
<1> QED BY <1>0, <1>1, <1>2, <1>3 DEF Marking

\* So does a turn that becomes the registered one.
LEMMA ActivatingMarks ==
    ASSUME TypeOK, NEW r \in Requests, ActivateTurn(r)
    PROVE  Marking(r)
<1>0. pc \in [Requests -> Steps] /\ turn \in [Requests -> Turn]
      /\ active \in [Instances -> Requests \cup {NoRequest}] /\ InstanceOf[r] \in Instances
  BY ConversationAssumption DEF TypeOK
<1>1. \A t \in Requests : turn'[t].cancelled => turn[t].cancelled \/ t = active[InstanceOf[r]]
  BY <1>0 DEF ActivateTurn, Turn
<1>2. /\ active' = [active EXCEPT ![InstanceOf[r]] = r]
      /\ pc' = [pc EXCEPT ![r] = "checkingTurn"]
  BY DEF ActivateTurn, Goto
<1>3. "checkingTurn" \notin EarlySteps
  BY DEF EarlySteps
<1> QED BY <1>0, <1>1, <1>2, <1>3 DEF Marking

\* The steps of a request keep every early one unmarked.
LEMMA EarlySteady ==
    ASSUME TypeOK, Early, NEW r \in Requests, Progress(r)
    PROVE  Early'
<1>1. CASE Plain(r)
  <2>1. Marking(r)
    BY <1>1 DEF Plain, Marking
  <2> QED BY <2>1, MarkingKeeps
<1> QED BY <1>1, PlainSteps, SupersedeMarks, ActivatingMarks, MarkingKeeps, RetiringKeeps

\* So do the others, as long as nothing fails.
LEMMA EarlyAround ==
    ASSUME TypeOK, Early,
           \/ \E r \in Requests, k \in Work :
                 ReceiveDelivery(r, k) \/ StartRelay(r, k) \/ StartCommand(r, k)
           \/ \E e \in Echoes : StaffWriteNatively(e) \/ RecordExternalReply(e)
           \/ Tick
           \/ UNCHANGED vars
    PROVE  Early'
<1>0. pc \in [Requests -> Steps] /\ turn \in [Requests -> Turn]
  BY DEF TypeOK
<1>1. ASSUME NEW r \in Requests, NEW k \in Work,
             ReceiveDelivery(r, k) \/ StartRelay(r, k) \/ StartCommand(r, k)
      PROVE  Early'
  <2>1. /\ pc[r] = "idle" /\ UNCHANGED active
        /\ turn' = [turn EXCEPT ![r] = NewTurn]
        /\ \A t \in Requests \ {r} : pc'[t] = pc[t]
    BY <1>0, <1>1 DEF ReceiveDelivery, StartRelay, StartCommand, Begin, Goto, Fresh, stores
  <2>2. NewTurn.cancelled = FALSE /\ "idle" \in EarlySteps
    BY DEF NewTurn, EarlySteps
  <2> QED BY <1>0, <2>1, <2>2 DEF Early
<1>2. CASE Tick
  <2>1. /\ UNCHANGED <<pc, active>>
        /\ \A t \in Requests : turn'[t].cancelled = turn[t].cancelled
    BY <1>0, <1>2 DEF Tick, Turn
  <2> QED BY <2>1 DEF Early
<1>3. CASE (\E e \in Echoes : StaffWriteNatively(e) \/ RecordExternalReply(e)) \/ UNCHANGED vars
  <2>1. UNCHANGED <<pc, active, turn>>
    BY <1>3 DEF StaffWriteNatively, RecordExternalReply, vars, request
  <2> QED BY <2>1 DEF Early
<1> QED BY <1>1, <1>2, <1>3

\* No request takes up a message, or a command, in the middle of its way.
LEMMA HoldersOnlyLeave ==
    ASSUME Inv, NEW r \in Requests, Progress(r), NEW d \in Deliveries
    PROVE  /\ \A t \in Requests \ {r} : pc'[t] = pc[t]
           /\ \A t \in Holders(d)' : t \in Holders(d)
<1>0. /\ TypeOK /\ WorkOfStep /\ d \in Messages /\ "idle" # "unlocking"
      /\ pc \in [Requests -> Steps] /\ work \in [Requests -> Work \cup {NoWork}]
  BY DEF Inv, TypeOK, Messages
<1>1. \/ /\ UNCHANGED work /\ pc[r] \notin {"idle", "unlocking"}
         /\ pc' = [pc EXCEPT ![r] = pc'[r]]
      \/ Retire(r)
  <2>1. CASE QuietMove(r)
    BY <2>1 DEF QuietMove
  <2>2. CASE LockConversation(r) \/ SaveCommand(r) \/ Complete(r) \/ UnlockThenSettle(r)
    BY <1>0, <2>2 DEF LockConversation, SaveCommand, Complete, UnlockThenSettle, Goto
  <2>3. CASE Unlock(r) \/ ReleaseDelivery(r) \/ Settle(r)
    BY <2>3 DEF Unlock, ReleaseDelivery, Settle
  <2> QED BY <1>0, <2>1, <2>2, <2>3, QuietHandling, QuietAnswering, QuietStaffing DEF Progress, Finishing
<1>2. /\ \A t \in Requests \ {r} : pc'[t] = pc[t] /\ work'[t] = work[t]
      /\ \/ work'[r] = work[r] /\ pc[r] \notin {"idle", "unlocking"}
         \/ pc'[r] = "idle"
  BY <1>0, <1>1 DEF Retire, Goto
<1>3. /\ Holders(d) = {t \in Requests : work[t] = d /\ pc[t] \notin {"idle", "unlocking"}}
      /\ Holders(d)' = {t \in Requests : work'[t] = d /\ pc'[t] \notin {"idle", "unlocking"}}
  BY <1>0, ConversationAssumption DEF Holders
<1> QED BY <1>2, <1>3

\* Only who completes or settles a message makes it done.
LEMMA OnlyHolderFinishes ==
    ASSUME Inv, NEW r \in Requests, Progress(r), NEW d \in Deliveries, ~processed[d].done,
           pc[r] \in {"completing", "settling"} => r \notin Holders(d)
    PROVE  ~processed'[d].done
<1>0. /\ TypeOK /\ WorkOfStep /\ processed \in [Keys -> Entry] /\ d \in Keys /\ Lock \in Keys
      /\ d # Lock /\ d \in Messages /\ Messages \subseteq Keys /\ Work = Messages \cup Commands
      /\ pc \in [Requests -> Steps]
  BY ConversationAssumption DEF Inv, TypeOK, Keys, Messages, Work
<1>1. pc[r] \in {"completing", "settling"} => work[r] # d
  BY <1>0, HoldersOfMessage
<1>2. pc[r] # "idle" => work[r] \in Work
  BY <1>0 DEF WorkOfStep
<1>3. \A e \in Entry : ~e.done => ~ReleaseEntry(e, r).done
  BY DEF Entry, ReleaseEntry, Absent
<1>4. CASE QuietMove(r)
  BY <1>4 DEF QuietMove
<1>5. CASE LockConversation(r) \/ SaveCommand(r)
  BY <1>0, <1>5 DEF LockConversation, SaveCommand
<1>6. CASE Complete(r) \/ Settle(r)
  BY <1>0, <1>1, <1>2, <1>6 DEF Complete, Settle
<1>7. CASE Unlock(r) \/ UnlockThenSettle(r) \/ ReleaseDelivery(r)
  <2>1. PICK k \in Keys : processed' \in {processed, [processed EXCEPT ![k] = ReleaseEntry(@, r)]}
    BY <1>0, <1>2, <1>7 DEF Unlock, UnlockThenSettle, ReleaseDelivery
  <2> QED BY <1>0, <1>3, <2>1
<1> QED BY <1>0, <1>4, <1>5, <1>6, <1>7, QuietHandling, QuietAnswering, QuietStaffing
        DEF Progress, Finishing

\* A message that is still to be handled stays so until its holder goes on.
LEMMA WithinStays ==
    ASSUME Inv, NEW r \in Requests, Progress(r), NEW d \in Deliveries,
           NEW S \in {WaitingSteps, AheadSteps}, Within(d, S),
           r \in Holders(d)' => pc'[r] \in S
    PROVE  Within(d, S)'
<1>1. {"completing", "settling"} \cap S = {}
  BY DEF WaitingSteps, AheadSteps
<1>2. ~processed'[d].done
  BY <1>1, OnlyHolderFinishes DEF Within
<1>3. ASSUME NEW t \in Holders(d)' PROVE pc'[t] \in S
  <2>1. t \in Holders(d) /\ t \in Requests /\ (t # r => pc'[t] = pc[t])
    BY HoldersOnlyLeave DEF Holders
  <2> QED BY <1>3, <2>1 DEF Within
<1> QED BY <1>2, <1>3 DEF Within

\* So it does when nothing of it changes hands.
LEMMA WithinAround ==
    ASSUME Inv, NEW d \in Deliveries, NEW S \in {WaitingSteps, AheadSteps}, Within(d, S),
           \/ \E r \in Requests, k \in Work :
                 ReceiveDelivery(r, k) \/ StartRelay(r, k) \/ StartCommand(r, k)
           \/ \E e \in Echoes : StaffWriteNatively(e) \/ RecordExternalReply(e)
           \/ Tick
           \/ UNCHANGED vars
    PROVE  Within(d, S)'
<1>0. /\ TypeOK /\ processed \in [Keys -> Entry] /\ d \in Keys /\ d # Lock
      /\ pc \in [Requests -> Steps] /\ work \in [Requests -> Work \cup {NoWork}]
      /\ Work \cap {NoWork} = {}
  BY ConversationAssumption DEF Inv, TypeOK, Keys, Work
<1>1. CASE (\E e \in Echoes : StaffWriteNatively(e) \/ RecordExternalReply(e)) \/ UNCHANGED vars
  BY <1>1 DEF StaffWriteNatively, RecordExternalReply, vars, stores, request, Within, Holders
<1>2. CASE Tick
  <2>1. UNCHANGED <<pc, work>> /\ processed'[d].done = processed[d].done
    BY <1>0, <1>2 DEF Tick, Elapsed, Entry
  <2> QED BY <2>1 DEF Within, Holders
<1>3. ASSUME NEW r \in Requests, NEW k \in Work,
             ReceiveDelivery(r, k) \/ StartRelay(r, k) \/ StartCommand(r, k)
      PROVE  Within(d, S)'
  <2>1. PICK q \in {"registering", "locking"} :
           pc' = [pc EXCEPT ![r] = q] /\ work' = [work EXCEPT ![r] = k]
    BY <1>3 DEF ReceiveDelivery, StartRelay, StartCommand, Begin, Goto
  <2>2. ~processed'[d].done
    <3>1. ~processed[d].done
      BY DEF Within
    <3>2. \/ UNCHANGED processed
          \/ processed' = [processed EXCEPT ![k] = ClaimedBy(r)]
      BY <1>3 DEF ReceiveDelivery, StartRelay, StartCommand, stores
    <3> QED BY <1>0, <3>1, <3>2 DEF ClaimedBy
  <2>3. ASSUME NEW t \in Holders(d)' PROVE pc'[t] \in S
    <3>1. CASE t = r
      <4>1. {"registering", "locking"} \subseteq S
        BY DEF WaitingSteps, AheadSteps
      <4> QED BY <1>0, <2>1, <3>1, <4>1
    <3>2. CASE t # r
      <4>1. t \in Holders(d) /\ pc'[t] = pc[t]
        BY <1>0, <2>1, <2>3, <3>2 DEF Holders
      <4> QED BY <4>1 DEF Within
    <3> QED BY <3>1, <3>2
  <2> QED BY <2>2, <2>3 DEF Within
<1> QED BY <1>1, <1>2, <1>3

\* A message waits as long as another request holds the conversation.
LEMMA WaitingGoesOn ==
    ASSUME Inv, NEW r \in Requests, Progress(r), NEW t \in Requests, t # r, pc[t] \in LockedSteps,
           pc[r] \in WaitingSteps
    PROVE  pc'[r] \in WaitingSteps \cup {"idle"}
<1>0. pc \in [Requests -> Steps]
  BY DEF Inv, TypeOK
<1>1. pc[r] \in {"registering", "superseding", "locking", "releasing"}
  BY DEF WaitingSteps
<1>2. ~Claimable(processed[Lock])
  <2>1. Lock \in Keys /\ t \in Holders(Lock)
    BY DEF Keys, Holders
  <2> QED BY <2>1, OneHolder
<1>3. RegisterTurn(r) \/ Supersede(r) \/ GiveUpWaiting(r) \/ ReleaseDelivery(r)
  BY <1>1, <1>2
     DEF Progress, Handling, RegisterTurn, Supersede, LockConversation, GiveUpWaiting, LoadConversation,
         SaveOpened, RefuseExpiredChoice, RecordInbound, FindChannelOut, SaveOutage, TellOutage,
         LeaveToStaff, Forward, WithdrawConsent, ActivateTurn, SaveStep, Telling,
         Answering, FindSuperseded, ReadHistory, ComposeAnswer, HandOver, RequestHandoff,
         UnknownChange, FindStaffReplied, SaveAnswered, Announce, RecheckTurn, CheckStaff,
         Send, SendCancelled, StoreChoices, Fold,
         Finishing, Complete, Unlock, UnlockThenSettle, ReleaseDelivery, Settle,
         Staffing, SaveTakeover, RelaySend, RecordRelay, SaveCommand
<1> QED BY <1>0, <1>3 DEF RegisterTurn, Supersede, GiveUpWaiting, ReleaseDelivery, Retire, Goto, WaitingSteps

\* The message that supersedes a turn waits for the conversation.
LEMMA SupersedingWaits ==
    ASSUME Inv, NEW r \in Requests, Supersede(r)
    PROVE  \E d \in Deliveries : Within(d, WaitingSteps)'
<1>0. Inv /\ TypeOK /\ WorkOfStep /\ pc \in [Requests -> Steps]
  BY DEF Inv, TypeOK
<1>1. /\ pc[r] = "superseding" /\ pc' = [pc EXCEPT ![r] = "locking"]
      /\ UNCHANGED <<processed, work>>
  BY DEF Supersede, Goto, stores
<1>2. PICK d \in Deliveries : d = work[r]
  BY <1>0, <1>1, DeliveryStepNames DEF WorkOfStep
<1>3. d \in Keys /\ d # Lock
  BY ConversationAssumption DEF Keys
<1>4. r \in Holders(d)
  BY <1>1, <1>2, <1>3 DEF Holders
<1>5. Holders(d) = {r} /\ ~processed[d].done
  BY <1>3, <1>4, OneHolder
<1>6. \A t \in Holders(d)' : t = r
  BY <1>0, <1>1, <1>3, <1>5 DEF Holders
<1> QED BY <1>0, <1>1, <1>5, <1>6 DEF Within, WaitingSteps

\* The steps of a request leave a cancelled turn with a message that waits.
LEMMA CancellingSteady ==
    ASSUME Inv, Early, Cancelling, NEW r \in Requests, Progress(r)
    PROVE  Cancelling'
<1>0. TypeOK /\ pc \in [Requests -> Steps] /\ turn \in [Requests -> Turn]
  BY DEF Inv, TypeOK
<1> SUFFICES ASSUME NEW t \in Requests, pc'[t] \in TurnSteps, turn'[t].cancelled
             PROVE  \E d \in Deliveries : Within(d, WaitingSteps)'
  BY DEF Cancelling
<1>1. CASE Supersede(r)
  BY <1>1, SupersedingWaits
<1>2. CASE ~Supersede(r)
  <2>1. pc[t] \in TurnSteps /\ turn[t].cancelled
    <3>1. CASE Plain(r)
      BY <3>1 DEF Plain
    <3>2. CASE ActivateTurn(r)
      <4>1. pc[r] = "deciding" /\ "deciding" \in EarlySteps
        BY <3>2 DEF ActivateTurn, EarlySteps
      <4>2. \A s \in Requests \ {r} : pc'[s] = pc[s]
        BY <1>0, <3>2 DEF ActivateTurn, Goto
      <4>3. t # r
        <5>1. turn'[r].cancelled = turn[r].cancelled
          BY <1>0, <3>2 DEF ActivateTurn, Turn
        <5> QED BY <4>1, <5>1 DEF Early
      <4>4. pc[r] \in LockedSteps /\ pc[t] \in LockedSteps
        BY <4>1, <4>2, <4>3, StepKinds, StepRelations, CopyStepsAreLocked
      <4> QED BY <4>3, <4>4, LockedAlone
    <3>3. CASE Retire(r)
      <4>1. t # r
        BY <1>0, <3>3, StepRelations DEF Retire, Goto
      <4> QED BY <1>0, <3>3, <4>1 DEF Retire, Goto
    <3> QED BY <1>0, <1>2, <3>1, <3>2, <3>3, PlainSteps
  <2>2. PICK d \in Deliveries : Within(d, WaitingSteps)
    BY <2>1 DEF Cancelling
  <2>3. pc[t] \in LockedSteps /\ pc[t] \notin WaitingSteps
    BY <2>1, StepRelations, CopyStepsAreLocked
  <2>4. r \in Holders(d)' => pc'[r] \in WaitingSteps
    <3> SUFFICES ASSUME r \in Holders(d)' PROVE pc'[r] \in WaitingSteps
      OBVIOUS
    <3>1. r \in Holders(d) /\ pc[r] \in WaitingSteps
      BY <2>2, HoldersOnlyLeave DEF Within
    <3>2. t # r
      BY <2>3, <3>1
    <3>3. pc'[r] # "idle"
      BY ConversationAssumption DEF Holders
    <3> QED BY <2>3, <3>1, <3>2, <3>3, WaitingGoesOn
  <2> QED BY <2>2, <2>4, WithinStays
<1> QED BY <1>1, <1>2

\* So do the others.
LEMMA CancellingAround ==
    ASSUME Inv, Cancelling,
           \/ \E r \in Requests, k \in Work :
                 ReceiveDelivery(r, k) \/ StartRelay(r, k) \/ StartCommand(r, k)
           \/ \E e \in Echoes : StaffWriteNatively(e) \/ RecordExternalReply(e)
           \/ Tick
           \/ UNCHANGED vars
    PROVE  Cancelling'
<1>0. TypeOK /\ pc \in [Requests -> Steps] /\ turn \in [Requests -> Turn]
  BY DEF Inv, TypeOK
<1> SUFFICES ASSUME NEW t \in Requests, pc'[t] \in TurnSteps, turn'[t].cancelled
             PROVE  \E d \in Deliveries : Within(d, WaitingSteps)'
  BY DEF Cancelling
<1>1. pc[t] \in TurnSteps /\ turn[t].cancelled
  <2>1. ASSUME NEW r \in Requests, NEW k \in Work,
               ReceiveDelivery(r, k) \/ StartRelay(r, k) \/ StartCommand(r, k)
        PROVE  pc[t] \in TurnSteps /\ turn[t].cancelled
    <3>1. PICK q \in {"registering", "locking"} :
             pc' = [pc EXCEPT ![r] = q] /\ turn' = [turn EXCEPT ![r] = NewTurn]
      BY <2>1 DEF ReceiveDelivery, StartRelay, StartCommand, Begin, Goto
    <3>2. {"registering", "locking"} \cap TurnSteps = {}
      BY DEF TurnSteps
    <3> QED BY <1>0, <3>1, <3>2
  <2>2. CASE Tick
    BY <1>0, <2>2 DEF Tick, Turn
  <2>3. CASE (\E e \in Echoes : StaffWriteNatively(e) \/ RecordExternalReply(e)) \/ UNCHANGED vars
    BY <2>3 DEF StaffWriteNatively, RecordExternalReply, vars, request
  <2> QED BY <2>1, <2>2, <2>3
<1>2. PICK d \in Deliveries : Within(d, WaitingSteps)
  BY <1>1 DEF Cancelling
<1> QED BY <1>2, WithinAround

\* A step of r does nothing to the turn of another request but cancel it.
LEMMA OthersTurns ==
    ASSUME TypeOK, NEW r \in Requests, Progress(r), NEW t \in Requests, t # r
    PROVE  /\ pc'[t] = pc[t]
           /\ turn'[t].conv = turn[t].conv /\ turn'[t].reason = turn[t].reason
           /\ turn[t].cancelled => turn'[t].cancelled
<1>0. pc \in [Requests -> Steps] /\ turn \in [Requests -> Turn]
  BY DEF TypeOK
<1>1. CASE Plain(r)
  BY <1>1 DEF Plain
<1>2. CASE Supersede(r)
  BY <1>0, <1>2 DEF Supersede, Goto, Turn
<1>3. CASE ActivateTurn(r)
  BY <1>0, <1>3 DEF ActivateTurn, Goto, Turn
<1>4. CASE Retire(r)
  BY <1>0, <1>4 DEF Retire, Goto
<1> QED BY <1>1, <1>2, <1>3, <1>4, PlainSteps

\* A request without the lock leaves the conversation and its notice alone.
LEMMA UnlockedLeaves ==
    ASSUME NEW r \in Requests, Progress(r), pc[r] \notin LockedSteps
    PROVE  UNCHANGED <<stored, told>>
<1>1. CASE Handling(r)
  BY <1>1, StepKinds
     DEF Handling, RegisterTurn, Supersede, LockConversation, GiveUpWaiting, LoadConversation,
         SaveOpened, RefuseExpiredChoice, RecordInbound, FindChannelOut, SaveOutage, TellOutage,
         LeaveToStaff, Forward, WithdrawConsent, ActivateTurn, SaveStep, Telling, stores, history
<1>2. CASE Answering(r)
  BY <1>2, StepKinds
     DEF Answering, FindSuperseded, ReadHistory, ComposeAnswer, HandOver, RequestHandoff,
         UnknownChange, FindStaffReplied, SaveAnswered, Announce, RecheckTurn, CheckStaff,
         Send, SendCancelled, StoreChoices, Fold, SaveStep, Telling, stores, history
<1>3. CASE Finishing(r)
  BY <1>3 DEF Finishing, Complete, Unlock, UnlockThenSettle, ReleaseDelivery, Settle, history
<1>4. CASE Staffing(r)
  BY <1>4, StepKinds DEF Staffing, SaveTakeover, RelaySend, RecordRelay, SaveCommand, stores
<1> QED BY <1>1, <1>2, <1>3, <1>4 DEF Progress

\* The steps at which a turn owes something.
OweSteps == {"checkingTurn", "composing", "saving", "folding"} \cup SavedSteps

LEMMA OwesNothing ==
    ASSUME NEW q, q \notin OweSteps, NEW t, NEW s, NEW o
    PROVE  Owes(q, t, s, o)
BY DEF OweSteps, Owes

\* What another request owes is none of r's business.
LEMMA OthersOwe ==
    ASSUME Inv, NEW r \in Requests, Progress(r), NEW t \in Requests, t # r,
           Owes(pc[t], turn[t], stored, told)
    PROVE  Owes(pc'[t], turn'[t], stored', told')
<1>0. /\ pc'[t] = pc[t]
      /\ turn'[t].conv = turn[t].conv /\ turn'[t].reason = turn[t].reason
      /\ turn[t].cancelled => turn'[t].cancelled
  BY OthersTurns DEF Inv
<1>1. CASE pc[t] \notin OweSteps
  BY <1>0, <1>1, OwesNothing
<1>2. CASE pc[t] \in OweSteps
  <2>1. pc[t] \in LockedSteps
    BY <1>2, StepKinds DEF OweSteps, SavedSteps
  <2>2. UNCHANGED <<stored, told>>
    BY <2>1, LockedAlone, UnlockedLeaves
  <2> QED BY <1>0, <2>2 DEF Owes
<1> QED BY <1>1, <1>2

\* What a turn owes, step by step.
LEMMA OwnOwing ==
    ASSUME CopyInv, ~UnknownChanges, NEW r \in Requests, Progress(r),
           Owes(pc[r], turn[r], stored, told)
    PROVE  Owes(pc'[r], turn'[r], stored', told')
<1>0. /\ TypeOK /\ pc \in [Requests -> Steps] /\ turn \in [Requests -> Turn]
      /\ turn[r].conv \in Conversation /\ stored \in Conversation
      /\ CopyStands(pc[r], work[r], turn[r].conv, stored)
  BY DEF CopyInv, Inv, TypeOK, Copies, Turn
<1>1. CASE pc'[r] \notin OweSteps
  BY <1>1, OwesNothing
<1>2. CASE ActivateTurn(r)
  <2>1. pc'[r] = "checkingTurn" /\ turn'[r].conv.state = "assistant_active"
    BY <1>0, <1>2 DEF ActivateTurn, Goto, Turn, AssistantMayReply
  <2> QED BY <2>1 DEF Owes, SavedSteps
<1>3. CASE FindSuperseded(r)
  <2>1. /\ pc'[r] = "folding" /\ turn'[r] = turn[r] /\ UNCHANGED <<stored, told>>
        /\ pc[r] \in {"checkingTurn", "recheckingTurn"} \/ turn[r].cancelled
    BY <1>0, <1>3 DEF FindSuperseded, Goto, stores, history
  <2>2. CASE pc[r] = "recheckingTurn"
    <3>1. "recheckingTurn" \in EqualSteps /\ "recheckingTurn" \in SavedSteps
      BY DEF EqualSteps, SavedSteps
    <3> QED BY <1>0, <2>1, <2>2, <3>1 DEF Owes, CopyStands, SavedSteps
  <2>3. CASE pc[r] = "checkingTurn" \/ turn[r].cancelled
    BY <2>1, <2>3 DEF Owes, SavedSteps
  <2> QED BY <2>1, <2>2, <2>3
<1>4. CASE ReadHistory(r) \/ ComposeAnswer(r)
  <2>1. /\ \/ pc[r] = "checkingTurn" /\ pc'[r] = "composing"
           \/ pc[r] = "composing" /\ pc'[r] = "saving"
        /\ turn'[r].conv = turn[r].conv /\ turn'[r].reason = turn[r].reason
    BY <1>0, <1>4 DEF ReadHistory, ComposeAnswer, Goto, Turn
  <2> QED BY <2>1 DEF Owes, SavedSteps
<1>5. CASE HandOver(r) \/ RequestHandoff(r)
  <2>1. pc'[r] \in {"composing", "saving"} /\ turn'[r].reason
    BY <1>0, <1>5 DEF HandOver, RequestHandoff, HandCopyOver, Goto, Turn
  <2> QED BY <2>1 DEF Owes, SavedSteps
<1>6. CASE SaveAnswered(r) /\ pc'[r] = "recheckingTurn"
  <2>1. pc[r] = "saving" /\ ~turn[r].reason /\ stored' = turn[r].conv
    BY <1>0, <1>6 DEF SaveAnswered, SaveStep, Save, Goto
  <2> QED BY <1>6, <2>1 DEF Owes, SavedSteps
<1>7. CASE Announce(r)
  <2>1. /\ pc'[r] = "recheckingTurn" /\ UNCHANGED stored
        /\ stored.state = "human_requested" => told' = "told"
    BY <1>0, <1>7 DEF Announce, Telling, Goto, stores
  <2> QED BY <2>1 DEF Owes, SavedSteps
<1>8. CASE RecheckTurn(r) \/ CheckStaff(r) \/ Send(r)
  <2>1. /\ pc[r] \in SavedSteps /\ pc'[r] \in SavedSteps
        /\ turn'[r].conv = turn[r].conv /\ UNCHANGED <<stored, told>>
    BY <1>0, <1>8, AcceptsQuietly DEF RecheckTurn, CheckStaff, Send, Goto, SavedSteps, stores, history
  <2> QED BY <2>1 DEF Owes, SavedSteps
<1>9. CASE SendCancelled(r)
  <2>1. pc'[r] = "folding" /\ turn'[r].cancelled
    BY <1>0, <1>9, AcceptsQuietly DEF SendCancelled, Goto
  <2> QED BY <2>1 DEF Owes, SavedSteps
<1>10. \/ pc'[r] \notin OweSteps
       \/ ActivateTurn(r) \/ FindSuperseded(r) \/ ReadHistory(r) \/ ComposeAnswer(r) \/ HandOver(r)
       \/ RequestHandoff(r) \/ (SaveAnswered(r) /\ pc'[r] = "recheckingTurn") \/ Announce(r)
       \/ RecheckTurn(r) \/ CheckStaff(r) \/ Send(r) \/ SendCancelled(r)
  <2> USE <1>0 DEF OweSteps, SavedSteps, Goto
  <2>1. CASE Handling(r)
    BY <2>1
       DEF Handling, RegisterTurn, Supersede, LockConversation, GiveUpWaiting, LoadConversation,
           SaveOpened, RefuseExpiredChoice, RecordInbound, FindChannelOut, SaveOutage, TellOutage,
           LeaveToStaff, Forward, WithdrawConsent, SaveStep, Telling
  <2>2. CASE Answering(r)
    BY <2>2 DEF Answering, UnknownChange, FindStaffReplied, SaveAnswered, StoreChoices, Fold, SaveStep
  <2>3. CASE Finishing(r) \/ Staffing(r)
    BY <2>3 DEF Finishing, Complete, Unlock, UnlockThenSettle, ReleaseDelivery, Settle, Retire,
                Staffing, SaveTakeover, RelaySend, RecordRelay, SaveCommand
  <2> QED BY <2>1, <2>2, <2>3 DEF Progress
<1> QED BY <1>1, <1>2, <1>3, <1>4, <1>5, <1>6, <1>7, <1>8, <1>9, <1>10

\* Time passes for what is owed as for everything else.
LEMMA OwingAges ==
    ASSUME NEW q, NEW t \in Turn, NEW u \in Turn, NEW s \in Conversation, NEW o, Owes(q, t, s, o),
           u.conv = Older(t.conv), u.reason = t.reason, u.cancelled = t.cancelled
    PROVE  Owes(q, u, Older(s), o)
<1>1. \A c \in Conversation : Older(c).state = c.state /\ Older(c).rev = c.rev
  BY DEF Older, Conversation
<1>2. \A c, d \in Conversation : c.state = d.state /\ c.age = d.age => Older(c).age = Older(d).age
  BY DEF Older, Conversation, AssistantMayReply
<1>3. t.conv \in Conversation
  BY DEF Turn
<1> QED BY <1>1, <1>2, <1>3 DEF Owes

\* A native reply overtakes the copies, which settles what they owed.
LEMMA OwingOvertaken ==
    ASSUME NEW q, NEW t \in Turn, NEW s \in Conversation, NEW e \in Echoes, NEW o, NEW n,
           Owes(q, t, s, o), t.conv.rev <= s.rev,
           n = IF ObserveExternalReply(s, e) = s THEN o ELSE "untold"
    PROVE  Owes(q, t, ObserveExternalReply(s, e), n)
<1>1. CASE ObserveExternalReply(s, e) = s
  BY <1>1
<1>2. CASE ObserveExternalReply(s, e) # s
  <2>1. t.conv.rev \in Nat /\ s.rev \in Nat
    BY DEF Turn, Conversation
  <2>2. ObserveExternalReply(s, e).rev # t.conv.rev
    BY <1>2, <2>1 DEF ObserveExternalReply, Conversation
  <2> QED BY <2>2 DEF Owes
<1> QED BY <1>1, <1>2

LEMMA OwingAround ==
    ASSUME CopyInv, TypeOK', NEW t \in Requests, Owes(pc[t], turn[t], stored, told),
           \/ \E r \in Requests, k \in Work :
                 ReceiveDelivery(r, k) \/ StartRelay(r, k) \/ StartCommand(r, k)
           \/ \E e \in Echoes : StaffWriteNatively(e) \/ RecordExternalReply(e)
           \/ Tick
           \/ UNCHANGED vars
    PROVE  Owes(pc'[t], turn'[t], stored', told')
<1>0. /\ pc \in [Requests -> Steps] /\ turn \in [Requests -> Turn] /\ turn'[t] \in Turn
      /\ turn[t] \in Turn /\ stored \in Conversation
      /\ turn[t].conv.rev <= stored.rev
  BY DEF CopyInv, Inv, TypeOK, Copies, CopyStands
<1>1. ASSUME NEW r \in Requests, NEW k \in Work,
             ReceiveDelivery(r, k) \/ StartRelay(r, k) \/ StartCommand(r, k)
      PROVE  Owes(pc'[t], turn'[t], stored', told')
  <2>1. /\ UNCHANGED <<stored, told>>
        /\ turn' = [turn EXCEPT ![r] = NewTurn]
        /\ \E q \in {"registering", "locking"} : pc' = [pc EXCEPT ![r] = q]
    BY <1>1 DEF ReceiveDelivery, StartRelay, StartCommand, Begin, Goto, stores, history
  <2>2. CASE t = r
    <3>1. pc'[t] \notin OweSteps
      BY <1>0, <2>1, <2>2 DEF OweSteps, SavedSteps
    <3> QED BY <3>1, OwesNothing
  <2>3. CASE t # r
    BY <1>0, <2>1, <2>3
  <2> QED BY <2>2, <2>3
<1>2. CASE Tick
  <2>1. /\ stored' = Older(stored) /\ UNCHANGED <<pc, told>>
        /\ turn'[t].conv = Older(turn[t].conv)
        /\ turn'[t].reason = turn[t].reason /\ turn'[t].cancelled = turn[t].cancelled
    BY <1>0, <1>2 DEF Tick, Turn, history
  <2> QED BY <1>0, <2>1, OwingAges
<1>3. CASE \E e \in Echoes : RecordExternalReply(e)
  BY <1>0, <1>3, OwingOvertaken DEF RecordExternalReply, request
<1>4. CASE (\E e \in Echoes : StaffWriteNatively(e)) \/ UNCHANGED vars
  BY <1>4 DEF StaffWriteNatively, vars, stores, request, history
<1> QED BY <1>1, <1>2, <1>3, <1>4

\* An echo or the passing of time takes nothing away from who is to announce.
LEMMA PendingAround ==
    ASSUME CopyInv, Pending,
           \/ \E r \in Requests, k \in Work :
                 ReceiveDelivery(r, k) \/ StartRelay(r, k) \/ StartCommand(r, k)
           \/ \E e \in Echoes : StaffWriteNatively(e) \/ RecordExternalReply(e)
           \/ Tick
           \/ UNCHANGED vars
    PROVE  Pending'
<1>0. /\ Inv /\ pc \in [Requests -> Steps] /\ stored \in Conversation
  BY DEF CopyInv, Inv, TypeOK
<1> SUFFICES ASSUME stored'.state = "human_requested", told' = "untold" PROVE Pending'
  BY DEF Pending
<1>1. /\ stored.state = "human_requested" /\ told = "untold" /\ UNCHANGED folded
      /\ \A t \in Requests : pc'[t] = pc[t] \/ pc[t] = "idle"
  <2>1. ASSUME NEW r \in Requests, NEW k \in Work,
               ReceiveDelivery(r, k) \/ StartRelay(r, k) \/ StartCommand(r, k)
        PROVE  /\ UNCHANGED <<stored, told, folded>>
               /\ \A t \in Requests : pc'[t] = pc[t] \/ pc[t] = "idle"
    BY <1>0, <2>1 DEF ReceiveDelivery, StartRelay, StartCommand, Begin, Fresh, Goto, stores, history
  <2>2. CASE \E e \in Echoes : RecordExternalReply(e)
    <3>1. PICK e \in Echoes : RecordExternalReply(e)
      BY <2>2
    <3>2. /\ UNCHANGED <<pc, folded>> /\ stored' = ObserveExternalReply(stored, e)
          /\ told' = IF stored' = stored THEN told ELSE "untold"
      BY <3>1 DEF RecordExternalReply, request
    <3>3. stored' = stored \/ stored'.state = "human_active"
      BY <1>0, <3>2 DEF ObserveExternalReply, Conversation
    <3> QED BY <3>2, <3>3
  <2>3. CASE Tick
    BY <1>0, <2>3 DEF Tick, Older, Conversation, history
  <2>4. CASE (\E e \in Echoes : StaffWriteNatively(e)) \/ UNCHANGED vars
    BY <2>4 DEF StaffWriteNatively, vars, stores, request, history
  <2> QED BY <2>1, <2>2, <2>3, <2>4
<1>2. CASE \E r \in Requests : pc[r] \in TellingSteps
  BY <1>1, <1>2 DEF Pending, TellingSteps
<1>3. CASE folded # {} /\ \E d \in Deliveries : Within(d, AheadSteps)
  <2>1. \E d \in Deliveries : Within(d, AheadSteps)'
    BY <1>0, <1>3, WithinAround
  <2> QED BY <1>1, <1>3, <2>1 DEF Pending
<1> QED BY <1>1, <1>2, <1>3 DEF Pending

\* A copy that an echo has overtaken belongs to a conversation staff took over.
LEMMA ConflictIsTakeover ==
    ASSUME CopyInv, NEW r \in Requests, pc[r] \in CopySteps, Conflict(r)
    PROVE  stored.state = "human_active"
BY DEF CopyInv, Copies, CopyStands, Conflict

\* Who might announce the handover goes on, unless the handover has been told
\* of or is no more.
LEMMA AheadGoesOn ==
    ASSUME CopyInv, NEW r \in Requests, Progress(r),
           stored.state = "human_requested", UNCHANGED <<stored, told>>, told = "untold",
           pc[r] \in AheadSteps \ {"outageSaving", "saving", "folding"}, work[r] \in Deliveries
    PROVE  pc'[r] \in AheadSteps \cup {"idle"}
<1>0. /\ pc \in [Requests -> Steps] /\ turn[r].conv \in Conversation
      /\ CopyStands(pc[r], work[r], turn[r].conv, stored)
      /\ work[r] \notin StaffReplies \cup Commands
      /\ "idle" \notin AheadSteps
  BY ConversationAssumption DEF CopyInv, Inv, TypeOK, Copies, Turn, AheadSteps, WaitingSteps
<1>1. pc[r] \in CopySteps => ~Conflict(r)
  BY ConflictIsTakeover
<1>2. {"openSaving", "receiving", "deciding", "forwarding", "composing"} \subseteq CopySteps
  BY DEF CopySteps
<1>3. pc[r] = "receiving" => ~AssistantMayReply(turn[r].conv)
  BY <1>0 DEF CopyStands, CopySteps, EqualSteps, AssistantMayReply
<1> USE DEF AheadSteps, WaitingSteps, Goto
<1>4. CASE Handling(r)
  <2>1. ~Forward(r) /\ ~RefuseExpiredChoice(r)
    BY <1>3 DEF Forward, Telling, RefuseExpiredChoice
  <2> QED BY <1>0, <1>1, <1>2, <1>4, <2>1
     DEF Handling, RegisterTurn, Supersede, LockConversation, GiveUpWaiting, LoadConversation,
         SaveOpened, RecordInbound, FindChannelOut, SaveOutage, TellOutage,
         LeaveToStaff, WithdrawConsent, ActivateTurn, SaveStep, Telling
<1>5. CASE Answering(r)
  BY <1>0, <1>1, <1>2, <1>5
     DEF Answering, FindSuperseded, ReadHistory, ComposeAnswer, HandOver, RequestHandoff,
         UnknownChange, FindStaffReplied, SaveAnswered, Announce, RecheckTurn, CheckStaff,
         Send, SendCancelled, StoreChoices, Fold, SaveStep, Telling
<1>6. CASE Finishing(r)
  BY <1>0, <1>6 DEF Finishing, Complete, Unlock, UnlockThenSettle, ReleaseDelivery, Settle, Retire
<1>7. CASE Staffing(r)
  BY <1>7 DEF Staffing, SaveTakeover, RelaySend, RecordRelay, SaveCommand
<1> QED BY <1>4, <1>5, <1>6, <1>7 DEF Progress

\* The copy a request saves on the way to its next step.
LEMMA SavingNotices ==
    ASSUME CopyInv, NEW r \in Requests, pc[r] \in CopySteps,
           stored'.state = "human_requested", told' = "untold",
           \/ Conflict(r) /\ UNCHANGED <<stored, told>>
           \/ ~Conflict(r) /\ Save(turn[r].conv)
           \/ ~Conflict(r) /\ Save([turn[r].conv EXCEPT !.age = 0])
    PROVE  /\ ~Conflict(r) /\ turn[r].conv.state = "human_requested"
           /\ (Save(turn[r].conv) /\ stored.state = "human_requested"
                  /\ stored.age = turn[r].conv.age) => told = "untold"
           /\ pc[r] \in EqualSteps => stored.state = "human_requested" /\ stored.age = turn[r].conv.age
<1>1. ~Conflict(r)
  BY ConflictIsTakeover
<1>2. turn[r].conv \in Conversation /\ CopyStands(pc[r], work[r], turn[r].conv, stored)
  BY DEF CopyInv, Inv, TypeOK, Copies, Turn
<1>3. [turn[r].conv EXCEPT !.age = 0].state = turn[r].conv.state
  BY <1>2 DEF Conversation
<1>4. turn[r].conv.state = "human_requested"
  BY <1>1, <1>3 DEF Save
<1> QED BY <1>1, <1>2, <1>4 DEF Save, CopyStands, Conflict

\* The steps after which staff have not been told of a handover.
LEMMA NoticeMoves ==
    ASSUME CopyInv, NEW r \in Requests, Progress(r), Owes(pc[r], turn[r], stored, told),
           stored'.state = "human_requested", told' = "untold"
    PROVE  \/ pc'[r] \in TellingSteps
           \/ pc[r] = "folding" /\ turn[r].cancelled /\ folded' # {}
           \/ /\ stored.state = "human_requested" /\ told = "untold"
              /\ pc[r] \notin TellingSteps
              /\ pc[r] \in AheadSteps /\ work[r] \in Deliveries => pc'[r] \in AheadSteps \cup {"idle"}
              /\ folded \subseteq folded'
<1>0. /\ TypeOK /\ pc \in [Requests -> Steps]
      /\ turn[r].conv \in Conversation
      /\ CopyStands(pc[r], work[r], turn[r].conv, stored)
      /\ {"openSaving", "outageSaving", "withdrawing", "saving", "storingChoices", "folding",
          "relaySaving", "relayRecording", "commandSaving"} \subseteq CopySteps
      /\ {"openSaving", "withdrawing", "storingChoices"} \subseteq EqualSteps
  BY DEF CopyInv, Inv, TypeOK, Copies, Turn, CopySteps, EqualSteps
<1>1. CASE SaveOutage(r)
  BY <1>0, <1>1, SavingNotices DEF SaveOutage, SaveStep, Goto, TellingSteps
<1>2. CASE SaveAnswered(r)
  <2>1. /\ pc[r] = "saving"
        /\ \/ Conflict(r) /\ UNCHANGED <<stored, told>>
           \/ /\ ~Conflict(r) /\ Save(turn[r].conv)
              /\ pc'[r] = IF turn[r].reason THEN "announcing" ELSE "recheckingTurn"
    BY <1>0, <1>2 DEF SaveAnswered, SaveStep, Goto
  <2>2. ~Conflict(r) /\ turn[r].conv.state = "human_requested"
    BY <1>0, <2>1, SavingNotices
  <2> QED BY <2>1, <2>2 DEF Owes, TellingSteps
<1>3. CASE Fold(r)
  <2>1. /\ pc[r] = "folding" /\ folded' # {}
        /\ \/ Conflict(r) /\ UNCHANGED <<stored, told>>
           \/ ~Conflict(r) /\ Save(turn[r].conv)
    BY <1>3 DEF Fold, BestEffortSave
  <2>2. /\ ~Conflict(r) /\ turn[r].conv.state = "human_requested" /\ Save(turn[r].conv)
        /\ stored.state = "human_requested" /\ stored.age = turn[r].conv.age => told = "untold"
    BY <1>0, <2>1, SavingNotices
  <2> QED BY <2>1, <2>2 DEF Owes, Conflict
<1>4. CASE TellOutage(r) \/ Forward(r) \/ Announce(r)
  BY <1>4 DEF TellOutage, Forward, Announce, Telling, stores
<1>5. CASE SaveOpened(r) \/ WithdrawConsent(r) \/ StoreChoices(r)
  <2>1. /\ \/ pc[r] = "openSaving" /\ (~Conflict(r) => pc'[r] = "receiving")
           \/ pc[r] \in {"withdrawing", "storingChoices"}
        /\ \/ Conflict(r) /\ UNCHANGED <<stored, told>>
           \/ ~Conflict(r) /\ Save(turn[r].conv)
        /\ UNCHANGED folded
    BY <1>0, <1>5 DEF SaveOpened, WithdrawConsent, StoreChoices, SaveStep, BestEffortSave, Goto
  <2>2. ~Conflict(r) /\ stored.state = "human_requested" /\ told = "untold"
    BY <1>0, <2>1, SavingNotices
  <2> QED BY <2>1, <2>2 DEF TellingSteps, AheadSteps, WaitingSteps
<1>6. CASE SaveTakeover(r) \/ RecordRelay(r) \/ SaveCommand(r)
  <2>1. /\ pc[r] \in {"relaySaving", "relayRecording", "commandSaving"}
        /\ \/ Conflict(r) /\ UNCHANGED <<stored, told>>
           \/ ~Conflict(r) /\ Save(turn[r].conv)
           \/ ~Conflict(r) /\ Save([turn[r].conv EXCEPT !.age = 0])
    BY <1>6 DEF SaveTakeover, RecordRelay, SaveCommand
  <2>2. turn[r].conv.state = "human_requested"
    BY <1>0, <2>1, SavingNotices
  <2> QED BY <1>0, <2>1, <2>2 DEF CopyStands, RelaySteps
<1>7. CASE /\ UNCHANGED <<stored, told, folded>>
           /\ pc[r] \notin TellingSteps \cup {"outageSaving", "saving", "folding"}
  BY <1>0, <1>7, AheadGoesOn
<1>8. \/ SaveOutage(r) \/ SaveAnswered(r) \/ Fold(r) \/ TellOutage(r) \/ Forward(r) \/ Announce(r)
      \/ SaveOpened(r) \/ WithdrawConsent(r) \/ StoreChoices(r)
      \/ SaveTakeover(r) \/ RecordRelay(r) \/ SaveCommand(r)
      \/ /\ UNCHANGED <<stored, told, folded>>
         /\ pc[r] \notin TellingSteps \cup {"outageSaving", "saving", "folding"}
  <2> USE DEF TellingSteps, stores, history
  <2>1. CASE Handling(r)
    BY <2>1
       DEF Handling, RegisterTurn, Supersede, LockConversation, GiveUpWaiting, LoadConversation,
           RefuseExpiredChoice, RecordInbound, FindChannelOut, LeaveToStaff, ActivateTurn
  <2>2. CASE Answering(r)
    BY <2>2
       DEF Answering, FindSuperseded, ReadHistory, ComposeAnswer, HandOver, RequestHandoff,
           UnknownChange, FindStaffReplied, RecheckTurn, CheckStaff, Send, SendCancelled
  <2>3. CASE Finishing(r) \/ Staffing(r)
    BY <2>3 DEF Finishing, Complete, Unlock, UnlockThenSettle, ReleaseDelivery, Settle,
                Staffing, RelaySend
  <2> QED BY <2>1, <2>2, <2>3 DEF Progress
<1> QED BY <1>1, <1>2, <1>3, <1>4, <1>5, <1>6, <1>7, <1>8

\* Somebody is going to announce the handover, whatever step a request takes.
LEMMA PendingSteady ==
    ASSUME CopyInv, Cancelling, Pending, NEW r \in Requests, Progress(r),
           Owes(pc[r], turn[r], stored, told)
    PROVE  Pending'
<1>0. Inv /\ pc \in [Requests -> Steps]
  BY DEF CopyInv, Inv, TypeOK
<1> SUFFICES ASSUME stored'.state = "human_requested", told' = "untold" PROVE Pending'
  BY DEF Pending
<1>1. CASE pc'[r] \in TellingSteps
  BY <1>1 DEF Pending
<1>2. CASE pc[r] = "folding" /\ turn[r].cancelled /\ folded' # {}
  <2>1. PICK d \in Deliveries : Within(d, WaitingSteps)
    BY <1>2 DEF Cancelling, TurnSteps
  <2>2. r \notin Holders(d)'
    <3>1. "folding" \notin WaitingSteps
      BY DEF WaitingSteps
    <3> QED BY <1>0, <1>2, <2>1, <3>1, HoldersOnlyLeave DEF Within
  <2>3. Within(d, WaitingSteps)'
    BY <1>0, <2>1, <2>2, WithinStays
  <2>4. Within(d, AheadSteps)'
    BY <2>3, StepRelations DEF Within
  <2> QED BY <1>2, <2>4 DEF Pending
<1>3. CASE /\ stored.state = "human_requested" /\ told = "untold"
           /\ pc[r] \notin TellingSteps
           /\ pc[r] \in AheadSteps /\ work[r] \in Deliveries => pc'[r] \in AheadSteps \cup {"idle"}
           /\ folded \subseteq folded'
  <2>1. CASE \E t \in Requests : pc[t] \in TellingSteps
    <3>1. PICK t \in Requests : pc[t] \in TellingSteps
      BY <2>1
    <3>2. t # r
      BY <1>3, <3>1
    <3>3. pc'[t] = pc[t]
      BY <1>0, <3>2, OthersTurns DEF Inv
    <3> QED BY <3>1, <3>3 DEF Pending, TellingSteps
  <2>2. CASE folded # {} /\ \E d \in Deliveries : Within(d, AheadSteps)
    <3>1. PICK d \in Deliveries : Within(d, AheadSteps)
      BY <2>2
    <3>2. r \in Holders(d)' => pc'[r] \in AheadSteps
      <4> SUFFICES ASSUME r \in Holders(d)' PROVE pc'[r] \in AheadSteps
        OBVIOUS
      <4>1. r \in Holders(d) /\ pc[r] \in AheadSteps
        BY <1>0, <3>1, HoldersOnlyLeave DEF Within
      <4>2. work[r] = d
        BY <4>1, ConversationAssumption DEF Holders
      <4>3. pc'[r] # "idle"
        BY ConversationAssumption DEF Holders
      <4> QED BY <1>3, <4>1, <4>2, <4>3
    <3>3. Within(d, AheadSteps)'
      BY <1>0, <3>1, <3>2, WithinStays
    <3> QED BY <1>3, <2>2, <3>3 DEF Pending
  <2> QED BY <1>3, <2>1, <2>2 DEF Pending
<1> QED BY <1>1, <1>2, <1>3, NoticeMoves

\* Every step keeps a handover on its way to staff, as long as nothing fails.
LEMMA NoticeNext ==
    ASSUME ~UnknownChanges, NoticeInv, [Next]_vars
    PROVE  NoticeInv'
<1>0. CopyInv /\ CopyInv' /\ Inv /\ TypeOK /\ TypeOK'
  BY CopyNext DEF NoticeInv, CopyInv, Inv
<1> SUFFICES ASSUME faults' = 0 PROVE Noticed'
  BY <1>0 DEF NoticeInv
<1>1. ASSUME NEW r \in Requests, Progress(r) PROVE Noticed'
  <2>1. Noticed
    BY <1>1, NoFailure DEF NoticeInv
  <2>2. Early /\ Cancelling /\ Pending /\ \A t \in Requests : Owes(pc[t], turn[t], stored, told)
    BY <2>1 DEF Noticed
  <2>3. Early' /\ Cancelling' /\ Pending'
    BY <1>0, <1>1, <2>2, EarlySteady, CancellingSteady, PendingSteady
  <2>4. ASSUME NEW t \in Requests PROVE Owes(pc'[t], turn'[t], stored', told')
    BY <1>0, <1>1, <2>2, OwnOwing, OthersOwe
  <2> QED BY <2>3, <2>4 DEF Noticed
<1>2. CASE \/ \E r \in Requests, k \in Work :
                 ReceiveDelivery(r, k) \/ StartRelay(r, k) \/ StartCommand(r, k)
           \/ \E e \in Echoes : StaffWriteNatively(e) \/ RecordExternalReply(e)
           \/ Tick
           \/ UNCHANGED vars
  <2>1. Noticed
    BY <1>2, NoFailure DEF NoticeInv
  <2>2. Early /\ Cancelling /\ Pending /\ \A t \in Requests : Owes(pc[t], turn[t], stored, told)
    BY <2>1 DEF Noticed
  <2>3. Early' /\ Cancelling' /\ Pending'
    BY <1>0, <1>2, <2>2, EarlyAround, CancellingAround, PendingAround
  <2>4. ASSUME NEW t \in Requests PROVE Owes(pc'[t], turn'[t], stored', told')
    BY <1>0, <1>2, <2>2, OwingAround
  <2> QED BY <2>3, <2>4 DEF Noticed
<1>3. CASE (\E r \in Requests : Failing(r)) \/ (\E i \in Instances : Crash(i))
  BY <1>0, <1>3, FailuresShow
<1> QED BY <1>1, <1>2, <1>3 DEF Next, Redeliver, RedeliverStaff, Work

\* A conversation handed over to staff is one that they have been told of, or
\* whose notice was logged with everything it said: once nobody works on it and
\* no turn was folded, and in any case once every message has been handled.
\* Service.Handle announces a handover after the turn that decided it has saved
\* it, and a turn that a newer message cancelled in between leaves that to the
\* newer one.  A change Altegio did not answer is the exception: it hands over
\* without announcing, so it is assumed away here, and shown by TLC.
THEOREM HandoffsAreAnnounced ==
    ASSUME ~UnknownChanges
    PROVE  Spec => []HandoffIsAnnounced
<1>1. Init => NoticeInv
  <2> SUFFICES ASSUME Init PROVE NoticeInv
    OBVIOUS
  <2>0. CopyInv
    <3>1. /\ NewConversation \in Conversation /\ NewConversation.rev <= NewConversation.rev
          /\ "idle" \notin CopySteps
      BY NewConversationType DEF NewConversation, CopySteps
    <3>2. Copies
      BY <3>1, CopyRests DEF Init, Copies, NewTurn
    <3> QED BY <3>2, InvInit DEF CopyInv
  <2>1. /\ \A r \in Requests : pc[r] = "idle" /\ turn[r] = NewTurn
        /\ \A i \in Instances : active[i] = NoRequest
        /\ stored.state = "assistant_active"
    BY DEF Init, NewConversation
  <2>2. Early /\ Cancelling
    BY <2>1, ClaimStoreAssumption, StepRelations DEF Early, Cancelling, NewTurn
  <2>3. \A r \in Requests : Owes(pc[r], turn[r], stored, told)
    BY <2>1 DEF Owes, SavedSteps
  <2>4. Pending
    BY <2>1 DEF Pending
  <2> QED BY <2>0, <2>2, <2>3, <2>4 DEF NoticeInv, Noticed
<1>2. NoticeInv => HandoffIsAnnounced
  <2> SUFFICES ASSUME NoticeInv, AllHandled \/ (Quiet /\ folded = {}), faults = 0,
                      stored.state = "human_requested"
               PROVE  told # "untold"
    BY DEF HandoffIsAnnounced
  <2>1. Pending
    BY DEF NoticeInv, Noticed
  <2>2. ~\E r \in Requests : pc[r] \in TellingSteps
    BY DEF AllHandled, Quiet, TellingSteps
  <2>3. ~(folded # {} /\ \E d \in Deliveries : Within(d, AheadSteps))
    BY DEF AllHandled, Within
  <2> QED BY <2>1, <2>2, <2>3 DEF Pending
<1> QED BY <1>1, <1>2, NoticeNext, PTL DEF Spec

(***************************************************************************)
(* The newest message is answered, or left to staff.                       *)
(*                                                                         *)
(* The argument, as long as no call fails and no turn is cancelled: a turn *)
(* that goes on after its first check is the newest one, or a newer        *)
(* message waits for the conversation behind it.  So what such a turn      *)
(* saves never puts the assistant back in charge of a newest message that  *)
(* was already left to staff.  Only a turn that finds itself obsolete may  *)
(* do that, and it is folded.                                              *)
(***************************************************************************)
\* The steps of a turn that passed its first check, those of a request that
\* leaves a message to staff, and those of one that is about to complete one.
CheckedSteps ==
    {"composing", "saving", "announcing", "recheckingTurn", "checkingStaff", "sending",
     "storingChoices"}
LeavingSteps == {"outageSaving", "forwarding", "withdrawing"}
EndingSteps == {"completing", "unlockThenComplete", "settling"}

\* Nothing has happened that may return a conversation unanswered.
Unreturned == folded = {} /\ commands = 0

\* No turn is cancelled when every request has an instance of its own.
Apart == \A r, s \in Requests : InstanceOf[r] = InstanceOf[s] => r = s

Uncancelled ==
    /\ \A r \in Requests : ~turn[r].cancelled
    /\ \A i \in Instances : active[i] \in Requests => InstanceOf[active[i]] = i

\* A folded message is over, or about to be, and not the newest one.
Folds ==
    \A f \in folded :
        /\ f[1] # latest
        /\ processed[f[1]].done \/ \E r \in Holders(f[1]) : pc[r] = "completing"

\* How a request stands to the newest message.
Behind(r) == latest = work[r] \/ (latest \in Deliveries /\ Within(latest, WaitingSteps))

Standing(r) ==
    /\ pc[r] \in CheckedSteps => Behind(r)
    /\ pc[r] = "folding" => latest # work[r]
    /\ pc[r] = "storingChoices" => sends[work[r]] > 0
    /\ pc[r] \in LeavingSteps => turn[r].conv.state # "assistant_active"
    /\ pc[r] = "outageTelling" => stored.state # "assistant_active"
    /\ pc[r] \in EndingSteps /\ work[r] \in Deliveries /\ work[r] = latest /\ Unreturned =>
           sends[work[r]] > 0 \/ stored.state # "assistant_active"
    /\ pc[r] \notin {"idle", "registering"} /\ work[r] \in Deliveries => latest \in Deliveries
    /\ commands = 0 => work[r] \notin Commands

\* What completed messages say of the newest one.
Finished ==
    \A d \in Deliveries : processed[d].done =>
        /\ latest \in Deliveries
        /\ d = latest /\ Unreturned /\ stored.state = "assistant_active" => sends[d] > 0

Newest == Early /\ Uncancelled /\ Folds /\ Finished /\ \A r \in Requests : Standing(r)

\* The inductive invariant.
NewestInv == CopyInv /\ (faults = 0 => Newest)

\* Without a shared instance nobody cancels anybody.
LEMMA ApartSteady ==
    ASSUME TypeOK, Early, Apart, Uncancelled, NEW r \in Requests, Progress(r)
    PROVE  Uncancelled'
<1>0. /\ pc \in [Requests -> Steps] /\ turn \in [Requests -> Turn]
      /\ active \in [Instances -> Requests \cup {NoRequest}]
      /\ NoRequest \notin Requests /\ InstanceOf[r] \in Instances
  BY ConversationAssumption, ClaimStoreAssumption DEF TypeOK
<1>1. pc[r] \in EarlySteps => active[InstanceOf[r]] \notin Requests
  <2> SUFFICES ASSUME pc[r] \in EarlySteps, active[InstanceOf[r]] \in Requests PROVE FALSE
    OBVIOUS
  <2>1. active[InstanceOf[r]] = r
    BY <1>0 DEF Uncancelled, Apart
  <2> QED BY <1>0, <2>1 DEF Early
<1>2. CASE Plain(r)
  BY <1>2 DEF Plain, Uncancelled
<1>3. CASE Supersede(r)
  <2>1. pc[r] \in EarlySteps /\ UNCHANGED active
    BY <1>3 DEF Supersede, EarlySteps
  <2>2. \A t \in Requests : turn'[t] = turn[t]
    BY <1>1, <1>3, <2>1 DEF Supersede
  <2> QED BY <2>1, <2>2 DEF Uncancelled
<1>4. CASE ActivateTurn(r)
  <2>1. pc[r] \in EarlySteps /\ active' = [active EXCEPT ![InstanceOf[r]] = r]
    BY <1>4 DEF ActivateTurn, EarlySteps
  <2>2. \A t \in Requests : turn'[t].cancelled = turn[t].cancelled
    <3>1. ASSUME NEW t \in Requests PROVE turn'[t].cancelled = turn[t].cancelled
      <4>1. CASE t = r
        BY <1>0, <1>4, <4>1 DEF ActivateTurn, Turn
      <4>2. CASE t # r
        <5>1. t # active[InstanceOf[r]]
          BY <1>1, <2>1
        <5> QED BY <1>4, <4>2, <5>1 DEF ActivateTurn
      <4> QED BY <4>1, <4>2
    <3> QED BY <3>1
  <2> QED BY <1>0, <2>1, <2>2 DEF Uncancelled
<1>5. CASE Retire(r)
  <2>1. \A t \in Requests : ~turn'[t].cancelled
    BY <1>0, <1>5 DEF Retire, NewTurn, Uncancelled
  <2>2. \A i \in Instances : active'[i] = active[i] \/ active'[i] = NoRequest
    BY <1>5 DEF Retire
  <2> QED BY <1>0, <2>1, <2>2 DEF Uncancelled
<1> QED BY <1>2, <1>3, <1>4, <1>5, PlainSteps

\* What the steps of a request change besides its own state.
LEMMA Effects ==
    ASSUME TypeOK, WorkOfStep, NEW r \in Requests, Progress(r)
    PROVE  /\ UNCHANGED commands
           /\ RegisterTurn(r) \/ UNCHANGED latest
           /\ Fold(r) \/ UNCHANGED folded
           /\ \A k \in Messages : sends'[k] >= sends[k]
           /\ UNCHANGED work \/ Retire(r)
<1>0. sends \in [Messages -> Nat] /\ \A k \in Messages : sends[k] + 1 >= sends[k]
  BY DEF TypeOK, Messages
<1>1. CASE Handling(r)
  <2>1. UNCHANGED sends \/ Accept(r)
    BY <1>1
     DEF Handling, RegisterTurn, Supersede, LockConversation, GiveUpWaiting, LoadConversation,
         SaveOpened, RefuseExpiredChoice, RecordInbound, FindChannelOut, SaveOutage, TellOutage,
         LeaveToStaff, Forward, WithdrawConsent, ActivateTurn, SaveStep, Telling, history
  <2>2. \A k \in Messages : sends'[k] >= sends[k]
    BY <1>0, <2>1 DEF Accept
  <2> QED BY <1>1, <2>2
     DEF Handling, RegisterTurn, Supersede, LockConversation, GiveUpWaiting, LoadConversation,
         SaveOpened, RefuseExpiredChoice, RecordInbound, FindChannelOut, SaveOutage, TellOutage,
         LeaveToStaff, Forward, WithdrawConsent, ActivateTurn, SaveStep, Telling, stores, bounds, history
<1>2. CASE Answering(r)
  <2>1. UNCHANGED sends \/ Accept(r)
    BY <1>2
     DEF Answering, FindSuperseded, ReadHistory, ComposeAnswer, HandOver, RequestHandoff,
         UnknownChange, FindStaffReplied, SaveAnswered, Announce, RecheckTurn, CheckStaff,
         Send, SendCancelled, StoreChoices, Fold, SaveStep, Telling, history
  <2>2. \A k \in Messages : sends'[k] >= sends[k]
    BY <1>0, <2>1 DEF Accept
  <2> QED BY <1>2, <2>2
     DEF Answering, FindSuperseded, ReadHistory, ComposeAnswer, HandOver, RequestHandoff,
         UnknownChange, FindStaffReplied, SaveAnswered, Announce, RecheckTurn, CheckStaff,
         Send, SendCancelled, StoreChoices, Fold, SaveStep, Telling, stores, bounds, history
<1>3. CASE Finishing(r)
  BY <1>0, <1>3 DEF Finishing, Complete, Unlock, UnlockThenSettle, ReleaseDelivery, Settle, bounds, history
<1>4. CASE Staffing(r)
  <2>1. UNCHANGED sends \/ Accept(r)
    BY <1>4 DEF Staffing, SaveTakeover, RelaySend, RecordRelay, SaveCommand
  <2>2. \A k \in Messages : sends'[k] >= sends[k]
    BY <1>0, <2>1 DEF Accept
  <2> QED BY <1>4, <2>2 DEF Staffing, SaveTakeover, RelaySend, RecordRelay, SaveCommand, stores, bounds
<1> QED BY <1>1, <1>2, <1>3, <1>4 DEF Progress

\* A message in hand is not done, and nobody else has it in hand.
LEMMA InHand ==
    ASSUME Inv, NEW r \in Requests, pc[r] \notin {"idle", "unlocking"}, work[r] \in Messages
    PROVE  /\ ~processed[work[r]].done /\ Holders(work[r]) = {r}
           /\ \A t \in Requests \ {r} : pc[t] \notin {"idle", "unlocking"} => work[t] # work[r]
<1>1. work[r] \in Keys /\ r \in Holders(work[r])
  BY HoldersOfMessage DEF Keys, Messages
<1>2. PICK k \in Keys : k = work[r]
  BY <1>1
<1>3. Holders(k) = {r} /\ ~processed[k].done
  BY <1>1, <1>2, OneHolder
<1> QED BY <1>2, <1>3, HoldersOfMessage

\* Only a turn that answers or is folded, or a command, returns a conversation
\* to the assistant.
LEMMA Returning ==
    ASSUME CopyInv, NEW r \in Requests, Progress(r), stored.state # "assistant_active",
           stored'.state = "assistant_active"
    PROVE  pc[r] \in {"saving", "folding", "commandSaving"} \/ (pc[r] = "outageSaving"
               /\ turn[r].conv.state = "assistant_active")
<1>1. /\ turn[r].conv \in Conversation
      /\ CopyStands(pc[r], work[r], turn[r].conv, stored)
  BY DEF CopyInv, Inv, TypeOK, Copies, Turn
<1>2. [turn[r].conv EXCEPT !.age = 0].state = turn[r].conv.state
  BY <1>1 DEF Conversation
<1>3. CASE SaveOpened(r) \/ WithdrawConsent(r) \/ StoreChoices(r)
  BY <1>1, <1>3 DEF SaveOpened, WithdrawConsent, StoreChoices, SaveStep, BestEffortSave, Save, Conflict,
                    CopyStands, EqualSteps
<1>4. CASE SaveTakeover(r) \/ RecordRelay(r)
  BY <1>1, <1>2, <1>4 DEF SaveTakeover, RecordRelay, Save, CopyStands, RelaySteps
<1>5. CASE SaveOutage(r)
  BY <1>5 DEF SaveOutage, SaveStep, Save
<1>6. CASE SaveAnswered(r) \/ Fold(r) \/ SaveCommand(r)
  BY <1>6 DEF SaveAnswered, Fold, SaveCommand, SaveStep
<1>7. \/ SaveOpened(r) \/ WithdrawConsent(r) \/ StoreChoices(r)
      \/ SaveTakeover(r) \/ RecordRelay(r) \/ SaveOutage(r)
      \/ SaveAnswered(r) \/ Fold(r) \/ SaveCommand(r)
      \/ UNCHANGED stored
  <2> USE DEF stores
  <2>1. CASE Handling(r)
    BY <2>1
       DEF Handling, RegisterTurn, Supersede, LockConversation, GiveUpWaiting, LoadConversation,
           RefuseExpiredChoice, RecordInbound, FindChannelOut, LeaveToStaff, ActivateTurn,
           TellOutage, Forward, Telling
  <2>2. CASE Answering(r)
    BY <2>2
       DEF Answering, FindSuperseded, ReadHistory, ComposeAnswer, HandOver, RequestHandoff,
           UnknownChange, FindStaffReplied, RecheckTurn, CheckStaff, Send, SendCancelled, Announce, Telling
  <2>3. CASE Finishing(r) \/ Staffing(r)
    BY <2>3 DEF Finishing, Complete, Unlock, UnlockThenSettle, ReleaseDelivery, Settle,
                Staffing, RelaySend
  <2> QED BY <2>1, <2>2, <2>3 DEF Progress
<1> QED BY <1>3, <1>4, <1>5, <1>6, <1>7

\* A message that has just been registered as the newest waits for the conversation.
LEMMA RegisteringWaits ==
    ASSUME Inv, NEW r \in Requests, RegisterTurn(r)
    PROVE  /\ pc[r] = "registering" /\ work[r] \in Deliveries
           /\ latest' = work[r] /\ Within(work[r], WaitingSteps)'
           /\ UNCHANGED <<work, processed>>
<1>0. Inv /\ TypeOK /\ WorkOfStep /\ pc \in [Requests -> Steps]
  BY DEF Inv, TypeOK
<1>1. /\ pc[r] = "registering" /\ pc' = [pc EXCEPT ![r] = "superseding"]
      /\ UNCHANGED <<processed, work>> /\ latest' = work[r]
  BY DEF RegisterTurn, Goto
<1>2. work[r] \in Deliveries
  BY <1>0, <1>1, DeliveryStepNames DEF WorkOfStep
<1>3. Holders(work[r]) = {r} /\ ~processed[work[r]].done
  BY <1>1, <1>2, InHand DEF Messages
<1>4. PICK d \in Deliveries : d = work[r]
  BY <1>2
<1>5. d \in Keys /\ d # Lock
  BY ConversationAssumption DEF Keys
<1>6. \A t \in Holders(d)' : t = r
  BY <1>0, <1>1, <1>3, <1>4, <1>5 DEF Holders
<1>7. ~processed'[d].done /\ \A t \in Holders(d)' : pc'[t] \in WaitingSteps
  BY <1>0, <1>1, <1>3, <1>4, <1>6 DEF WaitingSteps
<1>8. Within(d, WaitingSteps)'
  BY <1>7 DEF Within
<1>9. work'[r] = d
  BY <1>1, <1>4
<1> QED BY <1>1, <1>2, <1>4, <1>8, <1>9

\* A newer message waits as long as the turn in front of it holds the conversation.
LEMMA BehindStays ==
    ASSUME Inv, NEW r \in Requests, Progress(r), NEW t \in Requests, pc[t] \in LockedSteps,
           Behind(t), work'[t] = work[t]
    PROVE  Behind(t)'
<1>1. CASE RegisterTurn(r)
  BY <1>1, RegisteringWaits DEF Behind
<1>2. CASE UNCHANGED latest /\ latest = work[t]
  BY <1>2 DEF Behind
<1>3. CASE UNCHANGED latest /\ latest \in Deliveries /\ Within(latest, WaitingSteps)
  <2>1. PICK d \in Deliveries : d = latest
    BY <1>3
  <2>2. Within(d, WaitingSteps)
    BY <1>3, <2>1
  <2>3. r \in Holders(d)' => pc'[r] \in WaitingSteps
    <3> SUFFICES ASSUME r \in Holders(d)' PROVE pc'[r] \in WaitingSteps
      OBVIOUS
    <3>1. pc[r] \in WaitingSteps
      BY <2>2, HoldersOnlyLeave DEF Within
    <3>2. t # r
      BY <3>1, StepRelations
    <3>3. pc'[r] # "idle"
      BY ConversationAssumption DEF Holders
    <3> QED BY <3>1, <3>2, <3>3, WaitingGoesOn
  <2>4. Within(d, WaitingSteps)'
    BY <2>2, <2>3, WithinStays
  <2> QED BY <1>3, <2>1, <2>4 DEF Behind
<1> QED BY <1>1, <1>2, <1>3, Effects DEF Behind, Inv

\* The steps of the invariant and the lock.
LEMMA NewestSteps ==
    /\ CheckedSteps \cup {"folding", "outageTelling"} \cup LeavingSteps \subseteq LockedSteps
    /\ CheckedSteps \cap WaitingSteps = {} /\ EndingSteps \cap WaitingSteps = {}
    /\ {"idle", "unlocking"} \cap (CheckedSteps \cup EndingSteps \cup LeavingSteps \cup WaitingSteps) = {}
BY StepKinds DEF CheckedSteps, LeavingSteps, EndingSteps, WaitingSteps

\* A conversation that was left to staff is not returned while its newest message
\* is over or in the hands of a request that is not about to answer.
LEMMA NotReturned ==
    ASSUME CopyInv, Newest, NEW r \in Requests, Progress(r), Unreturned', latest \in Deliveries,
           \/ processed[latest].done
           \/ \E t \in Holders(latest) : t # r /\ pc[t] \notin WaitingSteps,
           stored.state # "assistant_active"
    PROVE  stored'.state # "assistant_active"
<1> SUFFICES ASSUME stored'.state = "assistant_active" PROVE FALSE
  OBVIOUS
<1>0. Inv /\ TypeOK /\ WorkOfStep /\ Standing(r)
  BY DEF CopyInv, Inv, Newest
<1>1. CASE pc[r] = "saving"
  <2>1. Behind(r) /\ work[r] \in Messages
    BY <1>0, <1>1, DeliveryStepNames DEF Standing, CheckedSteps, WorkOfStep, Messages
  <2>2. CASE latest = work[r]
    BY <1>0, <1>1, <2>1, <2>2, InHand
  <2>3. CASE Within(latest, WaitingSteps)
    BY <2>3 DEF Within
  <2> QED BY <2>1, <2>2, <2>3 DEF Behind
<1>2. CASE pc[r] = "folding"
  <2>1. Fold(r)
    BY <1>2
     DEF Progress, Handling, RegisterTurn, Supersede, LockConversation, GiveUpWaiting, LoadConversation,
         SaveOpened, RefuseExpiredChoice, RecordInbound, FindChannelOut, SaveOutage, TellOutage,
         LeaveToStaff, Forward, WithdrawConsent, ActivateTurn, SaveStep, Telling,
         Answering, FindSuperseded, ReadHistory, ComposeAnswer, HandOver, RequestHandoff,
         UnknownChange, FindStaffReplied, SaveAnswered, Announce, RecheckTurn, CheckStaff,
         Send, SendCancelled, StoreChoices,
         Finishing, Complete, Unlock, UnlockThenSettle, ReleaseDelivery, Settle,
         Staffing, SaveTakeover, RelaySend, RecordRelay, SaveCommand
  <2> QED BY <2>1 DEF Fold, Unreturned
<1>3. CASE pc[r] = "commandSaving"
  <2>1. commands = 0
    BY <1>0, Effects DEF Unreturned
  <2> QED BY <1>0, <1>3, <2>1 DEF Standing, WorkOfStep
<1>4. CASE pc[r] = "outageSaving" /\ turn[r].conv.state = "assistant_active"
  BY <1>0, <1>4 DEF Standing, LeavingSteps
<1> QED BY <1>1, <1>2, <1>3, <1>4, Returning

\* What is true of another request stays true.
LEMMA OthersStand ==
    ASSUME CopyInv, Newest, TypeOK', NEW r \in Requests, Progress(r), NEW t \in Requests, t # r
    PROVE  Standing(t)'
<1>0. /\ Inv /\ TypeOK /\ WorkOfStep /\ Standing(t)
      /\ pc \in [Requests -> Steps] /\ work \in [Requests -> Work \cup {NoWork}]
  BY DEF CopyInv, Inv, TypeOK, Newest
<1>1. pc'[t] = pc[t] /\ turn'[t].conv = turn[t].conv
  BY <1>0, OthersTurns
<1>2. work'[t] = work[t]
  BY <1>0, Effects DEF Retire, Goto
<1>3. /\ UNCHANGED commands
      /\ RegisterTurn(r) \/ UNCHANGED latest
      /\ \A k \in Messages : sends'[k] >= sends[k]
      /\ Unreturned' => Unreturned
  BY <1>0, Effects DEF Unreturned, Fold
<1>4. pc[t] \in LockedSteps => UNCHANGED stored
  BY <1>0, LockedAlone, UnlockedLeaves
<1>5. work[t] \in Deliveries /\ pc[t] \notin {"idle", "unlocking"} /\ RegisterTurn(r) => work[t] # work[r]
  <2> SUFFICES ASSUME work[t] \in Deliveries, pc[t] \notin {"idle", "unlocking"}, RegisterTurn(r)
               PROVE  work[t] # work[r]
    OBVIOUS
  <2>1. pc[r] \notin {"idle", "unlocking"}
    BY <1>0, RegisteringWaits
  <2> QED BY <1>0, <2>1, InHand DEF Messages
<1>6. pc'[t] \in CheckedSteps => Behind(t)'
  BY <1>0, <1>1, <1>2, BehindStays, NewestSteps DEF Standing
<1>7. pc'[t] = "folding" => latest' # work'[t]
  <2> SUFFICES ASSUME pc[t] = "folding" PROVE latest' # work[t]
    BY <1>1, <1>2
  <2>1. work[t] \in Deliveries
    BY <1>0, DeliveryStepNames DEF WorkOfStep
  <2> QED BY <1>0, <1>3, <1>5, <2>1, RegisteringWaits DEF Standing
<1>8. pc'[t] = "storingChoices" => sends'[work'[t]] > 0
  <2> SUFFICES ASSUME pc[t] = "storingChoices" PROVE sends'[work[t]] > 0
    BY <1>1, <1>2
  <2>1. work[t] \in Messages
    BY <1>0, DeliveryStepNames DEF WorkOfStep, Messages
  <2>2. sends[work[t]] > 0
    BY <1>0 DEF Standing
  <2>3. sends[work[t]] \in Nat /\ sends'[work[t]] \in Nat
    BY <1>0, <2>1 DEF TypeOK, Messages
  <2> QED BY <1>3, <2>1, <2>2, <2>3
<1>9. pc'[t] \in LeavingSteps => turn'[t].conv.state # "assistant_active"
  BY <1>0, <1>1 DEF Standing
<1>10. pc'[t] = "outageTelling" => stored'.state # "assistant_active"
  BY <1>0, <1>1, <1>4, NewestSteps DEF Standing
<1>11. pc'[t] \in EndingSteps /\ work'[t] \in Deliveries /\ work'[t] = latest' /\ Unreturned' =>
           sends'[work'[t]] > 0 \/ stored'.state # "assistant_active"
  <2> SUFFICES ASSUME pc[t] \in EndingSteps, work[t] \in Deliveries, work[t] = latest', Unreturned'
               PROVE  sends'[work[t]] > 0 \/ stored'.state # "assistant_active"
    BY <1>1, <1>2
  <2>1. pc[t] \notin {"idle", "unlocking"} /\ pc[t] \notin WaitingSteps
    BY NewestSteps
  <2>2. latest = work[t]
    BY <1>0, <1>3, <1>5, <2>1, RegisteringWaits
  <2>3. CASE sends[work[t]] > 0
    <3>1. sends[work[t]] \in Nat /\ sends'[work[t]] \in Nat /\ work[t] \in Messages
      BY <1>0 DEF TypeOK, Messages
    <3> QED BY <1>3, <2>3, <3>1
  <2>4. CASE stored.state # "assistant_active"
    <3>1. t \in Holders(latest)
      BY <2>1, <2>2, HoldersOfMessage DEF Messages
    <3> QED BY <2>1, <2>2, <2>4, <3>1, NotReturned
  <2> QED BY <1>0, <1>3, <2>2, <2>3, <2>4 DEF Standing
<1>12. pc'[t] \notin {"idle", "registering"} /\ work'[t] \in Deliveries => latest' \in Deliveries
  BY <1>0, <1>1, <1>2, <1>3, RegisteringWaits DEF Standing
<1>13. commands' = 0 => work'[t] \notin Commands
  BY <1>0, <1>2, <1>3 DEF Standing
<1> QED BY <1>6, <1>7, <1>8, <1>9, <1>10, <1>11, <1>12, <1>13 DEF Standing

\* What a request does for its own standing.
LEMMA OwnStanding ==
    ASSUME CopyInv, Newest, TypeOK', NEW r \in Requests, Progress(r)
    PROVE  Standing(r)'
<1> DEFINE c == turn[r].conv
<1>0. /\ Inv /\ TypeOK /\ WorkOfStep /\ Standing(r) /\ ~turn[r].cancelled
      /\ pc \in [Requests -> Steps] /\ turn \in [Requests -> Turn]
      /\ work \in [Requests -> Work \cup {NoWork}]
      /\ sends \in [Messages -> Nat] /\ sends' \in [Messages -> Nat]
      /\ c \in Conversation /\ CopyStands(pc[r], work[r], c, stored)
  BY DEF CopyInv, Inv, TypeOK, Newest, Uncancelled, Turn, Copies, Messages
<1>1. /\ UNCHANGED commands
      /\ RegisterTurn(r) \/ UNCHANGED latest
      /\ \A k \in Messages : sends'[k] >= sends[k]
      /\ UNCHANGED work \/ Retire(r)
  BY <1>0, Effects
<1>2. pc[r] # "idle" /\ (pc[r] \in DeliverySteps => work[r] \in Deliveries /\ work[r] \in Messages)
  <2>1. pc[r] # "idle"
    BY <1>0, QuietHandling, QuietAnswering, QuietStaffing
       DEF Progress, QuietMove, LockConversation, SaveCommand, Finishing, Complete, Unlock,
           UnlockThenSettle, ReleaseDelivery, Settle
  <2> QED BY <1>0, <2>1 DEF WorkOfStep, Messages
<1>3. commands' = 0 => work'[r] \notin Commands
  BY <1>0, <1>1, ConversationAssumption DEF Standing, Retire
<1>4. pc'[r] \notin {"idle", "registering"} /\ work'[r] \in Deliveries => latest' \in Deliveries
  <2>1. CASE RegisterTurn(r)
    BY <1>0, <2>1, RegisteringWaits
  <2>2. CASE Retire(r)
    BY <1>0, <2>2 DEF Retire, Goto
  <2>3. CASE UNCHANGED work /\ UNCHANGED latest
    <3>1. pc[r] = "registering" => RegisterTurn(r)
      BY DEF Progress, Handling, RegisterTurn, Supersede, LockConversation, GiveUpWaiting, LoadConversation,
             SaveOpened, RefuseExpiredChoice, RecordInbound, FindChannelOut, SaveOutage, TellOutage,
             LeaveToStaff, Forward, WithdrawConsent, ActivateTurn, SaveStep, Telling,
             Answering, FindSuperseded, ReadHistory, ComposeAnswer, HandOver, RequestHandoff,
             UnknownChange, FindStaffReplied, SaveAnswered, Announce, RecheckTurn, CheckStaff,
             Send, SendCancelled, StoreChoices, Fold,
             Finishing, Complete, Unlock, UnlockThenSettle, ReleaseDelivery, Settle,
             Staffing, SaveTakeover, RelaySend, RecordRelay, SaveCommand
    <3> QED BY <1>0, <1>2, <2>1, <2>3, <3>1 DEF Standing
  <2> QED BY <1>1, <2>1, <2>2, <2>3
<1>5. pc'[r] \in CheckedSteps => Behind(r)'
  <2>1. CASE pc[r] \in CheckedSteps /\ pc'[r] \in CheckedSteps
    <3>1. UNCHANGED work
      BY <1>0, <1>1, <2>1 DEF Retire, Goto, CheckedSteps
    <3> QED BY <1>0, <2>1, <3>1, BehindStays, NewestSteps DEF Standing
  <2>2. CASE ReadHistory(r)
    BY <2>2 DEF ReadHistory, Behind, stores
  <2>3. \/ pc'[r] \notin CheckedSteps \/ pc[r] \in CheckedSteps \/ ReadHistory(r)
    <3> USE <1>0 DEF CheckedSteps, Goto
    <3>1. CASE Handling(r)
      BY <3>1
       DEF Handling, RegisterTurn, Supersede, LockConversation, GiveUpWaiting, LoadConversation,
           SaveOpened, RefuseExpiredChoice, RecordInbound, FindChannelOut, SaveOutage, TellOutage,
           LeaveToStaff, Forward, WithdrawConsent, ActivateTurn, SaveStep, Telling
    <3>2. CASE Answering(r)
      BY <3>2
       DEF Answering, FindSuperseded, ComposeAnswer, HandOver, RequestHandoff,
           UnknownChange, FindStaffReplied, SaveAnswered, Announce, RecheckTurn, CheckStaff,
           Send, SendCancelled, StoreChoices, Fold, SaveStep, Telling
    <3>3. CASE Finishing(r) \/ Staffing(r)
      BY <3>3 DEF Finishing, Complete, Unlock, UnlockThenSettle, ReleaseDelivery, Settle, Retire,
                  Staffing, SaveTakeover, RelaySend, RecordRelay, SaveCommand
    <3> QED BY <3>1, <3>2, <3>3 DEF Progress
  <2> QED BY <2>1, <2>2, <2>3
<1>6. CASE pc'[r] \notin {"folding", "storingChoices", "outageTelling"} \cup LeavingSteps \cup EndingSteps
  BY <1>3, <1>4, <1>5, <1>6 DEF Standing
<1>7. CASE FindSuperseded(r)
  <2>1. pc'[r] = "folding" /\ latest' # work'[r]
    BY <1>0, <1>7 DEF FindSuperseded, Superseded, Goto, stores
  <2> QED BY <1>3, <1>4, <1>5, <2>1 DEF Standing, LeavingSteps, EndingSteps
<1>8. CASE Send(r)
  <2>1. pc'[r] = "storingChoices" /\ sends' = [sends EXCEPT ![work[r]] = @ + 1] /\ UNCHANGED work
        /\ pc[r] = "sending"
    BY <1>0, <1>8 DEF Send, Accept, Goto
  <2>2. sends'[work'[r]] > 0
    BY <1>0, <1>2, <2>1, DeliveryStepNames
  <2> QED BY <1>3, <1>4, <1>5, <2>1, <2>2 DEF Standing, LeavingSteps, EndingSteps
<1>9. CASE FindChannelOut(r) \/ LeaveToStaff(r) \/ (Forward(r) /\ pc'[r] = "withdrawing")
  <2>1. pc'[r] \in LeavingSteps /\ turn'[r].conv.state # "assistant_active"
    <3>1. CASE FindChannelOut(r)
      BY <1>0, <3>1 DEF FindChannelOut, AssistantMayReply, TransitionTo, Conversation, Turn, Goto, LeavingSteps
    <3>2. CASE LeaveToStaff(r)
      BY <1>0, <3>2 DEF LeaveToStaff, AfterTimeout, Overdue, AssistantMayReply, Goto, LeavingSteps
    <3>3. CASE Forward(r) /\ pc'[r] = "withdrawing"
      BY <1>0, <3>3 DEF Forward, Telling, Standing, LeavingSteps
    <3> QED BY <1>9, <3>1, <3>2, <3>3
  <2> QED BY <1>3, <1>4, <1>5, <2>1 DEF Standing, LeavingSteps, EndingSteps
<1>10. CASE SaveOutage(r) /\ pc'[r] = "outageTelling"
  <2>1. stored' = c /\ c.state # "assistant_active"
    BY <1>0, <1>10 DEF SaveOutage, SaveStep, Save, Standing, LeavingSteps, Goto
  <2> QED BY <1>3, <1>4, <1>5, <1>10, <2>1 DEF Standing, LeavingSteps, EndingSteps
<1>11. ASSUME pc'[r] \in EndingSteps,
              \/ stored'.state # "assistant_active"
              \/ folded' # {}
              \/ sends'[work'[r]] > 0
              \/ work'[r] \notin Deliveries
       PROVE  Standing(r)'
  BY <1>3, <1>4, <1>5, <1>11 DEF Standing, LeavingSteps, EndingSteps, Unreturned
<1>12. CASE pc'[r] = "unlockThenComplete" /\ pc[r] \in CopySteps /\ Conflict(r) /\ UNCHANGED stored
  BY <1>0, <1>11, <1>12, ConflictIsTakeover DEF EndingSteps
<1>13. CASE RefuseExpiredChoice(r)
  <2>1. /\ pc'[r] = "completing" /\ sends' = [sends EXCEPT ![work[r]] = @ + 1] /\ UNCHANGED work
        /\ pc[r] = "receiving"
    BY <1>0, <1>13 DEF RefuseExpiredChoice, Accept, Goto
  <2>2. sends'[work'[r]] > 0
    BY <1>0, <1>2, <2>1, DeliveryStepNames
  <2> QED BY <1>11, <2>1, <2>2 DEF EndingSteps
<1>14. CASE TellOutage(r) \/ (Forward(r) /\ pc'[r] = "completing")
  <2>1. /\ pc'[r] = "completing" /\ UNCHANGED stored
        /\ pc[r] \in {"outageTelling", "forwarding"}
    BY <1>0, <1>14 DEF TellOutage, Forward, Telling, Goto, stores
  <2>2. stored.state # "assistant_active"
    BY <1>0, <2>1 DEF Standing, LeavingSteps, CopyStands, EqualSteps, CopySteps
  <2> QED BY <1>11, <2>1, <2>2 DEF EndingSteps
<1>15. CASE WithdrawConsent(r) /\ pc'[r] = "completing"
  <2>1. pc[r] = "withdrawing" /\ stored'.state # "assistant_active"
    BY <1>0, <1>15 DEF WithdrawConsent, SaveStep, Save, Goto, Standing, LeavingSteps
  <2> QED BY <1>11, <1>15, <2>1 DEF EndingSteps
<1>16. CASE StoreChoices(r)
  <2>1. pc[r] = "storingChoices" /\ pc'[r] = "completing" /\ UNCHANGED <<work, sends>>
    BY <1>0, <1>16 DEF StoreChoices, Goto
  <2> QED BY <1>0, <1>11, <2>1 DEF EndingSteps, Standing
<1>17. CASE Fold(r)
  BY <1>0, <1>11, <1>17 DEF Fold, Goto, EndingSteps
<1>18. CASE RecordRelay(r)
  <2>1. pc'[r] = "unlockThenComplete" /\ work'[r] \notin Deliveries
    BY <1>0, <1>18, ConversationAssumption DEF RecordRelay, Goto, WorkOfStep, RelaySteps
  <2> QED BY <1>11, <2>1 DEF EndingSteps
<1>19. CASE UnlockThenSettle(r) /\ pc'[r] = "settling"
  <2>1. pc[r] = "unlockThenComplete" /\ UNCHANGED <<work, sends, latest, stored, folded, commands>>
    BY <1>0, <1>19 DEF UnlockThenSettle, Goto, bounds, history
  <2>2. \/ stored.state # "assistant_active" \/ folded # {} \/ sends[work[r]] > 0
        \/ work[r] \notin Deliveries \/ work[r] # latest \/ commands # 0
    BY <1>0, <2>1 DEF Standing, EndingSteps, Unreturned
  <2> QED BY <1>3, <1>4, <1>5, <1>19, <2>1, <2>2 DEF Standing, LeavingSteps, EndingSteps, Unreturned
<1>20. \/ pc'[r] \notin {"folding", "storingChoices", "outageTelling"} \cup LeavingSteps \cup EndingSteps
       \/ FindSuperseded(r) \/ Send(r) \/ FindChannelOut(r) \/ LeaveToStaff(r)
       \/ (Forward(r) /\ pc'[r] \in {"withdrawing", "completing"})
       \/ (SaveOutage(r) /\ pc'[r] = "outageTelling")
       \/ (pc'[r] = "unlockThenComplete" /\ pc[r] \in CopySteps /\ Conflict(r) /\ UNCHANGED stored)
       \/ RefuseExpiredChoice(r) \/ TellOutage(r) \/ (WithdrawConsent(r) /\ pc'[r] = "completing")
       \/ StoreChoices(r) \/ Fold(r) \/ RecordRelay(r) \/ (UnlockThenSettle(r) /\ pc'[r] = "settling")
  <2> USE <1>0 DEF LeavingSteps, EndingSteps, CopySteps, Goto, stores
  <2>1. CASE Handling(r)
    BY <2>1
     DEF Handling, RegisterTurn, Supersede, LockConversation, GiveUpWaiting, LoadConversation,
         SaveOpened, RecordInbound, SaveOutage, Forward, WithdrawConsent, ActivateTurn, SaveStep, Telling
  <2>2. CASE Answering(r)
    BY <2>2
     DEF Answering, ReadHistory, ComposeAnswer, HandOver, RequestHandoff,
         UnknownChange, FindStaffReplied, SaveAnswered, Announce, RecheckTurn, CheckStaff,
         SendCancelled, SaveStep, Telling
  <2>3. CASE Finishing(r) \/ Staffing(r)
    BY <2>3 DEF Finishing, Complete, Unlock, UnlockThenSettle, ReleaseDelivery, Settle, Retire,
                Staffing, SaveTakeover, RelaySend, SaveCommand
  <2> QED BY <2>1, <2>2, <2>3 DEF Progress
<1> QED BY <1>6, <1>7, <1>8, <1>9, <1>10, <1>12, <1>13, <1>14, <1>15, <1>16, <1>17, <1>18, <1>19, <1>20

\* What a completed message says stays true.
LEMMA FinishedSteady ==
    ASSUME CopyInv, Newest, TypeOK', NEW r \in Requests, Progress(r)
    PROVE  Finished'
<1>0. /\ Inv /\ TypeOK /\ WorkOfStep /\ Standing(r) /\ Finished
      /\ sends \in [Messages -> Nat] /\ sends' \in [Messages -> Nat]
  BY DEF CopyInv, Inv, TypeOK, Newest, Messages
<1>1. /\ RegisterTurn(r) \/ UNCHANGED latest
      /\ \A k \in Messages : sends'[k] >= sends[k]
      /\ Unreturned' => Unreturned
  BY <1>0, Effects DEF Unreturned, Fold
<1> SUFFICES ASSUME NEW d \in Deliveries, processed'[d].done
             PROVE  /\ latest' \in Deliveries
                    /\ d = latest' /\ Unreturned' /\ stored'.state = "assistant_active" => sends'[d] > 0
  BY DEF Finished
<1>2. d \in Messages /\ sends[d] \in Nat /\ sends'[d] \in Nat
  BY <1>0 DEF Messages
<1>3. CASE processed[d].done
  <2>1. latest' \in Deliveries
    BY <1>0, <1>1, <1>3, RegisteringWaits DEF Finished
  <2>2. d = latest' => d = latest
    <3> SUFFICES ASSUME d = latest', RegisterTurn(r) PROVE FALSE
      BY <1>1
    <3>1. d = work[r] /\ pc[r] = "registering"
      BY <1>0, RegisteringWaits
    <3> QED BY <1>0, <1>2, <1>3, <3>1, InHand
  <2>3. ASSUME d = latest', Unreturned', stored'.state = "assistant_active" PROVE sends'[d] > 0
    <3>1. stored.state = "assistant_active"
      BY <1>3, <2>2, <2>3, NotReturned
    <3>2. sends[d] > 0
      BY <1>0, <1>1, <1>3, <2>2, <2>3, <3>1 DEF Finished
    <3> QED BY <1>1, <1>2, <3>2
  <2> QED BY <2>1, <2>3
<1>4. CASE ~processed[d].done
  <2>1. pc[r] \in {"completing", "settling"} /\ r \in Holders(d)
    BY <1>0, <1>4, OnlyHolderFinishes
  <2>2. work[r] = d
    BY <1>2, <2>1, HoldersOfMessage
  <2>3. Complete(r) \/ Settle(r)
    BY <2>1
     DEF Progress, Handling, RegisterTurn, Supersede, LockConversation, GiveUpWaiting, LoadConversation,
         SaveOpened, RefuseExpiredChoice, RecordInbound, FindChannelOut, SaveOutage, TellOutage,
         LeaveToStaff, Forward, WithdrawConsent, ActivateTurn, SaveStep, Telling,
         Answering, FindSuperseded, ReadHistory, ComposeAnswer, HandOver, RequestHandoff,
         UnknownChange, FindStaffReplied, SaveAnswered, Announce, RecheckTurn, CheckStaff,
         Send, SendCancelled, StoreChoices, Fold,
         Finishing, Unlock, UnlockThenSettle, ReleaseDelivery,
         Staffing, SaveTakeover, RelaySend, RecordRelay, SaveCommand
  <2>4. UNCHANGED <<latest, stored, sends>>
    BY <2>3 DEF Complete, Settle, history
  <2>5. /\ latest \in Deliveries
        /\ d = latest /\ Unreturned => sends[d] > 0 \/ stored.state # "assistant_active"
    BY <1>0, <2>1, <2>2 DEF Standing, EndingSteps
  <2> QED BY <1>1, <2>4, <2>5
<1> QED BY <1>3, <1>4

\* A folded message does not become the newest one again.
LEMMA FoldsSteady ==
    ASSUME CopyInv, Newest, TypeOK', NEW r \in Requests, Progress(r)
    PROVE  Folds'
<1>0. /\ Inv /\ TypeOK /\ WorkOfStep /\ Standing(r) /\ Folds
      /\ pc \in [Requests -> Steps] /\ work \in [Requests -> Work \cup {NoWork}]
      /\ folded \subseteq Deliveries \X (Deliveries \cup {NoDelivery})
  BY DEF CopyInv, Inv, TypeOK, Newest
<1>1. (RegisterTurn(r) \/ UNCHANGED latest) /\ (Fold(r) \/ UNCHANGED folded)
  BY <1>0, Effects
<1>2. \A t \in Requests \ {r} : pc'[t] = pc[t] /\ work'[t] = work[t]
  BY <1>0, OthersTurns, Effects DEF Retire
<1> SUFFICES ASSUME NEW f \in folded'
             PROVE  /\ f[1] # latest'
                    /\ processed'[f[1]].done \/ \E t \in Holders(f[1])' : pc'[t] = "completing"
  BY DEF Folds
<1>3. CASE f \in folded
  <2>1. PICK d \in Deliveries : d = f[1]
    BY <1>0, <1>3
  <2>2. d \in Messages /\ d \in Keys /\ d # Lock
    BY ConversationAssumption DEF Messages, Keys
  <2>3. d # latest /\ (processed[d].done \/ \E t \in Holders(d) : pc[t] = "completing")
    BY <1>0, <1>3, <2>1 DEF Folds
  <2>4. d # latest'
    <3> SUFFICES ASSUME RegisterTurn(r) PROVE d # work[r]
      BY <1>0, <1>1, <2>3, RegisteringWaits
    <3> SUFFICES ASSUME d = work[r] PROVE FALSE
      OBVIOUS
    <3>1. pc[r] = "registering" /\ ~processed[d].done /\ Holders(d) = {r}
      BY <1>0, <2>2, RegisteringWaits, InHand
    <3> QED BY <2>3, <3>1
  <2>5. CASE processed[d].done
    <3>1. processed'[d].done
      <4>1. PICK k \in Keys : Touches(r, k) \/ UNCHANGED processed
        <5>1. pc[r] # "idle" => work[r] \in Work
          BY <1>0 DEF WorkOfStep
        <5>2. CASE QuietMove(r)
          BY <2>2, <5>2 DEF QuietMove
        <5>3. CASE LockConversation(r) \/ SaveCommand(r)
          BY <5>3 DEF LockConversation, SaveCommand, Touches, Keys
        <5>4. CASE Finishing(r)
          BY <5>1, <5>4, <1>0, DeliveryStepNames
             DEF Finishing, Complete, Unlock, UnlockThenSettle, ReleaseDelivery, Settle, Touches, Keys,
                 Work, WorkOfStep
        <5> QED BY <1>0, <5>2, <5>3, <5>4, QuietHandling, QuietAnswering, QuietStaffing DEF Progress
      <4> QED BY <1>0, <2>2, <2>5, <4>1, DoneStays
    <3> QED BY <2>1, <2>4, <3>1
  <2>6. CASE \E t \in Holders(d) : pc[t] = "completing"
    <3>1. PICK t \in Holders(d) : pc[t] = "completing"
      BY <2>6
    <3>2. t \in Requests /\ work[t] = d
      BY <2>2, HoldersOfMessage
    <3>3. CASE t # r
      <4>1. pc'[t] = "completing" /\ work'[t] = d
        BY <1>2, <3>1, <3>2, <3>3
      <4>2. t \in Holders(d)'
        BY <2>2, <3>2, <4>1 DEF Holders
      <4> QED BY <2>1, <2>4, <4>1, <4>2
    <3>4. CASE t = r
      <4>1. Complete(r)
        BY <3>1, <3>4
         DEF Progress, Handling, RegisterTurn, Supersede, LockConversation, GiveUpWaiting, LoadConversation,
             SaveOpened, RefuseExpiredChoice, RecordInbound, FindChannelOut, SaveOutage, TellOutage,
             LeaveToStaff, Forward, WithdrawConsent, ActivateTurn, SaveStep, Telling,
             Answering, FindSuperseded, ReadHistory, ComposeAnswer, HandOver, RequestHandoff,
             UnknownChange, FindStaffReplied, SaveAnswered, Announce, RecheckTurn, CheckStaff,
             Send, SendCancelled, StoreChoices, Fold,
             Finishing, Unlock, UnlockThenSettle, ReleaseDelivery, Settle,
             Staffing, SaveTakeover, RelaySend, RecordRelay, SaveCommand
      <4>2. processed[d].owner = r
        BY <1>0, <2>2, <3>1, <3>4, OneHolder
      <4>3. processed' = [processed EXCEPT ![d] = CompleteEntry(@, r)] /\ processed \in [Keys -> Entry]
        BY <1>0, <3>2, <3>4, <4>1 DEF Complete, TypeOK
      <4>4. processed'[d].done
        BY <2>2, <4>2, <4>3 DEF CompleteEntry, Completed
      <4> QED BY <2>1, <2>4, <4>4
    <3> QED BY <3>3, <3>4
  <2> QED BY <2>3, <2>5, <2>6
<1>4. CASE f \notin folded
  <2>1. Fold(r) /\ f = <<work[r], latest>>
    BY <1>1, <1>4 DEF Fold
  <2>2. /\ pc[r] = "folding" /\ pc'[r] = "completing" /\ UNCHANGED <<latest, work>>
    BY <1>0, <2>1 DEF Fold, Goto
  <2>3. PICK d \in Deliveries : d = work[r]
    BY <1>0, <2>2, DeliveryStepNames DEF WorkOfStep
  <2>4. d # latest'
    BY <1>0, <2>2, <2>3 DEF Standing
  <2>5. r \in Holders(d)'
    BY <2>2, <2>3, ConversationAssumption DEF Holders
  <2> QED BY <2>1, <2>2, <2>3, <2>4, <2>5
<1> QED BY <1>3, <1>4

\* What the rest of the system does, as long as nothing fails, concerns none of it.
LEMMA NewestAround ==
    ASSUME CopyInv, Newest, TypeOK',
           \/ \E r \in Requests :
                 \/ \E d \in Deliveries : ReceiveDelivery(r, d)
                 \/ \E s \in StaffReplies : StartRelay(r, s)
                 \/ \E c \in Commands : StartCommand(r, c)
           \/ \E e \in Echoes : StaffWriteNatively(e) \/ RecordExternalReply(e)
           \/ Tick
           \/ UNCHANGED vars
    PROVE  Newest'
<1>0. /\ Inv /\ TypeOK /\ pc \in [Requests -> Steps] /\ turn \in [Requests -> Turn]
      /\ work \in [Requests -> Work \cup {NoWork}] /\ processed \in [Keys -> Entry]
      /\ stored \in Conversation /\ commands \in Nat
      /\ folded \subseteq Deliveries \X (Deliveries \cup {NoDelivery})
      /\ Early /\ Uncancelled /\ Folds /\ Finished /\ \A t \in Requests : Standing(t)
  BY ConversationAssumption DEF CopyInv, Inv, TypeOK, Newest
<1> DEFINE Start == \E r \in Requests, k \in Work :
                       ReceiveDelivery(r, k) \/ StartRelay(r, k) \/ StartCommand(r, k)
<1>1. \/ Start
      \/ \E e \in Echoes : StaffWriteNatively(e) \/ RecordExternalReply(e)
      \/ Tick
      \/ UNCHANGED vars
  BY DEF Work
<1>2. Early'
  BY <1>0, <1>1, EarlyAround
<1>3. \A d \in Deliveries : Within(d, WaitingSteps) => Within(d, WaitingSteps)'
  BY <1>0, <1>1, WithinAround
<1> DEFINE Calm ==
             /\ UNCHANGED <<latest, folded, active, sends>> /\ (Unreturned' => Unreturned)
             /\ stored.state # "assistant_active" => stored'.state # "assistant_active"
             /\ \A k \in Keys : processed'[k].done = processed[k].done
             /\ commands' = 0 => commands = 0
           Kept(t) ==
             /\ pc'[t] = pc[t] /\ work'[t] = work[t]
             /\ turn'[t].cancelled = turn[t].cancelled
             /\ turn'[t].conv.state = turn[t].conv.state
           Begun(t) ==
             /\ pc[t] = "idle" /\ ~turn'[t].cancelled
             /\ \/ pc'[t] = "registering" /\ work'[t] \notin Commands
                \/ pc'[t] = "locking" /\ work'[t] \notin Deliveries /\ work'[t] \notin Commands
                \/ pc'[t] = "locking" /\ work'[t] \notin Deliveries /\ commands' # 0
<1>4. Calm
  <2>1. ASSUME NEW r \in Requests, NEW k \in Work,
               ReceiveDelivery(r, k) \/ StartRelay(r, k) \/ StartCommand(r, k)
        PROVE  Calm
    <3>1. /\ UNCHANGED <<latest, folded, active, sends, stored>>
          /\ commands' = commands \/ commands' = commands + 1
      BY <2>1 DEF ReceiveDelivery, StartRelay, StartCommand, stores, bounds, history
    <3>2. \A j \in Keys : processed'[j].done = processed[j].done
      <4>1. CASE ReceiveDelivery(r, k) \/ StartRelay(r, k)
        <5>1. ~processed[k].done /\ processed' = [processed EXCEPT ![k] = ClaimedBy(r)]
          BY <4>1 DEF ReceiveDelivery, StartRelay, Claimable
        <5>2. ClaimedBy(r).done = FALSE
          BY DEF ClaimedBy
        <5>3. ASSUME NEW j \in Keys PROVE processed'[j].done = processed[j].done
          <6>1. CASE j = k
            <7>1. processed'[j] = ClaimedBy(r)
              BY <1>0, <5>1, <6>1
            <7>2. processed[j].done = FALSE
              BY <1>0, <5>1, <6>1 DEF Entry
            <7> QED BY <5>2, <7>1, <7>2
          <6>2. CASE j # k
            <7>1. processed'[j] = processed[j]
              BY <1>0, <5>1, <6>2
            <7> QED BY <7>1
          <6> QED BY <6>1, <6>2
        <5> QED BY <5>3
      <4>2. CASE StartCommand(r, k)
        BY <4>2 DEF StartCommand, stores
      <4> QED BY <2>1, <4>1, <4>2
    <3> QED BY <1>0, <3>1, <3>2 DEF Unreturned
  <2>2. CASE Tick
    <3>1. UNCHANGED <<latest, folded, active, sends, commands>> /\ stored' = Older(stored)
      BY <2>2 DEF Tick, bounds, history
    <3>2. \A j \in Keys : processed'[j].done = processed[j].done
      BY <1>0, <2>2 DEF Tick, Elapsed, Entry
    <3>3. Older(stored).state = stored.state
      BY <1>0 DEF Older, Conversation
    <3> QED BY <3>1, <3>2, <3>3 DEF Unreturned
  <2>3. ASSUME NEW e \in Echoes, RecordExternalReply(e) PROVE Calm
    <3>1. ObserveExternalReply(stored, e).state \in {stored.state, "human_active"}
      BY <1>0 DEF ObserveExternalReply, Conversation
    <3> QED BY <2>3, <3>1 DEF RecordExternalReply, Unreturned, bounds
  <2>4. CASE (\E e \in Echoes : StaffWriteNatively(e)) \/ UNCHANGED vars
    BY <2>4 DEF StaffWriteNatively, vars, stores, bounds, history, Unreturned
  <2> QED BY <1>1, <2>1, <2>2, <2>3, <2>4
<1>5. ASSUME NEW t \in Requests PROVE Kept(t) \/ Begun(t)
  <2>1. ASSUME NEW r \in Requests, NEW d \in Deliveries, ReceiveDelivery(r, d) PROVE Kept(t) \/ Begun(t)
    <3>1. /\ pc[r] = "idle" /\ pc' = [pc EXCEPT ![r] = "registering"]
          /\ work' = [work EXCEPT ![r] = d] /\ turn' = [turn EXCEPT ![r] = NewTurn]
      BY <1>0, <2>1 DEF ReceiveDelivery, Begin, Fresh, Goto
    <3>2. ~NewTurn.cancelled
      BY DEF NewTurn
    <3>3. CASE t = r
      BY <1>0, <3>1, <3>2, <3>3, ConversationAssumption
    <3>4. CASE t # r
      BY <1>0, <3>1, <3>4
    <3> QED BY <3>3, <3>4
  <2>2. ASSUME NEW r \in Requests, NEW s \in StaffReplies, StartRelay(r, s) PROVE Kept(t) \/ Begun(t)
    <3>1. /\ pc[r] = "idle" /\ pc' = [pc EXCEPT ![r] = "locking"]
          /\ work' = [work EXCEPT ![r] = s] /\ turn' = [turn EXCEPT ![r] = NewTurn]
      BY <1>0, <2>2 DEF StartRelay, Begin, Fresh, Goto
    <3>2. ~NewTurn.cancelled
      BY DEF NewTurn
    <3>3. CASE t = r
      BY <1>0, <3>1, <3>2, <3>3, ConversationAssumption
    <3>4. CASE t # r
      BY <1>0, <3>1, <3>4
    <3> QED BY <3>3, <3>4
  <2>3. ASSUME NEW r \in Requests, NEW c \in Commands, StartCommand(r, c) PROVE Kept(t) \/ Begun(t)
    <3>1. /\ pc[r] = "idle" /\ pc' = [pc EXCEPT ![r] = "locking"]
          /\ work' = [work EXCEPT ![r] = c] /\ turn' = [turn EXCEPT ![r] = NewTurn]
          /\ commands' # 0
      BY <1>0, <2>3 DEF StartCommand, Begin, Fresh, Goto
    <3>2. ~NewTurn.cancelled
      BY DEF NewTurn
    <3>3. CASE t = r
      BY <1>0, <3>1, <3>2, <3>3, ConversationAssumption
    <3>4. CASE t # r
      BY <1>0, <3>1, <3>4
    <3> QED BY <3>3, <3>4
  <2>4. CASE Tick
    <3>1. Older(turn[t].conv).state = turn[t].conv.state
      BY <1>0 DEF Older, Conversation, Turn
    <3>2. /\ UNCHANGED <<pc, work>>
          /\ turn'[t].cancelled = turn[t].cancelled /\ turn'[t].conv = Older(turn[t].conv)
      BY <1>0, <2>4 DEF Tick, Turn
    <3> QED BY <3>1, <3>2
  <2>5. CASE (\E e \in Echoes : StaffWriteNatively(e) \/ RecordExternalReply(e)) \/ UNCHANGED vars
    BY <2>5 DEF StaffWriteNatively, RecordExternalReply, request, vars
  <2> QED BY <2>1, <2>2, <2>3, <2>4, <2>5
<1>6. Uncancelled'
  BY <1>0, <1>4, <1>5 DEF Uncancelled
<1>7. Finished'
  <2>1. Deliveries \subseteq Keys
    BY DEF Keys
  <2> QED BY <1>0, <1>4, <2>1 DEF Finished
<1>8. Folds'
  <2> SUFFICES ASSUME NEW f \in folded
               PROVE  /\ f[1] # latest'
                      /\ processed'[f[1]].done \/ \E t \in Holders(f[1])' : pc'[t] = "completing"
    BY <1>4 DEF Folds
  <2>1. PICK d \in Deliveries : d = f[1]
    BY <1>0
  <2>2. d \in Keys /\ d # Lock
    BY ConversationAssumption DEF Keys
  <2>3. d # latest' /\ (processed[d].done \/ \E t \in Holders(d) : pc[t] = "completing")
    BY <1>0, <1>4, <2>1 DEF Folds
  <2>4. ASSUME NEW t \in Holders(d), pc[t] = "completing"
        PROVE  t \in Holders(d)' /\ pc'[t] = "completing"
    <3>1. t \in Requests /\ work[t] = d
      BY <2>2 DEF Holders
    <3>2. pc'[t] = "completing" /\ work'[t] = d
      BY <1>5, <2>4, <3>1
    <3> QED BY <2>2, <3>1, <3>2 DEF Holders
  <2> QED BY <1>4, <2>1, <2>2, <2>3, <2>4
<1>9. ASSUME NEW t \in Requests PROVE Standing(t)'
  <2>1. Standing(t)
    BY <1>0
  <2>2. CASE Kept(t)
    <3>1. Behind(t) => Behind(t)'
      <4>1. latest \in Deliveries /\ Within(latest, WaitingSteps) => Within(latest, WaitingSteps)'
        <5> SUFFICES ASSUME latest \in Deliveries, Within(latest, WaitingSteps)
                     PROVE  Within(latest, WaitingSteps)'
          OBVIOUS
        <5>1. PICK d \in Deliveries : d = latest
          OBVIOUS
        <5>2. Within(d, WaitingSteps)'
          BY <1>3, <5>1
        <5> QED BY <1>4, <5>1, <5>2
      <4> QED BY <1>4, <2>2, <4>1 DEF Behind
    <3> QED BY <1>4, <2>1, <2>2, <3>1 DEF Standing
  <2>3. CASE Begun(t)
    BY <2>3 DEF Standing, CheckedSteps, LeavingSteps, EndingSteps
  <2> QED BY <1>5, <2>2, <2>3
<1> QED BY <1>2, <1>6, <1>7, <1>8, <1>9 DEF Newest

\* Every step keeps what is known of the newest message, as long as nothing fails.
LEMMA NewestNext ==
    ASSUME Apart, NewestInv, [Next]_vars
    PROVE  NewestInv'
<1>0. CopyInv /\ CopyInv' /\ Inv /\ TypeOK /\ TypeOK'
  BY CopyNext DEF NewestInv, CopyInv, Inv
<1> SUFFICES ASSUME faults' = 0 PROVE Newest'
  BY <1>0 DEF NewestInv
<1>1. ASSUME NEW r \in Requests, Progress(r) PROVE Newest'
  <2>1. Newest
    BY <1>1, NoFailure DEF NewestInv
  <2>2. Early /\ Uncancelled
    BY <2>1 DEF Newest
  <2>3. Early' /\ Uncancelled' /\ Folds' /\ Finished'
    BY <1>0, <1>1, <2>1, <2>2, EarlySteady, ApartSteady, FoldsSteady, FinishedSteady
  <2>4. ASSUME NEW t \in Requests PROVE Standing(t)'
    BY <1>0, <1>1, <2>1, OwnStanding, OthersStand
  <2> QED BY <2>3, <2>4 DEF Newest
<1>2. CASE \/ \E r \in Requests :
                 \/ \E d \in Deliveries : ReceiveDelivery(r, d)
                 \/ \E s \in StaffReplies : StartRelay(r, s)
                 \/ \E c \in Commands : StartCommand(r, c)
           \/ \E e \in Echoes : StaffWriteNatively(e) \/ RecordExternalReply(e)
           \/ Tick
           \/ UNCHANGED vars
  <2>1. UNCHANGED faults
    BY <1>2, NoFailure DEF Work
  <2>2. Newest
    BY <2>1 DEF NewestInv
  <2> QED BY <1>0, <1>2, <2>2, NewestAround
<1>3. CASE (\E r \in Requests : Failing(r)) \/ (\E i \in Instances : Crash(i))
  BY <1>0, <1>3, FailuresShow
<1> QED BY <1>1, <1>2, <1>3 DEF Next, Redeliver, RedeliverStaff

\* Of several messages, the newest one is never folded into another, and once
\* everything has been handled it has been answered or left to staff, as long
\* as no call failed.  Service.Handle folds a turn only when the registered
\* inbound message is a newer one, and that newer message waits for the
\* conversation behind the turn that holds it.  Every request has an instance of
\* its own here: Service.Supersede cancels the turn of another request on the
\* same instance, and that one may be the newest, as TLC shows.
THEOREM NewestAreAnswered ==
    ASSUME Apart, Deliveries # {}
    PROVE  Spec => []NewestIsAnswered
<1>1. Init => NewestInv
  <2> SUFFICES ASSUME Init PROVE NewestInv
    OBVIOUS
  <2>0. CopyInv
    <3>1. /\ NewConversation \in Conversation /\ NewConversation.rev <= NewConversation.rev
          /\ "idle" \notin CopySteps
      BY NewConversationType DEF NewConversation, CopySteps
    <3>2. Copies
      BY <3>1, CopyRests DEF Init, Copies, NewTurn
    <3> QED BY <3>2, InvInit DEF CopyInv
  <2>1. /\ \A r \in Requests : pc[r] = "idle" /\ turn[r] = NewTurn /\ work[r] = NoWork
        /\ \A i \in Instances : active[i] = NoRequest
        /\ \A d \in Deliveries : ~processed[d].done
        /\ folded = {}
    BY DEF Init, Absent, Keys
  <2>2. Early /\ Uncancelled
    BY <2>1, ClaimStoreAssumption, StepRelations DEF Early, Uncancelled, NewTurn
  <2>3. Folds /\ Finished
    BY <2>1 DEF Folds, Finished
  <2>4. \A r \in Requests : Standing(r)
    BY <2>1, ConversationAssumption DEF Standing, CheckedSteps, LeavingSteps, EndingSteps
  <2> QED BY <2>0, <2>2, <2>3, <2>4 DEF NewestInv, Newest
<1>2. NewestInv => NewestIsAnswered
  <2> SUFFICES ASSUME NewestInv, AllHandled, faults = 0
               PROVE  /\ \A f \in folded : f[1] # latest
                      /\ folded = {} /\ commands = 0 /\ AssistantMayReply(stored) => sends[latest] > 0
    BY DEF NewestIsAnswered
  <2>1. Folds /\ Finished
    BY DEF NewestInv, Newest
  <2>2. PICK d \in Deliveries : processed[d].done
    BY DEF AllHandled
  <2>3. latest \in Deliveries /\ processed[latest].done
    BY <2>1, <2>2 DEF Finished, AllHandled
  <2> QED BY <2>1, <2>3 DEF Folds, Finished, Unreturned, AssistantMayReply
<1> QED BY <1>1, <1>2, NewestNext, PTL DEF Spec
=============================================================================
