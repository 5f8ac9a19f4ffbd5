# TLA+ specifications of the omnichannel booking assistant

The gateway answers salon customers on Telegram, WhatsApp and Instagram with a
language model that books appointments in Altegio, hands conversations over to
people, reminds customers of their appointments and notifies them of changes.
It runs as several interchangeable processes over a shared document store, and
everything that reaches it may reach it twice: webhooks are repeated until they
are acknowledged, delayed tasks are delivered at least once, and processes are
stopped at any moment. The specifications here are about the protocols that
make this safe. `PROJECT.json` maps every definition to the lines it models and
lists components, runs, mutants, hazards, findings and theorems.

## The system and its parts

| Part | State | Operations | Talks to | What is hard | What makes it correct |
|---|---|---|---|---|---|
| Conversation turns (`application/assistant`: service, interactions) | claims per delivery, conversation lock, newest registered turn, conversation document, in-process registry of active turns | Handle, acquire, supersede, run the model, send, complete, fold | event store, conversation store, senders, staff | redelivery, crashes, newer messages cancelling older turns, uncertain sends | one answer per message, the newest message is answered, nothing is lost |
| Handover and relay (handoff, relay, external_reply) | the conversation's mode and times, native replies seen | hand over, take, relay, resume, record a native reply | staff chat, channel inbox | colleagues act while a turn runs | the assistant does not talk over people; a handover is announced |
| Booking proposals (tools, management, change_confirmation, booking_verification; `domain/booking`) | the draft and the change draft in the conversation, local appointment records | prepare, confirm, cancel, reschedule | Altegio, reminders | retries of an unrepeatable call, superseded turns, stale appointments | nothing is booked or changed that was not confirmed, nothing twice |
| Catalogue and choices (catalogue_navigation, tools, choices) | the place in the catalogue, the numbered options of the last reply | press a number, name an option, go on and back, let the model look up | live catalogue, model | numbers typed late, choices that outlive what they belonged to | a number means what was shown; times belong to the treatment and specialist shown |
| Reminders (`application/reminders`) | reminder documents with a claim and a status | plan, reconcile, deliver, wake up | task queue, Altegio, senders | at-least-once tasks, moves, a delayed wake chained beyond the queue's horizon | one delivery at a time, no reminder lost, none for a past or moved appointment |
| Booking notifications (`application/notifications`: service, receipts) | event, delivery and appointment rows | ingest, deliver, take a receipt, fall back, reconcile | Altegio webhook, WhatsApp, SMS, Telegram | durable send intent, receipts racing sends, leases | one copy per change, none of an outdated one, every change dealt with |
| Contacts and permissions (`notifications`: links, routes) | rows per chat and per phone | link, unlink, allow, block, plan the routes | Telegram, WhatsApp | two rows found by different keys, read before they are written | a notice goes only to who proved the phone and has not withdrawn |
| SMS watch (`notifications/sms_receipts.go`) | the event's SMS state, alert reservation | look up, reserve, tell staff | SMS gateway, staff | overlapping runs of the job, doubtful alerts | staff are told once |
| Channel health (`notifications/health.go`) | per channel: lease, blocked, alerted | probe, block on a refused send, pause | provider account, staff | a probe racing an operator's pause | an old answer never overwrites a newer decision |
| Studio account (`adapters/messaging/telegramaccount`) | one row: session, lease, pause | lease, load, connect, store, install | Telegram | a send that stalls past its lease | an installed session is never replaced by an older one |
| Cabinet identity (`application/cabinet`) | challenge, attempts, budgets, verified phone | begin, send, confirm, accept contact | SMS | guessing limits and budgets over windows | a code can be guessed a bounded number of times per hour |
| Staff inbox (`adapters/messaging/telegram/inbox.go`, Firestore inbox) | saved pages | list, page, open, read history | staff chat | lists that move while they are read | a walk misses nothing that was there when it began |
| Stores (`adapters/persistence`) | documents above | transactions, leases, versions | Firestore | lost acknowledgements, stale versions | a lease has one owner; a stale copy is never saved |
| Task queues (`adapters/tasks`) | none of their own | schedule, deliver | HTTP endpoints | duplicates, delays, refused names | environment of the others |
| Channel and Altegio adapters | none (HTTP) | send, parse, create, change | providers | classification of unknown outcomes | inputs of the others |
| Prompt, audio, links, texts, calendar | none | render | model | formatting | - |
| Gateway wiring, configuration, commands | none | start | all | - | - |
| Web booking site (`deployments/web-booking`) | SQL tables | book, verify, notify | Altegio, SMS | a second implementation of booking | - |

The parts share state rather than messages: a turn holds the conversation's
lock for as long as it runs, and everything else that changes the conversation
either takes the same lock (relay, staff commands) or writes a document with an
expected version (native replies, which must not wait). Reminders and notices
run in their own requests, woken by the task queue, and meet the rest only in
the store and in the calendar.

## Modules

* `ClaimStore` - the pure part of the leases: what `Claim`, `Complete` and
  `Release` of the event store do to one document.
* `ExclusiveWork` - the abstract specification: a key is in the hands of at
  most one request, and finished work is never taken up again. No leases, no
  time, no crashes.
* `ConversationTurns` - one conversation served by several instances.
  `Service.Handle`, `RelayStaffReply` and `RunStaffCommand` are split at every
  call to a store, a sender or the model; the name in `pc` is the call the
  request is about to make. A request keeps what the Go function keeps in
  local variables: its copy of the conversation, whether its context was
  cancelled by a newer message, whether it has a reason to tell staff. The
  stores are the claim documents (`processed`), the newest registered turn
  (`latest`), the conversation with its version (`stored`), the transcript and
  the native replies (`echo`); `active` is the in-process registry. `sends`,
  `lost`, `folded`, `told` and `seen` are history: no action reads them. `acknowledged`
  belongs to the providers: the messages whose last copy was answered with success
  although their completion is not recorded.
* `BookingConfirmation` - what a conversation's turns do to the customer's
  appointments. It stands on `LockExclusive`: one turn runs at a time, while
  messages arrive, supersede it or are redelivered. `saved` is the
  conversation document (draft, change, mode, revision, owner), `turn` what the
  running turn keeps in memory, `local` the appointment records of the store,
  `calendar` and `taken` Altegio. Some texts ("yes", "no", a code, "my
  visits", browsing) are answered by the application before any model is
  asked; everything else reaches the model, which may call any tool with any
  arguments. The call to Altegio is a step of its own (`creating`, `changing`)
  so that anything can happen between the check and the call, and every way a
  call can end is an action: made, refused, unknown, failed, or the process
  stopped. `dead`, `shown`, `told` and `held` are history.
* `Reminders` - the reminder documents (`reminders`), the task queue (`queue`, and
  `names` it refuses), the calendar and the local record of the appointment,
  and the deliveries (`work`), split at every call: claim, read the appointment,
  send, record. Times are absolute and small; a wake beyond `MaxTaskDelay` is
  chained. A task endpoint that answers with an error is dispatched again.
* `NotificationOutbox` - the rows of one appointment: what was last prepared
  (`record`), an event per change (`events`), and the ledger of its sends
  (`deliveries`). `Deliver` of the code is split at every transaction and every
  call of a provider; `fate` is the WhatsApp message of each event, whose
  receipts arrive at any time. `resumeFailedWhatsApp` and the claim are one
  action because the second uses nothing of the first. The set `open` of
  permitted routes stands for what the next two modules decide.
* `ContactPermissions` - the four kinds of rows a customer's answer is kept in,
  and `Routes`, what a notice is planned from. A link reads the chat's row, and
  in a later transaction changes the rows of both phones.
* `ChannelHealth` - the guard row of a channel: probes under a lease, a refused
  send that blocks, an operator who edits the row.
* `SmsWatch` - the job that watches an SMS after the gateway took it, its
  reservation of the alert and the alert's outcome.
* `StudioAccount` - the leased session of the studio's own Telegram account.
* `CabinetIdentity` - challenges, codes, budgets, attempts, shared contacts.
* `StaffInbox` - saved pages and cursors over lists that move.
* `CatalogueDialogue` - where the customer is in the catalogue, what the last
  reply offered (`presented`), what a number, a name or a lookup of the model
  makes of it, and what a failed save or send leaves.
* `NotificationStore` - the constants the modules over the notification store
  share.
* `MCConversationTurns`, `MCBookingConfirmation`, `MCReminders`,
  `MCNotificationOutbox`, `MCParts` - the instances for TLC. `MCParts` takes
  seven parts that share no state: a behaviour runs one of them, so that one
  run checks all without multiplying their states.
* `*_proofs` - the theorems about the module of that name; `NotificationStore_proofs` has those about the five
  modules over the notification store, `MCParts_proofs` brings those about the seven parts together.

In `ConversationTurns` time is relative: a document stores the ticks it has left, so a state does not
grow with time. A tick stands for the unit in which a request lives
`TurnTimeout` ticks and a claim `ClaimTTL`; only `TurnTimeout < ClaimTTL`
is assumed (two minutes and five in the code). Calls made with a context of
their own after the turn's context ended add seconds, well inside the difference.

What the model decides is left open: a composed turn may answer, hand over,
report an unknown change, or do something else that ends the same way. The
content of messages, the consent flags and the choices offered are not state;
the saves they cause are. The staff channel is taken to be configured.

Transactions of the notification and reminder repositories are single steps:
Firestore runs them serialisably. Between two of them, and around every call to
a provider, anything else may happen.

## Runs

| Run | Shows |
|---|---|
| `turns` | two messages, two instances, two failures: exclusive leases, one answer per message, the newest one answered or left to staff, and the leases refine `ExclusiveWork` |
| `staff` | a message, a relayed reply, a native reply and a staff command race with one failure: the assistant falls silent on a takeover and no stale save undoes it |
| `liveness` | two messages on one instance, where the newer cancels the older turn: handovers are announced once the messages are handled, and under `FairSpec`, with one failure, every message is settled (recorded, or answered with success by the request that worked it off) and every handover reaches staff |
| `telegram_retry` (violation) | the Telegram sender never reports an uncertain outcome, so a lost acknowledgement sends an answer twice |
| `late_supersede` (violation) | a slow older request cancels a newer turn of the same instance; neither message is answered |
| `overtaken_message` (violation) | the lock is not a queue: an older message can be folded without having been read |
| `booking` | two messages, a failure or crash and an action of a colleague or another customer: one appointment per proposal, each confirmed by another message, proposals put aside stay so, unknown outcomes are handed over |
| `agreed_unseen` (violation) | a proposal whose summary was never sent is saved by its superseded turn and confirmed by the next message |
| `reminders` | an appointment is moved, cancelled or deleted, tasks are duplicated, delayed or lost, a delivery fails or crashes: one delivery at a time, duplicates have a named cause, what is sent is current, every reminder ends |
| `notices` | an appointment changes while its notices are sent over two routes by two workers, receipts overtake records: one copy per change, none outdated, confirmed failures are acted on, every change is dealt with |
| `forgotten_failure` (violation) | a failure receipt between the recording of the send and the closing of the event is undone by the closing |
| `parts` | contacts, cabinet, health guard, SMS watch, studio account, staff inbox and the choosing of a treatment, each on its own, with overlapping requests and crashes |

### Bounds

`ConversationTurns`: two requests suffice for every race of this protocol, as every step
concerns one request and the single lock; a third message would only repeat
the relation of the second to the first. `ClaimTTL = 2` and `TurnTimeout = 1`
are the smallest values in which a lease can be running, about to expire and
expired while a request is still alive or dead. `MaxFaults` counts failures, lost
acknowledgements, crashes and slow attempts: with two, a retry of a
failed attempt can fail too. `MaxCommands = 1` admits one staff command, which
can fall anywhere in a turn. Liveness is checked with one failure, because
a provider that fails for ever delivers nothing.

`BookingConfirmation`: two messages are a proposal and its answer, and the
initial states add an appointment from an earlier conversation, so that a
single message can already change one. Two slots and two phones make "another
time" and "another phone" possible. `MaxTools = 1` tool per turn suffices because
what a tool leaves in the turn's copy is saved, and the next turn may start from it;
the one pair only a single turn can hold, preparing and confirming in one message, also
arises when the message is redelivered. `MaxDraftAge = 0` and `Horizon = 1` let
every proposal expire and every early slot pass by one tick. One failure and one outside event
are enough for a retry after each partial outcome with the world changed
in between. `AnswersUnreadable` and `RepeatsRecognised` are the two assumptions about Altegio
that the code does not enforce: `booking` takes the favourable value of both. The code itself
says at `altegio/record.go:57-60` that nothing guarantees the second, and it is what keeps a
redelivered confirmation from booking twice or from calling its own appointment somebody else's.

`Reminders`: one appointment with two possible starts, so that it can be moved and moved
back; one start lies beyond the queue's horizon (`MaxTaskDelay = 1` against 29 days), so its wake is
chained. `Lease = 2`, `RequestTime = 1` are the smallest values in which a claim can expire
under a delivery that crashed and not under one that runs. `RequestTime + Skew < Lease` is what
the code's numbers say: every HTTP client times out after 10 to 15 seconds, a delivery makes a handful
of calls, the claim lasts five minutes. `Tick` waits for a planning that is under way, because a
turn plans reminders at once. Two workers are a delivery and its duplicate.

`NotificationOutbox`: two changes give an event that is overtaken by another one, two workers a
delivery and its duplicate, two routes a fallback. One outside change (`MaxEvents`) can fall
between the two readings, between the second and the send, or after it. One fault is a doubtful
answer, a crash, a lease outlived, or a provider that contradicts itself. With three routes the
state space is too large for a run that is repeated often; it was checked with one change, and
the theorem covers every number of routes.

`parts`: two chats, two phones and two requests are what it takes for a phone to move between chats
while both are being linked; six operations allow a link, a withdrawal and a relink on both. Two
sends, probes or jobs are what overlaps; the fault bounds allow each of them to fail at its worst
step. Pages of one entry make every list longer than a page. `MaxGuesses = 6`, for each phone, exceeds the attempts
of one window (`MaxSends * MaxAttempts = 4`), so that the limit is reached and tried beyond. The inbox
begins with no conversation and two clock values, so that conversations begin and move while a walk over three is under way.

### Fairness

Turns: `WF(Progress(r))`: a request that can take a step does, since the runtime schedules every
goroutine and every call has a deadline. `WF(Repeat(d))`: providers repeat a message that the
webhook has not answered with success: the handlers answer with an error when `Handle` does
(`telegram/handler.go:216-229`, `meta/handler.go:231-246`), which includes a copy that finds the
delivery busy (`firestore/store.go:604`). It is not assumed of a message answered with success. That
happens although nothing was recorded when only the recording failed (`service.go:724-726`,
`service.go:898-906`), so `EveryDeliverySettles` does not promise a record: a message is settled
when it is recorded, or when its provider saw a success from a request that kept the claim. The
answer of the webhook may be lost (`AnswerWebhook`), and then the message is repeated. A needless
copy of a message already answered with success may come too; its provider then waits for another
answer. `WF(Tick)`: time passes. Failures, crashes and colleagues are never forced.
`HandoverReachesStaff` counts a notice whose failure was logged as told, as the code does, and is
checked without unknown changes (see the divergences).

Reminders: `WF(Deliver(w))` as above; `WF(Plan(r))`: a turn that saved an appointment goes on to plan
its reminders; `SF` of the dispatch of some task of a reminder: Cloud Tasks repeats a task until it
is acknowledged, and a worker that is busy now and then is free again and again, so weak fairness
would not do; `WF(Tick)`. A task can be lost, and nothing but the next start of an instance
(`Reconcile`) restores it, which no fairness can promise: `ChainAlive` and `EveryReminderEnds`
leave out reminders whose task was lost (`adrift`).

Notices: `WF(Deliver(w))`, `SF` of the dispatch of some task of an event for the same reason, `WF(Reconcile(e))`: a
Cloud Scheduler job runs it every few minutes, and `WF` of the end of a lease nobody works under.

## What is proved

For every value of the constants that satisfies each module's named assumption.

* `ConversationTurns_proofs`: `TypeCorrectness`, `LeasesCoverRequests`, `LockExclusion` (mutual
  exclusion on the conversation) and `ClaimsImplementExclusiveWork` (the leases, under the refinement mapping at the
  end of `ConversationTurns`, are a behaviour of `ExclusiveWork`), assuming `TurnTimeout < ClaimTTL`.
  `LockExclusive` is not inductive: nothing in it says why a lease taken over
  after its expiry could not belong to a request that still runs. The inductive
  invariant is `TypeOK /\ WorkOfStep /\ LeaseCoversRequest`: a request in a locked
  step owns the lock's document with more ticks left than its own budget.
  Every tick takes one from both, a claim starts at `ClaimTTL` against a budget of at
  most `TurnTimeout`, and a document with ticks left cannot be claimed, so two requests in
  locked steps would both be the single owner.
  Four further invariants rest on this one:
  - `CopyInv` relates each request's copy of the conversation to the document. Only a recorded native
    reply changes the document under the holder of the lock; it raises the revision, so that a copy
    with a current revision is a copy of the conversation as it is. Hence `TakeoversHold` and `TakeoversSilence`.
  - `CountInv` ties what the provider accepted to the one request that holds the message's claim.
    Hence `MessagesAnsweredOnce`, for a sender that reports uncertain outcomes (`SendErrorsClassified`);
    `telegram_retry` is what happens otherwise.
  - `NoticeInv`: as long as nothing failed, a handover that staff have not been told of is owed by a turn that is about to
    tell them, or by a newer message that has yet to get the conversation. Hence `HandoffsAreAnnounced`, without changes of
    unknown outcome (`~UnknownChanges`, see the divergences).
  - `NewestInv`: as long as nothing failed, a turn past its first check is the newest one or has a newer one waiting
    behind it, so what it saves never puts the assistant back in charge of a newest message that was
    left to staff. Hence `NewestAreAnswered`, when no two requests share an instance (`Apart`): on a shared one a slow
    request may cancel the newest turn, which is the run `late_supersede`. That there is a message at all
    (`Deliveries # {}`) only keeps the property from speaking of no message's answer.
* `BookingConfirmation_proofs`: six invariants and `UnresolvedGoesToStaff`, from one inductive invariant,
  `BookingInv`. The properties speak of the calendar and of the saved conversation, but a proposal also lives in the copy of
  the running turn. `BookingInv` says that both copies mean the same by the same key (`Agree`), that
  the keys of drafts and of changes never meet in the calendar (`Sound`), that a turn whose copy is out of date cannot save it (`Control`), and
  that a turn about to say that the time was taken holds no draft (`Reported`). `ProposalsBookOnce` and
  `RefusalsAreTrue` assume `RepeatsRecognised`, and `UnresolvedGoesToStaff` assumes `~AnswersUnreadable`, the
  two things the code hopes of Altegio; the other four assume nothing of it.
* `Reminders_proofs`: `OneDelivery` and `DuplicatesExplained`. A delivery between its claim and its
  record owns the claim (`Held`) and ends before it (`InTime`); whoever finds the claim expired
  therefore reads a clock at which its holder has ended, and the holder counts for at most one
  message, so every further one is excused by a lost record (`Accounted`). `WatchInv` adds what a delivery has read of its
  appointment: `RemindersAreCurrent` and `MovesAreReplanned`. `ChainInv` adds that a task name the queue refuses
  belongs to a task that is still in it, if it is yet to come: `ChainNeverBreaks`, for clocks that
  agree (`Skew = 0`); with skew it is false, see the divergences. The earliest wake-up of a set exists by well-foundedness.
* `NotificationOutbox_proofs`: `OneCopyPerEvent`. The ledger of an event goes with what became of its messages
  (`Book`): as long as it allows another attempt nothing has reached the customer and nothing is on
  its way. A delivery about to send or to record knows more than the ledger (`Errand`) and, unless it
  has outlived its lease, is the only one of its event (`Single`). No assumption on the number or
  order of routes, on workers or on faults. `NoticeInv` adds that a row is prepared once, by the delivery that holds
  it (`Knows`), that what an undisturbed delivery has read stays true (`UpToDate`), and that only a late success, which is final,
  closes a row under a delivery (`Closed`): `NoticesAreCurrent` and `FailuresAreSeen`.
* `NotificationStore_proofs`, each part by an inductive invariant that includes its types:
  - contacts: `RoutesAreProven` and `WithdrawalsHold`. A link joins two rows found by different keys; every
    transaction that moves a chat also visits the row of the phone it had.
  - health: `AnswersAreCurrent`. The row's owner is always a probe that began after the last refused send
    (`OwnerIsCurrent`). `AlertsHaveReasons`: staff get at most one alert for each thing that happened to the channel and one for the
    first report. An answer waiting to be stored and the provider's state may each differ from the row; together with
    the alerts these differences never outnumber the changes (`AlertsAreFew`), as answers are stored in the order they were given.
  - SMS: `StaffAreToldOnce`. While the row awaits a verdict nobody has been told and nobody is telling; whoever tells
    holds the row's one reservation.
  - account: `SessionSurvives`. A send the row names as owner works with the session the row holds.
  - cabinet: `GuessesAreLimited`. The chats' budgets do not bound the guesses at a phone, as any number of chats may try it; its own
    budget does. Every code sent to a phone is charged to that budget and brings `MaxAttempts` guesses, made or still left to some
    chat; the ones left are counted as a set of pairs (`Left`), not as a sum over chats. Cancelling, beginning again and letting codes expire only throw guesses away (`PaidFor`), and no window
    ends without its hour (`WindowsEnded`). Assumes that chats and phones are different names.
* `StaffInbox_proofs`: `NothingIsMissed`, for finite lists and any page length above zero. The property speaks of walks that have
  ended; the inductive `WalkInv` of every page: all its walk still owes lies under the place where the page ends, and
  nothing its walk has shown does. The next page takes the first entries under that place, so what is under its own end is
  the rest (`PageSplits`, `FirstOnes`). A conversation that moves is neither owed nor counted as
  seen any more. That the lists have first entries is by well-foundedness.
* `CatalogueDialogue_proofs`: `TimesGoTogether` and `NoOlderDraft`, because every way of moving a place keeps it `Good` (one lemma per
  menu, move and tool): with times on offer, date, specialist and treatment are the ones asked for together, and the proposal
  is not older than the treatment. `NumbersAreThoseSeen`, from `NumbersInv`: in the window between a reply and its record the numbers
  agree with the turn and not with the conversation, unless a colleague's reply made the turn stale. For any finite catalogue,
  page lengths above zero and a `Nothing` that is no date.
* `MCParts_proofs`: a behaviour of the seven parts side by side is a behaviour of each alone (`PartsBehave`), hence `PartsTypes`: all
  of them keep their types.

So every invariant and every step property that a run checks is proved for all values of the constants that meet the named
assumptions, and the conditions written in the property itself. Only model-checked: liveness (`EveryDeliverySettles`, `HandoverReachesStaff`,
`EveryReminderEnds`, `EventsEnd`), which needs fairness and `ENABLED`, out of the prover's reach. `NewestIsAnswered` and
`HandoffIsAnnounced` say nothing once a call has failed: a failed turn is retried by its provider, which is liveness.
The proofs rest on the assumptions stated with `ASSUME` in the modules, which TLC evaluates in every run that uses them.

## Known divergences

Five are runs of their own (`telegram_retry`, `late_supersede`, `overtaken_message`,
`agreed_unseen`, `forgotten_failure`) and are described in `PROJECT.json`. The following were met
while modelling. The first follows from the actions named, the next four can be seen by changing
constants of a run; the others were read in the code and lie outside what the modules keep, or are
excluded by a property's stated condition.

* "No" to a change forgets the change; "no" to the draft of a new appointment forgets nothing. The message goes to the model, the
  draft stays, and a later "yes" within the hour books it (`service.go:978-983`, `service.go:1004-1010`). No text of the repository
  promises otherwise. `DroppedStaysDropped` and its theorem speak of proposals that were put aside (`dead`), and such a draft is not.
  In the model these are the steps `AskModel` on "no" and, with a third message, `SayYesToBooking`.
* A change of an appointment with an unknown outcome hands over without a reason, and staff are told
  only when there is one (`management.go:335`; `README.md:363-365` of the repository). In `liveness.cfg`: `UnknownChanges =
  TRUE`, `MaxFaults = 0`; `HandoffIsAnnounced` fails.
* A creation answered unreadably, or with a server error, is taken for a failed tool: an appointment may exist and
  nobody is asked (`altegio/client.go:312`, `altegio/record.go:60-62`). In `booking.cfg`: `AnswersUnreadable = TRUE`; `UnresolvedIsHandedOver` fails.
* A wake that comes before its time by the service's clock computes the name of the task it is running under; the
  queue refuses the name, the refusal counts as success (`cloudtasks/scheduler.go:155-157`), and the chain ends. In `reminders.cfg`:
  `Skew = 1`, `Lease = 3`; `ChainAlive` fails. The next start of an instance may still find the reminder. The comment at
  `reminders/service.go:26-28` takes the chain as unbroken.
* With three routes, a delivery that outlives its two-minute lease writes its outcome over what the next delivery recorded
  (`notifications/service.go:496-505`); a WhatsApp failure confirmed afterwards reopens the event although Telegram took the
  notice, and the third route sends it again. In `notices.cfg`: three routes, `MaxChanges = 1`, `MaxEvents = 0`, and `OneCopy` over all
  events instead of `Events \ overlapped` (`docs/altegio-notifications.md:81-82`).
* After an appointment is booked the treatment, specialist and page are reset but not the date and the phase
  (`tools.go:934-935`), and the instructions offer the model the old date with no treatment (`service.go:1028-1029`).
* A customer who was blocked, then asks for notices again and shares the contact, is told that the chat is linked
  (`telegram/notifications.go:139-142`), but `LinkTelegram` returned early (`notifications/service.go:610-612`; `docs/native-notifications.md:146-147`).
* Linking a chat to another phone erases the row of the older phone with its withdrawal, so the studio account may write to
  it again (`WithdrawalHolds` leaves that route out; comment at `notifications/service.go:394`, `docs/native-notifications.md:135-136`).
* A contact shared for notices while a cabinet challenge waits is taken for the challenge. A crash between the reservation
  of a staff alert (SMS or health) and its sending loses the alert.
* A crash between saving an appointment and planning its reminders leaves it without any (`tools.go:961`).
* A crash between sending a notice to the staff chat and linking it to its conversation (`telegram/inbox.go:222-231`,
  `telegram/staff.go:99-107`) makes replies to it ignored (`handler.go:275-278`). The notifier follows a migrated staff chat, the handler does not.
  "Take" and "resume" take effect although showing the page then fails (`inbox.go:67-78`).
* Catalogue: choosing another specialist clears neither a waiting proposal nor the date (`catalogue_navigation.go:294-299`); the instructions
  ascribe the model's own lookups to the customer's buttons (`service.go:1022-1027`); a redelivered "next" or "back" is applied
  twice when the first copy stopped between its save and its send.
* A change that is undone before it is read (A, B, A) and then made again is taken for known; two changes within a second
  compare as equal; recovery and the retry of unrouted notices read one hundred rows in no particular order.
* An older message that gets the lock only after a handover has lapsed resumes the conversation for the assistant, then finds that a newer
  message was registered and is folded, with that resumption saved (`service.go:475-486`, `service.go:520-543`). If the newer
  message had been left to staff, the assistant never answers it, although the conversation is the assistant's again. In `turns.cfg`:
  `Echoes = {e1}`, and `NewestIsAnswered` without the condition `folded = {}`.

## Plan

Done: `ConversationTurns` with its refinement, `BookingConfirmation`, `Reminders`, `NotificationOutbox` and the seven
smaller parts, with every safety property of their runs proved. Left: reminders sent through the outbox, which would join
`Reminders` and `NotificationOutbox`; the web booking site.

## Not modelled

* What the language model decides is a choice; the wording of prompts, menus, notices and reminders, prices, languages and links,
  audio, parsing of provider payloads, configuration, start-up and deployment hold no protocol state.
* Lists and look-ups that only read, profiles, deletion of expired rows, the one-shot operator commands.
* Reminder events that go through the booking outbox, opt-in texts, "sent" receipts (no evidence) and "read" ones (as delivered).
* The in-memory store and the local scheduler, which development uses; both keep fewer promises than Firestore and Cloud Tasks.
* Small simplifications: a conversation whose customer changes is cleared when the proved phone changes, not on every new
  customer id; a failure to schedule the fallback after a receipt is left to reconciliation, which finds the same row; the alert time of
  an SMS is compared exactly, although the store keeps microseconds; a refused send blocks the channel at once.
* Names a queue refuses are kept until the task is lost; Cloud Tasks forgets them after about an hour, which only helps.
* The web booking site, a separate program in another language with a store of its own.
