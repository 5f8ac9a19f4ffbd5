------------------------------ MODULE SmsWatch ------------------------------
(***************************************************************************)
(* Watching a booking notice that was handed to the SMS gateway.           *)
(*                                                                         *)
(* The gateway accepts a message long before the telephone sends it.  The  *)
(* reconciliation job asks for its state every few minutes for a day, and  *)
(* tells staff when it failed.  The alert is reserved in the store before  *)
(* it is sent; only an alert that was definitely rejected is sent again.   *)
(***************************************************************************)
EXTENDS NotificationStore, Integers

CONSTANTS
    Jobs,       \* runs of the reconciliation job that may overlap
    MaxSmsFaults \* bound: crashes, failed lookups and doubtful alerts

ASSUME SmsAssumption == None \notin Jobs /\ MaxSmsFaults \in Nat

VARIABLES
    message,  \* the message at the gateway
    event,    \* the notice's row in the store
    job,      \* the runs
    day,      \* whether a day has passed since the notice was accepted
    smsFaults,
    told      \* history: alerts that staff received

smsVars == <<message, event, job, day, smsFaults, told>>

Events == [outcome : {"accepted", "alert_retryable", "failed", "delivered",
                      "unconfirmed"},
           owner : Jobs \cup {None}, leased : BOOLEAN, due : BOOLEAN,
           reserved : Jobs \cup {None}]   \* who reserved the alert

SmsTypeOK ==
    /\ message \in {"queued", "delivered", "failed"}
    /\ event \in Events
    /\ job \in [Jobs -> {"idle", "asking", "queued", "delivered", "failed",
                         "unread", "alerting", "rejected"}]
    /\ day \in BOOLEAN
    /\ smsFaults \in 0..MaxSmsFaults
    /\ told \in 0..(MaxSmsFaults + 1)

SmsInit ==
    /\ message = "queued"
    /\ event = [outcome |-> "accepted", owner |-> None, leased |-> FALSE,
                due |-> TRUE, reserved |-> None]
    /\ job = [j \in Jobs |-> "idle"]
    /\ day = FALSE
    /\ smsFaults = 0
    /\ told = 0

SmsFault ==
    /\ smsFaults < MaxSmsFaults
    /\ smsFaults' = smsFaults + 1

-----------------------------------------------------------------------------
AwaitingSMS == event.outcome \in {"accepted", "alert_retryable"}

Claimed(j) ==
    IF event.outcome = "alert_retryable"
    THEN [event EXCEPT !.outcome = "failed", !.reserved = j,
                       !.owner = None, !.leased = FALSE, !.due = FALSE]
    ELSE [event EXCEPT !.owner = j, !.leased = TRUE, !.due = FALSE]

\* An alert that was rejected is reserved anew; any other notice is asked for.
CheckSMS(j) ==
    /\ job[j] = "idle"
    /\ AwaitingSMS /\ ~event.leased /\ event.due
    /\ event' = Claimed(j)
    /\ job' = [job EXCEPT ![j] = IF event.outcome = "alert_retryable"
                                 THEN "alerting" ELSE "asking"]
    /\ UNCHANGED <<message, day, smsFaults, told>>

Ask(j) ==
    /\ job[j] = "asking"
    /\ \/ job' = [job EXCEPT ![j] = message] /\ UNCHANGED smsFaults
       \/ job' = [job EXCEPT ![j] = "unread"] /\ SmsFault
    /\ UNCHANGED <<message, event, day, told>>

VerdictOfOne(answer) ==
    CASE answer = "failed" -> "alert_retryable"
      [] answer = "delivered" /\ day -> "delivered"
      [] answer \in {"queued", "unread"} /\ day -> "unconfirmed"
      [] OTHER -> event.outcome

\* Delivered may mean one part of several, so the watch goes on to the end of
\* the day for a later failure.
Verdict(answer) ==
    CASE answer = "failed" -> "failed"
      [] answer = "delivered" /\ day -> "delivered"
      [] answer \in {"queued", "unread"} /\ day -> "unconfirmed"
      [] OTHER -> event.outcome

Record(j) ==
    /\ job[j] \in {"queued", "delivered", "failed", "unread"}
    /\ LET mine == event.owner = j /\ AwaitingSMS
           alert == mine /\ job[j] = "failed" /\ event.reserved = None
       IN  /\ event' = IF mine
                       THEN [event EXCEPT !.owner = None, !.leased = FALSE,
                                !.outcome = Verdict(job[j]),
                                !.reserved = IF alert THEN j ELSE @]
                       ELSE event
           /\ job' = [job EXCEPT ![j] = IF alert THEN "alerting" ELSE "idle"]
    /\ UNCHANGED <<message, day, smsFaults, told>>

\* Telegram takes the alert, rejects it, or the answer is lost either way.
SendAlert(j) ==
    /\ job[j] = "alerting"
    /\ \/ /\ told' = told + 1
          /\ job' = [job EXCEPT ![j] = "idle"]
          /\ UNCHANGED smsFaults
       \/ /\ SmsFault
          /\ job' = [job EXCEPT ![j] = "rejected"]
          /\ UNCHANGED told
       \/ /\ SmsFault
          /\ job' = [job EXCEPT ![j] = "idle"]
          /\ told' \in {told, told + 1}
    /\ UNCHANGED <<message, event, day>>

ReleaseAlert(j) ==
    /\ job[j] = "rejected"
    /\ event' = IF event.reserved = j /\ event.outcome = "failed"
                THEN [event EXCEPT !.outcome = "alert_retryable", !.reserved = None]
                ELSE event
    /\ job' = [job EXCEPT ![j] = "idle"]
    /\ UNCHANGED <<message, day, smsFaults, told>>

-----------------------------------------------------------------------------
(* The surroundings.                                                       *)

MessageMoves ==
    /\ \/ message = "queued" /\ message' \in {"delivered", "failed"}
       \/ message = "delivered" /\ message' = "failed"
    /\ UNCHANGED <<event, job, day, smsFaults, told>>

SmsTick ==
    /\ \/ ~event.due /\ event' = [event EXCEPT !.due = TRUE] /\ UNCHANGED day
       \/ event.leased /\ event' = [event EXCEPT !.leased = FALSE] /\ UNCHANGED day
       \/ ~day /\ day' = TRUE /\ UNCHANGED event
    /\ UNCHANGED <<message, job, smsFaults, told>>

CrashJob(j) ==
    /\ job[j] # "idle"
    /\ SmsFault
    /\ job' = [job EXCEPT ![j] = "idle"]
    /\ UNCHANGED <<message, event, day, told>>

SmsNext ==
    \/ \E j \in Jobs : \/ CheckSMS(j) \/ Ask(j) \/ Record(j) \/ SendAlert(j)
                       \/ ReleaseAlert(j) \/ CrashJob(j)
    \/ MessageMoves \/ SmsTick

SmsSpec == SmsInit /\ [][SmsNext]_smsVars

-----------------------------------------------------------------------------
\* Staff are told at most once that a notice failed, whatever jobs overlap,
\* crash or do not learn the fate of their alert (checkSMS's reservation).
ToldOnce == told <= 1
=============================================================================
