---------------------------- MODULE ChannelHealth ---------------------------
(***************************************************************************)
(* The health guard of one channel: a row of the notification store that   *)
(* every instance reads before it sends.                                   *)
(*                                                                         *)
(* A probe takes a lease, asks the provider, and stores what it was told.  *)
(* A send that the provider refuses for its credentials blocks the channel *)
(* at once, and an operator may pause it by editing the row; either can    *)
(* happen while a probe is on its way.                                     *)
(***************************************************************************)
EXTENDS NotificationStore, Integers

CONSTANTS
    Probes,      \* probes that may run at once: the reconciliation job's and
                 \* those of sends that find the row due for a lookup
    MaxChanges   \* bound: changes at the provider and by the operator

ASSUME HealthAssumption == None \notin Probes /\ MaxChanges \in Nat

VARIABLES
    channel,  \* what the provider would report, and do, now
    row,      \* the guard's row
    probe,    \* the probes
    alerts,   \* notices to staff decided on and not yet sent
    changes,
    current   \* history: the probes begun since the last refused send

healthVars == <<channel, row, probe, alerts, changes, current>>

\* "limited": no proactive messages, or a template that is not approved.
Condition == {"good", "limited", "blocked"}

Rows == [owner : Probes \cup {None},
         leased : BOOLEAN,             \* the lease has not run out
         due : BOOLEAN,                \* NextLookupAt has come
         paused : BOOLEAN,             \* by the operator
         health : Condition \cup {"unknown"}]

HealthTypeOK ==
    /\ channel \in Condition
    /\ row \in Rows
    /\ probe \in [Probes -> {"idle", "reading", "failed", "alerting"} \cup Condition]
    /\ alerts \in 0..(MaxChanges + 1)
    /\ changes \in 0..MaxChanges
    /\ current \subseteq Probes

HealthInit ==
    /\ channel = "good"
    /\ row = [owner |-> None, leased |-> FALSE, due |-> TRUE, paused |-> FALSE,
              health |-> "unknown"]
    /\ probe = [p \in Probes |-> "idle"]
    /\ alerts = 0
    /\ changes = 0
    /\ current = {}

Change ==
    /\ changes < MaxChanges
    /\ changes' = changes + 1

-----------------------------------------------------------------------------
\* An empty template asks for a customer-initiated reply.
Allows(health, template) ==
    health # "blocked" /\ (template => health # "limited")

\* What every send asks first; a failed lookup leaves the last known answer.
MaySendNow(template) == ~row.paused /\ Allows(row.health, template)

Claimable == ~row.paused /\ ~row.leased /\ row.due

ClaimProbe(p) ==
    /\ probe[p] = "idle"
    /\ Claimable
    /\ row' = [row EXCEPT !.owner = p, !.leased = TRUE]
    /\ probe' = [probe EXCEPT ![p] = "reading"]
    /\ current' = current \cup {p}
    /\ UNCHANGED <<channel, alerts, changes>>

\* The provider answers, or no answer can be read.
Read(p) ==
    /\ probe[p] = "reading"
    /\ \E answer \in {channel, "failed"} : probe' = [probe EXCEPT ![p] = answer]
    /\ UNCHANGED <<channel, row, alerts, changes, current>>

Holds(p) == row.owner = p

ReleasedToOwner == [row EXCEPT !.leased = FALSE]

Released == [row EXCEPT !.owner = None, !.leased = FALSE]

\* Staff hear of a difference, except of a first report that all is well.
Newsworthy(answer) ==
    answer # row.health /\ (row.health # "unknown" \/ answer # "good")

Stored(p) ==
    CASE ~Holds(p) -> row
      [] Holds(p) /\ row.paused -> Released
      [] Holds(p) /\ ~row.paused /\ probe[p] = "failed" ->
            [Released EXCEPT !.due = FALSE]
      [] OTHER -> [Released EXCEPT !.due = FALSE, !.health = probe[p]]

Store(p) ==
    /\ probe[p] \in Condition \cup {"failed"}
    /\ row' = Stored(p)
    /\ LET alert == /\ Holds(p) /\ ~row.paused /\ probe[p] # "failed"
                    /\ Newsworthy(probe[p])
       IN  /\ alerts' = IF alert THEN alerts + 1 ELSE alerts
           /\ probe' = [probe EXCEPT ![p] = IF alert THEN "alerting" ELSE "idle"]
    /\ UNCHANGED <<channel, changes, current>>

\* The alert was reserved with the change: one that fails is not repeated.
Alert(p) ==
    /\ probe[p] = "alerting"
    /\ probe' = [probe EXCEPT ![p] = "idle"]
    /\ UNCHANGED <<channel, row, alerts, changes, current>>

\* A send is refused for its credentials; the channel's own account is
\* blocked.
Block ==
    /\ channel = "blocked"
    /\ Change
    /\ row' = [Released EXCEPT !.health = "blocked", !.due = FALSE]
    /\ current' = {}
    /\ UNCHANGED <<channel, probe, alerts>>

-----------------------------------------------------------------------------
(* The surroundings.                                                       *)

\* An operator pauses the channel, or lets it go, by editing the row.
Operator ==
    /\ Change
    /\ row' = [row EXCEPT !.paused = ~@]
    /\ UNCHANGED <<channel, probe, alerts, current>>

ChannelChanges ==
    /\ Change
    /\ channel' \in Condition \ {channel}
    /\ UNCHANGED <<row, probe, alerts, current>>

\* The clock reaches the next lookup, or the end of a lease whose probe
\* crashed or stalls.
Tick ==
    /\ \/ ~row.due /\ row' = [row EXCEPT !.due = TRUE]
       \/ row.leased /\ row' = [row EXCEPT !.leased = FALSE]
    /\ UNCHANGED <<channel, probe, alerts, changes, current>>

CrashProbe(p) ==
    /\ probe[p] # "idle"
    /\ Change
    /\ probe' = [probe EXCEPT ![p] = "idle"]
    /\ UNCHANGED <<channel, row, alerts, current>>

HealthNext ==
    \/ \E p \in Probes : \/ ClaimProbe(p) \/ Read(p) \/ Store(p) \/ Alert(p)
                         \/ CrashProbe(p)
    \/ Block \/ Operator \/ ChannelChanges \/ Tick

HealthSpec == HealthInit /\ [][HealthNext]_healthVars

-----------------------------------------------------------------------------
\* What a probe was told is stored only if no send has been refused since
\* the probe began, and not while the operator has paused the channel: an
\* answer that is older than a restriction never lifts it (Refresh's second
\* transaction, Block).
ProbeIsCurrent ==
    \A p \in Probes :
        Store(p) /\ row'.health # row.health => p \in current /\ ~row.paused

\* ProbeIsCurrent, of every step.
ProbesAreCurrent == [][ProbeIsCurrent]_healthVars
=============================================================================
