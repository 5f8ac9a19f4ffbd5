----------------------- MODULE NotificationStore_proofs ---------------------
(***************************************************************************)
(* Proofs about five parts that keep their rows in the notification store: *)
(* ChannelHealth, SmsWatch, StudioAccount, CabinetIdentity and             *)
(* ContactPermissions.  They share no variable and no lemma.  The          *)
(* constants are arbitrary: any number of probes, runs of the job, sends,  *)
(* chats, phones and requests, of crashes and of lost answers.             *)
(***************************************************************************)
EXTENDS ChannelHealth, SmsWatch, StudioAccount, CabinetIdentity, ContactPermissions,
        FiniteSetTheorems, TLAPS

-----------------------------------------------------------------------------
(***************************************************************************)
(* Channel health.                                                         *)
(*                                                                         *)
(* A probe stores what it was told only while the row names it as owner.   *)
(* The owner is always a probe that began after the last refused send,     *)
(* because the refusal takes the row away from whoever had it              *)
(* (OwnerIsCurrent).  ProbesAreCurrent is about steps, so the invariant    *)
(* supplies the state they start from.  AlertsAreFew is what bounds the    *)
(* alerts: answers reach the row in the order in which they were given.    *)
(***************************************************************************)
\* The probe that the row names began after the last refused send.
OwnerIsCurrent == \A p \in Probes : row.owner = p => p \in current

OwnerInv == row \in Rows /\ OwnerIsCurrent

\* Whatever is stored leaves a row, and leaves it to nobody or as it was.
LEMMA StoredRow ==
    ASSUME row \in Rows, NEW p \in Probes, probe[p] \in Condition \cup {"failed"}
    PROVE  Stored(p) \in Rows /\ Stored(p).owner \in {None, row.owner}
<1>1. CASE ~Holds(p)
      BY <1>1 DEF Stored
<1>2. CASE Holds(p) /\ row.paused
      BY <1>2 DEF Stored, Released, Rows
<1>3. CASE Holds(p) /\ ~row.paused /\ probe[p] = "failed"
      BY <1>3 DEF Stored, Released, Rows
<1>4. CASE Holds(p) /\ ~row.paused /\ probe[p] # "failed"
  <2>1. Stored(p) = [Released EXCEPT !.due = FALSE, !.health = probe[p]]
        BY <1>4 DEF Stored
  <2>2. QED BY <1>4, <2>1 DEF Released, Rows
<1>5. QED BY <1>1, <1>2, <1>3, <1>4

\* The row and its owner.
LEMMA OwnerStep == OwnerInv /\ [HealthNext]_healthVars => OwnerInv'
<1> SUFFICES ASSUME OwnerInv, [HealthNext]_healthVars
             PROVE  OwnerInv'
    OBVIOUS
<1> USE HealthAssumption DEF OwnerInv, OwnerIsCurrent
<1>1. ASSUME NEW p \in Probes, ClaimProbe(p)
      PROVE  OwnerInv'
  <2>1. row' \in Rows /\ row'.owner = p
        BY <1>1 DEF ClaimProbe, Rows
  <2>2. QED BY <1>1, <2>1 DEF ClaimProbe
<1>2. ASSUME NEW p \in Probes, Store(p)
      PROVE  OwnerInv'
  <2>1. row' \in Rows /\ row'.owner \in {None, row.owner}
        BY <1>2, StoredRow DEF Store
  <2>2. QED BY <1>2, <2>1 DEF Store
<1>3. CASE Block
  <2>1. row' \in Rows /\ row'.owner = None
        BY <1>3 DEF Block, Released, Rows, Condition
  <2>2. QED BY <2>1
<1>4. CASE Operator \/ Tick
  <2>1. row' \in Rows /\ row'.owner = row.owner
        BY <1>4 DEF Operator, Tick, Rows
  <2>2. QED BY <1>4, <2>1 DEF Operator, Tick
<1>5. ASSUME NEW p \in Probes, Read(p) \/ Alert(p) \/ CrashProbe(p)
      PROVE  OwnerInv'
      BY <1>5 DEF Read, Alert, CrashProbe
<1>6. CASE ChannelChanges
      BY <1>6 DEF ChannelChanges
<1>7. CASE UNCHANGED healthVars
      BY <1>7 DEF healthVars
<1>8. QED BY <1>1, <1>2, <1>3, <1>4, <1>5, <1>6, <1>7 DEF HealthNext

\* What the provider said to the owner of the row, or would say.
Coming ==
    IF row.owner \in Probes /\ probe[row.owner] \in Condition
    THEN probe[row.owner] ELSE channel

Differ(a, b) == IF a = b THEN 0 ELSE 1

\* Every alert, and every alert that is still to come if nothing changes any
\* more, has a change of its own, except for the first report.
AlertsAreFew ==
    alerts + Differ(row.health, Coming) + Differ(Coming, channel) <= changes + 1

HealthInv == HealthTypeOK /\ OwnerIsCurrent /\ AlertsAreFew

LEMMA HealthStarts == HealthInit => HealthInv
<1> SUFFICES ASSUME HealthInit
             PROVE  HealthInv
    OBVIOUS
<1>1. alerts = 0 /\ changes = 0 /\ 0 \in 0..MaxChanges /\ 0 \in 0..(MaxChanges + 1)
      BY HealthAssumption DEF HealthInit
<1>2. row \in Rows /\ row.owner = None
      BY DEF HealthInit, Rows
<1>3. HealthTypeOK
      BY <1>1, <1>2 DEF HealthInit, HealthTypeOK, Condition
<1>4. OwnerIsCurrent
      BY <1>2, HealthAssumption DEF OwnerIsCurrent
<1>5. AlertsAreFew
  <2>1. Coming = channel
        BY <1>2, HealthAssumption DEF Coming
  <2>2. QED BY <1>1, <2>1 DEF AlertsAreFew, Differ
<1>6. QED BY <1>3, <1>4, <1>5 DEF HealthInv

LEMMA DifferType ==
    ASSUME NEW a, NEW b, NEW c
    PROVE  /\ Differ(a, b) \in {0, 1} /\ Differ(a, a) = 0
           /\ Differ(a, c) <= Differ(a, b) + Differ(b, c)
BY DEF Differ

\* An answer that is given up leaves no more to tell than it had.
LEMMA FewerToTell ==
    ASSUME HealthInv, row'.health = row.health, channel' = channel, alerts' = alerts,
           changes' \in Nat, changes' >= changes, Coming' \in {Coming, channel}
    PROVE  AlertsAreFew'
<1> DEFINE h == row.health
           k == Coming
           l == Coming'
<1>1. /\ alerts \in Nat /\ changes \in Nat
      /\ alerts + Differ(h, k) + Differ(k, channel) <= changes + 1
      BY HealthAssumption DEF HealthInv, HealthTypeOK, AlertsAreFew
<1>2. l \in {k, channel}
      OBVIOUS
<1>3. AlertsAreFew' <=> alerts + Differ(h, l) + Differ(l, channel) <= changes' + 1
      BY DEF AlertsAreFew, Differ
<1> HIDE DEF h, k, l
<1>4. Differ(h, l) + Differ(l, channel) <= Differ(h, k) + Differ(k, channel)
      BY <1>2 DEF Differ
<1>5. /\ Differ(h, l) \in {0, 1} /\ Differ(l, channel) \in {0, 1}
      /\ Differ(h, k) \in {0, 1} /\ Differ(k, channel) \in {0, 1}
      BY DifferType
<1>6. QED BY <1>1, <1>3, <1>4, <1>5

LEMMA AlertsStep ==
    ASSUME HealthInv, [HealthNext]_healthVars
    PROVE  AlertsAreFew'
<1>a. /\ HealthTypeOK /\ row \in Rows /\ alerts \in Nat /\ changes \in Nat
      /\ channel \in Condition /\ AlertsAreFew
      BY HealthAssumption DEF HealthInv, HealthTypeOK
<1>b. \A p \in Probes : probe[p] \in {"idle", "reading", "failed", "alerting"} \cup Condition
      BY <1>a DEF HealthTypeOK
<1>c. {"idle", "reading", "failed", "alerting"} \cap Condition = {}
      BY DEF Condition
<1>d. changes + 1 \in Nat /\ changes + 1 >= changes
      BY <1>a
<1>1. ASSUME NEW p \in Probes, ClaimProbe(p)
      PROVE  AlertsAreFew'
  <2>1. row'.owner = p /\ row'.health = row.health
        BY <1>a, <1>1 DEF ClaimProbe, Rows
  <2>2. probe'[p] = "reading"
        BY <1>a, <1>1 DEF ClaimProbe, HealthTypeOK
  <2>3. Coming' = channel
        BY <1>1, <1>c, <2>1, <2>2 DEF Coming, ClaimProbe
  <2>4. channel' = channel /\ alerts' = alerts /\ changes' = changes
        BY <1>1 DEF ClaimProbe
  <2>5. QED BY <1>a, <2>1, <2>3, <2>4, FewerToTell
<1>2. ASSUME NEW p \in Probes, Read(p)
      PROVE  AlertsAreFew'
  <2>1. PICK answer \in {channel, "failed"} : probe' = [probe EXCEPT ![p] = answer]
        BY <1>2 DEF Read
  <2>2. channel' = channel /\ alerts' = alerts /\ changes' = changes /\ row' = row
        BY <1>2 DEF Read
  <2>3. \A q \in Probes : probe'[q] = IF q = p THEN answer ELSE probe[q]
        BY <1>a, <2>1 DEF HealthTypeOK
  <2>4. Coming' \in {Coming, channel}
        BY <1>c, <2>1, <2>2, <2>3 DEF Coming
  <2>5. QED BY <1>a, <2>2, <2>4, FewerToTell
<1>3. ASSUME NEW p \in Probes, Store(p)
      PROVE  AlertsAreFew'
  <2> DEFINE alert == /\ Holds(p) /\ ~row.paused /\ probe[p] # "failed"
                      /\ Newsworthy(probe[p])
  <2>1. /\ channel' = channel /\ changes' = changes /\ row' = Stored(p)
        /\ probe[p] \in Condition \cup {"failed"}
        /\ alerts' = IF alert THEN alerts + 1 ELSE alerts
        /\ probe' = [probe EXCEPT ![p] = IF alert THEN "alerting" ELSE "idle"]
        BY <1>3 DEF Store
  <2>2. /\ probe'[p] \notin Condition
        /\ \A q \in Probes : q # p => probe'[q] = probe[q]
        BY <1>a, <1>c, <2>1 DEF HealthTypeOK
  <2>3. CASE ~Holds(p)
    <3>1. row' = row /\ alerts' = alerts
          BY <2>1, <2>3 DEF Stored
    <3>2. Coming' = Coming
          BY <2>1, <2>2, <2>3, <3>1 DEF Coming, Holds
    <3>3. QED BY <1>a, <2>1, <3>1, <3>2, FewerToTell
  <2>4. CASE Holds(p) /\ (row.paused \/ probe[p] = "failed")
    <3>1. row' = Released \/ row' = [Released EXCEPT !.due = FALSE]
          BY <2>1, <2>4 DEF Stored
    <3>2. row'.health = row.health /\ row'.owner = None /\ alerts' = alerts
          BY <1>a, <2>1, <2>4, <3>1 DEF Released, Rows
    <3>3. Coming' = channel
          BY <2>1, <3>2, HealthAssumption DEF Coming
    <3>4. QED BY <1>a, <2>1, <3>2, <3>3, FewerToTell
  <2>5. CASE Holds(p) /\ ~row.paused /\ probe[p] # "failed"
    <3>1. row' = [Released EXCEPT !.due = FALSE, !.health = probe[p]]
          BY <2>1, <2>5 DEF Stored
    <3>2. row'.health = probe[p] /\ row'.owner = None
          BY <1>a, <3>1 DEF Released, Rows
    <3>3. Coming = probe[p]
          BY <2>1, <2>5 DEF Coming, Holds
    <3>4. Coming' = channel
          BY <2>1, <3>2, HealthAssumption DEF Coming
    <3>5. alerts' <= alerts + Differ(row.health, probe[p]) /\ alerts' \in Nat
          BY <1>a, <2>1 DEF Newsworthy, Differ
    <3>6. alerts + Differ(row.health, probe[p]) + Differ(probe[p], channel) <= changes + 1
          BY <1>a, <3>3 DEF AlertsAreFew
    <3>7. /\ Differ(row.health, probe[p]) \in {0, 1} /\ Differ(probe[p], channel) \in {0, 1}
          /\ Differ(channel, channel) = 0
          BY DifferType
    <3>8. alerts' + Differ(probe[p], channel) + Differ(channel, channel) <= changes + 1
          BY <1>a, <3>5, <3>6, <3>7
    <3>9. QED BY <2>1, <3>2, <3>4, <3>8 DEF AlertsAreFew, Differ
  <2>6. QED BY <2>3, <2>4, <2>5
<1>4. CASE Block
  <2>1. /\ row'.owner = None /\ row'.health = "blocked" /\ channel' = "blocked"
        /\ alerts' = alerts /\ changes' = changes + 1
        BY <1>4, <1>a DEF Block, Released, Rows, Change
  <2>2. Coming' = "blocked"
        BY <2>1, HealthAssumption DEF Coming
  <2>3. alerts <= changes + 1
        BY <1>a, DifferType DEF AlertsAreFew
  <2>4. QED BY <1>a, <2>1, <2>2, <2>3 DEF AlertsAreFew, Differ
<1>5. CASE Operator
  <2>1. /\ row'.owner = row.owner /\ row'.health = row.health /\ probe' = probe
        /\ channel' = channel /\ alerts' = alerts /\ changes' = changes + 1
        BY <1>5, <1>a DEF Operator, Rows, Change
  <2>2. Coming' = Coming
        BY <2>1 DEF Coming
  <2>3. QED BY <1>d, <2>1, <2>2, FewerToTell
<1>6. CASE Tick
  <2>1. /\ row'.owner = row.owner /\ row'.health = row.health /\ probe' = probe
        /\ channel' = channel /\ alerts' = alerts /\ changes' = changes
        BY <1>6, <1>a DEF Tick, Rows
  <2>2. Coming' = Coming
        BY <2>1 DEF Coming
  <2>3. QED BY <1>a, <2>1, <2>2, FewerToTell
<1>7. CASE ChannelChanges
  <2>1. row' = row /\ probe' = probe /\ alerts' = alerts /\ changes' = changes + 1
        BY <1>7 DEF ChannelChanges, Change
  <2>2. (Coming = channel /\ Coming' = channel') \/ Coming' = Coming
        BY <2>1 DEF Coming
  <2> DEFINE h == row.health
             k == Coming
             l == Coming'
             d == channel'
  <2>3. alerts + Differ(h, k) + Differ(k, channel) <= changes + 1
        BY <1>a DEF AlertsAreFew
  <2>4. AlertsAreFew' <=> alerts + Differ(h, l) + Differ(l, d) <= changes + 2
        BY <1>a, <2>1 DEF AlertsAreFew, Differ
  <2>5. (k = channel /\ l = d) \/ l = k
        BY <2>2
  <2> HIDE DEF h, k, l, d
  <2>6. Differ(h, l) + Differ(l, d) <= Differ(h, k) + Differ(k, channel) + 1
        BY <2>5 DEF Differ
  <2>7. /\ Differ(h, l) \in {0, 1} /\ Differ(l, d) \in {0, 1}
        /\ Differ(h, k) \in {0, 1} /\ Differ(k, channel) \in {0, 1}
        BY DifferType
  <2>8. QED BY <1>a, <2>3, <2>4, <2>6, <2>7
<1>8. ASSUME NEW p \in Probes, Alert(p) \/ CrashProbe(p)
      PROVE  AlertsAreFew'
  <2>1. /\ channel' = channel /\ alerts' = alerts /\ row' = row
        /\ changes' \in {changes, changes + 1} /\ probe' = [probe EXCEPT ![p] = "idle"]
        BY <1>8 DEF Alert, CrashProbe, Change
  <2>2. \A q \in Probes : probe'[q] = IF q = p THEN "idle" ELSE probe[q]
        BY <1>a, <2>1 DEF HealthTypeOK
  <2>3. Coming' \in {Coming, channel}
        BY <1>c, <2>1, <2>2 DEF Coming
  <2>4. QED BY <1>a, <1>d, <2>1, <2>3, FewerToTell
<1>9. CASE UNCHANGED healthVars
      BY <1>a, <1>9 DEF healthVars, AlertsAreFew, Coming, Differ
<1>10. QED BY <1>1, <1>2, <1>3, <1>4, <1>5, <1>6, <1>7, <1>8, <1>9 DEF HealthNext

LEMMA HealthTypesStep ==
    ASSUME HealthInv, [HealthNext]_healthVars, row' \in Rows, AlertsAreFew'
    PROVE  HealthTypeOK'
<1>a. /\ HealthTypeOK /\ row \in Rows /\ alerts \in Nat /\ changes \in Nat
      /\ MaxChanges \in Nat
      BY HealthAssumption DEF HealthInv, HealthTypeOK
<1>b. probe \in [Probes -> {"idle", "reading", "failed", "alerting"} \cup Condition]
      BY <1>a DEF HealthTypeOK
<1>1. changes' \in 0..MaxChanges
  <2>1. changes' = changes \/ Change
        BY DEF HealthNext, ClaimProbe, Read, Store, Alert, CrashProbe, Block, Operator,
               ChannelChanges, Tick, healthVars
  <2>2. CASE Change
        BY <1>a, <2>2 DEF Change, HealthTypeOK
  <2>3. QED BY <1>a, <2>1, <2>2 DEF HealthTypeOK
<1>2. alerts' \in 0..(MaxChanges + 1)
  <2>1. alerts' \in {alerts, alerts + 1}
        BY DEF HealthNext, ClaimProbe, Read, Store, Alert, CrashProbe, Block, Operator,
               ChannelChanges, Tick, healthVars
  <2>2. /\ alerts' \in Nat /\ changes' \in Nat /\ changes' <= MaxChanges
        BY <1>a, <1>1, <2>1
  <2>3. alerts' <= changes' + 1
    <3> DEFINE a == alerts'
               n == changes'
               u == Differ(row'.health, Coming')
               v == Differ(Coming', channel')
    <3>1. u \in {0, 1} /\ v \in {0, 1} /\ a \in Nat /\ n \in Nat
          BY <2>2, DifferType
    <3>2. a + u + v <= n + 1
          BY DEF AlertsAreFew, Differ
    <3> HIDE DEF a, n, u, v
    <3>3. a <= n + 1
          BY <3>1, <3>2
    <3>4. QED BY <3>3 DEF a, n
  <2>4. alerts' <= MaxChanges + 1 /\ MaxChanges + 1 \in Nat
    <3> DEFINE a == alerts'
               n == changes'
    <3>1. a \in Nat /\ n \in Nat /\ n <= MaxChanges /\ a <= n + 1
          BY <2>2, <2>3
    <3> HIDE DEF a, n
    <3>2. a <= MaxChanges + 1 /\ MaxChanges + 1 \in Nat
          BY <1>a, <3>1
    <3>3. QED BY <3>2 DEF a
  <2>5. QED BY <2>2, <2>4
<1>3. channel' \in Condition
      BY <1>a DEF HealthTypeOK, HealthNext, ClaimProbe, Read, Store, Alert, CrashProbe, Block,
                  Operator, ChannelChanges, Tick, healthVars
<1>4. probe' \in [Probes -> {"idle", "reading", "failed", "alerting"} \cup Condition]
  <2>1. CASE UNCHANGED probe
        BY <1>b, <2>1
  <2>2. ASSUME NEW p \in Probes,
               NEW w \in {"idle", "reading", "failed", "alerting"} \cup Condition,
               probe' = [probe EXCEPT ![p] = w]
        PROVE  probe' \in [Probes -> {"idle", "reading", "failed", "alerting"} \cup Condition]
        BY <1>b, <2>2
  <2>3. ASSUME NEW p \in Probes, Read(p)
        PROVE  probe' \in [Probes -> {"idle", "reading", "failed", "alerting"} \cup Condition]
    <3>1. PICK w \in {channel, "failed"} : probe' = [probe EXCEPT ![p] = w]
          BY <2>3 DEF Read
    <3>2. w \in {"idle", "reading", "failed", "alerting"} \cup Condition
          BY <1>a, <3>1 DEF HealthTypeOK
    <3>3. QED BY <2>2, <3>1, <3>2
  <2>4. ASSUME NEW p \in Probes, ClaimProbe(p) \/ Store(p) \/ Alert(p) \/ CrashProbe(p)
        PROVE  probe' \in [Probes -> {"idle", "reading", "failed", "alerting"} \cup Condition]
    <3>1. \E w \in {"idle", "reading", "alerting"} : probe' = [probe EXCEPT ![p] = w]
          BY <2>4 DEF ClaimProbe, Store, Alert, CrashProbe
    <3>2. QED BY <2>2, <3>1
  <2>5. QED BY <2>1, <2>3, <2>4 DEF HealthNext, Block, Operator, ChannelChanges, Tick,
                                    healthVars
<1>5. current' \subseteq Probes
  <2>1. current \subseteq Probes
        BY <1>a DEF HealthTypeOK
  <2>2. QED BY <2>1 DEF HealthNext, ClaimProbe, Read, Store, Alert, CrashProbe, Block,
                        Operator, ChannelChanges, Tick, healthVars
<1>6. QED BY <1>1, <1>2, <1>3, <1>4, <1>5 DEF HealthTypeOK

LEMMA HealthStep == HealthInv /\ [HealthNext]_healthVars => HealthInv'
<1> SUFFICES ASSUME HealthInv, [HealthNext]_healthVars
             PROVE  HealthInv'
    OBVIOUS
<1>1. OwnerInv
      BY DEF HealthInv, HealthTypeOK, OwnerInv
<1>2. row' \in Rows /\ OwnerIsCurrent'
      BY <1>1, OwnerStep DEF OwnerInv
<1>3. AlertsAreFew'
      BY AlertsStep
<1>4. QED BY <1>2, <1>3, HealthTypesStep DEF HealthInv

\* A probe that changes the known health owns the row, which is not paused.
LEMMA OnlyOwnerStores ==
    ASSUME NEW p \in Probes, Store(p), row'.health # row.health, row \in Rows
    PROVE  row.owner = p /\ ~row.paused
<1>1. row' = Stored(p)
      BY DEF Store
<1>2. Holds(p)
      BY <1>1 DEF Stored
<1>3. Released.health = row.health
      BY DEF Released, Rows
<1>4. ~row.paused
      BY <1>1, <1>2, <1>3 DEF Stored
<1>5. QED BY <1>2, <1>4 DEF Holds

\* The inductive invariant holds in every reachable state.
THEOREM HealthInvariance == HealthSpec => []HealthInv
BY HealthStarts, HealthStep, PTL DEF HealthSpec

\* An answer older than a refused send, or one that comes while the operator
\* has paused the channel, never changes the known health (Refresh's second
\* transaction, Block).
THEOREM AnswersAreCurrent == HealthSpec => ProbesAreCurrent
<1>1. HealthInv => ProbeIsCurrent
      BY OnlyOwnerStores DEF HealthInv, HealthTypeOK, OwnerIsCurrent, ProbeIsCurrent
<1>2. QED BY HealthInvariance, <1>1, PTL DEF ProbesAreCurrent

\* Staff get at most one alert for each thing that happened to the channel (a
\* change at the provider, a refused send, an operator's edit, a crash) and
\* one for the first report, however probes overlap and stall: an answer that
\* says the same as the last one is no news, and no older answer comes after
\* a newer one (Refresh).
THEOREM AlertsHaveReasons == HealthSpec => [](alerts <= changes + 1)
<1>1. HealthInv => alerts <= changes + 1
  <2> SUFFICES ASSUME HealthInv PROVE alerts <= changes + 1 OBVIOUS
  <2>1. alerts \in Nat /\ changes \in Nat
        BY HealthAssumption DEF HealthInv, HealthTypeOK
  <2>2. /\ Differ(row.health, Coming) \in {0, 1} /\ Differ(Coming, channel) \in {0, 1}
        BY DifferType
  <2>3. alerts + Differ(row.health, Coming) + Differ(Coming, channel) <= changes + 1
        BY DEF HealthInv, AlertsAreFew
  <2>4. QED BY <2>1, <2>2, <2>3
<1>2. QED BY HealthInvariance, <1>1, PTL

-----------------------------------------------------------------------------
(***************************************************************************)
(* The watch over a notice by SMS.                                         *)
(*                                                                         *)
(* ToldOnce is not inductive: it does not say that nobody is about to tell *)
(* staff again.  The row decides: while it still awaits a verdict nobody   *)
(* has been told and nobody is telling, and whoever tells holds the row's  *)
(* one reservation (AlertIsReserved).                                      *)
(***************************************************************************)
\* A run that tells staff, or learned that its alert was rejected, reserved
\* the alert, and staff have not heard of the failure.
AlertIsReserved ==
    \A j \in Jobs : job[j] \in {"alerting", "rejected"} =>
        event.reserved = j /\ event.outcome = "failed" /\ told = 0

\* A notice whose fate is open has no reservation, and staff have not heard.
NothingToldYet == AwaitingSMS => told = 0 /\ event.reserved = None

SmsInv == SmsTypeOK /\ AlertIsReserved /\ NothingToldYet /\ ToldOnce

Telling == AlertIsReserved /\ NothingToldYet /\ ToldOnce

LEMMA SmsStarts == SmsInit => SmsInv
<1> SUFFICES ASSUME SmsInit
             PROVE  SmsInv
    OBVIOUS
<1>1. event \in Events
      BY DEF SmsInit, Events
<1>a. day \in BOOLEAN
      BY DEF SmsInit
<1>b. 0 \in 0..MaxSmsFaults /\ 0 \in 0..(MaxSmsFaults + 1)
      BY SmsAssumption
<1>2. SmsTypeOK
      BY <1>1, <1>a, <1>b DEF SmsInit, SmsTypeOK
<1>3. AlertIsReserved /\ NothingToldYet /\ ToldOnce
      BY DEF SmsInit, AlertIsReserved, NothingToldYet, ToldOnce
<1>4. QED BY <1>2, <1>3 DEF SmsInv

\* The verdict on an answer is one of the outcomes of a row.
LEMMA VerdictType ==
    ASSUME SmsTypeOK, NEW answer
    PROVE  Verdict(answer) \in {"accepted", "alert_retryable", "failed", "delivered",
                                "unconfirmed"}
BY DEF SmsTypeOK, Events, Verdict

LEMMA TellingStep == SmsInv /\ [SmsNext]_smsVars => Telling'
<1> SUFFICES ASSUME SmsInv, [SmsNext]_smsVars
             PROVE  Telling'
    OBVIOUS
<1> USE SmsAssumption
        DEF SmsInv, SmsTypeOK, Events, Telling, AlertIsReserved, NothingToldYet,
            AwaitingSMS, ToldOnce, SmsFault
<1>1. ASSUME NEW j \in Jobs, CheckSMS(j)
      PROVE  Telling'
  <2>1. CASE event.outcome = "alert_retryable"
        BY <1>1, <2>1 DEF CheckSMS, Claimed
  <2>2. CASE event.outcome # "alert_retryable"
        BY <1>1, <2>2 DEF CheckSMS, Claimed
  <2>3. QED BY <2>1, <2>2
<1>2. ASSUME NEW j \in Jobs, Ask(j)
      PROVE  Telling'
      BY <1>2 DEF Ask
<1>3. ASSUME NEW j \in Jobs, Record(j)
      PROVE  Telling'
  <2>1. CASE event.owner = j /\ AwaitingSMS /\ job[j] = "failed"
        BY <1>3, <2>1 DEF Record, Verdict
  <2>2. CASE event.owner = j /\ AwaitingSMS /\ job[j] # "failed"
    <3>1. Verdict(job[j]) # "failed"
          BY <2>2 DEF Verdict
    <3>2. job' = [job EXCEPT ![j] = "idle"] /\ told' = told
          BY <1>3, <2>2 DEF Record
    <3>3. event'.reserved = None
          BY <1>3, <2>2 DEF Record
    <3>4. \A k \in Jobs : job[k] \notin {"alerting", "rejected"}
          BY <2>2
    <3>5. QED BY <2>2, <3>2, <3>3, <3>4
  <2>3. CASE ~(event.owner = j /\ AwaitingSMS)
        BY <1>3, <2>3 DEF Record
  <2>4. QED BY <2>1, <2>2, <2>3
<1>4. ASSUME NEW j \in Jobs, SendAlert(j)
      PROVE  Telling'
      BY <1>4 DEF SendAlert
<1>5. ASSUME NEW j \in Jobs, ReleaseAlert(j)
      PROVE  Telling'
      BY <1>5 DEF ReleaseAlert
<1>6. ASSUME NEW j \in Jobs, CrashJob(j)
      PROVE  Telling'
      BY <1>6 DEF CrashJob
<1>7. CASE MessageMoves BY <1>7 DEF MessageMoves
<1>8. CASE SmsTick      BY <1>8 DEF SmsTick
<1>9. CASE UNCHANGED smsVars BY <1>9 DEF smsVars
<1>10. QED
    BY <1>1, <1>2, <1>3, <1>4, <1>5, <1>6, <1>7, <1>8, <1>9 DEF SmsNext

LEMMA SmsTypesStep == SmsInv /\ [SmsNext]_smsVars => SmsTypeOK'
<1> SUFFICES ASSUME SmsInv, [SmsNext]_smsVars
             PROVE  SmsTypeOK'
    OBVIOUS
<1>a. told' <= 1
      BY TellingStep DEF Telling, ToldOnce
<1> USE SmsAssumption DEF SmsInv, SmsTypeOK, Events, SmsFault
<1>1. ASSUME NEW j \in Jobs, CheckSMS(j)
      PROVE  SmsTypeOK'
  <2>1. event' \in Events
        BY <1>1 DEF CheckSMS, Claimed
  <2>2. QED BY <1>1, <2>1 DEF CheckSMS
<1>2. ASSUME NEW j \in Jobs, Ask(j)
      PROVE  SmsTypeOK'
      BY <1>2 DEF Ask
<1>3. ASSUME NEW j \in Jobs, Record(j)
      PROVE  SmsTypeOK'
  <2>1. event' \in Events
        BY <1>3, VerdictType DEF Record
  <2>2. job' \in [Jobs -> {"idle", "asking", "queued", "delivered", "failed",
                           "unread", "alerting", "rejected"}]
        BY <1>3 DEF Record
  <2>3. QED BY <1>3, <2>1, <2>2 DEF Record
<1>4. ASSUME NEW j \in Jobs, SendAlert(j)
      PROVE  SmsTypeOK'
      BY <1>4, <1>a DEF SendAlert
<1>5. ASSUME NEW j \in Jobs, ReleaseAlert(j)
      PROVE  SmsTypeOK'
      BY <1>5 DEF ReleaseAlert
<1>6. ASSUME NEW j \in Jobs, CrashJob(j)
      PROVE  SmsTypeOK'
      BY <1>6 DEF CrashJob
<1>7. CASE MessageMoves BY <1>7 DEF MessageMoves
<1>8. CASE SmsTick      BY <1>8 DEF SmsTick
<1>9. CASE UNCHANGED smsVars BY <1>9 DEF smsVars
<1>10. QED
    BY <1>1, <1>2, <1>3, <1>4, <1>5, <1>6, <1>7, <1>8, <1>9 DEF SmsNext

\* The inductive invariant holds in every reachable state.
THEOREM SmsInvariance == SmsSpec => []SmsInv
<1>1. SmsInv /\ [SmsNext]_smsVars => SmsInv'
      BY SmsTypesStep, TellingStep DEF SmsInv, Telling
<1>2. QED BY SmsStarts, <1>1, PTL DEF SmsSpec

\* Staff hear of a failed notice at most once, however many runs of the job
\* overlap, stall, crash or lose the answer to their alert (checkSMS's
\* reservation before the alert, released only on a definite rejection).
THEOREM StaffAreToldOnce == SmsSpec => []ToldOnce
<1>1. SmsInv => ToldOnce
      BY DEF SmsInv
<1>2. QED BY SmsInvariance, <1>1, PTL

-----------------------------------------------------------------------------
(***************************************************************************)
(* The studio account.                                                     *)
(*                                                                         *)
(* InstalledSessionSurvives is not inductive: it does not say what the     *)
(* sends carry.  A send that still owns the row, its lease running or not, *)
(* carries the session in the row: nobody can write another one without    *)
(* taking the row's owner away first (OwnerIsUpToDate).                    *)
(***************************************************************************)
\* A connected send that the row names as its owner works with the session
\* that the row holds.
OwnerIsUpToDate ==
    \A s \in Sends :
        send[s] = "connected" /\ account.owner = s => loaded[s] = account.session

AccountInv == AccountTypeOK /\ OwnerIsUpToDate /\ InstalledSessionSurvives

LEMMA AccountStarts == AccountInit => AccountInv
BY AccountAssumption
   DEF AccountInit, AccountInv, AccountTypeOK, Account, OwnerIsUpToDate,
       InstalledSessionSurvives

\* Every change that is made to the row leaves a row.
LEMMA RowTypes ==
    ASSUME AccountTypeOK
    PROVE  /\ \A s \in Sends :
                [account EXCEPT !.owner = s, !.leased = TRUE, !.wait = "short"] \in Account
           /\ \A s \in Sends : [account EXCEPT !.owner = s, !.leased = TRUE] \in Account
           /\ \A n \in 0..MaxInstalls :
                [account EXCEPT !.session = n, !.owner = None] \in Account
           /\ \A n \in 0..MaxInstalls : [account EXCEPT !.session = n] \in Account
           /\ [account EXCEPT !.leased = FALSE] \in Account
           /\ [account EXCEPT !.wait = "none"] \in Account
           /\ [account EXCEPT !.wait = "flood"] \in Account
<1>1. /\ \A n \in 0..MaxInstalls : [account EXCEPT !.session = n, !.owner = None] \in Account
      /\ \A n \in 0..MaxInstalls : [account EXCEPT !.session = n] \in Account
      BY DEF AccountTypeOK, Account
<1>2. /\ [account EXCEPT !.leased = FALSE] \in Account
      /\ [account EXCEPT !.wait = "none"] \in Account
      /\ [account EXCEPT !.wait = "flood"] \in Account
      BY DEF AccountTypeOK, Account
<1>3. ASSUME NEW s \in Sends
      PROVE  [account EXCEPT !.owner = s, !.leased = TRUE] \in Account
  <2> DEFINE owned == [account EXCEPT !.owner = s]
  <2>1. owned \in Account
        BY DEF AccountTypeOK, Account
  <2>2. [account EXCEPT !.owner = s, !.leased = TRUE] = [owned EXCEPT !.leased = TRUE]
        OBVIOUS
  <2> HIDE DEF owned
  <2>3. [owned EXCEPT !.leased = TRUE] \in Account
        BY <2>1 DEF Account
  <2>4. QED BY <2>2, <2>3, Zenon
<1>4. ASSUME NEW s \in Sends
      PROVE  [account EXCEPT !.owner = s, !.leased = TRUE, !.wait = "short"] \in Account
  <2> DEFINE claimed == [account EXCEPT !.owner = s, !.leased = TRUE]
  <2>1. claimed \in Account
        BY <1>3
  <2>2. [account EXCEPT !.owner = s, !.leased = TRUE, !.wait = "short"]
          = [claimed EXCEPT !.wait = "short"]
        OBVIOUS
  <2> HIDE DEF claimed
  <2>3. [claimed EXCEPT !.wait = "short"] \in Account
        BY <2>1 DEF Account
  <2>4. QED BY <2>2, <2>3, Zenon
<1>5. QED BY <1>1, <1>2, <1>3, <1>4

LEMMA AccountTypesStep == AccountTypeOK /\ [AccountNext]_accountVars => AccountTypeOK'
<1> SUFFICES ASSUME AccountTypeOK, [AccountNext]_accountVars
             PROVE  AccountTypeOK'
    OBVIOUS
<1> USE AccountAssumption DEF AccountTypeOK, Goes, AccountFault
<1>1. ASSUME NEW s \in Sends, ClaimAccount(s) \/ Waited(s) \/ CoolDown(s) \/ Release(s)
      PROVE  AccountTypeOK'
  <2>1. CASE ClaimAccount(s)
    <3> DEFINE short == [account EXCEPT !.owner = s, !.leased = TRUE, !.wait = "short"]
               owned == [account EXCEPT !.owner = s, !.leased = TRUE]
    <3>1. short \in Account /\ owned \in Account
          BY RowTypes
    <3>2. account' = short \/ account' = owned
          BY <2>1, Zenon DEF ClaimAccount
    <3> HIDE DEF short, owned
    <3>3. account' \in Account
          BY <3>1, <3>2
    <3>4. send' \in [Sends -> {"idle", "waiting", "loading", "connected", "flooded", "ending"}]
          BY <2>1 DEF ClaimAccount
    <3>5. QED BY <2>1, <3>3, <3>4 DEF ClaimAccount
  <2>2. CASE Waited(s)        BY <2>2 DEF Waited
  <2>3. CASE CoolDown(s)      BY <2>3, RowTypes DEF CoolDown
  <2>4. CASE Release(s)
    <3>1. account' \in Account
          BY <2>4, RowTypes DEF Release
    <3>2. send' \in [Sends -> {"idle", "waiting", "loading", "connected", "flooded",
                               "ending"}]
          BY <2>4 DEF Release
    <3>3. loaded' \in [Sends -> 0..MaxInstalls]
          BY <2>4 DEF Release
    <3>4. QED BY <2>4, <3>1, <3>2, <3>3 DEF Release
  <2>5. QED BY <1>1, <2>1, <2>2, <2>3, <2>4
<1>2. ASSUME NEW s \in Sends, LoadSession(s) \/ StoreSession(s)
      PROVE  AccountTypeOK'
  <2>1. CASE LoadSession(s)   BY <2>1 DEF LoadSession, Account
  <2>2. CASE StoreSession(s)  BY <2>2, RowTypes DEF StoreSession
  <2>3. QED BY <1>2, <2>1, <2>2
<1>3. ASSUME NEW s \in Sends, Transmit(s) \/ CrashSend(s)
      PROVE  AccountTypeOK'
  <2>1. CASE Transmit(s)      BY <2>1 DEF Transmit
  <2>2. CASE CrashSend(s)     BY <2>2 DEF CrashSend
  <2>3. QED BY <1>3, <2>1, <2>2
<1>4. CASE InstallSession
  <2>1. installed + 1 \in 0..MaxInstalls
        BY <1>4 DEF InstallSession
  <2>2. account' \in Account
        BY <1>4, <2>1, RowTypes DEF InstallSession
  <2>3. QED BY <1>4, <2>1, <2>2 DEF InstallSession
<1>5. CASE LeaseRunsOut
  <2>1. account' \in Account
        BY <1>5, RowTypes DEF LeaseRunsOut
  <2>2. QED BY <1>5, <2>1 DEF LeaseRunsOut
<1>6. CASE WaitEnds           BY <1>6, RowTypes DEF WaitEnds
<1>7. CASE UNCHANGED accountVars BY <1>7 DEF accountVars
<1>8. QED BY <1>1, <1>2, <1>3, <1>4, <1>5, <1>6, <1>7 DEF AccountNext

\* Only the installation changes the session for another one, and it leaves
\* the row without an owner.
LEMMA SessionStep ==
    AccountInv /\ [AccountNext]_accountVars
        => OwnerIsUpToDate' /\ InstalledSessionSurvives'
<1> SUFFICES ASSUME AccountInv, [AccountNext]_accountVars
             PROVE  OwnerIsUpToDate' /\ InstalledSessionSurvives'
    OBVIOUS
<1> USE AccountAssumption
        DEF AccountInv, AccountTypeOK, Account, OwnerIsUpToDate,
            InstalledSessionSurvives, Goes, HoldsAccount
<1>1. ASSUME NEW s \in Sends, ClaimAccount(s)
      PROVE  OwnerIsUpToDate' /\ InstalledSessionSurvives'
  <2>1. account'.owner = s /\ account'.session = account.session
        BY <1>1 DEF ClaimAccount
  <2>2. send'[s] # "connected"
        BY <1>1 DEF ClaimAccount
  <2>3. QED BY <1>1, <2>1, <2>2 DEF ClaimAccount
<1>2. ASSUME NEW s \in Sends, Waited(s)
      PROVE  OwnerIsUpToDate' /\ InstalledSessionSurvives'
      BY <1>2 DEF Waited
<1>3. ASSUME NEW s \in Sends, LoadSession(s)
      PROVE  OwnerIsUpToDate' /\ InstalledSessionSurvives'
      BY <1>3 DEF LoadSession
<1>4. ASSUME NEW s \in Sends, StoreSession(s)
      PROVE  OwnerIsUpToDate' /\ InstalledSessionSurvives'
      BY <1>4 DEF StoreSession
<1>5. ASSUME NEW s \in Sends, Transmit(s)
      PROVE  OwnerIsUpToDate' /\ InstalledSessionSurvives'
      BY <1>5 DEF Transmit
<1>6. ASSUME NEW s \in Sends, CoolDown(s)
      PROVE  OwnerIsUpToDate' /\ InstalledSessionSurvives'
      BY <1>6 DEF CoolDown
<1>7. ASSUME NEW s \in Sends, Release(s)
      PROVE  OwnerIsUpToDate' /\ InstalledSessionSurvives'
      BY <1>7 DEF Release
<1>8. ASSUME NEW s \in Sends, CrashSend(s)
      PROVE  OwnerIsUpToDate' /\ InstalledSessionSurvives'
      BY <1>8 DEF CrashSend
<1>9. CASE InstallSession BY <1>9 DEF InstallSession
<1>10. CASE LeaseRunsOut  BY <1>10 DEF LeaseRunsOut
<1>11. CASE WaitEnds      BY <1>11 DEF WaitEnds
<1>12. CASE UNCHANGED accountVars BY <1>12 DEF accountVars
<1>13. QED
    BY <1>1, <1>2, <1>3, <1>4, <1>5, <1>6, <1>7, <1>8, <1>9, <1>10, <1>11, <1>12
       DEF AccountNext

\* The inductive invariant holds in every reachable state.
THEOREM AccountInvariance == AccountSpec => []AccountInv
<1>1. AccountInv /\ [AccountNext]_accountVars => AccountInv'
      BY AccountTypesStep, SessionStep DEF AccountInv
<1>2. QED BY AccountStarts, <1>1, PTL DEF AccountSpec

\* The session in the store is always the one installed last or its
\* descendant, however many sends stall, crash and overlap with however many
\* installations (StoreSession's check of the lease, InstallSession's
\* clearing of the owner).
THEOREM SessionSurvives == AccountSpec => []InstalledSessionSurvives
<1>1. AccountInv => InstalledSessionSurvives
      BY DEF AccountInv
<1>2. QED BY AccountInvariance, <1>1, PTL

-----------------------------------------------------------------------------
(***************************************************************************)
(* The proof of a phone.                                                   *)
(*                                                                         *)
(* GuessingIsLimited is not inductive: a code that is out may still be     *)
(* guessed.  Every code that is sent is paid for by the phone's budget     *)
(* with MaxAttempts guesses, made or still left; cancelling, beginning     *)
(* again and letting codes expire only throw guesses away (PaidFor).  The  *)
(* guesses left are counted as a set of pairs, so that no sum over the     *)
(* chats is needed and the chats need not be finite in number.             *)
(***************************************************************************)

\* The guesses left at the codes that are out for a phone.
Left(p) ==
    {t \in Chats \X (1..MaxAttempts) :
        /\ challenge[t[1]].state = "code" /\ challenge[t[1]].phone = p
        /\ t[2] > challenge[t[1]].attempts}

\* The codes that the windows opened for a phone have paid for, unless the
\* last one is still running and can pay for more.
Paid(p) ==
    IF budget[p].old THEN windows[p] * MaxSends
    ELSE windows[p] * MaxSends - MaxSends + budget[p].sends

PaidFor(p) ==
    /\ IsFiniteSet(Left(p))
    /\ guesses[p] + Cardinality(Left(p)) <= Paid(p) * MaxAttempts

\* A phone's window was opened after an hour had ended its last one.
WindowsEnded(p) == windows[p] <= hours + (IF budget[p].old THEN 0 ELSE 1)

\* A code that is out was sent to some phone.
CodeHasPhone == \A c \in Chats : challenge[c].state = "code" => challenge[c].phone \in Numbers

CabinetInv ==
    /\ CabinetTypeOK /\ CodeHasPhone
    /\ \A p \in Numbers : PaidFor(p) /\ WindowsEnded(p)

LEMMA CabinetStarts == CabinetInit => CabinetInv
<1> SUFFICES ASSUME CabinetInit
             PROVE  CabinetInv
    OBVIOUS
<1>1. [state |-> "", live |-> FALSE, phone |-> None, attempts |-> 0] \in Challenges
      BY CabinetAssumption DEF Challenges
<1>2. [sends |-> 0, paced |-> FALSE, old |-> TRUE] \in Budgets
      BY CabinetAssumption DEF Budgets
<1>3. 0 \in 0..MaxHours /\ 0 \in 0..MaxGuesses /\ 0 \in 0..(MaxHours + 1)
      BY CabinetAssumption
<1>4. CabinetTypeOK
      BY <1>1, <1>2, <1>3 DEF CabinetInit, CabinetTypeOK
<1>5. \A c \in Chats : challenge[c].state = ""
      BY DEF CabinetInit
<1>6. CodeHasPhone
      BY <1>5 DEF CodeHasPhone
<1>7. ASSUME NEW p \in Numbers
      PROVE  PaidFor(p) /\ WindowsEnded(p)
  <2>1. Left(p) = {}
        BY <1>5 DEF Left
  <2>2. guesses[p] = 0 /\ windows[p] = 0 /\ budget[p].old /\ hours = 0
        BY DEF CabinetInit
  <2>3. 0 * MaxSends = 0 /\ 0 * MaxAttempts = 0
        BY CabinetAssumption
  <2>4. Paid(p) = 0
        BY <2>2, <2>3 DEF Paid
  <2>5. IsFiniteSet(Left(p)) /\ Cardinality(Left(p)) = 0
        BY <2>1, FS_EmptySet
  <2>6. guesses[p] + Cardinality(Left(p)) <= Paid(p) * MaxAttempts
        BY <2>2, <2>3, <2>4, <2>5
  <2>7. QED BY <2>2, <2>5, <2>6 DEF PaidFor, WindowsEnded
<1>8. QED BY <1>4, <1>6, <1>7 DEF CabinetInv

-----------------------------------------------------------------------------
(* Types.                                                                  *)

\* Every change that is made to a challenge leaves a challenge.
LEMMA ChallengeRow ==
    ASSUME NEW d \in Challenges
    PROVE  /\ [d EXCEPT !.state = "phone", !.live = TRUE] \in Challenges
           /\ [d EXCEPT !.state = ""] \in Challenges
           /\ [d EXCEPT !.live = FALSE] \in Challenges
           /\ \A p \in Numbers :
                [d EXCEPT !.phone = p, !.state = "code", !.attempts = 0, !.live = TRUE]
                    \in Challenges
           /\ \A i \in 0..MaxAttempts :
                /\ [d EXCEPT !.state = "", !.phone = None, !.attempts = i] \in Challenges
                /\ \A s \in {"code", "locked"} :
                      [d EXCEPT !.attempts = i, !.state = s] \in Challenges
<1>7. 0 \in 0..MaxAttempts
      BY CabinetAssumption
<1> USE CabinetAssumption DEF Challenges
<1>1. [d EXCEPT !.state = "phone", !.live = TRUE] \in Challenges
      OBVIOUS
<1>2. [d EXCEPT !.state = ""] \in Challenges
      OBVIOUS
<1>3. [d EXCEPT !.live = FALSE] \in Challenges
      OBVIOUS
<1>4. ASSUME NEW p \in Numbers, NEW i \in 0..MaxAttempts
      PROVE  [d EXCEPT !.phone = p, !.state = "code", !.attempts = i, !.live = TRUE]
                \in Challenges
      OBVIOUS
<1>5. ASSUME NEW i \in 0..MaxAttempts
      PROVE  [d EXCEPT !.state = "", !.phone = None, !.attempts = i] \in Challenges
      OBVIOUS
<1>6. ASSUME NEW i \in 0..MaxAttempts, NEW s \in {"code", "locked"}
      PROVE  [d EXCEPT !.attempts = i, !.state = s] \in Challenges
      OBVIOUS
<1> HIDE DEF Challenges
<1>8. QED BY <1>1, <1>2, <1>3, <1>4, <1>5, <1>6, <1>7

LEMMA AttemptsType ==
    ASSUME NEW d \in Challenges
    PROVE  d.attempts \in Nat /\ d.attempts <= MaxAttempts
<1>1. d.attempts \in 0..MaxAttempts
      BY DEF Challenges
<1>2. QED BY <1>1, CabinetAssumption

LEMMA ChallengeTypes ==
    ASSUME CabinetTypeOK, NEW c \in Chats
    PROVE  /\ [challenge EXCEPT ![c].state = "phone", ![c].live = TRUE]
                  \in [Chats -> Challenges]
           /\ [challenge EXCEPT ![c].state = ""] \in [Chats -> Challenges]
           /\ [challenge EXCEPT ![c].live = FALSE] \in [Chats -> Challenges]
           /\ \A p \in Numbers :
                [challenge EXCEPT ![c].phone = p, ![c].state = "code",
                                  ![c].attempts = 0, ![c].live = TRUE]
                    \in [Chats -> Challenges]
           /\ \A i \in 0..MaxAttempts :
                /\ [challenge EXCEPT ![c].state = "", ![c].phone = None,
                                     ![c].attempts = i] \in [Chats -> Challenges]
                /\ \A s \in {"code", "locked"} :
                      [challenge EXCEPT ![c].attempts = i, ![c].state = s]
                          \in [Chats -> Challenges]
<1> USE CabinetAssumption
<1>1. /\ challenge \in [Chats -> Challenges]
      /\ challenge[c] \in Challenges
      BY DEF CabinetTypeOK
<1>2. ASSUME NEW d \in Challenges
      PROVE  [challenge EXCEPT ![c] = d] \in [Chats -> Challenges]
      BY <1>1
<1>3. QED BY <1>1, <1>2, ChallengeRow

\* A budget that may be used has a code left, and less than the whole once
\* it has been charged.
LEMMA ChargedBudget ==
    ASSUME CabinetTypeOK, NEW e \in Chats \cup Numbers, MaySend(e)
    PROVE  /\ Charged(e) \in Budgets
           /\ ~Charged(e).old
           /\ Charged(e).sends = SendsNow(e) + 1
BY CabinetAssumption DEF CabinetTypeOK, Budgets, Charged, MaySend, SendsNow

LEMMA CabinetTypesStep == CabinetInv /\ [CabinetNext]_cabinetVars => CabinetTypeOK'
<1> SUFFICES ASSUME CabinetInv, [CabinetNext]_cabinetVars
             PROVE  CabinetTypeOK'
    OBVIOUS
<1>a. CabinetTypeOK /\ CodeHasPhone
      BY DEF CabinetInv
<1>b. \A p \in Numbers : WindowsEnded(p)
      BY DEF CabinetInv
<1> USE CabinetAssumption DEF CabinetTypeOK
<1>1. ASSUME NEW c \in Chats, Begin(c) \/ Cancel(c) \/ ChallengeExpires(c)
      PROVE  CabinetTypeOK'
  <2>1. challenge' \in [Chats -> Challenges]
    <3>1. CASE Begin(c)            BY <1>a, <3>1, ChallengeTypes DEF Begin
    <3>2. CASE Cancel(c)           BY <1>a, <3>2, ChallengeTypes DEF Cancel
    <3>3. CASE ChallengeExpires(c) BY <1>a, <3>3, ChallengeTypes DEF ChallengeExpires
    <3>4. QED BY <1>1, <3>1, <3>2, <3>3
  <2>2. QED BY <1>a, <1>1, <2>1 DEF Begin, Cancel, ChallengeExpires
<1>2. ASSUME NEW c \in Chats, Enter(c)
      PROVE  /\ guesses' \in [Numbers -> 0..MaxGuesses]
             /\ challenge[c].attempts + 1 \in 0..MaxAttempts
             /\ challenge[c].phone \in Numbers
  <2>1. challenge[c].phone \in Numbers
        BY <1>a, <1>2 DEF Enter, Waits, CodeHasPhone
  <2>2. challenge[c].attempts \in 0..MaxAttempts
        BY <1>a DEF Challenges
  <2>3. QED BY <1>a, <1>2, <2>1, <2>2 DEF Enter
<1>3. ASSUME NEW c \in Chats, ConfirmRight(c)
      PROVE  CabinetTypeOK'
  <2> DEFINE i == challenge[c].attempts + 1
             right == [challenge EXCEPT ![c].state = "", ![c].phone = None,
                                        ![c].attempts = i]
  <2>1. /\ guesses' \in [Numbers -> 0..MaxGuesses]
        /\ i \in 0..MaxAttempts
        /\ challenge[c].phone \in Numbers
        BY <1>2, <1>3 DEF ConfirmRight
  <2>2. challenge' = right
        BY <1>3 DEF ConfirmRight
  <2>3. right \in [Chats -> Challenges]
        BY <1>a, <2>1, ChallengeTypes
  <2> HIDE DEF right
  <2>4. proof' \in [Chats -> Numbers \cup {None}]
        BY <1>a, <1>3, <2>1 DEF ConfirmRight
  <2>5. QED BY <1>a, <1>3, <2>1, <2>2, <2>3, <2>4 DEF ConfirmRight
<1>4. ASSUME NEW c \in Chats, ConfirmWrong(c)
      PROVE  CabinetTypeOK'
  <2> DEFINE i == challenge[c].attempts + 1
             s == IF i >= MaxAttempts THEN "locked" ELSE "code"
             wrong == [challenge EXCEPT ![c].attempts = i, ![c].state = s]
  <2>1. guesses' \in [Numbers -> 0..MaxGuesses] /\ i \in 0..MaxAttempts
        BY <1>2, <1>4 DEF ConfirmWrong
  <2>2. challenge' = wrong
        BY <1>4 DEF ConfirmWrong
  <2>3. wrong \in [Chats -> Challenges]
        BY <1>a, <2>1, ChallengeTypes
  <2> HIDE DEF wrong
  <2>4. QED BY <1>a, <1>4, <2>1, <2>2, <2>3 DEF ConfirmWrong
<1>5. ASSUME NEW c \in Chats, NEW p \in Numbers, Send(c, p)
      PROVE  CabinetTypeOK'
  <2>1. Charged(c) \in Budgets /\ Charged(p) \in Budgets
        BY <1>a, <1>5, ChargedBudget DEF Send
  <2>2. budget' \in [Chats \cup Numbers -> Budgets]
        BY <1>a, <1>5, <2>1 DEF Send
  <2>3. windows' \in [Numbers -> 0..(MaxHours + 1)]
    <3>1. windows[p] <= hours + (IF budget[p].old THEN 0 ELSE 1)
          BY <1>b DEF WindowsEnded
    <3>2. QED BY <1>a, <1>5, <3>1 DEF Send
  <2>4. challenge' \in [Chats -> Challenges]
        BY <1>a, <1>5, ChallengeTypes DEF Send
  <2>5. QED BY <1>a, <1>5, <2>2, <2>3, <2>4 DEF Send
<1>6. ASSUME NEW c \in Chats, NEW p \in Numbers,
             AcceptTelegramContact(c, p) \/ RecordTelegramResolution(c, p)
      PROVE  CabinetTypeOK'
  <2>1. challenge' \in [Chats -> Challenges]
    <3>1. CASE AcceptTelegramContact(c, p)
          BY <1>a, <3>1, ChallengeTypes DEF AcceptTelegramContact
    <3>2. CASE RecordTelegramResolution(c, p)
          BY <1>a, <3>2 DEF RecordTelegramResolution
    <3>3. QED BY <1>6, <3>1, <3>2
  <2>2. QED BY <1>a, <1>6, <2>1 DEF AcceptTelegramContact, RecordTelegramResolution
<1>7. CASE MinutePasses
      BY <1>a, <1>7 DEF MinutePasses, Budgets
<1>8. ASSUME NEW e \in DOMAIN budget, WindowEnds(e)
      PROVE  CabinetTypeOK'
  <2>1. e \in Chats \cup Numbers /\ budget[e] \in Budgets
        BY <1>a
  <2>a. \A b \in Budgets : [b EXCEPT !.old = TRUE] \in Budgets
        BY DEF Budgets
  <2>b. budget' \in [Chats \cup Numbers -> Budgets]
        BY <1>a, <1>8, <2>1, <2>a DEF WindowEnds
  <2>2. QED BY <1>a, <1>8, <2>b DEF WindowEnds
<1>9. ASSUME NEW c \in Chats, ProofExpires(c)
      PROVE  CabinetTypeOK'
      BY <1>a, <1>9 DEF ProofExpires
<1>10. CASE UNCHANGED cabinetVars
      BY <1>a, <1>10 DEF cabinetVars
<1>11. QED
    BY <1>1, <1>3, <1>4, <1>5, <1>6, <1>7, <1>8, <1>9, <1>10 DEF CabinetNext

-----------------------------------------------------------------------------
(* What the guesses that are left cost.                                    *)

\* One more code pays for MaxAttempts guesses more.
LEMMA OneMoreCode ==
    ASSUME NEW a \in Int, NEW b \in Int
    PROVE  (a + 1) * b = a * b + b
OBVIOUS

\* A larger number of codes pays for at least as many guesses.
LEMMA MoreCodes ==
    ASSUME NEW a \in Int, NEW b \in Int, NEW n \in Nat, a <= b
    PROVE  a * n <= b * n
OBVIOUS

LEMMA PaidType ==
    ASSUME CabinetTypeOK, NEW p \in Numbers
    PROVE  Paid(p) \in Int /\ Paid(p) <= windows[p] * MaxSends
<1>1. windows[p] \in Nat /\ budget[p].sends \in 0..MaxSends
      BY CabinetAssumption DEF CabinetTypeOK, Budgets
<1>2. windows[p] * MaxSends \in Int
      BY <1>1, CabinetAssumption
<1>3. QED BY <1>1, <1>2, CabinetAssumption DEF Paid

\* A step that adds no guess, made or left, and takes nothing that was paid
\* keeps what is paid for.
LEMMA GuessesGivenUp ==
    ASSUME CabinetTypeOK, CabinetTypeOK', NEW p \in Numbers, PaidFor(p),
           Left(p)' \subseteq Left(p), guesses'[p] = guesses[p], Paid(p) <= Paid(p)'
    PROVE  PaidFor(p)'
<1>1. /\ IsFiniteSet(Left(p)') /\ Cardinality(Left(p)') <= Cardinality(Left(p))
      /\ Cardinality(Left(p)') \in Nat /\ Cardinality(Left(p)) \in Nat
      BY FS_Subset, FS_CardinalityType DEF PaidFor
<1>2. Paid(p) \in Int /\ Paid(p)' \in Int
  <2>1. windows'[p] \in Nat /\ budget'[p].sends \in 0..MaxSends
        BY CabinetAssumption DEF CabinetTypeOK, Budgets
  <2>2. windows'[p] * MaxSends \in Int
        BY <2>1, CabinetAssumption
  <2>3. Paid(p)' \in Int
        BY <2>1, <2>2, CabinetAssumption DEF Paid
  <2>4. QED BY <2>3, PaidType
<1>3. Paid(p) * MaxAttempts <= Paid(p)' * MaxAttempts
      BY <1>2, MoreCodes, CabinetAssumption
<1>4. guesses[p] \in Nat
      BY DEF CabinetTypeOK
<1>5. Paid(p) * MaxAttempts \in Int /\ Paid(p)' * MaxAttempts \in Int
      BY <1>2, CabinetAssumption
<1>6. guesses[p] + Cardinality(Left(p)) <= Paid(p) * MaxAttempts
      BY DEF PaidFor
<1>7. guesses'[p] + Cardinality(Left(p)') <= Paid(p)' * MaxAttempts
      BY <1>1, <1>3, <1>4, <1>5, <1>6
<1>8. QED BY <1>1, <1>7 DEF PaidFor

\* The budgets and the guesses that were made play no part in what is left.
LEMMA SamePaid ==
    ASSUME NEW p \in Numbers, windows'[p] = windows[p],
           budget'[p].old = budget[p].old, budget'[p].sends = budget[p].sends
    PROVE  Paid(p)' = Paid(p)
BY DEF Paid

\* A chat whose verification changes, or ends, without a new code.
LEMMA NoNewCode ==
    ASSUME CabinetTypeOK, NEW c \in Chats, NEW p \in Numbers,
           \A d \in Chats \ {c} : challenge'[d] = challenge[d],
           challenge'[c].state = "code" =>
                /\ challenge[c].state = "code"
                /\ challenge'[c].phone = challenge[c].phone
                /\ challenge'[c].attempts >= challenge[c].attempts,
           challenge'[c].attempts \in Nat
    PROVE  Left(p)' \subseteq Left(p)
<1> SUFFICES ASSUME NEW t \in Left(p)'
             PROVE  t \in Left(p)
    OBVIOUS
<1>1. /\ t \in Chats \X (1..MaxAttempts)
      /\ challenge'[t[1]].state = "code" /\ challenge'[t[1]].phone = p
      /\ t[2] > challenge'[t[1]].attempts
      BY DEF Left
<1>2. t[1] \in Chats /\ t[2] \in Nat
      BY <1>1, CabinetAssumption
<1>3. challenge[t[1]].attempts \in Nat
      BY <1>2, AttemptsType DEF CabinetTypeOK
<1>4. CASE t[1] = c
      BY <1>1, <1>2, <1>3, <1>4 DEF Left
<1>5. CASE t[1] # c
      BY <1>1, <1>2, <1>3, <1>5 DEF Left
<1>6. QED BY <1>4, <1>5

\* A code that is entered uses one of the guesses that its phone had left.
LEMMA GuessMade ==
    ASSUME CabinetInv, CabinetTypeOK', NEW c \in Chats, Enter(c),
           budget' = budget, windows' = windows,
           \A d \in Chats \ {c} : challenge'[d] = challenge[d],
           challenge'[c].state = "code" => challenge'[c].phone = challenge[c].phone,
           challenge'[c].attempts = challenge[c].attempts + 1,
           NEW p \in Numbers
    PROVE  PaidFor(p)'
<1>1. /\ CabinetTypeOK /\ challenge[c].state = "code" /\ challenge[c].phone \in Numbers
      /\ PaidFor(p)
      BY DEF CabinetInv, CodeHasPhone, Enter, Waits
<1>2. challenge[c].attempts \in Nat /\ challenge[c].attempts < MaxAttempts
      BY <1>1, AttemptsType DEF CabinetTypeOK, Enter
<1>3. Left(p)' \subseteq Left(p)
      BY <1>1, <1>2, NoNewCode
<1>4. Paid(p)' = Paid(p) /\ Paid(p) \in Int
      BY <1>1, PaidType, SamePaid
<1>5. CASE p # challenge[c].phone
  <2>1. guesses'[p] = guesses[p]
        BY <1>1, <1>5 DEF Enter, CabinetTypeOK
  <2>2. QED BY <1>1, <1>3, <1>4, <2>1, GuessesGivenUp
<1>6. CASE p = challenge[c].phone
  <2> DEFINE t == <<c, challenge[c].attempts + 1>>
  <2>1. guesses'[p] = guesses[p] + 1 /\ guesses[p] \in Nat
        BY <1>1, <1>6 DEF Enter, CabinetTypeOK
  <2>2. t \in Left(p)
        BY <1>1, <1>2, <1>6, CabinetAssumption DEF Left
  <2>3. t \notin Left(p)'
        BY <1>2 DEF Left
  <2> HIDE DEF t
  <2>4. Left(p)' \subseteq Left(p) \ {t}
        BY <1>3, <2>3
  <2>5. /\ IsFiniteSet(Left(p) \ {t})
        /\ Cardinality(Left(p) \ {t}) = Cardinality(Left(p)) - 1
        /\ Cardinality(Left(p)) \in Nat
        BY <1>1, <2>2, FS_RemoveElement, FS_CardinalityType DEF PaidFor
  <2>6. /\ IsFiniteSet(Left(p)')
        /\ Cardinality(Left(p)') <= Cardinality(Left(p) \ {t})
        /\ Cardinality(Left(p)') \in Nat
        BY <2>4, <2>5, FS_Subset, FS_CardinalityType
  <2>7. guesses[p] + Cardinality(Left(p)) <= Paid(p) * MaxAttempts
        BY <1>1 DEF PaidFor
  <2>8. Paid(p) * MaxAttempts \in Int
        BY <1>4, CabinetAssumption
  <2>9. guesses'[p] + Cardinality(Left(p)') <= Paid(p) * MaxAttempts
        BY <2>1, <2>5, <2>6, <2>7, <2>8
  <2>10. QED BY <1>4, <2>6, <2>9 DEF PaidFor
<1>7. QED BY <1>5, <1>6

\* A code that is sent is paid for by the phone's budget.
LEMMA CodeSent ==
    ASSUME CabinetInv, CabinetTypeOK', NEW c \in Chats, NEW q \in Numbers, Send(c, q),
           NEW p \in Numbers
    PROVE  PaidFor(p)'
<1>1. CabinetTypeOK /\ PaidFor(p)
      BY DEF CabinetInv
<1>2. /\ \A d \in Chats \ {c} : challenge'[d] = challenge[d]
      /\ challenge'[c].state = "code" /\ challenge'[c].phone = q
      /\ challenge'[c].attempts = 0
      BY <1>1 DEF Send, CabinetTypeOK
<1>3. challenge[c].state = "phone"
      BY DEF Send, Waits
<1>4. guesses' = guesses
      BY DEF Send
<1>5. CASE p # q
  <2>1. Left(p)' \subseteq Left(p)
    <3> SUFFICES ASSUME NEW t \in Left(p)'
                 PROVE  t \in Left(p)
        OBVIOUS
    <3>1. t \in Chats \X (1..MaxAttempts) /\ t[1] # c
          BY <1>2, <1>5 DEF Left
    <3>2. challenge'[t[1]] = challenge[t[1]]
          BY <1>2, <3>1
    <3>3. QED BY <3>1, <3>2 DEF Left
  <2>2. windows'[p] = windows[p]
        BY <1>1, <1>5 DEF Send, CabinetTypeOK
  <2>3. p # c
        BY CabinetAssumption
  <2>4. budget'[p] = budget[p]
        BY <1>1, <1>5, <2>3 DEF Send, CabinetTypeOK
  <2>5. Paid(p) <= Paid(p)'
        BY <1>1, <2>2, <2>4, SamePaid, PaidType
  <2>6. QED BY <1>1, <1>4, <2>1, <2>5, GuessesGivenUp
<1>6. CASE p = q
  <2> DEFINE new == {c} \X (1..MaxAttempts)
  <2>1. /\ IsFiniteSet(new) /\ Cardinality(new) = MaxAttempts
    <3>1. IsFiniteSet({c}) /\ Cardinality({c}) = 1
          BY FS_Singleton
    <3>2. IsFiniteSet(1..MaxAttempts) /\ Cardinality(1..MaxAttempts) = MaxAttempts
          BY FS_Interval, CabinetAssumption
    <3>3. /\ IsFiniteSet(new)
          /\ Cardinality(new) = Cardinality({c}) * Cardinality(1..MaxAttempts)
          BY <3>1, <3>2, FS_Product, Zenon
    <3>4. QED BY <3>1, <3>2, <3>3, CabinetAssumption
  <2>2. Left(p)' \subseteq Left(p) \cup new
    <3> SUFFICES ASSUME NEW t \in Left(p)'
                 PROVE  t \in Left(p) \cup new
        OBVIOUS
    <3>1. t \in Chats \X (1..MaxAttempts)
          BY DEF Left
    <3>2. CASE t[1] = c
          BY <3>1, <3>2
    <3>3. CASE t[1] # c
      <4>1. challenge'[t[1]] = challenge[t[1]]
            BY <1>2, <3>1, <3>3
      <4>2. t \in Left(p)
            BY <3>1, <4>1 DEF Left
      <4>3. QED BY <4>2
    <3>4. QED BY <3>2, <3>3
  <2> HIDE DEF new
  <2>3. IsFiniteSet(Left(p)) /\ Cardinality(Left(p)) \in Nat
        BY <1>1, FS_CardinalityType DEF PaidFor
  <2>4. /\ IsFiniteSet(Left(p) \cup new) /\ IsFiniteSet(Left(p) \cap new)
        /\ Cardinality(Left(p) \cup new) = Cardinality(Left(p)) + MaxAttempts
                                            - Cardinality(Left(p) \cap new)
        /\ Cardinality(Left(p) \cap new) \in Nat
        BY <2>1, <2>3, FS_Union, FS_Intersection, FS_CardinalityType
  <2>5. Cardinality(Left(p) \cup new) <= Cardinality(Left(p)) + MaxAttempts
        BY <2>3, <2>4, CabinetAssumption
  <2>6. /\ IsFiniteSet(Left(p)') /\ Cardinality(Left(p)') \in Nat
        /\ Cardinality(Left(p)') <= Cardinality(Left(p) \cup new)
        /\ Cardinality(Left(p) \cup new) \in Nat
        BY <2>2, <2>4, FS_Subset, FS_CardinalityType
  <2>7. Paid(p)' = Paid(p) + 1
    <3>1. MaySend(p)
          BY <1>6 DEF Send
    <3>2. ~Charged(p).old /\ Charged(p).sends = SendsNow(p) + 1
          BY <1>1, <3>1, ChargedBudget
    <3>3. budget'[p] = Charged(p)
          BY <1>1, <1>6, CabinetAssumption DEF Send, CabinetTypeOK
    <3>4. windows[p] \in Nat /\ budget[p].sends \in Nat
          BY <1>1 DEF CabinetTypeOK, Budgets
    <3>5. windows[p] * MaxSends \in Int /\ MaxSends \in Int
          BY <3>4, CabinetAssumption
    <3>6. CASE budget[p].old
      <4>1. windows'[p] = windows[p] + 1
            BY <1>1, <1>6, <3>6 DEF Send, CabinetTypeOK
      <4>2. windows'[p] * MaxSends = windows[p] * MaxSends + MaxSends
            BY <3>4, <4>1, OneMoreCode, CabinetAssumption
      <4>3. Paid(p)' = windows'[p] * MaxSends - MaxSends + 1
            BY <3>2, <3>3, <3>6 DEF Paid, SendsNow
      <4>4. QED BY <3>5, <3>6, <4>2, <4>3 DEF Paid
    <3>7. CASE ~budget[p].old
      <4>1. windows'[p] = windows[p]
            BY <1>1, <1>6, <3>7 DEF Send, CabinetTypeOK
      <4>2. Paid(p)' = windows[p] * MaxSends - MaxSends + (budget[p].sends + 1)
            BY <3>2, <3>3, <3>7, <4>1 DEF Paid, SendsNow
      <4>3. QED BY <3>4, <3>5, <3>7, <4>2 DEF Paid
    <3>8. QED BY <3>6, <3>7
  <2>8. Paid(p) \in Int
        BY <1>1, PaidType
  <2>9. Paid(p)' * MaxAttempts = Paid(p) * MaxAttempts + MaxAttempts
        BY <2>7, <2>8, OneMoreCode, CabinetAssumption
  <2>10. /\ guesses[p] + Cardinality(Left(p)) <= Paid(p) * MaxAttempts
         /\ guesses[p] \in Nat
        BY <1>1 DEF PaidFor, CabinetTypeOK
  <2>11. Paid(p) * MaxAttempts \in Int
        BY <2>8, CabinetAssumption
  <2>12. guesses'[p] + Cardinality(Left(p)') <= Paid(p)' * MaxAttempts
        BY <1>4, <2>3, <2>5, <2>6, <2>9, <2>10, <2>11, CabinetAssumption
  <2>13. QED BY <2>6, <2>12 DEF PaidFor
<1>7. QED BY <1>5, <1>6

LEMMA GuessesStep ==
    CabinetInv /\ [CabinetNext]_cabinetVars /\ CabinetTypeOK'
        => CodeHasPhone' /\ \A p \in Numbers : PaidFor(p)' /\ WindowsEnded(p)'
<1> SUFFICES ASSUME CabinetInv, [CabinetNext]_cabinetVars, CabinetTypeOK'
             PROVE  CodeHasPhone' /\ \A p \in Numbers : PaidFor(p)' /\ WindowsEnded(p)'
    OBVIOUS
<1> DEFINE Kept == CodeHasPhone' /\ \A p \in Numbers : PaidFor(p)' /\ WindowsEnded(p)'
<1>a. /\ CabinetTypeOK /\ CodeHasPhone
      /\ \A p \in Numbers : PaidFor(p) /\ WindowsEnded(p)
      BY DEF CabinetInv
<1>b. ASSUME UNCHANGED <<windows, hours, budget>>
      PROVE  \A p \in Numbers : WindowsEnded(p)' /\ Paid(p)' = Paid(p) /\ Paid(p) <= Paid(p)'
  <2>1. \A p \in Numbers : Paid(p)' = Paid(p) /\ Paid(p) \in Int
        BY <1>a, <1>b, PaidType, SamePaid
  <2>2. QED BY <1>a, <1>b, <2>1 DEF WindowsEnded
<1>c. ASSUME UNCHANGED <<challenge, guesses>>
      PROVE  CodeHasPhone' /\ \A p \in Numbers : Left(p)' = Left(p) /\ guesses'[p] = guesses[p]
      BY <1>a, <1>c DEF CodeHasPhone, Left
<1>1. ASSUME NEW c \in Chats, UNCHANGED <<budget, windows, hours, guesses>>,
             \A d \in Chats \ {c} : challenge'[d] = challenge[d],
             \/ challenge'[c].state # "code"
             \/ /\ challenge[c].state = "code"
                /\ challenge'[c].phone = challenge[c].phone
                /\ challenge'[c].attempts = challenge[c].attempts
      PROVE  Kept
  <2>1. challenge'[c].attempts \in Nat /\ challenge[c].attempts \in Nat
        BY <1>a, AttemptsType DEF CabinetTypeOK
  <2>2. \A p \in Numbers : Left(p)' \subseteq Left(p)
        BY <1>a, <1>1, <2>1, NoNewCode
  <2>3. \A p \in Numbers : guesses'[p] = guesses[p]
        BY <1>1
  <2>4. CodeHasPhone'
        BY <1>a, <1>1 DEF CodeHasPhone
  <2>5. QED BY <1>a, <1>b, <1>1, <2>2, <2>3, <2>4, GuessesGivenUp
<1>2. ASSUME NEW c \in Chats, Begin(c) \/ Cancel(c)
      PROVE  Kept
  <2>1. challenge'[c].state # "code" /\ \A d \in Chats \ {c} : challenge'[d] = challenge[d]
    <3>1. CASE Begin(c)  BY <1>a, <3>1 DEF Begin, CabinetTypeOK, Challenges
    <3>2. CASE Cancel(c) BY <1>a, <3>2 DEF Cancel, CabinetTypeOK, Challenges
    <3>3. QED BY <1>2, <3>1, <3>2
  <2>2. QED BY <1>1, <1>2, <2>1 DEF Begin, Cancel
<1>3. ASSUME NEW c \in Chats, ChallengeExpires(c)
      PROVE  Kept
  <2>1. /\ \A d \in Chats \ {c} : challenge'[d] = challenge[d]
        /\ challenge'[c].state = challenge[c].state
        /\ challenge'[c].phone = challenge[c].phone
        /\ challenge'[c].attempts = challenge[c].attempts
        BY <1>a, <1>3 DEF ChallengeExpires, CabinetTypeOK, Challenges
  <2>2. QED BY <1>1, <1>3, <2>1 DEF ChallengeExpires
<1>4. ASSUME NEW c \in Chats, NEW q \in Numbers, AcceptTelegramContact(c, q)
      PROVE  Kept
  <2>1. challenge'[c].state # "code" /\ \A d \in Chats \ {c} : challenge'[d] = challenge[d]
    <3>1. challenge' = [challenge EXCEPT ![c].state = ""]
          BY <1>4 DEF AcceptTelegramContact
    <3>2. QED BY <1>a, <3>1 DEF CabinetTypeOK, Challenges
  <2>2. QED BY <1>1, <1>4, <2>1 DEF AcceptTelegramContact
<1>5. ASSUME NEW c \in Chats, ConfirmRight(c)
      PROVE  Kept
  <2>1. /\ \A d \in Chats \ {c} : challenge'[d] = challenge[d]
        /\ challenge'[c].state # "code"
        /\ challenge'[c].attempts = challenge[c].attempts + 1
        BY <1>a, <1>5 DEF ConfirmRight, CabinetTypeOK, Challenges
  <2>2. \A p \in Numbers : PaidFor(p)'
        BY <1>5, <2>1, GuessMade DEF ConfirmRight
  <2>3. CodeHasPhone'
        BY <1>a, <2>1 DEF CodeHasPhone
  <2>4. QED BY <1>b, <1>5, <2>2, <2>3 DEF ConfirmRight
<1>6. ASSUME NEW c \in Chats, ConfirmWrong(c)
      PROVE  Kept
  <2>1. /\ \A d \in Chats \ {c} : challenge'[d] = challenge[d]
        /\ challenge'[c].phone = challenge[c].phone
        /\ challenge'[c].attempts = challenge[c].attempts + 1
    <3>1. PICK s \in {"code", "locked"} :
             challenge' = [challenge EXCEPT ![c].attempts = challenge[c].attempts + 1,
                                            ![c].state = s]
          BY <1>6 DEF ConfirmWrong
    <3>2. challenge'[c] = [challenge[c] EXCEPT !.attempts = challenge[c].attempts + 1,
                                               !.state = s]
          BY <1>a, <3>1 DEF CabinetTypeOK
    <3>3. \A d \in Challenges, k \in Nat :
             LET e == [d EXCEPT !.attempts = k, !.state = s]
             IN  e.phone = d.phone /\ e.attempts = k
          BY DEF Challenges
    <3>4. challenge[c] \in Challenges /\ challenge[c].attempts + 1 \in Nat
          BY <1>a, AttemptsType DEF CabinetTypeOK
    <3>5. \A d \in Chats \ {c} : challenge'[d] = challenge[d]
          BY <1>a, <3>1 DEF CabinetTypeOK
    <3>6. QED BY <3>2, <3>3, <3>4, <3>5
  <2>2. \A p \in Numbers : PaidFor(p)'
        BY <1>6, <2>1, GuessMade DEF ConfirmWrong
  <2>3. challenge[c].state = "code"
        BY <1>6 DEF ConfirmWrong, Enter, Waits
  <2>4. CodeHasPhone'
        BY <1>a, <2>1, <2>3 DEF CodeHasPhone
  <2>5. QED BY <1>b, <1>6, <2>2, <2>4 DEF ConfirmWrong
<1>7. ASSUME NEW c \in Chats, NEW q \in Numbers, Send(c, q)
      PROVE  Kept
  <2>1. \A p \in Numbers : PaidFor(p)'
        BY <1>7, CodeSent
  <2>2. /\ \A d \in Chats \ {c} : challenge'[d] = challenge[d]
        /\ challenge'[c].phone = q
        BY <1>a, <1>7 DEF Send, CabinetTypeOK
  <2>3. CodeHasPhone'
        BY <1>a, <2>2 DEF CodeHasPhone
  <2>4. ASSUME NEW p \in Numbers
        PROVE  WindowsEnded(p)'
    <3>1. /\ windows[p] \in Nat /\ hours \in Nat /\ hours' = hours
          /\ windows[p] <= hours + (IF budget[p].old THEN 0 ELSE 1)
          BY <1>a, <1>7 DEF WindowsEnded, CabinetTypeOK, Send
    <3>2. CASE p = q
      <4>1. budget'[p] = Charged(p) /\ MaySend(p)
            BY <1>a, <1>7, <3>2, CabinetAssumption DEF Send, CabinetTypeOK
      <4>2. ~budget'[p].old
            BY <1>a, <4>1, ChargedBudget
      <4>3. windows'[p] = IF budget[p].old THEN windows[p] + 1 ELSE windows[p]
            BY <1>a, <1>7, <3>2 DEF Send, CabinetTypeOK
      <4>4. QED BY <3>1, <4>2, <4>3 DEF WindowsEnded
    <3>3. CASE p # q
      <4>1. budget'[p] = budget[p] /\ windows'[p] = windows[p]
            BY <1>a, <1>7, <3>3, CabinetAssumption DEF Send, CabinetTypeOK
      <4>2. QED BY <3>1, <4>1 DEF WindowsEnded
    <3>4. QED BY <3>2, <3>3
  <2>5. QED BY <2>1, <2>3, <2>4
<1>8. CASE MinutePasses
  <2>1. \A p \in Numbers : /\ budget'[p].old = budget[p].old
                           /\ budget'[p].sends = budget[p].sends
        BY <1>a, <1>8 DEF MinutePasses, CabinetTypeOK, Budgets
  <2>2. UNCHANGED <<challenge, guesses, windows, hours>>
        BY <1>8 DEF MinutePasses
  <2>3. \A p \in Numbers : Paid(p) <= Paid(p)'
        BY <1>a, <2>1, <2>2, SamePaid, PaidType
  <2>4. \A p \in Numbers : PaidFor(p)'
        BY <1>a, <1>c, <2>2, <2>3, GuessesGivenUp
  <2>5. \A p \in Numbers : WindowsEnded(p)'
        BY <1>a, <2>1, <2>2 DEF WindowsEnded
  <2>6. QED BY <1>c, <2>2, <2>4, <2>5
<1>9. ASSUME NEW e \in DOMAIN budget, WindowEnds(e)
      PROVE  Kept
  <2>1. UNCHANGED <<challenge, guesses, windows>> /\ hours' = hours + 1 /\ ~budget[e].old
        BY <1>9 DEF WindowEnds
  <2>2. ASSUME NEW p \in Numbers
        PROVE  PaidFor(p)' /\ WindowsEnded(p)'
    <3>1. windows[p] \in Nat /\ hours \in Nat /\ budget[p].sends \in 0..MaxSends
          BY <1>a DEF CabinetTypeOK, Budgets
    <3>2. CASE p = e
      <4>1. budget'[p].old
            BY <1>a, <1>9, <3>2 DEF WindowEnds, CabinetTypeOK, Budgets
      <4>2. Paid(p)' = windows[p] * MaxSends
            BY <2>1, <4>1 DEF Paid
      <4>3. Paid(p) <= Paid(p)'
            BY <1>a, <4>2, PaidType
      <4>4. PaidFor(p)'
            BY <1>a, <1>c, <2>1, <4>3, GuessesGivenUp
      <4>5. windows'[p] <= hours' + 0
            BY <1>a, <2>1, <3>1, <3>2 DEF WindowsEnded
      <4>6. QED BY <4>1, <4>4, <4>5 DEF WindowsEnded
    <3>3. CASE p # e
      <4>1. budget'[p] = budget[p]
            BY <1>a, <1>9, <3>3 DEF WindowEnds, CabinetTypeOK
      <4>2. Paid(p) <= Paid(p)'
            BY <1>a, <2>1, <4>1, SamePaid, PaidType
      <4>3. PaidFor(p)'
            BY <1>a, <1>c, <2>1, <4>2, GuessesGivenUp
      <4>4. WindowsEnded(p)'
            BY <1>a, <2>1, <3>1, <4>1 DEF WindowsEnded
      <4>5. QED BY <4>3, <4>4
    <3>4. QED BY <3>2, <3>3
  <2>3. QED BY <1>c, <2>1, <2>2
<1>10. ASSUME UNCHANGED <<challenge, budget, hours, guesses, windows>>
       PROVE  Kept
       BY <1>a, <1>b, <1>c, <1>10, GuessesGivenUp
<1>11. ASSUME NEW c \in Chats,
              ProofExpires(c) \/ \E q \in Numbers : RecordTelegramResolution(c, q)
       PROVE  Kept
       BY <1>10, <1>11 DEF ProofExpires, RecordTelegramResolution
<1>12. CASE UNCHANGED cabinetVars
       BY <1>10, <1>12 DEF cabinetVars
<1>13. QED
    BY <1>2, <1>3, <1>4, <1>5, <1>6, <1>7, <1>8, <1>9, <1>11, <1>12 DEF CabinetNext

\* The inductive invariant holds in every reachable state.
THEOREM CabinetInvariance == CabinetSpec => []CabinetInv
<1>1. CabinetInv /\ [CabinetNext]_cabinetVars => CabinetInv'
      BY CabinetTypesStep, GuessesStep DEF CabinetInv
<1>2. QED BY CabinetStarts, <1>1, PTL DEF CabinetSpec

\* However many chats try, and however often they cancel, begin again or let
\* codes expire, the codes of one phone are guessed at most MaxSends times
\* MaxAttempts in each budget window of that phone (Send's charge to the
\* phone's budget, Confirm's count of attempts).
THEOREM GuessesAreLimited == CabinetSpec => []GuessingIsLimited
<1>1. ASSUME CabinetInv, NEW p \in Numbers
      PROVE  guesses[p] <= MaxSends * MaxAttempts * windows[p]
  <2>1. CabinetTypeOK /\ PaidFor(p)
        BY <1>1 DEF CabinetInv
  <2>2. windows[p] \in Nat /\ guesses[p] \in Nat
        BY <2>1 DEF CabinetTypeOK
  <2>3. Paid(p) \in Int /\ Paid(p) <= windows[p] * MaxSends /\ windows[p] * MaxSends \in Int
        BY <2>1, <2>2, PaidType, CabinetAssumption
  <2>4. Paid(p) * MaxAttempts <= (windows[p] * MaxSends) * MaxAttempts
        BY <2>3, MoreCodes, CabinetAssumption
  <2>5. (windows[p] * MaxSends) * MaxAttempts = MaxSends * MaxAttempts * windows[p]
        BY <2>2, CabinetAssumption
  <2>6. Cardinality(Left(p)) \in Nat
        BY <2>1, FS_CardinalityType DEF PaidFor
  <2>7. Paid(p) * MaxAttempts \in Int /\ (windows[p] * MaxSends) * MaxAttempts \in Int
        BY <2>3, CabinetAssumption
  <2>8. guesses[p] + Cardinality(Left(p)) <= Paid(p) * MaxAttempts
        BY <2>1 DEF PaidFor
  <2>9. guesses[p] <= (windows[p] * MaxSends) * MaxAttempts
        BY <2>2, <2>4, <2>6, <2>7, <2>8
  <2>10. QED BY <2>5, <2>9
<1>2. CabinetInv => GuessingIsLimited
      BY <1>1 DEF GuessingIsLimited
<1>3. QED BY CabinetInvariance, <1>2, PTL

-----------------------------------------------------------------------------
(***************************************************************************)
(* Contact permissions.                                                    *)
(*                                                                         *)
(* RouteIsProven joins two rows that are found by different keys.  It      *)
(* survives because every transaction that moves a chat to another phone,  *)
(* or ends its link, also visits the row of the phone the chat had: there  *)
(* can be only one, as a live row names a chat that names its phone.       *)
(* Allowing a phone revives no link, as a withdrawn row is not live        *)
(* (WithdrawnIsDead).                                                      *)
(***************************************************************************)

\* A phone's row that was withdrawn has no running link.
WithdrawnIsDead == \A p \in Phones : byPhone[p].blocked => ~byPhone[p].live

ContactInv == ContactTypeOK /\ WithdrawnIsDead /\ RouteIsProven

\* WithdrawalHolds, route by route.
WithdrawnRoutes ==
    \A p \in Phones :
        /\ "bot" \in withdrawn[p] => BotChat(p) = None
        /\ "whatsapp" \in withdrawn[p] => whatsapp[p] # "on"
        /\ "sms" \in withdrawn[p] => ~Requested(p) \/ staff[p] = "blocked"

-----------------------------------------------------------------------------
(* What a request carries, and what linking does to the rows of phones.    *)

LEMMA RequestTypes ==
    ASSUME ContactTypeOK, NEW r \in Requests
    PROVE  /\ request[r].step = "link" =>
                /\ request[r].chat \in Chats /\ request[r].phone \in Phones
                /\ request[r].old \in Phones \cup {None}
           /\ request[r].step = "unlink" =>
                request[r].chat \in Chats /\ request[r].old \in Phones
BY DEF ContactTypeOK, InFlight, Idle

LEMMA LinkedRow ==
    ASSUME ContactTypeOK, NEW r \in Requests, request[r].step = "link"
    PROVE  /\ Linked(r) \in [Phones -> PhoneRows]
           /\ Linked(r)[request[r].phone] =
                [chat |-> request[r].chat, live |-> TRUE, blocked |-> FALSE]
           /\ \A q \in Phones \ {request[r].phone} :
                \/ Linked(r)[q] = NoPhoneRow
                \/ /\ Linked(r)[q] = byPhone[q]
                   /\ q # request[r].old \/ byPhone[q].chat # request[r].chat
<1>1. request[r].chat \in Chats /\ request[r].phone \in Phones
      BY RequestTypes
<1>2. NoPhoneRow \in PhoneRows
      BY DEF NoPhoneRow, PhoneRows
<1>3. [chat |-> request[r].chat, live |-> TRUE, blocked |-> FALSE] \in PhoneRows
      BY <1>1 DEF PhoneRows
<1>4. QED BY <1>1, <1>2, <1>3 DEF ContactTypeOK, Linked

-----------------------------------------------------------------------------
(* Types.                                                                  *)

LEMMA ContactStarts == ContactInit => ContactInv
<1> SUFFICES ASSUME ContactInit
             PROVE  ContactInv
    OBVIOUS
<1>1. chat \in [Chats -> ChatRows]
      BY DEF ContactInit, ChatRows
<1>2. byPhone \in [Phones -> PhoneRows]
      BY DEF ContactInit, PhoneRows, NoPhoneRow
<1>3. /\ whatsapp \in [Phones -> {"none", "on", "off"}]
      /\ staff \in [Phones -> {"none", "allowed", "blocked"}]
      /\ request \in [Requests -> {Idle} \cup InFlight]
      /\ withdrawn \in [Phones -> SUBSET Route]
      BY DEF ContactInit
<1>4. operations \in 0..MaxOperations
      BY ContactAssumption DEF ContactInit
<1>5. WithdrawnIsDead /\ RouteIsProven
      BY DEF ContactInit, WithdrawnIsDead, RouteIsProven, BotChat, NoPhoneRow
<1>6. QED BY <1>1, <1>2, <1>3, <1>4, <1>5 DEF ContactInv, ContactTypeOK

\* Every change that is made to a row leaves a row.
LEMMA ChatChanges ==
    ASSUME NEW entry \in ChatRows, NEW b \in BOOLEAN
    PROVE  /\ [entry EXCEPT !.asked = b] \in ChatRows
           /\ [entry EXCEPT !.live = b] \in ChatRows
           /\ [entry EXCEPT !.blocked = b] \in ChatRows
<1>1. [entry EXCEPT !.asked = b] \in ChatRows
      BY DEF ChatRows
<1>2. [entry EXCEPT !.live = b] \in ChatRows
      BY DEF ChatRows
<1>3. [entry EXCEPT !.blocked = b] \in ChatRows
      BY DEF ChatRows
<1>4. QED BY <1>1, <1>2, <1>3

LEMMA PhoneChanges ==
    ASSUME NEW entry \in PhoneRows, NEW b \in BOOLEAN
    PROVE  /\ [entry EXCEPT !.blocked = b] \in PhoneRows
           /\ [entry EXCEPT !.live = b] \in PhoneRows
<1>1. [entry EXCEPT !.blocked = b] \in PhoneRows
      BY DEF PhoneRows
<1>2. [entry EXCEPT !.live = b] \in PhoneRows
      BY DEF PhoneRows
<1>3. QED BY <1>1, <1>2

LEMMA LiveField ==
    ASSUME NEW entry \in PhoneRows, NEW live
    PROVE  [entry EXCEPT !.live = live].live = live
BY DEF PhoneRows

LEMMA ChatRowTypes ==
    ASSUME ContactTypeOK, NEW c \in Chats
    PROVE  /\ \A b \in BOOLEAN : [chat EXCEPT ![c].asked = b] \in [Chats -> ChatRows]
           /\ [chat EXCEPT ![c].live = FALSE] \in [Chats -> ChatRows]
           /\ [chat EXCEPT ![c].live = FALSE, ![c].blocked = TRUE] \in [Chats -> ChatRows]
           /\ \A p \in Phones :
                [chat EXCEPT ![c] = [phone |-> p, live |-> TRUE, blocked |-> FALSE,
                                     asked |-> FALSE]] \in [Chats -> ChatRows]
<1>a. chat \in [Chats -> ChatRows] /\ chat[c] \in ChatRows
      BY DEF ContactTypeOK
<1>1. /\ \A b \in BOOLEAN : [chat EXCEPT ![c].asked = b] \in [Chats -> ChatRows]
      /\ [chat EXCEPT ![c].live = FALSE] \in [Chats -> ChatRows]
      BY <1>a, ChatChanges
<1>2. [chat EXCEPT ![c].live = FALSE, ![c].blocked = TRUE] \in [Chats -> ChatRows]
  <2> DEFINE off == [chat EXCEPT ![c].live = FALSE]
  <2>1. off \in [Chats -> ChatRows] /\ off[c] \in ChatRows
        BY <1>1
  <2>2. [chat EXCEPT ![c].live = FALSE, ![c].blocked = TRUE] = [off EXCEPT ![c].blocked = TRUE]
        OBVIOUS
  <2> HIDE DEF off
  <2>3. [off EXCEPT ![c].blocked = TRUE] \in [Chats -> ChatRows]
        BY <2>1, ChatChanges
  <2>4. QED BY <2>2, <2>3, Zenon
<1>3. ASSUME NEW p \in Phones
      PROVE  [chat EXCEPT ![c] = [phone |-> p, live |-> TRUE, blocked |-> FALSE,
                                  asked |-> FALSE]] \in [Chats -> ChatRows]
  <2>1. [phone |-> p, live |-> TRUE, blocked |-> FALSE, asked |-> FALSE] \in ChatRows
        BY DEF ChatRows
  <2>2. QED BY <2>1 DEF ContactTypeOK
<1>4. QED BY <1>1, <1>2, <1>3

LEMMA PhoneRowTypes ==
    ASSUME ContactTypeOK, NEW p \in Phones
    PROVE  /\ [byPhone EXCEPT ![p].blocked = FALSE] \in [Phones -> PhoneRows]
           /\ [byPhone EXCEPT ![p].blocked = TRUE, ![p].live = FALSE]
                \in [Phones -> PhoneRows]
           /\ [byPhone EXCEPT ![p].live = FALSE, ![p].blocked = TRUE]
                \in [Phones -> PhoneRows]
<1> DEFINE Table == [Phones -> PhoneRows]
<1>a. byPhone \in Table
      BY DEF ContactTypeOK
<1>b. ASSUME NEW rows \in Table, NEW b \in BOOLEAN
      PROVE  [rows EXCEPT ![p].blocked = b] \in Table /\ [rows EXCEPT ![p].live = b] \in Table
      BY PhoneChanges
<1> HIDE DEF Table
<1>1. [byPhone EXCEPT ![p].blocked = FALSE] \in Table
      BY <1>a, <1>b
<1>2. [byPhone EXCEPT ![p].blocked = TRUE, ![p].live = FALSE] \in Table
  <2> DEFINE blocked == [byPhone EXCEPT ![p].blocked = TRUE]
  <2>1. blocked \in Table
        BY <1>a, <1>b
  <2>2. [byPhone EXCEPT ![p].blocked = TRUE, ![p].live = FALSE]
          = [blocked EXCEPT ![p].live = FALSE]
        OBVIOUS
  <2> HIDE DEF blocked
  <2>3. QED BY <1>b, <2>1, <2>2
<1>3. [byPhone EXCEPT ![p].live = FALSE, ![p].blocked = TRUE] \in Table
  <2> DEFINE off == [byPhone EXCEPT ![p].live = FALSE]
  <2>1. off \in Table
        BY <1>a, <1>b
  <2>2. [byPhone EXCEPT ![p].live = FALSE, ![p].blocked = TRUE]
          = [off EXCEPT ![p].blocked = TRUE]
        OBVIOUS
  <2> HIDE DEF off
  <2>3. QED BY <1>b, <2>1, <2>2
<1> USE DEF Table
<1>4. QED BY <1>1, <1>2, <1>3

\* Withdrawals and their renewal leave sets of routes.
LEMMA WithdrawnTypes ==
    ASSUME ContactTypeOK, NEW p \in Phones, NEW S \in SUBSET Route
    PROVE  /\ [withdrawn EXCEPT ![p] = S] \in [Phones -> SUBSET Route]
           /\ [withdrawn EXCEPT ![p] = @ \ S] \in [Phones -> SUBSET Route]
           /\ [withdrawn EXCEPT ![p] = @ \cup S] \in [Phones -> SUBSET Route]
BY DEF ContactTypeOK

LEMMA ContactTypesStep ==
    ContactTypeOK /\ [ContactNext]_contactVars => ContactTypeOK'
<1> SUFFICES ASSUME ContactTypeOK, [ContactNext]_contactVars
             PROVE  ContactTypeOK'
    OBVIOUS
<1>a. Operate => operations' \in 0..MaxOperations
      BY ContactAssumption DEF ContactTypeOK, Operate
<1>b. \A r \in Requests : End(r) => request' \in [Requests -> {Idle} \cup InFlight]
      BY DEF ContactTypeOK, End
<1>c. /\ {"bot", "account", "sms"} \in SUBSET Route /\ {"bot", "account"} \in SUBSET Route
      /\ {"whatsapp"} \in SUBSET Route /\ Route \in SUBSET Route
      BY DEF Route
<1> USE DEF ContactTypeOK
<1>1. ASSUME NEW p \in Phones, AllowPhone(p)
      PROVE  ContactTypeOK'
  <2>1. byPhone' \in [Phones -> PhoneRows]
        BY <1>1, PhoneRowTypes DEF AllowPhone
  <2>2. withdrawn' \in [Phones -> SUBSET Route]
        BY <1>1, <1>c, WithdrawnTypes DEF AllowPhone
  <2>3. QED BY <1>1, <1>a, <2>1, <2>2 DEF AllowPhone
<1>2. ASSUME NEW p \in Phones, BlockPhone(p)
      PROVE  ContactTypeOK'
  <2>1. byPhone' \in [Phones -> PhoneRows]
        BY <1>2, PhoneRowTypes DEF BlockPhone
  <2>2. withdrawn' \in [Phones -> SUBSET Route]
        BY <1>2, <1>c, WithdrawnTypes DEF BlockPhone
  <2>3. QED BY <1>2, <1>a, <2>1, <2>2 DEF BlockPhone
<1>3. ASSUME NEW p \in Phones, LinkWhatsApp(p)
      PROVE  ContactTypeOK'
  <2>1. \/ withdrawn' = [withdrawn EXCEPT ![p] = @ \ {"whatsapp"}]
        \/ withdrawn' = [withdrawn EXCEPT ![p] = @ \cup {"whatsapp"}]
        BY <1>3 DEF LinkWhatsApp
  <2>2. /\ withdrawn[p] \ {"whatsapp"} \in SUBSET Route
        /\ withdrawn[p] \cup {"whatsapp"} \in SUBSET Route
        BY <1>c
  <2>3. withdrawn' \in [Phones -> SUBSET Route]
        BY <2>1, <2>2
  <2>4. QED BY <1>3, <1>a, <2>3 DEF LinkWhatsApp
<1>4. ASSUME NEW p \in Phones, PermissionExpires(p)
      PROVE  ContactTypeOK'
      BY <1>4 DEF PermissionExpires
<1>5. ASSUME NEW c \in Chats, RequestContact(c)
      PROVE  ContactTypeOK'
      BY <1>5, <1>a, ChatRowTypes DEF RequestContact
<1>6. ASSUME NEW c \in Chats, LinkExpires(c)
      PROVE  ContactTypeOK'
  <2>1. \A p \in Phones : [byPhone[p] EXCEPT !.live = FALSE] \in PhoneRows
        BY DEF PhoneRows
  <2>2. byPhone' \in [Phones -> PhoneRows]
        BY <1>6, <2>1 DEF LinkExpires
  <2>3. chat' \in [Chats -> ChatRows]
        BY <1>6, ChatRowTypes DEF LinkExpires
  <2>4. QED BY <1>6, <2>2, <2>3 DEF LinkExpires
<1>7. ASSUME NEW c \in Chats, ContactRequestExpires(c)
      PROVE  ContactTypeOK'
      BY <1>7, ChatRowTypes DEF ContactRequestExpires
<1>8. ASSUME NEW r \in Requests, NEW c \in Chats, StartUnlink(r, c)
      PROVE  ContactTypeOK'
  <2>1. [step |-> "unlink", chat |-> c, old |-> chat[c].phone] \in InFlight
        BY <1>8 DEF StartUnlink, InFlight, ChatRows
  <2>2. QED BY <1>8, <1>a, <2>1 DEF StartUnlink
<1>9. ASSUME NEW r \in Requests, NEW c \in Chats, NEW p \in Phones, StartLink(r, c, p)
      PROVE  ContactTypeOK'
  <2>1. [step |-> "link", chat |-> c, phone |-> p, old |-> chat[c].phone] \in InFlight
        BY DEF InFlight, ChatRows
  <2>2. QED BY <1>9, <1>a, <2>1 DEF StartLink
<1>10. ASSUME NEW r \in Requests, LinkTelegram(r)
       PROVE  ContactTypeOK'
  <2>1. /\ request[r].step = "link"
        /\ request[r].chat \in Chats /\ request[r].phone \in Phones
        BY <1>10, RequestTypes DEF LinkTelegram
  <2>2. byPhone' \in [Phones -> PhoneRows]
        BY <1>10, <2>1, LinkedRow DEF LinkTelegram
  <2>3. chat' \in [Chats -> ChatRows]
        BY <1>10, <2>1, ChatRowTypes DEF LinkTelegram
  <2>4. withdrawn' \in [Phones -> SUBSET Route]
        BY <1>10, <1>c, <2>1, WithdrawnTypes DEF LinkTelegram
  <2>5. QED BY <1>10, <1>b, <2>2, <2>3, <2>4 DEF LinkTelegram
<1>11. ASSUME NEW r \in Requests, LinkChangesNothing(r)
       PROVE  ContactTypeOK'
       BY <1>11, <1>b DEF LinkChangesNothing
<1>12. ASSUME NEW r \in Requests, UnlinkTelegram(r)
       PROVE  ContactTypeOK'
  <2>1. request[r].chat \in Chats /\ request[r].old \in Phones
        BY <1>12, RequestTypes DEF UnlinkTelegram
  <2>2. \/ byPhone' = byPhone
        \/ byPhone' = [byPhone EXCEPT ![request[r].old].live = FALSE,
                                      ![request[r].old].blocked = TRUE]
        BY <1>12 DEF UnlinkTelegram
  <2>3. byPhone' \in [Phones -> PhoneRows]
    <3>1. PICK p \in Phones : request[r].old = p
          BY <2>1
    <3>2. \/ byPhone' = byPhone
          \/ byPhone' = [byPhone EXCEPT ![p].live = FALSE, ![p].blocked = TRUE]
          BY <2>2, <3>1
    <3>3. [byPhone EXCEPT ![p].live = FALSE, ![p].blocked = TRUE] \in [Phones -> PhoneRows]
          BY PhoneRowTypes, Zenon
    <3>4. QED BY <3>2, <3>3, Zenon
  <2>4. \/ chat' = chat
        \/ chat' = [chat EXCEPT ![request[r].chat].live = FALSE,
                                ![request[r].chat].blocked = TRUE]
        BY <1>12 DEF UnlinkTelegram
  <2>5. chat' \in [Chats -> ChatRows]
    <3>1. PICK c \in Chats : request[r].chat = c
          BY <2>1
    <3>2. \/ chat' = chat
          \/ chat' = [chat EXCEPT ![c].live = FALSE, ![c].blocked = TRUE]
          BY <2>4, <3>1
    <3>3. [chat EXCEPT ![c].live = FALSE, ![c].blocked = TRUE] \in [Chats -> ChatRows]
          BY ChatRowTypes, Zenon
    <3>4. QED BY <3>2, <3>3, Zenon
  <2>6. \/ withdrawn' = withdrawn
        \/ withdrawn' = [withdrawn EXCEPT ![request[r].old] = @ \cup {"bot", "account"}]
        BY <1>12 DEF UnlinkTelegram
  <2>7. withdrawn[request[r].old] \cup {"bot", "account"} \in SUBSET Route
        BY <1>c, <2>1
  <2>8. withdrawn' \in [Phones -> SUBSET Route]
        BY <2>1, <2>6, <2>7
  <2>9. QED BY <1>12, <1>b, <2>3, <2>5, <2>8 DEF UnlinkTelegram
<1>13. ASSUME NEW r \in Requests, FailRequest(r)
       PROVE  ContactTypeOK'
       BY <1>13, <1>b DEF FailRequest
<1>14. CASE UNCHANGED contactVars
       BY <1>14 DEF contactVars
<1>15. QED
    BY <1>1, <1>2, <1>3, <1>4, <1>5, <1>6, <1>7, <1>8, <1>9, <1>10, <1>11, <1>12,
       <1>13, <1>14 DEF ContactNext

-----------------------------------------------------------------------------
(* The two rows of a link.                                                 *)

LEMMA RouteStep ==
    ContactInv /\ [ContactNext]_contactVars => WithdrawnIsDead' /\ RouteIsProven'
<1> SUFFICES ASSUME ContactInv, [ContactNext]_contactVars
             PROVE  WithdrawnIsDead' /\ RouteIsProven'
    OBVIOUS
<1>a. ContactTypeOK /\ ContactTypeOK'
      BY ContactTypesStep DEF ContactInv
<1>b. \A p \in Phones : byPhone[p] \in PhoneRows /\ byPhone[p].chat \in Chats \cup {None}
      BY <1>a DEF ContactTypeOK, PhoneRows
<1>c. \A c \in Chats : chat[c] \in ChatRows
      BY <1>a DEF ContactTypeOK
<1>d. \A p \in Phones : byPhone[p].blocked => ~byPhone[p].live
      BY DEF ContactInv, WithdrawnIsDead
<1>e. \A p \in Phones :
        byPhone[p].live /\ byPhone[p].chat # None =>
            /\ chat[byPhone[p].chat].phone = p
            /\ chat[byPhone[p].chat].live /\ ~chat[byPhone[p].chat].blocked
      BY <1>d DEF ContactInv, RouteIsProven, BotChat
\* What is left to show, with the definitions of the two properties expanded.
<1> DEFINE Dead == \A p \in Phones : byPhone'[p].blocked => ~byPhone'[p].live
           Proven == \A p \in Phones :
                        byPhone'[p].live /\ byPhone'[p].chat # None =>
                            /\ chat'[byPhone'[p].chat].phone = p
                            /\ chat'[byPhone'[p].chat].live
                            /\ ~chat'[byPhone'[p].chat].blocked
<1>f. Dead /\ Proven => WithdrawnIsDead' /\ RouteIsProven'
      BY DEF WithdrawnIsDead, RouteIsProven, BotChat
<1> SUFFICES Dead /\ Proven
    BY <1>f
<1> USE <1>b, <1>c, <1>d, <1>e
<1>1. ASSUME NEW p \in Phones, AllowPhone(p)
      PROVE  Dead /\ Proven
  <2>1. /\ byPhone' = [byPhone EXCEPT ![p].blocked = FALSE]
        /\ chat' = chat
        BY <1>1 DEF AllowPhone
  <2>2. \A q \in Phones : /\ byPhone'[q].live = byPhone[q].live
                          /\ byPhone'[q].chat = byPhone[q].chat
                          /\ byPhone'[q].blocked => byPhone[q].blocked
        BY <1>a, <2>1 DEF ContactTypeOK, PhoneRows
  <2>3. QED BY <2>1, <2>2
<1>2. ASSUME NEW p \in Phones, BlockPhone(p)
      PROVE  Dead /\ Proven
  <2>1. /\ byPhone' = [byPhone EXCEPT ![p].blocked = TRUE, ![p].live = FALSE]
        /\ chat' = chat
        BY <1>2 DEF BlockPhone
  <2>2. \A q \in Phones \ {p} : byPhone'[q] = byPhone[q]
        BY <1>a, <2>1 DEF ContactTypeOK
  <2>3. ~byPhone'[p].live
    <3> DEFINE entry == [byPhone[p] EXCEPT !.blocked = TRUE]
    <3>1. entry \in PhoneRows
          BY PhoneChanges
    <3> HIDE DEF entry
    <3> DEFINE rows == [byPhone EXCEPT ![p].blocked = TRUE]
    <3>a. p \in DOMAIN rows /\ rows[p] = entry
          BY <1>a DEF ContactTypeOK, entry
    <3>b. byPhone' = [rows EXCEPT ![p].live = FALSE]
          BY <2>1
    <3> HIDE DEF rows
    <3> DEFINE new == [entry EXCEPT !.live = FALSE]
    <3>2. byPhone'[p] = new
          BY <3>a, <3>b
    <3>3. new.live = FALSE
          BY <3>1, LiveField, ZenonT(30)
    <3> HIDE DEF new
    <3>4. QED BY <3>2, <3>3
  <2>4. ASSUME NEW q \in Phones
        PROVE  ~byPhone'[q].live \/ byPhone'[q] = byPhone[q]
        BY <2>2, <2>3, Zenon
  <2>5. Dead
        BY <1>d, <2>4, Zenon
  <2>6. ASSUME NEW q \in Phones, byPhone'[q].live, byPhone'[q].chat # None
        PROVE  /\ chat'[byPhone'[q].chat].phone = q
               /\ chat'[byPhone'[q].chat].live /\ ~chat'[byPhone'[q].chat].blocked
    <3>1. byPhone'[q] = byPhone[q]
          BY <2>4, <2>6, Zenon
    <3>2. byPhone[q].live /\ byPhone[q].chat # None
          BY <2>6, <3>1, Zenon
    <3>3. QED BY <1>e, <2>1, <3>1, <3>2, Zenon
  <2>7. QED BY <2>5, <2>6, Zenon
<1>3. ASSUME NEW c \in Chats, LinkExpires(c)
      PROVE  Dead /\ Proven
  <2>1. \A q \in Phones :
            /\ byPhone[q].chat = c => ~byPhone'[q].live
            /\ byPhone[q].chat # c => byPhone'[q] = byPhone[q]
        BY <1>3 DEF LinkExpires, PhoneRows
  <2>2. \A d \in Chats \ {c} : chat'[d] = chat[d]
        BY <1>a, <1>3 DEF LinkExpires, ContactTypeOK
  <2>3. QED BY <2>1, <2>2
<1>4. ASSUME NEW c \in Chats, RequestContact(c) \/ ContactRequestExpires(c)
      PROVE  Dead /\ Proven
  <2>1. /\ byPhone' = byPhone
        /\ \E b \in BOOLEAN : chat' = [chat EXCEPT ![c].asked = b]
        BY <1>4 DEF RequestContact, ContactRequestExpires
  <2>2. \A d \in Chats : /\ chat'[d].phone = chat[d].phone
                         /\ chat'[d].live = chat[d].live
                         /\ chat'[d].blocked = chat[d].blocked
        BY <1>a, <2>1 DEF ContactTypeOK, ChatRows
  <2>3. QED BY <2>1, <2>2
<1>5. ASSUME NEW r \in Requests, LinkTelegram(r)
      PROVE  Dead /\ Proven
  <2> DEFINE c == request[r].chat
             p == request[r].phone
             old == request[r].old
  <2>1. /\ request[r].step = "link" /\ Unmoved(r)
        /\ c \in Chats /\ p \in Phones
        BY <1>5, <1>a, RequestTypes DEF LinkTelegram, MayLink
  <2>2. /\ byPhone'[p] = [chat |-> c, live |-> TRUE, blocked |-> FALSE]
        /\ \A q \in Phones \ {p} :
             \/ byPhone'[q] = NoPhoneRow
             \/ byPhone'[q] = byPhone[q] /\ (q # old \/ byPhone[q].chat # c)
        BY <1>5, <1>a, <2>1, LinkedRow DEF LinkTelegram
  <2>3. /\ chat'[c] = [phone |-> p, live |-> TRUE, blocked |-> FALSE, asked |-> FALSE]
        /\ \A d \in Chats \ {c} : chat'[d] = chat[d]
        BY <1>5, <1>a, <2>1 DEF LinkTelegram, ContactTypeOK
  <2>4. chat[c].phone = old
        BY <2>1 DEF Unmoved
  <2>5. Dead
        BY <2>2 DEF NoPhoneRow
  <2>6. ASSUME NEW q \in Phones, byPhone'[q].live, byPhone'[q].chat # None
        PROVE  /\ chat'[byPhone'[q].chat].phone = q
               /\ chat'[byPhone'[q].chat].live /\ ~chat'[byPhone'[q].chat].blocked
    <3>1. CASE q = p
          BY <2>2, <2>3, <3>1
    <3>2. CASE q # p
      <4>1. byPhone'[q] = byPhone[q] /\ (q # old \/ byPhone[q].chat # c)
            BY <2>2, <2>6, <3>2 DEF NoPhoneRow
      <4>2. byPhone[q].chat # c
            BY <2>4, <2>6, <4>1
      <4>3. byPhone[q].chat \in Chats \ {c}
            BY <2>6, <4>1, <4>2
      <4>4. QED BY <2>3, <2>6, <4>1, <4>3
    <3>3. QED BY <3>1, <3>2
  <2>7. QED BY <2>5, <2>6
<1>6. ASSUME NEW r \in Requests, UnlinkTelegram(r)
      PROVE  Dead /\ Proven
  <2> DEFINE c == request[r].chat
             p == request[r].old
  <2>1. c \in Chats /\ p \in Phones
        BY <1>6, <1>a, RequestTypes DEF UnlinkTelegram
  <2>2. CASE ~Unmoved(r)
        BY <1>6, <2>2 DEF UnlinkTelegram
  <2>3. CASE Unmoved(r) /\ byPhone[p].chat = c
    <3>1. /\ chat' = [chat EXCEPT ![c].live = FALSE, ![c].blocked = TRUE]
          /\ byPhone' = [byPhone EXCEPT ![p].live = FALSE, ![p].blocked = TRUE]
          BY <1>6, <2>3 DEF UnlinkTelegram
    <3>2. /\ ~byPhone'[p].live
          /\ \A q \in Phones \ {p} : byPhone'[q] = byPhone[q]
          BY <1>a, <2>1, <3>1 DEF ContactTypeOK, PhoneRows
    <3>3. \A d \in Chats \ {c} : chat'[d] = chat[d]
          BY <1>a, <3>1 DEF ContactTypeOK
    <3>4. chat[c].phone = p
          BY <2>3 DEF Unmoved
    <3>5. QED BY <3>2, <3>3, <3>4
  <2>4. CASE Unmoved(r) /\ byPhone[p].chat # c
    <3>1. /\ chat' = [chat EXCEPT ![c].live = FALSE, ![c].blocked = TRUE]
          /\ byPhone' = byPhone
          BY <1>6, <2>4 DEF UnlinkTelegram
    <3>2. \A d \in Chats \ {c} : chat'[d] = chat[d]
          BY <1>a, <3>1 DEF ContactTypeOK
    <3>3. chat[c].phone = p
          BY <2>4 DEF Unmoved
    <3>4. ASSUME NEW q \in Phones, byPhone[q].live, byPhone[q].chat # None
          PROVE  byPhone[q].chat \in Chats \ {c}
          BY <2>4, <3>3, <3>4
    <3>5. byPhone' = byPhone
          BY <3>1
    <3>6. QED BY <3>2, <3>4, <3>5
  <2>5. QED BY <2>2, <2>3, <2>4
<1>7. CASE UNCHANGED <<chat, byPhone>>
      BY <1>7
<1>8. ASSUME NEW p \in Phones, LinkWhatsApp(p) \/ PermissionExpires(p)
      PROVE  UNCHANGED <<chat, byPhone>>
      BY <1>8 DEF LinkWhatsApp, PermissionExpires
<1>9. ASSUME NEW r \in Requests,
             \/ \E c \in Chats : StartUnlink(r, c) \/ \E p \in Phones : StartLink(r, c, p)
             \/ LinkChangesNothing(r) \/ FailRequest(r)
      PROVE  UNCHANGED <<chat, byPhone>>
      BY <1>9 DEF StartUnlink, StartLink, LinkChangesNothing, FailRequest
<1>10. QED
    BY <1>1, <1>2, <1>3, <1>4, <1>5, <1>6, <1>7, <1>8, <1>9 DEF ContactNext, contactVars

-----------------------------------------------------------------------------
(* Withdrawals.                                                            *)

LEMMA PlanOfWithdrawn == WithdrawnRoutes => WithdrawalHolds
BY DEF WithdrawnRoutes, WithdrawalHolds, Plan, Route

LEMMA WithdrawalStarts == ContactInit => WithdrawnRoutes
BY DEF ContactInit, WithdrawnRoutes

\* A row that is not touched gives the same route as before.
LEMMA SameRoute ==
    ASSUME NEW p \in Phones, byPhone'[p] = byPhone[p]
    PROVE  BotChat(p)' = BotChat(p)
BY DEF BotChat

LEMMA WithdrawalStep ==
    ContactInv /\ WithdrawnRoutes /\ [ContactNext]_contactVars => WithdrawnRoutes'
<1> SUFFICES ASSUME ContactInv, WithdrawnRoutes, [ContactNext]_contactVars
             PROVE  WithdrawnRoutes'
    OBVIOUS
<1>a. ContactTypeOK
      BY DEF ContactInv
<1> DEFINE Ends(q) == /\ "bot" \in withdrawn'[q] => BotChat(q)' = None
                      /\ "whatsapp" \in withdrawn'[q] => whatsapp'[q] # "on"
                      /\ "sms" \in withdrawn'[q] =>
                           Requested(q)' = FALSE \/ staff'[q] = "blocked"
<1> SUFFICES ASSUME NEW q \in Phones PROVE Ends(q)
    BY DEF WithdrawnRoutes, Requested
<1>b. /\ "bot" \in withdrawn[q] => BotChat(q) = None
      /\ "whatsapp" \in withdrawn[q] => whatsapp[q] # "on"
      /\ "sms" \in withdrawn[q] => ~Requested(q) \/ staff[q] = "blocked"
      BY DEF WithdrawnRoutes
<1>1. ASSUME NEW p \in Phones, AllowPhone(p)
      PROVE  Ends(q)
  <2>1. CASE q = p
    <3>1. withdrawn'[q] = withdrawn[q] \ {"bot", "account", "sms"} /\ whatsapp' = whatsapp
          BY <1>a, <1>1, <2>1 DEF AllowPhone, ContactTypeOK
    <3>2. QED BY <1>b, <3>1
  <2>2. CASE q # p
    <3>1. /\ withdrawn'[q] = withdrawn[q] /\ whatsapp' = whatsapp
          /\ staff'[q] = staff[q] /\ byPhone'[q] = byPhone[q]
          BY <1>a, <1>1, <2>2 DEF AllowPhone, ContactTypeOK
    <3>2. QED BY <1>b, <3>1, SameRoute DEF Requested
  <2>3. QED BY <2>1, <2>2
<1>2. ASSUME NEW p \in Phones, BlockPhone(p)
      PROVE  Ends(q)
  <2>1. CASE q = p
    <3>1. ~byPhone'[q].live /\ whatsapp'[q] = "off" /\ staff'[q] = "blocked"
          BY <1>a, <1>2, <2>1 DEF BlockPhone, ContactTypeOK, PhoneRows
    <3>2. QED BY <3>1 DEF BotChat
  <2>2. CASE q # p
    <3>1. /\ withdrawn'[q] = withdrawn[q] /\ whatsapp'[q] = whatsapp[q]
          /\ staff'[q] = staff[q] /\ byPhone'[q] = byPhone[q]
          BY <1>a, <1>2, <2>2 DEF BlockPhone, ContactTypeOK
    <3>2. QED BY <1>b, <3>1, SameRoute DEF Requested
  <2>3. QED BY <2>1, <2>2
<1>3. ASSUME NEW p \in Phones, LinkWhatsApp(p)
      PROVE  Ends(q)
  <2>1. byPhone' = byPhone /\ staff' = staff
        BY <1>3 DEF LinkWhatsApp
  <2>2. /\ "bot" \in withdrawn'[q] <=> "bot" \in withdrawn[q]
        /\ "sms" \in withdrawn'[q] <=> "sms" \in withdrawn[q]
        BY <1>a, <1>3 DEF LinkWhatsApp, ContactTypeOK
  <2>3. "whatsapp" \in withdrawn'[q] => whatsapp'[q] # "on"
        BY <1>a, <1>b, <1>3 DEF LinkWhatsApp, ContactTypeOK
  <2>4. QED BY <1>b, <2>1, <2>2, <2>3, SameRoute DEF Requested
<1>4. ASSUME NEW p \in Phones, PermissionExpires(p)
      PROVE  Ends(q)
  <2>1. byPhone' = byPhone /\ withdrawn' = withdrawn
        BY <1>4 DEF PermissionExpires
  <2>2. whatsapp'[q] = whatsapp[q] \/ whatsapp'[q] = "none"
        BY <1>a, <1>4 DEF PermissionExpires, ContactTypeOK
  <2>3. staff'[q] = staff[q] \/ (staff[q] = "allowed" /\ staff'[q] = "none")
        BY <1>a, <1>4 DEF PermissionExpires, ContactTypeOK
  <2>4. QED BY <1>b, <2>1, <2>2, <2>3, SameRoute DEF Requested
<1>5. ASSUME NEW c \in Chats, LinkExpires(c)
      PROVE  Ends(q)
  <2>1. ~byPhone'[q].live \/ byPhone'[q] = byPhone[q]
        BY <1>a, <1>5 DEF LinkExpires, ContactTypeOK, PhoneRows
  <2>2. BotChat(q)' = None \/ BotChat(q)' = BotChat(q)
        BY <2>1 DEF BotChat
  <2>3. QED BY <1>b, <1>5, <2>2 DEF LinkExpires, Requested
<1>6. ASSUME NEW r \in Requests, LinkTelegram(r)
      PROVE  Ends(q)
  <2>1. request[r].step = "link" /\ request[r].phone \in Phones
        BY <1>6, <1>a, RequestTypes DEF LinkTelegram
  <2>2. whatsapp' = whatsapp /\ staff' = staff
        BY <1>6 DEF LinkTelegram
  <2>3. CASE q = request[r].phone
    <3>1. withdrawn'[q] = withdrawn[q] \ {"bot", "account"}
          BY <1>a, <1>6, <2>3 DEF LinkTelegram, ContactTypeOK
    <3>2. QED BY <1>b, <2>2, <3>1 DEF Requested
  <2>4. CASE q # request[r].phone
    <3>1. withdrawn'[q] = withdrawn[q]
          BY <1>a, <1>6, <2>4 DEF LinkTelegram, ContactTypeOK
    <3>2. byPhone'[q] = NoPhoneRow \/ byPhone'[q] = byPhone[q]
          BY <1>6, <1>a, <2>1, <2>4, LinkedRow DEF LinkTelegram
    <3>3. BotChat(q)' = None \/ BotChat(q)' = BotChat(q)
          BY <3>2 DEF BotChat, NoPhoneRow
    <3>4. QED BY <1>b, <2>2, <3>1, <3>3 DEF Requested
  <2>5. QED BY <2>3, <2>4
<1>7. ASSUME NEW r \in Requests, UnlinkTelegram(r)
      PROVE  Ends(q)
  <2>1. whatsapp' = whatsapp /\ staff' = staff
        BY <1>7 DEF UnlinkTelegram
  <2>2. \/ UNCHANGED <<byPhone, withdrawn>>
        \/ /\ byPhone' = [byPhone EXCEPT ![request[r].old].live = FALSE,
                                         ![request[r].old].blocked = TRUE]
           /\ withdrawn' = [withdrawn EXCEPT ![request[r].old] = @ \cup {"bot", "account"}]
        BY <1>7 DEF UnlinkTelegram
  <2>3. CASE UNCHANGED <<byPhone, withdrawn>>
        BY <1>b, <2>1, <2>3, SameRoute DEF Requested
  <2>4. CASE /\ byPhone' = [byPhone EXCEPT ![request[r].old].live = FALSE,
                                           ![request[r].old].blocked = TRUE]
             /\ withdrawn' = [withdrawn EXCEPT ![request[r].old] = @ \cup {"bot", "account"}]
    <3>1. CASE q = request[r].old
      <4>1. ~byPhone'[q].live
            BY <1>a, <2>4, <3>1 DEF ContactTypeOK, PhoneRows
      <4>2. withdrawn'[q] = withdrawn[q] \cup {"bot", "account"}
            BY <1>a, <2>4, <3>1 DEF ContactTypeOK
      <4>3. QED BY <1>b, <2>1, <4>1, <4>2 DEF BotChat, Requested
    <3>2. CASE q # request[r].old
      <4>1. byPhone'[q] = byPhone[q] /\ withdrawn'[q] = withdrawn[q]
            BY <1>a, <2>4, <3>2 DEF ContactTypeOK
      <4>2. QED BY <1>b, <2>1, <4>1, SameRoute DEF Requested
    <3>3. QED BY <3>1, <3>2
  <2>5. QED BY <2>2, <2>3, <2>4
<1>8. CASE UNCHANGED <<byPhone, whatsapp, staff, withdrawn>>
      BY <1>b, <1>8, SameRoute DEF Requested
<1>9. ASSUME NEW c \in Chats, RequestContact(c) \/ ContactRequestExpires(c)
      PROVE  UNCHANGED <<byPhone, whatsapp, staff, withdrawn>>
      BY <1>9 DEF RequestContact, ContactRequestExpires
<1>10. ASSUME NEW r \in Requests,
              \/ \E c \in Chats : StartUnlink(r, c) \/ \E p \in Phones : StartLink(r, c, p)
              \/ LinkChangesNothing(r) \/ FailRequest(r)
       PROVE  UNCHANGED <<byPhone, whatsapp, staff, withdrawn>>
       BY <1>10 DEF StartUnlink, StartLink, LinkChangesNothing, FailRequest
<1>11. QED
    BY <1>1, <1>2, <1>3, <1>4, <1>5, <1>6, <1>7, <1>8, <1>9, <1>10
       DEF ContactNext, contactVars

\* The inductive invariant holds in every reachable state.
THEOREM ContactInvariance == ContactSpec => []ContactInv
<1>1. ContactInv /\ [ContactNext]_contactVars => ContactInv'
      BY ContactTypesStep, RouteStep DEF ContactInv
<1>2. QED BY ContactStarts, <1>1, PTL DEF ContactSpec

\* Notices for a phone go by the bot only to a chat whose own row names that
\* phone and is neither expired nor withdrawn, whatever requests of however
\* many chats overlap (LinkTelegram, UnlinkTelegram, BlockPhone, AllowPhone).
THEOREM RoutesAreProven == ContactSpec => []RouteIsProven
<1>1. ContactInv => RouteIsProven
      BY DEF ContactInv
<1>2. QED BY ContactInvariance, <1>1, PTL

\* A withdrawal stays in force on the bot, WhatsApp and SMS until the phone is
\* allowed or linked again, whatever expires, moves or unlinks in between
\* (BlockPhone, UnlinkTelegram, the rows' expiry).
THEOREM WithdrawalsHold == ContactSpec => []WithdrawalHolds
<1>1. ContactInv /\ WithdrawnRoutes /\ [ContactNext]_contactVars
        => (ContactInv /\ WithdrawnRoutes)'
      BY ContactTypesStep, RouteStep, WithdrawalStep DEF ContactInv
<1>2. ContactInit => ContactInv /\ WithdrawnRoutes
      BY ContactStarts, WithdrawalStarts
<1>3. QED BY <1>1, <1>2, PlanOfWithdrawn, PTL DEF ContactSpec
=============================================================================
