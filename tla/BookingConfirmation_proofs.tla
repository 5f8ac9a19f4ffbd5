--------------------- MODULE BookingConfirmation_proofs ---------------------
(***************************************************************************)
(* Proofs about BookingConfirmation, for any number of messages, phones,   *)
(* slots, proposals, appointments, tools, faults and colleagues' actions.  *)
(*                                                                         *)
(* A proposal lives in two places: the saved conversation and the running  *)
(* turn's copy of it.  The invariants the runs check speak of the calendar *)
(* and of the saved conversation only; what makes them inductive is that   *)
(* both copies of a proposal agree (Agree), that the key of a draft is     *)
(* never that of a change (Sound), that a turn whose copy is out of date   *)
(* can never save it (Control), and that a turn about to say that the time *)
(* was taken holds no draft any more (Reported).                           *)
(***************************************************************************)
EXTENDS BookingConfirmation, FiniteSetTheorems, TLAPS

\* Two proposals with the same key are the same proposal.
Unequal(p, q) == p = Nothing \/ q = Nothing \/ p.key # q.key

\* What a conversation may say of a calendar, the times its appointments have
\* had, the number of proposals and those the customer was told were taken.
SoundDraft(d, cal, had, n, gone) ==
    /\ d.key <= n /\ d.key \notin gone
    /\ \A x \in Refs : cal[x] # Nothing =>
         /\ cal[x].key = d.key => d.slot \in had[x]
         /\ cal[x].proposal = d.key => cal[x].key = d.key

SoundChange(c, cal, n, gone) ==
    /\ c.key <= n /\ c.key \notin gone
    /\ c.kind = "move" => c.to \in Slots
    /\ cal[c.ref] # Nothing
    /\ \A x \in Refs : cal[x] # Nothing =>
         /\ cal[x].key # c.key
         /\ cal[x].proposal = c.key => x = c.ref

Sound(c, cal, had, n, gone) ==
    /\ c.draft = Nothing \/ c.change = Nothing
    /\ c.draft # Nothing => SoundDraft(c.draft, cal, had, n, gone)
    /\ c.change # Nothing => SoundChange(c.change, cal, n, gone)

\* Two copies of a conversation mean the same by the same key.
Agree(c, e) ==
    /\ Unequal(c.draft, e.draft) \/ c.draft.slot = e.draft.slot
    /\ Unequal(c.change, e.change) \/ c.change.ref = e.change.ref
    /\ Unequal(c.draft, e.change) /\ Unequal(c.change, e.draft)

\* Every appointment was agreed to in another message than the one it was
\* prepared from, and no two are for the same proposal.
Entered(cal, had, n, gone) ==
    \A x \in Refs : cal[x] # Nothing =>
        /\ cal[x].slot \in had[x]
        /\ cal[x].key <= n /\ cal[x].proposal <= n
        /\ cal[x].by # 0 => cal[x].by # cal[x].from
        /\ RepeatsRecognised => cal[x].proposal \notin gone
        /\ RepeatsRecognised =>
             \A y \in Refs : cal[y] # Nothing /\ cal[y].proposal = cal[x].proposal
                             /\ cal[x].proposal # 0 => x = y

\* A turn that will say that the time was taken.
Reported(t, cal, n) ==
    /\ t.say \in {"summary", "taken"} => t.about \in 1..n
    /\ t.say = "taken" =>
         /\ t.conv.draft = Nothing
         /\ t.conv.change # Nothing => t.conv.change.key # t.about
         /\ RepeatsRecognised =>
              \A x \in Refs : cal[x] # Nothing => cal[x].proposal # t.about

Without(c, keys) ==
    /\ c.draft # Nothing => c.draft.key \notin keys
    /\ c.change # Nothing => c.change.key \notin keys

\* The calls to the calendar are made for a proposal of an earlier message.
Calling(t, step, had) ==
    /\ step = "creating" => t.conv.draft # Nothing /\ t.conv.draft.from # t.msg
    /\ step = "changing" =>
         /\ t.conv.change # Nothing /\ t.conv.change.from # t.msg
         /\ t.b \in had[t.conv.change.ref]

Control(t) ==
    /\ status[t.msg] = "waiting"
    /\ t.conv.rev <= saved.rev
    /\ t.conv.rev # saved.rev => saved.human
    /\ pc = "sending" /\ t.conv.rev = saved.rev => saved = t.conv
    /\ t.unresolved /\ ~AnswersUnreadable => t.conv.human
    /\ t.drops \subseteq Earlier
    /\ t.conv.rev = saved.rev => Without(t.conv, dead \cup t.drops)

Registered(loc, cal, had) ==
    \A x \in Refs : loc[x] # Nothing =>
        /\ cal[x] # Nothing /\ loc[x].slot \in had[x]
        /\ ~loc[x].live => ~cal[x].live

Running(t) ==
    /\ Sound(t.conv, calendar, held, proposals, told)
    /\ Agree(saved, t.conv)
    /\ Reported(t, calendar, proposals)
    /\ Calling(t, pc, held)
    /\ Control(t)

BookingInv ==
    /\ TypeOK
    /\ Sound(saved, calendar, held, proposals, told)
    /\ Entered(calendar, held, proposals, told)
    /\ Registered(local, calendar, held)
    /\ saved.rev <= events
    /\ dead \subseteq Earlier /\ told \subseteq Earlier /\ Without(saved, dead)
    /\ turn # Nothing => Running(turn)

-----------------------------------------------------------------------------
(* Documents with some of their fields changed.                            *)

LEMMA CopyDraft ==
    ASSUME NEW c \in Conversation, NEW d \in Draft \cup {Nothing}
    PROVE  LET n == [c EXCEPT !.draft = d] IN
           /\ n \in Conversation /\ n.draft = d /\ n.change = c.change
           /\ n.human = c.human /\ n.rev = c.rev
BY DEF Conversation

LEMMA CopyChange ==
    ASSUME NEW c \in Conversation, NEW g \in Change \cup {Nothing}
    PROVE  LET n == [c EXCEPT !.change = g] IN
           /\ n \in Conversation /\ n.draft = c.draft /\ n.change = g
           /\ n.human = c.human /\ n.rev = c.rev
BY DEF Conversation

LEMMA CopyHuman ==
    ASSUME NEW c \in Conversation, NEW h \in BOOLEAN
    PROVE  LET n == [c EXCEPT !.human = h] IN
           /\ n \in Conversation /\ n.draft = c.draft /\ n.change = c.change
           /\ n.human = h /\ n.rev = c.rev
BY DEF Conversation

LEMMA CopyOwner ==
    ASSUME NEW c \in Conversation, NEW p \in Phones \cup {Nothing}
    PROVE  LET n == [c EXCEPT !.owner = p] IN
           /\ n \in Conversation /\ n.draft = c.draft /\ n.change = c.change
           /\ n.human = c.human /\ n.rev = c.rev
BY DEF Conversation

LEMMA CopyBoth ==
    ASSUME NEW c \in Conversation, NEW d \in Draft \cup {Nothing}, NEW g \in Change \cup {Nothing}
    PROVE  LET n == [c EXCEPT !.draft = d, !.change = g] IN
           /\ n \in Conversation /\ n.draft = d /\ n.change = g
           /\ n.human = c.human /\ n.rev = c.rev
<1> DEFINE one == [c EXCEPT !.draft = d]
<1>1. one \in Conversation /\ one.draft = d /\ one.human = c.human /\ one.rev = c.rev
      BY CopyDraft
<1> HIDE DEF one
<1>2. LET n == [one EXCEPT !.change = g] IN
      /\ n \in Conversation /\ n.draft = d /\ n.change = g
      /\ n.human = c.human /\ n.rev = c.rev
      BY <1>1, CopyChange
<1>3. QED BY <1>2, Zenon DEF one

\* What the proofs need to know of a turn n that comes from turn t.
IsTurn(n, t, conv, say, about, drops, unresolved, b) ==
    /\ n \in Turn /\ n.msg = t.msg
    /\ n.conv = conv /\ n.say = say /\ n.about = about
    /\ n.drops = drops /\ n.unresolved = unresolved /\ n.b = b

LEMMA TurnBounds ==
    ASSUME NEW t \in Turn, NEW k \in 0..MaxTools, NEW e \in BOOLEAN
    PROVE  /\ IsTurn([t EXCEPT !.tools = k], t,
                     t.conv, t.say, t.about, t.drops, t.unresolved, t.b)
           /\ IsTurn([t EXCEPT !.attempted = e], t,
                     t.conv, t.say, t.about, t.drops, t.unresolved, t.b)
           /\ IsTurn([t EXCEPT !.cancelled = e], t,
                     t.conv, t.say, t.about, t.drops, t.unresolved, t.b)
BY DEF Turn, IsTurn

LEMMA TurnDrops ==
    ASSUME NEW t \in Turn, NEW k \in 0..MaxTools, NEW S \in SUBSET Proposals
    PROVE  IsTurn([t EXCEPT !.tools = k, !.drops = S], t,
                  t.conv, t.say, t.about, S, t.unresolved, t.b)
BY DEF Turn, IsTurn

LEMMA TurnFound ==
    ASSUME NEW t \in Turn, NEW b \in Slots
    PROVE  IsTurn([t EXCEPT !.b = b], t,
                  t.conv, t.say, t.about, t.drops, t.unresolved, b)
BY DEF Turn, IsTurn

LEMMA TurnCopies ==
    ASSUME NEW t \in Turn, NEW c \in Conversation
    PROVE  IsTurn([t EXCEPT !.conv = c], t,
                  c, t.say, t.about, t.drops, t.unresolved, t.b)
BY DEF Turn, IsTurn

LEMMA TurnReplies ==
    ASSUME NEW t \in Turn, NEW c \in Conversation, NEW s \in Answers
    PROVE  /\ IsTurn([t EXCEPT !.say = s], t,
                     t.conv, s, t.about, t.drops, t.unresolved, t.b)
           /\ IsTurn([t EXCEPT !.conv = c, !.say = s], t,
                     c, s, t.about, t.drops, t.unresolved, t.b)
<1>1. IsTurn([t EXCEPT !.say = s], t,
             t.conv, s, t.about, t.drops, t.unresolved, t.b)
      BY DEF Turn, IsTurn
<1>2. IsTurn([t EXCEPT !.conv = c, !.say = s], t,
             c, s, t.about, t.drops, t.unresolved, t.b)
      BY DEF Turn, IsTurn
<1>3. QED BY <1>1, <1>2

LEMMA TurnAbandons ==
    ASSUME NEW t \in Turn, NEW c \in Conversation, NEW s \in Answers, NEW S \in SUBSET Proposals
    PROVE  IsTurn([t EXCEPT !.conv = c, !.say = s, !.drops = S], t,
                  c, s, t.about, S, t.unresolved, t.b)
BY DEF Turn, IsTurn

LEMMA TurnTells ==
    ASSUME NEW t \in Turn, NEW c \in Conversation, NEW s \in Answers,
           NEW a \in Proposals \cup {Nothing}
    PROVE  IsTurn([t EXCEPT !.conv = c, !.say = s, !.about = a], t,
                  c, s, a, t.drops, t.unresolved, t.b)
BY DEF Turn, IsTurn

LEMMA TurnResumes ==
    ASSUME NEW t \in Turn, NEW c \in Conversation, NEW s \in Answers,
           NEW a \in Proposals \cup {Nothing}, NEW p \in Phones \cup {Nothing}
    PROVE  IsTurn([t EXCEPT !.conv = c, !.phone = p, !.say = s, !.about = a], t,
                  c, s, a, t.drops, t.unresolved, t.b)
BY DEF Turn, IsTurn

LEMMA TurnProposes ==
    ASSUME NEW t \in Turn, NEW c \in Conversation, NEW s \in Answers,
           NEW a \in Proposals \cup {Nothing}, NEW S \in SUBSET Proposals
    PROVE  IsTurn([t EXCEPT !.conv = c, !.say = s, !.about = a, !.drops = S], t,
                  c, s, a, S, t.unresolved, t.b)
BY DEF Turn, IsTurn

LEMMA TurnUnresolved ==
    ASSUME NEW t \in Turn, NEW c \in Conversation, NEW s \in Answers,
           NEW a \in Proposals \cup {Nothing}, NEW u \in BOOLEAN
    PROVE  /\ IsTurn([t EXCEPT !.conv = c, !.say = s, !.about = a, !.unresolved = u], t,
                     c, s, a, t.drops, u, t.b)
           /\ IsTurn([t EXCEPT !.say = s, !.unresolved = u], t,
                     t.conv, s, t.about, t.drops, u, t.b)
<1>1. IsTurn([t EXCEPT !.conv = c, !.say = s, !.about = a, !.unresolved = u], t,
             c, s, a, t.drops, u, t.b)
      BY DEF Turn, IsTurn
<1>2. IsTurn([t EXCEPT !.say = s, !.unresolved = u], t,
             t.conv, s, t.about, t.drops, u, t.b)
      BY DEF Turn, IsTurn
<1>3. QED BY <1>1, <1>2

-----------------------------------------------------------------------------
(* Copies of a conversation.                                               *)

\* What a turn makes of its copy without proposing anything.
DraftFrom(d, e) == d = Nothing \/ (e # Nothing /\ d.key = e.key /\ d.slot = e.slot)

CopyFrom(c, e) ==
    /\ c \in Conversation
    /\ c.rev = e.rev /\ (e.human => c.human)
    /\ DraftFrom(c.draft, e.draft)
    /\ c.change = Nothing \/ c.change = e.change

LEMMA CopySound ==
    ASSUME NEW e \in Conversation, NEW c, CopyFrom(c, e),
           NEW cal, NEW had, NEW n, NEW gone, Sound(e, cal, had, n, gone)
    PROVE  Sound(c, cal, had, n, gone)
<1>1. c.draft = Nothing \/ c.change = Nothing
      BY DEF CopyFrom, DraftFrom, Sound
<1>2. c.draft # Nothing => SoundDraft(c.draft, cal, had, n, gone)
      BY DEF CopyFrom, DraftFrom, Sound, SoundDraft
<1>3. c.change # Nothing => SoundChange(c.change, cal, n, gone)
      BY DEF CopyFrom, Sound
<1>4. QED BY <1>1, <1>2, <1>3 DEF Sound

LEMMA CopyAgrees ==
    ASSUME NEW e \in Conversation, NEW c, CopyFrom(c, e), NEW s, Agree(s, e)
    PROVE  Agree(s, c)
BY DEF CopyFrom, DraftFrom, Agree, Unequal

LEMMA CopyWithout ==
    ASSUME NEW e \in Conversation, NEW c, CopyFrom(c, e), NEW keys, Without(e, keys)
    PROVE  Without(c, keys)
BY DEF CopyFrom, DraftFrom, Without

\* A copy with no draft and no change is as sound as can be.
LEMMA EmptyCopy ==
    ASSUME NEW c, c.draft = Nothing, c.change = Nothing,
           NEW cal, NEW had, NEW n, NEW gone, NEW s, NEW keys
    PROVE  Sound(c, cal, had, n, gone) /\ Agree(s, c) /\ Without(c, keys)
BY DEF Sound, Agree, Unequal, Without

\* A conversation agrees with itself.
LEMMA SelfAgrees ==
    ASSUME NEW c, c.draft = Nothing \/ c.change = Nothing
    PROVE  Agree(c, c)
BY DEF Agree, Unequal

LEMMA OpenedCopy ==
    ASSUME TypeOK
    PROVE  CopyFrom(Opened, saved) /\ Opened \in Conversation
<1> DEFINE d == IF saved.draft # Nothing /\ saved.draft.awaiting /\ saved.draft.phone = verified
                THEN saved.draft ELSE Nothing
           n == [saved EXCEPT !.owner = verified, !.change = Nothing, !.draft = d]
<1>1. saved \in Conversation /\ verified \in Phones \cup {Nothing}
      BY DEF TypeOK
<1>2. saved.draft \in Draft \cup {Nothing}
      BY <1>1 DEF Conversation
<1>3. d \in Draft \cup {Nothing} /\ (d = Nothing \/ d = saved.draft)
      BY <1>2
<1>4. Opened = IF saved.owner = verified THEN saved ELSE n
      BY DEF Opened
<1> HIDE DEF d
<1>5. /\ n \in Conversation /\ n.draft = d /\ n.change = Nothing
      /\ n.human = saved.human /\ n.rev = saved.rev
      BY <1>1, <1>3, NothingIsNoDocument DEF Conversation
<1> HIDE DEF n
<1>6. CopyFrom(n, saved)
      BY <1>3, <1>5 DEF CopyFrom, DraftFrom
<1>7. CopyFrom(saved, saved)
      BY <1>1 DEF CopyFrom, DraftFrom
<1>8. QED BY <1>1, <1>4, <1>5, <1>6, <1>7

-----------------------------------------------------------------------------
(* What the calendar does with a request.                                  *)

\* A calendar that lost nothing of what it had, and that is still in order.
Preserves(cal, had) ==
    /\ cal \in [Refs -> Appointment \cup {Nothing}] /\ had \in [Refs -> SUBSET Slots]
    /\ Entered(cal, had, proposals, told)
    /\ \A x \in Refs :
         /\ held[x] \subseteq had[x]
         /\ calendar[x] # Nothing => cal[x] # Nothing
         /\ calendar[x] # Nothing /\ ~calendar[x].live => ~cal[x].live

\* A conversation stays sound whatever happened to the calendar.
StaysSound(c, cal, had) ==
    Sound(c, calendar, held, proposals, told) => Sound(c, cal, had, proposals, told)

\* A store with the document at x replaced, and with more times at x.
Put(f, x, a) == [f EXCEPT ![x] = a]
Widened(f, x, s) == [f EXCEPT ![x] = f[x] \cup s]

\* Staff cancel or move an appointment: its proposals are what they were.
LEMMA EditPreserves ==
    ASSUME BookingInv, NEW x \in Refs, calendar[x] # Nothing, NEW a \in Appointment,
           NEW s \in SUBSET Slots,
           a.key = calendar[x].key, a.proposal = calendar[x].proposal,
           a.from = calendar[x].from, a.by = calendar[x].by,
           ~calendar[x].live => ~a.live, a.slot \in held[x] \cup s,
           NEW cal, cal = Put(calendar, x, a), NEW had, had = Widened(held, x, s)
    PROVE  /\ Preserves(cal, had)
           /\ \A c \in Conversation : StaysSound(c, cal, had)
           /\ \A y \in Refs : (cal[y] = Nothing) = (calendar[y] = Nothing)
           /\ \A y \in Refs : cal[y] # Nothing => cal[y].proposal = calendar[y].proposal
<1>1. /\ calendar \in [Refs -> Appointment \cup {Nothing}] /\ held \in [Refs -> SUBSET Slots]
      /\ Entered(calendar, held, proposals, told)
      BY DEF BookingInv, TypeOK
<1>2. a # Nothing
      BY NothingIsNoDocument
<1>3. /\ cal \in [Refs -> Appointment \cup {Nothing}] /\ cal[x] = a
      /\ \A y \in Refs \ {x} : cal[y] = calendar[y]
      BY <1>1 DEF Put
<1>4. /\ had \in [Refs -> SUBSET Slots] /\ had[x] = held[x] \cup s
      /\ \A y \in Refs \ {x} : had[y] = held[y]
      BY <1>1 DEF Widened
<1>5. ASSUME NEW y \in Refs
      PROVE  /\ held[y] \subseteq had[y]
             /\ (cal[y] = Nothing) = (calendar[y] = Nothing)
             /\ cal[y] # Nothing =>
                  /\ cal[y].key = calendar[y].key /\ cal[y].proposal = calendar[y].proposal
                  /\ cal[y].from = calendar[y].from /\ cal[y].by = calendar[y].by
                  /\ ~calendar[y].live => ~cal[y].live
      BY <1>2, <1>3, <1>4
<1>6. Entered(cal, had, proposals, told)
  <2>1. ASSUME NEW y \in Refs, cal[y] # Nothing
        PROVE  cal[y].slot \in had[y]
        BY <1>1, <1>3, <1>4, <2>1 DEF Entered
  <2>2. QED BY <1>1, <1>5, <2>1 DEF Entered
<1>7. Preserves(cal, had)
      BY <1>3, <1>4, <1>5, <1>6 DEF Preserves
<1>8. ASSUME NEW c \in Conversation, Sound(c, calendar, held, proposals, told)
      PROVE  Sound(c, cal, had, proposals, told)
  <2>1. c.draft # Nothing => SoundDraft(c.draft, cal, had, proposals, told)
        BY <1>5, <1>8 DEF Sound, SoundDraft
  <2>2. c.change # Nothing => SoundChange(c.change, cal, proposals, told)
    <3>1. c.change # Nothing => c.change.ref \in Refs
          BY DEF Conversation, Change
    <3>2. QED BY <1>5, <1>8, <3>1 DEF Sound, SoundChange
  <2>3. QED BY <1>8, <2>1, <2>2 DEF Sound
<1>9. QED BY <1>5, <1>7, <1>8 DEF StaysSound

\* Nothing happened at the calendar.
LEMMA IdlePreserves ==
    ASSUME BookingInv, NEW cal, NEW had, cal = calendar, had = held
    PROVE  /\ Preserves(cal, had)
           /\ \A c \in Conversation : StaysSound(c, cal, had)
BY DEF BookingInv, TypeOK, Preserves, StaysSound

\* The proposals that the running turn may have carried out.
LEMMA CalledFor ==
    ASSUME BookingInv, turn # Nothing
    PROVE  /\ turn \in Turn /\ turn.msg \in Messages /\ turn.conv \in Conversation
           /\ turn.conv.draft \in Draft \cup {Nothing}
           /\ turn.conv.change \in Change \cup {Nothing}
           /\ saved \in Conversation
           /\ pc = "creating" => /\ turn.conv.draft \in Draft
                                 /\ turn.conv.draft.from # turn.msg
                                 /\ turn.conv.change = Nothing
                                 /\ SoundDraft(turn.conv.draft, calendar, held, proposals, told)
           /\ pc = "changing" => /\ turn.conv.change \in Change
                                 /\ turn.conv.change.from # turn.msg
                                 /\ turn.conv.draft = Nothing
                                 /\ turn.b \in held[turn.conv.change.ref]
                                 /\ SoundChange(turn.conv.change, calendar, proposals, told)
<1>1. turn \in Turn /\ saved \in Conversation
      BY DEF BookingInv, TypeOK
<1>2. turn.msg \in Messages /\ turn.conv \in Conversation
      BY <1>1 DEF Turn
<1>3. turn.conv.draft \in Draft \cup {Nothing} /\ turn.conv.change \in Change \cup {Nothing}
      BY <1>2 DEF Conversation
<1>4. Sound(turn.conv, calendar, held, proposals, told) /\ Calling(turn, pc, held)
      BY DEF BookingInv, Running
<1>5. QED BY <1>1, <1>2, <1>3, <1>4 DEF Sound, Calling

\* A new appointment, booked under the key of the draft d.
LEMMA NewPreserves ==
    ASSUME BookingInv, NEW d \in Draft, NEW m \in Messages, d.from # m,
           SoundDraft(d, calendar, held, proposals, told),
           NEW x \in Refs, calendar[x] = Nothing, ~Repeated(d),
           NEW a, a = [key |-> d.key, slot |-> d.slot, phone |-> d.phone, live |-> TRUE,
                       proposal |-> d.key, from |-> d.from, by |-> m],
           NEW cal, cal = [calendar EXCEPT ![x] = a],
           NEW had, had = [held EXCEPT ![x] = held[x] \cup {d.slot}]
    PROVE  /\ Preserves(cal, had)
           /\ \A c \in Conversation :
                Unequal(c.change, d) /\ (Unequal(c.draft, d) \/ c.draft.slot = d.slot)
                => StaysSound(c, cal, had)
           /\ cal[x] # Nothing /\ d.slot \in had[x]
<1>1. /\ calendar \in [Refs -> Appointment \cup {Nothing}] /\ held \in [Refs -> SUBSET Slots]
      /\ Entered(calendar, held, proposals, told)
      BY DEF BookingInv, TypeOK
<1>2. /\ a \in Appointment /\ a.key = d.key /\ a.slot = d.slot
      /\ a.proposal = d.key /\ a.from = d.from /\ a.by = m
      BY DEF Draft, Appointment, Proposals, Messages
<1>3. a # Nothing /\ d # Nothing
      BY <1>2, NothingIsNoDocument
<1>4. /\ cal \in [Refs -> Appointment \cup {Nothing}] /\ cal[x] = a
      /\ \A y \in Refs \ {x} : cal[y] = calendar[y]
      BY <1>1, <1>2
<1>5. /\ had \in [Refs -> SUBSET Slots] /\ had[x] = held[x] \cup {d.slot}
      /\ \A y \in Refs \ {x} : had[y] = held[y]
      BY <1>1 DEF Draft
<1>6. RepeatsRecognised => \A y \in Refs : calendar[y] # Nothing => calendar[y].proposal # d.key
      BY DEF Repeated, Recorded, RequestKey, SoundDraft
<1>7. Entered(cal, had, proposals, told)
  <2>1. ASSUME NEW y \in Refs, cal[y] # Nothing
        PROVE  /\ cal[y].slot \in had[y]
               /\ cal[y].key <= proposals /\ cal[y].proposal <= proposals
               /\ cal[y].by # 0 => cal[y].by # cal[y].from
               /\ RepeatsRecognised => cal[y].proposal \notin told
    <3>1. CASE y = x
          BY <1>2, <1>4, <1>5, <3>1 DEF SoundDraft
    <3>2. CASE y # x
          BY <1>1, <1>4, <1>5, <2>1, <3>2 DEF Entered
    <3>3. QED BY <3>1, <3>2
  <2>2. ASSUME RepeatsRecognised, NEW y \in Refs, NEW z \in Refs,
               cal[y] # Nothing, cal[z] # Nothing, cal[z].proposal = cal[y].proposal,
               cal[y].proposal # 0
        PROVE  y = z
        BY <1>1, <1>2, <1>4, <1>6, <2>2 DEF Entered
  <2>3. QED BY <2>1, <2>2 DEF Entered
<1>8. Preserves(cal, had)
  <2>1. \A y \in Refs : /\ held[y] \subseteq had[y]
                        /\ calendar[y] # Nothing => cal[y] = calendar[y]
        BY <1>4, <1>5
  <2>2. QED BY <1>4, <1>5, <1>7, <2>1 DEF Preserves
<1>9. ASSUME NEW c \in Conversation, Unequal(c.change, d),
             Unequal(c.draft, d) \/ c.draft.slot = d.slot,
             Sound(c, calendar, held, proposals, told)
      PROVE  Sound(c, cal, had, proposals, told)
  <2>1. c.draft # Nothing => SoundDraft(c.draft, cal, had, proposals, told)
    <3> SUFFICES ASSUME c.draft # Nothing, NEW y \in Refs, cal[y] # Nothing
                 PROVE  /\ cal[y].key = c.draft.key => c.draft.slot \in had[y]
                        /\ cal[y].proposal = c.draft.key => cal[y].key = c.draft.key
        BY <1>9 DEF Sound, SoundDraft
    <3>1. CASE y = x
          BY <1>2, <1>3, <1>4, <1>5, <1>9, <3>1 DEF Unequal
    <3>2. CASE y # x
          BY <1>4, <1>5, <1>9, <3>2 DEF Sound, SoundDraft
    <3>3. QED BY <3>1, <3>2
  <2>2. c.change # Nothing => SoundChange(c.change, cal, proposals, told)
    <3> SUFFICES ASSUME c.change # Nothing
                 PROVE  /\ cal[c.change.ref] # Nothing
                        /\ \A y \in Refs : cal[y] # Nothing =>
                             /\ cal[y].key # c.change.key
                             /\ cal[y].proposal = c.change.key => y = c.change.ref
        BY <1>9 DEF Sound, SoundChange
    <3>1. c.change.ref \in Refs /\ calendar[c.change.ref] # Nothing
          BY <1>9 DEF Conversation, Change, Sound, SoundChange
    <3>2. ASSUME NEW y \in Refs, cal[y] # Nothing
          PROVE  /\ cal[y].key # c.change.key
                 /\ cal[y].proposal = c.change.key => y = c.change.ref
          BY <1>2, <1>3, <1>4, <1>9, <3>2 DEF Unequal, Sound, SoundChange
    <3>3. QED BY <1>4, <3>1, <3>2
  <2>3. QED BY <1>9, <2>1, <2>2 DEF Sound
<1>10. QED BY <1>2, <1>3, <1>4, <1>5, <1>8, <1>9 DEF StaysSound

\* Whatever the calendar does with the running turn's booking request.
LEMMA BookingPreserves ==
    ASSUME BookingInv, turn # Nothing, pc = "creating",
           NEW x \in Refs, Books(turn.conv.draft, x)
    PROVE  /\ Preserves(calendar', held')
           /\ \A c \in Conversation : Agree(c, turn.conv) => StaysSound(c, calendar', held')
           /\ (calendar')[x] # Nothing /\ turn.conv.draft.slot \in (held')[x]
<1> DEFINE d == turn.conv.draft
<1>1. /\ d \in Draft /\ d.from # turn.msg /\ turn.msg \in Messages
      /\ SoundDraft(d, calendar, held, proposals, told)
      BY CalledFor
<1>2. d # Nothing
      BY <1>1, NothingIsNoDocument
<1>3. ASSUME NEW c \in Conversation, Agree(c, turn.conv)
      PROVE  Unequal(c.change, d) /\ (Unequal(c.draft, d) \/ c.draft.slot = d.slot)
      BY <1>3 DEF Agree
<1>4. CASE /\ Repeated(d)
           /\ x \in Recorded(RequestKey(d))
           /\ UNCHANGED <<calendar, held>>
  <2>1. calendar' = calendar /\ held' = held
        BY <1>4
  <2>2. calendar[x] # Nothing /\ calendar[x].key = d.key
        BY <1>4 DEF Recorded, RequestKey
  <2>3. d.slot \in held[x]
        BY <1>1, <2>2 DEF SoundDraft
  <2>4. Preserves(calendar', held') /\ \A c \in Conversation : StaysSound(c, calendar', held')
        BY <2>1, IdlePreserves
  <2>5. QED BY <2>1, <2>2, <2>3, <2>4
<1>5. CASE /\ ~Repeated(d)
           /\ calendar[x] = Nothing
           /\ calendar' = [calendar EXCEPT ![x] =
                 [key |-> RequestKey(d), slot |-> d.slot, phone |-> d.phone, live |-> TRUE,
                  proposal |-> d.key, from |-> d.from, by |-> turn.msg]]
           /\ held' = [held EXCEPT ![x] = held[x] \cup {d.slot}]
  <2> DEFINE a == [key |-> d.key, slot |-> d.slot, phone |-> d.phone, live |-> TRUE,
                   proposal |-> d.key, from |-> d.from, by |-> turn.msg]
  <2>1. calendar' = [calendar EXCEPT ![x] = a]
        BY <1>5 DEF RequestKey
  <2>2. held' = [held EXCEPT ![x] = held[x] \cup {d.slot}]
        BY <1>5
  <2>3. /\ Preserves(calendar', held')
        /\ \A c \in Conversation :
             Unequal(c.change, d) /\ (Unequal(c.draft, d) \/ c.draft.slot = d.slot)
             => StaysSound(c, calendar', held')
        /\ (calendar')[x] # Nothing /\ d.slot \in (held')[x]
    <3> HIDE DEF d
    <3>1. a = [key |-> d.key, slot |-> d.slot, phone |-> d.phone, live |-> TRUE,
               proposal |-> d.key, from |-> d.from, by |-> turn.msg]
          OBVIOUS
    <3> HIDE DEF a
    <3>2. ~Repeated(d) /\ calendar[x] = Nothing
          BY <1>5
    <3>3. QED BY <1>1, <2>1, <2>2, <3>1, <3>2, NewPreserves, Zenon
  <2>4. QED BY <1>3, <2>3
<1>6. QED
  <2>1. Books(d, x)
        OBVIOUS
  <2> HIDE DEF d
  <2>2. QED BY <1>4, <1>5, <2>1, Zenon DEF Books

\* Row a is the appointment x that g changes, agreed to in message m, with a
\* time that it had before or that is in s.
Carries(a, g, m, x, s) ==
    /\ x \in Refs /\ x = g.ref
    /\ a.key = calendar[x].key /\ a.proposal = g.key /\ a.from = g.from /\ a.by = m
    /\ ~calendar[x].live => ~a.live
    /\ a.slot \in held[x] \cup s

\* An appointment that now stands for the change g, agreed to in message m.
LEMMA MarkPreserves ==
    ASSUME BookingInv, NEW g \in Change, NEW m \in Messages, g.from # m,
           SoundChange(g, calendar, proposals, told),
           NEW a \in Appointment, NEW s \in SUBSET Slots, NEW x, Carries(a, g, m, x, s),
           NEW cal, cal = Put(calendar, x, a), NEW had, had = Widened(held, x, s)
    PROVE  /\ Preserves(cal, had)
           /\ \A c \in Conversation :
                Unequal(c.draft, g) /\ (Unequal(c.change, g) \/ c.change.ref = g.ref)
                => StaysSound(c, cal, had)
<1>0. /\ x \in Refs /\ x = g.ref
      /\ a.key = calendar[x].key /\ a.proposal = g.key /\ a.from = g.from /\ a.by = m
      /\ ~calendar[x].live => ~a.live
      /\ a.slot \in held[x] \cup s
      /\ cal = [calendar EXCEPT ![x] = a] /\ had = [held EXCEPT ![x] = held[x] \cup s]
      BY DEF Carries, Put, Widened
<1>1. /\ calendar \in [Refs -> Appointment \cup {Nothing}] /\ held \in [Refs -> SUBSET Slots]
      /\ Entered(calendar, held, proposals, told)
      BY DEF BookingInv, TypeOK
<1>2. a # Nothing /\ g # Nothing /\ calendar[x] # Nothing
      BY <1>0, NothingIsNoDocument DEF SoundChange
<1>3. /\ cal \in [Refs -> Appointment \cup {Nothing}] /\ cal[x] = a
      /\ \A y \in Refs \ {x} : cal[y] = calendar[y]
      BY <1>0, <1>1
<1>4. /\ had \in [Refs -> SUBSET Slots] /\ had[x] = held[x] \cup s
      /\ \A y \in Refs \ {x} : had[y] = held[y]
      BY <1>0, <1>1
<1>5. ASSUME NEW y \in Refs
      PROVE  /\ held[y] \subseteq had[y]
             /\ (cal[y] = Nothing) = (calendar[y] = Nothing)
             /\ cal[y] # Nothing =>
                  /\ cal[y].key = calendar[y].key
                  /\ cal[y].proposal = calendar[y].proposal \/ (y = x /\ cal[y].proposal = g.key)
                  /\ ~calendar[y].live => ~cal[y].live
      BY <1>0, <1>2, <1>3, <1>4
<1>6. Entered(cal, had, proposals, told)
  <2>1. ASSUME NEW y \in Refs, cal[y] # Nothing
        PROVE  /\ cal[y].slot \in had[y]
               /\ cal[y].key <= proposals /\ cal[y].proposal <= proposals
               /\ cal[y].by # 0 => cal[y].by # cal[y].from
               /\ RepeatsRecognised => cal[y].proposal \notin told
    <3>1. CASE y = x
          BY <1>0, <1>1, <1>2, <1>3, <1>4, <3>1 DEF Entered, SoundChange
    <3>2. CASE y # x
          BY <1>0, <1>1, <1>3, <1>4, <2>1, <3>2 DEF Entered
    <3>3. QED BY <3>1, <3>2
  <2>2. ASSUME RepeatsRecognised, NEW y \in Refs, NEW z \in Refs,
               cal[y] # Nothing, cal[z] # Nothing, cal[z].proposal = cal[y].proposal,
               cal[y].proposal # 0
        PROVE  y = z
        BY <1>0, <1>1, <1>3, <1>5, <2>2 DEF Entered, SoundChange
  <2>3. QED BY <2>1, <2>2 DEF Entered
<1>7. Preserves(cal, had)
      BY <1>0, <1>3, <1>4, <1>5, <1>6 DEF Preserves
<1>8. ASSUME NEW c \in Conversation, Unequal(c.draft, g),
             Unequal(c.change, g) \/ c.change.ref = g.ref,
             Sound(c, calendar, held, proposals, told)
      PROVE  Sound(c, cal, had, proposals, told)
  <2>1. c.draft # Nothing => SoundDraft(c.draft, cal, had, proposals, told)
    <3> SUFFICES ASSUME c.draft # Nothing, NEW y \in Refs, cal[y] # Nothing
                 PROVE  /\ cal[y].key = c.draft.key => c.draft.slot \in had[y]
                        /\ cal[y].proposal = c.draft.key => cal[y].key = c.draft.key
        BY <1>0, <1>8 DEF Sound, SoundDraft
    <3>1. g.key # c.draft.key
          BY <1>0, <1>2, <1>8 DEF Unequal
    <3>2. QED BY <1>0, <1>5, <1>8, <3>1 DEF Sound, SoundDraft
  <2>2. c.change # Nothing => SoundChange(c.change, cal, proposals, told)
    <3> SUFFICES ASSUME c.change # Nothing
                 PROVE  /\ cal[c.change.ref] # Nothing
                        /\ \A y \in Refs : cal[y] # Nothing =>
                             /\ cal[y].key # c.change.key
                             /\ cal[y].proposal = c.change.key => y = c.change.ref
        BY <1>0, <1>8 DEF Sound, SoundChange
    <3>1. c.change.ref \in Refs /\ calendar[c.change.ref] # Nothing
          BY <1>0, <1>8 DEF Conversation, Change, Sound, SoundChange
    <3>2. g.key = c.change.key => x = c.change.ref
          BY <1>0, <1>2, <1>8 DEF Unequal
    <3>3. QED BY <1>0, <1>5, <1>8, <3>1, <3>2 DEF Sound, SoundChange
  <2>3. QED BY <1>0, <1>8, <2>1, <2>2 DEF Sound
<1>9. QED BY <1>0, <1>3, <1>4, <1>7, <1>8 DEF StaysSound

\* The row of an appointment that stands for a change now, and what cancelling
\* or moving makes of it.
Marked(a, g, m) == [a EXCEPT !.proposal = g.key, !.from = g.from, !.by = m]
Off(a) == [a EXCEPT !.live = FALSE]
MovedTo(a, s) == [a EXCEPT !.slot = s]

\* Two rows of the calendar that belong to the same proposal.
SameProposal(a, b) ==
    a.key = b.key /\ a.proposal = b.proposal /\ a.from = b.from /\ a.by = b.by

LEMMA MarkedRow ==
    ASSUME NEW a \in Appointment, NEW g \in Change, NEW m \in Messages
    PROVE  LET n == Marked(a, g, m) IN
           /\ n \in Appointment /\ n.key = a.key /\ n.proposal = g.key
           /\ n.from = g.from /\ n.by = m /\ n.slot = a.slot /\ n.live = a.live
<1>1. g.key \in Nat /\ g.key \in 0..MaxProposals /\ g.from \in 0..MaxMessages /\ m \in 0..MaxMessages
      BY DEF Change, Proposals, Messages
<1>2. QED BY <1>1 DEF Appointment, Marked

LEMMA OffRow ==
    ASSUME NEW a \in Appointment
    PROVE  /\ Off(a) \in Appointment /\ SameProposal(Off(a), a)
           /\ Off(a).slot = a.slot /\ ~Off(a).live
<1>1. /\ Off(a) \in Appointment /\ SameProposal(Off(a), a) /\ Off(a).slot = a.slot
      BY DEF Appointment, Off, SameProposal
<1>2. ~Off(a).live
      BY DEF Appointment, Off
<1>3. QED BY <1>1, <1>2

LEMMA MovedRow ==
    ASSUME NEW a \in Appointment, NEW s \in Slots
    PROVE  /\ MovedTo(a, s) \in Appointment /\ SameProposal(MovedTo(a, s), a)
           /\ MovedTo(a, s).slot = s /\ MovedTo(a, s).live = a.live
BY DEF Appointment, MovedTo, SameProposal

\* Whatever the calendar does with the change the running turn asks for.
LEMMA ChangingPreserves ==
    ASSUME BookingInv, turn # Nothing, pc = "changing", Changes(turn.conv.change)
    PROVE  /\ Preserves(calendar', held')
           /\ \A c \in Conversation : Agree(c, turn.conv) => StaysSound(c, calendar', held')
           /\ turn.conv.change.kind = "move"
                => turn.conv.change.to \in (held')[turn.conv.change.ref]
           /\ turn.conv.change.kind = "cancel"
                => ~(calendar')[turn.conv.change.ref].live
<1> DEFINE g == turn.conv.change
           x == g.ref
           mark == Marked(calendar[x], g, turn.msg)
<1>1. /\ g \in Change /\ g.from # turn.msg /\ turn.msg \in Messages
      /\ SoundChange(g, calendar, proposals, told)
      BY CalledFor
<1>2. /\ calendar \in [Refs -> Appointment \cup {Nothing}] /\ held \in [Refs -> SUBSET Slots]
      /\ Entered(calendar, held, proposals, told)
      BY DEF BookingInv, TypeOK
<1>3. x \in Refs
      BY <1>1 DEF Change
<1>4. calendar[x] \in Appointment /\ calendar[x].slot \in held[x]
      BY <1>1, <1>2, <1>3 DEF SoundChange, Entered
<1>5. ASSUME NEW c \in Conversation, Agree(c, turn.conv)
      PROVE  Unequal(c.draft, g) /\ (Unequal(c.change, g) \/ c.change.ref = g.ref)
      BY <1>5 DEF Agree
<1>6. /\ mark \in Appointment /\ mark.key = calendar[x].key /\ mark.proposal = g.key
      /\ mark.from = g.from /\ mark.by = turn.msg /\ mark.slot = calendar[x].slot
      /\ mark.live = calendar[x].live
      BY <1>1, <1>4, MarkedRow
<1>7. \/ g.kind = "cancel" /\ calendar' = [calendar EXCEPT ![x] = Off(mark)] /\ UNCHANGED held
      \/ /\ g.kind = "move"
         /\ calendar' = [calendar EXCEPT ![x] = MovedTo(mark, g.to)]
         /\ held' = [held EXCEPT ![x] = held[x] \cup {g.to}]
      BY Zenon DEF Changes, Off, MovedTo, Marked
<1> HIDE DEF g, x, mark
<1>8. CASE g.kind = "cancel" /\ calendar' = [calendar EXCEPT ![x] = Off(mark)] /\ UNCHANGED held
  <2>1. /\ Off(mark) \in Appointment /\ SameProposal(Off(mark), mark)
        /\ Off(mark).slot = mark.slot /\ ~Off(mark).live
        BY <1>6, OffRow
  <2>2. /\ calendar' = [calendar EXCEPT ![x] = Off(mark)]
        /\ held' = [held EXCEPT ![x] = held[x] \cup {}]
        BY <1>2, <1>3, <1>8
  <2>3. /\ Preserves(calendar', held')
        /\ \A c \in Conversation :
             Unequal(c.draft, g) /\ (Unequal(c.change, g) \/ c.change.ref = g.ref)
             => StaysSound(c, calendar', held')
        /\ (calendar')[x] = Off(mark)
    <3> DEFINE a == Off(mark)
               s == {}
    <3>1. x = g.ref
          BY DEF x
    <3>2. /\ a \in Appointment /\ s \in SUBSET Slots
          /\ Carries(a, g, turn.msg, x, s)
          BY <1>3, <1>4, <1>6, <2>1, <3>1 DEF SameProposal, Carries
    <3>3. calendar' = Put(calendar, x, a) /\ held' = Widened(held, x, s)
          BY <2>2 DEF Put, Widened
    <3> HIDE DEF a, s
    <3>4. /\ Preserves(calendar', held')
          /\ \A c \in Conversation :
               Unequal(c.draft, g) /\ (Unequal(c.change, g) \/ c.change.ref = g.ref)
               => StaysSound(c, calendar', held')
          BY <1>1, <3>2, <3>3, MarkPreserves
    <3>5. (calendar')[x] = a
          BY <1>2, <1>3, <3>3 DEF Put
    <3>6. QED BY <3>4, <3>5 DEF a
  <2>4. g.kind # "move"
        BY <1>8
  <2>5. QED BY <1>5, <2>1, <2>3, <2>4 DEF g, x
<1>9. CASE /\ g.kind = "move"
           /\ calendar' = [calendar EXCEPT ![x] = MovedTo(mark, g.to)]
           /\ held' = [held EXCEPT ![x] = held[x] \cup {g.to}]
  <2>1. g.to \in Slots
        BY <1>1, <1>9 DEF SoundChange
  <2>2. /\ MovedTo(mark, g.to) \in Appointment /\ SameProposal(MovedTo(mark, g.to), mark)
        /\ MovedTo(mark, g.to).slot = g.to /\ MovedTo(mark, g.to).live = mark.live
        BY <1>6, <2>1, MovedRow
  <2>3. /\ Preserves(calendar', held')
        /\ \A c \in Conversation :
             Unequal(c.draft, g) /\ (Unequal(c.change, g) \/ c.change.ref = g.ref)
             => StaysSound(c, calendar', held')
        /\ (held')[x] = held[x] \cup {g.to}
    <3> DEFINE a == MovedTo(mark, g.to)
               s == {g.to}
    <3>1. x = g.ref
          BY DEF x
    <3>2. /\ a \in Appointment /\ s \in SUBSET Slots
          /\ Carries(a, g, turn.msg, x, s)
          BY <1>3, <1>4, <1>6, <2>1, <2>2, <3>1 DEF SameProposal, Carries
    <3>3. calendar' = Put(calendar, x, a) /\ held' = Widened(held, x, s)
          BY <1>9 DEF Put, Widened
    <3> HIDE DEF a, s
    <3>4. /\ Preserves(calendar', held')
          /\ \A c \in Conversation :
               Unequal(c.draft, g) /\ (Unequal(c.change, g) \/ c.change.ref = g.ref)
               => StaysSound(c, calendar', held')
          BY <1>1, <3>2, <3>3, MarkPreserves
    <3>5. (held')[x] = held[x] \cup s
          BY <1>2, <1>3, <3>3 DEF Widened
    <3>6. QED BY <3>4, <3>5 DEF s
  <2>4. g.kind # "cancel"
        BY <1>9
  <2>5. QED BY <1>5, <2>3, <2>4 DEF g, x
<1>10. QED BY <1>7, <1>8, <1>9

-----------------------------------------------------------------------------
(* A turn that goes on.                                                    *)

Goes == {"replying", "saving", "creating", "changing"}

\* One more step of the running turn, whatever it does to the calendar.
LEMMA TurnGoesOn ==
    ASSUME BookingInv, turn # Nothing,
           turn' \in Turn, turn'.msg = turn.msg, turn'.conv.rev = turn.conv.rev,
           pc' \in Goes,
           UNCHANGED <<inbox, saved, taken, now, events, dead, shown, told>>,
           proposals' \in 0..MaxProposals, proposals' >= proposals,
           verified' \in Phones \cup {Nothing}, faults' \in 0..MaxFaults,
           Preserves(calendar', held'),
           local' \in [Refs -> LocalRecord \cup {Nothing}],
           Registered(local', calendar', held'),
           Sound(saved, calendar', held', proposals', told),
           Sound(turn'.conv, calendar', held', proposals', told),
           Agree(saved, turn'.conv),
           Reported(turn', calendar', proposals'), Calling(turn', pc', held'),
           turn'.unresolved /\ ~AnswersUnreadable => turn'.conv.human,
           turn'.drops \subseteq 1..proposals',
           turn'.conv.rev = saved.rev => Without(turn'.conv, dead \cup turn'.drops)
    PROVE  BookingInv'
<1>1. TypeOK'
  <2>1. TypeOK
        BY DEF BookingInv
  <2>2. turn' # Nothing
        BY NothingIsNoDocument
  <2>3. UNCHANGED <<status, text, latest, saved, taken, now, events, dead, shown, told>>
        BY DEF inbox
  <2>4. calendar' \in [Refs -> Appointment \cup {Nothing}] /\ held' \in [Refs -> SUBSET Slots]
        BY DEF Preserves
  <2>5. pc' \in Steps /\ pc' # "idle"
        BY DEF Goes, Steps
  <2>6. QED BY <2>1, <2>2, <2>3, <2>4, <2>5 DEF TypeOK
<1>2. Entered(calendar', held', proposals', told)
  <2>1. proposals \in Nat /\ proposals' \in Nat
        BY DEF BookingInv, TypeOK
  <2>2. Entered(calendar', held', proposals, told)
        BY DEF Preserves
  <2>3. calendar' \in [Refs -> Appointment \cup {Nothing}]
        BY DEF Preserves
  <2>4. \A x \in Refs : (calendar')[x] # Nothing =>
            (calendar')[x].key \in Nat /\ (calendar')[x].proposal \in Nat
        BY <2>3 DEF Appointment
  <2>5. QED BY <2>1, <2>2, <2>4 DEF Entered
<1>3. /\ dead' \subseteq Earlier' /\ told' \subseteq Earlier'
      /\ Without(saved', dead') /\ saved'.rev <= events'
  <2>1. /\ dead \subseteq Earlier /\ told \subseteq Earlier
        /\ Without(saved, dead) /\ saved.rev <= events
        BY DEF BookingInv
  <2>2. proposals \in Nat /\ proposals' \in Nat
        BY DEF BookingInv, TypeOK
  <2>3. 1..proposals \subseteq 1..proposals'
        BY <2>2
  <2>4. QED BY <2>1, <2>3 DEF Earlier
<1>4. Control(turn)' 
  <2>1. Control(turn)
        BY DEF BookingInv, Running
  <2>2. pc' # "sending"
        BY DEF Goes
  <2>3. status' = status /\ saved' = saved /\ dead' = dead
        BY DEF inbox
  <2>4. QED BY <2>1, <2>2, <2>3 DEF Control, Earlier
<1>5. Running(turn)'
      BY <1>4 DEF Running
<1>6. QED BY <1>1, <1>2, <1>3, <1>5 DEF BookingInv

\* Local records stay behind a calendar that lost nothing.
LEMMA StaysRegistered ==
    ASSUME Registered(local, calendar, held), NEW cal, NEW had, Preserves(cal, had)
    PROVE  Registered(local, cal, had)
BY DEF Registered, Preserves

\* A turn n that thinks on: it keeps no proposal it did not have, and goes to
\* a step whose conditions it meets.
Ponders(n, step) ==
    /\ n \in Turn /\ n.msg = turn.msg
    /\ CopyFrom(n.conv, turn.conv)
    /\ n.unresolved => turn.unresolved
    /\ \/ n.drops = turn.drops
       \/ n.drops = Earlier /\ n.conv.draft = Nothing /\ n.conv.change = Nothing
    /\ Reported(n, calendar, proposals)
    /\ step \in Goes /\ Calling(n, step, held)

LEMMA PonderingKeeps ==
    ASSUME BookingInv, turn # Nothing, Ponders(turn', pc'),
           UNCHANGED <<inbox, saved, local, world, now, proposals, events, history>>,
           verified' \in Phones \cup {Nothing}, faults' \in 0..MaxFaults
    PROVE  BookingInv'
<1>1. /\ UNCHANGED <<inbox, saved, taken, now, events, dead, shown, told>>
      /\ calendar' = calendar /\ held' = held /\ local' = local /\ proposals' = proposals
      BY DEF world, history
<1>2. turn.conv \in Conversation /\ saved \in Conversation
      BY CalledFor
<1>3. /\ Sound(saved, calendar, held, proposals, told)
      /\ Sound(turn.conv, calendar, held, proposals, told)
      /\ Agree(saved, turn.conv) /\ Control(turn)
      BY DEF BookingInv, Running
<1>4. /\ turn' \in Turn /\ turn'.msg = turn.msg /\ CopyFrom(turn'.conv, turn.conv)
      /\ turn'.unresolved => turn.unresolved
      /\ \/ turn'.drops = turn.drops
         \/ turn'.drops = Earlier /\ turn'.conv.draft = Nothing /\ turn'.conv.change = Nothing
      /\ Reported(turn', calendar, proposals)
      /\ pc' \in Goes /\ Calling(turn', pc', held)
      BY DEF Ponders
<1>5. turn'.conv.rev = turn.conv.rev /\ (turn.conv.human => turn'.conv.human)
      BY <1>4 DEF CopyFrom
<1>6. Sound(turn'.conv, calendar, held, proposals, told) /\ Agree(saved, turn'.conv)
      BY <1>2, <1>3, <1>4, CopySound, CopyAgrees
<1>7. proposals \in 0..MaxProposals /\ proposals >= proposals
      BY DEF BookingInv, TypeOK
<1>8. Preserves(calendar', held')
      BY <1>1, IdlePreserves
<1>9. local \in [Refs -> LocalRecord \cup {Nothing}] /\ Registered(local, calendar, held)
      BY DEF BookingInv, TypeOK
<1>10. turn'.drops \subseteq Earlier
      BY <1>3, <1>4 DEF Control
<1>11. turn'.unresolved /\ ~AnswersUnreadable => turn'.conv.human
      BY <1>3, <1>4, <1>5 DEF Control
<1>12. turn'.conv.rev = saved.rev => Without(turn'.conv, dead \cup turn'.drops)
  <2>1. CASE turn'.drops = turn.drops
        BY <1>2, <1>3, <1>4, <1>5, <2>1, CopyWithout DEF Control
  <2>2. CASE turn'.conv.draft = Nothing /\ turn'.conv.change = Nothing
        BY <2>2 DEF Without
  <2>3. QED BY <1>4, <2>1, <2>2
<1> HIDE BookingAssumption
<1>13. QED BY <1>1, <1>3, <1>4, <1>5, <1>6, <1>7, <1>8, <1>9, <1>10, <1>11, <1>12,
              TurnGoesOn DEF Earlier

\* The parts of a step that the running turn takes by itself.
LEMMA OwnStep ==
    ASSUME BookingInv, UnchangedButTurn
    PROVE  /\ UNCHANGED <<inbox, saved, local, world, now, proposals, events, history>>
           /\ verified' \in Phones \cup {Nothing} /\ faults' \in 0..MaxFaults
BY DEF UnchangedButTurn, bounds, BookingInv, TypeOK

\* What a turn reports stays true while it says the same or nothing of it.
LEMMA ReportedOn ==
    ASSUME NEW t \in Turn, NEW n, CopyFrom(n.conv, t.conv), NEW cal, NEW k, Reported(t, cal, k),
           n.say \notin {"summary", "taken"} \/ (n.say = t.say /\ n.about = t.about)
    PROVE  Reported(n, cal, k)
BY DEF Reported, CopyFrom, DraftFrom

\* A conversation is a copy of itself.
LEMMA SelfCopy ==
    ASSUME NEW c \in Conversation
    PROVE  CopyFrom(c, c)
BY DEF CopyFrom, DraftFrom

\* A turn that keeps or drops its proposals, and says nothing new of them.
LEMMA Thinks ==
    ASSUME BookingInv, turn # Nothing, NEW n, NEW conv, CopyFrom(conv, turn.conv),
           NEW say, NEW about, NEW drops, NEW b,
           IsTurn(n, turn, conv, say, about, drops, turn.unresolved, b),
           drops = turn.drops \/ (drops = Earlier /\ conv.draft = Nothing /\ conv.change = Nothing),
           say \notin {"summary", "taken"} \/ (say = turn.say /\ about = turn.about),
           NEW step \in {"replying", "saving"}
    PROVE  Ponders(n, step)
<1>1. /\ n \in Turn /\ n.msg = turn.msg /\ n.conv = conv /\ n.say = say /\ n.about = about
      /\ n.drops = drops /\ n.unresolved = turn.unresolved
      BY DEF IsTurn
<1>2. turn \in Turn /\ Reported(turn, calendar, proposals)
      BY CalledFor DEF BookingInv, Running
<1>3. Reported(n, calendar, proposals)
      BY <1>1, <1>2, ReportedOn
<1>4. Calling(n, step, held) /\ step \in Goes
      BY DEF Calling, Goes
<1>5. QED BY <1>1, <1>3, <1>4 DEF Ponders

\* A turn with one more tool counted.
LEMMA CountedTurn ==
    ASSUME BookingInv, turn # Nothing, turn.tools < MaxTools,
           NEW n, n = [turn EXCEPT !.tools = turn.tools + 1]
    PROVE  IsTurn(n, turn, turn.conv, turn.say, turn.about, turn.drops, turn.unresolved, turn.b)
<1>1. turn \in Turn
      BY CalledFor
<1>2. turn.tools + 1 \in 0..MaxTools
      BY <1>1, BookingAssumption DEF Turn
<1>3. QED BY <1>1, <1>2, TurnBounds, Zenon

\* The message is only read, or the code refused, or the change too old.
LEMMA ReplyKeeps ==
    ASSUME BookingInv, turn # Nothing, NEW conv, CopyFrom(conv, turn.conv),
           NEW step \in {"replying", "saving"}, Reply(conv, "other", step)
    PROVE  BookingInv'
<1>1. turn \in Turn /\ conv \in Conversation
      BY CalledFor DEF CopyFrom
<1>2. "other" \in Answers
      BY DEF Answers
<1>3. /\ turn' = [turn EXCEPT !.conv = conv, !.say = "other"] /\ pc' = step
      /\ UnchangedButTurn
      BY DEF Reply, Goto
<1>4. IsTurn(turn', turn, conv, "other", turn.about, turn.drops, turn.unresolved, turn.b)
      BY <1>1, <1>2, <1>3, TurnReplies, Zenon
<1>5. Ponders(turn', pc')
      BY <1>3, <1>4, Thinks
<1>6. QED BY <1>3, <1>5, OwnStep, PonderingKeeps

LEMMA AbandonKeeps ==
    ASSUME BookingInv, turn # Nothing, NEW conv, CopyFrom(conv, turn.conv),
           conv.draft = Nothing, conv.change = Nothing, Abandon(conv, "other", "saving")
    PROVE  BookingInv'
<1>1. turn \in Turn /\ conv \in Conversation
      BY CalledFor DEF CopyFrom
<1>2. "other" \in Answers
      BY DEF Answers
<1>3. /\ turn' = [turn EXCEPT !.conv = conv, !.say = "other", !.drops = Earlier]
      /\ pc' = "saving" /\ UnchangedButTurn
      BY DEF Abandon, Goto
<1>4. Earlier \in SUBSET Proposals
      BY BookingAssumption DEF BookingInv, TypeOK, Earlier, Proposals
<1>5. IsTurn(turn', turn, conv, "other", turn.about, Earlier, turn.unresolved, turn.b)
      BY <1>1, <1>2, <1>3, <1>4, TurnAbandons, Zenon
<1>6. Ponders(turn', pc')
      BY <1>3, <1>5, Thinks
<1>7. QED BY <1>3, <1>6, OwnStep, PonderingKeeps

LEMMA RefuseCodeKeeps ==
    ASSUME BookingInv, turn # Nothing, RefuseCode
    PROVE  BookingInv'
<1>1. CopyFrom(turn.conv, turn.conv)
      BY CalledFor, SelfCopy
<1>2. QED BY <1>1, ReplyKeeps DEF RefuseCode, Conv

LEMMA AskModelKeeps ==
    ASSUME BookingInv, turn # Nothing, AskModel
    PROVE  BookingInv'
<1>1. CopyFrom(turn.conv, turn.conv)
      BY CalledFor, SelfCopy
<1>2. QED BY <1>1, ReplyKeeps DEF AskModel, Conv

\* Copies with the draft, the change or both left out.
LEMMA Dropped ==
    ASSUME NEW c \in Conversation
    PROVE  /\ LET n == [c EXCEPT !.draft = Nothing] IN
              CopyFrom(n, c) /\ n.draft = Nothing /\ n.change = c.change
           /\ LET n == [c EXCEPT !.change = Nothing] IN
              CopyFrom(n, c) /\ n.draft = c.draft /\ n.change = Nothing
           /\ LET n == [c EXCEPT !.draft = Nothing, !.change = Nothing] IN
              CopyFrom(n, c) /\ n.draft = Nothing /\ n.change = Nothing
<1>1. LET n == [c EXCEPT !.draft = Nothing] IN
      CopyFrom(n, c) /\ n.draft = Nothing /\ n.change = c.change
      BY CopyDraft DEF CopyFrom, DraftFrom
<1>2. LET n == [c EXCEPT !.change = Nothing] IN
      CopyFrom(n, c) /\ n.draft = c.draft /\ n.change = Nothing
      BY CopyChange DEF CopyFrom, DraftFrom
<1>3. LET n == [c EXCEPT !.draft = Nothing, !.change = Nothing] IN
      CopyFrom(n, c) /\ n.draft = Nothing /\ n.change = Nothing
  <2> DEFINE n == [c EXCEPT !.draft = Nothing, !.change = Nothing]
  <2>1. Nothing \in Draft \cup {Nothing} /\ Nothing \in Change \cup {Nothing}
        OBVIOUS
  <2>2. /\ n \in Conversation /\ n.draft = Nothing /\ n.change = Nothing
        /\ n.human = c.human /\ n.rev = c.rev
        BY <2>1 DEF Conversation
  <2> HIDE DEF n
  <2>3. CopyFrom(n, c)
        BY <2>2 DEF CopyFrom, DraftFrom
  <2>4. QED BY <2>2, <2>3 DEF n
<1>4. QED BY <1>1, <1>2, <1>3, Zenon

LEMMA BrowseCatalogueKeeps ==
    ASSUME BookingInv, turn # Nothing, BrowseCatalogue
    PROVE  BookingInv'
<1> DEFINE conv == [turn.conv EXCEPT !.draft = Nothing, !.change = Nothing]
<1>1. CopyFrom(conv, turn.conv) /\ conv.draft = Nothing /\ conv.change = Nothing
      BY CalledFor, Dropped, Zenon
<1>2. Abandon(conv, "other", "saving")
      BY DEF BrowseCatalogue, Conv
<1> HIDE DEF conv
<1>3. QED BY <1>1, <1>2, AbandonKeeps

LEMMA LeaveItAloneKeeps ==
    ASSUME BookingInv, turn # Nothing, LeaveItAlone
    PROVE  BookingInv'
<1> DEFINE conv == [turn.conv EXCEPT !.change = Nothing]
<1>1. CopyFrom(conv, turn.conv) /\ conv.draft = turn.conv.draft /\ conv.change = Nothing
      BY CalledFor, Dropped, Zenon
<1>2. Abandon(conv, "other", "saving") /\ turn.conv.change # Nothing
      BY DEF LeaveItAlone, Conv
<1> HIDE DEF conv
<1>3. turn.conv.draft = Nothing
      BY <1>2 DEF BookingInv, Running, Sound
<1>4. QED BY <1>1, <1>2, <1>3, AbandonKeeps

LEMMA RefuseExpiredChangeKeeps ==
    ASSUME BookingInv, turn # Nothing, RefuseExpiredChange
    PROVE  BookingInv'
<1> DEFINE conv == [turn.conv EXCEPT !.change = Nothing]
<1>1. CopyFrom(conv, turn.conv)
      BY CalledFor, Dropped, Zenon
<1>2. Reply(conv, "other", "saving")
      BY DEF RefuseExpiredChange, Conv
<1> HIDE DEF conv
<1>3. QED BY <1>1, <1>2, ReplyKeeps

LEMMA CopyOfCopy ==
    ASSUME NEW c, NEW d, NEW e, CopyFrom(c, d), CopyFrom(d, e)
    PROVE  CopyFrom(c, e)
BY DEF CopyFrom, DraftFrom

\* A draft that is read out again is the same proposal.
Reread(c, m) == [c EXCEPT !.draft.awaiting = FALSE, !.draft.from = m]

LEMMA ReadAgain ==
    ASSUME NEW c \in Conversation, c.draft # Nothing, NEW m \in Messages
    PROVE  LET n == Reread(c, m) IN
           /\ n \in Conversation /\ n.draft # Nothing
           /\ n.draft.key = c.draft.key /\ n.draft.slot = c.draft.slot
           /\ n.change = c.change /\ n.human = c.human /\ n.rev = c.rev
<1> DEFINE d == [c.draft EXCEPT !.awaiting = FALSE, !.from = m]
<1>1. c.draft \in Draft
      BY DEF Conversation
<1>2. d \in Draft /\ d.key = c.draft.key /\ d.slot = c.draft.slot
      BY <1>1 DEF Draft
<1>3. Reread(c, m) = [c EXCEPT !.draft = d]
      BY <1>1 DEF Conversation, Draft, Reread
<1> HIDE DEF d
<1>4. LET n == Reread(c, m) IN
      /\ n \in Conversation /\ n.draft = d /\ n.change = c.change
      /\ n.human = c.human /\ n.rev = c.rev
      BY <1>2, <1>3 DEF Conversation
<1>5. QED BY <1>2, <1>4, NothingIsNoDocument

LEMMA ResumedCopy ==
    ASSUME NEW c \in Conversation, NEW p, turn.msg \in Messages
    PROVE  /\ CopyFrom(Resumed(c, p), c)
           /\ Resumes(c, p) => c.draft # Nothing
<1>1. CASE c.draft = Nothing \/ ~c.draft.awaiting
      BY <1>1, SelfCopy DEF Resumed, Resumes
<1>2. CASE /\ ~(c.draft = Nothing \/ ~c.draft.awaiting)
           /\ c.draft.phone = p /\ ValidDraft(c.draft)
  <2> DEFINE n == Reread(c, turn.msg)
  <2>1. Resumed(c, p) = n
        BY <1>2 DEF Resumed, Reread
  <2>2. /\ n \in Conversation
        /\ n.draft.key = c.draft.key /\ n.draft.slot = c.draft.slot
        /\ n.change = c.change /\ n.human = c.human /\ n.rev = c.rev
        BY <1>2, ReadAgain
  <2> HIDE DEF n
  <2>3. CopyFrom(n, c)
        BY <1>2, <2>2 DEF CopyFrom, DraftFrom
  <2>4. QED BY <1>2, <2>1, <2>3
<1>3. CASE /\ ~(c.draft = Nothing \/ ~c.draft.awaiting)
           /\ ~(c.draft.phone = p /\ ValidDraft(c.draft))
  <2> DEFINE n == [c EXCEPT !.draft = Nothing]
  <2>1. Resumed(c, p) = n
        BY <1>3 DEF Resumed
  <2>2. CopyFrom(n, c)
        BY Dropped, Zenon
  <2>3. QED BY <1>3, <2>1, <2>2
<1>4. QED BY <1>1, <1>2, <1>3

\* The draft is read out again, or dropped, or there is none.
LEMMA ResumedPonders ==
    ASSUME BookingInv, turn # Nothing, NEW c, CopyFrom(c, turn.conv),
           NEW p \in Phones \cup {Nothing}
    PROVE  /\ Ponders(ResumedTurn(c, p), "saving")
           /\ ~Resumes(c, p) => Ponders([ResumedTurn(c, p) EXCEPT !.conv.draft = Nothing], "saving")
<1> DEFINE conv == Resumed(c, p)
           say == IF Resumes(c, p) THEN "summary" ELSE "other"
           about == IF Resumes(c, p) THEN c.draft.key ELSE Nothing
           n == ResumedTurn(c, p)
<1>1. turn \in Turn /\ turn.msg \in Messages /\ c \in Conversation
      BY CalledFor DEF CopyFrom
<1>2. CopyFrom(conv, c) /\ (Resumes(c, p) => c.draft # Nothing)
      BY <1>1, ResumedCopy
<1>3. CopyFrom(conv, turn.conv) /\ conv \in Conversation
      BY <1>2, CopyOfCopy DEF CopyFrom
<1>4. say \in Answers /\ about \in Proposals \cup {Nothing}
  <2>1. Resumes(c, p) => c.draft \in Draft
        BY <1>1, <1>2 DEF Conversation
  <2>2. QED BY <2>1 DEF Answers, Draft
<1>5. say = "summary" => about \in 1..proposals
  <2>1. ASSUME Resumes(c, p)
        PROVE  c.draft.key \in 1..proposals
    <3>1. c.draft # Nothing /\ c.draft \in Draft
          BY <1>1, <1>2, <2>1 DEF Conversation
    <3>2. Sound(c, calendar, held, proposals, told)
          BY CalledFor, CopySound DEF BookingInv, Running
    <3>3. c.draft.key <= proposals
          BY <3>1, <3>2 DEF Sound, SoundDraft
    <3>4. proposals \in Nat
          BY DEF BookingInv, TypeOK
    <3>5. QED BY <3>1, <3>3, <3>4 DEF Draft, Proposals
  <2>2. QED BY <2>1
<1>6. IsTurn(n, turn, conv, say, about, turn.drops, turn.unresolved, turn.b)
  <2>1. n = [turn EXCEPT !.conv = conv, !.phone = p, !.say = say, !.about = about]
        BY DEF ResumedTurn
  <2> HIDE DEF n, conv, say, about
  <2>2. QED BY <1>1, <1>3, <1>4, <2>1, TurnResumes, Zenon
<1> HIDE DEF n, conv, about
<1>7. Ponders(n, "saving")
  <2>1. /\ n \in Turn /\ n.msg = turn.msg /\ n.conv = conv /\ n.say = say /\ n.about = about
        /\ n.drops = turn.drops /\ n.unresolved = turn.unresolved
        BY <1>6 DEF IsTurn
  <2>2. Reported(n, calendar, proposals)
        BY <1>5, <2>1 DEF Reported
  <2>3. QED BY <1>3, <2>1, <2>2 DEF Ponders, Goes, Calling
<1>8. ASSUME ~Resumes(c, p)
      PROVE  Ponders([n EXCEPT !.conv.draft = Nothing], "saving")
  <2> DEFINE r == [n EXCEPT !.conv.draft = Nothing]
             less == [conv EXCEPT !.draft = Nothing]
  <2>1. say = "other"
        BY <1>8
  <2>2. n \in Turn /\ n.conv = conv
        BY <1>6 DEF IsTurn
  <2>3. CopyFrom(less, conv)
        BY <1>3, Dropped, Zenon
  <2>4. CopyFrom(less, turn.conv) /\ less \in Conversation
        BY <1>3, <2>3, CopyOfCopy DEF CopyFrom
  <2>5. r = [n EXCEPT !.conv = less]
        BY <2>2
  <2> HIDE DEF r, less
  <2>6. IsTurn(r, n, less, n.say, n.about, n.drops, n.unresolved, n.b)
        BY <2>2, <2>4, <2>5, TurnCopies, Zenon
  <2>7. IsTurn(r, turn, less, "other", about, turn.drops, turn.unresolved, turn.b)
        BY <1>6, <2>1, <2>6 DEF IsTurn
  <2>8. Ponders(r, "saving")
        BY <2>4, <2>7, Thinks
  <2>9. QED BY <2>8 DEF r
<1>9. QED BY <1>7, <1>8 DEF n

LEMMA ShowAppointmentsKeeps ==
    ASSUME BookingInv, turn # Nothing, ShowAppointments
    PROVE  BookingInv'
<1>1. /\ turn' = IF turn.phone = Nothing THEN turn ELSE ResumedTurn(turn.conv, turn.phone)
      /\ pc' = "saving" /\ UnchangedButTurn
      BY DEF ShowAppointments, Goto, Conv, UnchangedButTurn
<1>2. turn \in Turn /\ CopyFrom(turn.conv, turn.conv) /\ turn.phone \in Phones \cup {Nothing}
      BY CalledFor, SelfCopy DEF Turn
<1>3. Ponders(turn, "saving")
  <2>1. IsTurn(turn, turn, turn.conv, turn.say, turn.about, turn.drops, turn.unresolved, turn.b)
        BY <1>2 DEF IsTurn
  <2>2. QED BY <1>2, <2>1, Thinks
<1>4. Ponders(ResumedTurn(turn.conv, turn.phone), "saving")
      BY <1>2, ResumedPonders
<1>5. Ponders(turn', pc')
      BY <1>1, <1>3, <1>4
<1>6. QED BY <1>1, <1>5, OwnStep, PonderingKeeps

LEMMA VerifyCodeKeeps ==
    ASSUME BookingInv, turn # Nothing, NEW p \in Phones, VerifyCode(p)
    PROVE  BookingInv'
<1> DEFINE conv == [turn.conv EXCEPT !.owner = p, !.change = Nothing]
<1>1. CopyFrom(conv, turn.conv)
  <2> DEFINE mine == [turn.conv EXCEPT !.owner = p]
  <2>1. turn.conv \in Conversation /\ p \in Phones \cup {Nothing}
        BY CalledFor
  <2>2. /\ mine \in Conversation /\ mine.draft = turn.conv.draft
        /\ mine.change = turn.conv.change
        /\ mine.human = turn.conv.human /\ mine.rev = turn.conv.rev
        BY <2>1, CopyOwner, Zenon
  <2>3. conv = [mine EXCEPT !.change = Nothing]
        OBVIOUS
  <2> HIDE DEF mine, conv
  <2>4. CopyFrom(mine, turn.conv)
        BY <2>2 DEF CopyFrom, DraftFrom
  <2>5. CopyFrom(conv, mine)
        BY <2>2, <2>3, Dropped, Zenon
  <2>6. QED BY <2>4, <2>5, CopyOfCopy
<1>2. /\ turn' = IF Resumes(conv, p) THEN ResumedTurn(conv, p)
                 ELSE [ResumedTurn(conv, p) EXCEPT !.conv.draft = Nothing]
      /\ verified' = p /\ pc' = "saving"
      /\ UNCHANGED <<inbox, saved, local, world, now, proposals, faults, events, history>>
      BY DEF VerifyCode, Goto, Conv, bounds
<1> HIDE DEF conv
<1>3. Ponders(turn', pc')
      BY <1>1, <1>2, ResumedPonders
<1>4. verified' \in Phones \cup {Nothing} /\ faults' \in 0..MaxFaults
      BY <1>2 DEF BookingInv, TypeOK
<1>5. QED BY <1>2, <1>3, <1>4, PonderingKeeps

LEMMA TurnOfTurn ==
    ASSUME NEW l, NEW n, NEW t, NEW c1, NEW s1, NEW a1, NEW d1, NEW u1, NEW b1,
           IsTurn(n, t, c1, s1, a1, d1, u1, b1),
           NEW c, NEW s, NEW a, NEW d, NEW u, NEW b, IsTurn(l, n, c, s, a, d, u, b)
    PROVE  IsTurn(l, t, c, s, a, d, u, b)
BY DEF IsTurn

\* A draft that waits for the phone to be proved is the same proposal.
Awaited(c) == [c EXCEPT !.draft.awaiting = TRUE]

LEMMA AwaitedCopy ==
    ASSUME NEW c \in Conversation, c.draft # Nothing
    PROVE  CopyFrom(Awaited(c), c)
<1> DEFINE d == [c.draft EXCEPT !.awaiting = TRUE]
<1>1. c.draft \in Draft
      BY DEF Conversation
<1>2. d \in Draft /\ d.key = c.draft.key /\ d.slot = c.draft.slot
      BY <1>1 DEF Draft
<1>3. Awaited(c) = [c EXCEPT !.draft = d]
      BY DEF Awaited
<1> HIDE DEF d
<1>4. LET n == Awaited(c) IN
      /\ n \in Conversation /\ n.draft = d /\ n.change = c.change
      /\ n.human = c.human /\ n.rev = c.rev
      BY <1>2, <1>3 DEF Conversation
<1>5. QED BY <1>2, <1>4 DEF CopyFrom, DraftFrom

\* The running turn, except for its tools and what it has attempted.
Counts(n) ==
    IsTurn(n, turn, turn.conv, turn.say, turn.about, turn.drops, turn.unresolved, turn.b)

LEMMA CountsThinks ==
    ASSUME BookingInv, turn # Nothing, NEW n, Counts(n), NEW step \in {"replying", "saving"}
    PROVE  Ponders(n, step)
<1>1. CopyFrom(turn.conv, turn.conv)
      BY CalledFor, SelfCopy
<1>2. QED BY <1>1, Thinks DEF Counts

LEMMA CountsDropsDraft ==
    ASSUME BookingInv, turn # Nothing, NEW n, Counts(n), NEW step \in {"replying", "saving"},
           NEW r, r = [n EXCEPT !.conv.draft = Nothing]
    PROVE  Ponders(r, step)
<1> DEFINE less == [turn.conv EXCEPT !.draft = Nothing]
<1>1. n \in Turn /\ n.conv = turn.conv
      BY DEF Counts, IsTurn
<1>2. CopyFrom(less, turn.conv) /\ less \in Conversation
      BY CalledFor, Dropped, Zenon DEF CopyFrom
<1>3. r = [n EXCEPT !.conv = less]
      BY <1>1
<1> HIDE DEF less
<1>4. IsTurn(r, n, less, n.say, n.about, n.drops, n.unresolved, n.b)
      BY <1>1, <1>2, <1>3, TurnCopies, Zenon
<1>5. IsTurn(r, turn, less, turn.say, turn.about, turn.drops, turn.unresolved, turn.b)
      BY <1>4 DEF Counts, IsTurn
<1>6. QED BY <1>2, <1>5, Thinks

LEMMA CountsDropsChange ==
    ASSUME BookingInv, turn # Nothing, NEW n, Counts(n), NEW step \in {"replying", "saving"},
           NEW r, r = [n EXCEPT !.conv.change = Nothing]
    PROVE  Ponders(r, step)
<1> DEFINE less == [turn.conv EXCEPT !.change = Nothing]
<1>1. n \in Turn /\ n.conv = turn.conv
      BY DEF Counts, IsTurn
<1>2. CopyFrom(less, turn.conv) /\ less \in Conversation
      BY CalledFor, Dropped, Zenon DEF CopyFrom
<1>3. r = [n EXCEPT !.conv = less]
      BY <1>1
<1> HIDE DEF less
<1>4. IsTurn(r, n, less, n.say, n.about, n.drops, n.unresolved, n.b)
      BY <1>1, <1>2, <1>3, TurnCopies, Zenon
<1>5. IsTurn(r, turn, less, turn.say, turn.about, turn.drops, turn.unresolved, turn.b)
      BY <1>4 DEF Counts, IsTurn
<1>6. QED BY <1>2, <1>5, Thinks

LEMMA CountsSays ==
    ASSUME BookingInv, turn # Nothing, NEW n, Counts(n), NEW step \in {"replying", "saving"},
           NEW r, r = [n EXCEPT !.say = "other"]
    PROVE  Ponders(r, step)
<1>1. n \in Turn /\ "other" \in Answers /\ turn.conv \in Conversation
      BY CalledFor DEF Counts, IsTurn, Answers
<1>2. IsTurn(r, n, n.conv, "other", n.about, n.drops, n.unresolved, n.b)
      BY <1>1, TurnReplies, Zenon
<1>3. IsTurn(r, turn, turn.conv, "other", turn.about, turn.drops, turn.unresolved, turn.b)
      BY <1>2 DEF Counts, IsTurn
<1>4. CopyFrom(turn.conv, turn.conv)
      BY <1>1, SelfCopy
<1>5. QED BY <1>3, <1>4, Thinks

\* confirm_booking, and a plain "yes" to a draft.
LEMMA ConfirmBookingKeeps ==
    ASSUME BookingInv, turn # Nothing, NEW n, Counts(n), ConfirmBooking(n)
    PROVE  BookingInv'
<1> DEFINE d == turn.conv.draft
<1>1. \/ turn' = n /\ pc' = "replying"
      \/ turn' = [n EXCEPT !.conv.draft = Nothing] /\ pc' = "replying"
      \/ /\ turn' = [n EXCEPT !.conv.draft.awaiting = TRUE, !.say = "other"]
         /\ d # Nothing /\ pc' = "saving"
      \/ turn' = n /\ d # Nothing /\ ~PreparedNow(d) /\ pc' = "creating"
      BY Zenon DEF ConfirmBooking, Goto, Conv
<1>2. UnchangedButTurn
      BY DEF ConfirmBooking
<1>3. turn.conv \in Conversation
      BY CalledFor
<1>4. ASSUME turn' = n, pc' = "replying"
      PROVE  Ponders(turn', pc')
      BY <1>4, CountsThinks
<1>5. ASSUME turn' = [n EXCEPT !.conv.draft = Nothing], pc' = "replying"
      PROVE  Ponders(turn', pc')
      BY <1>5, CountsDropsDraft, Zenon
<1>6. ASSUME turn' = [n EXCEPT !.conv.draft.awaiting = TRUE, !.say = "other"],
             d # Nothing, pc' = "saving"
      PROVE  Ponders(turn', pc')
  <2> DEFINE conv == Awaited(turn.conv)
  <2>1. CopyFrom(conv, turn.conv) /\ conv \in Conversation
        BY <1>3, <1>6, AwaitedCopy DEF CopyFrom
  <2>2. n \in Turn /\ n.conv = turn.conv /\ "other" \in Answers
        BY DEF Counts, IsTurn, Answers
  <2>3. turn' = [n EXCEPT !.conv = conv, !.say = "other"]
        BY <1>6, <2>2 DEF Awaited
  <2> HIDE DEF conv
  <2>4. IsTurn(turn', n, conv, "other", n.about, n.drops, n.unresolved, n.b)
        BY <2>1, <2>2, <2>3, TurnReplies, Zenon
  <2>5. IsTurn(turn', turn, conv, "other", turn.about, turn.drops, turn.unresolved, turn.b)
        BY <2>4 DEF Counts, IsTurn
  <2>6. QED BY <1>6, <2>1, <2>5, Thinks
<1>7. ASSUME turn' = n, d # Nothing, ~PreparedNow(d), pc' = "creating"
      PROVE  Ponders(turn', pc')
  <2>1. Ponders(n, "replying")
        BY CountsThinks
  <2>2. Calling(n, "creating", held)
        BY <1>7 DEF Calling, Counts, IsTurn, PreparedNow
  <2>3. QED BY <1>7, <2>1, <2>2 DEF Ponders, Goes
<1>8. QED BY <1>1, <1>2, <1>4, <1>5, <1>6, <1>7, OwnStep, PonderingKeeps

LEMMA SayYesToBookingKeeps ==
    ASSUME BookingInv, turn # Nothing, SayYesToBooking
    PROVE  BookingInv'
<1>1. Counts(turn)
      BY CalledFor DEF Counts, IsTurn
<1>2. QED BY <1>1, ConfirmBookingKeeps DEF SayYesToBooking

LEMMA CallConfirmBookingKeeps ==
    ASSUME BookingInv, turn # Nothing, CallConfirmBooking
    PROVE  BookingInv'
<1> DEFINE n == [turn EXCEPT !.tools = turn.tools + 1]
<1>1. ConfirmBooking(n) /\ turn.tools < MaxTools
      BY DEF CallConfirmBooking, MayCallTool
<1>2. Counts(n)
      BY <1>1, CountedTurn, Zenon DEF Counts
<1> HIDE DEF n
<1>3. QED BY <1>1, <1>2, ConfirmBookingKeeps

\* confirm_cancellation and confirm_reschedule, and a plain "yes" to a change.
LEMMA ConfirmChangeKeeps ==
    ASSUME BookingInv, turn # Nothing, NEW n, Counts(n), ConfirmChange(n)
    PROVE  BookingInv'
<1> DEFINE c == turn.conv.change
<1>1. \/ turn' = [n EXCEPT !.say = "other"] /\ pc' = "saving"
      \/ turn' = n /\ pc' = "replying"
      \/ /\ c # Nothing
         /\ turn' = [n EXCEPT !.conv.change = Nothing, !.say = "changed", !.about = c.key]
         /\ pc' = "saving"
      \/ turn' = [n EXCEPT !.conv.change = Nothing] /\ pc' = "replying"
      \/ /\ c # Nothing /\ ~PreparedNow(c)
         /\ turn' = [n EXCEPT !.b = calendar[c.ref].slot] /\ pc' = "changing"
      BY Zenon DEF ConfirmChange, Goto, Conv
<1>2. UnchangedButTurn
      BY DEF ConfirmChange
<1>3. /\ turn.conv \in Conversation /\ n \in Turn /\ n.conv = turn.conv
      /\ c \in Change \cup {Nothing}
      BY CalledFor DEF Counts, IsTurn
<1>4. ASSUME turn' = [n EXCEPT !.say = "other"], pc' = "saving"
      PROVE  Ponders(turn', pc')
      BY <1>4, CountsSays, Zenon
<1>5. ASSUME turn' = n, pc' = "replying"
      PROVE  Ponders(turn', pc')
      BY <1>5, CountsThinks
<1>6. ASSUME c # Nothing,
             turn' = [n EXCEPT !.conv.change = Nothing, !.say = "changed", !.about = c.key],
             pc' = "saving"
      PROVE  Ponders(turn', pc')
  <2> DEFINE less == [turn.conv EXCEPT !.change = Nothing]
  <2>1. CopyFrom(less, turn.conv) /\ less \in Conversation
        BY <1>3, Dropped, Zenon DEF CopyFrom
  <2>2. "changed" \in Answers /\ c.key \in Proposals \cup {Nothing}
        BY <1>3, <1>6 DEF Answers, Change
  <2>3. turn' = [n EXCEPT !.conv = less, !.say = "changed", !.about = c.key]
        BY <1>3, <1>6
  <2> HIDE DEF less
  <2>4. IsTurn(turn', n, less, "changed", c.key, n.drops, n.unresolved, n.b)
        BY <1>3, <2>1, <2>2, <2>3, TurnTells, Zenon
  <2>5. IsTurn(turn', turn, less, "changed", c.key, turn.drops, turn.unresolved, turn.b)
        BY <2>4 DEF Counts, IsTurn
  <2>6. QED BY <1>6, <2>1, <2>5, Thinks
<1>7. ASSUME turn' = [n EXCEPT !.conv.change = Nothing], pc' = "replying"
      PROVE  Ponders(turn', pc')
      BY <1>7, CountsDropsChange, Zenon
<1>8. ASSUME c # Nothing, ~PreparedNow(c),
             turn' = [n EXCEPT !.b = calendar[c.ref].slot], pc' = "changing"
      PROVE  Ponders(turn', pc')
  <2> DEFINE b == calendar[c.ref].slot
  <2>1. /\ SoundChange(c, calendar, proposals, told)
        /\ Entered(calendar, held, proposals, told) /\ Reported(turn, calendar, proposals)
        /\ held \in [Refs -> SUBSET Slots]
        BY <1>8 DEF BookingInv, Running, Sound, TypeOK
  <2>2. c.ref \in Refs
        BY <1>3, <1>8 DEF Change
  <2>3. b \in held[c.ref] /\ b \in Slots
        BY <2>1, <2>2 DEF SoundChange, Entered
  <2>4. turn' = [n EXCEPT !.b = b]
        BY <1>8
  <2> HIDE DEF b
  <2>5. IsTurn(turn', n, n.conv, n.say, n.about, n.drops, n.unresolved, b)
        BY <1>3, <2>3, <2>4, TurnFound, Zenon
  <2>6. IsTurn(turn', turn, turn.conv, turn.say, turn.about, turn.drops, turn.unresolved, b)
        BY <2>5 DEF Counts, IsTurn
  <2>7. CopyFrom(turn.conv, turn.conv)
        BY <1>3, SelfCopy
  <2>8. Ponders(turn', "replying")
        BY <2>6, <2>7, Thinks
  <2>9. Calling(turn', "changing", held)
        BY <1>8, <2>3, <2>6 DEF Calling, IsTurn, PreparedNow
  <2>10. QED BY <1>8, <2>8, <2>9 DEF Ponders, Goes
<1>9. QED BY <1>1, <1>2, <1>4, <1>5, <1>6, <1>7, <1>8, OwnStep, PonderingKeeps

LEMMA SayYesToChangeKeeps ==
    ASSUME BookingInv, turn # Nothing, SayYesToChange
    PROVE  BookingInv'
<1> DEFINE n == [turn EXCEPT !.attempted = TRUE]
<1>1. ConfirmChange(n)
      BY DEF SayYesToChange
<1>2. turn \in Turn /\ TRUE \in BOOLEAN /\ 0 \in 0..MaxTools
      BY CalledFor, BookingAssumption
<1>3. Counts(n)
      BY <1>2, TurnBounds, Zenon DEF Counts
<1> HIDE DEF n
<1>4. QED BY <1>1, <1>3, ConfirmChangeKeeps

LEMMA CountedCounts ==
    ASSUME BookingInv, turn # Nothing, MayCallTool
    PROVE  Counts(Counted)
<1>1. turn.tools < MaxTools
      BY DEF MayCallTool
<1>2. QED BY <1>1, CountedTurn, Zenon DEF Counts, Counted

LEMMA CallConfirmChangeKeeps ==
    ASSUME BookingInv, turn # Nothing, CallConfirmChange
    PROVE  BookingInv'
BY CountedCounts, ConfirmChangeKeeps DEF CallConfirmChange

LEMMA AskForPhoneKeeps ==
    ASSUME BookingInv, turn # Nothing, AskForPhone
    PROVE  BookingInv'
<1>1. turn' = [Counted EXCEPT !.say = "other"] /\ pc' = "saving" /\ UnchangedButTurn
      BY DEF AskForPhone, Goto
<1>2. Counts(Counted)
      BY CountedCounts DEF AskForPhone
<1>3. Ponders(turn', pc')
      BY <1>1, <1>2, CountsSays, Zenon
<1>4. QED BY <1>1, <1>3, OwnStep, PonderingKeeps

\* The calendar refuses the new time, or the appointment is gone.
LEMMA ChangeRefusedKeeps ==
    ASSUME BookingInv, turn # Nothing, ChangeRefused
    PROVE  BookingInv'
<1>1. /\ \/ turn' = [turn EXCEPT !.conv.change = Nothing, !.say = "other"]
         \/ turn' = [turn EXCEPT !.say = "other"]
      /\ pc' = "replying" /\ UnchangedButTurn
      BY DEF ChangeRefused, Goto
<1>2. Counts(turn)
      BY CalledFor DEF Counts, IsTurn
<1>3. ASSUME turn' = [turn EXCEPT !.say = "other"]
      PROVE  Ponders(turn', pc')
      BY <1>1, <1>2, <1>3, CountsSays, Zenon
<1>4. ASSUME turn' = [turn EXCEPT !.conv.change = Nothing, !.say = "other"]
      PROVE  Ponders(turn', pc')
  <2> DEFINE less == [turn.conv EXCEPT !.change = Nothing]
  <2>1. turn \in Turn /\ turn.conv \in Conversation /\ "other" \in Answers
        BY CalledFor DEF Answers
  <2>2. CopyFrom(less, turn.conv) /\ less \in Conversation
        BY <2>1, Dropped, Zenon DEF CopyFrom
  <2>3. turn' = [turn EXCEPT !.conv = less, !.say = "other"]
        BY <1>4
  <2> HIDE DEF less
  <2>4. IsTurn(turn', turn, less, "other", turn.about, turn.drops, turn.unresolved, turn.b)
        BY <2>1, <2>2, <2>3, TurnReplies, Zenon
  <2>5. QED BY <1>1, <2>2, <2>4, Thinks
<1>5. QED BY <1>1, <1>3, <1>4, OwnStep, PonderingKeeps

\* The tool just failed, and nothing happened.
LEMMA FailureKeeps ==
    ASSUME BookingInv, turn # Nothing, OneFault, AroundCall,
           turn' = [turn EXCEPT !.say = "other"], pc' = "replying",
           UNCHANGED <<local, calendar, held>>
    PROVE  BookingInv'
<1>1. Counts(turn)
      BY CalledFor DEF Counts, IsTurn
<1>2. Ponders(turn', pc')
      BY <1>1, CountsSays, Zenon
<1>3. /\ UNCHANGED <<inbox, saved, local, world, now, proposals, events, history>>
      /\ verified' \in Phones \cup {Nothing} /\ faults' \in 0..MaxFaults
      BY BookingAssumption DEF AroundCall, world, history, OneFault, BookingInv, TypeOK
<1>4. QED BY <1>2, <1>3, PonderingKeeps

LEMMA ChangeFailsKeeps ==
    ASSUME BookingInv, turn # Nothing, ChangeFails
    PROVE  BookingInv'
BY FailureKeeps DEF ChangeFails, Goto

\* Somebody took the time: the draft is dropped and the customer will be told.
LEMMA BookingRefusedKeeps ==
    ASSUME BookingInv, turn # Nothing, BookingRefused
    PROVE  BookingInv'
<1> DEFINE d == turn.conv.draft
           less == [turn.conv EXCEPT !.draft = Nothing]
<1>1. /\ pc = "creating" /\ ~Repeated(d)
      /\ turn' = [turn EXCEPT !.conv = less, !.say = "taken", !.about = d.key]
      /\ pc' = "replying" /\ UnchangedButTurn
      BY DEF BookingRefused, Conv, Goto
<1>2. /\ d \in Draft /\ turn.conv.change = Nothing
      /\ SoundDraft(d, calendar, held, proposals, told)
      /\ turn \in Turn /\ turn.conv \in Conversation
      BY <1>1, CalledFor
<1>3. CopyFrom(less, turn.conv) /\ less.draft = Nothing /\ less.change = turn.conv.change
      BY <1>2, Dropped, Zenon
<1>4. less \in Conversation /\ "taken" \in Answers /\ d.key \in Proposals \cup {Nothing}
      BY <1>2, <1>3 DEF CopyFrom, Answers, Draft
<1> HIDE DEF less
<1>5. IsTurn(turn', turn, less, "taken", d.key, turn.drops, turn.unresolved, turn.b)
  <2> HIDE DEF d
  <2>1. QED BY <1>1, <1>2, <1>4, TurnTells, Zenon
<1>6. d.key \in 1..proposals
  <2>1. proposals \in Nat
        BY DEF BookingInv, TypeOK
  <2>2. QED BY <1>2, <2>1 DEF SoundDraft, Draft, Proposals
<1>7. RepeatsRecognised => \A x \in Refs : calendar[x] # Nothing => calendar[x].proposal # d.key
      BY <1>1, <1>2 DEF Repeated, Recorded, RequestKey, SoundDraft
<1>8. Ponders(turn', "replying")
  <2>1. /\ turn' \in Turn /\ turn'.msg = turn.msg /\ turn'.conv = less /\ turn'.say = "taken"
        /\ turn'.about = d.key /\ turn'.drops = turn.drops /\ turn'.unresolved = turn.unresolved
        BY <1>5 DEF IsTurn
  <2>2. Reported(turn', calendar, proposals)
        BY <1>2, <1>3, <1>6, <1>7, <2>1 DEF Reported
  <2>3. QED BY <1>3, <2>1, <2>2 DEF Ponders, Goes, Calling
<1>9. QED BY <1>1, <1>8, OwnStep, PonderingKeeps

LEMMA AnswerKeeps ==
    ASSUME BookingInv, turn # Nothing, Answer
    PROVE  BookingInv'
<1>1. turn \in Turn /\ turn.conv \in Conversation
      BY CalledFor
<1>2. PICK h \in {turn.conv.human, TRUE} : turn' = [turn EXCEPT !.conv.human = h]
      BY DEF Answer, Conv
<1> DEFINE conv == [turn.conv EXCEPT !.human = h]
<1>3. h \in BOOLEAN /\ (turn.conv.human => h)
      BY <1>1, <1>2, Zenon DEF Conversation
<1>4. /\ conv \in Conversation /\ conv.draft = turn.conv.draft
      /\ conv.change = turn.conv.change /\ conv.human = h /\ conv.rev = turn.conv.rev
      BY <1>1, <1>3, CopyHuman, Zenon
<1>5. turn' = [turn EXCEPT !.conv = conv]
      BY <1>2
<1> HIDE DEF conv
<1>6. CopyFrom(conv, turn.conv)
      BY <1>3, <1>4 DEF CopyFrom, DraftFrom
<1>7. IsTurn(turn', turn, conv, turn.say, turn.about, turn.drops, turn.unresolved, turn.b)
      BY <1>1, <1>4, <1>5, TurnCopies, Zenon
<1>8. pc' = "saving" /\ UnchangedButTurn
      BY DEF Answer, Goto
<1>9. Ponders(turn', pc')
      BY <1>6, <1>7, <1>8, Thinks
<1>10. QED BY <1>8, <1>9, OwnStep, PonderingKeeps

-----------------------------------------------------------------------------
(* A turn that proposes something.                                         *)

\* A conversation that holds nothing but the new proposal with this key.
JustProposed(c, key) ==
    \/ c.draft # Nothing /\ c.draft.key = key /\ c.change = Nothing
    \/ /\ c.change # Nothing /\ c.change.key = key /\ c.draft = Nothing
       /\ calendar[c.change.ref] # Nothing
       /\ c.change.kind = "move" => c.change.to \in Slots

LEMMA ProposalKeeps ==
    ASSUME BookingInv, turn # Nothing, proposals' = proposals + 1, proposals' \in Proposals,
           NEW conv \in Conversation, JustProposed(conv, proposals'),
           conv.rev = turn.conv.rev, conv.human = turn.conv.human,
           NEW say \in {"summary", "other"}, NEW b,
           IsTurn(turn', turn, conv, say, proposals', Earlier, turn.unresolved, b),
           pc' \in {"replying", "saving"},
           UNCHANGED <<inbox, saved, local, verified, world, now, faults, events, history>>
    PROVE  BookingInv'
<1> DEFINE key == proposals'
<1>1. /\ proposals \in Nat /\ key = proposals + 1 /\ key \in 0..MaxProposals
      BY BookingAssumption DEF BookingInv, TypeOK, Proposals
<1>2. /\ UNCHANGED <<inbox, saved, taken, now, events, dead, shown, told>>
      /\ calendar' = calendar /\ held' = held /\ local' = local
      /\ verified' = verified /\ faults' = faults
      BY DEF world, history
<1>3. /\ calendar \in [Refs -> Appointment \cup {Nothing}]
      /\ local \in [Refs -> LocalRecord \cup {Nothing}]
      /\ verified \in Phones \cup {Nothing} /\ faults \in 0..MaxFaults
      /\ saved \in Conversation /\ saved.draft \in Draft \cup {Nothing}
      /\ saved.change \in Change \cup {Nothing}
      BY DEF BookingInv, TypeOK, Conversation
<1>4. /\ Sound(saved, calendar, held, proposals, told)
      /\ Entered(calendar, held, proposals, told)
      /\ Registered(local, calendar, held)
      /\ dead \subseteq Earlier /\ told \subseteq Earlier /\ Control(turn)
      BY DEF BookingInv, Running
<1>5. /\ turn' \in Turn /\ turn'.msg = turn.msg /\ turn'.conv = conv /\ turn'.say = say
      /\ turn'.about = key /\ turn'.drops = Earlier /\ turn'.unresolved = turn.unresolved
      BY DEF IsTurn
<1>6. key \notin Earlier
      BY <1>1 DEF Earlier
<1>7. \A x \in Refs : calendar[x] # Nothing =>
          /\ calendar[x].key # key /\ calendar[x].proposal # key
  <2>1. \A x \in Refs : calendar[x] # Nothing =>
            calendar[x].key \in Nat /\ calendar[x].proposal \in Nat
        BY <1>3 DEF Appointment
  <2>2. QED BY <1>1, <1>4, <2>1 DEF Entered
<1>8. Sound(conv, calendar, held, key, told)
  <2>1. key <= key /\ key \notin told
        BY <1>1, <1>4, <1>6
  <2>2. QED BY <1>7, <2>1 DEF Sound, SoundDraft, SoundChange, JustProposed
<1>9. Sound(saved, calendar, held, key, told)
  <2>1. /\ saved.draft # Nothing => saved.draft.key \in Nat
        /\ saved.change # Nothing => saved.change.key \in Nat
        BY <1>3 DEF Draft, Change, Proposals
  <2>2. QED BY <1>1, <1>4, <2>1 DEF Sound, SoundDraft, SoundChange
<1>10. Agree(saved, conv)
  <2>1. /\ saved.draft # Nothing => saved.draft.key # key
        /\ saved.change # Nothing => saved.change.key # key
        BY <1>1, <1>4 DEF Sound, SoundDraft, SoundChange
  <2>2. QED BY <2>1 DEF Agree, Unequal, JustProposed
<1>11. Without(conv, dead \cup Earlier)
      BY <1>4, <1>6 DEF Without, JustProposed
<1>12. Reported(turn', calendar, key)
      BY <1>1, <1>5 DEF Reported
<1>13. Calling(turn', pc', held) /\ pc' \in Goes
      BY DEF Calling, Goes
<1>14. turn'.unresolved /\ ~AnswersUnreadable => turn'.conv.human
      BY <1>4, <1>5 DEF Control
<1>15. Earlier \subseteq 1..key
      BY <1>1 DEF Earlier
<1>16. Preserves(calendar', held')
      BY <1>2, IdlePreserves
<1>17. proposals' >= proposals
      BY <1>1
<1>18. UNCHANGED <<inbox, saved, taken, now, events, dead, shown, told>>
      BY <1>2
<1>19. turn'.conv.rev = turn.conv.rev
      BY <1>5
<1> HIDE DEF key
<1>20. /\ Registered(local', calendar', held') /\ local' \in [Refs -> LocalRecord \cup {Nothing}]
       /\ verified' \in Phones \cup {Nothing} /\ faults' \in 0..MaxFaults
      BY <1>2, <1>3, <1>4
<1>21. /\ Sound(saved, calendar', held', proposals', told)
       /\ Sound(turn'.conv, calendar', held', proposals', told)
       /\ Agree(saved, turn'.conv)
       /\ Reported(turn', calendar', proposals')
       /\ Calling(turn', pc', held')
       /\ turn'.drops \subseteq 1..proposals'
       /\ turn'.conv.rev = saved.rev => Without(turn'.conv, dead \cup turn'.drops)
      BY <1>2, <1>5, <1>8, <1>9, <1>10, <1>11, <1>12, <1>13, <1>15 DEF key
<1>22. QED BY <1>1, <1>5, <1>13, <1>14, <1>16, <1>17, <1>18, <1>19, <1>20, <1>21,
              TurnGoesOn DEF key

\* One more tool counted, and everything proposed before left behind.
LEMMA MovingOn ==
    ASSUME BookingInv, turn # Nothing, MayCallTool,
           NEW n, n = [turn EXCEPT !.tools = turn.tools + 1, !.drops = Earlier]
    PROVE  IsTurn(n, turn, turn.conv, turn.say, turn.about, Earlier, turn.unresolved, turn.b)
<1>1. turn \in Turn /\ turn.tools < MaxTools
      BY CalledFor DEF MayCallTool
<1>2. turn.tools + 1 \in 0..MaxTools
      BY <1>1, BookingAssumption DEF Turn
<1>3. Earlier \in SUBSET Proposals
      BY BookingAssumption DEF BookingInv, TypeOK, Earlier, Proposals
<1>4. QED BY <1>1, <1>2, <1>3, TurnDrops, Zenon

LEMMA PrepareBookingKeeps ==
    ASSUME BookingInv, turn # Nothing, NEW s \in Slots, NEW p \in Phones, PrepareBooking(s, p)
    PROVE  BookingInv'
<1> DEFINE cleared == [turn.conv EXCEPT !.draft = Nothing, !.change = Nothing]
           key == proposals + 1
           draft == [key |-> key, slot |-> s, phone |-> p, at |-> now, from |-> turn.msg,
                     awaiting |-> turn.phone # p]
           counted == [turn EXCEPT !.tools = turn.tools + 1, !.drops = Earlier]
           conv == [cleared EXCEPT !.draft = draft]
           say == IF draft.awaiting THEN "other" ELSE "summary"
<1>1. /\ MayCallTool
      /\ UNCHANGED <<inbox, saved, local, verified, world, now, faults, events, history>>
      /\ \/ /\ turn' = [counted EXCEPT !.conv = cleared, !.say = "other"]
            /\ UNCHANGED <<pc, proposals>>
         \/ /\ proposals < MaxProposals
            /\ proposals' = key
            /\ turn' = [counted EXCEPT !.conv = conv, !.say = say, !.about = key]
            /\ pc' = IF draft.awaiting THEN "saving" ELSE "replying"
      BY Zenon DEF PrepareBooking, Conv, Goto
<1>2. IsTurn(counted, turn, turn.conv, turn.say, turn.about, Earlier, turn.unresolved, turn.b)
      BY <1>1, MovingOn, Zenon
<1>3. turn \in Turn /\ turn.conv \in Conversation /\ turn.msg \in Messages
      BY CalledFor
<1>4. CopyFrom(cleared, turn.conv) /\ cleared.draft = Nothing /\ cleared.change = Nothing
      BY <1>3, Dropped, Zenon
<1>5. /\ cleared \in Conversation /\ cleared.rev = turn.conv.rev
      /\ cleared.human = turn.conv.human
  <2>1. /\ cleared \in Conversation /\ cleared.rev = turn.conv.rev
        BY <1>4 DEF CopyFrom
  <2>2. cleared.human = turn.conv.human
        BY <1>3 DEF Conversation
  <2>3. QED BY <2>1, <2>2
<1>6. "other" \in Answers /\ "summary" \in Answers
      BY DEF Answers
<1> HIDE DEF cleared
<1>7. ASSUME turn' = [counted EXCEPT !.conv = cleared, !.say = "other"],
             UNCHANGED <<pc, proposals>>
      PROVE  BookingInv'
  <2>1. counted \in Turn
        BY <1>2 DEF IsTurn
  <2> HIDE DEF counted
  <2>2. IsTurn(turn', counted, cleared, "other", counted.about, counted.drops,
               counted.unresolved, counted.b)
        BY <1>5, <1>6, <1>7, <2>1, TurnReplies, Zenon
  <2>3. IsTurn(turn', turn, cleared, "other", turn.about, Earlier, turn.unresolved, turn.b)
        BY <1>2, <2>2 DEF IsTurn
  <2>4. pc' = "replying"
        BY <1>1, <1>7 DEF MayCallTool
  <2>5. Ponders(turn', pc')
        BY <1>4, <2>3, <2>4, Thinks
  <2>6. /\ UNCHANGED <<inbox, saved, local, world, now, proposals, events, history>>
        /\ verified' \in Phones \cup {Nothing} /\ faults' \in 0..MaxFaults
        BY <1>1, <1>7 DEF BookingInv, TypeOK
  <2>7. QED BY <2>5, <2>6, PonderingKeeps
<1>8. ASSUME proposals < MaxProposals, proposals' = key,
             turn' = [counted EXCEPT !.conv = conv, !.say = say, !.about = key],
             pc' = IF draft.awaiting THEN "saving" ELSE "replying"
      PROVE  BookingInv'
  <2>1. key \in Proposals /\ now \in 0..Horizon
        BY <1>8, BookingAssumption DEF BookingInv, TypeOK, Proposals
  <2>2. draft \in Draft /\ draft.key = key
        BY <1>3, <2>1 DEF Draft
  <2>3. say \in {"summary", "other"} /\ say \in Answers /\ key \in Proposals \cup {Nothing}
        BY <1>6, <2>1
  <2>4. pc' \in {"replying", "saving"}
        BY <1>8
  <2>5. counted \in Turn
        BY <1>2 DEF IsTurn
  <2> HIDE DEF draft, counted
  <2>6. /\ conv \in Conversation /\ conv.draft = draft /\ conv.change = Nothing
        /\ conv.human = turn.conv.human /\ conv.rev = turn.conv.rev
        BY <1>4, <1>5, <2>2 DEF Conversation
  <2> HIDE DEF conv, say, key
  <2>7. IsTurn(turn', counted, conv, say, key, counted.drops, counted.unresolved, counted.b)
        BY <1>8, <2>3, <2>5, <2>6, TurnTells, Zenon
  <2>8. IsTurn(turn', turn, conv, say, proposals', Earlier, turn.unresolved, turn.b)
        BY <1>2, <1>8, <2>7 DEF IsTurn
  <2>9. JustProposed(conv, proposals')
        BY <1>8, <2>2, <2>6, NothingIsNoDocument DEF JustProposed
  <2>10. proposals' = proposals + 1 /\ proposals' \in Proposals
        BY <1>8, <2>1 DEF key
  <2>11. QED BY <1>1, <2>3, <2>4, <2>6, <2>8, <2>9, <2>10, ProposalKeeps
<1>9. QED BY <1>1, <1>7, <1>8

\* A change is proposed, or proposed again.
LEMMA PrepareKeeps ==
    ASSUME BookingInv, turn # Nothing, MayCallTool,
           NEW kind \in {"cancel", "move"}, NEW x \in Refs, calendar[x] # Nothing,
           NEW to \in Slots \cup {Nothing}, kind = "move" => to \in Slots,
           Prepare(kind, x, to)
    PROVE  BookingInv'
<1> DEFINE key == IF AlreadyPrepared(kind, x, to) THEN turn.conv.change.key ELSE proposals + 1
           change == IF AlreadyPrepared(kind, x, to) THEN turn.conv.change
                     ELSE [key |-> key, kind |-> kind, ref |-> x, to |-> to,
                           at |-> now, from |-> turn.msg]
           conv == [turn.conv EXCEPT !.draft = Nothing, !.change = change]
           drops == IF key > proposals THEN Earlier ELSE turn.drops
<1>1. /\ turn \in Turn /\ turn.conv \in Conversation /\ turn.msg \in Messages
      /\ turn.conv.change \in Change \cup {Nothing}
      BY CalledFor
<1>2. Counts(Counted)
      BY CountedCounts
<1>3. /\ Counted \in Turn /\ Counted.conv = turn.conv /\ Counted.drops = turn.drops
      BY <1>2 DEF Counts, IsTurn
<1>4. /\ key \in Proposals
      /\ proposals' = IF key > proposals THEN key ELSE proposals
      /\ UNCHANGED <<inbox, saved, local, verified, world, pc, now, faults, events, history>>
      BY Zenon DEF Prepare, Conv
<1>5. turn' = [Counted EXCEPT !.conv = conv, !.say = "summary", !.about = key, !.drops = drops]
  <2>1. turn' = [Counted EXCEPT !.conv = WithChange(Counted.conv, change), !.say = "summary",
                                !.about = key,
                                !.drops = IF key > proposals THEN Earlier ELSE Counted.drops]
        BY Zenon DEF Prepare, Conv
  <2>2. WithChange(Counted.conv, change) = conv
        BY <1>3, Zenon DEF WithChange
  <2>3. (IF key > proposals THEN Earlier ELSE Counted.drops) = drops
        BY <1>3
  <2>4. QED BY <2>1, <2>2, <2>3, Zenon
<1>6. /\ proposals \in Nat /\ now \in 0..Horizon /\ Earlier \in SUBSET Proposals
      /\ turn.drops \in SUBSET Proposals
      BY <1>1, BookingAssumption DEF BookingInv, TypeOK, Earlier, Proposals, Turn
<1>7. drops \in SUBSET Proposals /\ key \in Proposals \cup {Nothing} /\ "summary" \in Answers
      BY <1>4, <1>6 DEF Answers
<1>8. change \in Change /\ change.key = key
  <2>1. CASE AlreadyPrepared(kind, x, to)
        BY <1>1, <2>1 DEF AlreadyPrepared, Conv
  <2>2. CASE ~AlreadyPrepared(kind, x, to)
        BY <1>1, <1>4, <1>6, <2>2 DEF Change
  <2>3. QED BY <2>1, <2>2
<1> HIDE DEF drops
<1>9. /\ conv \in Conversation /\ conv.draft = Nothing /\ conv.change = change
      /\ conv.human = turn.conv.human /\ conv.rev = turn.conv.rev
  <2> HIDE DEF change, key
  <2>1. QED BY <1>1, <1>8 DEF Conversation
<1>10. IsTurn(turn', turn, conv, "summary", key, drops, turn.unresolved, turn.b)
  <2> HIDE DEF key, change, conv
  <2>1. IsTurn(turn', Counted, conv, "summary", key, drops, Counted.unresolved, Counted.b)
        BY <1>3, <1>5, <1>7, <1>9, TurnProposes, Zenon
  <2>2. QED BY <1>2, <2>1 DEF Counts, IsTurn
<1>11. pc' = "replying"
      BY <1>4 DEF MayCallTool
<1>12. CASE AlreadyPrepared(kind, x, to)
  <2>1. change = turn.conv.change /\ key = turn.conv.change.key /\ turn.conv.change # Nothing
        BY <1>12 DEF AlreadyPrepared, Conv
  <2>2. key <= proposals /\ key \in 1..proposals
        BY <1>4, <1>6, <2>1 DEF BookingInv, Running, Sound, SoundChange, Proposals
  <2>3. drops = turn.drops /\ proposals' = proposals
        BY <1>4, <1>6, <2>2 DEF drops
  <2> HIDE DEF key, change, conv
  <2>4. CopyFrom(conv, turn.conv)
        BY <1>9, <2>1 DEF CopyFrom, DraftFrom
  <2>5. /\ turn' \in Turn /\ turn'.msg = turn.msg /\ turn'.conv = conv /\ turn'.say = "summary"
        /\ turn'.about = key /\ turn'.drops = turn.drops /\ turn'.unresolved = turn.unresolved
        BY <1>10, <2>3 DEF IsTurn
  <2>6. Reported(turn', calendar, proposals)
        BY <2>2, <2>5 DEF Reported
  <2>7. Ponders(turn', pc')
        BY <1>11, <2>4, <2>5, <2>6 DEF Ponders, Goes, Calling
  <2>8. /\ UNCHANGED <<inbox, saved, local, world, now, proposals, events, history>>
        /\ verified' \in Phones \cup {Nothing} /\ faults' \in 0..MaxFaults
        BY <1>4, <2>3 DEF BookingInv, TypeOK
  <2>9. QED BY <2>7, <2>8, PonderingKeeps
<1>13. CASE ~AlreadyPrepared(kind, x, to)
  <2>1. key = proposals + 1 /\ proposals' = key /\ drops = Earlier
        BY <1>4, <1>6, <1>13 DEF drops
  <2>2. change.ref = x /\ change.kind = kind /\ change.to = to
        BY <1>13
  <2> HIDE DEF key, change, conv
  <2>3. JustProposed(conv, proposals')
        BY <1>8, <1>9, <2>1, <2>2, NothingIsNoDocument DEF JustProposed
  <2>4. IsTurn(turn', turn, conv, "summary", proposals', Earlier, turn.unresolved, turn.b)
        BY <1>10, <2>1
  <2>5. proposals' = proposals + 1 /\ proposals' \in Proposals
        BY <1>4, <2>1
  <2>6. /\ UNCHANGED <<inbox, saved, local, verified, world, now, faults, events, history>>
        /\ pc' \in {"replying", "saving"}
        BY <1>4, <1>11
  <2>7. QED BY <1>9, <2>3, <2>4, <2>5, <2>6, ProposalKeeps
<1>14. QED BY <1>12, <1>13

LEMMA PrepareCancellationKeeps ==
    ASSUME BookingInv, turn # Nothing, NEW x \in Refs, PrepareCancellation(x)
    PROVE  BookingInv'
<1>1. MayCallTool /\ calendar[x] # Nothing
      BY DEF PrepareCancellation, MayCallChangeTool, Owned
<1>2. CASE /\ turn' = [Counted EXCEPT !.conv.change = Nothing]
           /\ UNCHANGED pc /\ UnchangedButTurn
  <2>1. Counts(Counted)
        BY <1>1, CountedCounts
  <2>2. pc' = "replying"
        BY <1>1, <1>2 DEF MayCallTool
  <2>3. Ponders(turn', pc')
        BY <1>2, <2>1, <2>2, CountsDropsChange, Zenon
  <2>4. QED BY <1>2, <2>3, OwnStep, PonderingKeeps
<1>3. CASE Prepare("cancel", x, Nothing)
      BY <1>1, <1>3, PrepareKeeps
<1>4. QED BY <1>2, <1>3 DEF PrepareCancellation

LEMMA PrepareRescheduleKeeps ==
    ASSUME BookingInv, turn # Nothing, NEW x \in Refs, NEW s \in Slots, PrepareReschedule(x, s)
    PROVE  BookingInv'
BY PrepareKeeps DEF PrepareReschedule, MayCallChangeTool, Owned

-----------------------------------------------------------------------------
(* A turn whose call reached the calendar, or may have.                    *)

LEMMA CallKeeps ==
    ASSUME BookingInv, turn # Nothing, Preserves(calendar', held'),
           \A c \in Conversation : Agree(c, turn.conv) => StaysSound(c, calendar', held'),
           NEW conv, CopyFrom(conv, turn.conv), NEW say, say \notin {"summary", "taken"},
           NEW about, NEW u, NEW b,
           IsTurn(turn', turn, conv, say, about, turn.drops, u, b),
           u /\ ~AnswersUnreadable => conv.human,
           pc' \in {"replying", "saving"}, AroundCall, faults' \in 0..MaxFaults,
           local' \in [Refs -> LocalRecord \cup {Nothing}],
           Registered(local', calendar', held')
    PROVE  BookingInv'
<1>1. /\ UNCHANGED <<inbox, saved, taken, now, events, dead, shown, told>>
      /\ proposals' = proposals /\ verified' = verified
      BY DEF AroundCall
<1>2. turn.conv \in Conversation /\ saved \in Conversation
      BY CalledFor
<1>3. /\ Sound(saved, calendar, held, proposals, told)
      /\ Sound(turn.conv, calendar, held, proposals, told)
      /\ Agree(saved, turn.conv) /\ Control(turn)
      BY DEF BookingInv, Running
<1>4. Agree(turn.conv, turn.conv)
      BY <1>3, SelfAgrees DEF Sound
<1>5. /\ Sound(saved, calendar', held', proposals, told)
      /\ Sound(turn.conv, calendar', held', proposals, told)
      BY <1>2, <1>3, <1>4 DEF StaysSound
<1>6. /\ turn' \in Turn /\ turn'.msg = turn.msg /\ turn'.conv = conv /\ turn'.say = say
      /\ turn'.drops = turn.drops /\ turn'.unresolved = u
      BY DEF IsTurn
<1>7. conv.rev = turn.conv.rev
      BY DEF CopyFrom
<1>8. Sound(conv, calendar', held', proposals, told)
      BY <1>2, <1>5, CopySound
<1>9. Agree(saved, conv)
      BY <1>2, <1>3, CopyAgrees
<1>10. proposals \in 0..MaxProposals /\ proposals >= proposals /\ verified \in Phones \cup {Nothing}
      BY DEF BookingInv, TypeOK
<1>11. conv.rev = saved.rev => Without(conv, dead \cup turn.drops)
      BY <1>2, <1>3, <1>7, CopyWithout DEF Control
<1>12. turn.drops \subseteq 1..proposals
      BY <1>3 DEF Control, Earlier
<1>13. Reported(turn', calendar', proposals)
      BY <1>6 DEF Reported
<1>14. Calling(turn', pc', held') /\ pc' \in Goes
      BY DEF Calling, Goes
<1>15. QED BY <1>1, <1>6, <1>7, <1>8, <1>5, <1>9, <1>10, <1>11, <1>12, <1>13, <1>14, TurnGoesOn

\* The document at x replaced by one that is still in order.
LEMMA RecordRegistered ==
    ASSUME local \in [Refs -> LocalRecord \cup {Nothing}], NEW cal, NEW had,
           Registered(local, cal, had), NEW x \in Refs, NEW r \in LocalRecord,
           cal[x] # Nothing, r.slot \in had[x], ~r.live => ~cal[x].live,
           NEW loc, loc = Put(local, x, r)
    PROVE  /\ loc \in [Refs -> LocalRecord \cup {Nothing}]
           /\ Registered(loc, cal, had)
<1>1. /\ loc \in [Refs -> LocalRecord \cup {Nothing}] /\ loc[x] = r
      /\ \A y \in Refs \ {x} : loc[y] = local[y]
      BY DEF Put
<1>2. QED BY <1>1 DEF Registered

LEMMA FaultBound ==
    ASSUME BookingInv, OneFault \/ UNCHANGED faults
    PROVE  faults' \in 0..MaxFaults
BY BookingAssumption DEF BookingInv, TypeOK, OneFault

\* The appointment exists, and its record is written unless that fails.
LEMMA BookingMadeKeeps ==
    ASSUME BookingInv, turn # Nothing, NEW x \in Refs, BookingMade(x)
    PROVE  BookingInv'
<1> DEFINE d == turn.conv.draft
           less == [turn.conv EXCEPT !.draft = Nothing]
           r == [slot |-> d.slot, live |-> TRUE]
<1>1. /\ pc = "creating" /\ Books(turn.conv.draft, x)
      /\ \/ local' = Put(local, x, r) /\ UNCHANGED faults
         \/ UNCHANGED local /\ OneFault
      /\ turn' = [turn EXCEPT !.conv = less, !.say = "booked", !.about = d.key]
      /\ pc' = "saving" /\ AroundCall
      BY Zenon DEF BookingMade, Conv, Goto, Put
<1>2. d \in Draft /\ turn \in Turn /\ turn.conv \in Conversation
      BY <1>1, CalledFor
<1>3. /\ Preserves(calendar', held')
      /\ \A c \in Conversation : Agree(c, turn.conv) => StaysSound(c, calendar', held')
      /\ (calendar')[x] # Nothing /\ d.slot \in (held')[x]
      BY <1>1, BookingPreserves
<1>4. local \in [Refs -> LocalRecord \cup {Nothing}] /\ Registered(local, calendar, held)
      BY DEF BookingInv, TypeOK
<1>5. Registered(local, calendar', held')
      BY <1>3, <1>4, StaysRegistered
<1>6. r \in LocalRecord /\ r.slot = d.slot /\ r.live
      BY <1>2 DEF LocalRecord, Draft
<1>7. CopyFrom(less, turn.conv) /\ less \in Conversation
      BY <1>2, Dropped, Zenon DEF CopyFrom
<1>8. "booked" \in Answers /\ d.key \in Proposals \cup {Nothing}
      BY <1>2 DEF Answers, Draft
<1> HIDE DEF r, less, d
<1>9. IsTurn(turn', turn, less, "booked", d.key, turn.drops, turn.unresolved, turn.b)
      BY <1>1, <1>2, <1>7, <1>8, TurnTells, Zenon
<1>10. /\ local' \in [Refs -> LocalRecord \cup {Nothing}]
       /\ Registered(local', calendar', held')
  <2>1. CASE local' = Put(local, x, r)
        BY <1>3, <1>4, <1>5, <1>6, <2>1, RecordRegistered
  <2>2. CASE UNCHANGED local
        BY <1>4, <1>5, <2>2
  <2>3. QED BY <1>1, <2>1, <2>2
<1>11. turn.unresolved /\ ~AnswersUnreadable => less.human
      BY <1>7 DEF CopyFrom, BookingInv, Running, Control
<1>12. faults' \in 0..MaxFaults
      BY <1>1, FaultBound
<1>13. "booked" \notin {"summary", "taken"} /\ pc' \in {"replying", "saving"}
      BY <1>1
<1>14. QED BY <1>1, <1>3, <1>7, <1>9, <1>10, <1>11, <1>12, <1>13, CallKeeps

\* Nobody learned what the calendar did: the conversation goes to staff.
LEMMA UnknownKeeps ==
    ASSUME BookingInv, turn # Nothing, Preserves(calendar', held'),
           \A c \in Conversation : Agree(c, turn.conv) => StaysSound(c, calendar', held'),
           NEW key \in Proposals, turn' = Unresolved(key),
           pc' = "replying", UNCHANGED local, AroundCall, OneFault \/ UNCHANGED faults
    PROVE  BookingInv'
<1> DEFINE conv == [turn.conv EXCEPT !.human = TRUE]
<1>1. turn \in Turn /\ turn.conv \in Conversation
      BY CalledFor
<1>2. /\ conv \in Conversation /\ conv.draft = turn.conv.draft /\ conv.change = turn.conv.change
      /\ conv.human = TRUE /\ conv.rev = turn.conv.rev
      BY <1>1, CopyHuman, Zenon
<1>3. turn' = [turn EXCEPT !.conv = conv, !.say = "unknown", !.about = key, !.unresolved = TRUE]
      BY DEF Unresolved
<1> HIDE DEF conv
<1>4. CopyFrom(conv, turn.conv)
      BY <1>2 DEF CopyFrom, DraftFrom
<1>5. "unknown" \in Answers /\ key \in Proposals \cup {Nothing} /\ TRUE \in BOOLEAN
      BY DEF Answers
<1>6. IsTurn(turn', turn, conv, "unknown", key, turn.drops, TRUE, turn.b)
  <2>1. \A u \in BOOLEAN :
            IsTurn([turn EXCEPT !.conv = conv, !.say = "unknown", !.about = key, !.unresolved = u],
                   turn, conv, "unknown", key, turn.drops, u, turn.b)
        BY <1>1, <1>2, <1>5, TurnUnresolved
  <2>2. QED BY <1>3, <1>5, <2>1, Zenon
<1>7. /\ local' \in [Refs -> LocalRecord \cup {Nothing}]
      /\ Registered(local', calendar', held')
      BY StaysRegistered DEF BookingInv, TypeOK
<1>8. faults' \in 0..MaxFaults
      BY FaultBound
<1>9. "unknown" \notin {"summary", "taken"} /\ pc' \in {"replying", "saving"}
      OBVIOUS
<1>10. TRUE /\ ~AnswersUnreadable => conv.human
      BY <1>2
<1>11. QED BY <1>4, <1>6, <1>7, <1>8, <1>9, <1>10, CallKeeps

LEMMA BookingUnknownKeeps ==
    ASSUME BookingInv, turn # Nothing, BookingUnknown
    PROVE  BookingInv'
<1>1. /\ pc = "creating" /\ MayHaveBooked(turn.conv.draft)
      /\ turn' = Unresolved(turn.conv.draft.key)
      /\ pc' = "replying" /\ UNCHANGED local /\ AroundCall
      /\ OneFault \/ UNCHANGED faults
      BY DEF BookingUnknown, Conv, Goto
<1>2. turn.conv.draft.key \in Proposals
      BY <1>1, CalledFor DEF Draft
<1>3. /\ Preserves(calendar', held')
      /\ \A c \in Conversation : Agree(c, turn.conv) => StaysSound(c, calendar', held')
  <2>1. CASE \E x \in Refs : Books(turn.conv.draft, x)
        BY <1>1, <2>1, BookingPreserves
  <2>2. CASE UNCHANGED <<calendar, held>>
        BY <2>2, IdlePreserves
  <2>3. QED BY <1>1, <2>1, <2>2 DEF MayHaveBooked
<1>4. QED BY <1>1, <1>2, <1>3, UnknownKeeps

\* An answer that cannot be read although the booking was made.
LEMMA BookingFailsKeeps ==
    ASSUME BookingInv, turn # Nothing, BookingFails
    PROVE  BookingInv'
<1>1. /\ pc = "creating" /\ OneFault /\ pc' = "replying" /\ UNCHANGED local /\ AroundCall
      BY DEF BookingFails, Goto
<1>2. CASE UNCHANGED <<calendar, held>> /\ turn' = [turn EXCEPT !.say = "other"]
      BY <1>1, <1>2, FailureKeeps
<1>3. CASE /\ AnswersUnreadable
           /\ \E x \in Refs : Books(turn.conv.draft, x)
           /\ turn' = [turn EXCEPT !.say = "other", !.unresolved = TRUE]
  <2>1. /\ Preserves(calendar', held')
        /\ \A c \in Conversation : Agree(c, turn.conv) => StaysSound(c, calendar', held')
        BY <1>1, <1>3, BookingPreserves
  <2>2. turn \in Turn /\ turn.conv \in Conversation /\ "other" \in Answers /\ TRUE \in BOOLEAN
        BY CalledFor DEF Answers
  <2>3. CopyFrom(turn.conv, turn.conv)
        BY <2>2, SelfCopy
  <2>4. IsTurn(turn', turn, turn.conv, "other", turn.about, turn.drops, TRUE, turn.b)
    <3>1. turn.about \in Proposals \cup {Nothing}
          BY <2>2 DEF Turn
    <3>2. \A u \in BOOLEAN :
              IsTurn([turn EXCEPT !.say = "other", !.unresolved = u],
                     turn, turn.conv, "other", turn.about, turn.drops, u, turn.b)
          BY <2>2, <3>1, TurnUnresolved
    <3>3. QED BY <1>3, <2>2, <3>2, Zenon
  <2>5. /\ local' \in [Refs -> LocalRecord \cup {Nothing}]
        /\ Registered(local', calendar', held')
        BY <1>1, <2>1, StaysRegistered DEF BookingInv, TypeOK
  <2>6. faults' \in 0..MaxFaults
        BY <1>1, FaultBound
  <2>7. "other" \notin {"summary", "taken"} /\ pc' \in {"replying", "saving"}
        BY <1>1
  <2>8. TRUE /\ ~AnswersUnreadable => turn.conv.human
        BY <1>3
  <2>9. QED BY <1>1, <2>1, <2>3, <2>4, <2>5, <2>6, <2>7, <2>8, CallKeeps
<1>4. QED BY <1>2, <1>3 DEF BookingFails, Conv

\* The appointment is cancelled or moved, and its record follows unless that fails.
LEMMA ChangeMadeKeeps ==
    ASSUME BookingInv, turn # Nothing, ChangeMade
    PROVE  BookingInv'
<1> DEFINE g == turn.conv.change
           less == [turn.conv EXCEPT !.change = Nothing]
           r == ChangedRecord(g)
<1>1. /\ pc = "changing" /\ Changes(g)
      /\ \/ local' = Put(local, g.ref, r) /\ UNCHANGED faults
         \/ UNCHANGED local /\ OneFault
      /\ turn' = [turn EXCEPT !.conv = less, !.say = "changed", !.about = g.key]
      /\ pc' = "saving" /\ AroundCall
      BY Zenon DEF ChangeMade, Conv, Goto, Put
<1>2. /\ g \in Change /\ turn \in Turn /\ turn.conv \in Conversation
      /\ turn.b \in held[g.ref] /\ SoundChange(g, calendar, proposals, told)
      BY <1>1, CalledFor
<1>3. /\ Preserves(calendar', held')
      /\ \A c \in Conversation : Agree(c, turn.conv) => StaysSound(c, calendar', held')
      /\ g.kind = "move" => g.to \in (held')[g.ref]
      /\ g.kind = "cancel" => ~(calendar')[g.ref].live
      BY <1>1, ChangingPreserves
<1>4. local \in [Refs -> LocalRecord \cup {Nothing}] /\ Registered(local, calendar, held)
      BY DEF BookingInv, TypeOK
<1>5. Registered(local, calendar', held')
      BY <1>3, <1>4, StaysRegistered
<1>6. g.ref \in Refs /\ (calendar')[g.ref] # Nothing /\ g.kind \in {"cancel", "move"}
      BY <1>2, <1>3 DEF Preserves, SoundChange, Change
<1>7. r.slot \in (held')[g.ref] /\ (~r.live => ~(calendar')[g.ref].live)
      BY <1>2, <1>3, <1>6 DEF ChangedRecord, Preserves
<1>8. r \in LocalRecord
  <2>1. (held')[g.ref] \subseteq Slots
        BY <1>3, <1>6 DEF Preserves
  <2>2. r = [slot |-> r.slot, live |-> r.live] /\ r.live \in BOOLEAN
        BY DEF ChangedRecord
  <2>3. QED BY <1>7, <2>1, <2>2 DEF LocalRecord
<1>9. CopyFrom(less, turn.conv) /\ less \in Conversation
      BY <1>2, Dropped, Zenon DEF CopyFrom
<1>10. "changed" \in Answers /\ g.key \in Proposals \cup {Nothing}
      BY <1>2 DEF Answers, Change
<1> HIDE DEF r, less, g
<1>11. IsTurn(turn', turn, less, "changed", g.key, turn.drops, turn.unresolved, turn.b)
      BY <1>1, <1>2, <1>9, <1>10, TurnTells, Zenon
<1>12. /\ local' \in [Refs -> LocalRecord \cup {Nothing}]
       /\ Registered(local', calendar', held')
  <2>1. CASE local' = Put(local, g.ref, r)
        BY <1>3, <1>4, <1>5, <1>6, <1>7, <1>8, <2>1, RecordRegistered
  <2>2. CASE UNCHANGED local
        BY <1>4, <1>5, <2>2
  <2>3. QED BY <1>1, <2>1, <2>2
<1>13. turn.unresolved /\ ~AnswersUnreadable => less.human
      BY <1>9 DEF CopyFrom, BookingInv, Running, Control
<1>14. faults' \in 0..MaxFaults
      BY <1>1, FaultBound
<1>15. "changed" \notin {"summary", "taken"} /\ pc' \in {"replying", "saving"}
      BY <1>1
<1>16. QED BY <1>1, <1>3, <1>9, <1>11, <1>12, <1>13, <1>14, <1>15, CallKeeps

LEMMA ChangeUnknownKeeps ==
    ASSUME BookingInv, turn # Nothing, ChangeUnknown
    PROVE  BookingInv'
<1>1. /\ pc = "changing"
      /\ Changes(turn.conv.change) \/ UNCHANGED <<calendar, held>>
      /\ turn' = Unresolved(turn.conv.change.key)
      /\ pc' = "replying" /\ UNCHANGED local /\ AroundCall
      /\ OneFault \/ UNCHANGED faults
      BY DEF ChangeUnknown, Conv, Goto
<1>2. turn.conv.change.key \in Proposals
      BY <1>1, CalledFor DEF Change
<1>3. /\ Preserves(calendar', held')
      /\ \A c \in Conversation : Agree(c, turn.conv) => StaysSound(c, calendar', held')
      BY <1>1, ChangingPreserves, IdlePreserves
<1>4. QED BY <1>1, <1>2, <1>3, UnknownKeeps

-----------------------------------------------------------------------------
(* The end of a turn.                                                      *)

LEMMA SaveTurnKeeps ==
    ASSUME BookingInv, turn # Nothing, SaveTurn
    PROVE  BookingInv'
<1>1. /\ saved.rev = turn.conv.rev /\ saved' = turn.conv /\ dead' = dead \cup turn.drops
      /\ pc' = "sending"
      /\ UNCHANGED <<status, text, latest, local, verified, calendar, taken, turn, now,
                     proposals, faults, events, shown, told, held>>
      BY DEF SaveTurn, MaySave, Store, Goto, Conv, inbox, world, bounds
<1>2. turn \in Turn /\ turn.conv \in Conversation
      BY CalledFor
<1>3. /\ Sound(turn.conv, calendar, held, proposals, told)
      /\ Reported(turn, calendar, proposals) /\ Control(turn)
      BY DEF BookingInv, Running
<1>4. /\ saved.rev <= events /\ dead \subseteq Earlier /\ told \subseteq Earlier
      /\ Entered(calendar, held, proposals, told) /\ Registered(local, calendar, held)
      BY DEF BookingInv
<1>5. dead \cup turn.drops \subseteq Earlier /\ Without(turn.conv, dead \cup turn.drops)
      BY <1>1, <1>3, <1>4 DEF Control
<1>6. Agree(turn.conv, turn.conv)
      BY <1>3, SelfAgrees DEF Sound
<1>7. TypeOK'
  <2>1. TypeOK
        BY DEF BookingInv
  <2>2. dead' \subseteq Proposals /\ saved' \in Conversation /\ pc' \in Steps /\ pc' # "idle"
        BY <1>1, <1>2, <2>1 DEF Turn, TypeOK, Steps
  <2>3. QED BY <1>1, <2>1, <2>2 DEF TypeOK
<1>8. Control(turn)'
  <2>1. dead \cup turn.drops \cup turn.drops = dead \cup turn.drops
        OBVIOUS
  <2>2. turn.conv.rev \in 0..MaxEvents
        BY <1>2 DEF Conversation
  <2>3. QED BY <1>1, <1>3, <1>5, <2>1, <2>2 DEF Control, Earlier
<1>9. Running(turn)'
  <2>1. Calling(turn, "sending", held)
        BY DEF Calling
  <2>2. QED BY <1>1, <1>3, <1>6, <1>8, <2>1 DEF Running
<1>10. QED BY <1>1, <1>3, <1>4, <1>5, <1>7, <1>9 DEF BookingInv, Earlier

\* A message whose turn is over.
LEMMA Ended ==
    ASSUME BookingInv, turn # Nothing, NEW outcome \in {"handled", "failed"}, Ends(outcome)
    PROVE  /\ status' \in [Messages -> {"unsent", "waiting", "failed", "handled"}]
           /\ text' \in [Messages -> Texts \cup {Nothing}]
           /\ pc' = "idle" /\ turn' = Nothing
           /\ UNCHANGED <<latest, verified, taken, now, proposals, events>>
BY CalledFor DEF Ends, BookingInv, TypeOK

\* What a turn leaves behind in the conversation: what it found, or its copy.
LeavesConversation ==
    \/ MaySave /\ Store
    \/ UNCHANGED <<saved, dead>>

LEMMA LeftInOrder ==
    ASSUME BookingInv, turn # Nothing, LeavesConversation
    PROVE  /\ saved' \in Conversation /\ saved'.rev = saved.rev
           /\ saved' = saved \/ saved' = turn.conv
           /\ dead' \subseteq Earlier /\ Without(saved', dead')
           /\ Agree(saved', turn.conv)
<1>1. turn \in Turn /\ turn.conv \in Conversation /\ saved \in Conversation
      BY CalledFor
<1>2. /\ Sound(turn.conv, calendar, held, proposals, told) /\ Control(turn)
      /\ dead \subseteq Earlier /\ Without(saved, dead) /\ Agree(saved, turn.conv)
      BY DEF BookingInv, Running
<1>3. CASE MaySave /\ Store
  <2>1. /\ saved.rev = turn.conv.rev /\ saved' = turn.conv /\ dead' = dead \cup turn.drops
        BY <1>3 DEF MaySave, Store, Conv
  <2>2. Agree(turn.conv, turn.conv)
        BY <1>2, SelfAgrees DEF Sound
  <2>3. QED BY <1>1, <1>2, <2>1, <2>2 DEF Control
<1>4. CASE UNCHANGED <<saved, dead>>
      BY <1>1, <1>2, <1>4
<1>5. QED BY <1>3, <1>4 DEF LeavesConversation

\* A turn that ends, whatever it saved and whatever became of its last call.
LEMMA EndKeeps ==
    ASSUME BookingInv, turn # Nothing, NEW outcome \in {"handled", "failed"}, Ends(outcome),
           LeavesConversation, faults' \in 0..MaxFaults, Preserves(calendar', held'),
           \A c \in Conversation : Agree(c, turn.conv) => StaysSound(c, calendar', held'),
           UNCHANGED <<local, shown, told>>
    PROVE  BookingInv'
<1>1. /\ status' \in [Messages -> {"unsent", "waiting", "failed", "handled"}]
      /\ text' \in [Messages -> Texts \cup {Nothing}]
      /\ pc' = "idle" /\ turn' = Nothing
      /\ UNCHANGED <<latest, verified, taken, now, proposals, events>>
      BY Ended
<1>2. /\ saved' \in Conversation /\ saved'.rev = saved.rev
      /\ saved' = saved \/ saved' = turn.conv
      /\ dead' \subseteq Earlier /\ Without(saved', dead') /\ Agree(saved', turn.conv)
      BY LeftInOrder
<1>3. /\ Sound(turn.conv, calendar, held, proposals, told)
      /\ Sound(saved, calendar, held, proposals, told)
      /\ saved.rev <= events /\ told \subseteq Earlier /\ Registered(local, calendar, held)
      BY DEF BookingInv, Running
<1>4. Sound(saved', calendar', held', proposals, told)
      BY <1>2, <1>3 DEF StaysSound
<1>5. Registered(local, calendar', held')
      BY <1>3, StaysRegistered
<1>6. Entered(calendar', held', proposals, told)
      BY DEF Preserves
<1>7. TypeOK'
  <2>1. TypeOK
        BY DEF BookingInv
  <2>2. dead' \subseteq Proposals
        BY <1>2, <2>1, BookingAssumption DEF TypeOK, Earlier, Proposals
  <2>3. calendar' \in [Refs -> Appointment \cup {Nothing}] /\ held' \in [Refs -> SUBSET Slots]
        BY DEF Preserves
  <2>4. pc' \in Steps
        BY <1>1 DEF Steps
  <2>5. QED BY <1>1, <1>2, <2>1, <2>2, <2>3, <2>4 DEF TypeOK
<1>8. QED BY <1>1, <1>2, <1>3, <1>4, <1>5, <1>6, <1>7 DEF BookingInv, Earlier

LEMMA UndisturbedKeeps ==
    ASSUME BookingInv, turn # Nothing, NEW outcome \in {"handled", "failed"}, Ends(outcome),
           LeavesConversation, OneFault \/ UNCHANGED faults, Undisturbed,
           UNCHANGED <<shown, told>>
    PROVE  BookingInv'
<1>1. calendar' = calendar /\ held' = held /\ UNCHANGED <<local, shown, told>>
      BY DEF Undisturbed
<1>2. /\ Preserves(calendar', held')
      /\ \A c \in Conversation : StaysSound(c, calendar', held')
      BY <1>1, IdlePreserves
<1>3. faults' \in 0..MaxFaults
      BY FaultBound
<1>4. QED BY <1>1, <1>2, <1>3, EndKeeps

LEMMA StaffAnsweredKeeps ==
    ASSUME BookingInv, turn # Nothing, StaffAnswered
    PROVE  BookingInv'
<1>1. LeavesConversation
      BY DEF StaffAnswered, LeavesConversation
<1>2. QED BY <1>1, UndisturbedKeeps DEF StaffAnswered

LEMMA FoldKeeps ==
    ASSUME BookingInv, turn # Nothing, Fold
    PROVE  BookingInv'
<1>1. LeavesConversation /\ (OneFault \/ UNCHANGED faults)
      BY DEF Fold, LeavesConversation
<1>2. QED BY <1>1, UndisturbedKeeps DEF Fold

\* A call fails or the process stops, with or without the call's effect.
LEMMA TurnFailsKeeps ==
    ASSUME BookingInv, turn # Nothing, TurnFails
    PROVE  BookingInv'
<1>1. /\ OneFault /\ Ends("failed") /\ UNCHANGED <<local, shown, told>>
      /\ LeavesConversation
      BY DEF TurnFails, LeavesConversation
<1>2. \/ pc = "creating" /\ \E x \in Refs : Books(turn.conv.draft, x)
      \/ pc = "changing" /\ Changes(turn.conv.change)
      \/ UNCHANGED <<calendar, held>>
      BY DEF TurnFails, Conv
<1>3. /\ Preserves(calendar', held')
      /\ \A c \in Conversation : Agree(c, turn.conv) => StaysSound(c, calendar', held')
  <2>1. CASE pc = "creating" /\ \E x \in Refs : Books(turn.conv.draft, x)
        BY <2>1, BookingPreserves
  <2>2. CASE pc = "changing" /\ Changes(turn.conv.change)
        BY <2>2, ChangingPreserves
  <2>3. CASE UNCHANGED <<calendar, held>>
        BY <2>3, IdlePreserves
  <2>4. QED BY <1>2, <2>1, <2>2, <2>3
<1>4. faults' \in 0..MaxFaults
      BY <1>1, FaultBound
<1>5. QED BY <1>1, <1>3, <1>4, EndKeeps

\* How many messages the customer had sent, while one of them is handled.
LEMMA SentCount ==
    ASSUME BookingInv, turn # Nothing
    PROVE  Cardinality({m \in Messages : status[m] # "unsent"}) \in Messages
<1> DEFINE S == {m \in Messages : status[m] # "unsent"}
<1>1. MaxMessages \in Nat
      BY BookingAssumption
<1>2. IsFiniteSet(Messages) /\ Cardinality(Messages) = IF 1 > MaxMessages THEN 0 ELSE MaxMessages - 1 + 1
      BY <1>1, FS_Interval DEF Messages
<1>3. S \subseteq Messages
      OBVIOUS
<1>4. IsFiniteSet(S) /\ Cardinality(S) <= Cardinality(Messages)
      BY <1>2, <1>3, FS_Subset
<1>5. turn.msg \in S
      BY CalledFor DEF BookingInv, Running, Control
<1>6. Cardinality(S) \in Nat /\ Cardinality(S) # 0
      BY <1>4, <1>5, FS_CardinalityType, FS_EmptySet
<1>7. MaxMessages >= 1
      BY <1>1, <1>5 DEF Messages
<1> HIDE DEF S
<1>8. Cardinality(S) \in Messages
      BY <1>1, <1>2, <1>4, <1>6, <1>7 DEF Messages
<1>9. QED BY <1>8 DEF S

\* The answer reached the customer, or perhaps it did.
LEMMA DeliveredKeeps ==
    ASSUME BookingInv, turn # Nothing, MaySend, Delivered \/ UNCHANGED <<shown, told>>,
           NEW outcome \in {"handled", "failed"}, Ends(outcome),
           Undisturbed, UNCHANGED <<saved, dead>>, OneFault \/ UNCHANGED faults
    PROVE  BookingInv'
<1>1. /\ status' \in [Messages -> {"unsent", "waiting", "failed", "handled"}]
      /\ text' \in [Messages -> Texts \cup {Nothing}]
      /\ pc' = "idle" /\ turn' = Nothing
      /\ UNCHANGED <<latest, verified, taken, now, proposals, events>>
      BY Ended
<1>2. calendar' = calendar /\ held' = held /\ local' = local /\ saved' = saved /\ dead' = dead
      BY DEF Undisturbed
<1>3. saved = turn.conv
      BY DEF MaySend, MaySave, Conv, BookingInv, Running, Control
<1>4. /\ Sound(saved, calendar, held, proposals, told)
      /\ Entered(calendar, held, proposals, told)
      /\ Reported(turn, calendar, proposals)
      /\ saved.rev <= events /\ dead \subseteq Earlier /\ told \subseteq Earlier
      /\ Without(saved, dead) /\ Registered(local, calendar, held)
      BY DEF BookingInv, Running
<1>5. told' = told \/ (turn.say = "taken" /\ told' = told \cup {turn.about})
      BY DEF Delivered
<1>6. told' \subseteq Earlier
      BY <1>4, <1>5 DEF Reported, Earlier
<1>7. Entered(calendar, held, proposals, told')
      BY <1>4, <1>5 DEF Entered, Reported
<1>8. Sound(saved, calendar, held, proposals, told')
  <2>1. CASE told' = told
        BY <1>4, <2>1
  <2>2. CASE turn.say = "taken" /\ told' = told \cup {turn.about}
    <3>1. saved.draft = Nothing /\ (saved.change # Nothing => saved.change.key # turn.about)
          BY <1>3, <1>4, <2>2 DEF Reported
    <3>2. QED BY <1>4, <2>2, <3>1 DEF Sound, SoundChange
  <2>3. QED BY <1>5, <2>1, <2>2
<1>9. shown' \in [Proposals -> Messages \cup {Nothing}]
  <2>1. shown \in [Proposals -> Messages \cup {Nothing}]
        BY DEF BookingInv, TypeOK
  <2> DEFINE k == Cardinality({m \in Messages : status[m] # "unsent"})
  <2>2. k \in Messages
        BY SentCount
  <2>3. shown' = shown \/ shown' = [shown EXCEPT ![turn.about] = k]
        BY DEF Delivered
  <2> HIDE DEF k
  <2>4. QED BY <2>1, <2>2, <2>3
<1>10. faults' \in 0..MaxFaults
      BY FaultBound
<1>11. TypeOK'
  <2>1. TypeOK
        BY DEF BookingInv
  <2>2. told' \subseteq Proposals
        BY <1>6, <2>1, BookingAssumption DEF TypeOK, Earlier, Proposals
  <2>3. pc' \in Steps
        BY <1>1 DEF Steps
  <2>4. QED BY <1>1, <1>2, <1>9, <1>10, <2>1, <2>2, <2>3 DEF TypeOK
<1>12. QED BY <1>1, <1>2, <1>4, <1>6, <1>7, <1>8, <1>11 DEF BookingInv, Earlier

LEMMA SendKeeps ==
    ASSUME BookingInv, turn # Nothing, Send
    PROVE  BookingInv'
BY DeliveredKeeps DEF Send

LEMMA SendFailsKeeps ==
    ASSUME BookingInv, turn # Nothing, SendFails
    PROVE  BookingInv'
BY DeliveredKeeps DEF SendFails

-----------------------------------------------------------------------------
(* What happens around the turn.                                           *)

\* A turn that is as it was, or superseded: nothing else about it changed.
SameTurn ==
    \/ turn' = turn
    \/ /\ turn # Nothing
       /\ IsTurn(turn', turn, turn.conv, turn.say, turn.about, turn.drops, turn.unresolved, turn.b)

LEMMA Superseded ==
    ASSUME BookingInv, SupersedesTurn \/ UNCHANGED turn
    PROVE  SameTurn
<1>1. CASE turn = Nothing \/ UNCHANGED turn
      BY <1>1 DEF SupersedesTurn, SameTurn
<1>2. CASE turn # Nothing /\ SupersedesTurn
  <2>1. turn' = [turn EXCEPT !.cancelled = TRUE]
        BY <1>2 DEF SupersedesTurn
  <2>2. turn \in Turn /\ TRUE \in BOOLEAN /\ 0 \in 0..MaxTools
        BY <1>2, CalledFor, BookingAssumption
  <2>3. IsTurn(turn', turn, turn.conv, turn.say, turn.about, turn.drops, turn.unresolved, turn.b)
        BY <2>1, <2>2, TurnBounds, Zenon
  <2>4. QED BY <1>2, <2>3 DEF SameTurn
<1>3. QED BY <1>1, <1>2

\* Messages, the clock and the bounds do not matter to the rest.
LEMMA AroundKeeps ==
    ASSUME BookingInv, SameTurn, UNCHANGED <<saved, calendar, local, pc, proposals, history>>,
           status' \in [Messages -> {"unsent", "waiting", "failed", "handled"}],
           \A m \in Messages : status[m] = "waiting" => (status')[m] = "waiting",
           text' \in [Messages -> Texts \cup {Nothing}], latest' \in 0..MaxMessages,
           verified' \in Phones \cup {Nothing}, taken' \subseteq Slots,
           now' \in 0..Horizon, faults' \in 0..MaxFaults,
           events' \in 0..MaxEvents, events' >= events
    PROVE  BookingInv'
<1>1. /\ saved' = saved /\ calendar' = calendar /\ local' = local /\ pc' = pc
      /\ proposals' = proposals /\ dead' = dead /\ shown' = shown /\ told' = told /\ held' = held
      BY DEF history
<1>2. /\ (turn' = Nothing) = (turn = Nothing) /\ turn' \in Turn \cup {Nothing}
      BY NothingIsNoDocument DEF SameTurn, IsTurn, BookingInv, TypeOK
<1>3. TypeOK'
  <2>1. TypeOK
        BY DEF BookingInv
  <2>2. QED BY <1>1, <1>2, <2>1 DEF TypeOK
<1>4. saved.rev <= events'
  <2>1. saved.rev \in Nat /\ events \in Nat /\ events' \in Nat /\ saved.rev <= events
        BY BookingAssumption DEF BookingInv, TypeOK, Conversation
  <2>2. QED BY <2>1
<1>5. ASSUME turn' # Nothing
      PROVE  Running(turn)'
  <2>1. turn # Nothing
        BY <1>2, <1>5
  <2>2. /\ Running(turn) /\ turn \in Turn /\ turn.msg \in Messages
        BY <2>1, CalledFor DEF BookingInv
  <2>3. /\ turn'.msg = turn.msg /\ turn'.conv = turn.conv /\ turn'.say = turn.say
        /\ turn'.about = turn.about /\ turn'.drops = turn.drops
        /\ turn'.unresolved = turn.unresolved /\ turn'.b = turn.b
        BY DEF SameTurn, IsTurn
  <2>4. Reported(turn', calendar, proposals) /\ Calling(turn', pc, held)
        BY <2>2, <2>3 DEF Running, Reported, Calling
  <2>5. Control(turn)'
        BY <1>1, <2>2, <2>3 DEF Running, Control, Earlier
  <2>6. QED BY <1>1, <2>2, <2>3, <2>4, <2>5 DEF Running
<1>6. QED BY <1>1, <1>3, <1>4, <1>5 DEF BookingInv, Earlier

LEMMA ArriveKeeps ==
    ASSUME BookingInv, NEW m \in Messages, NEW t \in Texts, Arrive(m, t)
    PROVE  BookingInv'
<1>1. SameTurn
      BY Superseded DEF Arrive
<1>2. UNCHANGED <<saved, calendar, local, pc, proposals, history, verified, taken, now, faults, events>>
      BY DEF Arrive, world, bounds
<1>3. TypeOK
      BY DEF BookingInv
<1>4. /\ status' = [status EXCEPT ![m] = "waiting"] /\ text' = [text EXCEPT ![m] = t] /\ latest' = m
      BY DEF Arrive
<1>5. /\ status' \in [Messages -> {"unsent", "waiting", "failed", "handled"}]
      /\ \A x \in Messages : status[x] = "waiting" => (status')[x] = "waiting"
      /\ text' \in [Messages -> Texts \cup {Nothing}] /\ latest' \in 0..MaxMessages
      BY <1>3, <1>4 DEF TypeOK, Messages
<1>6. /\ verified' \in Phones \cup {Nothing} /\ taken' \subseteq Slots
      /\ now' \in 0..Horizon /\ faults' \in 0..MaxFaults
      /\ events' \in 0..MaxEvents /\ events' >= events
      BY <1>2, <1>3, BookingAssumption DEF TypeOK
<1>7. QED BY <1>1, <1>2, <1>5, <1>6, AroundKeeps

LEMMA RedeliverKeeps ==
    ASSUME BookingInv, NEW m \in Messages, Redeliver(m)
    PROVE  BookingInv'
<1>1. SameTurn
      BY Superseded DEF Redeliver
<1>2. UNCHANGED <<text, saved, calendar, local, pc, proposals, history, verified, taken, now, faults, events>>
      BY DEF Redeliver, world, bounds
<1>3. TypeOK
      BY DEF BookingInv
<1>4. /\ status' = [status EXCEPT ![m] = "waiting"] /\ latest' = m
      BY DEF Redeliver
<1>5. /\ status' \in [Messages -> {"unsent", "waiting", "failed", "handled"}]
      /\ \A x \in Messages : status[x] = "waiting" => (status')[x] = "waiting"
      /\ text' \in [Messages -> Texts \cup {Nothing}] /\ latest' \in 0..MaxMessages
      BY <1>2, <1>3, <1>4 DEF TypeOK, Messages
<1>6. /\ verified' \in Phones \cup {Nothing} /\ taken' \subseteq Slots
      /\ now' \in 0..Horizon /\ faults' \in 0..MaxFaults
      /\ events' \in 0..MaxEvents /\ events' >= events
      BY <1>2, <1>3, BookingAssumption DEF TypeOK
<1>7. QED BY <1>1, <1>2, <1>5, <1>6, AroundKeeps

LEMMA OneMoreEvent ==
    ASSUME BookingInv, OneEvent
    PROVE  events \in Nat /\ events' = events + 1 /\ events' \in 0..MaxEvents /\ events' >= events
BY BookingAssumption DEF BookingInv, TypeOK, OneEvent

\* The clock, the contact and other customers.
LEMMA OutsideKeeps ==
    ASSUME BookingInv,
           \/ Tick
           \/ \E p \in Phones : ShareContact(p)
           \/ \E s \in Slots : OthersTake(s)
    PROVE  BookingInv'
<1>1. TypeOK
      BY DEF BookingInv
<1>2. /\ UNCHANGED <<saved, calendar, local, pc, proposals, history, inbox, turn, faults>>
      /\ verified' \in Phones \cup {Nothing} /\ taken' \subseteq Slots
      /\ now' \in 0..Horizon /\ events' \in 0..MaxEvents /\ events' >= events
  <2>1. CASE Tick
        BY <1>1, <2>1, BookingAssumption DEF Tick, TypeOK, world, bounds
  <2>2. ASSUME NEW p \in Phones, ShareContact(p)
        PROVE  /\ UNCHANGED <<saved, calendar, local, pc, proposals, history, inbox, turn, faults>>
               /\ verified' \in Phones \cup {Nothing} /\ taken' \subseteq Slots
               /\ now' \in 0..Horizon /\ events' \in 0..MaxEvents /\ events' >= events
        BY <1>1, <2>2, OneMoreEvent DEF ShareContact, TypeOK, world
  <2>3. ASSUME NEW s \in Slots, OthersTake(s)
        PROVE  /\ UNCHANGED <<saved, calendar, local, pc, proposals, history, inbox, turn, faults>>
               /\ verified' \in Phones \cup {Nothing} /\ taken' \subseteq Slots
               /\ now' \in 0..Horizon /\ events' \in 0..MaxEvents /\ events' >= events
        BY <1>1, <2>3, OneMoreEvent DEF OthersTake, TypeOK
  <2>4. QED BY <2>1, <2>2, <2>3
<1>3. /\ status' = status /\ text' = text /\ latest' = latest /\ faults' = faults /\ SameTurn
      BY <1>2 DEF inbox, SameTurn
<1>4. /\ status' \in [Messages -> {"unsent", "waiting", "failed", "handled"}]
      /\ \A m \in Messages : status[m] = "waiting" => (status')[m] = "waiting"
      /\ text' \in [Messages -> Texts \cup {Nothing}] /\ latest' \in 0..MaxMessages
      /\ faults' \in 0..MaxFaults
      BY <1>1, <1>3 DEF TypeOK
<1>5. QED BY <1>2, <1>3, <1>4, AroundKeeps

\* The conversation as it is opened: its own, or stripped for a new owner.
LEMMA OpenedInOrder ==
    ASSUME BookingInv
    PROVE  /\ Opened \in Conversation /\ Opened.rev = saved.rev
           /\ Sound(Opened, calendar, held, proposals, told) /\ Without(Opened, dead)
           /\ Agree(Opened, Opened)
<1>1. CopyFrom(Opened, saved) /\ Opened \in Conversation /\ saved \in Conversation
      BY OpenedCopy DEF BookingInv, TypeOK
<1>2. Sound(saved, calendar, held, proposals, told) /\ Without(saved, dead)
      BY DEF BookingInv
<1>3. Sound(Opened, calendar, held, proposals, told) /\ Without(Opened, dead)
      BY <1>1, <1>2, CopySound, CopyWithout
<1>4. QED BY <1>1, <1>3, SelfAgrees DEF CopyFrom, Sound

LEMMA LeaveOrFoldKeeps ==
    ASSUME BookingInv, NEW m \in Messages, LeaveOrFold(m)
    PROVE  BookingInv'
<1>1. /\ pc = "idle" /\ saved' = Opened
      /\ status' = [status EXCEPT ![m] = "handled"] /\ text' = [text EXCEPT ![m] = Nothing]
      /\ UNCHANGED <<latest, local, verified, calendar, taken, pc, turn, now,
                     proposals, faults, events, dead, shown, told, held>>
      BY DEF LeaveOrFold, Opening, world, bounds, history
<1>2. TypeOK
      BY DEF BookingInv
<1>3. turn = Nothing
      BY <1>1, <1>2 DEF TypeOK
<1>4. /\ status' \in [Messages -> {"unsent", "waiting", "failed", "handled"}]
      /\ text' \in [Messages -> Texts \cup {Nothing}]
      BY <1>1, <1>2 DEF TypeOK
<1>5. TypeOK'
      BY <1>1, <1>2, <1>4, OpenedInOrder DEF TypeOK
<1>6. QED BY <1>1, <1>3, <1>5, OpenedInOrder DEF BookingInv, Earlier

LEMMA OpenTurnKeeps ==
    ASSUME BookingInv, NEW m \in Messages, OpenTurn(m)
    PROVE  BookingInv'
<1>1. /\ pc = "idle" /\ status[m] = "waiting" /\ saved' = Opened
      /\ turn' = [msg |-> m, conv |-> Opened, phone |-> verified, cancelled |-> FALSE,
                  tools |-> 0, attempted |-> FALSE, say |-> "other", about |-> Nothing,
                  unresolved |-> FALSE, b |-> Nothing, drops |-> {}]
      /\ pc' = "reading"
      /\ UNCHANGED <<status, text, latest, local, verified, calendar, taken, now,
                     proposals, faults, events, dead, shown, told, held>>
      BY DEF OpenTurn, Opening, Goto, inbox, world, bounds, history
<1>2. TypeOK
      BY DEF BookingInv
<1>3. /\ Opened \in Conversation /\ Opened.rev = saved.rev
      /\ Sound(Opened, calendar, held, proposals, told) /\ Without(Opened, dead)
      /\ Agree(Opened, Opened)
      BY OpenedInOrder
<1>4. verified \in Phones \cup {Nothing} /\ 0 \in 0..MaxTools /\ "other" \in Answers
      BY <1>2, BookingAssumption DEF TypeOK, Answers
<1>5. /\ turn' \in Turn /\ turn'.msg = m /\ turn'.conv = Opened /\ turn'.say = "other"
      /\ turn'.drops = {} /\ turn'.unresolved = FALSE
  <2>1. turn' \in Turn
        BY <1>1, <1>3, <1>4 DEF Turn
  <2>2. QED BY <1>1, <2>1
<1>6. turn' # Nothing /\ ~turn'.unresolved
      BY <1>5, NothingIsNoDocument
<1>7. TypeOK'
  <2>1. pc' \in Steps /\ pc' # "idle"
        BY <1>1 DEF Steps
  <2> HIDE DEF Turn
  <2>2. /\ saved' \in Conversation /\ turn' \in Turn \cup {Nothing} /\ turn' # Nothing
        BY <1>1, <1>3, <1>5, <1>6
  <2>3. UNCHANGED <<status, text, latest, local, verified, calendar, taken, now,
                    proposals, faults, events, dead, shown, told, held>>
        BY <1>1
  <2>4. QED BY <1>2, <2>1, <2>2, <2>3 DEF TypeOK
<1>8. Control(turn)'
  <2>1. Opened.rev \in 0..MaxEvents /\ dead \cup {} = dead
        BY <1>3 DEF Conversation
  <2>2. saved' = Opened /\ status' = status /\ dead' = dead /\ proposals' = proposals /\ pc' # "sending"
        BY <1>1
  <2>3. status[m] = "waiting"
        BY <1>1
  <2>4. QED BY <1>3, <1>5, <1>6, <2>1, <2>2, <2>3 DEF Control, Earlier
<1>9. Running(turn)'
  <2>1. Reported(turn', calendar, proposals)
        BY <1>5 DEF Reported
  <2>2. Calling(turn', "reading", held)
        BY DEF Calling
  <2>3. /\ saved' = Opened /\ pc' = "reading" /\ calendar' = calendar /\ held' = held
        /\ proposals' = proposals /\ told' = told
        BY <1>1
  <2>4. QED BY <1>3, <1>5, <1>8, <2>1, <2>2, <2>3 DEF Running
<1>10. /\ saved' = Opened /\ calendar' = calendar /\ held' = held /\ local' = local
       /\ proposals' = proposals /\ told' = told /\ dead' = dead /\ events' = events
      BY <1>1
<1>11. QED BY <1>3, <1>7, <1>9, <1>10 DEF BookingInv, Earlier

\* A colleague answers: whatever the running turn holds can no longer be saved.
LEMMA StaffReplyKeeps ==
    ASSUME BookingInv, StaffReply
    PROVE  BookingInv'
<1> DEFINE n == [saved EXCEPT !.human = TRUE, !.rev = saved.rev + 1,
                              !.draft = Nothing, !.change = Nothing]
<1>1. /\ saved' = n /\ dead' = dead \cup Earlier
      /\ UNCHANGED <<status, text, latest, local, verified, calendar, taken, pc, turn, now,
                     proposals, faults, shown, told, held>>
      BY DEF StaffReply, inbox, world
<1>2. TypeOK /\ saved.rev <= events /\ saved \in Conversation
      BY DEF BookingInv, TypeOK
<1>3. events \in Nat /\ events' = events + 1 /\ events' \in 0..MaxEvents
      BY OneMoreEvent DEF StaffReply
<1>4. saved.rev \in Nat /\ saved.rev + 1 \in 0..MaxEvents /\ saved.rev + 1 <= events'
  <2>1. saved.rev \in 0..MaxEvents
        BY <1>2 DEF Conversation
  <2>2. MaxEvents \in Nat
        BY BookingAssumption
  <2>3. QED BY <1>2, <1>3, <2>1, <2>2
<1>5. /\ n \in Conversation /\ n.draft = Nothing /\ n.change = Nothing
      /\ n.human = TRUE /\ n.rev = saved.rev + 1
  <2> DEFINE one == [saved EXCEPT !.human = TRUE, !.rev = saved.rev + 1]
  <2>1. one \in Conversation /\ one.rev = saved.rev + 1
        BY <1>2, <1>4 DEF Conversation
  <2>2. one.human = TRUE
        BY <1>2 DEF Conversation
  <2>3. n = [one EXCEPT !.draft = Nothing, !.change = Nothing]
        OBVIOUS
  <2> HIDE DEF one, n
  <2>4. /\ n \in Conversation /\ n.draft = Nothing /\ n.change = Nothing
        /\ n.human = one.human /\ n.rev = one.rev
        BY <2>1, <2>3 DEF Conversation
  <2>5. QED BY <2>1, <2>2, <2>4, Zenon
<1> HIDE DEF n
<1>6. TypeOK'
  <2>1. dead \cup Earlier \subseteq Proposals
        BY <1>2, BookingAssumption DEF TypeOK, Earlier, Proposals
  <2>2. QED BY <1>1, <1>2, <1>3, <1>5, <2>1 DEF TypeOK
<1>7. \A c, keys : Sound(n, calendar, held, proposals, told) /\ Agree(n, c) /\ Without(n, keys)
      BY <1>5 DEF Sound, Agree, Unequal, Without
<1>8. ASSUME turn # Nothing
      PROVE  Running(turn)'
  <2>1. Running(turn) /\ turn \in Turn /\ turn.conv \in Conversation
        BY <1>8, CalledFor DEF BookingInv
  <2>2. turn.conv.rev \in Nat
        BY <2>1 DEF Conversation
  <2>3. Control(turn)'
        BY <1>1, <1>4, <1>5, <2>1, <2>2 DEF Running, Control, Earlier
  <2>4. QED BY <1>1, <1>7, <2>1, <2>3 DEF Running
<1>9. QED BY <1>1, <1>3, <1>4, <1>5, <1>6, <1>7, <1>8 DEF BookingInv, Earlier

LEMMA ResumeAssistantKeeps ==
    ASSUME BookingInv, ResumeAssistant
    PROVE  BookingInv'
<1> DEFINE n == [saved EXCEPT !.human = FALSE]
<1>1. /\ saved' = n /\ pc = "idle"
      /\ UNCHANGED <<status, text, latest, local, verified, calendar, taken, pc, turn, now,
                     proposals, faults, dead, shown, told, held>>
      BY DEF ResumeAssistant, inbox, world, history
<1>2. TypeOK /\ saved.rev <= events /\ saved \in Conversation
      BY DEF BookingInv, TypeOK
<1>3. turn = Nothing
      BY <1>1, <1>2 DEF TypeOK
<1>4. events \in Nat /\ events' = events + 1 /\ events' \in 0..MaxEvents
      BY OneMoreEvent DEF ResumeAssistant
<1>5. /\ n \in Conversation /\ n.draft = saved.draft /\ n.change = saved.change
      /\ n.rev = saved.rev
      BY <1>2 DEF Conversation
<1> HIDE DEF n
<1>6. TypeOK'
      BY <1>1, <1>2, <1>4, <1>5 DEF TypeOK
<1>7. Sound(n, calendar, held, proposals, told) /\ Without(n, dead)
      BY <1>5 DEF BookingInv, Sound, Without
<1>8. n.rev <= events'
      BY <1>2, <1>4, <1>5 DEF Conversation
<1>9. QED BY <1>1, <1>3, <1>6, <1>7, <1>8 DEF BookingInv, Earlier

\* Staff cancel or move an appointment themselves.
LEMMA EditKeeps ==
    ASSUME BookingInv, OneEvent, NEW x \in Refs, calendar[x] # Nothing,
           NEW a \in Appointment, SameProposal(a, calendar[x]),
           ~calendar[x].live => ~a.live, NEW s \in SUBSET Slots, a.slot \in held[x] \cup s,
           calendar' = Put(calendar, x, a), held' = Widened(held, x, s),
           UNCHANGED <<inbox, saved, local, verified, taken, pc, turn, now, proposals, faults,
                       dead, shown, told>>
    PROVE  BookingInv'
<1>1. TypeOK
      BY DEF BookingInv
<1>2. /\ Preserves(calendar', held')
      /\ \A c \in Conversation : StaysSound(c, calendar', held')
      /\ \A y \in Refs : (calendar')[y] # Nothing => (calendar')[y].proposal = calendar[y].proposal
      /\ \A y \in Refs : ((calendar')[y] = Nothing) = (calendar[y] = Nothing)
      BY EditPreserves DEF SameProposal
<1>3. /\ status' = status /\ text' = text /\ latest' = latest /\ saved' = saved
      /\ local' = local /\ verified' = verified /\ taken' = taken /\ pc' = pc /\ turn' = turn
      /\ now' = now /\ proposals' = proposals /\ faults' = faults
      /\ dead' = dead /\ shown' = shown /\ told' = told
      BY DEF inbox
<1>4. events \in Nat /\ events' = events + 1 /\ events' \in 0..MaxEvents
      BY OneMoreEvent
<1>5. saved \in Conversation /\ saved.rev \in Nat /\ saved.rev <= events
      BY <1>1 DEF BookingInv, TypeOK, Conversation
<1>6. TypeOK'
      BY <1>1, <1>2, <1>3, <1>4 DEF TypeOK, Preserves
<1>7. Entered(calendar', held', proposals, told) /\ Registered(local, calendar', held')
      BY <1>2, StaysRegistered DEF Preserves, BookingInv
<1>8. Sound(saved, calendar', held', proposals, told)
      BY <1>2, <1>5 DEF StaysSound, BookingInv
<1>9. ASSUME turn # Nothing
      PROVE  Running(turn)'
  <2>1. Running(turn) /\ turn \in Turn /\ turn.conv \in Conversation
        BY <1>9, CalledFor DEF BookingInv
  <2>2. Sound(turn.conv, calendar', held', proposals, told)
        BY <1>2, <2>1 DEF StaysSound, Running
  <2>3. Reported(turn, calendar', proposals)
        BY <1>2, <2>1 DEF Running, Reported
  <2>4. Calling(turn, pc, held')
    <3>1. turn.conv.change # Nothing => turn.conv.change.ref \in Refs
          BY <2>1 DEF Conversation, Change
    <3>2. QED BY <1>2, <2>1, <3>1 DEF Running, Calling, Preserves
  <2>5. Control(turn)'
        BY <1>3, <2>1 DEF Running, Control, Earlier
  <2>6. QED BY <1>3, <2>1, <2>2, <2>3, <2>4, <2>5 DEF Running
<1>10. QED BY <1>3, <1>4, <1>5, <1>6, <1>7, <1>8, <1>9 DEF BookingInv, Earlier

LEMMA StaffCancelsKeeps ==
    ASSUME BookingInv, NEW x \in Refs, StaffCancels(x)
    PROVE  BookingInv'
<1> DEFINE a == Off(calendar[x])
           s == {}
<1>1. /\ OneEvent /\ calendar[x] # Nothing
      /\ calendar' = Put(calendar, x, a)
      /\ UNCHANGED <<inbox, saved, local, verified, taken, pc, turn, now, proposals, faults,
                     dead, shown, told, held>>
      BY DEF StaffCancels, Off, Put, history
<1>2. /\ calendar \in [Refs -> Appointment \cup {Nothing}] /\ held \in [Refs -> SUBSET Slots]
      /\ Entered(calendar, held, proposals, told)
      BY DEF BookingInv, TypeOK
<1>3. calendar[x] \in Appointment /\ calendar[x].slot \in held[x]
      BY <1>1, <1>2 DEF Entered
<1>4. /\ a \in Appointment /\ SameProposal(a, calendar[x])
      /\ a.slot = calendar[x].slot /\ ~a.live
      BY <1>3, OffRow
<1>5. held' = Widened(held, x, s) /\ s \in SUBSET Slots /\ a.slot \in held[x] \cup s
  <2>1. [held EXCEPT ![x] = held[x] \cup {}] = held
        BY <1>2
  <2>2. QED BY <1>1, <1>3, <1>4, <2>1 DEF Widened
<1> HIDE DEF a, s
<1>6. QED BY <1>1, <1>4, <1>5, EditKeeps

LEMMA StaffMovesKeeps ==
    ASSUME BookingInv, NEW x \in Refs, NEW to \in Slots, StaffMoves(x, to)
    PROVE  BookingInv'
<1> DEFINE a == MovedTo(calendar[x], to)
           s == {to}
<1>1. /\ OneEvent /\ calendar[x] # Nothing
      /\ calendar' = Put(calendar, x, a) /\ held' = Widened(held, x, s)
      /\ UNCHANGED <<inbox, saved, local, verified, taken, pc, turn, now, proposals, faults,
                     dead, shown, told>>
      BY Zenon DEF StaffMoves, MovedTo, Put, Widened
<1>2. calendar \in [Refs -> Appointment \cup {Nothing}]
      BY DEF BookingInv, TypeOK
<1>3. calendar[x] \in Appointment
      BY <1>1, <1>2
<1>4. /\ a \in Appointment /\ SameProposal(a, calendar[x])
      /\ a.slot = to /\ a.live = calendar[x].live
      BY <1>3, MovedRow
<1>5. s \in SUBSET Slots /\ a.slot \in held[x] \cup s /\ (~calendar[x].live => ~a.live)
      BY <1>4
<1> HIDE DEF a, s
<1>6. QED BY <1>1, <1>4, <1>5, EditKeeps

-----------------------------------------------------------------------------
(* The invariant.                                                          *)

LEMMA BookedBeforeIs ==
    ASSUME NEW s \in Slots, NEW p \in Phones
    PROVE  LET a == BookedBefore(s, p) IN
           /\ a \in Appointment /\ a # Nothing
           /\ a.key = 0 /\ a.slot = s /\ a.live = TRUE /\ a.proposal = 0 /\ a.by = 0
<1>1. BookedBefore(s, p) \in Appointment
      BY BookingAssumption DEF BookedBefore, Appointment
<1>2. QED BY <1>1, NothingIsNoDocument DEF BookedBefore

LEMMA InitHolds ==
    ASSUME Init
    PROVE  BookingInv
<1>1. saved = NewConversation /\ turn = Nothing /\ pc = "idle"
      /\ proposals = 0 /\ faults = 0 /\ events = 0 /\ now = 0 /\ latest = 0
      /\ dead = {} /\ told = {} /\ taken = {}
      BY DEF Init
<1>2. /\ NewConversation \in Conversation /\ NewConversation.rev = 0
      /\ NewConversation.draft = Nothing /\ NewConversation.change = Nothing
      BY BookingAssumption DEF NewConversation, Conversation
<1>3. /\ calendar \in [Refs -> Appointment \cup {Nothing}]
      /\ \A x \in Refs : calendar[x] # Nothing =>
           /\ x = 1 /\ calendar[x] \in Appointment /\ calendar[x].slot \in Slots
           /\ calendar[x].key = 0 /\ calendar[x].live = TRUE
           /\ calendar[x].proposal = 0 /\ calendar[x].by = 0
  <2>1. CASE calendar = [x \in Refs |-> Nothing]
        BY <2>1
  <2>2. CASE \E s \in Slots, p \in Phones :
                calendar = [x \in Refs |-> IF x = 1 THEN BookedBefore(s, p) ELSE Nothing]
    <3>1. PICK s \in Slots, p \in Phones :
                 calendar = [x \in Refs |-> IF x = 1 THEN BookedBefore(s, p) ELSE Nothing]
          BY <2>2
    <3> DEFINE a == BookedBefore(s, p)
    <3>2. /\ a \in Appointment /\ a # Nothing
          /\ a.key = 0 /\ a.slot = s /\ a.live = TRUE /\ a.proposal = 0 /\ a.by = 0
          BY BookedBeforeIs
    <3>3. calendar = [x \in Refs |-> IF x = 1 THEN a ELSE Nothing]
          BY <3>1
    <3> HIDE DEF a
    <3>4. QED BY <3>2, <3>3
  <2>3. QED BY <2>1, <2>2 DEF Init
<1>4. /\ held \in [Refs -> SUBSET Slots]
      /\ \A x \in Refs : calendar[x] # Nothing => calendar[x].slot \in held[x]
  <2>1. held = [x \in Refs |-> IF calendar[x] = Nothing THEN {} ELSE {calendar[x].slot}]
        BY DEF Init
  <2>2. QED BY <1>3, <2>1
<1>5. /\ local \in [Refs -> LocalRecord \cup {Nothing}]
      /\ \A x \in Refs : local[x] # Nothing =>
           calendar[x] # Nothing /\ local[x].slot = calendar[x].slot /\ local[x].live = TRUE
  <2>1. local = [x \in Refs |-> IF calendar[x] = Nothing THEN Nothing
                                ELSE [slot |-> calendar[x].slot, live |-> TRUE]]
        BY DEF Init
  <2>2. \A x \in Refs : calendar[x] # Nothing =>
           [slot |-> calendar[x].slot, live |-> TRUE] \in LocalRecord
        BY <1>3 DEF LocalRecord
  <2>3. QED BY <2>1, <2>2
<1>6. status \in [Messages -> {"unsent", "waiting", "failed", "handled"}]
      /\ text \in [Messages -> Texts \cup {Nothing}]
      /\ shown \in [Proposals -> Messages \cup {Nothing}]
      /\ verified \in Phones \cup {Nothing}
      BY DEF Init
<1>7. TypeOK
      BY <1>1, <1>2, <1>3, <1>4, <1>5, <1>6, BookingAssumption DEF TypeOK, Steps
<1>8. Entered(calendar, held, proposals, told)
      BY <1>1, <1>3, <1>4 DEF Entered
<1>9. Registered(local, calendar, held)
      BY <1>4, <1>5 DEF Registered
<1>10. Sound(saved, calendar, held, proposals, told) /\ Without(saved, dead)
       BY <1>1, <1>2 DEF Sound, Without
<1>11. saved.rev <= events
       BY <1>1, <1>2
<1>12. QED BY <1>1, <1>7, <1>8, <1>9, <1>10, <1>11 DEF BookingInv

LEMMA StutterKeeps ==
    ASSUME BookingInv, UNCHANGED vars
    PROVE  BookingInv'
BY DEF vars, inbox, world, bounds, history, BookingInv, TypeOK, Running, Control, Opened,
       Messages, Earlier

LEMMA DeliveringKeeps ==
    ASSUME BookingInv, Delivering
    PROVE  BookingInv'
BY ArriveKeeps, RedeliverKeeps, LeaveOrFoldKeeps, OpenTurnKeeps DEF Delivering

\* A turn is running whenever the program counter is not idle.
LEMMA Occupies ==
    ASSUME BookingInv, pc # "idle"
    PROVE  turn # Nothing
BY DEF BookingInv, TypeOK

LEMMA ReadingKeeps ==
    ASSUME BookingInv, Reading
    PROVE  BookingInv'
<1>1. pc = "reading" \/ pc = "replying"
      BY DEF Reading, ShowAppointments, RefuseCode, BrowseCatalogue, LeaveItAlone, AskModel,
             RefuseExpiredChange, SayYesToBooking, SayYesToChange, VerifyCode, Says
<1>2. turn # Nothing
      BY <1>1, Occupies
<1>3. QED BY <1>2, ShowAppointmentsKeeps, RefuseCodeKeeps, BrowseCatalogueKeeps,
             LeaveItAloneKeeps, AskModelKeeps, RefuseExpiredChangeKeeps, SayYesToBookingKeeps,
             SayYesToChangeKeeps, VerifyCodeKeeps DEF Reading

LEMMA BookingKeeps ==
    ASSUME BookingInv, Booking
    PROVE  BookingInv'
<1>1. pc = "replying" \/ pc = "creating"
      BY DEF Booking, PrepareBooking, CallConfirmBooking, MayCallTool, BookingMade,
             BookingRefused, BookingUnknown, BookingFails
<1>2. turn # Nothing
      BY <1>1, Occupies
<1>3. QED BY <1>2, PrepareBookingKeeps, CallConfirmBookingKeeps, BookingMadeKeeps,
             BookingRefusedKeeps, BookingUnknownKeeps, BookingFailsKeeps DEF Booking

LEMMA ChangingKeeps ==
    ASSUME BookingInv, Changing
    PROVE  BookingInv'
<1>1. pc = "replying" \/ pc = "changing"
      BY DEF Changing, AskForPhone, CallConfirmChange, PrepareCancellation, PrepareReschedule,
             MayCallChangeTool, MayCallTool, ChangeMade, ChangeRefused, ChangeUnknown, ChangeFails
<1>2. turn # Nothing
      BY <1>1, Occupies
<1>3. QED BY <1>2, AskForPhoneKeeps, CallConfirmChangeKeeps, PrepareCancellationKeeps,
             PrepareRescheduleKeeps, ChangeMadeKeeps, ChangeRefusedKeeps, ChangeUnknownKeeps,
             ChangeFailsKeeps DEF Changing

LEMMA EndingKeeps ==
    ASSUME BookingInv, Ending
    PROVE  BookingInv'
<1>1. pc \in {"replying", "saving", "sending"} \/ TurnFails
      BY DEF Ending, Answer, SaveTurn, StaffAnswered, Fold, Send, SendFails, MaySend
<1>2. turn # Nothing
      BY <1>1, Occupies DEF TurnFails
<1>3. QED BY <1>2, AnswerKeeps, SaveTurnKeeps, StaffAnsweredKeeps, FoldKeeps, SendKeeps,
             SendFailsKeeps, TurnFailsKeeps DEF Ending

LEMMA EnvironmentKeeps ==
    ASSUME BookingInv, Environment
    PROVE  BookingInv'
BY StaffReplyKeeps, ResumeAssistantKeeps, OutsideKeeps, StaffCancelsKeeps, StaffMovesKeeps
   DEF Environment

\* BookingInv, the inductive invariant the results below rest on, holds of
\* every run of the booking protocol.
THEOREM BookingInvariance == Spec => []BookingInv
<1>1. Init => BookingInv
      BY InitHolds
<1>2. BookingInv /\ [Next]_vars => BookingInv'
      BY DeliveringKeeps, ReadingKeeps, BookingKeeps, ChangingKeeps, EndingKeeps,
         EnvironmentKeeps, StutterKeeps DEF Next
<1>3. QED BY <1>1, <1>2, PTL DEF Spec

\* Every document, counter and program counter of the protocol has its type,
\* and a turn is running exactly when the conversation is held.
THEOREM BookingTypes == Spec => []TypeOK
<1>1. BookingInv => TypeOK
      BY DEF BookingInv
<1>2. QED BY <1>1, BookingInvariance, PTL

\* With a calendar that recognises a repeated booking key, no confirmation of
\* ConfirmBooking, repeated after a lost answer, a failed save or a crash,
\* books or moves a second appointment for the same proposal.
THEOREM ProposalsBookOnce ==
    ASSUME RepeatsRecognised
    PROVE  Spec => []OneAppointmentPerProposal
<1>1. ASSUME BookingInv
      PROVE  OneAppointmentPerProposal
  <2> SUFFICES ASSUME NEW p \in Proposals
               PROVE  Cardinality({x \in Refs : calendar[x] # Nothing
                                                /\ calendar[x].proposal = p}) <= 1
      BY DEF OneAppointmentPerProposal
  <2> DEFINE S == {x \in Refs : calendar[x] # Nothing /\ calendar[x].proposal = p}
  <2>1. p # 0
        BY DEF Proposals
  <2>2. \A x, y \in S : x = y
        BY <1>1, <2>1 DEF BookingInv, Entered
  <2>3. CASE S = {}
        BY <2>3, FS_EmptySet
  <2>4. CASE S # {}
    <3>1. PICK x \in S : S = {x}
          BY <2>2, <2>4
    <3>2. Cardinality({x}) = 1
          BY FS_Singleton
    <3>3. QED BY <3>1, <3>2
  <2>5. QED BY <2>3, <2>4
<1>2. QED BY <1>1, BookingInvariance, PTL

\* With such a calendar, a customer who was told that the time was taken has no
\* appointment from that proposal: the refusal of the calendar is never the
\* answer to a repetition of a booking that was made (BookingRefused).
THEOREM RefusalsAreTrue ==
    ASSUME RepeatsRecognised
    PROVE  Spec => []NotBookedIsTrue
<1>1. BookingInv => NotBookedIsTrue
      BY DEF BookingInv, Entered, NotBookedIsTrue
<1>2. QED BY <1>1, BookingInvariance, PTL

\* preparedNow of ConfirmBooking and ConfirmChange holds across redelivery:
\* no message both prepares a proposal and agrees to it.
THEOREM ConsentIsSeparate == Spec => []ConfirmedByAnotherMessage
<1>1. BookingInv => ConfirmedByAnotherMessage
      BY DEF BookingInv, Entered, ConfirmedByAnotherMessage
<1>2. QED BY <1>1, BookingInvariance, PTL

\* The saved conversation never holds a booking draft and a change together, so
\* that one "yes" never consents to two things.
THEOREM OneYesOneProposal == Spec => []OneProposalAtATime
<1>1. BookingInv => OneProposalAtATime
      BY DEF BookingInv, Sound, OneProposalAtATime
<1>2. QED BY <1>1, BookingInvariance, PTL

\* No late or repeated Save brings back a proposal that was put aside: replaced by
\* a newer one, browsed away from, a change answered with "no", or overtaken by a
\* colleague's answer.  It says nothing of a booking draft answered with "no", which
\* the code keeps.
THEOREM DroppedProposals == Spec => []DroppedStaysDropped
<1>1. BookingInv => DroppedStaysDropped
      BY DEF BookingInv, Without, DroppedStaysDropped
<1>2. QED BY <1>1, BookingInvariance, PTL

\* SaveAppointment records only times the calendar gave the appointment, and a
\* cancellation only of an appointment that the calendar cancelled.
THEOREM LocalRecordsFollow == Spec => []LocalFollowsCalendar
<1>1. BookingInv => LocalFollowsCalendar
      BY DEF BookingInv, Registered, LocalFollowsCalendar
<1>2. QED BY <1>1, BookingInvariance, PTL

-----------------------------------------------------------------------------
(* An outcome that nobody learned.                                         *)

\* What every turn that ends without a fault leaves behind: its own copy of the
\* conversation, or one that staff already have.
LEMMA UnresolvedStep ==
    ASSUME ~AnswersUnreadable, BookingInv, Next,
           turn # Nothing, turn.unresolved,
           status'[turn.msg] = "handled", faults' = faults
    PROVE  saved'.human
<1>1. turn \in Turn /\ turn.msg \in Messages /\ turn.conv \in Conversation /\ saved \in Conversation
      BY CalledFor
<1>2. /\ status[turn.msg] = "waiting" /\ turn.conv.human
      /\ turn.conv.rev # saved.rev => saved.human
      /\ pc = "sending" /\ turn.conv.rev = saved.rev => saved = turn.conv
      BY DEF BookingInv, Running, Control
<1>3. pc # "idle" /\ status \in [Messages -> {"unsent", "waiting", "failed", "handled"}]
      BY DEF BookingInv, TypeOK
<1>4. CASE Delivering
  <2>1. PICK m \in Messages : (\E t \in Texts : Arrive(m, t)) \/ Redeliver(m)
    <3>1. \A m \in Messages : ~LeaveOrFold(m) /\ ~OpenTurn(m)
          BY <1>3 DEF LeaveOrFold, OpenTurn, Opening
    <3>2. QED BY <1>4, <3>1, Zenon DEF Delivering
  <2>2. \A n \in Messages : status'[n] = "handled" => status[n] = "handled"
        BY <1>3, <2>1 DEF Arrive, Redeliver
  <2>3. QED BY <1>1, <1>2, <2>2
<1>5. CASE Ending
  <2>1. CASE Answer \/ SaveTurn
        BY <1>2, <2>1 DEF Answer, SaveTurn, UnchangedButTurn, inbox
  <2>2. CASE StaffAnswered
        BY <1>1, <1>2, <2>2 DEF StaffAnswered, MaySave, Conv
  <2>3. CASE Fold
    <3>1. faults' # faults + 1
          BY DEF BookingInv, TypeOK
    <3>2. QED BY <1>1, <1>2, <2>3, <3>1 DEF Fold, OneFault, MaySave, Store, Conv
  <2>4. CASE Send
        BY <1>2, <2>4 DEF Send, MaySend, MaySave, Conv
  <2>5. CASE SendFails \/ TurnFails
    <3>1. faults' # faults + 1
          BY DEF BookingInv, TypeOK
    <3>2. QED BY <2>5, <3>1 DEF SendFails, TurnFails, OneFault
  <2>6. QED BY <1>5, <2>1, <2>2, <2>3, <2>4, <2>5 DEF Ending
<1>6. CASE Reading \/ Booking \/ Changing \/ Environment
  <2>1. status' = status
    <3>1. CASE Reading
          BY <3>1 DEF Reading, ShowAppointments, RefuseCode, BrowseCatalogue, LeaveItAlone,
             AskModel, RefuseExpiredChange, SayYesToBooking, SayYesToChange, VerifyCode,
             Reply, Abandon, ConfirmBooking, ConfirmChange, UnchangedButTurn, inbox
    <3>2. CASE Booking
          BY <3>2 DEF Booking, PrepareBooking, CallConfirmBooking, ConfirmBooking, BookingMade,
             BookingRefused, BookingUnknown, BookingFails, AroundCall, UnchangedButTurn, inbox
    <3>3. CASE Changing
          BY <3>3 DEF Changing, AskForPhone, CallConfirmChange, ConfirmChange,
             PrepareCancellation, PrepareReschedule, Prepare, ChangeMade, ChangeRefused,
             ChangeUnknown, ChangeFails, ChangeAssumed, AroundCall, UnchangedButTurn, inbox
    <3>4. CASE Environment
          BY <3>4 DEF Environment, StaffReply, ResumeAssistant, Tick, ShareContact, OthersTake,
             StaffCancels, StaffMoves, inbox
    <3>5. QED BY <1>6, <3>1, <3>2, <3>3, <3>4
  <2>2. QED BY <1>2, <2>1
<1>7. QED BY <1>4, <1>5, <1>6 DEF Next

\* Unless a created booking may be answered with an error, a turn whose call to
\* the calendar ended without a known outcome (pauseForUnresolvedBooking,
\* pauseForUnresolvedChange) is done only when staff have the conversation.
THEOREM UnresolvedGoesToStaff ==
    ASSUME ~AnswersUnreadable
    PROVE  Spec => UnresolvedIsHandedOver
<1>1. BookingInv /\ [Next]_vars =>
        [/\ turn # Nothing /\ turn.unresolved
         /\ status'[turn.msg] = "handled"
         /\ faults' = faults
         => saved'.human]_vars
      BY UnresolvedStep
<1>2. QED BY <1>1, BookingInvariance, PTL DEF Spec, UnresolvedIsHandedOver
=============================================================================
