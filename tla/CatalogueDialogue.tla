-------------------------- MODULE CatalogueDialogue -------------------------
(***************************************************************************)
(* Choosing a treatment, a specialist, a date and a time in a chat.        *)
(*                                                                         *)
(* The conversation keeps where the customer is in the catalogue, and the  *)
(* numbered options of the last reply.  Navigation answers from the live   *)
(* catalogue without the language model; what it does not recognise goes   *)
(* to the model, whose tools move the same place.  The catalogue may       *)
(* change between any two questions.  A turn saves the place, sends the    *)
(* reply, and saves the options it offered; turns of a conversation do not *)
(* overlap (LockExclusive of ConversationTurns).                           *)
(*                                                                         *)
(* Names that coincide (a category called like a treatment), links, prices *)
(* and languages are left out.                                             *)
(***************************************************************************)
EXTENDS Integers, Sequences, SequencesExt

CONSTANTS
    Services, Staff, Dates,
    CategoryOf,   \* the category of each treatment
    Nothing,         \* nothing chosen
    PageSize,     \* options on a page of a menu (6; 40 in Telegram)
    RootSize,     \* options on a page of the list of categories (5; 40)
    MaxPage,      \* bound: pages turned
    MaxTools,     \* bound: tools the model calls in a turn
    MaxFaults     \* bound: crashes, failed calls, changes of the catalogue
                  \* and colleagues' replies

ASSUME DialogueAssumption ==
    /\ IsFiniteSet(Services) /\ IsFiniteSet(Staff) /\ IsFiniteSet(Dates)
    /\ Nothing \notin Dates
    /\ PageSize \in Nat \ {0} /\ RootSize \in Nat \ {0}
    /\ MaxPage \in Nat /\ MaxTools \in Nat /\ MaxFaults \in Nat

VARIABLES
    saved,      \* the stored conversation
    turn,       \* the turn in progress
    catalogue,  \* treatments, who offers them, and open dates, right now
    shown,      \* the numbered options that the customer sees last
    unrecorded, \* history: a reply reached the customer and its options were
                \* not stored
    faults

dialogueVars == <<saved, turn, catalogue, shown, unrecorded, faults>>

Categories == {CategoryOf[s] : s \in Services}

\* What a customer may write or tap: an option, a number, or anything else.
Option(kind, of) == [kind |-> kind, of |-> of]
Root == Option("root", Nothing)   \* "Categories", "Book a visit", /services...
Back == Option("back", Nothing)
Next == Option("next", Nothing)
Previous == Option("previous", Nothing)
Book == Option("book", Nothing)
Time == Option("time", Nothing)
Words == Option("words", Nothing)
MaxNumber == 3
Texts == {Root, Back, Next, Previous, Book, Time, Words}
         \cup {Option("category", k) : k \in Categories}
         \cup {Option("service", s) : s \in Services}
         \cup {Option("staff", p) : p \in Staff}
         \cup {Option("date", d) : d \in Dates}
         \cup {Option("number", n) : n \in 1..MaxNumber}

Phase == {"", "detail", "staff", "dates", "times"}

\* "draft" is the proposal that a "yes" would confirm; as history it tells
\* whether the customer has chosen a treatment since it was prepared.
\* "vouched" is history: the date that was last asked for or picked, and whose.
Places == [category : Categories \cup {Nothing}, service : Services \cup {Nothing},
           staff : Staff \cup {Nothing}, date : Dates \cup {Nothing},
           phase : Phase, page : 0..MaxPage, draft : {"none", "newer", "older"},
           vouched : (Services \X Staff \X Dates) \cup {<<>>}]

Conversations == [place : Places, presented : Seq(Texts)]

NoPlace == [category |-> Nothing, service |-> Nothing, staff |-> Nothing, date |-> Nothing,
            phase |-> "", page |-> 0, draft |-> "none", vouched |-> <<>>]

NoTurn == [pc |-> "idle"]

Catalogues == [services : SUBSET Services, team : [Services -> SUBSET Staff],
               open : SUBSET (Staff \X Dates)]

DialogueTypeOK ==
    /\ saved \in Conversations
    /\ \/ turn = NoTurn
       \/ /\ turn.pc \in {"model", "save", "send", "record"}
          /\ turn.place \in Places /\ turn.options \in Seq(Texts)
          /\ turn.tools \in 0..MaxTools /\ turn.hidden \in BOOLEAN /\ turn.stale \in BOOLEAN
    /\ catalogue \in Catalogues
    /\ shown \in Seq(Texts) /\ unrecorded \in BOOLEAN
    /\ faults \in 0..MaxFaults

DialogueInit ==
    /\ saved = [place |-> NoPlace, presented |-> <<>>]
    /\ turn = NoTurn
    /\ catalogue = [services |-> Services, team |-> [s \in Services |-> Staff],
                    open |-> Staff \X Dates]
    /\ shown = <<>> /\ unrecorded = FALSE
    /\ faults = 0

Fault == faults < MaxFaults /\ faults' = faults + 1

-----------------------------------------------------------------------------
(* Lookups and menus.  An answer is the place it leaves, the options it    *)
(* offers and whether the message needs no model.                          *)

Answer(c, options) == [place |-> c, options |-> options, handled |-> TRUE]
NotHandled(c) == [place |-> c, options |-> <<>>, handled |-> FALSE]
Unavailable(c) == Answer(c, <<>>)

Listed(kind, set) ==
    LET seq == SetToSeq(set) IN [i \in DOMAIN seq |-> Option(kind, seq[i])]

OnPage(labels, page, size) ==
    LET end == IF (page + 1) * size < Len(labels) THEN (page + 1) * size ELSE Len(labels)
    IN  SubSeq(labels, page * size + 1, end)
        \o (IF page > 0 THEN <<Previous>> ELSE <<>>)
        \o (IF end < Len(labels) THEN <<Next>> ELSE <<>>)

InRange(labels, page, size) == IF page * size >= Len(labels) THEN 0 ELSE page

Menu(c, labels, size, rest) ==
    LET page == InRange(labels, c.page, size)
    IN  Answer([c EXCEPT !.page = page], OnPage(labels, page, size) \o rest)

Offered(s) == s \in catalogue.services

\* With no treatment chosen, everybody.
Team(s) == IF s = Nothing THEN Staff ELSE catalogue.team[s]

OpenDates(s, p) == {d \in Dates : p \in Team(s) /\ <<p, d>> \in catalogue.open}

\* The lookup of a treatment's dates and times refuses a treatment that is
\* not in the catalogue; "up" tells whether the calendar answers.
TimeMenu(c, up) ==
    IF ~up \/ c.date = Nothing \/ ~Offered(c.service) THEN Unavailable(c)
    ELSE Menu(c, IF c.staff # Nothing /\ c.date \in OpenDates(c.service, c.staff)
                 THEN <<Time>> ELSE <<>>, PageSize, <<Back, Root>>)

DateMenu(c, up) ==
    IF ~up \/ ~Offered(c.service) THEN Unavailable(c)
    ELSE LET dates == OpenDates(c.service, c.staff)
         IN  IF dates = {}
             THEN Menu([c EXCEPT !.staff = Nothing, !.phase = "staff", !.page = 0],
                       Listed("staff", Team(c.service)), PageSize, <<Back, Root>>)
             ELSE Menu(c, Listed("date", dates), PageSize, <<Back, Root>>)

StaffMenu(c, up) ==
    LET team == Team(c.service)
    IN  CASE ~up \/ team = {} -> Unavailable(c)
          [] up /\ \E p \in Staff : team = {p} ->
                DateMenu([c EXCEPT !.staff = CHOOSE p \in Staff : team = {p},
                                   !.phase = "dates", !.page = 0], up)
          [] OTHER ->
                Menu([c EXCEPT !.staff = Nothing, !.phase = "staff"],
                     Listed("staff", team), PageSize, <<Back, Root>>)

RootMenu(c) ==
    Menu(c, Listed("category", {CategoryOf[s] : s \in catalogue.services}),
         RootSize, <<Words>>)

-----------------------------------------------------------------------------
(* Navigation: where an option moves the customer.                         *)

AtRoot(c) == [c EXCEPT !.category = Nothing, !.service = Nothing, !.staff = Nothing,
                       !.page = 0, !.phase = "", !.date = Nothing]

OneBack(c) ==
    CASE c.phase = "times" ->
            [c EXCEPT !.date = Nothing, !.phase = "dates", !.page = 0]
      [] c.phase \in {"dates", "staff"} ->
            [c EXCEPT !.staff = Nothing, !.date = Nothing, !.phase = "detail", !.page = 0]
      [] c.phase \notin {"times", "dates", "staff"} /\ c.service # Nothing ->
            [c EXCEPT !.service = Nothing, !.staff = Nothing, !.phase = "",
                      !.date = Nothing, !.page = 0]
      [] OTHER -> [c EXCEPT !.category = Nothing, !.page = 0]

AtCategory(c, k) ==
    IF c.category = k THEN c
    ELSE [AtRoot(c) EXCEPT !.category = k]

Outdated(draft) == IF draft = "none" THEN "none" ELSE "older"

AtServiceOnly(c, s) == [c EXCEPT !.service = s, !.page = 0, !.draft = Outdated(@)]

AtService(c, s) == [c EXCEPT !.service = s, !.staff = Nothing, !.phase = "detail",
                             !.date = Nothing, !.page = 0, !.draft = Outdated(@)]

AbandonNothing(c) == c

\* Browsing gives up a proposal that waits for its "yes".
Abandon(c) == [c EXCEPT !.draft = "none"]

Move(c, text) ==
    LET a == Abandon(c)
    IN  CASE text = Root -> AtRoot(a)
          [] text = Back -> OneBack(a)
          [] text = Next -> [a EXCEPT !.page = @ + 1]
          [] text = Previous /\ c.page > 0 -> [a EXCEPT !.page = @ - 1]
          [] text.kind = "category" -> AtCategory(a, text.of)
          [] text.kind = "service" -> AtService(a, text.of)
          [] OTHER -> a

Recognized(c, text) ==
    \/ text \in {Root, Back, Next, Previous}
    \/ text = Book /\ c.service # Nothing
    \/ \E s \in catalogue.services :
          \/ text = Option("category", CategoryOf[s])
          \/ text = Option("service", s) /\ CategoryOf[s] = c.category

-----------------------------------------------------------------------------
(* Navigation: what the customer is shown there.                           *)

ListMenu(c) ==
    LET inCategory == {s \in catalogue.services : CategoryOf[s] = c.category}
    IN  CASE c.category = Nothing -> RootMenu(c)
          [] c.category # Nothing /\ inCategory = {} -> RootMenu(AtRoot(c))
          [] OTHER -> Menu(c, Listed("service", inCategory), PageSize, <<Back>>)

ServiceMenu(c, text, up) ==
    CASE text = Book \/ c.phase = "staff" -> StaffMenu(c, up)
      [] text \notin {Book, Root, Back, Option("service", c.service)}
            /\ c.phase # "staff" -> NotHandled(c)
      [] OTHER -> Answer(c, <<Book, Back, Root>>)

Show(c, text, up) ==
    CASE c.phase = "times" -> TimeMenu(c, up)
      [] c.phase = "dates" /\ c.staff # Nothing
            /\ (~up \/ ~(c.service = Nothing \/ Offered(c.service))) -> Unavailable(c)
      [] c.phase = "dates" /\ c.staff # Nothing /\ up
            /\ (c.service = Nothing \/ Offered(c.service))
            /\ c.staff \in Team(c.service) -> DateMenu(c, up)
      [] OTHER ->
            IF c.service = Nothing THEN ListMenu(c)
            ELSE IF Offered(c.service) /\ CategoryOf[c.service] = c.category
            THEN ServiceMenu(c, text, up)
            ELSE ListMenu([c EXCEPT !.service = Nothing, !.staff = Nothing])

\* A specialist or a date picked from the last reply.
Pick(c, text, up) ==
    LET possible == up /\ IF c.service = Nothing THEN c.staff # Nothing ELSE Offered(c.service)
        ofDates == c.phase = "dates" /\ c.staff # Nothing
    IN  CASE possible /\ ofDates /\ Offered(c.service) /\ text.kind = "date"
             /\ text.of \in OpenDates(c.service, c.staff) ->
                TimeMenu([Abandon(c) EXCEPT !.date = text.of, !.phase = "times", !.page = 0,
                              !.vouched = <<c.service, c.staff, text.of>>], up)
          [] possible /\ ~ofDates /\ text.kind = "staff" /\ text.of \in Team(c.service) ->
                DateMenu([c EXCEPT !.staff = text.of, !.phase = "dates", !.page = 0], up)
          [] OTHER -> NotHandled(c)

\* "calendar": the lookups that are answered: none, the list of treatments
\* only, or all.
Navigate(c, text, selected, calendar) ==
    CASE ~selected /\ text \notin {Root, Back} -> NotHandled(c)
      [] (selected \/ text \in {Root, Back}) /\
         (calendar = "none" \/ catalogue.services = {}) -> Unavailable(c)
      [] OTHER ->
            IF Recognized(c, text) THEN Show(Move(c, text), text, calendar = "all")
            ELSE IF selected THEN Pick(c, text, calendar = "all")
            ELSE NotHandled(c)

-----------------------------------------------------------------------------
(* A turn.                                                                 *)

\* A number, or an option written out, is an option of the last reply.
Meant(text) ==
    IF text.kind = "number" /\ text.of \in DOMAIN saved.presented
    THEN saved.presented[text.of] ELSE text

Selected(text) ==
    \/ text.kind = "number" /\ text.of \in DOMAIN saved.presented
    \/ \E i \in DOMAIN saved.presented : saved.presented[i] = text

Receive(text) ==
    /\ turn = NoTurn
    /\ \E calendar \in {"none", "list", "all"} :
          LET a == Navigate(saved.place, Meant(text), Selected(text), calendar)
          IN  /\ Meant(text) = Next => saved.place.page < MaxPage
              /\ calendar # "all" => faults < MaxFaults
              /\ faults' = IF calendar = "all" THEN faults ELSE faults + 1
              /\ turn' = [pc |-> IF a.handled THEN "save" ELSE "model",
                          place |-> a.place, options |-> a.options,
                          tools |-> 0, hidden |-> FALSE, stale |-> FALSE]
    /\ UNCHANGED <<saved, catalogue, shown, unrecorded>>

\* The model's tools; the options of the last one that offers some are sent.
Tool(c, options) ==
    /\ turn.pc = "model" /\ turn.tools < MaxTools
    /\ turn' = [turn EXCEPT !.place = c, !.options = options, !.tools = @ + 1]
    /\ UNCHANGED <<saved, catalogue, shown, unrecorded, faults>>

Menus(c, labels, size, rest) ==
    LET a == Menu(c, labels, size, rest) IN Tool(a.place, a.options)

AvailableDates(s, p) ==
    /\ turn.pc = "model" /\ Offered(s)
    /\ Menus([turn.place EXCEPT !.staff = p, !.service = s, !.date = Nothing,
                                !.phase = "dates", !.page = 0],
             Listed("date", OpenDates(s, p)), PageSize, <<Back, Root>>)

AvailableSlots(s, p, d) ==
    /\ turn.pc = "model" /\ Offered(s)
    /\ Menus([turn.place EXCEPT !.staff = p, !.service = s, !.date = d,
                                !.phase = "times", !.page = 0,
                                !.vouched = <<s, p, d>>],
             IF d \in OpenDates(s, p) THEN <<Time>> ELSE <<>>, PageSize, <<Back, Root>>)

\* One specialist is no choice.
ListStaff(s) ==
    /\ turn.pc = "model" /\ (s = Nothing \/ Offered(s))
    /\ LET team == Team(s)
       IN  Tool(turn.place, IF \E p, q \in team : p # q THEN Listed("staff", team) ELSE <<>>)

\* The model numbers the treatments in its text, or does not.
ListServices(k) ==
    /\ turn.pc = "model"
    /\ \E named \in {{}, {s \in catalogue.services : CategoryOf[s] = k}} :
          Tool(turn.place, Listed("service", named))

ListCategories ==
    /\ turn.pc = "model"
    /\ LET a == RootMenu(AtRoot(turn.place)) IN Tool(a.place, a.options)

\* A new selection replaces the old proposal even if it does not fit; a
\* specialist who does not offer the treatment is answered with those who do.
PrepareBooking(s, p, d) ==
    /\ turn.pc = "model"
    /\ LET none == [turn.place EXCEPT !.draft = "none"]
       IN  CASE ~Offered(s) -> Tool(none, turn.options)
             [] Offered(s) /\ p \notin Team(s) -> Tool(none, Listed("staff", Team(s)))
             [] Offered(s) /\ p \in Team(s) /\ d \notin OpenDates(s, p) ->
                   Tool(none, turn.options)
             [] OTHER -> Tool([none EXCEPT !.draft = "newer"], <<>>)

\* Booked; or the time was taken meanwhile.
ConfirmBooking ==
    /\ turn.pc = "model" /\ turn.place.draft # "none"
    /\ LET none == [turn.place EXCEPT !.draft = "none"]
       IN  \/ Tool([none EXCEPT !.category = Nothing, !.service = Nothing, !.staff = Nothing,
                                !.page = 0], <<>>)
          \/ Tool(none, turn.options)

\* The reply's text.  One that asks for a name or a phone shows no options.
Compose ==
    /\ turn.pc = "model"
    /\ \E hidden \in BOOLEAN :
          turn' = [turn EXCEPT !.pc = "save", !.tools = 0, !.hidden = hidden]
    /\ UNCHANGED <<saved, catalogue, shown, unrecorded, faults>>

EndTurn == turn' = NoTurn

\* Without a date nothing is vouched for.
Settled(c) == IF c.date = Nothing THEN [c EXCEPT !.vouched = <<>>] ELSE c

SaveTurnAndChoices ==
    /\ turn.pc = "save"
    /\ IF turn.stale
       THEN EndTurn /\ UNCHANGED saved
       ELSE /\ saved' = [place |-> Settled(turn.place), presented |-> turn.options]
            /\ turn' = [turn EXCEPT !.pc = "send"]
    /\ UNCHANGED <<catalogue, shown, unrecorded, faults>>

\* A turn that lost its race with another writer of the conversation fails.
SaveTurn ==
    /\ turn.pc = "save"
    /\ IF turn.stale
       THEN EndTurn /\ UNCHANGED saved
       ELSE /\ saved' = [saved EXCEPT !.place = Settled(turn.place)]
            /\ turn' = [turn EXCEPT !.pc = "send"]
    /\ UNCHANGED <<catalogue, shown, unrecorded, faults>>

\* What the customer sees then is of no matter to the properties.
Unrecorded == unrecorded' = TRUE /\ shown' = <<>>

Numbered == IF turn.hidden THEN <<>> ELSE turn.options

SendReply ==
    /\ turn.pc = "send"
    /\ shown' = Numbered
    /\ turn' = [turn EXCEPT !.pc = "record"]
    /\ UNCHANGED <<saved, catalogue, unrecorded, faults>>

\* Refused; or delivered and not known to be.
SendFails ==
    /\ turn.pc = "send"
    /\ Fault
    /\ EndTurn
    /\ \/ UNCHANGED <<shown, unrecorded>>
       \/ Unrecorded
    /\ UNCHANGED <<saved, catalogue>>

\* The colleague's reply below may come first: then the save fails.
RecordChoices ==
    /\ turn.pc = "record"
    /\ IF turn.stale
       THEN Unrecorded /\ UNCHANGED saved
       ELSE /\ saved' = [saved EXCEPT !.presented = turn.options]
            /\ unrecorded' = FALSE /\ UNCHANGED shown
    /\ EndTurn
    /\ UNCHANGED <<catalogue, faults>>

\* A failed save, a newer message that supersedes the turn, or a crash.
TurnFails ==
    /\ turn # NoTurn
    /\ Fault
    /\ EndTurn
    /\ IF turn.pc = "record" THEN Unrecorded ELSE UNCHANGED <<shown, unrecorded>>
    /\ UNCHANGED <<saved, catalogue>>

-----------------------------------------------------------------------------
(* The surroundings.                                                       *)

\* A colleague answers; the options of older replies no longer count.
StaffReplies ==
    /\ Fault
    /\ saved' = [saved EXCEPT !.presented = <<>>]
    /\ shown' = <<>>
    /\ unrecorded' = FALSE
    /\ turn' = IF turn = NoTurn THEN NoTurn ELSE [turn EXCEPT !.stale = TRUE]
    /\ UNCHANGED <<catalogue>>

CatalogueChanges ==
    /\ Fault
    /\ \/ \E s \in catalogue.services : catalogue' = [catalogue EXCEPT !.services = @ \ {s}]
       \/ \E s \in Services, p \in Staff :
             /\ p \in catalogue.team[s]
             /\ catalogue' = [catalogue EXCEPT !.team[s] = @ \ {p}]
       \/ \E t \in catalogue.open : catalogue' = [catalogue EXCEPT !.open = @ \ {t}]
    /\ UNCHANGED <<saved, turn, shown, unrecorded>>

DialogueNext ==
    \/ \E text \in Texts : Receive(text)
    \/ \E s \in Services, p \in Staff : AvailableDates(s, p)
    \/ \E s \in Services, p \in Staff, d \in Dates :
          AvailableSlots(s, p, d) \/ PrepareBooking(s, p, d)
    \/ \E s \in Services \cup {Nothing} : ListStaff(s)
    \/ \E k \in Categories : ListServices(k)
    \/ ListCategories \/ ConfirmBooking \/ Compose
    \/ SaveTurn \/ SendReply \/ SendFails \/ RecordChoices \/ TurnFails
    \/ StaffReplies \/ CatalogueChanges

DialogueSpec == DialogueInit /\ [][DialogueNext]_dialogueVars

-----------------------------------------------------------------------------
\* A number that the customer sees is taken for the option it stands by
\* (ResolvePresentedChoice: "only against the options in the last reply that
\* was successfully delivered"), unless that reply reached the customer and
\* the process did not learn or store it.
NumbersMeanWhatIsShown ==
    turn # NoTurn \/ unrecorded \/
    \A n \in DOMAIN shown \cap DOMAIN saved.presented :
        saved.presented[n] = shown[n]

\* The times that a customer is choosing from are those of a treatment,
\* specialist and date that were asked for together: no way of going back,
\* changing treatment or losing a reply leaves parts of an older choice
\* (navigateCatalogue's resets).
TimesBelongTogether ==
    saved.place.phase = "times" /\ saved.place.service # Nothing =>
        saved.place.vouched = <<saved.place.service, saved.place.staff, saved.place.date>>

\* "A later yes must not confirm a draft from a different treatment": the
\* proposal in a conversation is younger than the customer's last choice of a
\* treatment (navigateCatalogue).
DraftIsNewerThanChoice == saved.place.draft # "older"
=============================================================================
