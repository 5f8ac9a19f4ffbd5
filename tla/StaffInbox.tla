----------------------------- MODULE StaffInbox -----------------------------
(***************************************************************************)
(* The inbox in the staff chat: pages of the customers' Telegram           *)
(* conversations, newest first, and of the messages of one of them.        *)
(*                                                                         *)
(* Each page that is shown is saved with the place where it ends, and its  *)
(* buttons name the saved page.  Conversations move up and messages arrive *)
(* between two presses, buttons of old pages can be pressed again, and     *)
(* several walks through the same list go on together.                     *)
(***************************************************************************)
EXTENDS Integers, FiniteSets, Sequences

CONSTANTS
    ClientChats,  \* numbers of conversations: the order of their keys
    ReadChats,    \* those that colleagues open
    Entries,      \* numbers of messages: the order of their sort ids
    Limit,        \* conversations, or messages, on a page (8 and 5)
    MaxClock,     \* bound: the clock
    MaxPages      \* bound: pages shown

ASSUME InboxAssumption ==
    /\ IsFiniteSet(ClientChats) /\ ClientChats \subseteq Int
    /\ IsFiniteSet(Entries) /\ Entries \subseteq Int
    /\ 0 \notin ReadChats
    /\ Limit \in Nat \ {0} /\ MaxClock \in Nat \ {0} /\ MaxPages \in Nat

VARIABLES
    clock,
    newest,    \* the time of each conversation's newest message; 0: not begun
    messages,  \* the messages of each conversation
    pages      \* the pages saved

inboxVars == <<clock, newest, messages, pages>>

\* Places in a list: a time and a key, or a sort id.  Start is before all.
Place == [at : 1..MaxClock, key : ClientChats] \cup [id : Entries]

Start == [start |-> TRUE]

\* owed and seen are history: what this walk has still to show, and what it
\* has shown, of that which has not changed since the walk began.
Page == [of : {0} \cup ReadChats,        \* 0: the list of conversations
         from : Place \cup {Start}, next : Place \cup {Start},
         previous : 0..MaxPages,
         owed : SUBSET (ClientChats \cup Entries),
         seen : SUBSET (ClientChats \cup Entries), twice : BOOLEAN]

Saved == DOMAIN pages

InboxTypeOK ==
    /\ clock \in 1..MaxClock
    /\ newest \in [ClientChats -> 0..MaxClock]
    /\ messages \in [ReadChats -> SUBSET Entries]
    /\ Saved = 1..Cardinality(Saved)
    /\ \A p \in Saved : pages[p] \in Page

InboxInit ==
    /\ clock = 1
    /\ newest = [c \in ClientChats |-> 0]
    /\ messages = [c \in ReadChats |-> {}]
    /\ pages = << >>

-----------------------------------------------------------------------------
(* Reading a page.                                                         *)

PlaceOf(kind, item) ==
    IF kind = 0 THEN [at |-> newest[item], key |-> item] ELSE [id |-> item]

\* a is further down than b.
Below(a, b) ==
    IF "id" \in DOMAIN a THEN a.id < b.id
    ELSE a.at < b.at \/ (a.at = b.at /\ a.key < b.key)

All(kind) == IF kind = 0 THEN {c \in ClientChats : newest[c] # 0} ELSE messages[kind]

Under(kind, place) ==
    {i \in All(kind) : place = Start \/ Below(PlaceOf(kind, i), place)}

\* The first Limit items under a place.
Items(kind, place) ==
    {i \in Under(kind, place) :
        Cardinality({j \in Under(kind, place) :
                        Below(PlaceOf(kind, i), PlaceOf(kind, j))}) < Limit}

PageEndBeyond(kind, place) ==
    LET further == Under(kind, place) \ Items(kind, place)
    IN  IF further = {} THEN Start
        ELSE PlaceOf(kind, CHOOSE i \in further : \A j \in further \ {i} :
                                Below(PlaceOf(kind, j), PlaceOf(kind, i)))

\* The place of the last item shown, when there is more; Start: no more.
PageEnd(kind, place) ==
    LET items == Items(kind, place)
    IN  IF Under(kind, place) = items THEN Start
        ELSE PlaceOf(kind, CHOOSE i \in items : \A j \in items \ {i} :
                                Below(PlaceOf(kind, i), PlaceOf(kind, j)))

\* The page is saved before it is sent; one that does not arrive is a page
\* whose buttons nobody presses.  A walk owes what it owed before the page,
\* less what the page shows.
ShowPage(kind, place, previous, owed, seen) ==
    LET items == Items(kind, place)
    IN  /\ Cardinality(Saved) < MaxPages
        /\ pages' = Append(pages,
               [of |-> kind, from |-> place, next |-> PageEnd(kind, place),
                previous |-> previous, owed |-> owed \ items,
                seen |-> seen \cup items, twice |-> seen \cap items # {}])
        /\ UNCHANGED <<clock, newest, messages>>

-----------------------------------------------------------------------------
(* The buttons.  One of a page older than 30 days is refused: no step.     *)

\* "/inbox" and "refresh"; "open", and "take" and "resume", which also change
\* who answers the conversation (TakeConversation and ResumeConversation of
\* ConversationTurns).
OpenPage(kind) == ShowPage(kind, Start, 0, All(kind), {})

\* "next" of a list and "older" of a conversation.
Further(p) ==
    /\ pages[p].next # Start
    /\ ShowPage(pages[p].of, pages[p].next, IF pages[p].of = 0 THEN 0 ELSE p,
                pages[p].owed, pages[p].seen)

\* The page before is read again from the place where it began.
BackPage(p) ==
    /\ LET q == pages[p].previous
       IN  /\ q # 0
           /\ ShowPage(pages[q].of, pages[q].from, pages[q].previous,
                       Under(pages[q].of, pages[q].from), {})

-----------------------------------------------------------------------------
(* The surroundings.                                                       *)

\* A customer's message, a colleague's reply or a notice moves a conversation
\* up, or begins it; the walks owe it no more.
Moves(c) ==
    /\ newest[c] # clock
    /\ newest' = [newest EXCEPT ![c] = clock]
    /\ pages' = [p \in Saved |->
                    IF pages[p].of = 0
                    THEN [pages[p] EXCEPT !.owed = @ \ {c}, !.seen = @ \ {c}]
                    ELSE pages[p]]
    /\ UNCHANGED <<clock, messages>>

\* A sort id is made before the message is stored: it may come in late.
MessageStored(c, m) ==
    /\ m \notin messages[c]
    /\ messages' = [messages EXCEPT ![c] = @ \cup {m}]
    /\ UNCHANGED <<clock, newest, pages>>

ClockTicks ==
    /\ clock < MaxClock
    /\ clock' = clock + 1
    /\ UNCHANGED <<newest, messages, pages>>

InboxNext ==
    \/ \E kind \in {0} \cup ReadChats : OpenPage(kind)
    \/ \E p \in Saved : Further(p) \/ BackPage(p)
    \/ \E c \in ClientChats : Moves(c)
    \/ \E c \in ReadChats : \E m \in Entries : MessageStored(c, m)
    \/ ClockTicks

InboxSpec == InboxInit /\ [][InboxNext]_inboxVars

-----------------------------------------------------------------------------
\* A walk that has come to its end has shown everything that was there when
\* it began and has not moved since, and none of it twice, whatever moved or
\* arrived between two presses (TelegramConversations, InboxHistory and the
\* places saved with the pages).
WalksMissNothing ==
    \A p \in Saved : /\ ~pages[p].twice
                     /\ pages[p].next = Start => pages[p].owed = {}
=============================================================================
