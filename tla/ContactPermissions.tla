------------------------- MODULE ContactPermissions -------------------------
(***************************************************************************)
(* Who may be sent booking notices, and by which route.                    *)
(*                                                                         *)
(* A customer's answer is kept in several rows of the notification store:  *)
(* one per Telegram chat, and for each phone one for Telegram, one for     *)
(* WhatsApp and one for what staff recorded.  Routes is what a notice is   *)
(* planned from.  Linking and unlinking a chat read the chat's row before  *)
(* the transaction that changes the rows, so two requests of one chat can  *)
(* overlap.                                                                *)
(***************************************************************************)
EXTENDS NotificationStore, Integers

CONSTANTS
    Requests,         \* webhook requests that may be in flight together
    Asked,            \* phones with a booking made in the public form, which
                      \* asks for notices; the others are booked by hand
    TelegramAccount,  \* whether the studio's own Telegram account may write
    MaxOperations     \* bound: operations of customers and staff

ASSUME ContactAssumption ==
    None \notin Chats \cup Phones /\ TelegramAccount \in BOOLEAN /\ MaxOperations \in Nat

VARIABLES
    chat,      \* the row of each chat
    byPhone,   \* the Telegram row of each phone
    whatsapp,  \* the WhatsApp row of each phone
    staff,     \* what staff recorded for each phone
    request,   \* the webhook request in progress
    operations,
    withdrawn  \* history: the routes withdrawn for each phone and not renewed

contactVars == <<chat, byPhone, whatsapp, staff, request, operations, withdrawn>>

Route == {"bot", "account", "whatsapp", "sms"}

\* A chat's row: the phone its owner shared, whether the link has not
\* expired, a withdrawal, and a request for the contact less than ten minutes
\* old.
ChatRows == [phone : Phones \cup {None}, live : BOOLEAN,
             blocked : BOOLEAN, asked : BOOLEAN]

PhoneRows == [chat : Chats \cup {None}, live : BOOLEAN, blocked : BOOLEAN]

NoPhoneRow == [chat |-> None, live |-> FALSE, blocked |-> FALSE]

Idle == [step |-> "idle"]

\* A request that has read the phone of its chat's row.
InFlight == [step : {"link"}, chat : Chats, phone : Phones,
             old : Phones \cup {None}]
            \cup [step : {"unlink"}, chat : Chats, old : Phones]

ContactTypeOK ==
    /\ chat \in [Chats -> ChatRows]
    /\ byPhone \in [Phones -> PhoneRows]
    /\ whatsapp \in [Phones -> {"none", "on", "off"}]
    /\ staff \in [Phones -> {"none", "allowed", "blocked"}]
    /\ request \in [Requests -> {Idle} \cup InFlight]
    /\ operations \in 0..MaxOperations
    /\ withdrawn \in [Phones -> SUBSET Route]

ContactInit ==
    /\ chat = [c \in Chats |-> [phone |-> None, live |-> FALSE,
                                blocked |-> FALSE, asked |-> FALSE]]
    /\ byPhone = [p \in Phones |-> NoPhoneRow]
    /\ whatsapp = [p \in Phones |-> "none"]
    /\ staff = [p \in Phones |-> "none"]
    /\ request = [r \in Requests |-> Idle]
    /\ operations = 0
    /\ withdrawn = [p \in Phones |-> {}]

Operate ==
    /\ operations < MaxOperations
    /\ operations' = operations + 1

-----------------------------------------------------------------------------
(* What a notice for a phone is planned from.                              *)

Requested(p) == p \in Asked \/ staff[p] = "allowed"

BotChat(p) ==
    IF byPhone[p].live /\ ~byPhone[p].blocked THEN byPhone[p].chat ELSE None

Plan(p) ==
    {route \in Route :
        CASE route = "bot" -> BotChat(p) # None
          [] route = "account" -> /\ TelegramAccount /\ Requested(p)
                                  /\ ~byPhone[p].blocked /\ BotChat(p) = None
          [] route = "whatsapp" -> whatsapp[p] = "on"
          [] route = "sms" -> Requested(p) /\ staff[p] # "blocked"}

-----------------------------------------------------------------------------
(* What staff record for a phone.                                          *)

AllowPhone(p) ==
    /\ Operate
    /\ staff' = [staff EXCEPT ![p] = "allowed"]
    /\ byPhone' = [byPhone EXCEPT ![p].blocked = FALSE]
    /\ withdrawn' = [withdrawn EXCEPT ![p] = @ \ {"bot", "account", "sms"}]
    /\ UNCHANGED <<chat, whatsapp, request>>

BlockPhoneButBot(p) ==
    /\ Operate
    /\ staff' = [staff EXCEPT ![p] = "blocked"]
    /\ whatsapp' = [whatsapp EXCEPT ![p] = "off"]
    /\ withdrawn' = [withdrawn EXCEPT ![p] = Route]
    /\ UNCHANGED <<chat, byPhone, request>>

\* Staff's /notification_block, and STOP in the customer's WhatsApp chat.
BlockPhone(p) ==
    /\ Operate
    /\ staff' = [staff EXCEPT ![p] = "blocked"]
    /\ byPhone' = [byPhone EXCEPT ![p].blocked = TRUE, ![p].live = FALSE]
    /\ whatsapp' = [whatsapp EXCEPT ![p] = "off"]
    /\ withdrawn' = [withdrawn EXCEPT ![p] = Route]
    /\ UNCHANGED <<chat, request>>

\* /notifications and /notifications_off in a WhatsApp chat.
LinkWhatsApp(p) ==
    /\ Operate
    /\ \/ /\ whatsapp' = [whatsapp EXCEPT ![p] = "on"]
          /\ withdrawn' = [withdrawn EXCEPT ![p] = @ \ {"whatsapp"}]
       \/ /\ whatsapp' = [whatsapp EXCEPT ![p] = "off"]
          /\ withdrawn' = [withdrawn EXCEPT ![p] = @ \cup {"whatsapp"}]
    /\ UNCHANGED <<chat, byPhone, staff, request>>

-----------------------------------------------------------------------------
(* What a customer does in a Telegram chat.                                *)

\* /notifications: the button that shares the customer's own contact.
RequestContact(c) ==
    /\ Operate
    /\ chat' = [chat EXCEPT ![c].asked = TRUE]
    /\ UNCHANGED <<byPhone, whatsapp, staff, request, withdrawn>>

\* A shared contact and /notifications_off first read the chat's row.
StartLink(r, c, p) ==
    /\ request[r] = Idle
    /\ Operate
    /\ request' = [request EXCEPT ![r] = [step |-> "link", chat |-> c,
                                          phone |-> p, old |-> chat[c].phone]]
    /\ UNCHANGED <<chat, byPhone, whatsapp, staff, withdrawn>>

StartUnlink(r, c) ==
    /\ request[r] = Idle
    /\ Operate
    /\ chat[c].phone # None
    /\ request' = [request EXCEPT ![r] = [step |-> "unlink", chat |-> c,
                                          old |-> chat[c].phone]]
    /\ UNCHANGED <<chat, byPhone, whatsapp, staff, withdrawn>>

End(r) == request' = [request EXCEPT ![r] = Idle]

Unmoved(r) == chat[request[r].chat].phone = request[r].old

AlreadyLinked(c, p) ==
    chat[c].phone = p /\ chat[c].live /\ byPhone[p].chat = c

TakenByOther(c, p) == byPhone[p].chat \notin {None, c} /\ byPhone[p].live

MayLinkMoved(r) ==
    LET c == request[r].chat
        p == request[r].phone
    IN  ~AlreadyLinked(c, p) /\ chat[c].asked /\ ~TakenByOther(c, p)

MayLink(r) ==
    LET c == request[r].chat
        p == request[r].phone
    IN  Unmoved(r) /\ ~AlreadyLinked(c, p) /\ chat[c].asked /\ ~TakenByOther(c, p)

\* The row of the phone the chat was linked to is erased if it still names
\* the chat.
Linked(r) ==
    LET c == request[r].chat
        p == request[r].phone
        old == request[r].old
    IN  [q \in Phones |->
            IF q = p THEN [chat |-> c, live |-> TRUE, blocked |-> FALSE]
            ELSE IF q = old /\ byPhone[q].chat = c THEN NoPhoneRow
            ELSE byPhone[q]]

LinkTelegram(r) ==
    /\ request[r].step = "link"
    /\ MayLink(r)
    /\ chat' = [chat EXCEPT ![request[r].chat] =
                    [phone |-> request[r].phone, live |-> TRUE,
                     blocked |-> FALSE, asked |-> FALSE]]
    /\ byPhone' = Linked(r)
    /\ withdrawn' = [withdrawn EXCEPT ![request[r].phone] = @ \ {"bot", "account"}]
    /\ End(r)
    /\ UNCHANGED <<whatsapp, staff, operations>>

\* Nothing to do, or nothing allowed: the chat is linked to the phone
\* already, another request moved it, the request for the contact is too old,
\* or the phone belongs to another chat.
LinkChangesNothing(r) ==
    /\ request[r].step = "link"
    /\ ~MayLink(r)
    /\ End(r)
    /\ UNCHANGED <<chat, byPhone, whatsapp, staff, operations, withdrawn>>

UnlinkTelegram(r) ==
    /\ request[r].step = "unlink"
    /\ LET c == request[r].chat
           p == request[r].old
       IN  IF Unmoved(r)
           THEN /\ chat' = [chat EXCEPT ![c].live = FALSE, ![c].blocked = TRUE]
                /\ IF byPhone[p].chat = c
                   THEN /\ byPhone' = [byPhone EXCEPT ![p].live = FALSE,
                                                      ![p].blocked = TRUE]
                        /\ withdrawn' = [withdrawn EXCEPT
                                             ![p] = @ \cup {"bot", "account"}]
                   ELSE UNCHANGED <<byPhone, withdrawn>>
           ELSE UNCHANGED <<chat, byPhone, withdrawn>>
    /\ End(r)
    /\ UNCHANGED <<whatsapp, staff, operations>>

\* The store fails the request, or the process dies: a transaction of it
\* commits whole or not at all.
FailRequest(r) ==
    /\ request[r] # Idle
    /\ End(r)
    /\ UNCHANGED <<chat, byPhone, whatsapp, staff, operations, withdrawn>>

-----------------------------------------------------------------------------
(* Time.  A link expires in both of its rows at once: they hold one time.  *)

LinkExpires(c) ==
    /\ chat[c].live
    /\ chat' = [chat EXCEPT ![c].live = FALSE]
    /\ byPhone' = [p \in Phones |-> IF byPhone[p].chat = c
                                    THEN [byPhone[p] EXCEPT !.live = FALSE]
                                    ELSE byPhone[p]]
    /\ UNCHANGED <<whatsapp, staff, request, operations, withdrawn>>

ContactRequestExpires(c) ==
    /\ chat[c].asked
    /\ chat' = [chat EXCEPT ![c].asked = FALSE]
    /\ UNCHANGED <<byPhone, whatsapp, staff, request, operations, withdrawn>>

PermissionExpires(p) ==
    /\ \/ /\ staff[p] = "allowed"
          /\ staff' = [staff EXCEPT ![p] = "none"]
          /\ UNCHANGED whatsapp
       \/ /\ whatsapp[p] = "on"
          /\ whatsapp' = [whatsapp EXCEPT ![p] = "none"]
          /\ UNCHANGED staff
    /\ UNCHANGED <<chat, byPhone, request, operations, withdrawn>>

ContactNext ==
    \/ \E p \in Phones : AllowPhone(p) \/ BlockPhone(p) \/ LinkWhatsApp(p)
                         \/ PermissionExpires(p)
    \/ \E c \in Chats : RequestContact(c) \/ LinkExpires(c)
                        \/ ContactRequestExpires(c)
    \/ \E r \in Requests : \/ \E c \in Chats : \/ StartUnlink(r, c)
                                             \/ \E p \in Phones : StartLink(r, c, p)
                           \/ LinkTelegram(r) \/ LinkChangesNothing(r)
                           \/ UnlinkTelegram(r) \/ FailRequest(r)

ContactSpec == ContactInit /\ [][ContactNext]_contactVars

-----------------------------------------------------------------------------
\* A notice for a phone goes by the bot only to the chat whose owner last
\* proved that phone and has not withdrawn since: the two rows of a link say
\* the same, however requests of one chat overlap (LinkTelegram's check that
\* the chat's phone has not changed, and its erasing of the older row).
RouteIsProven ==
    \A p \in Phones :
        LET c == BotChat(p)
        IN  c # None => chat[c].phone = p /\ chat[c].live /\ ~chat[c].blocked

\* A withdrawal stays in force on the bot's chat, WhatsApp and SMS until the
\* same phone is allowed or linked again (BlockPhone, UnlinkTelegram).  The
\* studio account's route is left out: a chat that moves to another phone
\* erases the older phone's row, and with it a withdrawal recorded there.
WithdrawalHolds ==
    \A p \in Phones : Plan(p) \cap withdrawn[p] \subseteq {"account"}
=============================================================================
