------------------------ MODULE MCNotificationOutbox ------------------------
(***************************************************************************)
(* Small instances of NotificationOutbox: an appointment that is cancelled *)
(* once, WhatsApp before Telegram, so that a failed message falls back.    *)
(***************************************************************************)
EXTENDS NotificationOutbox

CONSTANTS w1, w2, v1, off
TwoRoutes == <<"whatsapp", "telegram">>
=============================================================================
