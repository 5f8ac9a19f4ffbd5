-------------------------- MODULE NotificationStore -------------------------
(***************************************************************************)
(* Whose rows the notification store keeps.  The store runs a function     *)
(* over a few named rows in one transaction, which commits whole or not at *)
(* all; a function that returns an error changes nothing.  That is why one *)
(* such call is one step in the modules that extend this one.              *)
(***************************************************************************)
CONSTANTS
    Chats,   \* chats of customers
    Phones,  \* phone numbers
    None     \* no chat, no phone, no holder of a lease
=============================================================================
