----------------------------- MODULE MCReminders -----------------------------
(***************************************************************************)
(* Small instances of Reminders: one appointment that may be moved between *)
(* two starts, so that the later one is beyond the queue's horizon.        *)
(***************************************************************************)
EXTENDS Reminders

CONSTANTS b1, w1, w2
=============================================================================
