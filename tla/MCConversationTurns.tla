------------------------- MODULE MCConversationTurns -------------------------
(***************************************************************************)
(* Small instances of ConversationTurns.                                   *)
(***************************************************************************)
EXTENDS ConversationTurns, TLC

CONSTANTS r1, r2, i1, i2, d1, d2, s1, e1

\* Both requests on one instance, so that a newer message cancels an older turn.
OneInstance == r1 :> i1 @@ r2 :> i1

\* Each request on an instance of its own.
TwoInstances == r1 :> i1 @@ r2 :> i2

\* Commands in use.
TakeAndResume == {"take", "resume"}
=============================================================================
