----------------------------- MODULE ClaimStore -----------------------------
(***************************************************************************)
(* The processing leases of the delivery store: what Claim, Complete and   *)
(* Release do to the document kept under one key.  The store keeps a       *)
(* document per customer delivery, one per relayed staff message, and one  *)
(* per conversation, which is how a conversation is locked.                *)
(*                                                                         *)
(* Times are kept as the ticks that remain, never as absolute instants:    *)
(* "expires_at is after now" is "ttl > 0".  A completed record outlives    *)
(* every provider's retry window (24 hours), so it does not age here.      *)
(***************************************************************************)
EXTENDS Naturals

CONSTANTS
    Requests,   \* the requests being served; each one draws its own claim id
    NoRequest,  \* "no claim id"
    ClaimTTL    \* lifetime of an unfinished claim, in ticks (5 minutes)

ASSUME ClaimStoreAssumption ==
    /\ NoRequest \notin Requests
    /\ ClaimTTL \in Nat \ {0}

Entry == [owner : Requests \cup {NoRequest}, ttl : 0..ClaimTTL, done : BOOLEAN]

Absent    == [owner |-> NoRequest, ttl |-> 0, done |-> FALSE]
Completed == [owner |-> NoRequest, ttl |-> 0, done |-> TRUE]

\* A live unfinished claim answers ErrDeliveryBusy and a completed record
\* answers "not claimed"; anything else is overwritten.
LeasedBusy(e) == ~e.done /\ e.ttl > 0

ClaimableIgnoringLease(e) == ~e.done
Claimable(e) == ~e.done /\ e.ttl = 0

LeaseTooShort(r) == [owner |-> r, ttl |-> 0, done |-> FALSE]
LeaseTooLong(r) == [owner |-> r, ttl |-> ClaimTTL + 1, done |-> FALSE]
ClaimedBy(r) == [owner |-> r, ttl |-> ClaimTTL, done |-> FALSE]

\* Complete checks who owns the claim, not whether it has expired.
CompleteForgets(e, r) == IF e.owner = r THEN Absent ELSE e
CompleteEntry(e, r) == IF e.owner = r THEN Completed ELSE e

\* Release gives the key back only while the caller's claim is unfinished.
ReleaseEntry(e, r) == IF e.owner = r /\ ~e.done THEN Absent ELSE e

Elapsed(e) == [e EXCEPT !.ttl = IF @ > 0 THEN @ - 1 ELSE 0]
=============================================================================
