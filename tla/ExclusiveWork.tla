---------------------------- MODULE ExclusiveWork ----------------------------
(***************************************************************************)
(* What the claims promise to everything built on them, without leases,    *)
(* time or crashes: a piece of work is in the hands of one request at a    *)
(* time, and once it is finished nobody takes it up again.                 *)
(***************************************************************************)
CONSTANTS Keys, Requests

VARIABLES
    holders,   \* for each key, the requests that believe they hold it
    finished   \* the keys whose work is recorded as done

vars == <<holders, finished>>

Init ==
    /\ holders = [k \in Keys |-> {}]
    /\ finished = {}

Take(k, r) ==
    /\ holders[k] = {}
    /\ k \notin finished
    /\ holders' = [holders EXCEPT ![k] = {r}]
    /\ UNCHANGED finished

Finish(k) ==
    /\ holders[k] # {}
    /\ holders' = [holders EXCEPT ![k] = {}]
    /\ finished' = finished \cup {k}

\* Requests may drop what they hold at any time: an error path, or a crash
\* that takes a whole instance with it.
Drop(rs) ==
    /\ holders' = [k \in Keys |-> holders[k] \ rs]
    /\ UNCHANGED finished

\* A request may give one key back and keep another.
GiveBack(k) ==
    /\ holders' = [holders EXCEPT ![k] = {}]
    /\ UNCHANGED finished

Next ==
    \/ \E k \in Keys, r \in Requests : Take(k, r)
    \/ \E k \in Keys : Finish(k)
    \/ \E k \in Keys : GiveBack(k)
    \/ \E rs \in SUBSET Requests : Drop(rs)

Spec == Init /\ [][Next]_vars
=============================================================================
