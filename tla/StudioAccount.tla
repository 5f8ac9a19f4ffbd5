---------------------------- MODULE StudioAccount ---------------------------
(***************************************************************************)
(* The studio's own Telegram account, used by one send at a time.          *)
(*                                                                         *)
(* The account's session is kept in one row of the notification store.     *)
(* A send takes a lease on the row, loads the session, connects, and the   *)
(* client stores the session again as it changes.  The owner of the studio *)
(* installs a new session by hand when the account was logged in anew.  A  *)
(* send may stall past the end of its lease: its deadlines are kept by its *)
(* own instance.                                                           *)
(***************************************************************************)
EXTENDS NotificationStore, Integers

CONSTANTS
    Sends,        \* sends and connection checks that may overlap
    MaxInstalls,  \* bound: sessions installed
    MaxAccountFaults \* bound: stalls, crashes and flood waits

ASSUME AccountAssumption ==
    None \notin Sends /\ MaxInstalls \in Nat /\ MaxAccountFaults \in Nat

VARIABLES
    account,    \* the row: the stored session, the lease and the pause
    send,       \* the sends
    loaded,     \* the session each send works with
    installed,  \* history: the session installed last
    accountFaults

accountVars == <<account, send, loaded, installed, accountFaults>>

Account == [session : 0..MaxInstalls, owner : Sends \cup {None},
            leased : BOOLEAN, wait : {"none", "short", "flood"}]

AccountTypeOK ==
    /\ account \in Account
    /\ send \in [Sends -> {"idle", "waiting", "loading", "connected", "flooded",
                           "ending"}]
    /\ loaded \in [Sends -> 0..MaxInstalls]
    /\ installed \in 0..MaxInstalls
    /\ accountFaults \in 0..MaxAccountFaults

AccountInit ==
    /\ account = [session |-> 0, owner |-> None, leased |-> FALSE, wait |-> "none"]
    /\ send = [s \in Sends |-> "idle"]
    /\ loaded = [s \in Sends |-> 0]
    /\ installed = 0
    /\ accountFaults = 0

AccountFault ==
    /\ accountFaults < MaxAccountFaults
    /\ accountFaults' = accountFaults + 1

Goes(s, step) == send' = [send EXCEPT ![s] = step]

-----------------------------------------------------------------------------
\* Session 0 stands for none.
InstallSession ==
    /\ installed < MaxInstalls
    /\ ~account.leased
    /\ installed' = installed + 1
    /\ account' = [account EXCEPT !.session = installed + 1, !.owner = None]
    /\ UNCHANGED <<send, loaded, accountFaults>>

\* A send spaces itself from the one before; a check does not.  Both are
\* refused while another holds the lease, a send also while a flood wait
\* lasts.
ClaimAccount(s) ==
    /\ send[s] = "idle"
    /\ account.session # 0 /\ ~account.leased
    /\ \/ /\ account.wait # "flood"
          /\ account' = [account EXCEPT !.owner = s, !.leased = TRUE, !.wait = "short"]
          /\ Goes(s, IF account.wait = "short" THEN "waiting" ELSE "loading")
       \/ /\ account' = [account EXCEPT !.owner = s, !.leased = TRUE]
          /\ Goes(s, "loading")
    /\ UNCHANGED <<loaded, installed, accountFaults>>

Waited(s) ==
    /\ send[s] = "waiting"
    /\ Goes(s, "loading")
    /\ UNCHANGED <<account, loaded, installed, accountFaults>>

HoldsLease(s) == account.leased

HoldsAccount(s) == account.owner = s /\ account.leased

LoadSession(s) ==
    /\ send[s] = "loading"
    /\ IF HoldsAccount(s)
       THEN loaded' = [loaded EXCEPT ![s] = account.session] /\ Goes(s, "connected")
       ELSE Goes(s, "ending") /\ UNCHANGED loaded
    /\ UNCHANGED <<account, installed, accountFaults>>

\* The client stores its session, refused if the lease is not its own.
StoreSession(s) ==
    /\ send[s] = "connected"
    /\ HoldsAccount(s)
    /\ account' = [account EXCEPT !.session = loaded[s]]
    /\ UNCHANGED <<send, loaded, installed, accountFaults>>

\* The message was sent, rejected or in doubt; or Telegram asks to wait.
Transmit(s) ==
    /\ send[s] = "connected"
    /\ \/ Goes(s, "ending") /\ UNCHANGED accountFaults
       \/ Goes(s, "flooded") /\ AccountFault
    /\ UNCHANGED <<account, loaded, installed>>

CoolDown(s) ==
    /\ send[s] = "flooded"
    /\ account' = IF account.owner = s THEN [account EXCEPT !.wait = "flood"]
                  ELSE account
    /\ Goes(s, "ending")
    /\ UNCHANGED <<loaded, installed, accountFaults>>

Release(s) ==
    /\ send[s] = "ending"
    /\ account' = IF account.owner = s THEN [account EXCEPT !.leased = FALSE]
                  ELSE account
    /\ Goes(s, "idle")
    /\ loaded' = [loaded EXCEPT ![s] = 0]
    /\ UNCHANGED <<installed, accountFaults>>

\* The lease of a send that crashed or stalls runs out.
LeaseRunsOut ==
    /\ account.leased
    /\ AccountFault
    /\ account' = [account EXCEPT !.leased = FALSE]
    /\ UNCHANGED <<send, loaded, installed>>

WaitEnds ==
    /\ account.wait # "none"
    /\ account' = [account EXCEPT !.wait = "none"]
    /\ UNCHANGED <<send, loaded, installed, accountFaults>>

CrashSend(s) ==
    /\ send[s] # "idle"
    /\ AccountFault
    /\ Goes(s, "idle")
    /\ loaded' = [loaded EXCEPT ![s] = 0]
    /\ UNCHANGED <<account, installed>>

AccountNext ==
    \/ \E s \in Sends : \/ ClaimAccount(s) \/ Waited(s) \/ LoadSession(s)
                        \/ StoreSession(s) \/ Transmit(s) \/ CoolDown(s)
                        \/ Release(s) \/ CrashSend(s)
    \/ InstallSession \/ LeaseRunsOut \/ WaitEnds

AccountSpec == AccountInit /\ [][AccountNext]_accountVars

-----------------------------------------------------------------------------
\* The session in the store always descends from the one installed last: a
\* send that stalled while the owner installed a new one cannot put its own
\* old session back, even when another send holds the lease by then
\* (StoreSession's check of owner and lease, InstallSession's clearing of
\* the owner).
InstalledSessionSurvives == account.session = installed
=============================================================================
