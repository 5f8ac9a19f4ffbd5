--------------------------- MODULE CabinetIdentity --------------------------
(***************************************************************************)
(* The proof of a phone: a challenge for each chat, a code by SMS, and     *)
(* budgets of codes for the chat and for the phone.                        *)
(*                                                                         *)
(* A customer proves a phone by sharing the chat's own Telegram contact or *)
(* by entering the code sent to that phone; Telegram itself may also       *)
(* resolve a phone to the chat's user when the studio account writes to    *)
(* it.  A message that looks like a code is checked, one that looks like a *)
(* phone asks for a code.  Every operation is one transaction.             *)
(***************************************************************************)
EXTENDS NotificationStore, Integers

CONSTANTS
    Numbers,      \* the phones that customers prove
    MaxSends,     \* codes in an hour, for a chat and for a phone (5)
    MaxAttempts,  \* attempts at one code (5)
    MaxHours,     \* bound: budget windows that end
    MaxGuesses    \* bound: codes customers enter against one phone's codes

ASSUME CabinetAssumption ==
    /\ None \notin Numbers /\ Chats \cap Numbers = {}
    /\ MaxSends \in Nat /\ MaxAttempts \in Nat
    /\ MaxHours \in Nat /\ MaxGuesses \in Nat

VARIABLES
    challenge,  \* the verification in progress in each chat
    budget,     \* the codes sent for each chat and to each phone
    proof,      \* the phone each chat has proved
    hours,      \* the windows that have ended
    guesses,    \* history: codes entered against each phone's codes
    windows     \* history: budget windows opened for each phone

cabinetVars == <<challenge, budget, proof, hours, guesses, windows>>

Challenges == [state : {"", "phone", "code", "locked"}, live : BOOLEAN,
               phone : Numbers \cup {None}, attempts : 0..MaxAttempts]

\* paced: less than a minute since the last code; old: the window began an
\* hour ago or more.
Budgets == [sends : 0..MaxSends, paced : BOOLEAN, old : BOOLEAN]

CabinetTypeOK ==
    /\ challenge \in [Chats -> Challenges]
    /\ budget \in [Chats \cup Numbers -> Budgets]
    /\ proof \in [Chats -> Numbers \cup {None}]
    /\ hours \in 0..MaxHours
    /\ guesses \in [Numbers -> 0..MaxGuesses]
    /\ windows \in [Numbers -> 0..(MaxHours + 1)]

CabinetInit ==
    /\ challenge = [c \in Chats |-> [state |-> "", live |-> FALSE, phone |-> None,
                                     attempts |-> 0]]
    /\ budget = [e \in Chats \cup Numbers |->
                    [sends |-> 0, paced |-> FALSE, old |-> TRUE]]
    /\ proof = [c \in Chats |-> None]
    /\ hours = 0
    /\ guesses = [p \in Numbers |-> 0]
    /\ windows = [p \in Numbers |-> 0]

Waits(c, state) == challenge[c].state = state /\ challenge[c].live

-----------------------------------------------------------------------------
\* "/appointments" of a chat that has proved no phone begins; "/verify"
\* cancels and then begins.
Begin(c) ==
    /\ ~Waits(c, "code")
    /\ challenge' = [challenge EXCEPT ![c].state = "phone", ![c].live = TRUE]
    /\ UNCHANGED <<budget, proof, hours, guesses, windows>>

Cancel(c) ==
    /\ challenge' = [challenge EXCEPT ![c].state = ""]
    /\ UNCHANGED <<budget, proof, hours, guesses, windows>>

SendsNow(entry) == IF budget[entry].old THEN 0 ELSE budget[entry].sends

MayResend(entry) == ~budget[entry].paced

MaySend(entry) == ~budget[entry].paced /\ SendsNow(entry) < MaxSends

Charged(entry) ==
    [sends |-> SendsNow(entry) + 1, paced |-> TRUE, old |-> FALSE]

\* The customer sends a phone.  A refusal changes nothing: the transaction
\* is given up.  The SMS leaves after the transaction, and whether it arrives
\* changes no row.
Send(c, p) ==
    /\ Waits(c, "phone")
    /\ MaySend(c) /\ MaySend(p)
    /\ budget' = [budget EXCEPT ![c] = Charged(c), ![p] = Charged(p)]
    /\ challenge' = [challenge EXCEPT ![c].phone = p, ![c].state = "code",
                                      ![c].attempts = 0, ![c].live = TRUE]
    /\ windows' = IF budget[p].old THEN [windows EXCEPT ![p] = @ + 1] ELSE windows
    /\ UNCHANGED <<proof, hours, guesses>>

\* The customer enters a code.
Enter(c) ==
    /\ Waits(c, "code")
    /\ challenge[c].attempts < MaxAttempts
    /\ guesses[challenge[c].phone] < MaxGuesses
    /\ guesses' = [guesses EXCEPT ![challenge[c].phone] = @ + 1]

ConfirmRight(c) ==
    /\ Enter(c)
    /\ proof' = [proof EXCEPT ![c] = challenge[c].phone]
    /\ challenge' = [challenge EXCEPT ![c].state = "", ![c].phone = None,
                                      ![c].attempts = @ + 1]
    /\ UNCHANGED <<budget, hours, windows>>

ConfirmUnlocked(c) ==
    /\ Waits(c, "code")
    /\ guesses[challenge[c].phone] < MaxGuesses
    /\ guesses' = [guesses EXCEPT ![challenge[c].phone] = @ + 1]
    /\ challenge' = [challenge EXCEPT ![c].attempts = @ + 1]
    /\ UNCHANGED <<budget, proof, hours, windows>>

ConfirmWrong(c) ==
    /\ Enter(c)
    /\ LET tried == challenge[c].attempts + 1
       IN  challenge' = [challenge EXCEPT ![c].attempts = tried,
                             ![c].state = IF tried >= MaxAttempts THEN "locked"
                                          ELSE "code"]
    /\ UNCHANGED <<budget, proof, hours, windows>>

\* The chat's own contact, shared while the verification waits for a phone.
\* At any other time a contact links the chat for notices (StartLink of
\* ContactPermissions); a redelivery of the accepted message changes nothing.
AcceptTelegramContact(c, p) ==
    /\ Waits(c, "phone")
    /\ proof' = [proof EXCEPT ![c] = p]
    /\ challenge' = [challenge EXCEPT ![c].state = ""]
    /\ UNCHANGED <<budget, hours, guesses, windows>>

\* The studio account wrote to a phone, which Telegram resolved to the user.
RecordTelegramResolution(c, p) ==
    /\ proof[c] # p
    /\ proof' = [proof EXCEPT ![c] = p]
    /\ UNCHANGED <<challenge, budget, hours, guesses, windows>>

-----------------------------------------------------------------------------
(* Time.                                                                   *)

ChallengeExpires(c) ==
    /\ challenge[c].live
    /\ challenge' = [challenge EXCEPT ![c].live = FALSE]
    /\ UNCHANGED <<budget, proof, hours, guesses, windows>>

MinutePasses ==
    /\ \E e \in DOMAIN budget : budget[e].paced
    /\ budget' = [e \in DOMAIN budget |-> [budget[e] EXCEPT !.paced = FALSE]]
    /\ UNCHANGED <<challenge, proof, hours, guesses, windows>>

\* An hour has passed since the window of one chat or phone began; a code
\* sent late in it may still be valid.
WindowEnds(e) ==
    /\ hours < MaxHours
    /\ ~budget[e].old
    /\ hours' = hours + 1
    /\ budget' = [budget EXCEPT ![e].old = TRUE]
    /\ UNCHANGED <<challenge, proof, guesses, windows>>

ProofExpires(c) ==
    /\ proof[c] # None
    /\ proof' = [proof EXCEPT ![c] = None]
    /\ UNCHANGED <<challenge, budget, hours, guesses, windows>>

CabinetNext ==
    \/ \E c \in Chats :
          \/ Begin(c) \/ Cancel(c)
          \/ ConfirmRight(c) \/ ConfirmWrong(c)
          \/ ChallengeExpires(c) \/ ProofExpires(c)
          \/ \E p \in Numbers : Send(c, p) \/ AcceptTelegramContact(c, p)
                             \/ RecordTelegramResolution(c, p)
    \/ MinutePasses
    \/ \E e \in DOMAIN budget : WindowEnds(e)

CabinetSpec == CabinetInit /\ [][CabinetNext]_cabinetVars

-----------------------------------------------------------------------------
\* However many chats try, and however often they cancel, begin again or let
\* codes expire, the codes of one phone are guessed at most MaxSends times
\* MaxAttempts in each budget window of that phone (Send's two budgets,
\* Confirm's attempts).
GuessingIsLimited ==
    \A p \in Numbers : guesses[p] <= MaxSends * MaxAttempts * windows[p]
=============================================================================
