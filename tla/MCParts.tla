------------------------------ MODULE MCParts -------------------------------
(***************************************************************************)
(* Seven parts that share no state: five keep theirs in rows of one        *)
(* notification store, the sixth is the staff inbox, the seventh the       *)
(* choosing of a treatment.  A behaviour runs one of them: their product   *)
(* would only multiply states.                                             *)
(***************************************************************************)
EXTENDS ContactPermissions, CabinetIdentity, ChannelHealth, SmsWatch,
        StudioAccount, StaffInbox, CatalogueDialogue, TLC

CONSTANTS x, y, z, face, body  \* treatments and their categories

VARIABLE part

MCCategoryOf == [s \in {x, y, z} |-> IF s = z THEN body ELSE face]

storeVars == <<contactVars, cabinetVars, healthVars, smsVars, accountVars>>

MCvars == <<storeVars, inboxVars, dialogueVars, part>>

MCInit ==
    /\ part \in {"contacts", "cabinet", "health", "sms", "account", "inbox", "dialogue"}
    /\ ContactInit /\ CabinetInit /\ HealthInit /\ SmsInit /\ AccountInit
    /\ InboxInit /\ DialogueInit

MCNext ==
    /\ UNCHANGED part
    /\ \/ /\ part = "contacts" /\ ContactNext
          /\ UNCHANGED <<cabinetVars, healthVars, smsVars, accountVars, inboxVars, dialogueVars>>
       \/ /\ part = "cabinet" /\ CabinetNext
          /\ UNCHANGED <<contactVars, healthVars, smsVars, accountVars, inboxVars, dialogueVars>>
       \/ /\ part = "health" /\ HealthNext
          /\ UNCHANGED <<contactVars, cabinetVars, smsVars, accountVars, inboxVars, dialogueVars>>
       \/ /\ part = "sms" /\ SmsNext
          /\ UNCHANGED <<contactVars, cabinetVars, healthVars, accountVars, inboxVars, dialogueVars>>
       \/ /\ part = "account" /\ AccountNext
          /\ UNCHANGED <<contactVars, cabinetVars, healthVars, smsVars, inboxVars, dialogueVars>>
       \/ part = "inbox" /\ InboxNext /\ UNCHANGED <<storeVars, dialogueVars>>
       \/ part = "dialogue" /\ DialogueNext /\ UNCHANGED <<storeVars, inboxVars>>

MCSpec == MCInit /\ [][MCNext]_MCvars

Symmetry == Permutations(Chats)

\* The type invariants of the seven modules.
TypeOK ==
    /\ ContactTypeOK /\ CabinetTypeOK /\ HealthTypeOK /\ SmsTypeOK
    /\ AccountTypeOK /\ InboxTypeOK /\ DialogueTypeOK
=============================================================================
