--------------------------- MODULE MCParts_proofs ---------------------------
(***************************************************************************)
(* Proofs about the seven parts as MCParts puts them side by side.         *)
(*                                                                         *)
(* A behaviour of MCSpec is, for each part, a behaviour of that part's own *)
(* specification: every step is one of its steps or leaves its variables   *)
(* alone.  So what is proved of a part holds here.                         *)
(***************************************************************************)
EXTENDS MCParts, NotificationStore_proofs, StaffInbox_proofs, CatalogueDialogue_proofs

LEMMA PartsStart ==
    MCInit => /\ ContactInit /\ CabinetInit /\ HealthInit /\ SmsInit
              /\ AccountInit /\ InboxInit /\ DialogueInit
BY DEF MCInit

LEMMA PartsStep ==
    [MCNext]_MCvars =>
        /\ [ContactNext]_contactVars /\ [CabinetNext]_cabinetVars
        /\ [HealthNext]_healthVars /\ [SmsNext]_smsVars /\ [AccountNext]_accountVars
        /\ [InboxNext]_inboxVars /\ [DialogueNext]_dialogueVars
BY DEF MCNext, MCvars, storeVars

\* Each part behaves as it does alone.
THEOREM PartsBehave ==
    MCSpec => /\ ContactSpec /\ CabinetSpec /\ HealthSpec /\ SmsSpec
              /\ AccountSpec /\ InboxSpec /\ DialogueSpec
BY PartsStart, PartsStep, PTL
   DEF MCSpec, ContactSpec, CabinetSpec, HealthSpec, SmsSpec, AccountSpec, InboxSpec,
       DialogueSpec

\* The rows, requests, pages and conversations of all parts keep their types.
THEOREM PartsTypes == MCSpec => []TypeOK
<1>1. /\ ContactInv => ContactTypeOK
      /\ CabinetInv => CabinetTypeOK
      /\ HealthInv => HealthTypeOK
      /\ SmsInv => SmsTypeOK
      /\ AccountInv => AccountTypeOK
      BY DEF ContactInv, CabinetInv, HealthInv, SmsInv, AccountInv
<1>2. /\ ContactTypeOK /\ CabinetTypeOK /\ HealthTypeOK /\ SmsTypeOK
      /\ AccountTypeOK /\ InboxTypeOK /\ DialogueTypeOK
      => TypeOK
      BY DEF TypeOK
<1>3. QED BY PartsBehave, <1>1, <1>2, ContactInvariance, CabinetInvariance, HealthInvariance,
              SmsInvariance, AccountInvariance, InboxTypes, DialogueTypes, PTL
=============================================================================
