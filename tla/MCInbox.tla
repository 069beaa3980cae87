-------------------------------- MODULE MCInbox --------------------------------
(* Small instances of Inbox: a tenant's Admin, an Integration Admin, and one   *)
(* user of any role.                                                           *)
EXTENDS Inbox

CONSTANTS theAdmin, theIntegrationAdmin

MCInit ==
    /\ InboxInit
    /\ role[theAdmin] = "ADMIN"
    /\ role[theIntegrationAdmin] = "INTEGRATION_ADMIN"

MCSpec == MCInit /\ [][InboxNext]_allVars /\ InboxFairness
=============================================================================
