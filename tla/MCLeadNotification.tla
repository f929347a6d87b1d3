--------------------------- MODULE MCLeadNotification ---------------------------
(***************************************************************************)
(* Leads, two users (one without a phone), two concurrent webhook requests *)
(* and the poller.                                                         *)
(***************************************************************************)
EXTENDS LeadNotification
=============================================================================
