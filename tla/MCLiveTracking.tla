----------------------------- MODULE MCLiveTracking -----------------------------
(***************************************************************************)
(* One worker, one visit, one message at a time: what the agent's tool     *)
(* does to a session takes no race.  The races are in MCVisits.            *)
(***************************************************************************)
EXTENDS LiveTracking
=============================================================================
