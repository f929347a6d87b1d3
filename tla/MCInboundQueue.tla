---------------------------- MODULE MCInboundQueue ----------------------------
(***************************************************************************)
(* Two Meta messages, which one POST may carry together, and one that      *)
(* arrives through Green API; two concurrent POSTs and both sweeps.  The   *)
(* limits are small enough to be reached: fallbackSeen holds one id, a     *)
(* sweep claims one row.                                                   *)
(***************************************************************************)
EXTENDS InboundQueue
=============================================================================
