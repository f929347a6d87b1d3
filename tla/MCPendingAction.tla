---------------------------- MODULE MCPendingAction ----------------------------
(***************************************************************************)
(* An employee and a manager, two requests served at a time and two rows,  *)
(* which all of them race for.  No symmetry: a liveness property is        *)
(* checked.                                                                *)
(***************************************************************************)
EXTENDS PendingAction
=============================================================================
