----------------------- MODULE MCManagerConversation -----------------------
(***************************************************************************)
(* One lead, one visit and one event.  Slots and values are                *)
(* interchangeable.                                                        *)
(***************************************************************************)
EXTENDS ManagerConversation, TLC

Symmetry == Permutations(Handler) \cup Permutations(Value)
=============================================================================
