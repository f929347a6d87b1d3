------------------------- MODULE MCWorkerConversation -------------------------
(***************************************************************************)
(* Two visits, one of them the worker's at the beginning, and two messages *)
(* served at a time.  The slots are interchangeable.                       *)
(***************************************************************************)
EXTENDS WorkerConversation, TLC

Symmetry == Permutations(Handler)
=============================================================================
