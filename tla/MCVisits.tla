-------------------------------- MODULE MCVisits --------------------------------
(***************************************************************************)
(* The visits and the sessions by which customers follow the trips to      *)
(* them.  Visits is about the tools that write a visit, LiveTracking about *)
(* the messages that write visit and session side by side; a behaviour     *)
(* follows one of them while the other is as it begins.                    *)
(*                                                                         *)
(* Visits: a task with a visit, which may get another, and two workers.    *)
(* Sessions: two workers, two visits, two messages served at once.  Both   *)
(* take their workers, visits and slots from the same sets.                *)
(***************************************************************************)
EXTENDS Visits, LiveTracking, TLC

VARIABLE side

all == <<side, vvars, vars>>

Symmetry == Permutations(Handler) \cup Permutations(Worker) \cup Permutations(Field)

\* Without visits, behaviours of the sessions are as symmetric as they are.
MCInit ==
    /\ Init
    /\ \/ side = "visits" /\ VisitsInit
       \/ /\ side = "sessions"
          /\ owner = [t \in Task |-> Unset]
          /\ task = [v \in Visit |-> Unset]
          /\ Quiescent

Called == side = "visits" /\ VisitsNext /\ UNCHANGED <<side, vars>>
Served == side = "sessions" /\ Next /\ UNCHANGED <<side, vvars>>

MCSpec == MCInit /\ [][Called \/ Served]_all
=============================================================================
