------------------------------- MODULE MCSending -------------------------------
(***************************************************************************)
(* What the process sends of its own accord, the transport it sends        *)
(* through, and the monitor of the transport's instance.  They share no    *)
(* state, so a behaviour follows one of them while the others are as they  *)
(* begin.                                                                  *)
(*                                                                         *)
(* Jobs: two instances of the process and two subjects.  Transport: two    *)
(* numbered prompts for one phone.                                         *)
(***************************************************************************)
EXTENDS ScheduledJobs, Outbound, GreenApiHealth, TLC

CONSTANTS i1, i2, s1, s2, p1, p2

VARIABLE side

all == <<side, jvars, vars, hvars>>

\* No subject, instance or prompt is told from another.  LastingOutageIsTold is
\* about the monitor, in whose behaviours these do not change.
MCSymmetry ==
    Permutations({i1, i2}) \cup Permutations({s1, s2}) \cup Permutations({p1, p2})

MCInit ==
    /\ side \in {"jobs", "transport", "monitor"}
    /\ JobsInit /\ Init /\ HealthInit
    /\ job \notin Filtered => limit = 1    \* the others have no LIMIT
    /\ side # "jobs" => job = "morning" /\ time = [s \in Subject |-> 1]
    /\ side # "transport" => up

Jobs      == side = "jobs" /\ JobsNext /\ UNCHANGED <<side, vars, hvars>>
Transport == side = "transport" /\ Next /\ UNCHANGED <<side, jvars, hvars>>
Monitor   == side = "monitor" /\ HealthNext /\ UNCHANGED <<side, jvars, vars>>

InMonitor == side = "monitor" /\ UNCHANGED <<side, jvars, vars>>

MCSpec ==
    /\ MCInit
    /\ [][Jobs \/ Transport \/ Monitor]_all
    /\ WF_all(Poll /\ InMonitor)
    /\ WF_all(StateHook /\ InMonitor)
    /\ WF_all(CoolDown /\ InMonitor)
=============================================================================
