---------------------------- MODULE GreenApiHealth ----------------------------
(***************************************************************************)
(* The monitor of the Green API instance.  Webhooks of state changes and a *)
(* poll every five minutes feed handleGreenApiStateChange, which decides   *)
(* from the previous state, kept in memory, whether to write to the        *)
(* operators, and remembers when it last did.                              *)
(***************************************************************************)
EXTENDS Naturals

CONSTANTS
    MaxMisses,    \* bound: alerts that reach nobody, and polls that fail
    MaxRestarts   \* bound: restarts of the process

ASSUME HealthAssumption == MaxMisses \in Nat /\ MaxRestarts \in Nat

VARIABLES
    instance,   \* the state the instance is in
    hooks,      \* states whose webhooks are on the way
    known,      \* lastKnownState
    cooled,     \* 30 minutes have passed since lastAlertAt
    tried,      \* what the last alert sent off said: "down", "up" or nothing
    told,       \* what the last alert that reached an operator said
    misses, restarts

health == <<known, cooled, tried, told>>
hvars  == <<instance, hooks, known, cooled, tried, told, misses, restarts>>

\* Two states a human must mend, a warning, and the good one; starting and
\* unknown states are treated like the warning.
Bad   == {"notAuthorized", "blocked"}
State == Bad \cup {"yellowCard", "authorized"}

HealthInit ==
    /\ instance = "authorized"
    /\ hooks = {}
    /\ known = "none"
    /\ cooled = TRUE
    /\ tried = "none"
    /\ told = "none"
    /\ misses = 0
    /\ restarts = 0

\* The instance changes; its webhook may be lost, late or overtaken.
Change(s) ==
    /\ s # instance
    /\ instance' = s
    /\ \E h \in {hooks, hooks \cup {s}} : hooks' = h
    /\ UNCHANGED <<health, misses, restarts>>

\* Mutant: authorized after anything else is a recovery.
ReasonEager(s) ==
    CASE s \in Bad /\ known \notin Bad                   -> "went_bad"
      [] s = "authorized" /\ known # "authorized"       -> "recovered"
      [] s \in Bad /\ known \in Bad
         /\ (s # known \/ cooled)                        -> "still_bad"
      [] OTHER                                           -> "none"

\* Mutant: no reminder while the instance stays bad.
ReasonOnce(s) ==
    CASE s \in Bad /\ known \notin Bad         -> "went_bad"
      [] s = "authorized" /\ known \in Bad     -> "recovered"
      [] OTHER                                 -> "none"

\* The decision.  A recovery is one only from a bad state straight to
\* authorized.
Reason(s) ==
    CASE s \in Bad /\ known \notin Bad         -> "went_bad"
      [] s = "authorized" /\ known \in Bad     -> "recovered"
      [] s \in Bad /\ known \in Bad
         /\ (s # known \/ cooled)              -> "still_bad"
      [] OTHER                                 -> "none"

Saying(reason) == IF reason = "recovered" THEN "up" ELSE "down"

\* sendToOpsRecipients swallows every failure.
SendToOps(reason) ==
    /\ tried' = Saying(reason)
    /\ \/ /\ told' = Saying(reason)
          /\ UNCHANGED misses
       \/ /\ misses < MaxMisses
          /\ misses' = misses + 1
          /\ UNCHANGED told

\* handleGreenApiStateChange: the state is remembered before the alert is
\* sent, the time of the alert before it has arrived.
Handle(s) ==
    /\ known' = s
    /\ IF Reason(s) = "none"
       THEN UNCHANGED <<cooled, tried, told, misses>>
       ELSE cooled' = FALSE /\ SendToOps(Reason(s))

\* pollGreenApiState; one that fails changes nothing.
Poll ==
    /\ Handle(instance)
    /\ UNCHANGED <<instance, hooks, restarts>>

\* stateInstanceChanged, acknowledged before it is handled.
StateHook ==
    /\ \E s \in hooks : Handle(s) /\ hooks' = hooks \ {s}
    /\ UNCHANGED <<instance, restarts>>

CoolDown ==
    /\ ~cooled
    /\ cooled' = TRUE
    /\ UNCHANGED <<instance, hooks, known, tried, told, misses, restarts>>

\* Nothing of it is persisted.
Restart ==
    /\ restarts < MaxRestarts
    /\ restarts' = restarts + 1
    /\ known' = "none"
    /\ cooled' = TRUE
    /\ UNCHANGED <<instance, hooks, tried, told, misses>>

HealthNext ==
    \/ \E s \in State : Change(s)
    \/ Poll \/ StateHook \/ CoolDown \/ Restart

\* The scheduler polls for ever and time passes; webhooks are delivered.
HealthFairness == WF_hvars(Poll) /\ WF_hvars(StateHook) /\ WF_hvars(CoolDown)

HealthSpec == HealthInit /\ [][HealthNext]_hvars /\ HealthFairness

-----------------------------------------------------------------------------
(* Properties                                                              *)

HealthTypeOK ==
    /\ instance \in State
    /\ hooks \subseteq State
    /\ known \in State \cup {"none"}
    /\ cooled \in BOOLEAN
    /\ {tried, told} \subseteq {"none", "down", "up"}
    /\ misses \in Nat /\ restarts \in Nat

\* Operators read of a recovery only if the outage was announced before,
\* whatever order webhooks and polls come in, and a state known to be bad
\* has been announced.
AnnouncedBeforeRecovered ==
    /\ [](known \in Bad => tried = "down")
    /\ [][tried' = "up" /\ tried # "up" => tried = "down"]_hvars

\* An outage that lasts reaches the operators in the end, even if alerts
\* about it failed and its webhook was lost.
LastingOutageIsTold ==
    <>[](instance \in Bad) => <>[](told = "down")
=============================================================================
