----------------------------- MODULE DueDateChange -----------------------------
(***************************************************************************)
(* What the approval of a due date change promises, without its routes,    *)
(* races and failures: a change that somebody asked for is granted or      *)
(* turned down once and for all, only a manager or an admin grants it, and *)
(* the due date is written at most once, after the grant.                  *)
(***************************************************************************)
CONSTANTS
    User,       \* users of the bot
    Elevated,   \* those of them who are MANAGER or ADMIN
    Action,     \* identities of requests
    None        \* no user

VARIABLES
    verdict,    \* verdict[a]: what has become of request a
    grantor,    \* grantor[a]: who granted it
    changed     \* the requests whose due date has been written

vars == <<verdict, grantor, changed>>

Verdict == {"none", "open", "granted", "refused"}

Init ==
    /\ verdict = [a \in Action |-> "none"]
    /\ grantor = [a \in Action |-> None]
    /\ changed = {}

\* A new request; some of the requests that are still open give way to it.
Ask(b, as) ==
    /\ verdict[b] = "none"
    /\ \A a \in as : verdict[a] = "open"
    /\ verdict' = [a \in Action |-> IF a \in as THEN "refused"
                                    ELSE IF a = b THEN "open" ELSE verdict[a]]
    /\ UNCHANGED <<grantor, changed>>

\* Turned down, withdrawn or expired, any number of them at once.
Refuse(as) ==
    /\ \A a \in as : verdict[a] = "open"
    /\ verdict' = [a \in Action |-> IF a \in as THEN "refused" ELSE verdict[a]]
    /\ UNCHANGED <<grantor, changed>>

Grant(a) ==
    /\ verdict[a] = "open"
    /\ \E u \in Elevated : grantor' = [grantor EXCEPT ![a] = u]
    /\ verdict' = [verdict EXCEPT ![a] = "granted"]
    /\ UNCHANGED changed

Change(a) ==
    /\ verdict[a] = "granted"
    /\ a \notin changed
    /\ changed' = changed \cup {a}
    /\ UNCHANGED <<verdict, grantor>>

Next ==
    \/ \E a \in Action : Grant(a) \/ Change(a)
    \/ \E as \in SUBSET Action : Refuse(as)
    \/ \E b \in Action, as \in SUBSET Action : Ask(b, as)

Spec == Init /\ [][Next]_vars
=============================================================================
