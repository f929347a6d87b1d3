----------------------------- MODULE TrackingPage -----------------------------
(***************************************************************************)
(* What a customer sees of a trip: where the worker is, and when it is     *)
(* over.  The worker's phone posts fixes, each of which overwrites the one *)
(* row "WorkerLiveLocation" has for him; the page polls GET                *)
(* /tracking/:token, which reads session and row.  The minutes left, which *)
(* the same poll composes, are in TrackingEta.                             *)
(*                                                                         *)
(* The trip is over when its session is closed, superseded or expired;     *)
(* fixes are numbered in the order they are taken.  The phone keeps a fix  *)
(* until it is acknowledged, sends one at a time, and sends again what it  *)
(* gives up waiting for.  A tick of the clock is the pace of the page; the *)
(* page is opened at the departure, time 0.                                *)
(***************************************************************************)
EXTENDS Integers, Sequences, FiniteSets

CONSTANTS
    Lifetime,     \* DEFAULT_SESSION_HOURS, in ticks
    LongPause,    \* POLL_ARRIVED_MS and the longest back-off, in ticks
    Request,      \* slots for requests of the phone
    Visit,        \* slots for polls of the page
    MaxTime,      \* bound: ticks
    MaxFixes,     \* bound: fixes
    MaxTimeouts,  \* bound: requests the phone gives up waiting for
    MaxReturns,   \* bound: times the customer comes back to the page
    MaxFailures   \* bound: queries and answers that fail

ASSUME TrackingPageAssumption ==
    {Lifetime, LongPause, MaxTime, MaxFixes, MaxTimeouts, MaxReturns,
     MaxFailures} \subseteq Nat

VARIABLES
    now,
    trip,         \* the status of the session
    outbox,       \* fixes the phone holds
    taken,        \* fixes taken so far
    ping,         \* ping[r]: the fix request r carries, and whether the
                  \* phone waits for its answer
    live,         \* the fix in the row of "WorkerLiveLocation"
    poll,         \* poll[v]: how far a poll is and what it has read
    page,         \* what the page shows, whether it is on the screen, and
                  \* pollTimer
    orphans,      \* timers that are set, but no longer in pollTimer: when
                  \* they are due, and their handle
    backs,        \* times the page went back to an earlier fix
    timeouts, returns, failures

phone  == <<outbox, taken, ping, live, timeouts>>
screen == <<page, orphans, backs, returns>>
pvars  == <<now, trip, outbox, taken, ping, live, poll, page, orphans, backs,
            timeouts, returns, failures>>

Watched  == {"ACTIVE", "ARRIVED"}
Terminal == {"FINISHED", "CANCELED", "SUPERSEDED", "EXPIRED"}
NoPing   == [n |-> 0, waits |-> FALSE]
NoTimer  == <<MaxTime + LongPause + 1, 0>>
NoPoll   == [pc |-> "none"]
Failed   == [pc |-> "answer", status |-> "error", n |-> 0]

PageInit ==
    /\ now = 0
    /\ trip = "ACTIVE"
    /\ outbox = <<>>
    /\ taken = 0
    /\ ping = [r \in Request |-> NoPing]
    /\ live = 0
    /\ poll = [v \in Visit |-> NoPoll]
    /\ page = [status |-> "ACTIVE", n |-> 0, visible |-> TRUE,
                timer |-> <<1, 0>>]
    /\ orphans = {}
    /\ backs = 0 /\ timeouts = 0 /\ returns = 0 /\ failures = 0

Failure ==
    /\ failures < MaxFailures
    /\ failures' = failures + 1

-----------------------------------------------------------------------------
(* The world.                                                              *)

\* Timers fire in the order they are due; beyond the last tick they all are.
IsDue(t) ==
    /\ t # NoTimer
    /\ t[1] <= now \/ now = MaxTime
    /\ \A u \in orphans \cup {page.timer} : t[1] <= u[1]

\* A timer that is due fires before the clock goes on.
Tick ==
    /\ now < MaxTime
    /\ \A t \in orphans \cup {page.timer} : t[1] > now
    /\ now' = now + 1
    /\ UNCHANGED <<trip, phone, poll, screen, failures>>

\* How the status of a session changes.
SessionStep ==
    {<<"ACTIVE", "ARRIVED">>} \cup (Watched \X (Terminal \ {"EXPIRED"}))

ChangeSession(s) ==
    /\ <<trip, s>> \in SessionStep
    /\ trip' = s
    /\ UNCHANGED <<now, phone, poll, screen, failures>>

-----------------------------------------------------------------------------
(* The phone and POST /owntracks.                                          *)

TakeFix ==
    /\ taken < MaxFixes
    /\ taken' = taken + 1
    /\ outbox' = Append(outbox, taken + 1)
    /\ UNCHANGED <<now, trip, ping, live, timeouts, poll, screen, failures>>

Post(r) ==
    /\ outbox # <<>>
    /\ ping[r] = NoPing
    /\ \A q \in Request : ~ping[q].waits
    /\ ping' = [ping EXCEPT ![r] = [n |-> Head(outbox), waits |-> TRUE]]
    /\ UNCHANGED <<now, trip, outbox, taken, live, timeouts, poll, screen,
                   failures>>

\* The request stays under way, the fix at the head of the outbox.
GiveUp(r) ==
    /\ ping[r].waits
    /\ timeouts < MaxTimeouts
    /\ timeouts' = timeouts + 1
    /\ ping' = [ping EXCEPT ![r].waits = FALSE]
    /\ UNCHANGED <<now, trip, outbox, taken, live, poll, screen, failures>>

\* Always [], also if nothing was stored.
Acknowledge(r) ==
    /\ outbox' = IF ping[r].waits THEN Tail(outbox) ELSE outbox
    /\ ping' = [ping EXCEPT ![r] = NoPing]
    /\ UNCHANGED <<taken, timeouts>>

\* upsertLiveLocation: whatever fix comes last is the position.
UpsertLiveLocation(r) ==
    /\ ping[r] # NoPing
    /\ live' = ping[r].n
    /\ Acknowledge(r)
    /\ UNCHANGED <<now, trip, poll, screen, failures>>

\* The fan-out fails and is swallowed: the fix is lost.
FanOutFails(r) ==
    /\ ping[r] # NoPing
    /\ Failure
    /\ Acknowledge(r)
    /\ UNCHANGED <<now, trip, live, poll, screen>>

-----------------------------------------------------------------------------
(* The script of the page.                                                 *)

\* Mutant: an interval instead of a time-out after each answer.
FetchOnInterval(v, visible) ==
    /\ poll[v] = NoPoll
    /\ poll' = [poll EXCEPT ![v] = [pc |-> "asked"]]
    /\ page' = [page EXCEPT !.timer = <<now + 1, 0>>, !.visible = visible]

\* poll(), up to the answer: the timer in pollTimer is cleared.
Fetch(v, visible) ==
    /\ poll[v] = NoPoll
    /\ poll' = [poll EXCEPT ![v] = [pc |-> "asked"]]
    /\ page' = [page EXCEPT !.timer = NoTimer, !.visible = visible]

TimerFires(v) ==
    /\ IsDue(page.timer)
    /\ Fetch(v, page.visible)
    /\ UNCHANGED <<now, trip, phone, orphans, backs, returns, failures>>

\* A timer whose handle was overwritten fires all the same.
OrphanFires(v) ==
    /\ \E t \in orphans : IsDue(t) /\ orphans' = orphans \ {t}
    /\ Fetch(v, page.visible)
    /\ UNCHANGED <<now, trip, phone, backs, returns, failures>>

Hide ==
    /\ page.visible
    /\ returns < MaxReturns
    /\ page' = [page EXCEPT !.visible = FALSE, !.timer = NoTimer]
    /\ UNCHANGED <<now, trip, phone, poll, orphans, backs, returns, failures>>

\* Whatever is under way already, the page polls.
Show(v) ==
    /\ ~page.visible
    /\ returns' = returns + 1
    /\ Fetch(v, TRUE)
    /\ UNCHANGED <<now, trip, phone, orphans, backs, failures>>

\* pollTimer = setTimeout(poll, d): one that was still set is not cleared.  The
\* handle is one that no timer has.
SetTimer(shown, d) ==
    \E k \in 0 .. MaxReturns :
        /\ {j \in 0 .. k : <<now + d, j>> \notin orphans \cup {page.timer}} = {k}
        /\ page' = [shown EXCEPT !.timer = <<now + d, k>>]
        /\ orphans' = orphans \cup ({page.timer} \ {NoTimer})

Delay(status) == IF status = "ARRIVED" THEN LongPause ELSE 1

\* applyState and nextDelay; a page that ended or is hidden sets no timer.
ApplyState(v) ==
    /\ poll[v].pc = "answer" /\ poll[v].status # "error"
    /\ LET a     == poll[v]
           shown == [page EXCEPT !.status = a.status,
                                 !.n = IF a.n = 0 THEN @ ELSE a.n]
       IN  /\ backs' = IF 0 < a.n /\ a.n < page.n THEN backs + 1 ELSE backs
           /\ IF a.status \in Terminal \/ ~page.visible
              THEN page' = shown /\ UNCHANGED orphans
              ELSE SetTimer(shown, Delay(a.status))
    /\ poll' = [poll EXCEPT ![v] = NoPoll]
    /\ UNCHANGED <<now, trip, phone, returns, failures>>

\* Mutant: the catch shows the banner and leaves it at that.
CatchOnly(v) ==
    /\ poll[v].pc = "answer" /\ poll[v].status = "error"
    /\ poll' = [poll EXCEPT ![v] = NoPoll]
    /\ UNCHANGED <<now, trip, phone, screen, failures>>

\* The catch: again after a pause that grows, hidden or not.
Catch(v) ==
    /\ poll[v].pc = "answer" /\ poll[v].status = "error"
    /\ \E d \in 1 .. LongPause : SetTimer(page, d)
    /\ poll' = [poll EXCEPT ![v] = NoPoll]
    /\ UNCHANGED <<now, trip, phone, backs, returns, failures>>

\* The request or its answer is lost on the way.
Lose(v) ==
    /\ poll[v].pc = "asked" \/ (poll[v].pc = "answer" /\ poll[v].status # "error")
    /\ Failure
    /\ poll' = [poll EXCEPT ![v] = Failed]
    /\ UNCHANGED <<now, trip, phone, screen>>

-----------------------------------------------------------------------------
(* getPublicView.                                                          *)

\* Lazy expiry: nothing is written.
EffectiveStatus ==
    IF trip \in Watched /\ now > Lifetime THEN "EXPIRED" ELSE trip

\* Session, visit and position in one query; a view that ended has no
\* position.  What the view needs besides, destination, route and minutes,
\* adds to what the row said and never replaces it: the answer is as old as
\* this query.
ReadSession(v) ==
    /\ poll[v].pc = "asked"
    /\ \/ /\ poll' = [poll EXCEPT ![v] =
                 [pc |-> "answer", status |-> EffectiveStatus,
                  n |-> IF EffectiveStatus \in Terminal THEN 0 ELSE live]]
          /\ UNCHANGED failures
       \/ /\ Failure
          /\ poll' = [poll EXCEPT ![v] = Failed]
    /\ UNCHANGED <<now, trip, phone, screen>>

PollOn(v) ==
    \/ TimerFires(v) \/ OrphanFires(v) \/ ReadSession(v)
    \/ ApplyState(v) \/ Catch(v)

PageNext ==
    \/ Tick \/ TakeFix \/ Hide
    \/ \E s \in Watched \cup Terminal : ChangeSession(s)
    \/ \E r \in Request :
         Post(r) \/ GiveUp(r) \/ UpsertLiveLocation(r) \/ FanOutFails(r)
    \/ \E v \in Visit : PollOn(v) \/ Show(v) \/ Lose(v)

\* Time passes, timers fire, requests are served and answers arrive.
PageFairness ==
    WF_pvars(Tick) /\ \A v \in Visit : WF_pvars(PollOn(v))

PageSpec == PageInit /\ [][PageNext]_pvars /\ PageFairness

-----------------------------------------------------------------------------
(* Properties                                                              *)

\* Every variable has the type its declaration says.
PageTypeOK ==
    /\ now \in 0 .. MaxTime
    /\ trip \in Watched \cup Terminal
    /\ taken \in 0 .. MaxFixes /\ Len(outbox) <= taken
    /\ live \in 0 .. taken
    /\ \A r \in Request : ping[r].n \in 0 .. taken
    /\ page.status \in Watched \cup Terminal /\ page.n \in 0 .. taken
    /\ page.visible \in BOOLEAN
    /\ orphans \cup {page.timer} \subseteq (0 .. NoTimer[1]) \X (0 .. MaxReturns)
    /\ backs \in Nat /\ timeouts \in Nat /\ returns \in Nat

\* A page that stays on the screen shows the worker jump back to where he
\* was before only on account of a request the phone gave up: the position in
\* the row is the last to come, and the polls of the page never overtake one
\* another.
BacksPaidFor == returns = 0 => backs <= timeouts

\* Polls under way and timers set are never more than the times the customer
\* came to the page: no failure, pause or overwritten timer makes the page
\* ask twice as often.
PollsPaidFor ==
    Cardinality({v \in Visit : poll[v] # NoPoll})
      + Cardinality((orphans \cup {page.timer}) \ {NoTimer}) <= 1 + returns

\* A page that is looked at after the trip is over comes to say so, whatever
\* was lost on the way, and stays with it.
EndIsShown ==
    <>[](page.visible /\ EffectiveStatus \in Terminal)
        => <>[](page.status \in Terminal)
=============================================================================
