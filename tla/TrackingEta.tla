------------------------------ MODULE TrackingEta ------------------------------
(***************************************************************************)
(* The minutes left in the view of a trip under way.  A poll reads the row *)
(* of the worker's position and his visit, resolves the destination and a  *)
(* route, both of which may take their time and fail, and composes the     *)
(* number in one turn at the end, from what it read and from what the      *)
(* process remembers of the session: samples of the distance, the ratio of *)
(* the worker's own estimate, the last route, the number shown last.       *)
(*                                                                         *)
(* The worker departs at time 0.  A tick of the clock is the pace of the   *)
(* page, which begins one poll in each; one that takes longer overlaps the *)
(* next.                                                                   *)
(***************************************************************************)
EXTENDS ConservativeEta, Sequences, FiniteSets

CONSTANTS
    Road,         \* Road[i]: metres of road from the i-th place of the way;
                  \* places are farther apart than MIN_ROUTE_RECALC_MOVE_METERS
    Line,         \* Line[i]: metres as the crow flies
    Speed,        \* metres per second, of the route provider
    Minutes,      \* travel times a worker may declare
    LoadAt,       \* LoadAt[t + 1]: getHourlyLoadMultiplier at t, in percent
    Window,       \* PROGRESS_WINDOW_MS, in ticks, as those below
    SampleAge,    \* SAMPLE_MAX_AGE_MS
    MaxSamples,   \* MAX_SAMPLES
    StaleAfter,   \* staleThresholdSeconds
    RouteAge,     \* MAX_STATIONARY_ROUTE_CACHE_MS
    Lag,          \* MAX_DEPARTURE_LAG_MS
    Caller,       \* slots for polls being served
    Horizon,      \* bound: ticks
    MaxErrors,    \* bound: queries and providers that fail
    MaxReboots    \* bound: restarts of the process

ASSUME TrackingEtaAssumption ==
    /\ Road \in Seq(Nat \ {0}) /\ Line \in Seq(Nat \ {0})
    /\ Len(Road) > 0 /\ Len(Line) = Len(Road)
    /\ LoadAt \in Seq(Nat \ {0}) /\ Len(LoadAt) = Horizon + 1
    /\ Speed \in Nat \ {0} /\ Minutes \subseteq Nat \ {0}
    /\ {Window, SampleAge, MaxSamples, StaleAfter, RouteAge, Lag, Horizon,
        MaxErrors, MaxReboots} \subseteq Nat

VARIABLES
    time,
    fix,          \* the row of "WorkerLiveLocation": place and lastSeenAt
    declared,     \* travelEtaMinutes of the visit, 0 for none
    geo,          \* the geocoding of the address of the visit
    memory,       \* what the process keeps of the session
    call,         \* call[c]: how far a poll is and what it has read
    polled,       \* the page has polled in this tick
    quote,        \* the last number composed, and what it came from
    errors, reboots

notes == <<memory, quote>>
row   == <<fix, declared>>
evars == <<time, fix, declared, geo, memory, call, polled, quote, errors,
           reboots>>

Place   == DOMAIN Road
NoFix   == [place |-> 0, seen |-> 0]
NoRoute == [place |-> 0, at |-> 0]
NoCall  == [pc |-> "none"]
NoQuote == [eta |-> 0]
Forgot  == [samples |-> <<>>, shown |-> 0, ratio |-> NoRatio, route |-> NoRoute]

EtaInit ==
    /\ time = 0
    /\ fix = NoFix
    /\ declared = 0
    /\ geo = "unknown"
    /\ memory = Forgot
    /\ call = [c \in Caller |-> NoCall]
    /\ polled = FALSE
    /\ quote = NoQuote
    /\ errors = 0
    /\ reboots = 0

Error == errors < MaxErrors /\ errors' = errors + 1

-----------------------------------------------------------------------------
(* The world.                                                              *)

EtaTick ==
    /\ time < Horizon
    /\ time' = time + 1
    /\ polled' = FALSE
    /\ UNCHANGED <<row, geo, call, notes, errors, reboots>>

\* A fix of where the worker is or how far he has come is stored.
StoreFix ==
    /\ \E p \in Place :
         /\ p \in {fix.place, fix.place + 1}
         /\ fix' = [place |-> p, seen |-> time]
    /\ UNCHANGED <<time, declared, geo, call, polled, notes, errors, reboots>>

\* The worker says how long he will be on the road, or corrects himself.
WriteTravelEta(m) ==
    /\ declared' = m
    /\ UNCHANGED <<time, fix, geo, call, polled, notes, errors, reboots>>

-----------------------------------------------------------------------------
(* What the process remembers.                                             *)

\* The reference of the progress: the oldest sample at least a window old.
OldestInWindow(samples, at) ==
    {i \in DOMAIN samples :
        /\ at - samples[i].at >= Window
        /\ \A j \in DOMAIN samples : samples[i].at <= samples[j].at}

SampleProgress(samples, dist, at) ==
    LET old   == OldestInWindow(samples, at)
        delta == samples[CHOOSE i \in old : \A j \in old : i <= j].dist - dist
    IN  IF dist = 0 \/ old = {} THEN "unknown"
        ELSE IF delta >= 500 THEN "progressing"
        ELSE IF delta <= 100 THEN "not_progressing"
        ELSE "slow"

\* Recorded after the comparison; trimmed by age, then to the capacity.
Record(samples, dist, at) ==
    LET all  == Append(samples, [dist |-> dist, at |-> at])
        kept == SelectSeq(all, LAMBDA s : at - s.at <= SampleAge)
    IN  IF dist = 0 THEN samples
        ELSE SubSeq(kept, Larger(1, Len(kept) - MaxSamples + 1), Len(kept))

\* A ratio is kept for good, by visit; it is captured soon after departure.
ResolveCalibration(ratio, travel, base, at) ==
    IF ratio # NoRatio \/ at > Lag THEN ratio ELSE Calibrate(travel, base)

-----------------------------------------------------------------------------
(* getPublicView of a session that is ACTIVE.                              *)

Return(c) == call' = [call EXCEPT ![c] = NoCall]

\* Mutant: without a route, the minutes left until expectedArrivalAt.
SourceCountdown(p, base, ratio) ==
    IF base = 0
    THEN [num |-> 60 * Larger(0, p.travel - p.at), den |-> 1]
    ELSE PickRawSeconds(base, ratio, LoadAt[p.at + 1], p.travel)

Source(p, base, ratio) ==
    PickRawSeconds(base, ratio, LoadAt[p.at + 1], p.travel)

\* The last turn of a poll: the number, from the seconds of the route and the
\* metres to go (0 for none), and what the process remembers.
Compose(c, base, dist, route) ==
    LET p        == call[c]
        progress == SampleProgress(memory.samples, dist, p.at)
        ratio    == ResolveCalibration(memory.ratio, p.travel, base, p.at)
        raw      == Source(p, base, ratio)
        slow     == progress = "slow"
        eta      == ComputeConservativeEta(raw, base, slow, memory.shown)
    IN  /\ memory' = [samples |-> Record(memory.samples, dist, p.at),
                      shown   |-> IF eta = 0 THEN memory.shown ELSE eta,
                      ratio   |-> ratio,
                      route   |-> route]
        /\ quote' = IF eta = 0 THEN quote
                    ELSE [eta |-> eta, slow |-> slow,
                          capped |-> Cap(raw, base, memory.shown)
                                       > Composed(raw, base, slow),
                          from |-> <<base, ratio, LoadAt[p.at + 1], p.travel>>]
        /\ Return(c)

\* Row and visit in one query.
ReadRow(c) ==
    /\ ~polled
    /\ polled' = TRUE
    /\ call[c] = NoCall
    /\ \/ /\ call' = [call EXCEPT ![c] =
                 [pc |-> "resolve", place |-> fix.place, at |-> time,
                  fresh |-> time - fix.seen <= StaleAfter, travel |-> declared]]
          /\ UNCHANGED errors
       \/ Error /\ UNCHANGED call
    /\ UNCHANGED <<time, row, geo, notes, reboots>>

\* The view once the destination is known or not: a route only for a fresh
\* fix, from the cache if the worker has hardly moved.
Estimate(c, dest) ==
    LET p     == call[c]
        route == memory.route
        hit   == route.place = p.place /\ time - route.at < RouteAge
    IN  IF p.place = 0 \/ ~dest THEN Compose(c, 0, 0, route)
        ELSE IF ~p.fresh THEN Compose(c, 0, Line[p.place], route)
        ELSE IF hit
        THEN Compose(c, Road[p.place] \div Speed, Road[p.place], route)
        ELSE /\ call' = [call EXCEPT ![c].pc = "estimate"]
             /\ UNCHANGED notes

\* resolveTaskFieldDestination, from the row: the coordinates, or a marker
\* that the address has none.  A query that fails is no destination.
ResolveDestination(c) ==
    /\ call[c].pc = "resolve"
    /\ \/ /\ geo # "unknown"
          /\ Estimate(c, geo = "hit")
          /\ UNCHANGED errors
       \/ /\ Error
          /\ Estimate(c, FALSE)
    /\ UNCHANGED <<time, row, geo, polled, reboots>>

\* The address is looked up and the answer kept; a geocoder out of reach
\* leaves no trace, and a hit that cannot be stored is used all the same.
\* Polls that do so at once store the same.
Geocode(c) ==
    /\ call[c].pc = "resolve"
    /\ geo = "unknown"
    /\ \/ /\ geo' \in {"hit", "none"}
          /\ Estimate(c, geo' = "hit")
          /\ UNCHANGED errors
       \/ /\ Error
          /\ UNCHANGED geo
          /\ \E dest \in BOOLEAN : Estimate(c, dest)
    /\ UNCHANGED <<time, row, polled, reboots>>

\* getRouteEstimate after the cache: the answer is stored, for every poll to
\* come; with no answer, the crow's distance and no duration.
RouteAnswers(c) ==
    /\ call[c].pc = "estimate"
    /\ LET p == call[c]
       IN  \/ /\ Compose(c, Road[p.place] \div Speed, Road[p.place],
                         [place |-> p.place, at |-> time])
              /\ UNCHANGED errors
           \/ /\ Error
              /\ Compose(c, 0, Line[p.place], memory.route)
    /\ UNCHANGED <<time, row, geo, polled, reboots>>

\* Samples, shown number, ratio and route are in memory only.
Reboot ==
    /\ reboots < MaxReboots
    /\ reboots' = reboots + 1
    /\ memory' = Forgot
    /\ quote' = NoQuote
    /\ call' = [c \in Caller |-> NoCall]
    /\ UNCHANGED <<time, row, geo, polled, errors>>

EtaNext ==
    \/ EtaTick \/ StoreFix \/ Reboot
    \/ \E m \in Minutes : WriteTravelEta(m)
    \/ \E c \in Caller :
         ReadRow(c) \/ ResolveDestination(c) \/ Geocode(c) \/ RouteAnswers(c)

EtaSpec == EtaInit /\ [][EtaNext]_evars

-----------------------------------------------------------------------------
(* Properties                                                              *)

\* Every variable has the type its declaration says.
EtaTypeOK ==
    /\ time \in 0 .. Horizon
    /\ fix.place \in Place \cup {0} /\ fix.seen \in 0 .. time
    /\ declared \in Minutes \cup {0}
    /\ geo \in {"unknown", "hit", "none"}
    /\ Len(memory.samples) <= MaxSamples
    /\ memory.shown \in Nat /\ memory.route.place \in Place \cup {0}

\* With the same route, or with none, the number falls only because the
\* worker was slow before, the number before was held up by the cap, or what
\* it is computed from changed: never because time went by.
EtaFallsExplained ==
    [][quote.eta > 0 /\ quote'.eta > 0 /\ quote'.from = quote.from
       => quote'.eta >= quote.eta \/ quote.slow \/ quote.capped]_evars

\* Samples that fill the ring reach back a window, so that the next poll of
\* the page knows the progress.
ProgressIsSeen ==
    Len(memory.samples) = MaxSamples =>
        \A d \in {Road[p] : p \in Place} :
            SampleProgress(memory.samples, d, time + 1) # "unknown"
=============================================================================
