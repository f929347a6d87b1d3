--------------------------- MODULE MicrosoftCalendar ---------------------------
(***************************************************************************)
(* The Outlook calendar of one user: the link to his Microsoft account,    *)
(* whose refresh token is read before and written after every use, and     *)
(* the subscriptions by which Graph reports changes.  A subscription lives *)
(* about seventy hours; a job renews those of the table, twice a day.      *)
(*                                                                         *)
(* An operation takes one step per query and per request to Microsoft, but *)
(* for getAccessToken, which reads the row and asks the token endpoint in  *)
(* one and writes the row in another.  Hours pass between operations only. *)
(***************************************************************************)
EXTENDS Integers, Sequences, FiniteSets

CONSTANTS
    Account,    \* Microsoft accounts
    Sub,        \* subscription ids Graph can hand out; the bound on creations
    Op,         \* slots for operations
    MaxLinks,   \* bound: times the user consents
    MaxFaults   \* bound: requests and queries that fail, runs the job misses,
                \* crashes

ASSUME MicrosoftCalendarAssumption ==
    /\ "none" \notin Account \cup Sub
    /\ MaxLinks \in Nat
    /\ MaxFaults \in Nat

VARIABLES
    linked,     \* MicrosoftAccount: the account it names, and the one its token is of
    links,      \* consents so far
    watched,    \* watched[s]: the account s was made for, "none" before
    left,       \* left[s]: hours Graph keeps s
    rows,       \* MicrosoftGraphSubscription
    until,      \* until[s]: hours to expiresAt
    waiting,    \* a period is over and the job has not run
    due,        \* what its run has still to renew
    op,         \* op[o]: what runs in slot o, with the steps left
    removed,    \* subscriptions deleted at Graph whose row is still there
    strays,     \* live ones a failed request, or one in another's name, left without a row
    overlapped, \* a creation looked while another was at work
    switched,   \* another account was linked
    mixed,      \* and the token of the one before was in use
    faults

tables == <<linked, rows, until>>
graph  == <<links, watched, left>>
time   == <<waiting, due>>
ghosts == <<removed, strays, overlapped, switched, mixed>>
vars   == <<tables, graph, time, op, ghosts, faults>>

None == "none"

Life    == 70       \* SUBSCRIPTION_LIFETIME_MS, in hours
Buffer  == 1        \* EXPIRY_BUFFER_MS
Period  == 12       \* hours between two runs of the job

\* Mutant: only what expires before the next run is renewed.
NextRunOnly == 12

LookAhead == 48

Token    == <<"token", "persist">>

Creation == Token \o <<"post", "insert">>
Deletion == <<"find">> \o Token \o <<"remove", "unrow">>

\* Mutant: the row that expired stays.
SecondRow == Creation

Replacement == Deletion \o Creation

Renewal  == <<"find">> \o Token \o <<"patch", "update">>

\* What is asked about events changes nothing here but the token.
EventCall == Token

Steps ==
    [create   |-> <<"lookup">>,
     renew    |-> Renewal,
     delete   |-> Deletion,
     calendar |-> EventCall,
     hook     |-> <<"known">>,
     link     |-> <<"exchange", "upsert">>]

Step ==
    {"token", "persist", "lookup", "post", "insert", "find", "patch", "update", "remove",
     "unrow", "known", "exchange", "upsert"}

Operation == [kind : DOMAIN Steps, sub : Sub \cup {None}, me : Account \cup {None}, todo : Seq(Step)]
NoOp == [kind |-> "calendar", sub |-> None, me |-> None, todo |-> <<>>]

Init ==
    /\ linked = [account |-> None, token |-> None]
    /\ links = 0
    /\ watched = [s \in Sub |-> None]
    /\ left = [s \in Sub |-> 0]
    /\ rows = {}
    /\ until = [s \in Sub |-> 0]
    /\ waiting = FALSE
    /\ due = {}
    /\ op = [o \in Op |-> NoOp]
    /\ removed = {}
    /\ strays = {}
    /\ overlapped = FALSE
    /\ switched = FALSE
    /\ mixed = FALSE
    /\ faults = 0

Busy(o) == op[o].todo # <<>>
At(o, step) == Busy(o) /\ Head(op[o].todo) = step
Ahead(o, step) == \E i \in DOMAIN op[o].todo : op[o].todo[i] = step

\* The operation goes on as r, unless no step is left.
Becomes(o, r) == op' = [op EXCEPT ![o] = IF r.todo = <<>> THEN NoOp ELSE r]
Goto(o, steps) == Becomes(o, [op[o] EXCEPT !.todo = steps])
Stop(o) == Goto(o, <<>>)
Done(o) == Goto(o, Tail(op[o].todo))

\* The request about s is made, and the access token forgotten.
Sent(o, s) == Becomes(o, [op[o] EXCEPT !.sub = s, !.me = None, !.todo = Tail(@)])

\* Deleting at Graph is best-effort: what fails there is passed over, and what
\* fails in the table ends the deletion, but not the creation it is part of.
Caught(o) ==
    IF ~Ahead(o, "unrow") THEN <<>>
    ELSE LET rest == IF op[o].kind = "create" THEN Creation ELSE <<>>
         IN  IF Head(op[o].todo) \in {"find", "unrow"} THEN rest ELSE <<"unrow">> \o rest

\* A failure at this step leaves the subscription at Graph without a row.
Leaves(o) == At(o, "insert") \/ (Ahead(o, "unrow") /\ Head(op[o].todo) \notin {"find", "unrow"})

Throw(o) ==
    /\ Goto(o, Caught(o))
    /\ strays' = strays \cup (IF Leaves(o) THEN {op[o].sub} ELSE {})

-----------------------------------------------------------------------------
(***************************************************************************)
(* Operations.                                                             *)
(***************************************************************************)

Start(o, k, s) ==
    /\ ~Busy(o)
    /\ Becomes(o, [NoOp EXCEPT !.kind = k, !.sub = s, !.todo = Steps[k]])
    /\ UNCHANGED <<tables, watched, left, waiting, ghosts, faults>>

Creating(o) == Busy(o) /\ op[o].kind = "create"

StartCreate(o) ==
    /\ Cardinality({p \in Op : Creating(p)}) < Cardinality({s \in Sub : watched[s] = None})
    /\ Start(o, "create", None)
    /\ UNCHANGED <<links, due>>

\* The routes take any id they are given.
StartRenew(o) ==
    \E s \in Sub : watched[s] # None /\ Start(o, "renew", s) /\ UNCHANGED <<links, due>>
StartDelete(o) ==
    \E s \in Sub : watched[s] # None /\ Start(o, "delete", s) /\ UNCHANGED <<links, due>>

\* A request of the user, through the agent or the routes.
StartCall(o) == Start(o, "calendar", None) /\ UNCHANGED <<links, due>>

\* Graph reports a change; it has its 202 at once.
StartHook(o) == \E s \in Sub : left[s] > 0 /\ Start(o, "hook", s) /\ UNCHANGED <<links, due>>

\* The user follows the link of startOAuth and consents.
StartLink(o) ==
    /\ links < MaxLinks
    /\ links' = links + 1
    /\ Start(o, "link", None)
    /\ UNCHANGED due

\* The run of the job renews row after row; that one renewal waits for the
\* other is left out.
StartDue(o) ==
    \E s \in due :
        /\ due' = due \ {s}
        /\ Start(o, "renew", s)
        /\ UNCHANGED links

\* getAccessToken: the row and what the token endpoint makes of it ...
ReadToken(o) ==
    /\ At(o, "token")
    /\ IF linked.token = None
       THEN Throw(o)
       ELSE /\ Becomes(o, [op[o] EXCEPT !.me = linked.token, !.todo = Tail(@)])
            /\ UNCHANGED strays
    /\ UNCHANGED <<tables, graph, time, removed, overlapped, switched, mixed, faults>>

\* ... and the row again.  A rotated token replaces whatever the row holds by
\* now; Microsoft need not send one.
Persist(o) ==
    /\ At(o, "persist")
    /\ \/ linked' = [linked EXCEPT !.token = op[o].me]
       \/ UNCHANGED linked
    /\ Done(o)
    /\ UNCHANGED <<rows, until, graph, time, ghosts, faults>>

\* completeOAuth.
Exchange(o) ==
    /\ At(o, "exchange")
    /\ \E a \in Account : Becomes(o, [op[o] EXCEPT !.me = a, !.todo = Tail(@)])
    /\ UNCHANGED <<tables, graph, time, ghosts, faults>>

\* Mutant: the token of a row that exists stays.
KeepToken(o) ==
    [account |-> op[o].me, token |-> IF linked.token = None THEN op[o].me ELSE linked.token]

LinkedBy(o) == [account |-> op[o].me, token |-> op[o].me]

Upsert(o) ==
    /\ At(o, "upsert")
    /\ linked' = LinkedBy(o)
    /\ switched' = (switched \/ linked.account \notin {None, op[o].me})
    /\ mixed' = (mixed \/ \E p \in Op : At(p, "persist") /\ op[p].me # op[o].me)
    /\ Done(o)
    /\ UNCHANGED <<rows, until, graph, time, removed, strays, overlapped, faults>>

Valid(s) == until[s] - Buffer > 0

Lookup(o) ==
    /\ At(o, "lookup")
    /\ \/ rows = {} /\ Goto(o, Creation)
       \/ \E s \in rows :
             IF Valid(s) THEN Stop(o)
             ELSE Becomes(o, [op[o] EXCEPT !.sub = s, !.todo = Replacement])
    /\ overlapped' = (overlapped \/ \E p \in Op : Creating(p) /\ ~At(p, "lookup"))
    /\ UNCHANGED <<tables, graph, time, removed, strays, switched, mixed, faults>>

Find(o) ==
    /\ At(o, "find")
    /\ IF op[o].sub \in rows THEN Done(o) ELSE Goto(o, Caught(o))
    /\ UNCHANGED <<tables, graph, time, ghosts, faults>>

Made(o, s) ==
    /\ watched[s] = None
    /\ watched' = [watched EXCEPT ![s] = op[o].me]
    /\ left' = [left EXCEPT ![s] = Life]
    /\ UNCHANGED links

Post(o) ==
    /\ At(o, "post")
    /\ \E s \in Sub : Made(o, s) /\ Sent(o, s)
    /\ UNCHANGED <<tables, time, ghosts, faults>>

Insert(o) ==
    /\ At(o, "insert")
    /\ rows' = rows \cup {op[o].sub}
    /\ until' = [until EXCEPT ![op[o].sub] = Life]
    /\ Done(o)
    /\ UNCHANGED <<linked, graph, time, ghosts, faults>>

\* Mutant: the row goes whatever the answer is.
GoneOnError(s) == <<"unrow">>

OnError(s) == <<>>

\* 404, and the row goes; of a subscription of another account Graph may say
\* that, or that it is forbidden.
Patch(o) ==
    LET s    == op[o].sub
        mine == watched[s] = op[o].me
    IN  /\ At(o, "patch")
        /\ IF mine /\ left[s] > 0
           THEN /\ left' = [left EXCEPT ![s] = Life]
                /\ Sent(o, s)
                /\ UNCHANGED strays
           ELSE /\ \/ Goto(o, <<"unrow">>) /\ strays' = strays \cup (IF mine THEN {} ELSE {s})
                   \/ ~mine /\ Goto(o, OnError(s)) /\ UNCHANGED strays
                /\ UNCHANGED left
        /\ UNCHANGED <<tables, links, watched, time, removed, overlapped, switched, mixed, faults>>

Update(o) ==
    /\ At(o, "update")
    /\ until' = IF op[o].sub \in rows THEN [until EXCEPT ![op[o].sub] = Life] ELSE until
    /\ Done(o)
    /\ UNCHANGED <<linked, rows, graph, time, ghosts, faults>>

Remove(o) ==
    LET s == op[o].sub
    IN  /\ At(o, "remove")
        /\ IF watched[s] = op[o].me
           THEN /\ left' = [left EXCEPT ![s] = 0]
                /\ removed' = removed \cup {s}
                /\ UNCHANGED strays
           ELSE /\ strays' = strays \cup {s}
                /\ UNCHANGED <<left, removed>>
        /\ Sent(o, s)
        /\ UNCHANGED <<tables, links, watched, time, overlapped, switched, mixed, faults>>

\* deleteLocalRow.
Unrow(o) ==
    /\ At(o, "unrow")
    /\ rows' = rows \ {op[o].sub}
    /\ until' = [until EXCEPT ![op[o].sub] = 0]
    /\ removed' = removed \ {op[o].sub}
    /\ Done(o)
    /\ UNCHANGED <<linked, graph, time, strays, overlapped, switched, mixed, faults>>

\* A notification of what is not in the table is logged and dropped.
Known(o) ==
    /\ At(o, "known")
    /\ IF op[o].sub \in rows THEN Becomes(o, [NoOp EXCEPT !.todo = EventCall]) ELSE Stop(o)
    /\ UNCHANGED <<tables, graph, time, ghosts, faults>>

-----------------------------------------------------------------------------
(***************************************************************************)
(* Time and faults.                                                        *)
(***************************************************************************)

Later(h) == IF h > Period THEN h - Period ELSE 0

Idle == due = {} /\ \A o \in Op : ~Busy(o)

Advance ==
    /\ Idle
    /\ ~waiting
    /\ waiting' = TRUE
    /\ left' = [s \in Sub |-> Later(left[s])]
    /\ until' = [s \in Sub |-> Later(until[s])]
    /\ strays' = {s \in strays : left'[s] > 0}
    /\ UNCHANGED <<linked, rows, links, watched, due, op, removed, overlapped, switched, mixed, faults>>

RunJob ==
    /\ waiting
    /\ waiting' = FALSE
    /\ due' = {s \in rows : until[s] < LookAhead}
    /\ UNCHANGED <<tables, graph, op, ghosts, faults>>

Fault ==
    /\ faults < MaxFaults
    /\ faults' = faults + 1

MissRun ==
    /\ waiting
    /\ waiting' = FALSE
    /\ Fault
    /\ UNCHANGED <<tables, graph, due, op, ghosts>>

\* A request that Graph does not answer with success ends a renewal.
Fails(o) ==
    /\ Busy(o)
    /\ Fault
    /\ IF At(o, "patch")
       THEN Goto(o, OnError(op[o].sub)) /\ UNCHANGED strays
       ELSE Throw(o)
    /\ UNCHANGED <<tables, graph, time, removed, overlapped, switched, mixed>>

\* Graph makes the subscription, and its answer is lost.
PostUnanswered(o) ==
    /\ At(o, "post")
    /\ Fault
    /\ \E s \in Sub : Made(o, s) /\ strays' = strays \cup {s}
    /\ Stop(o)
    /\ UNCHANGED <<tables, time, removed, overlapped, switched, mixed>>

Crash ==
    /\ ~Idle
    /\ Fault
    /\ op' = [o \in Op |-> NoOp]
    /\ due' = {}
    /\ strays' = strays \cup {op[o].sub : o \in {p \in Op : At(p, "insert")}}
    /\ UNCHANGED <<tables, graph, waiting, removed, overlapped, switched, mixed>>

Next ==
    \/ \E o \in Op :
          \/ StartCreate(o) \/ StartRenew(o) \/ StartDelete(o) \/ StartCall(o)
          \/ StartHook(o) \/ StartLink(o) \/ StartDue(o)
          \/ ReadToken(o) \/ Persist(o) \/ Exchange(o) \/ Upsert(o)
          \/ Lookup(o) \/ Find(o) \/ Post(o) \/ Insert(o) \/ Patch(o) \/ Update(o)
          \/ Remove(o) \/ Unrow(o) \/ Known(o)
          \/ Fails(o) \/ PostUnanswered(o)
    \/ Advance \/ RunJob \/ MissRun \/ Crash

Spec == Init /\ [][Next]_vars

-----------------------------------------------------------------------------
(***************************************************************************)
(* Properties.                                                             *)
(***************************************************************************)

\* A request to Graph is made in the name of an account, and one about a
\* subscription is about one Graph made.
TypeOK ==
    /\ linked \in [account : Account \cup {None}, token : Account \cup {None}]
    /\ links \in 0..MaxLinks
    /\ watched \in [Sub -> Account \cup {None}]
    /\ rows \cup due \cup removed \cup strays \subseteq {s \in Sub : watched[s] # None}
    /\ left \in [Sub -> 0..Life] /\ until \in [Sub -> 0..Life]
    /\ waiting \in BOOLEAN
    /\ op \in [Op -> Operation]
    /\ \A o \in Op :
          /\ At(o, "persist") \/ At(o, "post") \/ At(o, "patch") \/ At(o, "remove")
                => op[o].me # None
          /\ At(o, "insert") \/ At(o, "update") \/ At(o, "unrow")
                => op[o].sub # None /\ watched[op[o].sub] # None
    /\ faults \in 0..MaxFaults

\* Graph reports to nobody only on account of failures: a subscription that is
\* alive and neither in the table nor in anybody's hands takes a request that
\* failed between the two, or one in the name of another account.
OrphansPaidFor ==
    \A s \in Sub \ (rows \cup strays) :
        left[s] > 0 => \E o \in Op : Busy(o) /\ op[o].sub = s

\* The user has a second row only if two creations overlapped or a row could
\* not be deleted.
DuplicatesOverlap == Cardinality(rows) > 1 => overlapped \/ faults > 0

\* The job's look-ahead outlives three runs that fail: unless the user changes
\* accounts or deletes it, what is in the table is alive at Graph.
RenewedInTime ==
    ~switched /\ faults < 4 => \A s \in rows \ removed : left[s] > 0

\* The token in the row is of the account the row names, but for an account
\* that was linked while an operation held the token of the one before.
TokenOfItsAccount == linked.token = linked.account \/ mixed
=============================================================================
