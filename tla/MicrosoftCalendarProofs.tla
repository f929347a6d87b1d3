------------------------ MODULE MicrosoftCalendarProofs ------------------------
(***************************************************************************)
(* For any number of accounts, subscriptions, operations and failures: the *)
(* types; that the stored token is of the account the row names; that no   *)
(* subscription is forgotten, nor a second row made, unless something      *)
(* fails; and that three runs of the job may.                              *)
(***************************************************************************)
EXTENDS MicrosoftCalendar, SequenceTheorems, FiniteSetTheorems, TLAPS

USE MicrosoftCalendarAssumption

-----------------------------------------------------------------------------
(* Programs.  What an operation holds when it comes to a step, the steps   *)
(* before it have left: a request to Graph follows getAccessToken.         *)

Requests == {"post", "patch", "remove"}
AboutSub == {"find", "patch", "update", "remove", "unrow"}

\* Every step comes right after the one that makes it possible.
InOrder(t) ==
    \A i \in 2 .. Len(t) :
        /\ t[i] = "persist" => t[i - 1] = "token"
        /\ t[i] \in Requests => t[i - 1] = "persist"
        /\ t[i] = "insert" => t[i - 1] = "post"

Concerns(t) == \E i \in 1 .. Len(t) : t[i] \in AboutSub

Program == {t \in Seq(Step) : InOrder(t)}

\* A program that starts without a token.
Fresh(t) ==
    /\ t \in Program
    /\ t # <<>> => t[1] \notin {"persist", "insert"} \cup Requests

LEMMA TailOfProgram ==
    ASSUME NEW t \in Program, t # <<>>
    PROVE  /\ Tail(t) \in Program
           /\ Concerns(Tail(t)) => Concerns(t)
           /\ Tail(t) # <<>> =>
                 /\ Tail(t)[1] = "persist" => t[1] = "token"
                 /\ Tail(t)[1] \in Requests => t[1] = "persist"
                 /\ Tail(t)[1] = "insert" => t[1] = "post"
<1>1. t \in Seq(Step) /\ InOrder(t) /\ Len(t) \in Nat \ {0}
      BY DEF Program
<1>2. /\ Tail(t) \in Seq(Step)
      /\ Len(Tail(t)) = Len(t) - 1
      /\ \A i \in 1 .. Len(Tail(t)) : Tail(t)[i] = t[i + 1]
      BY <1>1, HeadTailProperties
<1>3. InOrder(Tail(t))
  <2> SUFFICES ASSUME NEW i \in 2 .. Len(Tail(t))
               PROVE  /\ Tail(t)[i] = "persist" => Tail(t)[i - 1] = "token"
                      /\ Tail(t)[i] \in Requests => Tail(t)[i - 1] = "persist"
                      /\ Tail(t)[i] = "insert" => Tail(t)[i - 1] = "post"
      BY DEF InOrder
  <2>1. /\ i + 1 \in 2 .. Len(t)
        /\ Tail(t)[i] = t[i + 1]
        /\ Tail(t)[i - 1] = t[(i + 1) - 1]
      BY <1>1, <1>2
  <2> QED BY <1>1, <2>1 DEF InOrder
<1>4. Concerns(Tail(t)) => Concerns(t)
  <2> SUFFICES ASSUME NEW i \in 1 .. Len(Tail(t)), Tail(t)[i] \in AboutSub
               PROVE  \E j \in 1 .. Len(t) : t[j] \in AboutSub
      BY DEF Concerns
  <2>1. i + 1 \in 1 .. Len(t) /\ t[i + 1] \in AboutSub
      BY <1>1, <1>2
  <2> QED BY <2>1
<1>5. ASSUME Tail(t) # <<>>
      PROVE  2 \in 2 .. Len(t) /\ Tail(t)[1] = t[2]
      BY <1>1, <1>2, <1>5, EmptySeq
<1>6. ASSUME Tail(t) # <<>>
      PROVE  /\ Tail(t)[1] = "persist" => t[1] = "token"
             /\ Tail(t)[1] \in Requests => t[1] = "persist"
             /\ Tail(t)[1] = "insert" => t[1] = "post"
      BY <1>1, <1>5, <1>6, 2 - 1 = 1 DEF InOrder
<1> QED BY <1>1, <1>2, <1>3, <1>4, <1>6 DEF Program

LEMMA Concatenation ==
    ASSUME NEW s \in Program, NEW t, Fresh(t)
    PROVE  /\ s \o t \in Program
           /\ s # <<>> /\ Fresh(s) => Fresh(s \o t)
           /\ Concerns(s \o t) => Concerns(s) \/ Concerns(t)
<1>0. s \in Seq(Step) /\ t \in Seq(Step) /\ Len(s) \in Nat /\ Len(t) \in Nat
      BY DEF Program, Fresh
<1>1. /\ s \o t \in Seq(Step)
      /\ Len(s \o t) = Len(s) + Len(t)
      /\ \A i \in 1 .. Len(s) + Len(t) :
            (s \o t)[i] = IF i <= Len(s) THEN s[i] ELSE t[i - Len(s)]
      BY <1>0, ConcatProperties
<1>2. InOrder(s \o t)
  <2> SUFFICES ASSUME NEW i \in 2 .. Len(s) + Len(t)
               PROVE  /\ (s \o t)[i] = "persist" => (s \o t)[i - 1] = "token"
                      /\ (s \o t)[i] \in Requests => (s \o t)[i - 1] = "persist"
                      /\ (s \o t)[i] = "insert" => (s \o t)[i - 1] = "post"
      BY <1>1 DEF InOrder
  <2>1. CASE i <= Len(s)
      BY <1>0, <1>1, <2>1 DEF Program, InOrder
  <2>2. CASE i = Len(s) + 1
    <3>1. (s \o t)[i] = t[1] /\ t # <<>>
        BY <1>0, <1>1, <2>2
    <3> QED BY <3>1 DEF Fresh
  <2>3. CASE i > Len(s) + 1
    <3>1. /\ i - Len(s) \in 2 .. Len(t)
          /\ (s \o t)[i] = t[i - Len(s)]
          /\ (s \o t)[i - 1] = t[(i - Len(s)) - 1]
        BY <1>0, <1>1, <2>3
    <3> QED BY <3>1 DEF Fresh, Program, InOrder
  <2> QED BY <1>0, <2>1, <2>2, <2>3
<1>3. s # <<>> => (s \o t)[1] = s[1]
      BY <1>0, <1>1, EmptySeq
<1>4. Concerns(s \o t) => Concerns(s) \/ Concerns(t)
  <2> SUFFICES ASSUME NEW i \in 1 .. Len(s) + Len(t), (s \o t)[i] \in AboutSub
               PROVE  Concerns(s) \/ Concerns(t)
      BY <1>1 DEF Concerns
  <2>1. CASE i <= Len(s)
      BY <1>0, <1>1, <2>1 DEF Concerns
  <2>2. CASE i > Len(s)
      BY <1>0, <1>1, <2>2, i - Len(s) \in 1 .. Len(t) DEF Concerns
  <2> QED BY <1>0, <2>1, <2>2
<1> QED BY <1>1, <1>2, <1>3, <1>4 DEF Program, Fresh

LEMMA Programs ==
    /\ Fresh(<<>>) /\ ~Concerns(<<>>)
    /\ Fresh(<<"unrow">>)
    /\ Fresh(Creation) /\ ~Concerns(Creation)
    /\ Fresh(<<"unrow">> \o Creation)
    /\ Fresh(Replacement)
    /\ Fresh(EventCall) /\ ~Concerns(EventCall)
    /\ \A k \in DOMAIN Steps :
          /\ Fresh(Steps[k])
          /\ Concerns(Steps[k]) => k \in {"renew", "delete"}
<1> USE DEF Fresh, Program, InOrder, Concerns, Requests, AboutSub
<1>1. /\ Fresh(<<>>) /\ ~Concerns(<<>>)
      /\ Fresh(<<"unrow">>)
      /\ Fresh(Token) /\ ~Concerns(Token)
      BY DEF Token, Step
<1>2. Fresh(Creation) /\ ~Concerns(Creation)
  <2>1. /\ Creation \in Seq(Step) /\ Len(Creation) = 4
        /\ Creation[1] = "token" /\ Creation[2] = "persist"
        /\ Creation[3] = "post" /\ Creation[4] = "insert"
      BY DEF Creation, Token, Step
  <2>2. 2 - 1 = 1 /\ 3 - 1 = 2 /\ 4 - 1 = 3
      OBVIOUS
  <2>3. InOrder(Creation)
      BY <2>1, <2>2, \A i \in 2 .. 4 : i = 2 \/ i = 3 \/ i = 4
  <2>4. ~Concerns(Creation)
      BY <2>1, \A i \in 1 .. 4 : i = 1 \/ i = 2 \/ i = 3 \/ i = 4
  <2> QED BY <2>1, <2>3, <2>4
<1>3. Fresh(Deletion)
  <2>1. /\ Deletion \in Seq(Step) /\ Len(Deletion) = 5
        /\ Deletion[1] = "find" /\ Deletion[2] = "token"
        /\ Deletion[3] = "persist" /\ Deletion[4] = "remove"
        /\ Deletion[5] = "unrow"
      BY DEF Deletion, Token, Step
  <2>2. 2 - 1 = 1 /\ 3 - 1 = 2 /\ 4 - 1 = 3 /\ 5 - 1 = 4
      OBVIOUS
  <2>3. InOrder(Deletion)
      BY <2>1, <2>2, \A i \in 2 .. 5 : i = 2 \/ i = 3 \/ i = 4 \/ i = 5
  <2> QED BY <2>1, <2>3
<1>4. Fresh(Renewal)
  <2>1. /\ Renewal \in Seq(Step) /\ Len(Renewal) = 5
        /\ Renewal[1] = "find" /\ Renewal[2] = "token"
        /\ Renewal[3] = "persist" /\ Renewal[4] = "patch"
        /\ Renewal[5] = "update"
      BY DEF Renewal, Token, Step
  <2>2. 2 - 1 = 1 /\ 3 - 1 = 2 /\ 4 - 1 = 3 /\ 5 - 1 = 4
      OBVIOUS
  <2>3. InOrder(Renewal)
      BY <2>1, <2>2, \A i \in 2 .. 5 : i = 2 \/ i = 3 \/ i = 4 \/ i = 5
  <2> QED BY <2>1, <2>3
<1>5. /\ Fresh(<<"unrow">> \o Creation)
      /\ Fresh(Replacement)
  <2> HIDE DEF Fresh, InOrder, Concerns
  <2>1. /\ <<"unrow">> \in Program /\ <<"unrow">> # <<>>
        /\ Deletion \in Program
      BY <1>1, <1>3 DEF Fresh
  <2>2. Deletion # <<>>
      BY DEF Deletion, Token
  <2> QED BY <1>1, <1>2, <1>3, <2>1, <2>2, Concatenation DEF Replacement
<1>6. ASSUME NEW k \in DOMAIN Steps
      PROVE  /\ Fresh(Steps[k])
             /\ Concerns(Steps[k]) => k \in {"renew", "delete"}
  <2>1. CASE k = "create"
      BY <2>1 DEF Steps, Step
  <2>2. CASE k = "hook"
      BY <2>2 DEF Steps, Step
  <2>3. CASE k = "link"
      BY <2>3 DEF Steps, Step
  <2>4. CASE k = "calendar"
      BY <1>1, <2>4 DEF Steps, EventCall
  <2>5. CASE k \in {"renew", "delete"}
      BY <1>3, <1>4, <2>5 DEF Steps
  <2> QED BY <2>1, <2>2, <2>3, <2>4, <2>5 DEF Steps
<1> QED BY <1>1, <1>2, <1>5, <1>6 DEF EventCall

-----------------------------------------------------------------------------
(* The inductive invariant.                                                *)

\* What the next step of r needs, with the subscriptions w, the account a
\* of the row, and m: tokens were mixed up.
Ready(r, w, a, m) ==
    /\ r.todo \in Program
    /\ Concerns(r.todo) => r.sub # None /\ w[r.sub] # None
    /\ r.todo # <<>> =>
          /\ r.todo[1] \in Requests => r.me # None
          /\ r.todo[1] = "insert" => r.sub # None /\ w[r.sub] # None
          /\ r.todo[1] = "persist" => r.me # None /\ (r.me = a \/ m)

Subscribed == {s \in Sub : watched[s] # None}

Data ==
    /\ linked \in [account : Account \cup {None}, token : Account \cup {None}]
    /\ links \in 0 .. MaxLinks
    /\ watched \in [Sub -> Account \cup {None}]
    /\ rows \cup due \cup removed \cup strays \subseteq Subscribed
    /\ left \in [Sub -> 0 .. Life] /\ until \in [Sub -> 0 .. Life]
    /\ waiting \in BOOLEAN
    /\ faults \in 0 .. MaxFaults

Operations ==
    /\ op \in [Op -> Operation]
    /\ \A o \in Op : Ready(op[o], watched, linked.account, mixed)

Inv == Data /\ Operations /\ TokenOfItsAccount

LEMMA InvType == Inv => TypeOK
<1> SUFFICES ASSUME Inv PROVE TypeOK
    OBVIOUS
<1>1. ASSUME NEW o \in Op, Busy(o)
      PROVE  /\ op[o].todo \in Seq(Step) /\ Head(op[o].todo) = op[o].todo[1]
             /\ 1 \in 1 .. Len(op[o].todo)
      BY <1>1, EmptySeq DEF Inv, Operations, Operation, Busy
<1>2. ASSUME NEW o \in Op
      PROVE  /\ At(o, "persist") \/ At(o, "post") \/ At(o, "patch") \/ At(o, "remove")
                   => op[o].me # None
             /\ At(o, "insert") \/ At(o, "update") \/ At(o, "unrow")
                   => op[o].sub # None /\ watched[op[o].sub] # None
      BY <1>1 DEF Inv, Operations, Ready, At, Busy, Requests, AboutSub, Concerns
<1> QED BY <1>2 DEF Inv, Data, Operations, TypeOK, Subscribed

\* An operation that starts without a token needs only its subscription.
LEMMA FreshReady ==
    ASSUME NEW r, NEW w, NEW a, NEW m, Fresh(r.todo),
           Concerns(r.todo) => r.sub # None /\ w[r.sub] # None
    PROVE  Ready(r, w, a, m)
BY DEF Fresh, Ready

\* One that goes on needs what the step before has left.
LEMMA TailReady ==
    ASSUME NEW r, NEW q, NEW w, NEW a, NEW m,
           r.todo \in Program, r.todo # <<>>, q.todo = Tail(r.todo),
           r.todo[1] = "token" => q.me # None /\ (q.me = a \/ m),
           r.todo[1] = "persist" => q.me # None,
           r.todo[1] = "post" \/ Concerns(r.todo) => q.sub # None /\ w[q.sub] # None
    PROVE  Ready(q, w, a, m)
BY TailOfProgram DEF Ready

LEMMA NoOpReady ==
    /\ NoOp \in Operation
    /\ \A w, a, m : Ready(NoOp, w, a, m)
<1>1. NoOp \in Operation
      BY DEF NoOp, Operation, Steps
<1>2. NoOp.todo = <<>>
      BY DEF NoOp
<1> QED BY <1>1, <1>2, Programs, FreshReady

\* Operations but o go on unchanged while the tables keep what they need.
LEMMA Turn ==
    ASSUME Operations, NEW o \in Op, NEW r \in Operation, Becomes(o, r),
           Ready(r, watched', linked'.account, mixed'),
           \A s \in Sub : watched[s] # None => watched'[s] # None,
           \A p \in Op \ {o} :
               At(p, "persist") /\ (op[p].me = linked.account \/ mixed)
                   => op[p].me = linked'.account \/ mixed'
    PROVE  Operations'
<1>1. op' = [op EXCEPT ![o] = IF r.todo = <<>> THEN NoOp ELSE r]
      BY DEF Becomes
<1>2. op' \in [Op -> Operation]
      BY <1>1, NoOpReady DEF Operations
<1>3. ASSUME NEW p \in Op
      PROVE  Ready(op'[p], watched', linked'.account, mixed')
  <2>1. CASE p = o
      BY <1>1, <2>1, NoOpReady DEF Operations
  <2>2. CASE p # o
    <3>1. op'[p] = op[p] /\ Ready(op[p], watched, linked.account, mixed)
        BY <1>1, <2>2 DEF Operations
    <3>2. op[p].todo # <<>> /\ op[p].todo[1] = "persist" => At(p, "persist")
        BY DEF Operations, Operation, At, Busy
    <3>3. op[p].sub # None => op[p].sub \in Sub
        BY DEF Operations, Operation
    <3> QED BY <2>2, <3>1, <3>2, <3>3 DEF Ready
  <2> QED BY <2>1, <2>2
<1> QED BY <1>2, <1>3 DEF Operations

\* The same where the row and the subscriptions stay.
LEMMA QuietTurn ==
    ASSUME Operations, NEW o \in Op, NEW r \in Operation, Becomes(o, r),
           Ready(r, watched, linked.account, mixed),
           UNCHANGED <<watched, linked, mixed>>
    PROVE  Operations'
BY Turn

\* What is known of the operation whose turn it is.
LEMMA Current ==
    ASSUME Operations, NEW o \in Op, Busy(o)
    PROVE  /\ op[o] \in Operation
           /\ op[o].todo \in Seq(Step) /\ op[o].todo # <<>>
           /\ Head(op[o].todo) = op[o].todo[1]
           /\ Tail(op[o].todo) \in Seq(Step)
           /\ Ready(op[o], watched, linked.account, mixed)
           /\ \A x : At(o, x) <=> op[o].todo[1] = x
           /\ \A x \in AboutSub : Ahead(o, x) => Concerns(op[o].todo)
           /\ Head(op[o].todo) \in AboutSub => Concerns(op[o].todo)
<1>1. op[o] \in Operation /\ Ready(op[o], watched, linked.account, mixed)
      BY DEF Operations
<1>2. op[o].todo \in Seq(Step) /\ op[o].todo # <<>>
      BY <1>1 DEF Operation, Busy
<1>3. /\ Head(op[o].todo) = op[o].todo[1]
      /\ Tail(op[o].todo) \in Seq(Step)
      /\ 1 \in 1 .. Len(op[o].todo)
      BY <1>2, HeadTailProperties, EmptySeq
<1> QED BY <1>1, <1>2, <1>3 DEF At, Busy, Ahead, Concerns

LEMMA WithProgram ==
    ASSUME NEW r \in Operation, NEW t, Fresh(t)
    PROVE  /\ [r EXCEPT !.todo = t] \in Operation
           /\ [r EXCEPT !.todo = t].todo = t
           /\ [r EXCEPT !.todo = t].sub = r.sub
<1>1. t \in Seq(Step)
      BY DEF Fresh, Program
<1> QED BY <1>1 DEF Operation

\* An operation that fails or that ends leaves no step without what it needs.
LEMMA Ending ==
    ASSUME Operations, NEW o \in Op, Busy(o), UNCHANGED <<watched, linked, mixed>>
    PROVE  /\ Goto(o, Caught(o)) => Operations'
           /\ Stop(o) => Operations'
           /\ Goto(o, <<"unrow">>) /\ Concerns(op[o].todo) => Operations'
<1>1. ASSUME NEW t \in Program, Goto(o, t), Fresh(t),
             Concerns(t) => Concerns(op[o].todo)
      PROVE  Operations'
  <2> DEFINE r == [op[o] EXCEPT !.todo = t]
  <2>1. r \in Operation /\ r.todo = t /\ r.sub = op[o].sub
      BY <1>1, Current DEF Operation, Program
  <2>2. Concerns(t) => op[o].sub # None /\ watched[op[o].sub] # None
      BY <1>1, Current DEF Ready
  <2>3. Ready(r, watched, linked.account, mixed)
    <3> HIDE DEF r
    <3> QED BY <1>1, <2>1, <2>2, FreshReady
  <2> QED BY <1>1, <2>1, <2>3, QuietTurn DEF Goto
<1>2. /\ Fresh(Caught(o)) /\ Caught(o) \in Program
      /\ Concerns(Caught(o)) => Concerns(op[o].todo)
  <2>1. CASE ~Ahead(o, "unrow")
      BY <2>1, Programs DEF Caught, Fresh
  <2>2. CASE Ahead(o, "unrow")
    <3>1. Concerns(op[o].todo)
        BY <2>2, Current DEF AboutSub
    <3>2. <<"unrow">> \o <<>> = <<"unrow">>
        OBVIOUS
    <3> QED BY <2>2, <3>1, <3>2, Programs DEF Caught, Fresh
  <2> QED BY <2>1, <2>2
<1> QED BY <1>1, <1>2, Programs DEF Stop, Fresh

\* An operation goes on, with what it holds.
LEMMA GoesOn ==
    ASSUME Operations, NEW o \in Op, Done(o), Busy(o), NEW w, NEW a, NEW m,
           op[o].todo[1] \notin {"token", "post"},
           Concerns(op[o].todo) => op[o].sub # None /\ w[op[o].sub] # None
    PROVE  LET r == [op[o] EXCEPT !.todo = Tail(op[o].todo)]
           IN  /\ r \in Operation
               /\ Becomes(o, r)
               /\ Ready(r, w, a, m)
<1> DEFINE r == [op[o] EXCEPT !.todo = Tail(op[o].todo)]
<1>1. /\ r \in Operation /\ r.todo = Tail(op[o].todo)
      /\ r.me = op[o].me /\ r.sub = op[o].sub
      BY Current DEF Operation
<1>2. Becomes(o, r)
      BY DEF Done, Goto
<1>3. /\ op[o].todo \in Program /\ op[o].todo # <<>>
      /\ op[o].todo[1] = "persist" => op[o].me # None
      BY Current DEF Ready
<1>4. Ready(r, w, a, m)
  <2> HIDE DEF r
  <2> QED BY <1>1, <1>3, TailReady
<1> QED BY <1>1, <1>2, <1>4

-----------------------------------------------------------------------------
(* The steps.                                                              *)

\* What comes in begins a program from its first step.
LEMMA StartKeeps ==
    ASSUME Operations, NEW o \in Op, NEW k \in DOMAIN Steps, NEW s \in Sub \cup {None},
           Start(o, k, s), k \in {"renew", "delete"} => s # None /\ watched[s] # None
    PROVE  Operations'
<1> DEFINE r == [NoOp EXCEPT !.kind = k, !.sub = s, !.todo = Steps[k]]
<1>1. /\ r \in Operation
      /\ r.todo = Steps[k] /\ r.sub = s
      BY Programs, NoOpReady DEF NoOp, Operation, Fresh, Program
<1>2. Ready(r, watched, linked.account, mixed)
  <2> HIDE DEF r
  <2> QED BY <1>1, Programs, FreshReady
<1>3. Becomes(o, r)
      BY DEF Start
<1> QED BY <1>1, <1>2, <1>3, QuietTurn DEF Start, tables, ghosts

LEMMA Arithmetic ==
    /\ Life \in 0 .. Life
    /\ 0 \in 0 .. Life
    /\ \A h \in 0 .. Life : Later(h) \in 0 .. Life
BY DEF Life, Later, Period

LEMMA StartStep ==
    ASSUME Inv, NEW o \in Op,
           \/ StartCreate(o) \/ StartRenew(o) \/ StartDelete(o) \/ StartCall(o)
           \/ StartHook(o) \/ StartLink(o) \/ StartDue(o)
    PROVE  Inv'
<1> USE DEF Inv
<1>1. DOMAIN Steps = {"create", "renew", "delete", "calendar", "hook", "link"}
      BY DEF Steps
<1>2. Operations'
  <2>1. CASE StartCreate(o)
      BY <1>1, <2>1, StartKeeps DEF StartCreate
  <2>2. CASE StartRenew(o)
    <3>1. PICK s \in Sub : watched[s] # None /\ Start(o, "renew", s)
        BY <2>2 DEF StartRenew
    <3> QED BY <1>1, <3>1, StartKeeps DEF None
  <2>3. CASE StartDelete(o)
    <3>1. PICK s \in Sub : watched[s] # None /\ Start(o, "delete", s)
        BY <2>3 DEF StartDelete
    <3> QED BY <1>1, <3>1, StartKeeps DEF None
  <2>4. CASE StartCall(o)
      BY <1>1, <2>4, StartKeeps DEF StartCall
  <2>5. CASE StartHook(o)
      BY <1>1, <2>5, StartKeeps DEF StartHook
  <2>6. CASE StartLink(o)
      BY <1>1, <2>6, StartKeeps DEF StartLink
  <2>7. CASE StartDue(o)
    <3>1. PICK s \in due : Start(o, "renew", s)
        BY <2>7 DEF StartDue
    <3>2. s \in Sub /\ s # None /\ watched[s] # None
        BY DEF Data, Subscribed, None
    <3> QED BY <1>1, <3>1, <3>2, StartKeeps
  <2> QED BY <2>1, <2>2, <2>3, <2>4, <2>5, <2>6, <2>7
<1>3. /\ UNCHANGED <<tables, watched, left, waiting, ghosts, faults>>
      /\ links' \in 0 .. MaxLinks /\ due' \subseteq due
  <2>1. CASE StartLink(o)
      BY <2>1 DEF StartLink, Start, Data
  <2>2. CASE StartDue(o)
      BY <2>2 DEF StartDue, Start, Data
  <2>3. CASE StartCreate(o) \/ StartCall(o)
      BY <2>3 DEF StartCreate, StartCall, Start, Data
  <2>4. CASE StartRenew(o) \/ StartDelete(o) \/ StartHook(o)
      BY <2>4 DEF StartRenew, StartDelete, StartHook, Start, Data
  <2> QED BY <2>1, <2>2, <2>3, <2>4
<1>4. Data' /\ TokenOfItsAccount'
      BY <1>3 DEF Data, TokenOfItsAccount, Subscribed, tables, ghosts
<1> QED BY <1>2, <1>4


LEMMA Holds ==
    ASSUME Operations, NEW o \in Op, Busy(o),
           op[o].todo[1] = "insert" \/ Concerns(op[o].todo)
    PROVE  op[o].sub \in Subscribed
BY Current DEF Ready, Operation, Subscribed

LEMMA Throwing ==
    ASSUME Operations, strays \subseteq Subscribed, NEW o \in Op, Busy(o), Throw(o),
           UNCHANGED <<watched, linked, mixed>>
    PROVE  Operations' /\ strays' \subseteq Subscribed
<1>1. Leaves(o) => op[o].sub \in Subscribed
      BY Current, Holds DEF Leaves, AboutSub
<1> QED BY <1>1, Ending DEF Throw

\* A request is made; the operation goes on about s.
LEMMA Sending ==
    ASSUME Operations, NEW o \in Op, Busy(o), NEW s \in Sub, Sent(o, s),
           NEW w, NEW a, NEW m, w[s] # None, op[o].todo[1] \in Requests
    PROVE  LET r == [op[o] EXCEPT !.sub = s, !.me = None, !.todo = Tail(op[o].todo)]
           IN  /\ r \in Operation
               /\ Becomes(o, r)
               /\ Ready(r, w, a, m)
<1> DEFINE r == [op[o] EXCEPT !.sub = s, !.me = None, !.todo = Tail(op[o].todo)]
<1>1. /\ r \in Operation /\ r.todo = Tail(op[o].todo) /\ r.sub = s
      BY Current DEF Operation
<1>2. Becomes(o, r)
      BY DEF Sent
<1>3. /\ op[o].todo \in Program /\ op[o].todo # <<>>
      /\ op[o].todo[1] \notin {"token", "persist"}
      BY Current DEF Ready, Requests
<1>4. s # None
      BY DEF None
<1>5. Ready(r, w, a, m)
  <2> HIDE DEF r
  <2> QED BY <1>1, <1>3, <1>4, TailReady
<1> QED BY <1>1, <1>2, <1>5

\* getAccessToken: the token of the row is of the account the row names.
LEMMA ReadTokenStep ==
    ASSUME Inv, NEW o \in Op, ReadToken(o)
    PROVE  Inv'
<1> USE DEF Inv
<1>1. /\ At(o, "token") /\ Busy(o)
      /\ UNCHANGED <<tables, graph, time, removed, overlapped, switched, mixed, faults>>
      BY DEF ReadToken, At
<1>2. Operations' /\ strays' \subseteq Subscribed
  <2>0. UNCHANGED <<watched, linked, mixed>> /\ strays \subseteq Subscribed
      BY <1>1 DEF tables, graph, Data
  <2>1. CASE linked.token = None
      BY <1>1, <2>0, <2>1, Throwing DEF ReadToken
  <2>2. CASE linked.token # None
    <3> DEFINE r == [op[o] EXCEPT !.me = linked.token, !.todo = Tail(op[o].todo)]
    <3>1. Becomes(o, r) /\ strays' = strays
        BY <2>2 DEF ReadToken
    <3>2. /\ r \in Operation /\ r.todo = Tail(op[o].todo)
          /\ r.me = linked.token /\ r.sub = op[o].sub
        BY <1>1, Current DEF Operation, Data
    <3>3. /\ op[o].todo \in Program /\ op[o].todo # <<>>
          /\ op[o].todo[1] = "token"
          /\ Concerns(op[o].todo) => op[o].sub # None /\ watched[op[o].sub] # None
        BY <1>1, Current DEF Ready
    <3>4. Ready(r, watched, linked.account, mixed)
      <4> HIDE DEF r
      <4> QED BY <2>2, <3>2, <3>3, TailReady DEF TokenOfItsAccount
    <3> QED BY <2>0, <3>1, <3>2, <3>4, QuietTurn
  <2> QED BY <2>1, <2>2
<1>3. Data' /\ TokenOfItsAccount'
      BY <1>1, <1>2 DEF Data, TokenOfItsAccount, Subscribed, tables, graph, time
<1> QED BY <1>2, <1>3

\* The token that is written back is of that account, unless it changed.
LEMMA PersistStep ==
    ASSUME Inv, NEW o \in Op, Persist(o)
    PROVE  Inv'
<1> USE DEF Inv
<1>1. /\ At(o, "persist") /\ Busy(o) /\ Done(o)
      /\ UNCHANGED <<rows, until, graph, time, ghosts, faults>>
      /\ linked' = [linked EXCEPT !.token = op[o].me] \/ linked' = linked
      BY DEF Persist, At
<1>2. op[o].todo[1] = "persist" /\ op[o].me \in Account \cup {None}
      /\ (op[o].me = linked.account \/ mixed)
      BY <1>1, Current DEF Ready, Operation
<1>3. linked'.account = linked.account /\ UNCHANGED <<watched, mixed>>
      BY <1>1 DEF Data, graph, ghosts
<1>4. Concerns(op[o].todo) => op[o].sub # None /\ watched[op[o].sub] # None
      BY <1>1, Current DEF Ready
<1>5. Operations'
      BY <1>1, <1>2, <1>3, <1>4, GoesOn, Turn
<1>6. Data' /\ TokenOfItsAccount'
      BY <1>1, <1>2, <1>3 DEF Data, TokenOfItsAccount, Subscribed, graph, time, ghosts
<1> QED BY <1>5, <1>6

LEMMA ExchangeStep ==
    ASSUME Inv, NEW o \in Op, Exchange(o)
    PROVE  Inv'
<1> USE DEF Inv
<1>1. /\ At(o, "exchange") /\ Busy(o)
      /\ UNCHANGED <<tables, graph, time, ghosts, faults>>
      BY DEF Exchange, At
<1>2. PICK a \in Account : Becomes(o, [op[o] EXCEPT !.me = a, !.todo = Tail(op[o].todo)])
      BY DEF Exchange
<1> DEFINE r == [op[o] EXCEPT !.me = a, !.todo = Tail(op[o].todo)]
<1>3. /\ r \in Operation /\ r.todo = Tail(op[o].todo) /\ r.sub = op[o].sub
      BY <1>1, Current DEF Operation
<1>4. /\ op[o].todo \in Program /\ op[o].todo # <<>> /\ op[o].todo[1] = "exchange"
      /\ Concerns(op[o].todo) => op[o].sub # None /\ watched[op[o].sub] # None
      BY <1>1, Current DEF Ready
<1>5. Ready(r, watched, linked.account, mixed)
  <2> HIDE DEF r
  <2> QED BY <1>3, <1>4, TailReady
<1>6. Operations'
      BY <1>1, <1>2, <1>3, <1>5, QuietTurn DEF tables, graph, ghosts
<1>7. Data' /\ TokenOfItsAccount'
      BY <1>1 DEF Data, TokenOfItsAccount, Subscribed, tables, graph, time, ghosts
<1> QED BY <1>6, <1>7

\* A new account replaces both; whoever is about to write a token of the one
\* before has mixed them up.
LEMMA UpsertStep ==
    ASSUME Inv, NEW o \in Op, Upsert(o)
    PROVE  Inv'
<1> USE DEF Inv
<1>1. /\ At(o, "upsert") /\ Busy(o) /\ Done(o) /\ linked' = LinkedBy(o)
      /\ mixed' = (mixed \/ \E p \in Op : At(p, "persist") /\ op[p].me # op[o].me)
      /\ UNCHANGED <<rows, until, graph, time, removed, strays, overlapped, faults>>
      BY DEF Upsert, At
<1>2. /\ op[o].todo[1] = "upsert" /\ op[o].me \in Account \cup {None}
      /\ Concerns(op[o].todo) => op[o].sub # None /\ watched[op[o].sub] # None
      BY <1>1, Current DEF Ready, Operation
<1>3. /\ linked'.account = op[o].me /\ linked'.token = op[o].me
      /\ linked' \in [account : Account \cup {None}, token : Account \cup {None}]
      BY <1>1, <1>2 DEF LinkedBy
<1>4. \A p \in Op \ {o} : At(p, "persist") => op[p].me = linked'.account \/ mixed'
      BY <1>1, <1>3
<1>5. UNCHANGED watched
      BY <1>1 DEF graph
<1>6. Operations'
      BY <1>1, <1>2, <1>4, <1>5, GoesOn, Turn
<1>7. Data' /\ TokenOfItsAccount'
      BY <1>1, <1>3 DEF Data, TokenOfItsAccount, Subscribed, graph, time
<1> QED BY <1>6, <1>7

LEMMA LookupStep ==
    ASSUME Inv, NEW o \in Op, Lookup(o)
    PROVE  Inv'
<1> USE DEF Inv
<1>1. /\ At(o, "lookup") /\ Busy(o)
      /\ UNCHANGED <<tables, graph, time, removed, strays, switched, mixed, faults>>
      BY DEF Lookup, At
<1>2. UNCHANGED <<watched, linked, mixed>>
      BY <1>1 DEF tables, graph
<1>3. Operations'
  <2>1. CASE Goto(o, Creation)
    <3> DEFINE r == [op[o] EXCEPT !.todo = Creation]
    <3>0. op[o] \in Operation /\ Fresh(Creation)
        BY <1>1, Current, Programs
    <3>1. r \in Operation /\ r.todo = Creation
        BY <3>0, WithProgram
    <3>2. Ready(r, watched, linked.account, mixed)
      <4> HIDE DEF r
      <4> QED BY <3>1, Programs, FreshReady
    <3> QED BY <1>2, <2>1, <3>1, <3>2, QuietTurn DEF Goto
  <2>2. CASE Stop(o)
      BY <1>1, <1>2, <2>2, Ending
  <2>3. ASSUME NEW s \in rows,
               Becomes(o, [op[o] EXCEPT !.sub = s, !.todo = Replacement])
        PROVE  Operations'
    <3> DEFINE r == [op[o] EXCEPT !.sub = s, !.todo = Replacement]
    <3>1. s \in Sub /\ s # None /\ watched[s] # None
        BY DEF Data, Subscribed, None
    <3>0. op[o] \in Operation /\ Fresh(Replacement)
        BY <1>1, Current, Programs
    <3>2. r \in Operation /\ r.todo = Replacement /\ r.sub = s
      <4>1. Replacement \in Seq(Step)
          BY <3>0 DEF Fresh, Program
      <4> QED BY <3>0, <3>1, <4>1 DEF Operation
    <3>3. Ready(r, watched, linked.account, mixed)
      <4> HIDE DEF r
      <4> QED BY <3>1, <3>2, Programs, FreshReady
    <3> QED BY <1>2, <2>3, <3>2, <3>3, QuietTurn
  <2> QED BY <2>1, <2>2, <2>3 DEF Lookup
<1>4. Data' /\ TokenOfItsAccount'
      BY <1>1 DEF Data, TokenOfItsAccount, Subscribed, tables, graph, time
<1> QED BY <1>3, <1>4

LEMMA FindStep ==
    ASSUME Inv, NEW o \in Op, Find(o)
    PROVE  Inv'
<1> USE DEF Inv
<1>1. /\ At(o, "find") /\ Busy(o) /\ (Done(o) \/ Goto(o, Caught(o)))
      /\ UNCHANGED <<tables, graph, time, ghosts, faults>>
      BY DEF Find, At
<1>2. UNCHANGED <<watched, linked, mixed>>
      BY <1>1 DEF tables, graph, ghosts
<1>3. Operations'
  <2>1. CASE Goto(o, Caught(o))
      BY <1>1, <1>2, <2>1, Ending
  <2>2. CASE Done(o)
    <3>1. /\ op[o].todo[1] = "find"
          /\ Concerns(op[o].todo) => op[o].sub # None /\ watched[op[o].sub] # None
        BY <1>1, Current DEF Ready
    <3> QED BY <1>1, <1>2, <2>2, <3>1, GoesOn, QuietTurn
  <2> QED BY <1>1, <2>1, <2>2
<1>4. Data' /\ TokenOfItsAccount'
      BY <1>1 DEF Data, TokenOfItsAccount, Subscribed, tables, graph, time, ghosts
<1> QED BY <1>3, <1>4

\* Graph makes a subscription: the ones there are stay.
LEMMA Making ==
    ASSUME Data, Operations, NEW o \in Op, NEW s \in Sub, At(o, "post"), Made(o, s)
    PROVE  /\ watched' \in [Sub -> Account \cup {None}]
           /\ left' \in [Sub -> 0 .. Life]
           /\ watched'[s] # None
           /\ \A t \in Sub : watched[t] # None => watched'[t] # None
<1>1. op[o].me \in Account /\ op[o].me # None
      BY Current DEF At, Ready, Operation, Requests
<1> QED BY <1>1, Arithmetic DEF Made, Data

LEMMA PostStep ==
    ASSUME Inv, NEW o \in Op, Post(o)
    PROVE  Inv'
<1> USE DEF Inv
<1>1. /\ At(o, "post") /\ Busy(o)
      /\ UNCHANGED <<tables, time, ghosts, faults>>
      BY DEF Post, At
<1>2. PICK s \in Sub : Made(o, s) /\ Sent(o, s)
      BY DEF Post
<1>3. /\ UNCHANGED <<linked, mixed>>
      /\ op[o].todo[1] \in Requests
      BY <1>1, Current DEF tables, ghosts, Requests
<1>4. Operations'
      BY <1>1, <1>2, <1>3, Making, Sending, Turn
<1>5. Data' /\ TokenOfItsAccount'
      BY <1>1, <1>2, Making DEF Data, TokenOfItsAccount, Subscribed, Made, tables, time, ghosts
<1> QED BY <1>4, <1>5

LEMMA PostUnansweredStep ==
    ASSUME Inv, NEW o \in Op, PostUnanswered(o)
    PROVE  Inv'
<1> USE DEF Inv
<1>1. /\ At(o, "post") /\ Busy(o) /\ Stop(o) /\ Fault
      /\ UNCHANGED <<tables, time, removed, overlapped, switched, mixed>>
      BY DEF PostUnanswered, At
<1>2. PICK s \in Sub : Made(o, s) /\ strays' = strays \cup {s}
      BY DEF PostUnanswered
<1>3. UNCHANGED <<linked, mixed>>
      BY <1>1 DEF tables
<1>4. Becomes(o, [op[o] EXCEPT !.todo = <<>>])
      BY <1>1 DEF Stop, Goto
<1> DEFINE r == [op[o] EXCEPT !.todo = <<>>]
<1>5. r \in Operation /\ r.todo = <<>>
  <2>1. op[o] \in Operation /\ Fresh(<<>>)
      BY <1>1, Current, Programs
  <2> QED BY <2>1, WithProgram
<1>6. Ready(r, watched', linked'.account, mixed')
  <2> HIDE DEF r
  <2> QED BY <1>5, Programs, FreshReady
<1>7. Becomes(o, r)
      BY <1>4
<1>8. Operations'
  <2> HIDE DEF r
  <2> QED BY <1>1, <1>2, <1>3, <1>5, <1>6, <1>7, Making, Turn
<1>9. faults' \in 0 .. MaxFaults
      BY <1>1 DEF Fault, Data
<1>10. /\ links' = links
       /\ watched' \in [Sub -> Account \cup {None}]
       /\ left' \in [Sub -> 0 .. Life]
       /\ Subscribed \cup {s} \subseteq Subscribed'
      BY <1>1, <1>2, Making DEF Made, Subscribed
<1>11. Data' /\ TokenOfItsAccount'
      BY <1>1, <1>2, <1>9, <1>10 DEF Data, TokenOfItsAccount, tables, time
<1> QED BY <1>8, <1>11

\* The steps that end with a query to the table, and go on.
LEMMA RowStep ==
    ASSUME Inv, NEW o \in Op, Insert(o) \/ Update(o) \/ Unrow(o)
    PROVE  Inv'
<1> USE DEF Inv
<1>1. /\ Busy(o) /\ Done(o)
      /\ op[o].todo[1] \in {"insert", "update", "unrow"}
      /\ op[o].sub \in Subscribed
      /\ UNCHANGED <<linked, graph, time, strays, overlapped, switched, mixed, faults>>
  <2>1. Busy(o) /\ op[o].todo[1] \in {"insert", "update", "unrow"}
      BY Current DEF Insert, Update, Unrow, At
  <2>2. op[o].sub \in Subscribed
      BY <2>1, Current, Holds DEF AboutSub
  <2> QED BY <2>1, <2>2 DEF Insert, Update, Unrow, ghosts
<1>2. Operations'
  <2>1. Concerns(op[o].todo) => op[o].sub # None /\ watched[op[o].sub] # None
      BY <1>1, Current DEF Ready
  <2>2. UNCHANGED <<watched, linked, mixed>>
      BY <1>1 DEF graph
  <2> QED BY <1>1, <2>1, <2>2, GoesOn, QuietTurn
<1>3. /\ rows' \subseteq Subscribed /\ removed' \subseteq Subscribed
      /\ until' \in [Sub -> 0 .. Life]
  <2>1. CASE Insert(o)
      BY <1>1, <2>1, Arithmetic DEF Insert, Data, ghosts
  <2>2. CASE Update(o)
      BY <1>1, <2>2, Arithmetic DEF Update, Data, ghosts
  <2>3. CASE Unrow(o)
      BY <1>1, <2>3, Arithmetic DEF Unrow, Data
  <2> QED BY <2>1, <2>2, <2>3
<1>4. Data' /\ TokenOfItsAccount'
      BY <1>1, <1>3 DEF Data, TokenOfItsAccount, Subscribed, graph, time
<1> QED BY <1>2, <1>4

\* The requests about a subscription there is.
LEMMA RequestStep ==
    ASSUME Inv, NEW o \in Op, Patch(o) \/ Remove(o)
    PROVE  Inv'
<1> USE DEF Inv
<1>1. /\ Busy(o)
      /\ op[o].todo[1] \in {"patch", "remove"}
      /\ UNCHANGED <<tables, links, watched, time, overlapped, switched, mixed, faults>>
      BY Current DEF Patch, Remove, At
<1>2. /\ op[o].sub \in Subscribed /\ op[o].sub \in Sub /\ watched[op[o].sub] # None
      /\ op[o].todo[1] \in Requests /\ Concerns(op[o].todo)
      BY <1>1, Current, Holds DEF AboutSub, Subscribed, Requests
<1>3. UNCHANGED <<watched, linked, mixed>>
      BY <1>1 DEF tables
<1>4. Operations'
  <2>1. CASE Sent(o, op[o].sub)
      BY <1>1, <1>2, <1>3, <2>1, Sending, QuietTurn
  <2>2. CASE Goto(o, <<"unrow">>) \/ Goto(o, OnError(op[o].sub))
      BY <1>1, <1>2, <1>3, <2>2, Ending DEF OnError, Stop
  <2> QED BY <2>1, <2>2 DEF Patch, Remove
<1>5. /\ left' \in [Sub -> 0 .. Life]
      /\ removed' \subseteq Subscribed /\ strays' \subseteq Subscribed
  <2>1. CASE Patch(o)
      BY <1>2, <2>1, Arithmetic DEF Patch, Data
  <2>2. CASE Remove(o)
      BY <1>2, <2>2, Arithmetic DEF Remove, Data
  <2> QED BY <2>1, <2>2
<1>6. Data' /\ TokenOfItsAccount'
      BY <1>1, <1>5 DEF Data, TokenOfItsAccount, Subscribed, tables, time
<1> QED BY <1>4, <1>6

\* What a notification is about: an event, which is fetched.
LEMMA KnownStep ==
    ASSUME Inv, NEW o \in Op, Known(o)
    PROVE  Inv'
<1> USE DEF Inv
<1>1. /\ Busy(o) /\ UNCHANGED <<tables, graph, time, ghosts, faults>>
      /\ UNCHANGED <<watched, linked, mixed>>
      BY DEF Known, At, tables, graph, ghosts
<1>2. Operations'
  <2>1. CASE Stop(o)
      BY <1>1, <2>1, Ending
  <2>2. CASE Becomes(o, [NoOp EXCEPT !.todo = EventCall])
    <3> DEFINE r == [NoOp EXCEPT !.todo = EventCall]
    <3>1. r \in Operation /\ r.todo = EventCall
      <4>1. NoOp \in Operation /\ Fresh(EventCall)
          BY NoOpReady, Programs
      <4> QED BY <4>1, WithProgram
    <3>2. Ready(r, watched, linked.account, mixed)
      <4> HIDE DEF r
      <4> QED BY <3>1, Programs, FreshReady
    <3> QED BY <1>1, <2>2, <3>1, <3>2, QuietTurn
  <2> QED BY <2>1, <2>2 DEF Known
<1>3. Data' /\ TokenOfItsAccount'
      BY <1>1 DEF Data, TokenOfItsAccount, Subscribed, tables, graph, time, ghosts
<1> QED BY <1>2, <1>3

LEMMA FailStep ==
    ASSUME Inv, NEW o \in Op, Fails(o)
    PROVE  Inv'
<1> USE DEF Inv
<1>1. /\ Busy(o) /\ Fault
      /\ UNCHANGED <<tables, graph, time, removed, overlapped, switched, mixed>>
      /\ UNCHANGED <<watched, linked, mixed>>
      /\ strays \subseteq Subscribed
      BY DEF Fails, tables, graph, Data
<1>2. Operations' /\ strays' \subseteq Subscribed
  <2>1. CASE Throw(o)
      BY <1>1, <2>1, Throwing
  <2>2. CASE Goto(o, OnError(op[o].sub)) /\ UNCHANGED strays
      BY <1>1, <2>2, Ending DEF OnError, Stop
  <2> QED BY <2>1, <2>2 DEF Fails
<1>3. faults' \in 0 .. MaxFaults
      BY <1>1 DEF Fault, Data
<1>4. Data' /\ TokenOfItsAccount'
      BY <1>1, <1>2, <1>3 DEF Data, TokenOfItsAccount, Subscribed, tables, graph, time
<1> QED BY <1>2, <1>4

\* The steps of no operation.
LEMMA TimeStep ==
    ASSUME Inv, Advance \/ RunJob \/ MissRun \/ Crash
    PROVE  Inv'
<1> USE DEF Inv
<1>1. /\ UNCHANGED <<watched, linked, mixed, rows, links, removed>>
      BY DEF Advance, RunJob, MissRun, Crash, tables, graph, ghosts
<1>2. Operations'
  <2>1. CASE Crash
    <3>1. op' = [o \in Op |-> NoOp]
        BY <2>1 DEF Crash
    <3> QED BY <3>1, NoOpReady DEF Operations
  <2>2. CASE Advance \/ RunJob \/ MissRun
    <3>1. op' = op
        BY <2>2 DEF Advance, RunJob, MissRun
    <3> QED BY <1>1, <3>1 DEF Operations
  <2> QED BY <2>1, <2>2
<1>3. left' \in [Sub -> 0 .. Life] /\ until' \in [Sub -> 0 .. Life]
  <2>1. CASE Advance
      BY <2>1, Arithmetic DEF Advance, Data
  <2>2. CASE RunJob \/ MissRun \/ Crash
      BY <2>2 DEF RunJob, MissRun, Crash, tables, graph, Data
  <2> QED BY <2>1, <2>2
<1>4. due' \subseteq Subscribed /\ strays' \subseteq Subscribed
  <2>1. CASE Crash
    <3>1. \A o \in Op : At(o, "insert") => op[o].sub \in Subscribed
        BY Current, Holds DEF At
    <3> QED BY <2>1, <3>1 DEF Crash, Data
  <2>2. CASE Advance \/ RunJob \/ MissRun
      BY <2>2 DEF Advance, RunJob, MissRun, ghosts, Data
  <2> QED BY <2>1, <2>2
<1>5. waiting' \in BOOLEAN
      BY DEF Advance, RunJob, MissRun, Crash, Data
<1>6. faults' \in 0 .. MaxFaults
      BY DEF Advance, RunJob, MissRun, Crash, Fault, Data
<1>7. Data' /\ TokenOfItsAccount'
      BY <1>1, <1>3, <1>4, <1>5, <1>6 DEF Data, TokenOfItsAccount, Subscribed
<1> QED BY <1>2, <1>7

-----------------------------------------------------------------------------
(* Types and tokens are preserved.                                         *)

LEMMA Stays ==
    ASSUME Inv, [Next]_vars
    PROVE  Inv'
<1>1. CASE UNCHANGED vars
  <2>1. UNCHANGED <<linked, links, watched, rows, due, removed, strays, left, until,
                    waiting, op, mixed, faults>>
        BY <1>1 DEF vars, tables, graph, time, ghosts
  <2>2. Data' /\ TokenOfItsAccount' /\ Operations'
        BY <2>1 DEF Inv, Data, TokenOfItsAccount, Operations, Subscribed
  <2> QED BY <2>2 DEF Inv
<1>2. CASE Next
      BY <1>2, StartStep, ReadTokenStep, PersistStep, ExchangeStep, UpsertStep, LookupStep,
         FindStep, PostStep, PostUnansweredStep, RowStep, RequestStep, KnownStep, FailStep,
         TimeStep DEF Next
<1> QED BY <1>1, <1>2

-----------------------------------------------------------------------------
(* The order of what an operation does.                                    *)

\* What is made by one step is used by the next, and a row goes right after the
\* subscription does.
Final == {"lookup", "post", "insert", "unrow", "upsert", "known"}

Orderly(t) ==
    /\ \A i \in 1 .. Len(t) :
          /\ t[i] = "post" => i < Len(t) /\ t[i + 1] = "insert"
          /\ t[i] = "exchange" => i < Len(t) /\ t[i + 1] = "upsert"
          /\ t[i] \in Final => \A j \in 1 .. Len(t) : j > i => t[j] \notin {"unrow", "patch"}
          /\ t[i] = "insert" => i = Len(t)
    /\ \A i \in 2 .. Len(t) :
          /\ t[i] = "unrow" => t[i - 1] = "remove"
          /\ t[i] = "update" => t[i - 1] = "patch"
          /\ t[i] = "upsert" => t[i - 1] = "exchange"
          /\ t[i] \notin {"find", "lookup"}

Among(x, t) == \E i \in 1 .. Len(t) : t[i] = x

LEMMA TailOrderly ==
    ASSUME NEW t \in Program, t # <<>>, Orderly(t), NEW u, u = Tail(t)
    PROVE  /\ Orderly(u)
           /\ \A x : Among(x, u) => Among(x, t)
           /\ \A x : Among(x, t) => Among(x, u) \/ t[1] = x
           /\ t[1] = "post" <=> u # <<>> /\ u[1] = "insert"
           /\ t[1] = "exchange" <=> u # <<>> /\ u[1] = "upsert"
           /\ u # <<>> =>
                 /\ u[1] = "unrow" => t[1] = "remove"
                 /\ u[1] = "update" => t[1] = "patch"
                 /\ u[1] \notin {"find", "lookup"}
           /\ t[1] \in Final => ~Among("unrow", u)
           /\ t[1] = "insert" => u = <<>>
<1>1. t \in Seq(Step) /\ InOrder(t) /\ Len(t) \in Nat \ {0}
      BY DEF Program
<1>2. /\ u \in Seq(Step)
      /\ Len(u) = Len(t) - 1
      /\ \A i \in 1 .. Len(u) : u[i] = t[i + 1]
      BY <1>1, HeadTailProperties
<1>3. u # <<>> <=> 2 \in 1 .. Len(t)
  <2>1. u = <<>> <=> Len(u) = 0
        BY <1>2, EmptySeq
  <2> QED BY <1>1, <1>2, <2>1
<1>4. u # <<>> => 2 \in 2 .. Len(t) /\ u[1] = t[2] /\ t[2 - 1] = t[1]
      BY <1>1, <1>2, <1>3
<1>5. ASSUME NEW i \in 1 .. Len(u)
      PROVE  /\ u[i] = "post" => i < Len(u) /\ u[i + 1] = "insert"
             /\ u[i] = "exchange" => i < Len(u) /\ u[i + 1] = "upsert"
             /\ u[i] \in Final => \A j \in 1 .. Len(u) : j > i => u[j] \notin {"unrow", "patch"}
             /\ u[i] = "insert" => i = Len(u)
  <2>1. i + 1 \in 1 .. Len(t) /\ u[i] = t[i + 1]
        BY <1>1, <1>2
  <2>2. (i < Len(u) <=> i + 1 < Len(t)) /\ (i = Len(u) <=> i + 1 = Len(t))
        BY <1>1, <1>2
  <2>3. i < Len(u) => u[i + 1] = t[(i + 1) + 1]
        BY <1>1, <1>2
  <2>4. ASSUME NEW j \in 1 .. Len(u), j > i
        PROVE  j + 1 \in 1 .. Len(t) /\ j + 1 > i + 1 /\ u[j] = t[j + 1]
        BY <1>1, <1>2, <2>4
  <2> QED BY <2>1, <2>2, <2>3, <2>4 DEF Orderly
<1>6. ASSUME NEW i \in 2 .. Len(u)
      PROVE  /\ u[i] = "unrow" => u[i - 1] = "remove"
             /\ u[i] = "update" => u[i - 1] = "patch"
             /\ u[i] = "upsert" => u[i - 1] = "exchange"
             /\ u[i] \notin {"find", "lookup"}
  <2>1. i + 1 \in 2 .. Len(t) /\ u[i] = t[i + 1] /\ u[i - 1] = t[(i + 1) - 1]
        BY <1>1, <1>2
  <2> QED BY <2>1 DEF Orderly
<1>7. Orderly(u)
      BY <1>5, <1>6 DEF Orderly
<1>8. \A x : Among(x, u) => Among(x, t)
  <2> SUFFICES ASSUME NEW x, NEW i \in 1 .. Len(u), u[i] = x
               PROVE  \E j \in 1 .. Len(t) : t[j] = x
      BY DEF Among
  <2>1. i + 1 \in 1 .. Len(t) /\ t[i + 1] = x
        BY <1>1, <1>2
  <2> QED BY <2>1
<1>9. \A x : Among(x, t) => Among(x, u) \/ t[1] = x
  <2> SUFFICES ASSUME NEW x, NEW i \in 1 .. Len(t), t[i] = x, t[1] # x
               PROVE  \E j \in 1 .. Len(u) : u[j] = x
      BY DEF Among
  <2>1. i - 1 \in 1 .. Len(u) /\ (i - 1) + 1 = i
        BY <1>1, <1>2
  <2>2. u[i - 1] = t[i]
        BY <1>2, <2>1
  <2> QED BY <2>1, <2>2
<1>10. t[1] = "post" <=> u # <<>> /\ u[1] = "insert"
  <2>1. t[1] = "post" => u # <<>> /\ u[1] = "insert"
        BY <1>1, <1>3, <1>4, 1 \in 1 .. Len(t), 1 + 1 = 2 DEF Orderly
  <2>2. u # <<>> /\ u[1] = "insert" => t[1] = "post"
        BY <1>1, <1>4 DEF InOrder
  <2> QED BY <2>1, <2>2
<1>11. t[1] = "exchange" <=> u # <<>> /\ u[1] = "upsert"
  <2>1. t[1] = "exchange" => u # <<>> /\ u[1] = "upsert"
        BY <1>1, <1>3, <1>4, 1 \in 1 .. Len(t), 1 + 1 = 2 DEF Orderly
  <2>2. u # <<>> /\ u[1] = "upsert" => t[1] = "exchange"
        BY <1>1, <1>4 DEF Orderly
  <2> QED BY <2>1, <2>2
<1>12. u # <<>> =>
          /\ u[1] = "unrow" => t[1] = "remove"
          /\ u[1] = "update" => t[1] = "patch"
          /\ u[1] \notin {"find", "lookup"}
      BY <1>4 DEF Orderly
<1>13. t[1] \in Final => ~Among("unrow", u)
  <2> SUFFICES ASSUME t[1] \in Final, NEW i \in 1 .. Len(u)
               PROVE  u[i] # "unrow"
      BY DEF Among
  <2>1. i + 1 \in 1 .. Len(t) /\ i + 1 > 1 /\ u[i] = t[i + 1] /\ 1 \in 1 .. Len(t)
        BY <1>1, <1>2
  <2> QED BY <2>1 DEF Orderly
<1>14. t[1] = "insert" => u = <<>>
      BY <1>1, <1>3, 1 \in 1 .. Len(t) DEF Orderly
<1> QED BY <1>7, <1>8, <1>9, <1>10, <1>11, <1>12, <1>13, <1>14

\* Where a program starts, and what is in it.
Starts(t, x, S) ==
    /\ Orderly(t)
    /\ \A y : Among(y, t) <=> y \in S
    /\ t # <<>> /\ t[1] = x

LEMMA Orders ==
    /\ Orderly(<<>>) /\ (\A x : ~Among(x, <<>>))
    /\ Starts(<<"unrow">>, "unrow", {"unrow"})
    /\ Starts(EventCall, "token", {"token", "persist"})
    /\ Starts(Creation, "token", {"token", "persist", "post", "insert"})
    /\ Starts(Deletion, "find", {"find", "token", "persist", "remove", "unrow"})
    /\ Starts(Renewal, "find", {"find", "token", "persist", "patch", "update"})
    /\ Starts(Replacement, "find",
              {"find", "token", "persist", "remove", "unrow", "post", "insert"})
    /\ Starts(<<"unrow">> \o Creation, "unrow",
              {"unrow", "token", "persist", "post", "insert"})
<1> USE DEF Starts, Orderly, Among, Final
<1>1. Orderly(<<>>) /\ \A x : ~Among(x, <<>>)
      OBVIOUS
<1>2. Starts(<<"unrow">>, "unrow", {"unrow"})
      OBVIOUS
<1>3. Starts(EventCall, "token", {"token", "persist"})
      BY DEF EventCall, Token
<1>4. /\ Len(Creation) = 4 /\ Creation \in Seq(Step)
      /\ Creation[1] = "token" /\ Creation[2] = "persist"
      /\ Creation[3] = "post" /\ Creation[4] = "insert"
      BY DEF Creation, Token, Step
<1>5. /\ Len(Deletion) = 5 /\ Deletion \in Seq(Step)
      /\ Deletion[1] = "find" /\ Deletion[2] = "token" /\ Deletion[3] = "persist"
      /\ Deletion[4] = "remove" /\ Deletion[5] = "unrow"
      BY DEF Deletion, Token, Step
<1>6. /\ Len(Renewal) = 5
      /\ Renewal[1] = "find" /\ Renewal[2] = "token" /\ Renewal[3] = "persist"
      /\ Renewal[4] = "patch" /\ Renewal[5] = "update"
      BY DEF Renewal, Token
<1>7. Starts(Creation, "token", {"token", "persist", "post", "insert"})
  <2>1. 1 .. 4 = {1, 2, 3, 4} /\ 2 .. 4 = {2, 3, 4}
        OBVIOUS
  <2>2. Creation # <<>>
        BY <1>4
  <2> QED BY <1>4, <2>1, <2>2
<1>8. Starts(Deletion, "find", {"find", "token", "persist", "remove", "unrow"})
  <2>1. 1 .. 5 = {1, 2, 3, 4, 5} /\ 2 .. 5 = {2, 3, 4, 5}
        OBVIOUS
  <2>2. Deletion # <<>>
        BY <1>5
  <2> QED BY <1>5, <2>1, <2>2
<1>9. Starts(Renewal, "find", {"find", "token", "persist", "patch", "update"})
  <2>1. 1 .. 5 = {1, 2, 3, 4, 5} /\ 2 .. 5 = {2, 3, 4, 5}
        OBVIOUS
  <2>2. Renewal # <<>>
        BY <1>6
  <2> QED BY <1>6, <2>1, <2>2
<1>10. Starts(Replacement, "find",
              {"find", "token", "persist", "remove", "unrow", "post", "insert"})
  <2>1. /\ Len(Replacement) = 9
        /\ \A i \in 1 .. 9 : Replacement[i] = IF i <= 5 THEN Deletion[i] ELSE Creation[i - 5]
    <3> HIDE DEF Starts, Orderly, Among, Final
    <3>1. /\ Len(Deletion \o Creation) = Len(Deletion) + Len(Creation)
          /\ \A i \in 1 .. Len(Deletion) + Len(Creation) :
                (Deletion \o Creation)[i] =
                    IF i <= Len(Deletion) THEN Deletion[i] ELSE Creation[i - Len(Deletion)]
          BY <1>4, <1>5, ConcatProperties
    <3> QED BY <1>4, <1>5, <3>1 DEF Replacement
  <2>2. /\ Replacement[1] = "find" /\ Replacement[2] = "token" /\ Replacement[3] = "persist"
        /\ Replacement[4] = "remove" /\ Replacement[5] = "unrow" /\ Replacement[6] = "token"
        /\ Replacement[7] = "persist" /\ Replacement[8] = "post" /\ Replacement[9] = "insert"
        BY <1>4, <1>5, <2>1
  <2>3. 1 .. 9 = {1, 2, 3, 4, 5, 6, 7, 8, 9} /\ 2 .. 9 = {2, 3, 4, 5, 6, 7, 8, 9}
        OBVIOUS
  <2>4. Replacement # <<>>
    <3> HIDE DEF Starts, Orderly, Among, Final
    <3>1. Len(Replacement) = 9 /\ Len(<<>>) = 0
          BY <2>1
    <3> QED BY <3>1
  <2>5. \A y : Among(y, Replacement) <=>
                 y \in {"find", "token", "persist", "remove", "unrow", "post", "insert"}
        BY <2>1, <2>2, <2>3
  <2>6. Orderly(Replacement)
        BY <2>1, <2>2, <2>3
  <2> QED BY <2>2, <2>4, <2>5, <2>6
<1>11. Starts(<<"unrow">> \o Creation, "unrow",
              {"unrow", "token", "persist", "post", "insert"})
  <2> DEFINE t == <<"unrow">> \o Creation
  <2>0. <<"unrow">> \in Seq(Step) /\ Len(<<"unrow">>) = 1 /\ <<"unrow">>[1] = "unrow"
        BY DEF Step
  <2>1. /\ Len(t) = 5
        /\ \A i \in 1 .. 5 : t[i] = IF i <= 1 THEN "unrow" ELSE Creation[i - 1]
    <3> HIDE DEF Starts, Orderly, Among, Final
    <3> DEFINE u == <<"unrow">>
    <3>1. u \in Seq(Step) /\ Len(u) = 1 /\ u[1] = "unrow"
          BY <2>0
    <3> HIDE DEF u
    <3>2. /\ Len(u \o Creation) = Len(u) + Len(Creation)
          /\ \A i \in 1 .. Len(u) + Len(Creation) :
                (u \o Creation)[i] = IF i <= Len(u) THEN u[i] ELSE Creation[i - Len(u)]
          BY <1>4, <3>1, ConcatProperties
    <3>3. t = u \o Creation
          BY DEF u
    <3> HIDE DEF t
    <3> QED BY <1>4, <3>1, <3>2, <3>3
  <2>2. /\ t[1] = "unrow" /\ t[2] = "token" /\ t[3] = "persist"
        /\ t[4] = "post" /\ t[5] = "insert"
        BY <1>4, <2>1
  <2>3. 1 .. 5 = {1, 2, 3, 4, 5} /\ 2 .. 5 = {2, 3, 4, 5}
        OBVIOUS
  <2> HIDE DEF t
  <2>4. t # <<>>
        BY <2>1
  <2>5. Starts(t, "unrow", {"unrow", "token", "persist", "post", "insert"})
        BY <2>1, <2>2, <2>3, <2>4
  <2> QED BY <2>5 DEF t
<1> QED BY <1>1, <1>2, <1>3, <1>7, <1>8, <1>9, <1>10, <1>11

\* Each program once more, by what it is for.
LEMMA OrderOf ==
    ASSUME NEW k \in DOMAIN Steps
    PROVE  /\ Steps[k] # <<>> /\ Orderly(Steps[k])
           /\ ~Among("insert", Steps[k]) /\ (Among("unrow", Steps[k]) => k = "delete")
           /\ \A x \in {"insert", "upsert", "update", "unrow"} : Steps[k][1] # x
           /\ (\E x \in AboutSub : Among(x, Steps[k])) => Steps[k][1] = "find"
           /\ Among("patch", Steps[k]) => k = "renew"
           /\ k = "renew" => Among("patch", Steps[k])
           /\ k = "create" => Steps[k][1] = "lookup"
           /\ Among("lookup", Steps[k]) => k = "create"
<1>1. k \in {"create", "renew", "delete", "calendar", "hook", "link"}
      BY DEF Steps
<1>2. CASE k = "create"
      BY <1>2 DEF Steps, Orderly, Among, Final, AboutSub
<1>3. CASE k = "hook"
      BY <1>3 DEF Steps, Orderly, Among, Final, AboutSub
<1>4. CASE k = "link"
  <2>1. Steps[k] = <<"exchange", "upsert">>
        BY <1>4 DEF Steps
  <2> QED BY <1>4, <2>1 DEF Orderly, Among, Final, AboutSub
<1>5. CASE k = "renew"
      BY <1>5, Orders DEF Steps, Starts
<1>6. CASE k = "delete"
      BY <1>6, Orders DEF Steps, Starts
<1>7. CASE k = "calendar"
  <2>1. Steps[k] = EventCall
        BY <1>7 DEF Steps
  <2> QED BY <1>7, <2>1, Orders DEF Starts, AboutSub
<1> QED BY <1>1, <1>2, <1>3, <1>4, <1>5, <1>6, <1>7

-----------------------------------------------------------------------------
(* How an operation moves.                                                 *)

Sound ==
    \A o \in Op :
        /\ Orderly(op[o].todo)
        /\ Ahead(o, "insert") \/ Ahead(o, "lookup") => op[o].kind = "create"

\* The other operations stay where they are.
Alone(o) ==
    \A p \in Op \ {o} :
        /\ op'[p] = op[p]
        /\ Busy(p)' <=> Busy(p)
        /\ \A x : (At(p, x)' <=> At(p, x)) /\ (Ahead(p, x)' <=> Ahead(p, x))

LEMMA AtFirst ==
    ASSUME Operations, NEW o \in Op
    PROVE  /\ Busy(o) <=> op[o].todo # <<>>
           /\ \A x : At(o, x) <=> op[o].todo # <<>> /\ op[o].todo[1] = x
           /\ \A x : Ahead(o, x) <=> Among(x, op[o].todo)
           /\ \A x : At(o, x) => Ahead(o, x)
           /\ Concerns(op[o].todo) <=> \E x \in AboutSub : Ahead(o, x)
<1>1. op[o] \in Operation /\ op[o].todo \in Seq(Step)
      BY DEF Operations, Operation
<1>2. DOMAIN op[o].todo = 1 .. Len(op[o].todo)
      BY <1>1
<1>3. op[o].todo # <<>> => Head(op[o].todo) = op[o].todo[1] /\ 1 \in 1 .. Len(op[o].todo)
      BY <1>1, HeadTailProperties, EmptySeq
<1> QED BY <1>2, <1>3 DEF Busy, At, Ahead, Among, Concerns

LEMMA AtFirstNext ==
    ASSUME Operations', NEW o \in Op
    PROVE  /\ Busy(o)' <=> op'[o].todo # <<>>
           /\ \A x : At(o, x)' <=> op'[o].todo # <<>> /\ op'[o].todo[1] = x
           /\ \A x : Ahead(o, x)' <=> Among(x, op'[o].todo)
           /\ \A x : At(o, x)' => Ahead(o, x)'
           /\ Concerns(op'[o].todo) <=> \E x \in AboutSub : Ahead(o, x)'
<1>1. op'[o] \in Operation /\ op'[o].todo \in Seq(Step)
      BY DEF Operations, Operation
<1>2. DOMAIN op'[o].todo = 1 .. Len(op'[o].todo)
      BY <1>1
<1>3. op'[o].todo # <<>> => Head(op'[o].todo) = op'[o].todo[1] /\ 1 \in 1 .. Len(op'[o].todo)
      BY <1>1, HeadTailProperties, EmptySeq
<1> QED BY <1>2, <1>3 DEF Busy, At, Ahead, Among, Concerns

\* What becomes of o, and of nobody else.
LEMMA Moving ==
    ASSUME Operations, Operations', NEW o \in Op, NEW r, Becomes(o, r)
    PROVE  /\ Alone(o)
           /\ r.todo # <<>> => op'[o] = r
           /\ r.todo = <<>> => op'[o] = NoOp /\ ~Busy(o)'
           /\ \A x : Ahead(o, x)' <=> Among(x, r.todo)
           /\ \A x : At(o, x)' <=> r.todo # <<>> /\ r.todo[1] = x
<1>1. op' = [op EXCEPT ![o] = IF r.todo = <<>> THEN NoOp ELSE r]
      BY DEF Becomes
<1>2. /\ op'[o] = (IF r.todo = <<>> THEN NoOp ELSE r)
      /\ \A p \in Op \ {o} : op'[p] = op[p]
      BY <1>1 DEF Operations
<1>3. NoOp.todo = <<>>
      BY DEF NoOp
<1>4. op'[o].todo = r.todo
      BY <1>2, <1>3
<1>5. \A x : ~Among(x, <<>>)
      BY Orders
<1> QED BY <1>2, <1>3, <1>4, <1>5, AtFirst, AtFirstNext DEF Alone

LEMMA SoundMove ==
    ASSUME Sound, Operations, Operations', NEW o \in Op, Alone(o),
           Orderly(op'[o].todo),
           Ahead(o, "insert")' \/ Ahead(o, "lookup")' => op'[o].kind = "create"
    PROVE  Sound'
BY DEF Sound, Alone

\* An operation goes on to its next step.
Onward(o) ==
    /\ At(o, "insert")' <=> At(o, "post")
    /\ At(o, "upsert")' <=> At(o, "exchange")
    /\ At(o, "unrow")' => At(o, "remove")
    /\ At(o, "update")' => At(o, "patch")
    /\ ~At(o, "find")' /\ ~At(o, "lookup")'
    /\ \A x : Ahead(o, x)' => Ahead(o, x)
    /\ \A x : Ahead(o, x) => Ahead(o, x)' \/ At(o, x)
    /\ At(o, "post") \/ At(o, "insert") \/ At(o, "unrow") => ~Ahead(o, "unrow")'
    /\ At(o, "insert") => ~Busy(o)'

LEMMA GoingOn ==
    ASSUME Operations, Operations', Sound, NEW o \in Op, Busy(o), NEW r, Becomes(o, r),
           r.todo = Tail(op[o].todo), r.kind = op[o].kind
    PROVE  /\ Sound' /\ Alone(o) /\ Onward(o)
           /\ op'[o] = r \/ (op'[o] = NoOp /\ ~Busy(o)')
<1> DEFINE t == op[o].todo
           u == r.todo
<1>1. /\ t \in Program /\ t # <<>> /\ Orderly(t) /\ u = Tail(t)
      /\ \A x : Among(x, t) <=> Ahead(o, x)
      /\ \A x : At(o, x) <=> t[1] = x
      /\ Ahead(o, "insert") \/ Ahead(o, "lookup") => op[o].kind = "create"
      BY Current, AtFirst DEF Ready, Sound
<1>2. /\ Alone(o)
      /\ u # <<>> => op'[o] = r
      /\ u = <<>> => op'[o] = NoOp /\ ~Busy(o)'
      /\ \A x : Ahead(o, x)' <=> Among(x, u)
      /\ \A x : At(o, x)' <=> u # <<>> /\ u[1] = x
      BY Moving
<1>3. NoOp.todo = <<>>
      BY DEF NoOp
<1> HIDE DEF t, u
<1>4. /\ Orderly(u)
      /\ \A x : Among(x, u) => Among(x, t)
      /\ \A x : Among(x, t) => Among(x, u) \/ t[1] = x
      /\ t[1] = "post" <=> u # <<>> /\ u[1] = "insert"
      /\ t[1] = "exchange" <=> u # <<>> /\ u[1] = "upsert"
      /\ u # <<>> =>
            /\ u[1] = "unrow" => t[1] = "remove"
            /\ u[1] = "update" => t[1] = "patch"
            /\ u[1] \notin {"find", "lookup"}
      /\ t[1] \in Final => ~Among("unrow", u)
      /\ t[1] = "insert" => u = <<>>
      BY <1>1, TailOrderly
<1>5. Onward(o)
      BY <1>1, <1>2, <1>4 DEF Onward, Final
<1>6. /\ op'[o].todo = u
      /\ Ahead(o, "insert")' \/ Ahead(o, "lookup")' => op'[o].kind = "create"
  <2>1. CASE u = <<>>
        BY <1>2, <1>3, <2>1, Orders
  <2>2. CASE u # <<>>
    <3>1. op'[o] = r /\ r.kind = op[o].kind
          BY <1>2, <2>2
    <3>2. r.todo = u
          BY DEF u
    <3> QED BY <1>1, <1>2, <1>4, <3>1, <3>2
  <2> QED BY <2>1, <2>2
<1>7. Sound'
      BY <1>2, <1>4, <1>6, SoundMove
<1> QED BY <1>2, <1>5, <1>7

\* It ends, but for what a deletion, or the creation around it, has still to do.
Gives(o) ==
    /\ \A x \in {"insert", "upsert", "update", "find", "lookup"} : ~At(o, x)'
    /\ \A x \in AboutSub : Ahead(o, x)' => x = "unrow"
    /\ Ahead(o, "unrow")' => Ahead(o, "unrow") /\ ~At(o, "find") /\ ~At(o, "unrow")
    /\ Busy(o)' =>
          /\ Ahead(o, "unrow") /\ ~At(o, "lookup") /\ ~At(o, "upsert")
          /\ op'[o].kind = op[o].kind /\ op'[o].sub = op[o].sub /\ op'[o].me = op[o].me
    /\ ~Busy(o)' => op'[o] = NoOp

LEMMA Lasting ==
    ASSUME Operations, Sound, NEW o \in Op,
           \/ At(o, "post") \/ At(o, "insert") \/ At(o, "lookup") \/ At(o, "upsert")
           \/ At(o, "known")
    PROVE  ~Ahead(o, "unrow") /\ ~Ahead(o, "patch")
<1> DEFINE t == op[o].todo
<1>1. /\ t \in Seq(Step) /\ t # <<>> /\ Orderly(t) /\ t[1] \in Final \ {"unrow"}
      /\ \A x : Ahead(o, x) <=> Among(x, t)
      BY AtFirst DEF Operations, Operation, Sound, Final
<1> HIDE DEF t
<1>2. ASSUME NEW i \in 1 .. Len(t) PROVE t[i] \notin {"unrow", "patch"}
  <2>1. CASE i = 1
        BY <1>1, <2>1 DEF Final
  <2>2. CASE i # 1
    <3>1. i > 1 /\ 1 \in 1 .. Len(t)
          BY <1>1, <2>2
    <3> QED BY <1>1, <3>1 DEF Orderly
  <2> QED BY <2>1, <2>2
<1> QED BY <1>1, <1>2 DEF Among

LEMMA Beginning ==
    ASSUME Operations, Operations', Sound, NEW o \in Op, NEW r, Becomes(o, r),
           r.todo # <<>>, Orderly(r.todo),
           Among("insert", r.todo) \/ Among("lookup", r.todo) => r.kind = "create"
    PROVE  /\ Sound' /\ Alone(o)
           /\ op'[o] = r
           /\ \A x : Ahead(o, x)' <=> Among(x, r.todo)
           /\ \A x : At(o, x)' <=> r.todo[1] = x
BY Moving, SoundMove

LEMMA Vanishing ==
    ASSUME Operations, Operations', Sound, NEW o \in Op, NEW r, Becomes(o, r), r.todo = <<>>
    PROVE  /\ Sound' /\ Alone(o) /\ op'[o] = NoOp /\ ~Busy(o)'
           /\ \A x : ~Ahead(o, x)' /\ ~At(o, x)'
<1>1. /\ Alone(o) /\ op'[o] = NoOp /\ ~Busy(o)'
      /\ \A x : ~Ahead(o, x)' /\ ~At(o, x)'
      BY Moving, Orders
<1>2. Orderly(op'[o].todo)
      BY <1>1, Orders DEF NoOp
<1> QED BY <1>1, <1>2, SoundMove

LEMMA Stopping ==
    ASSUME Operations, Operations', Sound, NEW o \in Op, Stop(o)
    PROVE  Sound' /\ Alone(o) /\ Gives(o) /\ ~Busy(o)'
<1>1. Becomes(o, [op[o] EXCEPT !.todo = <<>>])
      BY DEF Stop, Goto
<1> DEFINE r == [op[o] EXCEPT !.todo = <<>>]
<1>2. r.todo = <<>>
      BY DEF Operations, Operation
<1> HIDE DEF r
<1>3. Becomes(o, r)
      BY <1>1 DEF r
<1> QED BY <1>2, <1>3, Vanishing DEF Gives

LEMMA Unrowing ==
    ASSUME Operations, Operations', Sound, NEW o \in Op, Goto(o, <<"unrow">>)
    PROVE  /\ Sound' /\ Alone(o)
           /\ op'[o].kind = op[o].kind /\ op'[o].sub = op[o].sub /\ op'[o].me = op[o].me
           /\ \A x : Ahead(o, x)' <=> x = "unrow"
           /\ \A x : At(o, x)' <=> x = "unrow"
<1> DEFINE r == [op[o] EXCEPT !.todo = <<"unrow">>]
<1>1. /\ r.todo = <<"unrow">> /\ r.kind = op[o].kind /\ r.sub = op[o].sub /\ r.me = op[o].me
      /\ Becomes(o, r)
      BY DEF Operations, Operation, Goto
<1> HIDE DEF r
<1>2. /\ r.todo # <<>> /\ Orderly(r.todo) /\ r.todo[1] = "unrow"
      /\ \A x : Among(x, r.todo) <=> x = "unrow"
      BY <1>1, Orders DEF Starts
<1>3. ~Among("insert", r.todo) /\ ~Among("lookup", r.todo)
      BY <1>2
<1>4. /\ Sound' /\ Alone(o) /\ op'[o] = r
      /\ \A x : Ahead(o, x)' <=> Among(x, r.todo)
      /\ \A x : At(o, x)' <=> r.todo[1] = x
      BY <1>1, <1>2, <1>3, Beginning
<1> QED BY <1>1, <1>2, <1>4

LEMMA GivingUp ==
    ASSUME Operations, Operations', Sound, NEW o \in Op, Busy(o), Goto(o, Caught(o))
    PROVE  /\ Sound' /\ Alone(o) /\ Gives(o)
           /\ Ahead(o, "unrow") /\ ~At(o, "find") /\ ~At(o, "unrow") => Ahead(o, "unrow")'
<1> DEFINE c == Caught(o)
           r == [op[o] EXCEPT !.todo = c]
<1>1. /\ r.todo = c /\ r.kind = op[o].kind /\ r.sub = op[o].sub /\ r.me = op[o].me
      /\ Becomes(o, r)
      BY DEF Operations, Operation, Goto
<1>2. /\ \A x : At(o, x) <=> Head(op[o].todo) = x
      BY DEF At
<1>3. CASE c = <<>>
  <2>0. ~Ahead(o, "unrow") \/ At(o, "find") \/ At(o, "unrow")
    <3>1. <<"unrow">> \o <<>> # <<>> /\ <<"unrow">> \o Creation # <<>>
          BY Orders DEF Starts
    <3> QED BY <1>2, <1>3, <3>1 DEF Caught
  <2> HIDE DEF c, r
  <2>1. r.todo = <<>>
        BY <1>1, <1>3
  <2> QED BY <1>1, <2>0, <2>1, Vanishing DEF Gives
<1>4. CASE c # <<>>
  <2>0. Ahead(o, "unrow") /\ ~At(o, "lookup") /\ ~At(o, "upsert")
        BY <1>4, Lasting DEF Caught
  <2>1. /\ Orderly(c) /\ c[1] \in {"unrow", "token"}
        /\ \A x \in AboutSub : Among(x, c) => x = "unrow"
        /\ Among("unrow", c) => ~At(o, "find") /\ ~At(o, "unrow")
        /\ Among("insert", c) => op[o].kind = "create"
        /\ ~Among("lookup", c)
        /\ ~At(o, "find") /\ ~At(o, "unrow") => Among("unrow", c)
    <3>1. CASE c = Creation /\ op[o].kind = "create" /\ (At(o, "find") \/ At(o, "unrow"))
          BY <3>1, Orders DEF Starts, AboutSub
    <3>2. CASE c = <<"unrow">> \o Creation /\ op[o].kind = "create"
               /\ ~At(o, "find") /\ ~At(o, "unrow")
      <4>1. Starts(c, "unrow", {"unrow", "token", "persist", "post", "insert"})
            BY <3>2, Orders
      <4>2. op[o].kind = "create" /\ ~At(o, "find") /\ ~At(o, "unrow")
            BY <3>2
      <4> HIDE DEF c
      <4>3. /\ Orderly(c) /\ c[1] = "unrow"
            /\ \A y : Among(y, c) <=> y \in {"unrow", "token", "persist", "post", "insert"}
            BY <4>1 DEF Starts
      <4>4. \A x \in AboutSub : Among(x, c) => x = "unrow"
            BY <4>3 DEF AboutSub
      <4>5. Among("unrow", c) /\ ~Among("lookup", c)
            BY <4>3
      <4> QED BY <4>2, <4>3, <4>4, <4>5
    <3>3. CASE c = <<"unrow">> \o <<>> /\ ~At(o, "find") /\ ~At(o, "unrow")
      <4>1. c = <<"unrow">>
            BY <3>3
      <4> QED BY <3>3, <4>1, Orders DEF Starts, AboutSub
    <3> QED BY <1>2, <1>4, <2>0, <3>1, <3>2, <3>3 DEF Caught
  <2> HIDE DEF c, r
  <2>2. /\ Sound' /\ Alone(o) /\ op'[o] = r
        /\ \A x : Ahead(o, x)' <=> Among(x, c)
        /\ \A x : At(o, x)' <=> c[1] = x
        BY <1>1, <1>4, <2>1, Beginning
  <2>3. Busy(o)'
        BY <2>1, <2>2 DEF At
  <2> QED BY <1>1, <2>0, <2>1, <2>2, <2>3 DEF Gives
<1> QED BY <1>3, <1>4

\* With what it goes on.
With(o, s, a) == (op'[o].kind = op[o].kind /\ op'[o].sub = s /\ op'[o].me = a)
                     \/ (op'[o] = NoOp /\ ~Busy(o)')

LEMMA DoneMoves ==
    ASSUME Operations, Operations', Sound, NEW o \in Op, Busy(o), Done(o)
    PROVE  Sound' /\ Alone(o) /\ Onward(o) /\ With(o, op[o].sub, op[o].me)
<1> DEFINE r == [op[o] EXCEPT !.todo = Tail(op[o].todo)]
<1>1. /\ Becomes(o, r) /\ r.todo = Tail(op[o].todo)
      /\ r.kind = op[o].kind /\ r.sub = op[o].sub /\ r.me = op[o].me
      BY DEF Done, Goto, Operations, Operation
<1> HIDE DEF r
<1> QED BY <1>1, GoingOn DEF With

LEMMA SentMoves ==
    ASSUME Operations, Operations', Sound, NEW o \in Op, Busy(o), NEW s, Sent(o, s)
    PROVE  Sound' /\ Alone(o) /\ Onward(o) /\ With(o, s, None)
<1> DEFINE r == [op[o] EXCEPT !.sub = s, !.me = None, !.todo = Tail(op[o].todo)]
<1>1. /\ Becomes(o, r) /\ r.todo = Tail(op[o].todo)
      /\ r.kind = op[o].kind /\ r.sub = s /\ r.me = None
      BY DEF Sent, Operations, Operation
<1> HIDE DEF r
<1> QED BY <1>1, GoingOn DEF With

LEMMA TokenMoves ==
    ASSUME Operations, Operations', Sound, NEW o \in Op, Busy(o), NEW a,
           Becomes(o, [op[o] EXCEPT !.me = a, !.todo = Tail(op[o].todo)])
    PROVE  Sound' /\ Alone(o) /\ Onward(o) /\ With(o, op[o].sub, a)
<1> DEFINE r == [op[o] EXCEPT !.me = a, !.todo = Tail(op[o].todo)]
<1>1. /\ Becomes(o, r) /\ r.todo = Tail(op[o].todo)
      /\ r.kind = op[o].kind /\ r.sub = op[o].sub /\ r.me = a
      BY DEF Operations, Operation
<1> HIDE DEF r
<1> QED BY <1>1, GoingOn DEF With

\* An operation that comes in.
LEMMA StartMoves ==
    ASSUME Operations, Operations', Sound, NEW o \in Op, NEW k \in DOMAIN Steps, NEW s,
           Start(o, k, s)
    PROVE  /\ Sound' /\ Alone(o) /\ ~Busy(o)
           /\ \A x : ~At(o, x)
           /\ op'[o].kind = k /\ op'[o].sub = s /\ op'[o].me = None
           /\ \A x \in {"insert", "upsert", "update", "unrow"} : ~At(o, x)'
           /\ (\E x \in AboutSub : Ahead(o, x)') => At(o, "find")'
           /\ Ahead(o, "patch")' <=> k = "renew"
           /\ k = "create" => At(o, "lookup")'
<1> DEFINE r == [NoOp EXCEPT !.kind = k, !.sub = s, !.todo = Steps[k]]
<1>1. /\ Becomes(o, r) /\ r.todo = Steps[k]
      /\ r.kind = k /\ r.sub = s /\ r.me = None
      BY DEF Start, NoOp
<1>2. ~Busy(o) /\ \A x : ~At(o, x)
      BY DEF Start, At
<1> HIDE DEF r
<1>3. /\ r.todo # <<>> /\ Orderly(r.todo)
      /\ Among("insert", r.todo) \/ Among("lookup", r.todo) => r.kind = "create"
      BY <1>1, OrderOf
<1>4. /\ Sound' /\ Alone(o) /\ op'[o] = r
      /\ \A x : Ahead(o, x)' <=> Among(x, r.todo)
      /\ \A x : At(o, x)' <=> r.todo[1] = x
      BY <1>1, <1>3, Beginning
<1> QED BY <1>1, <1>2, <1>4, OrderOf

\* The look at the table, and what follows from it.
LEMMA LookupMoves ==
    ASSUME Operations, Operations', Sound, NEW o \in Op, Lookup(o)
    PROVE  /\ Sound' /\ Alone(o) /\ At(o, "lookup")
           /\ \A x \in {"insert", "upsert", "update", "unrow", "lookup"} : ~At(o, x)'
           /\ (\E x \in AboutSub : Ahead(o, x)') => At(o, "find")'
           /\ ~Ahead(o, "patch")'
           /\ \/ op'[o] = NoOp /\ ~Busy(o)' /\ \E s \in rows : Valid(s)
              \/ /\ op'[o].kind = op[o].kind /\ op'[o].me = op[o].me /\ rows = {}
              \/ /\ op'[o].kind = op[o].kind /\ op'[o].me = op[o].me
                 /\ op'[o].sub \in rows /\ Ahead(o, "unrow")'
<1>1. At(o, "lookup") /\ Busy(o)
      BY DEF Lookup, At
<1>2. CASE rows = {} /\ Goto(o, Creation)
  <2> DEFINE r == [op[o] EXCEPT !.todo = Creation]
  <2>1. Becomes(o, r) /\ r.todo = Creation /\ r.kind = op[o].kind /\ r.me = op[o].me
        BY <1>2 DEF Goto, Operations, Operation
  <2>2. Starts(Creation, "token", {"token", "persist", "post", "insert"})
        BY Orders
  <2> HIDE DEF r
  <2>3. r.kind = "create"
        BY <1>1, <2>1, AtFirst DEF Sound
  <2>4. /\ Sound' /\ Alone(o) /\ op'[o] = r
        /\ \A x : Ahead(o, x)' <=> Among(x, Creation)
        /\ \A x : At(o, x)' <=> Creation[1] = x
        BY <2>1, <2>2, <2>3, Beginning DEF Starts
  <2> QED BY <1>1, <1>2, <2>1, <2>2, <2>4 DEF Starts, AboutSub
<1>3. ASSUME NEW s \in rows, Valid(s), Stop(o)
      PROVE  /\ Sound' /\ Alone(o) /\ Gives(o) /\ ~Busy(o)'
             /\ \A x : ~At(o, x)' /\ ~Ahead(o, x)'
      BY <1>3, Stopping, AtFirstNext, Orders DEF At
<1>4. ASSUME NEW s \in rows,
             Becomes(o, [op[o] EXCEPT !.sub = s, !.todo = Replacement])
      PROVE  /\ Sound' /\ Alone(o) /\ op'[o].sub = s
             /\ op'[o].kind = op[o].kind /\ op'[o].me = op[o].me
             /\ \A x : At(o, x)' <=> x = "find"
             /\ Ahead(o, "unrow")' /\ ~Ahead(o, "patch")'
  <2> DEFINE r == [op[o] EXCEPT !.sub = s, !.todo = Replacement]
  <2>1. /\ Becomes(o, r) /\ r.todo = Replacement /\ r.kind = op[o].kind /\ r.me = op[o].me
        /\ r.sub = s
        BY <1>4 DEF Operations, Operation
  <2>2. Starts(Replacement, "find",
               {"find", "token", "persist", "remove", "unrow", "post", "insert"})
        BY Orders
  <2> HIDE DEF r
  <2>3. r.kind = "create"
        BY <1>1, <2>1, AtFirst DEF Sound
  <2>4. /\ Sound' /\ Alone(o) /\ op'[o] = r
        /\ \A x : Ahead(o, x)' <=> Among(x, Replacement)
        /\ \A x : At(o, x)' <=> Replacement[1] = x
        BY <2>1, <2>2, <2>3, Beginning DEF Starts
  <2> QED BY <2>1, <2>2, <2>4 DEF Starts
<1>5. CASE \E s \in rows : Valid(s) /\ Stop(o)
  <2> PICK s \in rows : Valid(s) /\ Stop(o)
      BY <1>5
  <2> QED BY <1>1, <1>3 DEF Gives
<1>6. CASE \E s \in rows : Becomes(o, [op[o] EXCEPT !.sub = s, !.todo = Replacement])
  <2> PICK s \in rows : Becomes(o, [op[o] EXCEPT !.sub = s, !.todo = Replacement])
      BY <1>6
  <2> QED BY <1>1, <1>4
<1> QED BY <1>2, <1>5, <1>6 DEF Lookup

\* What a notification is about: an event, which is fetched.
LEMMA KnownMoves ==
    ASSUME Operations, Operations', Sound, NEW o \in Op, Known(o)
    PROVE  /\ Sound' /\ Alone(o) /\ At(o, "known")
           /\ \A x \in {"insert", "upsert", "update", "unrow", "find", "lookup"} : ~At(o, x)'
           /\ \A x \in AboutSub : ~Ahead(o, x)'
           /\ op'[o].kind = "calendar" /\ op'[o].me = None
<1>1. At(o, "known") /\ Busy(o)
      BY DEF Known, At
<1>2. CASE Stop(o)
  <2>1. Sound' /\ Alone(o) /\ Gives(o) /\ ~Busy(o)'
        BY <1>2, Stopping
  <2>2. \A x : ~At(o, x)' /\ ~Ahead(o, x)'
        BY <2>1, AtFirstNext, Orders
  <2> QED BY <1>1, <2>1, <2>2 DEF Gives, NoOp
<1>3. CASE Becomes(o, [NoOp EXCEPT !.todo = EventCall])
  <2> DEFINE r == [NoOp EXCEPT !.todo = EventCall]
  <2>1. Becomes(o, r) /\ r.todo = EventCall /\ r.kind = "calendar" /\ r.me = None
        BY <1>3 DEF NoOp
  <2>2. Starts(EventCall, "token", {"token", "persist"})
        BY Orders
  <2> HIDE DEF r
  <2>3. /\ r.todo # <<>> /\ Orderly(r.todo) /\ ~Among("insert", r.todo)
        /\ ~Among("lookup", r.todo)
        BY <2>1, <2>2 DEF Starts
  <2>4. /\ Sound' /\ Alone(o) /\ op'[o] = r
        /\ \A x : Ahead(o, x)' <=> Among(x, r.todo)
        /\ \A x : At(o, x)' <=> r.todo[1] = x
        BY <2>1, <2>3, Beginning
  <2> QED BY <1>1, <2>1, <2>2, <2>4 DEF Starts, AboutSub
<1> QED BY <1>2, <1>3 DEF Known

-----------------------------------------------------------------------------
(* No subscription is forgotten.                                           *)

\* What Graph has and no table knows is about to be inserted.
Found ==
    \A s \in Sub \ (rows \cup strays) :
        left[s] > 0 => \E o \in Op : At(o, "insert") /\ op[o].sub = s

\* A row goes when its subscription has, or could not be made to.
Departs ==
    \A o \in Op : At(o, "unrow") => left[op[o].sub] = 0 \/ op[o].sub \in strays

Kept == Sound /\ Found /\ Departs

LEMMA FoundKeeps ==
    ASSUME Found, NEW o \in Op, Alone(o),
           \A s \in Sub : s \in rows \cup strays => s \in rows' \cup strays' \/ ~(left'[s] > 0),
           \A s \in Sub : left'[s] > 0 =>
               \/ left[s] > 0
               \/ s \in rows' \cup strays'
               \/ At(o, "insert")' /\ op'[o].sub = s,
           At(o, "insert") => op[o].sub \in rows' \cup strays'
    PROVE  Found'
<1> SUFFICES ASSUME NEW s \in Sub, s \notin rows' \cup strays', left'[s] > 0
             PROVE  \E p \in Op : At(p, "insert")' /\ op'[p].sub = s
    BY DEF Found
<1>1. CASE At(o, "insert")' /\ op'[o].sub = s
      BY <1>1
<1>2. CASE left[s] > 0 /\ s \notin rows \cup strays
  <2>1. PICK p \in Op : At(p, "insert") /\ op[p].sub = s
        BY <1>2 DEF Found
  <2>2. p # o
        BY <2>1
  <2> QED BY <2>1, <2>2 DEF Alone
<1> QED BY <1>1, <1>2

LEMMA DepartsKeeps ==
    ASSUME Departs, NEW o \in Op, Alone(o), strays \subseteq strays',
           \A p \in Op \ {o} :
               At(p, "unrow") /\ left[op[p].sub] = 0 => left'[op[p].sub] = 0,
           At(o, "unrow")' => left'[op'[o].sub] = 0 \/ op'[o].sub \in strays'
    PROVE  Departs'
BY DEF Departs, Alone

\* Nothing is made, inserted or deleted.
LEMMA QuietlyKept ==
    ASSUME Kept, NEW o \in Op, Sound', Alone(o), UNCHANGED <<rows, left>>,
           strays \subseteq strays',
           At(o, "insert") => op[o].sub \in strays',
           At(o, "unrow")' => left[op'[o].sub] = 0 \/ op'[o].sub \in strays'
    PROVE  Kept'
<1>1. Found'
      BY FoundKeeps DEF Kept
<1>2. Departs'
      BY DepartsKeeps DEF Kept
<1> QED BY <1>1, <1>2 DEF Kept

\* The start of any operation.
LEMMA Starting ==
    ASSUME NEW o \in Op,
           \/ StartCreate(o) \/ StartRenew(o) \/ StartDelete(o) \/ StartCall(o)
           \/ StartHook(o) \/ StartLink(o) \/ StartDue(o)
    PROVE  \E k \in DOMAIN Steps, s \in Sub \cup {None} \cup due : Start(o, k, s)
<1>1. DOMAIN Steps = {"create", "renew", "delete", "calendar", "hook", "link"}
      BY DEF Steps
<1> QED BY <1>1 DEF StartCreate, StartRenew, StartDelete, StartCall, StartHook, StartLink,
        StartDue

LEMMA StartKept ==
    ASSUME Inv, Inv', Kept, NEW o \in Op, NEW k \in DOMAIN Steps, NEW s, Start(o, k, s)
    PROVE  Kept'
<1>1. /\ Sound' /\ Alone(o) /\ ~At(o, "insert") /\ ~At(o, "unrow")'
      BY StartMoves DEF Inv, Kept
<1>2. UNCHANGED <<rows, left, strays>>
      BY DEF Start, tables, ghosts
<1> QED BY <1>1, <1>2, QuietlyKept

\* A failure.
LEMMA ThrowMoves ==
    ASSUME Inv, Inv', Sound, NEW o \in Op, Busy(o), Throw(o)
    PROVE  /\ Sound' /\ Alone(o) /\ Gives(o)
           /\ strays \subseteq strays'
           /\ At(o, "insert") => op[o].sub \in strays'
           /\ Ahead(o, "unrow")' => op[o].sub \in strays' /\ op'[o].sub = op[o].sub
<1>1. Sound' /\ Alone(o) /\ Gives(o)
      BY GivingUp DEF Throw, Inv
<1>2. strays' = strays \cup (IF Leaves(o) THEN {op[o].sub} ELSE {})
      BY DEF Throw
<1>3. At(o, "insert") => Leaves(o)
      BY DEF Leaves
<1>4. Ahead(o, "unrow")' => Leaves(o)
      BY <1>1 DEF Gives, Leaves, At
<1>5. Ahead(o, "unrow")' => Busy(o)'
      BY AtFirstNext, Orders DEF Inv
<1> QED BY <1>1, <1>2, <1>3, <1>4, <1>5 DEF Gives

LEMMA ThrowKept ==
    ASSUME Inv, Inv', Kept, NEW o \in Op, Busy(o), Throw(o), UNCHANGED <<rows, left>>
    PROVE  Kept'
<1>1. At(o, "unrow")' => Ahead(o, "unrow")'
      BY AtFirstNext DEF Inv
<1> QED BY <1>1, ThrowMoves, QuietlyKept DEF Kept

\* The steps that change neither the table nor Graph.
LEMMA InnerKept ==
    ASSUME Inv, Inv', Kept, NEW o \in Op,
           \/ ReadToken(o) \/ Persist(o) \/ Exchange(o) \/ Upsert(o) \/ Lookup(o) \/ Find(o)
           \/ Update(o) \/ Known(o)
    PROVE  Kept'
<1> USE DEF Inv
<1>0. \A x, y : At(o, x) /\ At(o, y) => x = y
      BY DEF At
<1>1. CASE ReadToken(o) /\ Throw(o)
      BY <1>1, ThrowKept DEF ReadToken, At, tables, graph
<1>2. CASE /\ At(o, "token") \/ At(o, "exchange")
           /\ Busy(o)
           /\ \E a : Becomes(o, [op[o] EXCEPT !.me = a, !.todo = Tail(op[o].todo)])
           /\ UNCHANGED <<rows, left, strays>>
  <2>1. Sound' /\ Alone(o) /\ Onward(o)
        BY <1>2, TokenMoves DEF Kept
  <2> QED BY <1>0, <1>2, <2>1, QuietlyKept DEF Onward
<1>3. CASE (Persist(o) \/ Upsert(o) \/ Update(o) \/ Find(o)) /\ Done(o)
  <2>1. /\ At(o, "persist") \/ At(o, "upsert") \/ At(o, "update") \/ At(o, "find")
        /\ Busy(o) /\ UNCHANGED <<rows, left, strays>>
        BY <1>3 DEF Persist, Upsert, Update, Find, At, tables, graph, ghosts
  <2>2. Sound' /\ Alone(o) /\ Onward(o)
        BY <1>3, <2>1, DoneMoves DEF Kept
  <2> QED BY <1>0, <2>1, <2>2, QuietlyKept DEF Onward
<1>4. CASE Find(o) /\ Goto(o, Caught(o))
  <2>1. At(o, "find") /\ Busy(o) /\ UNCHANGED <<rows, left, strays>>
        BY <1>4 DEF Find, At, tables, graph, ghosts
  <2>2. Sound' /\ Alone(o) /\ Gives(o)
        BY <1>4, <2>1, GivingUp DEF Kept
  <2>3. ~At(o, "unrow")'
        BY <2>1, <2>2, AtFirstNext DEF Gives
  <2> QED BY <1>0, <2>1, <2>2, <2>3, QuietlyKept
<1>5. CASE Lookup(o)
  <2>1. Sound' /\ Alone(o) /\ At(o, "lookup") /\ ~At(o, "unrow")'
        BY <1>5, LookupMoves DEF Kept
  <2>2. UNCHANGED <<rows, left, strays>>
        BY <1>5 DEF Lookup, tables, graph
  <2> QED BY <1>0, <2>1, <2>2, QuietlyKept
<1>6. CASE Known(o)
  <2>1. Sound' /\ Alone(o) /\ At(o, "known") /\ ~At(o, "unrow")'
        BY <1>6, KnownMoves DEF Kept
  <2>2. UNCHANGED <<rows, left, strays>>
        BY <1>6 DEF Known, tables, graph, ghosts
  <2> QED BY <1>0, <2>1, <2>2, QuietlyKept
<1>7. ReadToken(o) => Throw(o) \/ (/\ At(o, "token") /\ Busy(o)
                                   /\ \E a : Becomes(o, [op[o] EXCEPT !.me = a, !.todo = Tail(op[o].todo)])
                                   /\ UNCHANGED <<rows, left, strays>>)
      BY DEF ReadToken, At, tables, graph
<1>8. Exchange(o) => /\ At(o, "exchange") /\ Busy(o)
                     /\ \E a : Becomes(o, [op[o] EXCEPT !.me = a, !.todo = Tail(op[o].todo)])
                     /\ UNCHANGED <<rows, left, strays>>
      BY DEF Exchange, At, tables, graph, ghosts
<1> QED BY <1>1, <1>2, <1>3, <1>4, <1>5, <1>6, <1>7, <1>8 DEF Persist, Upsert, Update, Find

\* What a request is about is one Graph made.
LEMMA AboutOne ==
    ASSUME Inv, NEW o \in Op, At(o, "insert") \/ \E x \in AboutSub : Ahead(o, x)
    PROVE  op[o].sub \in Sub /\ op[o].sub # None /\ watched[op[o].sub] # None
           /\ left[op[o].sub] \in 0 .. Life
<1>1. Busy(o)
      BY AtFirst, Orders DEF Inv
<1>2. op[o].todo[1] = "insert" \/ Concerns(op[o].todo)
      BY AtFirst DEF Inv
<1> QED BY <1>1, <1>2, Current DEF Inv, Ready, Operation, Operations, Data

LEMMA PostKept ==
    ASSUME Inv, Inv', Kept, NEW o \in Op, Post(o) \/ PostUnanswered(o)
    PROVE  Kept'
<1> USE DEF Inv
<1>1. /\ At(o, "post") /\ Busy(o) /\ ~At(o, "insert") /\ ~At(o, "unrow") /\ UNCHANGED rows
      /\ strays \subseteq strays'
      BY DEF Post, PostUnanswered, At, tables, ghosts
<1>2. PICK s \in Sub : Made(o, s) /\ \/ Post(o) /\ Sent(o, s)
                                     \/ PostUnanswered(o) /\ Stop(o) /\ s \in strays'
      BY DEF Post, PostUnanswered
<1>3. /\ Sound' /\ Alone(o) /\ ~At(o, "unrow")'
      /\ (At(o, "insert")' /\ op'[o].sub = s) \/ s \in strays'
  <2>1. CASE Sent(o, s)
    <3>1. Sound' /\ Alone(o) /\ Onward(o) /\ With(o, s, None)
          BY <1>1, <2>1, SentMoves DEF Kept
    <3>2. At(o, "insert")' /\ Busy(o)' /\ ~At(o, "unrow")'
          BY <1>1, <3>1 DEF Onward, At
    <3> QED BY <3>1, <3>2 DEF With
  <2>2. CASE Stop(o) /\ s \in strays'
    <3>1. Sound' /\ Alone(o) /\ ~Busy(o)'
          BY <2>2, Stopping DEF Kept
    <3> QED BY <2>2, <3>1 DEF At
  <2> QED BY <1>2, <2>1, <2>2
<1>4. /\ watched[s] = None
      /\ \A t \in Sub \ {s} : left'[t] = left[t]
      BY <1>2 DEF Made, Data
<1>5. Found'
      BY <1>1, <1>3, <1>4, FoundKeeps DEF Kept
<1>6. \A p \in Op \ {o} : At(p, "unrow") /\ left[op[p].sub] = 0 => left'[op[p].sub] = 0
  <2> SUFFICES ASSUME NEW p \in Op \ {o}, At(p, "unrow"), left[op[p].sub] = 0
               PROVE  left'[op[p].sub] = 0
      OBVIOUS
  <2>1. op[p].sub \in Sub /\ watched[op[p].sub] # None
        BY AtFirst, AboutOne DEF AboutSub
  <2> QED BY <1>4, <2>1
<1>7. Departs'
      BY <1>1, <1>3, <1>6, DepartsKeeps DEF Kept
<1> QED BY <1>3, <1>5, <1>7 DEF Kept

LEMMA InsertKept ==
    ASSUME Inv, Inv', Kept, NEW o \in Op, Insert(o)
    PROVE  Kept'
<1> USE DEF Inv
<1>1. /\ At(o, "insert") /\ Busy(o) /\ Done(o) /\ rows' = rows \cup {op[o].sub}
      /\ UNCHANGED <<left, strays>>
      BY DEF Insert, At, graph, ghosts
<1>2. Sound' /\ Alone(o) /\ Onward(o)
      BY <1>1, DoneMoves DEF Kept
<1>3. ~At(o, "unrow")'
      BY <1>1, <1>2 DEF Onward, At
<1>4. Found'
      BY <1>1, <1>2, FoundKeeps DEF Kept
<1>5. Departs'
      BY <1>1, <1>2, <1>3, DepartsKeeps DEF Kept
<1> QED BY <1>2, <1>4, <1>5 DEF Kept

LEMMA UnrowKept ==
    ASSUME Inv, Inv', Kept, NEW o \in Op, Unrow(o)
    PROVE  Kept'
<1> USE DEF Inv
<1>1. /\ At(o, "unrow") /\ ~At(o, "insert") /\ Busy(o) /\ Done(o)
      /\ rows' = rows \ {op[o].sub}
      /\ UNCHANGED <<left, strays>>
      BY DEF Unrow, At, graph
<1>2. Sound' /\ Alone(o) /\ Onward(o)
      BY <1>1, DoneMoves DEF Kept
<1>3. ~At(o, "unrow")'
      BY <1>1, <1>2 DEF Onward, At
<1>4. op[o].sub \in strays \/ left[op[o].sub] = 0
      BY <1>1 DEF Kept, Departs
<1>5. \A s \in Sub : s \in rows \cup strays => s \in rows' \cup strays' \/ ~(left'[s] > 0)
      BY <1>1, <1>4
<1>6. Found'
      BY <1>1, <1>2, <1>5, FoundKeeps DEF Kept
<1>7. Departs'
      BY <1>1, <1>2, <1>3, DepartsKeeps DEF Kept
<1> QED BY <1>2, <1>6, <1>7 DEF Kept

LEMMA RemoveKept ==
    ASSUME Inv, Inv', Kept, NEW o \in Op, Remove(o)
    PROVE  Kept'
<1> USE DEF Inv
<1> DEFINE s == op[o].sub
<1>1. /\ At(o, "remove") /\ ~At(o, "insert") /\ Busy(o) /\ Sent(o, s)
      /\ UNCHANGED rows
      /\ (left' = [left EXCEPT ![s] = 0] /\ strays' = strays)
         \/ (left' = left /\ strays' = strays \cup {s})
      BY DEF Remove, At, tables
<1>2. s \in Sub
      BY <1>1, AboutOne, AtFirst DEF AboutSub
<1>3. Sound' /\ Alone(o) /\ Onward(o) /\ With(o, s, None)
      BY <1>1, SentMoves DEF Kept
<1>4. /\ left'[s] = 0 \/ s \in strays'
      /\ \A t \in Sub : left'[t] = left[t] \/ left'[t] = 0
      /\ strays \subseteq strays'
      BY <1>1, <1>2 DEF Data
<1>5. At(o, "unrow")' => op'[o].sub = s
      BY <1>3 DEF With, At
<1>6. Found'
      BY <1>1, <1>3, <1>4, FoundKeeps DEF Kept
<1>7. \A p \in Op \ {o} : At(p, "unrow") /\ left[op[p].sub] = 0 => left'[op[p].sub] = 0
  <2> SUFFICES ASSUME NEW p \in Op \ {o}, At(p, "unrow"), left[op[p].sub] = 0
               PROVE  left'[op[p].sub] = 0
      OBVIOUS
  <2>1. op[p].sub \in Sub
        BY AtFirst, AboutOne DEF AboutSub
  <2> QED BY <1>4, <2>1
<1>8. Departs'
      BY <1>3, <1>4, <1>5, <1>7, DepartsKeeps DEF Kept
<1> QED BY <1>3, <1>6, <1>8 DEF Kept

LEMMA PatchKept ==
    ASSUME Inv, Inv', Kept, NEW o \in Op, Patch(o)
    PROVE  Kept'
<1> USE DEF Inv
<1> DEFINE s == op[o].sub
<1>1. /\ At(o, "patch") /\ ~At(o, "insert") /\ ~At(o, "remove") /\ Busy(o)
      /\ UNCHANGED rows
      BY DEF Patch, At, tables
<1>2. s \in Sub /\ left[s] \in 0 .. Life
      BY <1>1, AboutOne, AtFirst DEF AboutSub
<1>3. CASE left[s] > 0 /\ left' = [left EXCEPT ![s] = Life] /\ Sent(o, s) /\ strays' = strays
  <2>1. Sound' /\ Alone(o) /\ Onward(o)
        BY <1>1, <1>3, SentMoves DEF Kept
  <2>2. ~At(o, "unrow")'
        BY <1>1, <2>1 DEF Onward
  <2>3. \A t \in Sub : left[t] = 0 => left'[t] = 0
        BY <1>2, <1>3 DEF Data
  <2>4. \A t \in Sub : left'[t] > 0 => left[t] > 0
        BY <1>2, <1>3 DEF Data
  <2>5. Found'
        BY <1>1, <1>3, <2>1, <2>4, FoundKeeps DEF Kept
  <2>6. \A p \in Op \ {o} : At(p, "unrow") /\ left[op[p].sub] = 0 => left'[op[p].sub] = 0
    <3> SUFFICES ASSUME NEW p \in Op \ {o}, At(p, "unrow"), left[op[p].sub] = 0
                 PROVE  left'[op[p].sub] = 0
        OBVIOUS
    <3>1. op[p].sub \in Sub
          BY AtFirst, AboutOne DEF AboutSub
    <3> QED BY <2>3, <3>1
  <2>7. Departs'
        BY <1>3, <2>1, <2>2, <2>6, DepartsKeeps DEF Kept
  <2> QED BY <2>1, <2>5, <2>7 DEF Kept
<1>4. CASE /\ Goto(o, <<"unrow">>) /\ left' = left
           /\ strays \subseteq strays' /\ (left[s] = 0 \/ s \in strays')
  <2>1. Sound' /\ Alone(o) /\ op'[o].sub = s
        BY <1>4, Unrowing DEF Kept
  <2> QED BY <1>1, <1>4, <2>1, QuietlyKept
<1>5. CASE Goto(o, <<>>) /\ left' = left /\ strays' = strays
  <2>1. Sound' /\ Alone(o) /\ ~Busy(o)'
        BY <1>5, Stopping DEF Stop, Kept
  <2> QED BY <1>1, <1>5, <2>1, QuietlyKept DEF At
<1>6. \/ left[s] > 0 /\ left' = [left EXCEPT ![s] = Life] /\ Sent(o, s) /\ strays' = strays
      \/ /\ Goto(o, <<"unrow">>) /\ left' = left
         /\ strays \subseteq strays' /\ (left[s] = 0 \/ s \in strays')
      \/ Goto(o, <<>>) /\ left' = left /\ strays' = strays
  <2>1. CASE watched[s] = op[o].me /\ left[s] > 0
        BY <2>1 DEF Patch
  <2>2. CASE ~(watched[s] = op[o].me /\ left[s] > 0)
    <3>1. left' = left
          BY <2>2 DEF Patch
    <3>2. CASE Goto(o, <<"unrow">>) /\ strays' = strays \cup (IF watched[s] = op[o].me THEN {} ELSE {s})
      <4>1. watched[s] = op[o].me => left[s] = 0
            BY <1>2, <2>2 DEF Life
      <4> QED BY <3>1, <3>2, <4>1
    <3>3. CASE Goto(o, OnError(s)) /\ strays' = strays
          BY <3>1, <3>3 DEF OnError
    <3> QED BY <2>2, <3>2, <3>3 DEF Patch
  <2> QED BY <2>1, <2>2
<1> QED BY <1>3, <1>4, <1>5, <1>6

LEMMA FailsKept ==
    ASSUME Inv, Inv', Kept, NEW o \in Op, Fails(o)
    PROVE  Kept'
<1> USE DEF Inv
<1>1. Busy(o) /\ UNCHANGED <<rows, left>>
      BY DEF Fails, tables, graph
<1>2. CASE At(o, "patch") /\ Goto(o, OnError(op[o].sub)) /\ UNCHANGED strays
  <2>1. Sound' /\ Alone(o) /\ ~Busy(o)'
        BY <1>2, Stopping DEF Stop, OnError, Kept
  <2> QED BY <1>1, <1>2, <2>1, QuietlyKept DEF At
<1> QED BY <1>1, <1>2, ThrowKept DEF Fails

\* The steps of no operation.
LEMMA TimeKept ==
    ASSUME Inv, Inv', Kept, Advance \/ RunJob \/ MissRun \/ Crash
    PROVE  Kept'
<1> USE DEF Inv
<1>1. CASE RunJob \/ MissRun
  <2>1. UNCHANGED <<op, rows, left, strays>>
        BY <1>1 DEF RunJob, MissRun, tables, graph, ghosts
  <2> QED BY <2>1 DEF Kept, Sound, Found, Departs, At, Ahead, Busy
<1>2. CASE Advance
  <2>1. /\ UNCHANGED <<op, rows>> /\ \A o \in Op : ~Busy(o)
        /\ left' = [s \in Sub |-> Later(left[s])]
        /\ strays' = {s \in strays : left'[s] > 0}
        BY <1>2 DEF Advance, Idle
  <2>2. Sound' /\ \A o \in Op : \A x : ~At(o, x) /\ ~At(o, x)'
        BY <2>1 DEF Kept, Sound, At, Ahead, Busy
  <2>3. Found'
    <3> SUFFICES ASSUME NEW s \in Sub, s \notin rows' \cup strays', left'[s] > 0
                 PROVE  FALSE
        BY DEF Found
    <3>1. left'[s] = Later(left[s]) /\ left[s] \in 0 .. Life
          BY <2>1 DEF Data
    <3>2. left[s] > 0
          BY <3>1 DEF Later, Period, Life
    <3>3. s \notin rows \cup strays
          BY <2>1
    <3> QED BY <2>2, <3>2, <3>3 DEF Kept, Found
  <2> QED BY <2>2, <2>3 DEF Kept, Departs
<1>3. CASE Crash
  <2>1. /\ op' = [o \in Op |-> NoOp] /\ UNCHANGED <<rows, left>>
        /\ strays' = strays \cup {op[o].sub : o \in {p \in Op : At(p, "insert")}}
        BY <1>3 DEF Crash, tables, graph
  <2>2. \A o \in Op : op'[o] = NoOp /\ NoOp.todo = <<>>
        BY <2>1 DEF NoOp
  <2>3. \A o \in Op : \A x : ~At(o, x)' /\ ~Ahead(o, x)'
        BY <2>2, AtFirstNext, Orders
  <2>4. Sound'
        BY <2>2, <2>3, Orders DEF Sound
  <2>5. Found'
    <3> SUFFICES ASSUME NEW s \in Sub, s \notin rows' \cup strays', left'[s] > 0
                 PROVE  FALSE
        BY DEF Found
    <3>1. PICK o \in Op : At(o, "insert") /\ op[o].sub = s
          BY <2>1 DEF Kept, Found
    <3> QED BY <2>1, <3>1
  <2> QED BY <2>3, <2>4, <2>5 DEF Kept, Departs
<1> QED BY <1>1, <1>2, <1>3

-----------------------------------------------------------------------------
(* One row, while nothing fails and no two creations overlap.              *)

\* A creation that has looked.
Works(o) == op[o].kind = "create" /\ Busy(o) /\ ~At(o, "lookup")

Single ==
    ~overlapped /\ faults = 0 =>
        /\ \A o, p \in Op : Works(o) /\ Works(p) => o = p
        /\ \A s, t \in rows : s = t
        /\ \A o \in Op : Works(o) => \A s \in rows : Ahead(o, "unrow") /\ s = op[o].sub

\* What a step of o leaves of it.
LEMMA SingleKeeps ==
    ASSUME Single, NEW o \in Op, Alone(o),
           ~overlapped' /\ faults' = 0 => ~overlapped /\ faults = 0,
           rows' \subseteq rows,
           Works(o)' => Works(o),
           Works(o)' => \A s \in rows' : Ahead(o, "unrow")' /\ s = op'[o].sub
    PROVE  Single'
<1>1. \A p \in Op \ {o} : (Works(p)' <=> Works(p)) /\ op'[p].sub = op[p].sub
                          /\ (Ahead(p, "unrow")' <=> Ahead(p, "unrow"))
      BY DEF Works, Alone
<1> QED BY <1>1 DEF Single

\* Most steps take what is ahead of a creation no further than to its row.
LEMMA OnwardSingle ==
    ASSUME Inv, Inv', Sound, Single, NEW o \in Op, Busy(o), Alone(o), Onward(o),
           NEW a, With(o, op[o].sub, a), ~At(o, "lookup"), ~At(o, "unrow"), ~At(o, "insert"),
           rows' = rows, overlapped' = overlapped, faults' = faults
    PROVE  Single'
<1>1. Works(o)' => Works(o) /\ op'[o].sub = op[o].sub
      BY DEF Works, With
<1>2. Ahead(o, "unrow") => Ahead(o, "unrow")'
      BY DEF Onward
<1>3. ~overlapped' /\ faults' = 0 => (Works(o)' => \A s \in rows' : Ahead(o, "unrow")' /\ s = op'[o].sub)
      BY <1>1, <1>2 DEF Single
<1>4. CASE ~overlapped' /\ faults' = 0
      BY <1>1, <1>3, <1>4, SingleKeeps
<1>5. CASE ~(~overlapped' /\ faults' = 0)
      BY <1>5 DEF Single
<1> QED BY <1>4, <1>5

\* An operation that is no creation afterwards changes nothing.
LEMMA IdleSingle ==
    ASSUME Single, NEW o \in Op, Alone(o), ~Works(o)',
           ~overlapped' /\ faults' = 0 => ~overlapped /\ faults = 0, rows' \subseteq rows
    PROVE  Single'
BY SingleKeeps

LEMMA StartSingle ==
    ASSUME Inv, Inv', Sound, Single, NEW o \in Op, NEW k \in DOMAIN Steps, NEW s, Start(o, k, s)
    PROVE  Single'
<1>1. /\ Alone(o) /\ ~Works(o)'
      BY StartMoves DEF Inv, Works
<1>2. UNCHANGED <<rows, overlapped, faults>>
      BY DEF Start, tables, ghosts
<1> QED BY <1>1, <1>2, IdleSingle

LEMMA ReadTokenSingle ==
    ASSUME Inv, Inv', Sound, Single, NEW o \in Op, ReadToken(o)
    PROVE  Single'
<1> USE DEF Inv
<1>0. /\ At(o, "token") /\ Busy(o) /\ UNCHANGED <<rows, overlapped, faults>>
      /\ ~At(o, "lookup") /\ ~At(o, "unrow") /\ ~At(o, "insert") /\ ~At(o, "find")
      BY DEF ReadToken, At, tables
<1>1. CASE Throw(o)
  <2>1. /\ Alone(o) /\ Gives(o)
        /\ Ahead(o, "unrow") => Ahead(o, "unrow")'
        BY <1>0, <1>1, GivingUp DEF Throw
  <2>2. Works(o)' => Works(o) /\ op'[o].sub = op[o].sub
        BY <1>0, <2>1 DEF Works, Gives
  <2>3. CASE ~overlapped' /\ faults' = 0
    <3>1. Works(o)' => \A s \in rows' : Ahead(o, "unrow")' /\ s = op'[o].sub
          BY <1>0, <2>1, <2>2, <2>3 DEF Single
    <3> QED BY <1>0, <2>1, <2>2, <3>1, SingleKeeps
  <2>4. CASE ~(~overlapped' /\ faults' = 0)
        BY <2>4 DEF Single
  <2> QED BY <2>3, <2>4
<1>2. CASE Becomes(o, [op[o] EXCEPT !.me = linked.token, !.todo = Tail(op[o].todo)])
  <2>1. Alone(o) /\ Onward(o) /\ With(o, op[o].sub, linked.token)
        BY <1>0, <1>2, TokenMoves
  <2> QED BY <1>0, <2>1, OnwardSingle
<1> QED BY <1>1, <1>2 DEF ReadToken

LEMMA DoneSingle ==
    ASSUME Inv, Inv', Sound, Single, NEW o \in Op,
           \/ Persist(o) \/ Upsert(o) \/ Update(o) \/ (Find(o) /\ op[o].sub \in rows)
    PROVE  Single'
<1>1. /\ Busy(o) /\ Done(o) /\ ~At(o, "lookup") /\ ~At(o, "unrow") /\ ~At(o, "insert")
      /\ UNCHANGED <<rows, overlapped, faults>>
      BY DEF Persist, Upsert, Update, Find, At, tables, ghosts
<1>2. Alone(o) /\ Onward(o) /\ With(o, op[o].sub, op[o].me)
      BY <1>1, DoneMoves DEF Inv
<1> QED BY <1>1, <1>2, OnwardSingle

LEMMA ExchangeSingle ==
    ASSUME Inv, Inv', Sound, Single, NEW o \in Op, Exchange(o)
    PROVE  Single'
<1>1. /\ Busy(o) /\ ~At(o, "lookup") /\ ~At(o, "unrow") /\ ~At(o, "insert")
      /\ UNCHANGED <<rows, overlapped, faults>>
      BY DEF Exchange, At, tables, ghosts
<1>2. PICK a \in Account : Becomes(o, [op[o] EXCEPT !.me = a, !.todo = Tail(op[o].todo)])
      BY DEF Exchange
<1>3. Alone(o) /\ Onward(o) /\ With(o, op[o].sub, a)
      BY <1>1, <1>2, TokenMoves DEF Inv
<1> QED BY <1>1, <1>3, OnwardSingle

\* The row that is to be replaced is gone already.
LEMMA MissingSingle ==
    ASSUME Inv, Inv', Sound, Single, NEW o \in Op, Find(o), op[o].sub \notin rows
    PROVE  Single'
<1>1. /\ At(o, "find") /\ Busy(o) /\ op[o].sub \notin rows /\ Goto(o, Caught(o))
      /\ UNCHANGED <<rows, overlapped, faults>>
      BY DEF Find, At, tables, ghosts
<1>2. Alone(o) /\ Gives(o)
      BY <1>1, GivingUp DEF Inv
<1>3. Works(o)' => Works(o)
      BY <1>1, <1>2 DEF Works, Gives
<1>4. CASE ~overlapped' /\ faults' = 0
  <2>1. Works(o) => rows = {}
        BY <1>1, <1>4 DEF Single
  <2>2. Works(o)' => \A s \in rows' : Ahead(o, "unrow")' /\ s = op'[o].sub
        BY <1>1, <1>3, <2>1
  <2> QED BY <1>1, <1>2, <1>3, <2>2, SingleKeeps
<1>5. CASE ~(~overlapped' /\ faults' = 0)
      BY <1>5 DEF Single
<1> QED BY <1>4, <1>5

\* A creation that looks while no other works is the only one.
LEMMA LookupSingle ==
    ASSUME Inv, Inv', Sound, Single, NEW o \in Op, Lookup(o)
    PROVE  Single'
<1>1. /\ Alone(o)
      /\ \/ op'[o] = NoOp /\ ~Busy(o)'
         \/ rows = {}
         \/ op'[o].sub \in rows /\ Ahead(o, "unrow")'
      BY LookupMoves DEF Inv
<1>2. /\ overlapped' = (overlapped \/ \E p \in Op : Creating(p) /\ ~At(p, "lookup"))
      /\ UNCHANGED <<rows, faults>>
      BY DEF Lookup, tables
<1>3. CASE ~overlapped' /\ faults' = 0
  <2>1. ~overlapped /\ faults = 0 /\ \A p \in Op : ~Works(p)
        BY <1>2, <1>3 DEF Works, Creating
  <2>2. \A p \in Op \ {o} : ~Works(p)'
        BY <1>1, <2>1 DEF Works, Alone
  <2>3. \A s, t \in rows' : s = t
        BY <1>2, <2>1 DEF Single
  <2>4. Works(o)' => \A s \in rows' : Ahead(o, "unrow")' /\ s = op'[o].sub
        BY <1>1, <1>2, <2>3 DEF Works
  <2> QED BY <2>2, <2>3, <2>4 DEF Single
<1>4. CASE ~(~overlapped' /\ faults' = 0)
      BY <1>4 DEF Single
<1> QED BY <1>3, <1>4

LEMMA KnownSingle ==
    ASSUME Inv, Inv', Sound, Single, NEW o \in Op, Known(o)
    PROVE  Single'
<1>1. Alone(o) /\ ~Works(o)'
      BY KnownMoves DEF Inv, Works
<1>2. UNCHANGED <<rows, overlapped, faults>>
      BY DEF Known, tables, ghosts
<1> QED BY <1>1, <1>2, IdleSingle

\* What is made takes the place of nothing.
LEMMA PostSingle ==
    ASSUME Inv, Inv', Sound, Single, NEW o \in Op, Post(o)
    PROVE  Single'
<1>1. /\ At(o, "post") /\ Busy(o) /\ ~At(o, "lookup") /\ UNCHANGED <<rows, overlapped, faults>>
      BY DEF Post, At, tables, ghosts
<1>2. PICK s \in Sub : Sent(o, s)
      BY DEF Post
<1>3. Alone(o) /\ With(o, s, None)
      BY <1>1, <1>2, SentMoves DEF Inv
<1>4. Works(o)' => Works(o)
      BY <1>1, <1>3 DEF Works, With
<1>5. CASE ~overlapped' /\ faults' = 0
  <2>1. Works(o) => rows = {}
        BY <1>1, <1>5, Lasting DEF Single, Inv
  <2> QED BY <1>1, <1>3, <1>4, <2>1, SingleKeeps
<1>6. CASE ~(~overlapped' /\ faults' = 0)
      BY <1>6 DEF Single
<1> QED BY <1>5, <1>6

LEMMA InsertSingle ==
    ASSUME Inv, Inv', Sound, Single, NEW o \in Op, Insert(o)
    PROVE  Single'
<1>1. /\ At(o, "insert") /\ Busy(o) /\ ~At(o, "lookup") /\ Done(o)
      /\ rows' = rows \cup {op[o].sub} /\ UNCHANGED <<overlapped, faults>>
      BY DEF Insert, At, ghosts
<1>2. Works(o)
      BY <1>1, AtFirst DEF Works, Sound, Inv
<1>3. Alone(o) /\ ~Busy(o)'
      BY <1>1, DoneMoves DEF Inv, Onward
<1>4. CASE ~overlapped' /\ faults' = 0
  <2>1. rows = {} /\ \A p \in Op \ {o} : ~Works(p)
        BY <1>1, <1>2, <1>4, Lasting DEF Single, Inv
  <2>2. \A p \in Op : ~Works(p)'
        BY <1>3, <2>1 DEF Works, Alone
  <2> QED BY <1>1, <2>1, <2>2 DEF Single
<1>5. CASE ~(~overlapped' /\ faults' = 0)
      BY <1>5 DEF Single
<1> QED BY <1>4, <1>5

LEMMA UnrowSingle ==
    ASSUME Inv, Inv', Sound, Single, NEW o \in Op, Unrow(o)
    PROVE  Single'
<1>1. /\ At(o, "unrow") /\ Busy(o) /\ ~At(o, "lookup") /\ Done(o)
      /\ rows' = rows \ {op[o].sub} /\ UNCHANGED <<overlapped, faults>>
      BY DEF Unrow, At
<1>2. Alone(o) /\ With(o, op[o].sub, op[o].me)
      BY <1>1, DoneMoves DEF Inv
<1>3. Works(o)' => Works(o)
      BY <1>1, <1>2 DEF Works, With
<1>4. CASE ~overlapped' /\ faults' = 0
  <2>1. Works(o) => rows' = {}
        BY <1>1, <1>4 DEF Single
  <2> QED BY <1>1, <1>2, <1>3, <2>1, SingleKeeps
<1>5. CASE ~(~overlapped' /\ faults' = 0)
      BY <1>5 DEF Single
<1> QED BY <1>4, <1>5

LEMMA RequestSingle ==
    ASSUME Inv, Inv', Sound, Single, NEW o \in Op, Patch(o) \/ Remove(o)
    PROVE  Single'
<1>1. /\ Busy(o) /\ ~At(o, "lookup") /\ ~At(o, "unrow") /\ ~At(o, "insert")
      /\ UNCHANGED <<rows, overlapped, faults>>
      BY DEF Patch, Remove, At, tables
<1>2. CASE Sent(o, op[o].sub)
  <2>1. Alone(o) /\ Onward(o) /\ With(o, op[o].sub, None)
        BY <1>1, <1>2, SentMoves DEF Inv
  <2> QED BY <1>1, <2>1, OnwardSingle
<1>3. CASE Goto(o, <<>>)
  <2>1. Alone(o) /\ ~Works(o)'
        BY <1>3, Stopping DEF Inv, Stop, Works
  <2> QED BY <1>1, <2>1, IdleSingle
<1>4. CASE Goto(o, <<"unrow">>)
  <2>1. /\ Alone(o) /\ op'[o].kind = op[o].kind /\ op'[o].sub = op[o].sub
        /\ Ahead(o, "unrow")'
        BY <1>4, Unrowing DEF Inv
  <2>2. Works(o)' => Works(o)
        BY <1>1, <2>1 DEF Works
  <2>3. CASE ~overlapped' /\ faults' = 0
    <3>1. Works(o)' => \A s \in rows' : Ahead(o, "unrow")' /\ s = op'[o].sub
          BY <1>1, <2>1, <2>2, <2>3 DEF Single
    <3> QED BY <1>1, <2>1, <2>2, <3>1, SingleKeeps
  <2>4. CASE ~(~overlapped' /\ faults' = 0)
        BY <2>4 DEF Single
  <2> QED BY <2>3, <2>4
<1> QED BY <1>2, <1>3, <1>4 DEF Patch, Remove, OnError

LEMMA OtherSingle ==
    ASSUME Inv, Inv', Single,
           \/ Advance \/ RunJob \/ MissRun \/ Crash
           \/ \E o \in Op : Fails(o) \/ PostUnanswered(o)
    PROVE  Single'
<1>1. CASE Advance \/ RunJob
  <2>1. UNCHANGED <<op, rows, overlapped, faults>>
        BY <1>1 DEF Advance, RunJob, tables, ghosts
  <2> QED BY <2>1 DEF Single, Works, Busy, At, Ahead
<1>2. CASE MissRun \/ Crash \/ \E o \in Op : Fails(o) \/ PostUnanswered(o)
  <2>1. Fault
        BY <1>2 DEF MissRun, Crash, Fails, PostUnanswered
  <2>2. faults' # 0
        BY <2>1 DEF Fault, Inv, Data
  <2> QED BY <2>2 DEF Single
<1> QED BY <1>1, <1>2

-----------------------------------------------------------------------------
(* One account, until another is linked.                                   *)

OneAccount ==
    ~switched =>
        /\ linked.token = linked.account
        /\ \A s \in Sub : watched[s] \in {None, linked.account}
        /\ \A o \in Op : op[o].me \in {None, linked.account} \/ At(o, "upsert")

LEMMA AccountKeeps ==
    ASSUME OneAccount, NEW o \in Op, Alone(o), UNCHANGED <<linked, switched>>,
           \A s \in Sub : watched'[s] = watched[s] \/ watched'[s] = op[o].me,
           watched' = watched \/ ~At(o, "upsert"),
           \/ op'[o].me \in {None, linked.account}
           \/ op'[o].me = op[o].me /\ ~At(o, "upsert")
           \/ op'[o].me = linked.token
           \/ At(o, "upsert")'
    PROVE  OneAccount'
<1> SUFFICES ASSUME ~switched
             PROVE  /\ linked'.token = linked'.account
                    /\ \A s \in Sub : watched'[s] \in {None, linked'.account}
                    /\ \A p \in Op : op'[p].me \in {None, linked'.account} \/ At(p, "upsert")'
    BY DEF OneAccount
<1>1. \A s \in Sub : watched'[s] \in {None, linked.account}
      BY DEF OneAccount
<1>2. \A p \in Op \ {o} : op'[p].me \in {None, linked.account} \/ At(p, "upsert")'
      BY DEF OneAccount, Alone
<1>3. op'[o].me \in {None, linked.account} \/ At(o, "upsert")'
      BY DEF OneAccount
<1> QED BY <1>1, <1>2, <1>3 DEF OneAccount

LEMMA NoOpNone == NoOp.me = None
BY DEF NoOp

LEMMA StartAccount ==
    ASSUME Inv, Inv', Sound, OneAccount, NEW o \in Op, NEW k \in DOMAIN Steps, NEW s,
           Start(o, k, s)
    PROVE  OneAccount'
<1>1. Alone(o) /\ op'[o].me = None
      BY StartMoves DEF Inv
<1>2. UNCHANGED <<linked, switched, watched>>
      BY DEF Start, tables, ghosts
<1> QED BY <1>1, <1>2, AccountKeeps

\* A failure leaves an operation what it has.
LEMMA GivesAccount ==
    ASSUME OneAccount, NEW o \in Op, Alone(o), Gives(o), UNCHANGED <<linked, switched, watched>>
    PROVE  OneAccount'
BY AccountKeeps, NoOpNone DEF Gives

LEMMA FailsAccount ==
    ASSUME Inv, Inv', Sound, OneAccount, NEW o \in Op,
           Fails(o) \/ (Find(o) /\ op[o].sub \notin rows) \/ (ReadToken(o) /\ Throw(o))
    PROVE  OneAccount'
<1>1. /\ Busy(o) /\ UNCHANGED <<linked, switched, watched>>
      /\ Goto(o, Caught(o)) \/ Stop(o)
      BY DEF Fails, Find, ReadToken, Throw, OnError, Stop, At, tables, graph, ghosts
<1>2. Alone(o) /\ Gives(o)
      BY <1>1, GivingUp, Stopping DEF Inv
<1> QED BY <1>1, <1>2, GivesAccount

LEMMA TokenAccount ==
    ASSUME Inv, Inv', Sound, OneAccount, NEW o \in Op,
           (ReadToken(o) /\ linked.token # None) \/ Exchange(o)
    PROVE  OneAccount'
<1>1. /\ Busy(o) /\ UNCHANGED <<linked, switched, watched>>
      BY DEF ReadToken, Exchange, At, tables, graph, ghosts
<1>2. PICK a : /\ Becomes(o, [op[o] EXCEPT !.me = a, !.todo = Tail(op[o].todo)])
               /\ a = linked.token \/ At(o, "exchange")
      BY DEF ReadToken, Exchange
<1>3. /\ Alone(o) /\ Onward(o) /\ With(o, op[o].sub, a)
      BY <1>1, <1>2, TokenMoves DEF Inv
<1>4. \/ op'[o].me = None
      \/ op'[o].me = linked.token
      \/ At(o, "upsert")'
      BY <1>2, <1>3, NoOpNone DEF Onward, With
<1> QED BY <1>1, <1>3, <1>4, AccountKeeps

LEMMA PersistAccount ==
    ASSUME Inv, Inv', Sound, OneAccount, NEW o \in Op, Persist(o)
    PROVE  OneAccount'
<1>1. /\ At(o, "persist") /\ Busy(o) /\ Done(o) /\ ~At(o, "upsert")
      /\ UNCHANGED <<switched, watched>>
      /\ linked' = [linked EXCEPT !.token = op[o].me] \/ linked' = linked
      BY DEF Persist, At, graph, ghosts
<1>2. Alone(o) /\ With(o, op[o].sub, op[o].me)
      BY <1>1, DoneMoves DEF Inv
<1>3. op[o].me # None
      BY <1>1, Current DEF Inv, Ready, At
<1>4. /\ linked'.account = linked.account
      /\ linked'.token = linked.token \/ linked'.token = op[o].me
      BY <1>1 DEF Inv, Data
<1>5. CASE ~switched
  <2>1. op[o].me = linked.account
        BY <1>1, <1>3, <1>5 DEF OneAccount
  <2>2. linked'.token = linked'.account
        BY <1>4, <1>5, <2>1 DEF OneAccount
  <2>3. \A p \in Op \ {o} : op'[p].me \in {None, linked'.account} \/ At(p, "upsert")'
        BY <1>2, <1>4, <1>5 DEF OneAccount, Alone
  <2>4. op'[o].me \in {None, linked'.account}
        BY <1>2, <1>4, <2>1, NoOpNone DEF With
  <2> QED BY <1>1, <1>4, <1>5, <2>2, <2>3, <2>4 DEF OneAccount
<1>6. CASE switched
      BY <1>1, <1>6 DEF OneAccount
<1> QED BY <1>5, <1>6

\* The first account that is linked finds nothing of another.
LEMMA UpsertAccount ==
    ASSUME Inv, Inv', Sound, OneAccount, NEW o \in Op, Upsert(o)
    PROVE  OneAccount'
<1>1. /\ At(o, "upsert") /\ Busy(o) /\ Done(o) /\ UNCHANGED watched
      /\ linked' = LinkedBy(o)
      /\ switched' = (switched \/ linked.account \notin {None, op[o].me})
      BY DEF Upsert, At, graph
<1>2. Alone(o) /\ With(o, op[o].sub, op[o].me)
      BY <1>1, DoneMoves DEF Inv
<1>3. linked'.account = op[o].me /\ linked'.token = op[o].me
      BY <1>1 DEF LinkedBy
<1>4. CASE ~switched'
  <2>1. ~switched /\ linked.account \in {None, op[o].me}
        BY <1>1, <1>4
  <2>2. \A s \in Sub : watched'[s] \in {None, linked'.account}
        BY <1>1, <1>3, <2>1 DEF OneAccount
  <2>3. \A p \in Op \ {o} : op'[p].me \in {None, linked'.account} \/ At(p, "upsert")'
        BY <1>2, <1>3, <2>1 DEF OneAccount, Alone
  <2>4. op'[o].me \in {None, linked'.account}
        BY <1>2, <1>3, NoOpNone DEF With
  <2> QED BY <1>3, <2>2, <2>3, <2>4 DEF OneAccount
<1>5. CASE switched'
      BY <1>5 DEF OneAccount
<1> QED BY <1>4, <1>5

LEMMA DoneAccount ==
    ASSUME Inv, Inv', Sound, OneAccount, NEW o \in Op,
           \/ Insert(o) \/ Update(o) \/ Unrow(o) \/ (Find(o) /\ op[o].sub \in rows)
    PROVE  OneAccount'
<1>1. /\ Busy(o) /\ Done(o) /\ ~At(o, "upsert") /\ UNCHANGED <<linked, switched, watched>>
      BY DEF Insert, Update, Unrow, Find, At, tables, graph, ghosts
<1>2. Alone(o) /\ With(o, op[o].sub, op[o].me)
      BY <1>1, DoneMoves DEF Inv
<1> QED BY <1>1, <1>2, AccountKeeps, NoOpNone DEF With

LEMMA RequestAccount ==
    ASSUME Inv, Inv', Sound, OneAccount, NEW o \in Op,
           Post(o) \/ PostUnanswered(o) \/ Patch(o) \/ Remove(o)
    PROVE  OneAccount'
<1>1. /\ Busy(o) /\ ~At(o, "upsert") /\ UNCHANGED <<linked, switched>>
      /\ \A s \in Sub : watched'[s] = watched[s] \/ watched'[s] = op[o].me
      BY DEF Post, PostUnanswered, Patch, Remove, Made, At, tables, ghosts, Inv, Data
<1>2. (\E s : Sent(o, s)) \/ Stop(o) \/ Goto(o, <<"unrow">>)
      BY DEF Post, PostUnanswered, Patch, Remove, OnError, Stop
<1>3. Alone(o) /\ (op'[o].me = None \/ op'[o].me = op[o].me)
  <2>1. CASE \E s : Sent(o, s)
        BY <1>1, <2>1, SentMoves, NoOpNone DEF Inv, With
  <2>2. CASE Stop(o)
        BY <2>2, Stopping, NoOpNone DEF Inv, Gives
  <2>3. CASE Goto(o, <<"unrow">>)
        BY <2>3, Unrowing DEF Inv
  <2> QED BY <1>2, <2>1, <2>2, <2>3
<1> QED BY <1>1, <1>3, AccountKeeps

LEMMA TableAccount ==
    ASSUME Inv, Inv', Sound, OneAccount, NEW o \in Op, Lookup(o) \/ Known(o)
    PROVE  OneAccount'
<1>1. /\ ~At(o, "upsert") /\ UNCHANGED <<linked, switched, watched>>
      BY DEF Lookup, Known, At, tables, graph, ghosts
<1>2. Alone(o) /\ (op'[o].me = None \/ op'[o].me = op[o].me)
      BY LookupMoves, KnownMoves, NoOpNone DEF Inv
<1> QED BY <1>1, <1>2, AccountKeeps

LEMMA OtherAccount ==
    ASSUME Inv, Inv', OneAccount, Advance \/ RunJob \/ MissRun \/ Crash
    PROVE  OneAccount'
<1>1. UNCHANGED <<linked, switched, watched>>
      BY DEF Advance, RunJob, MissRun, Crash, tables, graph, ghosts
<1>2. CASE Advance \/ RunJob \/ MissRun
  <2>1. UNCHANGED op
        BY <1>2 DEF Advance, RunJob, MissRun
  <2> QED BY <1>1, <2>1 DEF OneAccount, At, Busy
<1>3. CASE Crash
  <2>1. \A o \in Op : op'[o] = NoOp
        BY <1>3 DEF Crash
  <2> QED BY <1>1, <2>1, NoOpNone DEF OneAccount
<1> QED BY <1>2, <1>3

\* An operation that has ended has nothing ahead of it.
LEMMA Idling ==
    ASSUME NEW o \in Op, ~Busy(o)'
    PROVE  \A x : ~Ahead(o, x)' /\ ~At(o, x)'
<1>1. op'[o].todo = <<>>
      BY DEF Busy
<1>2. DOMAIN <<>> = {}
      OBVIOUS
<1> QED BY <1>1, <1>2 DEF Busy, At, Ahead

-----------------------------------------------------------------------------
(* What has been made and not inserted is nobody else's.                   *)

Newborn ==
    \A o \in Op : At(o, "insert") =>
        LET s == op[o].sub
        IN  /\ s \notin rows /\ left[s] = Life
            /\ \A p \in Op \ {o} : op[p].sub = s =>
                  /\ ~At(p, "insert")
                  /\ \A x \in AboutSub : Ahead(p, x) => At(p, "find")

\* A step of o that makes nothing takes nothing from the others.
LEMMA NewbornKeeps ==
    ASSUME Newborn, NEW o \in Op, Alone(o), ~At(o, "insert")',
           \A p \in Op \ {o} : At(p, "insert") =>
               /\ op[p].sub \notin rows'
               /\ left'[op[p].sub] = Life
               /\ op'[o].sub = op[p].sub => \A x \in AboutSub : Ahead(o, x)' => At(o, "find")'
    PROVE  Newborn'
<1> SUFFICES ASSUME NEW p \in Op, At(p, "insert")'
             PROVE  /\ op'[p].sub \notin rows' /\ left'[op'[p].sub] = Life
                    /\ \A q \in Op \ {p} : op'[q].sub = op'[p].sub =>
                          /\ ~At(q, "insert")'
                          /\ \A x \in AboutSub : Ahead(q, x)' => At(q, "find")'
    BY DEF Newborn
<1>1. p # o /\ At(p, "insert") /\ op'[p].sub = op[p].sub
      BY DEF Alone
<1>2. op'[p].sub \notin rows' /\ left'[op'[p].sub] = Life
      BY <1>1
<1>3. ASSUME NEW q \in Op \ {p}, op'[q].sub = op'[p].sub
      PROVE  /\ ~At(q, "insert")'
             /\ \A x \in AboutSub : Ahead(q, x)' => At(q, "find")'
  <2>1. CASE q = o
        BY <1>1, <1>3, <2>1
  <2>2. CASE q # o
        BY <1>1, <1>3, <2>2 DEF Alone, Newborn
  <2> QED BY <2>1, <2>2
<1> QED BY <1>2, <1>3

\* An operation that goes on does so past find, which has found its row.
LEMMA OnwardNewborn ==
    ASSUME Newborn, NEW o \in Op, Alone(o), Onward(o), NEW s, NEW a, With(o, s, a),
           s = op[o].sub, ~At(o, "post"), UNCHANGED left,
           At(o, "find") => s \in rows,
           \A p \in Op \ {o} : At(p, "insert") => op[p].sub \notin rows'
    PROVE  Newborn'
<1>1. ~At(o, "insert")'
      BY DEF Onward
<1>2. ASSUME NEW p \in Op \ {o}, At(p, "insert"), op'[o].sub = op[p].sub, NEW x \in AboutSub,
             Ahead(o, x)'
      PROVE  FALSE
  <2>1. Ahead(o, x)
        BY <1>2 DEF Onward
  <2>2. op'[o].sub = op[o].sub
        BY <1>2, Idling DEF With
  <2>3. At(o, "find")
        BY <1>2, <2>1, <2>2 DEF Newborn
  <2> QED BY <1>2, <2>2, <2>3 DEF Newborn
<1>3. \A p \in Op \ {o} : At(p, "insert") => left'[op[p].sub] = Life
      BY DEF Newborn
<1> QED BY <1>1, <1>2, <1>3, NewbornKeeps

LEMMA StartNewborn ==
    ASSUME Inv, Inv', Sound, Newborn, NEW o \in Op, NEW k \in DOMAIN Steps, NEW s,
           Start(o, k, s)
    PROVE  Newborn'
<1>1. /\ Alone(o) /\ ~At(o, "insert")'
      /\ \A x \in AboutSub : Ahead(o, x)' => At(o, "find")'
      BY StartMoves DEF Inv
<1>2. UNCHANGED <<rows, left>>
      BY DEF Start, tables
<1> QED BY <1>1, <1>2, NewbornKeeps DEF Newborn

LEMMA TableNewborn ==
    ASSUME Inv, Inv', Sound, Newborn, NEW o \in Op, Lookup(o) \/ Known(o)
    PROVE  Newborn'
<1>1. /\ Alone(o) /\ ~At(o, "insert")'
      /\ \A x \in AboutSub : Ahead(o, x)' => At(o, "find")'
      BY LookupMoves, KnownMoves DEF Inv
<1>2. UNCHANGED <<rows, left>>
      BY DEF Lookup, Known, tables, graph
<1> QED BY <1>1, <1>2, NewbornKeeps DEF Newborn

\* A failure leaves at most the row to be deleted.
LEMMA FailsNewborn ==
    ASSUME Inv, Inv', Sound, Newborn, NEW o \in Op,
           Fails(o) \/ (Find(o) /\ op[o].sub \notin rows) \/ (ReadToken(o) /\ Throw(o))
    PROVE  Newborn'
<1>1. /\ Busy(o) /\ UNCHANGED <<rows, left>>
      /\ Goto(o, Caught(o)) \/ Stop(o)
      BY DEF Fails, Find, ReadToken, Throw, OnError, Stop, At, tables, graph
<1>2. Alone(o) /\ Gives(o)
      BY <1>1, GivingUp, Stopping DEF Inv
<1>3. ~At(o, "insert")'
      BY <1>2 DEF Gives
<1>4. ASSUME NEW p \in Op \ {o}, At(p, "insert"), op'[o].sub = op[p].sub, NEW x \in AboutSub,
             Ahead(o, x)'
      PROVE  FALSE
  <2>1. x = "unrow" /\ Ahead(o, "unrow") /\ ~At(o, "find")
        BY <1>2, <1>4 DEF Gives
  <2>2. op'[o].sub = op[o].sub
        BY <1>2, <1>4, Idling DEF Gives
  <2> QED BY <1>4, <2>1, <2>2 DEF Newborn, AboutSub
<1> QED BY <1>1, <1>2, <1>3, <1>4, NewbornKeeps DEF Newborn

LEMMA TokenNewborn ==
    ASSUME Inv, Inv', Sound, Newborn, NEW o \in Op,
           (ReadToken(o) /\ linked.token # None) \/ Exchange(o)
    PROVE  Newborn'
<1>1. /\ Busy(o) /\ UNCHANGED <<rows, left>> /\ ~At(o, "find") /\ ~At(o, "post")
      BY DEF ReadToken, Exchange, At, tables, graph
<1>2. PICK a : Becomes(o, [op[o] EXCEPT !.me = a, !.todo = Tail(op[o].todo)])
      BY DEF ReadToken, Exchange
<1>3. Alone(o) /\ Onward(o) /\ With(o, op[o].sub, a)
      BY <1>1, <1>2, TokenMoves DEF Inv
<1>4. \A p \in Op \ {o} : At(p, "insert") => op[p].sub \notin rows' /\ left'[op[p].sub] = Life
      BY <1>1 DEF Newborn
<1> QED BY <1>1, <1>3, <1>4, OnwardNewborn

LEMMA DoneNewborn ==
    ASSUME Inv, Inv', Sound, Newborn, NEW o \in Op,
           \/ Persist(o) \/ Upsert(o) \/ Insert(o) \/ Update(o) \/ Unrow(o)
           \/ (Find(o) /\ op[o].sub \in rows)
    PROVE  Newborn'
<1>1. /\ Busy(o) /\ Done(o) /\ ~At(o, "post") /\ UNCHANGED left
      BY DEF Persist, Upsert, Insert, Update, Unrow, Find, At, graph
<1>2. Alone(o) /\ Onward(o) /\ With(o, op[o].sub, op[o].me)
      BY <1>1, DoneMoves DEF Inv
<1>3. At(o, "find") => op[o].sub \in rows
      BY DEF Persist, Upsert, Insert, Update, Unrow, Find, At
<1>4. \A p \in Op \ {o} : At(p, "insert") => op[p].sub \notin rows'
  <2>1. CASE Insert(o)
    <3>1. At(o, "insert") /\ rows' = rows \cup {op[o].sub}
          BY <2>1 DEF Insert
    <3> QED BY <3>1 DEF Newborn
  <2>2. CASE ~Insert(o)
    <3>1. rows' \subseteq rows
          BY <2>2 DEF Persist, Upsert, Update, Unrow, Find, tables
    <3> QED BY <3>1 DEF Newborn
  <2> QED BY <2>1, <2>2
<1>5. \A p \in Op \ {o} : At(p, "insert") => left'[op[p].sub] = Life
      BY <1>1 DEF Newborn
<1> QED BY <1>1, <1>2, <1>3, <1>4, <1>5, OnwardNewborn

\* Nobody has heard of what Graph makes.
LEMMA PostNewborn ==
    ASSUME Inv, Inv', Sound, Newborn, NEW o \in Op, Post(o) \/ PostUnanswered(o)
    PROVE  Newborn'
<1>1. At(o, "post") /\ Busy(o) /\ UNCHANGED rows
      BY DEF Post, PostUnanswered, At, tables
<1>2. PICK s \in Sub : Made(o, s) /\ (Sent(o, s) \/ Stop(o))
      BY DEF Post, PostUnanswered
<1>3. /\ watched[s] = None /\ s \notin rows /\ left'[s] = Life
      /\ \A t \in Sub \ {s} : left'[t] = left[t]
      BY <1>2 DEF Made, Inv, Data, Subscribed
<1>4. ASSUME NEW p \in Op, At(p, "insert") \/ \E x \in AboutSub : Ahead(p, x)
      PROVE  op[p].sub # s /\ op[p].sub \in Sub
      BY <1>3, <1>4, AboutOne
<1>5. \A p \in Op \ {o} : At(p, "insert") =>
          op[p].sub \notin rows' /\ left'[op[p].sub] = Life
      BY <1>1, <1>3, <1>4 DEF Newborn
<1>6. CASE Stop(o)
  <2>1. Alone(o) /\ ~Busy(o)'
        BY <1>6, Stopping DEF Inv
  <2> QED BY <1>5, <2>1, Idling, NewbornKeeps
<1>7. CASE Sent(o, s)
  <2>1. Alone(o) /\ Onward(o) /\ With(o, s, None)
        BY <1>1, <1>7, SentMoves DEF Inv
  <2>2. At(o, "insert")' /\ op'[o].sub = s
        BY <1>1, <2>1, Idling DEF Onward, With
  <2>3. ASSUME NEW q \in Op, At(q, "insert")', NEW p \in Op \ {q}, op'[p].sub = op'[q].sub
        PROVE  /\ ~At(p, "insert")'
               /\ \A x \in AboutSub : Ahead(p, x)' => At(p, "find")'
    <3>1. CASE q = o
          BY <1>4, <2>1, <2>2, <2>3, <3>1 DEF Alone
    <3>2. CASE q # o /\ p = o
          BY <1>4, <2>1, <2>2, <2>3, <3>2 DEF Alone
    <3>3. CASE q # o /\ p # o
          BY <2>1, <2>3, <3>3 DEF Alone, Newborn
    <3> QED BY <3>1, <3>2, <3>3
  <2>4. ASSUME NEW q \in Op, At(q, "insert")'
        PROVE  op'[q].sub \notin rows' /\ left'[op'[q].sub] = Life
    <3>1. CASE q = o
          BY <1>1, <1>3, <2>2, <3>1
    <3>2. CASE q # o
          BY <1>5, <2>1, <2>4, <3>2 DEF Alone
    <3> QED BY <3>1, <3>2
  <2> QED BY <2>3, <2>4 DEF Newborn
<1> QED BY <1>2, <1>6, <1>7

LEMMA RequestNewborn ==
    ASSUME Inv, Inv', Sound, Newborn, NEW o \in Op, Patch(o) \/ Remove(o)
    PROVE  Newborn'
<1> DEFINE s == op[o].sub
<1>1. /\ Busy(o) /\ ~At(o, "post") /\ ~At(o, "find") /\ UNCHANGED rows
      /\ At(o, "patch") \/ At(o, "remove")
      BY DEF Patch, Remove, At, tables
<1>2. s \in Sub /\ \E x \in AboutSub : Ahead(o, x)
      BY <1>1, AtFirst, AboutOne DEF AboutSub, Inv
<1>3. ASSUME NEW p \in Op \ {o}, At(p, "insert")
      PROVE  op[p].sub # s /\ op[p].sub \in Sub
      BY <1>1, <1>2, <1>3, AboutOne DEF Newborn
<1>4. \A t \in Sub \ {s} : left'[t] = left[t]
      BY <1>2 DEF Patch, Remove, Inv, Data
<1>5. \A p \in Op \ {o} : At(p, "insert") =>
          op[p].sub \notin rows' /\ left'[op[p].sub] = Life
      BY <1>1, <1>3, <1>4 DEF Newborn
<1>6. Sent(o, s) \/ Goto(o, <<"unrow">>) \/ Stop(o)
      BY DEF Patch, Remove, OnError, Stop
<1>7. CASE Sent(o, s)
  <2>1. Alone(o) /\ Onward(o) /\ With(o, s, None)
        BY <1>1, <1>7, SentMoves DEF Inv
  <2>2. ~At(o, "insert")'
        BY <1>1, <2>1 DEF Onward
  <2>3. \A x : Ahead(o, x)' => op'[o].sub = s
        BY <2>1, Idling DEF With
  <2> QED BY <1>3, <1>5, <2>1, <2>2, <2>3, NewbornKeeps
<1>8. CASE Goto(o, <<"unrow">>)
  <2>1. Alone(o) /\ op'[o].sub = s /\ ~At(o, "insert")'
        BY <1>8, Unrowing DEF Inv
  <2> QED BY <1>3, <1>5, <2>1, NewbornKeeps
<1>9. CASE Stop(o)
  <2>1. Alone(o) /\ ~Busy(o)'
        BY <1>9, Stopping DEF Inv
  <2> QED BY <1>5, <2>1, Idling, NewbornKeeps
<1> QED BY <1>6, <1>7, <1>8, <1>9

LEMMA OtherNewborn ==
    ASSUME Inv, Inv', Newborn, Advance \/ RunJob \/ MissRun \/ Crash
    PROVE  Newborn'
<1>1. CASE RunJob \/ MissRun
  <2>1. UNCHANGED <<op, rows, left>>
        BY <1>1 DEF RunJob, MissRun, tables, graph
  <2> QED BY <2>1 DEF Newborn, At, Ahead, Busy
<1>2. CASE Advance
  <2>1. UNCHANGED op /\ \A o \in Op : ~Busy(o)
        BY <1>2 DEF Advance, Idle
  <2> QED BY <2>1 DEF Newborn, At, Busy
<1>3. CASE Crash
  <2>1. \A o \in Op : op'[o] = NoOp /\ NoOp.todo = <<>>
        BY <1>3 DEF Crash, NoOp
  <2> QED BY <2>1 DEF Newborn, At, Busy
<1> QED BY <1>1, <1>2, <1>3

-----------------------------------------------------------------------------
(* Three runs may fail.                                                    *)

\* What is left of a row that is renewed at every run but some.
Marks == {0, 10, 22, 34, 46, 58, 70}

\* A row promises no more than Graph keeps.
Clocked ==
    /\ until \in [Sub -> Marks]
    /\ \A s \in rows \ removed : until[s] <= left[s]
    /\ \A o \in Op :
          At(o, "update") /\ op[o].sub \in rows \ removed => left[op[o].sub] = Life

\* s is still to be renewed in this period.
Pending(s) == s \in due \/ \E o \in Op : Ahead(o, "patch") /\ op[o].sub = s

\* Every run that does not renew s is a failure.
Lasts(s) ==
    /\ left[s] + 12 * faults >= 46
    /\ waiting \/ Pending(s) \/ left[s] + 12 * faults >= 58

Renewed == ~switched /\ faults < 4 => \A s \in rows \ removed : Lasts(s)

LEMMA LaterMarks ==
    ASSUME NEW h \in Marks, NEW l \in 0 .. Life, h <= l
    PROVE  /\ Later(h) \in Marks /\ Later(h) <= Later(l)
           /\ h < LookAhead \/ h >= 58
BY DEF Marks, Later, Period, Life, LookAhead

\* Nothing is changed but the operation; it keeps what is to be renewed, or
\* fails.
LEMMA QuietlyTimed ==
    ASSUME Inv, Clocked, Renewed, NEW o \in Op, Alone(o),
           UNCHANGED <<rows, removed, left, until, waiting>>,
           ~At(o, "update")', ~switched' => ~switched,
           \/ faults' = faults + 1
           \/ /\ faults' = faults
              /\ \A s \in rows \ removed :
                    ~switched /\ (s \in due \/ (Ahead(o, "patch") /\ op[o].sub = s)) =>
                        s \in due' \/ (Ahead(o, "patch")' /\ op'[o].sub = s)
    PROVE  Clocked' /\ Renewed'
<1>1. faults \in Nat /\ left \in [Sub -> 0 .. Life] /\ rows \subseteq Sub
      BY DEF Inv, Data, Subscribed
<1>2. Clocked'
      BY DEF Clocked, Alone
<1>3. ASSUME ~switched', faults' < 4, NEW s \in rows' \ removed'
      PROVE  Lasts(s)'
  <2>1. ~switched /\ faults < 4 /\ s \in rows \ removed /\ left[s] \in Nat /\ s \in Sub
        BY <1>1, <1>3 DEF Life
  <2>2. Lasts(s)
        BY <2>1 DEF Renewed
  <2>3. CASE faults' = faults + 1
        BY <1>1, <2>1, <2>2, <2>3 DEF Lasts
  <2>4. CASE faults' = faults
    <3>1. CASE Pending(s)
      <4>1. CASE s \in due \/ (Ahead(o, "patch") /\ op[o].sub = s)
        <5>1. s \in due' \/ (Ahead(o, "patch")' /\ op'[o].sub = s)
              BY <1>1, <2>1, <2>4, <4>1
        <5>2. Pending(s)'
              BY <5>1 DEF Pending
        <5> QED BY <1>1, <2>1, <2>2, <2>4, <5>2 DEF Lasts
      <4>2. CASE \E p \in Op \ {o} : Ahead(p, "patch") /\ op[p].sub = s
        <5>1. Pending(s)'
              BY <4>2 DEF Pending, Alone
        <5> QED BY <1>1, <2>1, <2>2, <2>4, <5>1 DEF Lasts
      <4> QED BY <3>1, <4>1, <4>2 DEF Pending
    <3>2. CASE ~Pending(s)
          BY <1>1, <2>1, <2>2, <2>4, <3>2 DEF Lasts
    <3> QED BY <3>1, <3>2
  <2> QED BY <2>3, <2>4
<1> QED BY <1>2, <1>3 DEF Renewed

\* An operation that goes on keeps what it renews.
LEMMA OnwardTimed ==
    ASSUME Inv, Clocked, Renewed, NEW o \in Op, Alone(o), Onward(o), NEW a,
           With(o, op[o].sub, a),
           UNCHANGED <<rows, removed, left, until, waiting, due, faults>>,
           ~At(o, "patch"), ~switched' => ~switched
    PROVE  Clocked' /\ Renewed'
<1>1. ~At(o, "update")'
      BY DEF Onward
<1>2. Ahead(o, "patch") => Ahead(o, "patch")' /\ op'[o].sub = op[o].sub
  <2>1. Ahead(o, "patch") => Ahead(o, "patch")'
        BY DEF Onward
  <2> QED BY <2>1, Idling DEF With
<1>3. \A s \in rows \ removed :
          ~switched /\ (s \in due \/ (Ahead(o, "patch") /\ op[o].sub = s)) =>
              s \in due' \/ (Ahead(o, "patch")' /\ op'[o].sub = s)
      BY <1>2
<1> QED BY <1>1, <1>3, QuietlyTimed

LEMMA DoneTimed ==
    ASSUME Inv, Inv', Sound, Clocked, Renewed, NEW o \in Op,
           Persist(o) \/ Upsert(o) \/ (Find(o) /\ op[o].sub \in rows)
    PROVE  Clocked' /\ Renewed'
<1>1. /\ Busy(o) /\ Done(o) /\ ~At(o, "patch")
      /\ UNCHANGED <<rows, removed, left, until, waiting, due, faults>>
  <2>1. CASE Persist(o)
        BY <2>1 DEF Persist, At, graph, time, ghosts
  <2>2. CASE Upsert(o)
        BY <2>2 DEF Upsert, At, graph, time
  <2>3. CASE Find(o) /\ op[o].sub \in rows
        BY <2>3 DEF Find, At, tables, graph, time, ghosts
  <2> QED BY <2>1, <2>2, <2>3
<1>3. ~switched' => ~switched
      BY DEF Persist, Upsert, Find, ghosts
<1>2. Alone(o) /\ Onward(o) /\ With(o, op[o].sub, op[o].me)
      BY <1>1, DoneMoves DEF Inv
<1> QED BY <1>1, <1>2, <1>3, OnwardTimed

LEMMA TokenTimed ==
    ASSUME Inv, Inv', Sound, Clocked, Renewed, NEW o \in Op,
           (ReadToken(o) /\ linked.token # None) \/ Exchange(o)
    PROVE  Clocked' /\ Renewed'
<1>1. /\ Busy(o) /\ ~At(o, "patch")
      /\ UNCHANGED <<rows, removed, left, until, waiting, due, faults>>
      /\ UNCHANGED switched
      BY DEF ReadToken, Exchange, At, tables, graph, time, ghosts
<1>2. PICK a : Becomes(o, [op[o] EXCEPT !.me = a, !.todo = Tail(op[o].todo)])
      BY DEF ReadToken, Exchange
<1>3. Alone(o) /\ Onward(o) /\ With(o, op[o].sub, a)
      BY <1>1, <1>2, TokenMoves DEF Inv
<1> QED BY <1>1, <1>3, OnwardTimed

\* The user is linked as long as he has a row.
LEMMA MissingTimed ==
    ASSUME Inv, Inv', Sound, OneAccount, Clocked, Renewed, NEW o \in Op,
           (Find(o) /\ op[o].sub \notin rows) \/ (ReadToken(o) /\ Throw(o) /\ linked.token = None)
    PROVE  Clocked' /\ Renewed'
<1>1. /\ Busy(o) /\ Goto(o, Caught(o))
      /\ UNCHANGED <<rows, removed, left, until, waiting, due, switched, faults>>
      BY DEF ReadToken, Find, Throw, At, tables, graph, time, ghosts
<1>2. Alone(o) /\ ~At(o, "update")'
      BY <1>1, GivingUp DEF Inv, Gives
<1>3. ASSUME NEW s \in rows, ~switched, op[o].sub = s
      PROVE  FALSE
  <2>1. watched[s] # None /\ s \in Sub
        BY DEF Inv, Data, Subscribed
  <2>2. linked.token # None
        BY <1>3, <2>1 DEF OneAccount
  <2> QED BY <1>3, <2>2
<1> QED BY <1>1, <1>2, <1>3, QuietlyTimed

LEMMA FailsTimed ==
    ASSUME Inv, Inv', Sound, Clocked, Renewed, NEW o \in Op, Fails(o)
    PROVE  Clocked' /\ Renewed'
<1>1. /\ Busy(o)
      /\ Goto(o, Caught(o)) \/ Stop(o)
      /\ UNCHANGED <<rows, removed, left, until, waiting, switched>>
      /\ faults' = faults + 1
      BY DEF Fails, Throw, OnError, Stop, Fault, tables, graph, time
<1>2. Alone(o) /\ ~At(o, "update")'
      BY <1>1, GivingUp, Stopping DEF Inv, Gives
<1> QED BY <1>1, <1>2, QuietlyTimed

LEMMA StartTimed ==
    ASSUME Inv, Inv', Sound, Clocked, Renewed, NEW o \in Op,
           \/ StartCreate(o) \/ StartRenew(o) \/ StartDelete(o) \/ StartCall(o)
           \/ StartHook(o) \/ StartLink(o) \/ StartDue(o)
    PROVE  Clocked' /\ Renewed'
<1>1. PICK k \in DOMAIN Steps, s \in Sub \cup {None} \cup due :
          /\ Start(o, k, s)
          /\ due' = due \/ (k = "renew" /\ due' = due \ {s})
  <2>1. DOMAIN Steps = {"create", "renew", "delete", "calendar", "hook", "link"}
        BY DEF Steps
  <2> QED BY <2>1 DEF StartCreate, StartRenew, StartDelete, StartCall, StartHook, StartLink,
          StartDue
<1>2. /\ Alone(o) /\ ~At(o, "update")' /\ ~Busy(o)
      /\ op'[o].sub = s /\ (Ahead(o, "patch")' <=> k = "renew")
      BY <1>1, StartMoves DEF Inv
<1>3. UNCHANGED <<rows, removed, left, until, waiting, switched, faults>>
      BY <1>1 DEF Start, tables, ghosts
<1>4. ~Ahead(o, "patch")
      BY <1>2, AtFirst, Orders DEF Inv
<1> QED BY <1>1, <1>2, <1>3, <1>4, QuietlyTimed

LEMMA TableTimed ==
    ASSUME Inv, Inv', Sound, Clocked, Renewed, NEW o \in Op, Lookup(o) \/ Known(o)
    PROVE  Clocked' /\ Renewed'
<1>1. /\ At(o, "lookup") \/ At(o, "known")
      /\ UNCHANGED <<rows, removed, left, until, waiting, due, switched, faults>>
      BY DEF Lookup, Known, tables, graph, time, ghosts
<1>2. Alone(o) /\ ~At(o, "update")'
      BY LookupMoves, KnownMoves DEF Inv
<1>3. ~Ahead(o, "patch")
      BY <1>1, Lasting DEF Inv
<1> QED BY <1>1, <1>2, <1>3, QuietlyTimed

\* Graph keeps what it makes the longest, and nobody renews that yet.
LEMMA PostTimed ==
    ASSUME Inv, Inv', Sound, Clocked, Renewed, NEW o \in Op, Post(o) \/ PostUnanswered(o)
    PROVE  Clocked' /\ Renewed'
<1>1. /\ At(o, "post") /\ Busy(o) /\ ~At(o, "remove") /\ ~At(o, "patch")
      /\ UNCHANGED <<rows, removed, until, waiting, due, switched>>
      /\ faults' = faults \/ faults' = faults + 1
      BY DEF Post, PostUnanswered, Fault, At, tables, time, ghosts
<1>2. PICK s \in Sub : Made(o, s) /\ (Sent(o, s) \/ Stop(o))
      BY DEF Post, PostUnanswered
<1>3. s \notin rows /\ \A t \in Sub \ {s} : left'[t] = left[t]
      BY <1>2 DEF Made, Inv, Data, Subscribed
<1>4. rows \subseteq Sub /\ \A t \in rows : left'[t] = left[t]
      BY <1>3 DEF Inv, Data, Subscribed
<1>5. Alone(o) /\ ~At(o, "update")' /\ ~Ahead(o, "patch")
  <2>1. ~Ahead(o, "patch")
        BY <1>1, Lasting DEF Inv
  <2>2. CASE Sent(o, s)
        BY <1>1, <2>1, <2>2, SentMoves DEF Inv, Onward
  <2>3. CASE Stop(o)
        BY <2>1, <2>3, Stopping DEF Inv, Gives
  <2> QED BY <1>2, <2>2, <2>3
<1>6. Clocked'
  <2>1. \A p \in Op : At(p, "update")' => p # o /\ At(p, "update") /\ op'[p].sub = op[p].sub
        BY <1>5 DEF Alone
  <2> QED BY <1>1, <1>4, <2>1 DEF Clocked
<1>7. ASSUME ~switched', faults' < 4, NEW t \in rows' \ removed'
      PROVE  Lasts(t)'
  <2>1. /\ ~switched /\ faults < 4 /\ t \in rows \ removed /\ left'[t] = left[t]
        /\ left[t] \in Nat /\ faults \in Nat
        BY <1>1, <1>4, <1>7 DEF Inv, Data, Life
  <2>2. Lasts(t) /\ (Pending(t) => Pending(t)')
        BY <1>1, <1>5, <2>1 DEF Renewed, Pending, Alone
  <2> QED BY <1>1, <2>1, <2>2 DEF Lasts
<1> QED BY <1>6, <1>7 DEF Renewed

\* What is inserted is new, to Graph as well.
LEMMA InsertTimed ==
    ASSUME Inv, Inv', Sound, Newborn, Clocked, Renewed, NEW o \in Op, Insert(o)
    PROVE  Clocked' /\ Renewed'
<1> DEFINE s == op[o].sub
<1>1. /\ At(o, "insert") /\ Busy(o) /\ Done(o)
      /\ rows' = rows \cup {s} /\ until' = [until EXCEPT ![s] = Life]
      /\ UNCHANGED <<removed, left, waiting, due, switched, faults>>
      BY DEF Insert, At, graph, time, ghosts
<1>2. s \in Sub /\ left[s] = Life /\ s \notin rows
      BY <1>1, AboutOne DEF Newborn
<1>3. Alone(o) /\ ~At(o, "update")' /\ ~Ahead(o, "patch")
      BY <1>1, DoneMoves, Lasting DEF Inv, Onward, At
<1>4. Clocked'
  <2>1. until' \in [Sub -> Marks]
        BY <1>1 DEF Clocked, Marks, Life
  <2>2. \A t \in rows' \ removed' : until'[t] <= left'[t]
        BY <1>1, <1>2 DEF Clocked, Life
  <2>3. ASSUME NEW p \in Op, At(p, "update")', op'[p].sub \in rows' \ removed'
        PROVE  left'[op'[p].sub] = Life
    <3>1. p # o /\ At(p, "update") /\ op'[p].sub = op[p].sub
          BY <1>3, <2>3 DEF Alone
    <3> QED BY <1>1, <1>2, <2>3, <3>1 DEF Clocked
  <2> QED BY <2>1, <2>2, <2>3 DEF Clocked
<1>5. ASSUME ~switched', faults' < 4, NEW t \in rows' \ removed'
      PROVE  Lasts(t)'
  <2>1. CASE t = s
        BY <1>1, <1>2, <2>1 DEF Lasts, Life, Inv, Data
  <2>2. CASE t # s
    <3>1. t \in rows \ removed
          BY <1>1, <1>5, <2>2
    <3>2. Lasts(t) /\ (Pending(t) => Pending(t)')
          BY <1>1, <1>3, <1>5, <3>1 DEF Renewed, Pending, Alone
    <3> QED BY <1>1, <3>2 DEF Lasts
  <2> QED BY <2>1, <2>2
<1> QED BY <1>4, <1>5 DEF Renewed

\* A row goes with what it says.
LEMMA UnrowTimed ==
    ASSUME Inv, Inv', Sound, Clocked, Renewed, NEW o \in Op, Unrow(o)
    PROVE  Clocked' /\ Renewed'
<1> DEFINE s == op[o].sub
<1>1. /\ At(o, "unrow") /\ Busy(o) /\ Done(o)
      /\ rows' = rows \ {s} /\ until' = [until EXCEPT ![s] = 0] /\ removed' = removed \ {s}
      /\ UNCHANGED <<left, waiting, due, switched, faults>>
      BY DEF Unrow, At, graph, time
<1>2. s \in Sub
      BY <1>1, AboutOne, AtFirst DEF Inv, AboutSub
<1>3. /\ Alone(o) /\ ~At(o, "update")' /\ ~At(o, "patch") /\ With(o, s, op[o].me)
      /\ Ahead(o, "patch") => Ahead(o, "patch")'
      BY <1>1, DoneMoves DEF Inv, Onward, At
<1>4. rows' \ removed' \subseteq (rows \ removed) \ {s}
      BY <1>1
<1>5. Clocked'
  <2>1. until' \in [Sub -> Marks]
        BY <1>1 DEF Clocked, Marks
  <2>2. \A t \in rows' \ removed' : until'[t] <= left'[t]
        BY <1>1, <1>4 DEF Clocked
  <2>3. \A p \in Op : At(p, "update")' /\ op'[p].sub \in rows' \ removed' =>
            left'[op'[p].sub] = Life
        BY <1>1, <1>3, <1>4 DEF Clocked, Alone
  <2> QED BY <2>1, <2>2, <2>3 DEF Clocked
<1>6. ASSUME ~switched', faults' < 4, NEW t \in rows' \ removed'
      PROVE  Lasts(t)'
  <2>1. t \in rows \ removed /\ t # s
        BY <1>4, <1>6
  <2>2. Ahead(o, "patch") /\ s = t => FALSE
        BY <2>1
  <2>3. Lasts(t) /\ (Pending(t) => Pending(t)')
        BY <1>1, <1>3, <1>6, <2>1 DEF Renewed, Pending, Alone
  <2> QED BY <1>1, <2>3 DEF Lasts
<1> QED BY <1>5, <1>6 DEF Renewed

\* A row is given the time Graph has given its subscription.
LEMMA UpdateTimed ==
    ASSUME Inv, Inv', Sound, Clocked, Renewed, NEW o \in Op, Update(o)
    PROVE  Clocked' /\ Renewed'
<1> DEFINE s == op[o].sub
<1>1. /\ At(o, "update") /\ Busy(o) /\ Done(o)
      /\ until' = IF s \in rows THEN [until EXCEPT ![s] = Life] ELSE until
      /\ UNCHANGED <<rows, removed, left, waiting, due, switched, faults>>
      BY DEF Update, At, graph, time, ghosts
<1>2. /\ Alone(o) /\ ~At(o, "update")' /\ ~At(o, "patch") /\ With(o, s, op[o].me)
      /\ Ahead(o, "patch") => Ahead(o, "patch")' /\ op'[o].sub = s
  <2>1. /\ Alone(o) /\ ~At(o, "update")' /\ ~At(o, "patch") /\ With(o, s, op[o].me)
        /\ Ahead(o, "patch") => Ahead(o, "patch")'
        BY <1>1, DoneMoves DEF Inv, Onward, At
  <2> QED BY <2>1, Idling DEF With
<1>3. Clocked'
  <2>1. until' \in [Sub -> Marks]
        BY <1>1 DEF Clocked, Marks, Life
  <2>2. \A t \in rows' \ removed' : until'[t] <= left'[t]
        BY <1>1 DEF Clocked, Life, Inv, Data
  <2>3. \A p \in Op : At(p, "update")' /\ op'[p].sub \in rows' \ removed' =>
            left'[op'[p].sub] = Life
        BY <1>1, <1>2 DEF Clocked, Alone
  <2> QED BY <2>1, <2>2, <2>3 DEF Clocked
<1>4. ASSUME ~switched', faults' < 4, NEW t \in rows' \ removed'
      PROVE  Lasts(t)'
  <2>1. Lasts(t) /\ (Pending(t) => Pending(t)')
        BY <1>1, <1>2, <1>4 DEF Renewed, Pending, Alone
  <2> QED BY <1>1, <2>1 DEF Lasts
<1> QED BY <1>3, <1>4 DEF Renewed

\* What Graph has deleted is marked.
LEMMA RemoveTimed ==
    ASSUME Inv, Inv', Sound, Clocked, Renewed, NEW o \in Op, Remove(o)
    PROVE  Clocked' /\ Renewed'
<1> DEFINE s == op[o].sub
<1>1. /\ At(o, "remove") /\ Busy(o) /\ Sent(o, s)
      /\ UNCHANGED <<rows, until, waiting, due, switched, faults>>
      /\ \/ left' = [left EXCEPT ![s] = 0] /\ removed' = removed \cup {s}
         \/ left' = left /\ removed' = removed
      BY DEF Remove, At, tables, time
<1>2. /\ Alone(o) /\ ~At(o, "update")' /\ ~At(o, "patch") /\ With(o, s, None)
      /\ Ahead(o, "patch") => Ahead(o, "patch")' /\ op'[o].sub = s
  <2>1. /\ Alone(o) /\ ~At(o, "update")' /\ ~At(o, "patch") /\ With(o, s, None)
        /\ Ahead(o, "patch") => Ahead(o, "patch")'
        BY <1>1, SentMoves DEF Inv, Onward, At
  <2> QED BY <2>1, Idling DEF With
<1>3. /\ rows' \ removed' \subseteq rows \ removed
      /\ \A t \in rows' \ removed' : left'[t] = left[t]
      BY <1>1 DEF Inv, Data, Subscribed
<1>4. Clocked'
  <2>1. \A p \in Op : At(p, "update")' => At(p, "update") /\ op'[p].sub = op[p].sub
        BY <1>2 DEF Alone
  <2> QED BY <1>1, <1>3, <2>1 DEF Clocked
<1>5. ASSUME ~switched', faults' < 4, NEW t \in rows' \ removed'
      PROVE  Lasts(t)'
  <2>1. Lasts(t) /\ (Pending(t) => Pending(t)')
        BY <1>1, <1>2, <1>3, <1>5 DEF Renewed, Pending, Alone
  <2> QED BY <1>1, <1>3, <2>1 DEF Lasts
<1> QED BY <1>4, <1>5 DEF Renewed

\* While the user has had one account only, a renewal finds its subscription at
\* Graph, and its own.
LEMMA PatchSucceeds ==
    ASSUME Inv, Sound, OneAccount, Renewed, NEW o \in Op, At(o, "patch"),
           ~switched, faults < 4, op[o].sub \in rows \ removed
    PROVE  watched[op[o].sub] = op[o].me /\ left[op[o].sub] > 0
<1> DEFINE s == op[o].sub
<1>1. s \in Sub /\ watched[s] # None /\ left[s] \in 0 .. Life
      BY AboutOne, AtFirst DEF Inv, AboutSub
<1>2. op[o].me # None /\ ~At(o, "upsert")
      BY Current DEF Inv, Ready, At, Requests
<1>3. watched[s] = op[o].me
      BY <1>1, <1>2 DEF OneAccount
<1>4. left[s] + 12 * faults >= 46 /\ faults \in 0 .. 3
      BY DEF Renewed, Lasts, Inv, Data
<1> QED BY <1>1, <1>3, <1>4 DEF Life

LEMMA PatchTimed ==
    ASSUME Inv, Inv', Sound, OneAccount, Clocked, Renewed, NEW o \in Op, Patch(o)
    PROVE  Clocked' /\ Renewed'
<1> DEFINE s == op[o].sub
<1>1. /\ At(o, "patch") /\ Busy(o)
      /\ UNCHANGED <<rows, until, removed, waiting, due, switched, faults>>
      BY DEF Patch, At, tables, time
<1>2. s \in Sub
      BY <1>1, AboutOne, AtFirst DEF Inv, AboutSub
<1>3. CASE watched[s] = op[o].me /\ left[s] > 0
  <2>1. left' = [left EXCEPT ![s] = Life] /\ Sent(o, s)
        BY <1>3 DEF Patch
  <2>2. Alone(o) /\ With(o, s, None)
        BY <1>1, <2>1, SentMoves DEF Inv
  <2>3. left'[s] = Life /\ \A t \in Sub \ {s} : left'[t] = left[t]
        BY <1>2, <2>1 DEF Inv, Data
  <2>4. At(o, "update")' => op'[o].sub = s
        BY <2>2, Idling DEF With
  <2>5. Clocked'
    <3>1. \A t \in rows' \ removed' : until'[t] <= left'[t]
          BY <1>1, <2>3 DEF Clocked, Inv, Data, Life, Subscribed
    <3>2. ASSUME NEW p \in Op, At(p, "update")', op'[p].sub \in rows' \ removed'
          PROVE  left'[op'[p].sub] = Life
      <4>1. CASE p = o
            BY <2>3, <2>4, <3>2, <4>1
      <4>2. CASE p # o
        <5>1. left[op'[p].sub] = Life
              BY <1>1, <2>2, <3>2, <4>2 DEF Clocked, Alone
        <5>2. op'[p].sub \in Sub
              BY <1>1, <3>2 DEF Inv, Data, Subscribed
        <5> QED BY <2>3, <5>1, <5>2
      <4> QED BY <4>1, <4>2
    <3> QED BY <1>1, <3>1, <3>2 DEF Clocked
  <2>6. ASSUME ~switched', faults' < 4, NEW t \in rows' \ removed'
        PROVE  Lasts(t)'
    <3>0. faults \in Nat /\ t \in Sub
          BY <1>1, <2>6 DEF Inv, Data, Subscribed
    <3>1. CASE t = s
          BY <1>1, <2>3, <3>0, <3>1 DEF Lasts, Life
    <3>2. CASE t # s
      <4>1. left'[t] = left[t]
            BY <2>3, <3>0, <3>2
      <4>2. Lasts(t) /\ (Pending(t) => Pending(t)')
            BY <1>1, <2>2, <2>6, <3>2 DEF Renewed, Pending, Alone
      <4> QED BY <1>1, <4>1, <4>2 DEF Lasts
    <3> QED BY <3>1, <3>2
  <2> QED BY <2>5, <2>6 DEF Renewed
<1>4. CASE ~(watched[s] = op[o].me /\ left[s] > 0)
  <2>1. UNCHANGED left /\ (Goto(o, <<"unrow">>) \/ Stop(o))
        BY <1>4 DEF Patch, OnError, Stop
  <2>2. Alone(o) /\ ~At(o, "update")'
        BY <1>1, <2>1, Unrowing, Stopping DEF Inv, Gives
  <2>3. CASE faults < 4
    <3>1. \A t \in rows \ removed :
              ~switched /\ (t \in due \/ (Ahead(o, "patch") /\ s = t)) =>
                  t \in due' \/ (Ahead(o, "patch")' /\ op'[o].sub = t)
          BY <1>1, <1>4, <2>3, PatchSucceeds
    <3> QED BY <1>1, <2>1, <2>2, <3>1, QuietlyTimed
  <2>4. CASE ~(faults < 4)
    <3>1. Clocked'
          BY <1>1, <2>1, <2>2 DEF Clocked, Alone
    <3> QED BY <1>1, <2>4, <3>1 DEF Renewed
  <2> QED BY <2>3, <2>4
<1> QED BY <1>3, <1>4

\* A period takes its hours, and only the run that is due is still to come.
LEMMA AdvanceTimed ==
    ASSUME Inv, Inv', Clocked, Renewed, Advance
    PROVE  Clocked' /\ Renewed'
<1>1. /\ ~waiting /\ waiting' /\ due = {}
      /\ \A o \in Op : ~Busy(o)
      /\ left' = [s \in Sub |-> Later(left[s])]
      /\ until' = [s \in Sub |-> Later(until[s])]
      /\ UNCHANGED <<rows, removed, op, switched, faults>>
      BY DEF Advance, Idle
<1>2. \A o \in Op : op[o].todo = <<>>
      BY <1>1 DEF Busy
<1>3. \A o \in Op : \A x : ~Ahead(o, x) /\ ~At(o, x)'
  <2>1. DOMAIN <<>> = {}
        OBVIOUS
  <2> QED BY <1>1, <1>2, <2>1 DEF Ahead, At, Busy
<1>4. rows \subseteq Sub /\ left \in [Sub -> 0 .. Life] /\ faults \in Nat
      BY DEF Inv, Data, Subscribed
<1>5. Clocked'
  <2>1. until' \in [Sub -> Marks]
        BY <1>1 DEF Clocked, Marks, Later, Period
  <2>2. ASSUME NEW s \in rows' \ removed'
        PROVE  until'[s] <= left'[s]
    <3>1. s \in Sub /\ until[s] \in Marks /\ left[s] \in 0 .. Life /\ until[s] <= left[s]
          BY <1>1, <1>4, <2>2 DEF Clocked
    <3>2. Later(until[s]) <= Later(left[s])
          BY <3>1, LaterMarks
    <3> QED BY <1>1, <3>1, <3>2
  <2> QED BY <1>3, <2>1, <2>2 DEF Clocked
<1>6. ASSUME ~switched', faults' < 4, NEW s \in rows' \ removed'
      PROVE  Lasts(s)'
  <2>1. Lasts(s) /\ ~Pending(s)
        BY <1>1, <1>3, <1>6 DEF Renewed, Pending
  <2>2. left[s] \in 0 .. Life /\ left'[s] = Later(left[s]) /\ left[s] + 12 * faults >= 58
        BY <1>1, <1>4, <1>6, <2>1 DEF Lasts
  <2>3. left'[s] + 12 * faults' >= 46
        BY <1>1, <1>4, <1>6, <2>2 DEF Later, Period, Life
  <2> QED BY <1>1, <2>3 DEF Lasts
<1> QED BY <1>5, <1>6 DEF Renewed

\* The run renews what will not see the next but three.
LEMMA RunTimed ==
    ASSUME Inv, Inv', Clocked, Renewed, RunJob
    PROVE  Clocked' /\ Renewed'
<1>1. /\ waiting' = FALSE
      /\ due' = {s \in rows : until[s] < LookAhead}
      /\ UNCHANGED <<rows, removed, until, left, op, switched, faults>>
      BY DEF RunJob, tables, graph, ghosts
<1>2. rows \subseteq Sub /\ left \in [Sub -> 0 .. Life] /\ faults \in Nat
      BY DEF Inv, Data, Subscribed
<1>3. Clocked'
      BY <1>1 DEF Clocked, At, Busy
<1>4. ASSUME ~switched', faults' < 4, NEW s \in rows' \ removed'
      PROVE  Lasts(s)'
  <2>1. Lasts(s) /\ until[s] <= left[s] /\ until[s] \in Marks /\ left[s] \in 0 .. Life
        BY <1>1, <1>2, <1>4 DEF Renewed, Clocked
  <2>2. CASE until[s] < LookAhead
    <3>1. Pending(s)'
          BY <1>1, <1>4, <2>2 DEF Pending
    <3> QED BY <1>1, <2>1, <3>1 DEF Lasts
  <2>3. CASE ~(until[s] < LookAhead)
    <3>1. left[s] >= 58
          BY <2>1, <2>3, LaterMarks DEF Life, LookAhead, Marks
    <3> QED BY <1>1, <1>2, <2>1, <3>1 DEF Lasts
  <2> QED BY <2>2, <2>3
<1> QED BY <1>3, <1>4 DEF Renewed

\* What a missed run or a crash leaves undone is counted.
LEMMA MissedTimed ==
    ASSUME Inv, Inv', Clocked, Renewed, MissRun \/ Crash
    PROVE  Clocked' /\ Renewed'
<1>1. /\ faults' = faults + 1
      /\ UNCHANGED <<rows, removed, until, left, switched>>
      /\ op' = op \/ op' = [o \in Op |-> NoOp]
      BY DEF MissRun, Crash, Fault, tables, graph, ghosts
<1>2. rows \subseteq Sub /\ left \in [Sub -> 0 .. Life] /\ faults \in Nat
      BY DEF Inv, Data, Subscribed
<1>3. \A o \in Op : At(o, "update")' => At(o, "update") /\ op'[o] = op[o]
  <2>1. CASE op' = op
        BY <2>1 DEF At, Busy
  <2>2. CASE op' = [o \in Op |-> NoOp]
        BY <2>2 DEF At, Busy, NoOp
  <2> QED BY <1>1, <2>1, <2>2
<1>4. Clocked'
      BY <1>1, <1>3 DEF Clocked
<1>5. ASSUME ~switched', faults' < 4, NEW s \in rows' \ removed'
      PROVE  Lasts(s)'
  <2>1. Lasts(s) /\ left[s] \in Nat /\ left' = left
        BY <1>1, <1>2, <1>5 DEF Renewed, Life
  <2> QED BY <1>1, <1>2, <2>1 DEF Lasts
<1> QED BY <1>4, <1>5 DEF Renewed

-----------------------------------------------------------------------------
(* The second invariant, on top of the first.                              *)

Held == Kept /\ Single /\ OneAccount /\ Newborn /\ Clocked /\ Renewed

LEMMA HeldAtFirst == Init => Held
<1> SUFFICES ASSUME Init PROVE Held
    OBVIOUS
<1>1. /\ \A o \in Op : op[o].todo = <<>> /\ op[o].me = None
      /\ rows = {} /\ ~switched /\ linked.token = None /\ linked.account = None
      /\ watched = [s \in Sub |-> None] /\ left = [s \in Sub |-> 0]
      /\ until = [s \in Sub |-> 0]
      BY DEF Init, NoOp
<1>2. \A o \in Op : ~Busy(o) /\ \A x : ~At(o, x) /\ ~Ahead(o, x)
  <2>1. DOMAIN <<>> = {}
        OBVIOUS
  <2> QED BY <1>1, <2>1 DEF Busy, At, Ahead
<1>3. Kept
      BY <1>1, <1>2, Orders DEF Kept, Sound, Found, Departs
<1>4. Single /\ OneAccount /\ Newborn
      BY <1>1, <1>2 DEF Single, Works, OneAccount, Newborn
<1>5. Clocked /\ Renewed
      BY <1>1, <1>2 DEF Clocked, Marks, Renewed
<1> QED BY <1>3, <1>4, <1>5 DEF Held

LEMMA HeldStarts ==
    ASSUME Inv, Inv', Held, NEW o \in Op,
           \/ StartCreate(o) \/ StartRenew(o) \/ StartDelete(o) \/ StartCall(o)
           \/ StartHook(o) \/ StartLink(o) \/ StartDue(o)
    PROVE  Held'
<1>1. PICK k \in DOMAIN Steps, s \in Sub \cup {None} \cup due : Start(o, k, s)
      BY Starting
<1> QED BY <1>1, StartKept, StartSingle, StartAccount, StartNewborn, StartTimed DEF Held, Kept

LEMMA HeldToken ==
    ASSUME Inv, Inv', Held, NEW o \in Op, ReadToken(o)
    PROVE  Held'
<1>1. Kept' /\ Single'
      BY InnerKept, ReadTokenSingle DEF Held, Kept
<1>3. CASE linked.token = None
  <2>1. Throw(o)
        BY <1>3 DEF ReadToken
  <2>2. OneAccount' /\ Newborn' /\ Clocked' /\ Renewed'
        BY <1>3, <2>1, FailsAccount, FailsNewborn, MissingTimed DEF Held, Kept
  <2> QED BY <1>1, <2>2 DEF Held
<1>4. CASE linked.token # None
  <2>1. OneAccount' /\ Newborn' /\ Clocked' /\ Renewed'
        BY <1>4, TokenAccount, TokenNewborn, TokenTimed DEF Held, Kept
  <2> QED BY <1>1, <2>1 DEF Held
<1> QED BY <1>3, <1>4

LEMMA HeldFind ==
    ASSUME Inv, Inv', Held, NEW o \in Op, Find(o)
    PROVE  Held'
<1>1. Kept'
      BY InnerKept DEF Held
<1>2. CASE op[o].sub \in rows
  <2>1. Single' /\ OneAccount'
        BY <1>2, DoneSingle, DoneAccount DEF Held, Kept
  <2>2. Newborn' /\ Clocked' /\ Renewed'
        BY <1>2, DoneNewborn, DoneTimed DEF Held, Kept
  <2> QED BY <1>1, <2>1, <2>2 DEF Held
<1>3. CASE op[o].sub \notin rows
  <2>1. Single' /\ OneAccount'
        BY <1>3, MissingSingle, FailsAccount DEF Held, Kept
  <2>2. Newborn' /\ Clocked' /\ Renewed'
        BY <1>3, FailsNewborn, MissingTimed DEF Held, Kept
  <2> QED BY <1>1, <2>1, <2>2 DEF Held
<1> QED BY <1>2, <1>3

LEMMA HeldInside ==
    ASSUME Inv, Inv', Held, NEW o \in Op,
           Persist(o) \/ Exchange(o) \/ Upsert(o) \/ Lookup(o) \/ Known(o) \/ Update(o)
    PROVE  Held'
<1>1. Kept'
      BY InnerKept DEF Held
<1>2. Single'
      BY DoneSingle, ExchangeSingle, LookupSingle, KnownSingle DEF Held, Kept
<1>3. OneAccount'
      BY PersistAccount, UpsertAccount, TokenAccount, TableAccount, DoneAccount DEF Held, Kept
<1>4. Newborn'
      BY DoneNewborn, TokenNewborn, TableNewborn DEF Held, Kept
<1>5. Clocked' /\ Renewed'
      BY DoneTimed, TokenTimed, TableTimed, UpdateTimed DEF Held, Kept
<1> QED BY <1>1, <1>2, <1>3, <1>4, <1>5 DEF Held

LEMMA HeldRequests ==
    ASSUME Inv, Inv', Held, NEW o \in Op,
           Post(o) \/ PostUnanswered(o) \/ Patch(o) \/ Remove(o)
    PROVE  Held'
<1>1. Kept'
      BY PostKept, PatchKept, RemoveKept DEF Held
<1>2. Single'
      BY PostSingle, OtherSingle, RequestSingle DEF Held, Kept
<1>3. OneAccount'
      BY RequestAccount DEF Held, Kept
<1>4. Newborn'
      BY PostNewborn, RequestNewborn DEF Held, Kept
<1>5. Clocked' /\ Renewed'
      BY PostTimed, PatchTimed, RemoveTimed DEF Held, Kept
<1> QED BY <1>1, <1>2, <1>3, <1>4, <1>5 DEF Held

LEMMA HeldRows ==
    ASSUME Inv, Inv', Held, NEW o \in Op, Insert(o) \/ Unrow(o)
    PROVE  Held'
<1>1. Kept'
      BY InsertKept, UnrowKept DEF Held
<1>2. Single'
      BY InsertSingle, UnrowSingle DEF Held, Kept
<1>3. OneAccount' /\ Newborn'
      BY DoneAccount, DoneNewborn DEF Held, Kept
<1>4. Clocked' /\ Renewed'
      BY InsertTimed, UnrowTimed DEF Held, Kept
<1> QED BY <1>1, <1>2, <1>3, <1>4 DEF Held

LEMMA HeldFails ==
    ASSUME Inv, Inv', Held, NEW o \in Op, Fails(o)
    PROVE  Held'
BY FailsKept, OtherSingle, FailsAccount, FailsNewborn, FailsTimed DEF Held, Kept

LEMMA HeldOther ==
    ASSUME Inv, Inv', Held, Advance \/ RunJob \/ MissRun \/ Crash
    PROVE  Held'
BY TimeKept, OtherSingle, OtherAccount, OtherNewborn, AdvanceTimed, RunTimed, MissedTimed
   DEF Held, Kept

LEMMA HeldStays ==
    ASSUME Inv, Inv', Held, [Next]_vars
    PROVE  Held'
<1>1. CASE UNCHANGED vars
  <2>1. UNCHANGED <<linked, watched, rows, due, removed, strays, left, until, waiting, op,
                    overlapped, switched, faults>>
        BY <1>1 DEF vars, tables, graph, time, ghosts
  <2>2. /\ \A o \in Op : \A x : (At(o, x)' <=> At(o, x)) /\ (Ahead(o, x)' <=> Ahead(o, x))
        /\ \A o \in Op : Busy(o)' <=> Busy(o)
        BY <2>1 DEF At, Ahead, Busy
  <2>3. Kept'
        BY <2>1, <2>2 DEF Held, Kept, Sound, Found, Departs
  <2>4. Single' /\ OneAccount' /\ Newborn'
        BY <2>1, <2>2 DEF Held, Single, Works, OneAccount, Newborn
  <2>5. Clocked' /\ Renewed'
        BY <2>1, <2>2 DEF Held, Clocked, Renewed, Lasts, Pending
  <2> QED BY <2>3, <2>4, <2>5 DEF Held
<1>2. CASE Next
      BY <1>2, HeldStarts, HeldToken, HeldFind, HeldInside, HeldRequests, HeldRows, HeldFails,
         HeldOther DEF Next
<1> QED BY <1>1, <1>2

-----------------------------------------------------------------------------
(* The theorems.                                                           *)

LEMMA Invariance == Spec => [](Inv /\ Held)
<1>1. Init => Inv
  <2> SUFFICES ASSUME Init PROVE Inv
      OBVIOUS
  <2>1. Data
    <3>1. 0 \in 0 .. MaxLinks /\ 0 \in 0 .. MaxFaults
        BY MicrosoftCalendarAssumption
    <3>2. /\ watched \in [Sub -> Account \cup {None}]
          /\ left \in [Sub -> 0 .. Life] /\ until \in [Sub -> 0 .. Life]
        BY Arithmetic DEF Init
    <3>3. linked \in [account : Account \cup {None}, token : Account \cup {None}]
        BY DEF Init
    <3>4. rows \cup due \cup removed \cup strays = {}
        BY DEF Init
    <3> QED BY <3>1, <3>2, <3>3, <3>4 DEF Init, Data
  <2>2. Operations
      BY NoOpReady DEF Init, Operations
  <2>3. TokenOfItsAccount
      BY DEF Init, TokenOfItsAccount
  <2> QED BY <2>1, <2>2, <2>3 DEF Inv
<1>2. Init => Held
      BY HeldAtFirst
<1>3. Inv /\ [Next]_vars => Inv'
      BY Stays
<1>4. (Inv /\ Held) /\ [Next]_vars => (Inv /\ Held)'
      BY <1>3, HeldStays
<1> QED BY <1>1, <1>2, <1>4, PTL DEF Spec

\* Whatever fails, a request to Graph has a token and, where it is about a
\* subscription, one that Graph made.
THEOREM TypeCorrect == Spec => []TypeOK
BY Invariance, InvType, PTL

\* Of getAccessToken and completeOAuth: only an operation that holds the token
\* of one account while another is linked makes the row name one account and
\* hold the token of another.
THEOREM TokenIsOfTheAccount == Spec => []TokenOfItsAccount
<1>1. Inv => TokenOfItsAccount
      BY DEF Inv
<1> QED BY <1>1, Invariance, PTL

\* Of createEventsSubscription, deleteSubscription and renewSubscription: a
\* subscription Graph keeps reporting for is in the table, or between the
\* request and the row, unless a request failed there or was another account's.
THEOREM OrphansArePaidFor == Spec => []OrphansPaidFor
<1>1. Inv /\ Held => OrphansPaidFor
  <2> SUFFICES ASSUME Held, NEW s \in Sub \ (rows \cup strays), left[s] > 0
               PROVE  \E o \in Op : Busy(o) /\ op[o].sub = s
      BY DEF OrphansPaidFor
  <2>1. \E o \in Op : At(o, "insert") /\ op[o].sub = s
        BY DEF Held, Kept, Found
  <2> QED BY <2>1 DEF At
<1> QED BY <1>1, Invariance, PTL

\* Of createEventsSubscription: the look at the table and the row it adds are
\* apart, and only what overlaps there, or a row that could not be deleted,
\* gives the user a second one.
THEOREM SecondRowsOverlap == Spec => []DuplicatesOverlap
<1>1. Inv /\ Held => DuplicatesOverlap
  <2> SUFFICES ASSUME Inv, Held, ~overlapped, ~(faults > 0)
               PROVE  ~(Cardinality(rows) > 1)
      BY DEF DuplicatesOverlap
  <2>1. faults = 0
        BY DEF Inv, Data
  <2>2. \A s, t \in rows : s = t
        BY <2>1 DEF Held, Single
  <2>3. CASE rows = {}
        BY <2>3, FS_EmptySet
  <2>4. ASSUME NEW s \in rows
        PROVE  ~(Cardinality(rows) > 1)
    <3>1. rows = {s}
          BY <2>2
    <3>2. Cardinality({s}) = 1
          BY FS_Singleton
    <3> QED BY <3>1, <3>2
  <2> QED BY <2>3, <2>4
<1> QED BY <1>1, Invariance, PTL

\* Of runGraphSubscriptionRenewalJob: forty-eight hours ahead, and twelve apart,
\* its runs keep alive what is in the table through any three failures, unless
\* the user changes accounts or deletes it.
THEOREM RenewalsAreInTime == Spec => []RenewedInTime
<1>1. Inv /\ Held => RenewedInTime
  <2> SUFFICES ASSUME Inv, Held, ~switched, faults < 4, NEW s \in rows \ removed
               PROVE  left[s] > 0
      BY DEF RenewedInTime
  <2>1. left[s] + 12 * faults >= 46
        BY DEF Held, Renewed, Lasts
  <2>2. left[s] \in 0 .. Life /\ faults \in 0 .. 3
        BY DEF Inv, Data, Subscribed
  <2> QED BY <2>1, <2>2 DEF Life
<1> QED BY <1>1, Invariance, PTL
=============================================================================
