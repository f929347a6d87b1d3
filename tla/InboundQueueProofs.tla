-------------------------- MODULE InboundQueueProofs --------------------------
(***************************************************************************)
(* For any number of messages, POSTs, crashes and refused queries: the     *)
(* types, that no row of the queue is ever in two hands, that a message is *)
(* handled again only on account of a crash or a refused query, once for   *)
(* each, and that one of these costs no message.                           *)
(***************************************************************************)
EXTENDS InboundQueue, FiniteSetTheorems, TLAPS

USE InboundQueueAssumption

-----------------------------------------------------------------------------
(* Types.                                                                  *)

\* fallbackSeen stays a sequence of ids within its limit.
LEMMA RememberType ==
    ASSUME NEW s \in Seq(Msg), Len(s) <= FallbackCap, NEW m \in Msg
    PROVE  Remember(s, m) \in Seq(Msg) /\ Len(Remember(s, m)) <= FallbackCap
<1>1. CASE Len(s) < FallbackCap
      BY <1>1 DEF Remember
<1>2. CASE ~(Len(s) < FallbackCap)
  <2>1. s # <<>> /\ Tail(s) \in Seq(Msg) /\ Len(Tail(s)) = Len(s) - 1
        BY <1>2
  <2>2. Append(Tail(s), m) \in Seq(Msg) /\ Len(Append(Tail(s), m)) = Len(s)
        BY <2>1
  <2> QED BY <1>2, <2>2 DEF Remember
<1> QED BY <1>1, <1>2

LEMMA InitType == Init => TypeOK
BY DEF Init, TypeOK, Status, Pc, Item, NoItem

\* No step of a POST, a sweep, time or a crash breaks the types.
LEMMA NextType == TypeOK /\ [Next]_vars => TypeOK'
<1> SUFFICES ASSUME TypeOK, [Next]_vars PROVE TypeOK'
    OBVIOUS
<1> USE DEF TypeOK
<1>0. /\ "idle" \in Pc /\ "process" \in Pc /\ "enqueue" \in Pc
      /\ "handled" \in Pc /\ "threw" \in Pc /\ "boot" \in Pc
      /\ \A items : Loop(items) \in Pc
      /\ {"absent", "pending", "processing", "done", "failed"} = Status
      /\ Post \subseteq Worker /\ Sweep \subseteq Worker
      BY DEF Pc, Loop, Status, Worker
<1>01. ASSUME NEW m \in Msg PROVE RowItem(m) \in Item /\ FallbackItem(m) \in Item
      BY DEF RowItem, FallbackItem, Item
<1>1. CASE UNCHANGED vars
      BY <1>1 DEF vars
<1>2. ASSUME NEW p \in Post, PostMeta(p) \/ PostGreen(p) PROVE TypeOK'
  <2>1. PICK ms \in SUBSET Msg : Receive(p, ms)
        BY <1>2 DEF PostMeta, PostGreen
  <2> QED BY <1>0, <2>1 DEF Receive
<1>3. ASSUME NEW p \in Post, DropLate(p) PROVE TypeOK'
      BY <1>3 DEF DropLate
<1>4. ASSUME NEW p \in Post, Enqueue(p) PROVE TypeOK'
  <2>1. PICK m \in unread[p] :
           /\ unread' = [unread EXCEPT ![p] = @ \ {m}]
           /\ \/ /\ status' = [status EXCEPT ![m] = "pending"]
                 /\ todo' = [todo EXCEPT ![p] = @ \cup {RowItem(m)}]
              \/ UNCHANGED <<status, todo>>
        BY <1>4 DEF Enqueue
  <2>2. m \in Msg /\ p \in Worker
        BY <1>0
  <2>3. status' \in [Msg -> Status] /\ unread' \in [Post -> SUBSET Msg]
        BY <1>0, <2>1, <2>2
  <2>4. todo' \in [Worker -> SUBSET Item]
        BY <1>01, <2>1, <2>2
  <2> QED BY <1>4, <2>3, <2>4 DEF Enqueue
<1>5. ASSUME NEW p \in Post, EnqueueFails(p) PROVE TypeOK'
  <2>1. PICK m \in unread[p] :
           /\ unread' = [unread EXCEPT ![p] = @ \ {m}]
           /\ \/ UNCHANGED <<seen, todo>>
              \/ /\ seen' = seen \/ seen' = Remember(seen, m)
                 /\ todo' = [todo EXCEPT ![p] = @ \cup {FallbackItem(m)}]
        BY <1>5 DEF EnqueueFails
  <2>2. m \in Msg /\ p \in Worker
        BY <1>0
  <2>3. seen' \in Seq(Msg) /\ Len(seen') <= FallbackCap
        BY <2>1, <2>2, RememberType
  <2>4. todo[p] \cup {FallbackItem(m)} \in SUBSET Item
        BY <1>01, <2>2
  <2>5. todo' \in [Worker -> SUBSET Item]
        BY <2>1, <2>2, <2>4
  <2>6. unread' \in [Post -> SUBSET Msg]
        BY <2>1
  <2> QED BY <1>5, <2>3, <2>5, <2>6 DEF EnqueueFails
<1>6. ASSUME NEW p \in Post, Ack(p) PROVE TypeOK'
      BY <1>0, <1>6 DEF Ack
<1>7. ASSUME NEW w \in Worker, Handle(w) PROVE TypeOK'
      BY <1>0, <1>7 DEF Handle, Item
<1>8. ASSUME NEW w \in Worker, NEW verdict \in {"done", "failed"}, Settle(w, verdict)
      PROVE  TypeOK'
      BY <1>0, <1>8 DEF Settle, Item, NoItem
<1>9. ASSUME NEW w \in Worker, WorkerFault(w) PROVE TypeOK'
  <2>1. CASE MarkDoneFails(w)
        BY <1>0, <2>1 DEF MarkDoneFails
  <2>2. CASE MarkFailedFails(w)
        BY <1>0, <2>2 DEF MarkFailedFails
  <2> QED BY <1>9, <2>1, <2>2 DEF WorkerFault
<1>10. ASSUME NEW s \in Sweep, Claim(s) PROVE TypeOK'
  <2>1. PICK ms \in SUBSET Eligible :
           /\ status' = [m \in Msg |-> IF m \in ms THEN "processing" ELSE status[m]]
           /\ todo' = [todo EXCEPT ![s] = {RowItem(m) : m \in ms}]
        BY <1>10 DEF Claim
  <2>2. ms \subseteq Msg /\ s \in Worker
        BY <1>0 DEF Eligible
  <2>3. {RowItem(m) : m \in ms} \subseteq Item
        BY <1>01, <2>2
  <2>4. status' \in [Msg -> Status]
        BY <1>0, <2>1
  <2>5. todo' \in [Worker -> SUBSET Item]
        BY <2>1, <2>2, <2>3
  <2> QED BY <1>0, <1>10, <2>2, <2>4, <2>5 DEF Claim
<1>11. ASSUME NEW s \in Sweep, ClaimFails(s) PROVE TypeOK'
      BY <1>0, <1>11 DEF ClaimFails
<1>12. ASSUME NEW m \in Msg, Age(m) PROVE TypeOK'
      BY <1>12 DEF Age
<1>13. CASE Crash
      BY <1>0, <1>13 DEF Crash, NoItem
<1> QED BY <1>1, <1>2, <1>3, <1>4, <1>5, <1>6, <1>7, <1>8, <1>9, <1>10, <1>11,
           <1>12, <1>13
           DEF Next, WorkerStep, MarkDone, MarkFailed

\* Every variable keeps its type, and fallbackSeen its limit.
THEOREM TypeCorrect == Spec => []TypeOK
BY InitType, NextType, PTL DEF Spec

-----------------------------------------------------------------------------
(* One owner per row.                                                      *)

\* What a worker that holds a row knows: a POST holds it only while it is
\* pending and young, a sweep only once it has claimed it, and what a worker
\* is processing is no longer on its list.
Owned(w) ==
    \A m \in Msg : Holds(w, RowItem(m)) =>
        /\ w \in Post => status[m] = "pending" /\ m \notin old
        /\ w \in Sweep => status[m] = "processing"
        /\ ~(item[w] = RowItem(m) /\ RowItem(m) \in todo[w])

OInv ==
    /\ TypeOK
    /\ \A m \in old : status[m] # "absent"
    /\ \A w \in Worker : Owned(w)
    /\ SingleOwner

\* Items of different messages, of rows and of none, are told apart.
LEMMA Items ==
    /\ \A m, n : RowItem(m) = RowItem(n) => m = n
    /\ \A m, n : RowItem(m) # FallbackItem(n)
    /\ \A m : RowItem(m) # NoItem
    /\ \A m \in Msg : FallbackItem(m) # NoItem
    /\ \A it \in Item : ~it.fallback => it = RowItem(it.msg)
    /\ \A m : ~RowItem(m).fallback /\ RowItem(m).msg = m
BY DEF RowItem, FallbackItem, NoItem, Item

\* A step after which every worker holds at most what it held, on rows that
\* have not changed, keeps the invariant.
LEMMA KeepsOwned ==
    ASSUME OInv, TypeOK',
           UNCHANGED <<status, old>>,
           \A w \in Worker, m \in Msg :
              Holds(w, RowItem(m))' =>
                 /\ Holds(w, RowItem(m))
                 /\ ~(item'[w] = RowItem(m) /\ RowItem(m) \in todo'[w])
    PROVE  OInv'
BY DEF OInv, Owned, SingleOwner

LEMMA InitOwned == Init => OInv
BY InitType, Items DEF Init, OInv, Owned, SingleOwner, Holds, Worker

\* The INSERT gives the row to one POST: it was held by nobody, being absent.
LEMMA EnqueueOwned ==
    ASSUME OInv, TypeOK', NEW p \in Post, Enqueue(p)
    PROVE  OInv'
<1>1. PICK m \in unread[p] :
         IF status[m] = "absent"
         THEN /\ status' = [status EXCEPT ![m] = "pending"]
              /\ todo' = [todo EXCEPT ![p] = @ \cup {RowItem(m)}]
         ELSE UNCHANGED <<status, todo>>
      BY DEF Enqueue
<1>2. m \in Msg /\ p \in Worker /\ UNCHANGED <<old, item>>
      BY DEF Enqueue, OInv, TypeOK, Worker
<1>3. CASE status[m] # "absent"
      BY <1>1, <1>2, <1>3, KeepsOwned DEF Holds, OInv, Owned
<1>4. CASE status[m] = "absent"
  <2>1. \A w \in Worker : ~Holds(w, RowItem(m))
        BY <1>2, <1>4 DEF OInv, Owned, Worker
  <2>2. /\ status' = [status EXCEPT ![m] = "pending"]
        /\ todo' = [todo EXCEPT ![p] = @ \cup {RowItem(m)}]
        BY <1>1, <1>4
  <2>3. \A w \in Worker, n \in Msg :
           Holds(w, RowItem(n))' <=> Holds(w, RowItem(n)) \/ (w = p /\ n = m)
        BY <1>2, <2>2, Items DEF Holds, OInv, TypeOK
  <2>4. \A n \in old' : status'[n] # "absent"
        BY <1>2, <2>2 DEF OInv, TypeOK
  <2>5. ASSUME NEW w \in Worker PROVE Owned(w)'
    <3> SUFFICES ASSUME NEW n \in Msg, Holds(w, RowItem(n))'
                 PROVE  /\ w \in Post => status'[n] = "pending" /\ n \notin old'
                        /\ w \in Sweep => status'[n] = "processing"
                        /\ ~(item'[w] = RowItem(n) /\ RowItem(n) \in todo'[w])
        BY DEF Owned
    <3>1. CASE n = m
      <4>1. w = p /\ w \notin Sweep /\ m \notin old
            BY <1>4, <2>1, <2>3, <3>1 DEF OInv, Sweep
      <4>2. item'[w] # RowItem(n)
            BY <1>2, <2>1, <3>1, <4>1 DEF Holds
      <4> QED BY <1>2, <2>2, <3>1, <4>1, <4>2 DEF OInv, TypeOK
    <3>2. CASE n # m
      <4>1. Holds(w, RowItem(n)) /\ status'[n] = status[n]
            BY <2>2, <2>3, <3>2 DEF OInv, TypeOK
      <4>2. RowItem(n) \in todo'[w] => RowItem(n) \in todo[w]
            BY <2>2, <3>2, Items DEF OInv, TypeOK
      <4> QED BY <1>2, <4>1, <4>2 DEF OInv, Owned
    <3> QED BY <3>1, <3>2
  <2>6. SingleOwner'
        BY <2>1, <2>3 DEF OInv, SingleOwner
  <2> QED BY <2>4, <2>5, <2>6 DEF OInv
<1> QED BY <1>3, <1>4

\* The verdict is recorded on the row by the one worker that holds it.
LEMMA SettleOwned ==
    ASSUME OInv, TypeOK', NEW w \in Worker, NEW verdict \in {"done", "failed"},
           Settle(w, verdict)
    PROVE  OInv'
<1>1. /\ item' = [item EXCEPT ![w] = NoItem]
      /\ UNCHANGED <<old, todo>>
      /\ status' = IF item[w].fallback THEN status
                   ELSE [status EXCEPT ![item[w].msg] = verdict]
      BY DEF Settle
<1>2. \A v \in Worker, m \in Msg : Holds(v, RowItem(m))' =>
         /\ Holds(v, RowItem(m))
         /\ item'[v] # RowItem(m) \/ (v # w /\ item'[v] = item[v])
      BY <1>1, Items DEF Holds, OInv, TypeOK
<1>3. CASE item[w].fallback
      BY <1>1, <1>2, <1>3, KeepsOwned DEF Holds, OInv, Owned
<1>4. CASE ~item[w].fallback
  <2>0. PICK n \in Msg : n = item[w].msg
        BY <1>4 DEF OInv, TypeOK, NoItem, Item
  <2>1. item[w] = RowItem(n) /\ Holds(w, RowItem(n))
        BY <1>4, <2>0, Items DEF OInv, TypeOK, NoItem, Item, Holds
  <2>2. \A v \in Worker : ~Holds(v, RowItem(n))'
    <3>1. \A v \in Worker \ {w} : ~Holds(v, RowItem(n))
          BY <2>1 DEF OInv, SingleOwner
    <3>2. RowItem(n) \notin todo[w] /\ item'[w] # RowItem(n)
          BY <1>1, <2>1, Items DEF OInv, Owned, TypeOK
    <3> SUFFICES ASSUME NEW v \in Worker, Holds(v, RowItem(n))' PROVE FALSE
        OBVIOUS
    <3>3. v = w
          BY <1>2, <2>1, <3>1
    <3> QED BY <1>1, <3>2, <3>3 DEF Holds
  <2>3. \A m \in Msg : m # n => status'[m] = status[m]
        BY <1>1, <1>4, <2>0 DEF OInv, TypeOK
  <2>4. \A m \in old' : status'[m] # "absent"
        BY <1>1, <1>4, <2>0 DEF OInv, TypeOK
  <2>5. \A v \in Worker : Owned(v)'
    <3> SUFFICES ASSUME NEW v \in Worker, NEW m \in Msg, Holds(v, RowItem(m))'
                 PROVE  /\ v \in Post => status'[m] = "pending" /\ m \notin old'
                        /\ v \in Sweep => status'[m] = "processing"
                        /\ ~(item'[v] = RowItem(m) /\ RowItem(m) \in todo'[v])
        BY DEF Owned
    <3>1. m # n /\ status'[m] = status[m]
          BY <2>2, <2>3
    <3>2. Holds(v, RowItem(m)) /\ (item'[v] # RowItem(m) \/ item'[v] = item[v])
          BY <1>2
    <3> QED BY <1>1, <3>1, <3>2 DEF OInv, Owned
  <2>6. SingleOwner'
        BY <1>2 DEF OInv, SingleOwner
  <2> QED BY <2>4, <2>5, <2>6 DEF OInv
<1> QED BY <1>3, <1>4

\* A sweep claims old pending rows, which no POST holds any more and no sweep
\* has held since they were pending.
LEMMA ClaimOwned ==
    ASSUME OInv, TypeOK', NEW s \in Sweep, Claim(s)
    PROVE  OInv'
<1>1. PICK ms \in SUBSET Eligible :
         /\ status' = [m \in Msg |-> IF m \in ms THEN "processing" ELSE status[m]]
         /\ todo' = [todo EXCEPT ![s] = {RowItem(m) : m \in ms}]
      BY DEF Claim
<1>2. UNCHANGED <<old, item>> /\ s \in Worker /\ s \notin Post
      BY InboundQueueAssumption DEF Claim, Worker, Sweep
<1>3. \A m \in ms : m \in Msg /\ m \in old /\ status[m] = "pending"
      BY DEF Eligible, OInv, TypeOK
<1>4. \A w \in Worker, m \in ms : ~Holds(w, RowItem(m))
      BY <1>3 DEF OInv, Owned, Worker
<1>5. \A w \in Worker, m \in Msg : Holds(w, RowItem(m))' =>
         \/ m \notin ms /\ Holds(w, RowItem(m))
         \/ m \in ms /\ w = s
      BY <1>1, <1>2, <1>4, Items DEF Holds, OInv, TypeOK
<1>6. \A m \in old' : status'[m] # "absent"
      BY <1>1, <1>2 DEF OInv, TypeOK
<1>7. ASSUME NEW w \in Worker PROVE Owned(w)'
  <2> SUFFICES ASSUME NEW m \in Msg, Holds(w, RowItem(m))'
               PROVE  /\ w \in Post => status'[m] = "pending" /\ m \notin old'
                      /\ w \in Sweep => status'[m] = "processing"
                      /\ ~(item'[w] = RowItem(m) /\ RowItem(m) \in todo'[w])
      BY DEF Owned
  <2>1. CASE m \in ms
    <3>1. w = s /\ item'[w] # RowItem(m)
          BY <1>2, <1>4, <1>5, <2>1 DEF Holds
    <3> QED BY <1>1, <1>2, <2>1, <3>1
  <2>2. CASE m \notin ms
    <3>1. Holds(w, RowItem(m)) /\ status'[m] = status[m]
          BY <1>1, <1>5, <2>2
    <3>2. RowItem(m) \in todo'[w] => RowItem(m) \in todo[w]
          BY <1>1, <1>2, <2>2, Items DEF OInv, TypeOK
    <3> QED BY <1>2, <3>1, <3>2 DEF OInv, Owned
  <2> QED BY <2>1, <2>2
<1>8. SingleOwner'
      BY <1>5 DEF OInv, SingleOwner
<1> QED BY <1>6, <1>7, <1>8 DEF OInv

\* No step gives a row to a second worker, as long as a POST is done with its
\* rows before they are old.
LEMMA NextOwned ==
    ASSUME PromptHandlers, OInv, [Next]_vars
    PROVE  OInv'
<1>1. TypeOK'
      BY NextType DEF OInv
<1>2. CASE UNCHANGED vars
      BY <1>1, <1>2, KeepsOwned DEF vars, Holds, OInv, Owned
<1>3. ASSUME NEW p \in Post,
             PostMeta(p) \/ PostGreen(p) \/ DropLate(p) \/ Ack(p)
      PROVE  OInv'
      BY <1>1, <1>3, KeepsOwned
         DEF PostMeta, PostGreen, Receive, DropLate, Ack, Holds, OInv, Owned
<1>4. ASSUME NEW p \in Post, EnqueueFails(p) PROVE OInv'
  <2>1. UNCHANGED <<status, old, item>> /\ p \in Worker
        BY <1>4 DEF EnqueueFails, Worker
  <2>2. \A w \in Worker, m \in Msg : RowItem(m) \in todo'[w] => RowItem(m) \in todo[w]
    <3>1. PICK m \in unread[p] :
             todo' = todo \/ todo' = [todo EXCEPT ![p] = @ \cup {FallbackItem(m)}]
          BY <1>4 DEF EnqueueFails
    <3>2. \A n \in Msg : RowItem(n) # FallbackItem(m)
          BY Items
    <3>3. todo \in [Worker -> SUBSET Item]
          BY DEF OInv, TypeOK
    <3> QED BY <2>1, <3>1, <3>2, <3>3
  <2> QED BY <1>1, <2>1, <2>2, KeepsOwned DEF Holds, OInv, Owned
<1>5. ASSUME NEW w \in Worker, Handle(w) PROVE OInv'
  <2>1. PICK it \in todo[w] : item' = [item EXCEPT ![w] = it]
                              /\ todo' = [todo EXCEPT ![w] = @ \ {it}]
        BY <1>5 DEF Handle
  <2>2. UNCHANGED <<status, old>>
        BY <1>5 DEF Handle
  <2>3. ASSUME NEW v \in Worker, NEW m \in Msg, Holds(v, RowItem(m))'
        PROVE  Holds(v, RowItem(m)) /\ ~(item'[v] = RowItem(m) /\ RowItem(m) \in todo'[v])
    <3>1. CASE v = w
          BY <2>1, <2>3, <3>1 DEF Holds, OInv, TypeOK
    <3>2. CASE v # w
          BY <2>1, <2>3, <3>2 DEF Holds, OInv, TypeOK, Owned
    <3> QED BY <3>1, <3>2
  <2> QED BY <1>1, <2>2, <2>3, KeepsOwned
<1>6. ASSUME NEW w \in Worker, WorkerFault(w) PROVE OInv'
  <2>1. UNCHANGED <<status, old, todo>>
        /\ (item' = item \/ item' = [item EXCEPT ![w] = NoItem])
        BY <1>6 DEF WorkerFault, MarkDoneFails, MarkFailedFails
  <2> QED BY <1>1, <2>1, KeepsOwned, Items DEF Holds, OInv, Owned, TypeOK
<1>7. ASSUME NEW s \in Sweep, ClaimFails(s) PROVE OInv'
      BY <1>1, <1>7, KeepsOwned DEF ClaimFails, Holds, OInv, Owned
<1>8. ASSUME NEW m \in Msg, Age(m) PROVE OInv'
  <2>1. /\ status[m] = "pending" /\ old' = old \cup {m}
        /\ UNCHANGED <<status, todo, item>>
        /\ \A p \in Post : ~Holds(p, RowItem(m))
        BY <1>8 DEF Age
  <2>2. \A w \in Worker : Owned(w)'
        BY <2>1 DEF OInv, Owned, Holds
  <2> QED BY <1>1, <2>1, <2>2 DEF OInv, SingleOwner, Holds
<1>9. CASE Crash
  <2>1. \A w \in Worker, m \in Msg : ~Holds(w, RowItem(m))'
        BY <1>9, Items DEF Crash, Holds
  <2> QED BY <1>1, <1>9, <2>1, KeepsOwned DEF Crash
<1> QED BY <1>1, <1>2, <1>3, <1>4, <1>5, <1>6, <1>7, <1>8, <1>9,
           EnqueueOwned, SettleOwned, ClaimOwned
           DEF Next, WorkerStep, MarkDone, MarkFailed

\* While every POST is done with its rows within 60 seconds, no row is ever in
\* two hands, however many POSTs and crashes there are.
THEOREM OneOwner == ASSUME PromptHandlers PROVE Spec => []SingleOwner
<1>1. OInv /\ [Next]_vars => OInv'
      BY NextOwned
<1>2. OInv => SingleOwner
      BY DEF OInv
<1> QED BY <1>1, <1>2, InitOwned, PTL DEF Spec

-----------------------------------------------------------------------------
(* Repetitions.                                                            *)

\* Workers that are to run a message although it could not be written.
Copies(m) == {w \in Worker : FallbackItem(m) \in todo[w]}

\* The row of a message is to be run once more, if nothing fails.
Due(m) ==
    \/ status[m] = "absent"
    \/ status[m] = "pending" /\ \A w \in Worker : item[w] # RowItem(m)
    \/ status[m] = "processing" /\ \E w \in Worker : RowItem(m) \in todo[w]

\* The runs of a message, those that are to come included, and what pays.
Once(m)  == IF Due(m) THEN 1 ELSE 0
Runs(m)  == ran[m] + Once(m) + Cardinality(Copies(m))
Failures == crashes + faults

Counted(m) == IsFiniteSet(Copies(m)) /\ Runs(m) <= 1 + Failures

\* A worker has an item in hand only between its run and its verdict.
Between == \A w \in Worker : pc[w] \notin {"handled", "threw"} => item[w] = NoItem

RInv == OInv /\ Between /\ \A m \in Msg : Counted(m)

\* A set that is at most what it was.
LEMMA AtMost ==
    ASSUME NEW S, NEW T, IsFiniteSet(S), T \subseteq S
    PROVE  IsFiniteSet(T) /\ Cardinality(T) <= Cardinality(S)
           /\ Cardinality(T) \in Nat /\ Cardinality(S) \in Nat
BY FS_Subset, FS_CardinalityType

\* A set that gains one member.
LEMMA OneMore ==
    ASSUME NEW S, NEW T, NEW x, IsFiniteSet(S), T \subseteq S \cup {x}
    PROVE  IsFiniteSet(T) /\ Cardinality(T) <= Cardinality(S) + 1
           /\ Cardinality(T) \in Nat /\ Cardinality(S) \in Nat
<1>1. /\ IsFiniteSet(S \cup {x})
      /\ Cardinality(S \cup {x}) = IF x \in S THEN Cardinality(S) ELSE Cardinality(S) + 1
      BY FS_AddElement
<1>2. Cardinality(S) \in Nat
      BY FS_CardinalityType
<1>3. Cardinality(S \cup {x}) <= Cardinality(S) + 1
      BY <1>1, <1>2
<1> QED BY <1>1, <1>2, <1>3, AtMost

\* A set that loses one member.
LEMMA OneLess ==
    ASSUME NEW S, NEW T, NEW x \in S, IsFiniteSet(S), T \subseteq S \ {x}
    PROVE  IsFiniteSet(T) /\ Cardinality(T) <= Cardinality(S) - 1
           /\ Cardinality(T) \in Nat /\ Cardinality(S) \in Nat
<1>1. IsFiniteSet(S \ {x}) /\ Cardinality(S \ {x}) = Cardinality(S) - 1
      /\ Cardinality(S) \in Nat
      BY FS_RemoveElement, FS_CardinalityType
<1> QED BY <1>1, AtMost

\* What is added up are natural numbers.
LEMMA Numbers ==
    ASSUME TypeOK, NEW m \in Msg
    PROVE  ran[m] \in Nat /\ Failures \in Nat /\ Once(m) \in {0, 1}
           /\ (Due(m) <=> Once(m) = 1)
BY DEF TypeOK, Failures, Once

\* ... after a step too.
LEMMA FailuresNext == TypeOK' => Failures' \in Nat
<1>1. \A a, b \in Nat : a + b \in Nat
      OBVIOUS
<1>2. TypeOK' => crashes' \in Nat /\ faults' \in Nat
      BY DEF TypeOK
<1> QED BY <1>1, <1>2, Zenon DEF Failures

\* A step that runs nothing and promises nothing.
LEMMA NothingRuns ==
    ASSUME NEW m \in Msg, RInv, TypeOK', ran'[m] = ran[m],
           Copies(m)' \subseteq Copies(m), Due(m)' => Due(m),
           Failures' >= Failures
    PROVE  Counted(m)'
<1>1. /\ IsFiniteSet(Copies(m)')
      /\ Cardinality(Copies(m)') <= Cardinality(Copies(m))
      /\ Cardinality(Copies(m)') \in Nat /\ Cardinality(Copies(m)) \in Nat
      BY AtMost DEF RInv, Counted
<1>2. /\ ran[m] \in Nat /\ Failures \in Nat /\ Once(m) \in {0, 1}
      /\ Once(m)' \in {0, 1}
      BY Numbers DEF RInv, OInv, TypeOK, Failures, Once
<1>3. Runs(m) <= 1 + Failures
      BY DEF RInv, Counted
<1>4. Failures' \in Nat
      BY FailuresNext
<1>5. Once(m)' <= Once(m)
      BY DEF Once
<1> QED BY <1>1, <1>2, <1>3, <1>4, <1>5 DEF Counted, Runs

\* A failure: a row that was in work is due again, or a message that could
\* not be written is to be run without its row.
LEMMA FailurePays ==
    ASSUME NEW m \in Msg, RInv, TypeOK', ran'[m] = ran[m], NEW w,
           Failures' = Failures + 1,
           \/ Copies(m)' \subseteq Copies(m)
           \/ Copies(m)' \subseteq Copies(m) \cup {w} /\ (Due(m)' => Due(m))
    PROVE  Counted(m)'
<1>1. IsFiniteSet(Copies(m))
      BY DEF RInv, Counted
<1>2. /\ ran[m] \in Nat /\ Failures \in Nat /\ Once(m) \in {0, 1}
      /\ Once(m)' \in {0, 1}
      BY Numbers DEF RInv, OInv, TypeOK, Failures, Once
<1>3. Runs(m) <= 1 + Failures
      BY DEF RInv, Counted
<1>4. CASE Copies(m)' \subseteq Copies(m)
  <2>1. /\ IsFiniteSet(Copies(m)')
        /\ Cardinality(Copies(m)') <= Cardinality(Copies(m))
        /\ Cardinality(Copies(m)') \in Nat /\ Cardinality(Copies(m)) \in Nat
        BY <1>1, <1>4, AtMost
  <2> QED BY <1>2, <1>3, <2>1 DEF Counted, Runs
<1>5. CASE Copies(m)' \subseteq Copies(m) \cup {w} /\ (Due(m)' => Due(m))
  <2>1. /\ IsFiniteSet(Copies(m)')
        /\ Cardinality(Copies(m)') <= Cardinality(Copies(m)) + 1
        /\ Cardinality(Copies(m)') \in Nat /\ Cardinality(Copies(m)) \in Nat
        BY <1>1, <1>5, OneMore
  <2>2. Once(m)' <= Once(m)
        BY <1>5 DEF Once
  <2> QED BY <1>2, <1>3, <2>1, <2>2 DEF Counted, Runs
<1> QED BY <1>4, <1>5

\* A run was due, or to come without its row.
LEMMA RunWasDue ==
    ASSUME NEW m \in Msg, RInv, TypeOK', ran'[m] = ran[m] + 1, NEW w,
           Failures' = Failures,
           \/ Due(m) /\ ~Due(m)' /\ Copies(m)' \subseteq Copies(m)
           \/ /\ w \in Copies(m) /\ Copies(m)' \subseteq Copies(m) \ {w}
              /\ Due(m)' => Due(m)
    PROVE  Counted(m)'
<1>1. IsFiniteSet(Copies(m))
      BY DEF RInv, Counted
<1>2. /\ ran[m] \in Nat /\ Failures \in Nat /\ Once(m) \in {0, 1}
      /\ Once(m)' \in {0, 1}
      BY Numbers DEF RInv, OInv, TypeOK, Failures, Once
<1>3. Runs(m) <= 1 + Failures
      BY DEF RInv, Counted
<1>4. CASE Due(m) /\ ~Due(m)' /\ Copies(m)' \subseteq Copies(m)
  <2>1. /\ IsFiniteSet(Copies(m)')
        /\ Cardinality(Copies(m)') <= Cardinality(Copies(m))
        /\ Cardinality(Copies(m)') \in Nat /\ Cardinality(Copies(m)) \in Nat
        BY <1>1, <1>4, AtMost
  <2>2. Once(m) = 1 /\ Once(m)' = 0
        BY <1>4 DEF Once
  <2> QED BY <1>2, <1>3, <2>1, <2>2 DEF Counted, Runs
<1>5. CASE /\ w \in Copies(m) /\ Copies(m)' \subseteq Copies(m) \ {w}
           /\ Due(m)' => Due(m)
  <2>1. /\ IsFiniteSet(Copies(m)')
        /\ Cardinality(Copies(m)') <= Cardinality(Copies(m)) - 1
        /\ Cardinality(Copies(m)') \in Nat /\ Cardinality(Copies(m)) \in Nat
        BY <1>1, <1>5, OneLess
  <2>2. Once(m)' <= Once(m)
        BY <1>5 DEF Once
  <2> QED BY <1>2, <1>3, <2>1, <2>2 DEF Counted, Runs
<1> QED BY <1>4, <1>5

\* Every message is due once when the system starts.
LEMMA InitCounted == Init => RInv
<1> SUFFICES ASSUME Init PROVE RInv
    OBVIOUS
<1>1. Between
      BY DEF Init, Between
<1>2. ASSUME NEW m \in Msg PROVE Counted(m)
  <2>1. Copies(m) = {}
        BY DEF Init, Copies
  <2>2. ran[m] = 0 /\ crashes = 0 /\ faults = 0
        BY DEF Init
  <2> QED BY <2>1, <2>2, FS_EmptySet DEF Counted, Runs, Failures, Once
<1> QED BY <1>1, <1>2, InitOwned DEF RInv

\* Steps that leave rows, lists and items in hand alone.
LEMMA SameWork ==
    ASSUME RInv, TypeOK', UNCHANGED <<status, todo, item, ran>>,
           Failures' >= Failures
    PROVE  \A m \in Msg : Counted(m)'
<1> SUFFICES ASSUME NEW m \in Msg PROVE Counted(m)'
    OBVIOUS
<1>1. Copies(m)' = Copies(m) /\ (Due(m)' <=> Due(m)) /\ ran'[m] = ran[m]
      BY DEF Copies, Due
<1> QED BY <1>1, NothingRuns

\* The INSERT: the message was due before and still is.
LEMMA EnqueueCounted ==
    ASSUME RInv, TypeOK', NEW p \in Post, Enqueue(p)
    PROVE  Between' /\ \A m \in Msg : Counted(m)'
<1>1. PICK n \in unread[p] :
         IF status[n] = "absent"
         THEN /\ status' = [status EXCEPT ![n] = "pending"]
              /\ todo' = [todo EXCEPT ![p] = @ \cup {RowItem(n)}]
         ELSE UNCHANGED <<status, todo>>
      BY DEF Enqueue
<1>2. n \in Msg /\ UNCHANGED <<pc, item, ran, crashes, faults>>
      BY DEF Enqueue, RInv, OInv, TypeOK
<1>3. Failures' = Failures /\ Failures \in Nat
      BY <1>2 DEF Failures, RInv, OInv, TypeOK
<1>4. Between'
      BY <1>2 DEF RInv, Between
<1>5. ASSUME NEW m \in Msg PROVE Counted(m)'
  <2>0. todo \in [Worker -> SUBSET Item]
        BY DEF RInv, OInv, TypeOK
  <2>1. \A w \in Worker : \A it \in todo'[w] : it \in todo[w] \/ it = RowItem(n)
    <3>1. CASE status[n] = "absent"
          BY <1>1, <2>0, <3>1
    <3>2. CASE status[n] # "absent"
          BY <1>1, <3>2
    <3> QED BY <3>1, <3>2
  <2>2. Copies(m)' \subseteq Copies(m)
        BY <2>1, Items DEF Copies
  <2>3. Due(m)' => Due(m)
    <3>1. CASE m = n
          BY <1>1, <1>2, <3>1 DEF Due
    <3>2. CASE m # n
      <4>1. status'[m] = status[m]
            BY <1>1, <3>2 DEF RInv, OInv, TypeOK
      <4>2. \A w \in Worker : RowItem(m) \in todo'[w] => RowItem(m) \in todo[w]
            BY <2>1, <3>2, Items
      <4> QED BY <1>2, <4>1, <4>2 DEF Due
    <3> QED BY <3>1, <3>2
  <2> QED BY <1>2, <1>3, <2>2, <2>3, NothingRuns
<1> QED BY <1>4, <1>5

\* A refused INSERT pays for the run without a row.
LEMMA EnqueueFailsCounted ==
    ASSUME RInv, TypeOK', NEW p \in Post, EnqueueFails(p)
    PROVE  Between' /\ \A m \in Msg : Counted(m)'
<1>1. PICK n \in unread[p] :
         todo' = todo \/ todo' = [todo EXCEPT ![p] = @ \cup {FallbackItem(n)}]
      BY DEF EnqueueFails
<1>2. /\ UNCHANGED <<status, pc, item, ran, crashes>>
      /\ faults' = faults + 1
      BY DEF EnqueueFails
<1>3. Failures' = Failures + 1
      BY <1>2 DEF Failures, RInv, OInv, TypeOK
<1>4. Between'
      BY <1>2 DEF RInv, Between
<1>5. ASSUME NEW m \in Msg PROVE Counted(m)'
  <2>1. \A w \in Worker : \A it \in todo'[w] :
           it \in todo[w] \/ (w = p /\ it = FallbackItem(n))
        BY <1>1 DEF RInv, OInv, TypeOK
  <2>2. Copies(m)' \subseteq Copies(m) \cup {p}
        BY <2>1 DEF Copies
  <2>3. \A w \in Worker : RowItem(m) \in todo'[w] => RowItem(m) \in todo[w]
        BY <2>1, Items
  <2>4. Due(m)' => Due(m)
        BY <1>2, <2>3 DEF Due
  <2> QED BY <1>2, <1>3, <2>2, <2>4, FailurePays
<1> QED BY <1>4, <1>5

\* A handler runs what was due: a row nobody else has, or a message without.
LEMMA HandleCounted ==
    ASSUME RInv, TypeOK', NEW w \in Worker, Handle(w)
    PROVE  Between' /\ \A m \in Msg : Counted(m)'
<1>1. PICK it \in todo[w], outcome \in {"handled", "threw"} :
         /\ item' = [item EXCEPT ![w] = it]
         /\ todo' = [todo EXCEPT ![w] = @ \ {it}]
         /\ ran' = [ran EXCEPT ![it.msg] = @ + 1]
         /\ pc' = [pc EXCEPT ![w] = outcome]
      BY DEF Handle
<1>2. /\ pc[w] = "process" /\ UNCHANGED <<status, crashes, faults>>
      BY DEF Handle
<1>3. /\ pc \in [Worker -> Pc] /\ item \in [Worker -> Item \cup {NoItem}]
      /\ todo \in [Worker -> SUBSET Item] /\ ran \in [Msg -> Nat]
      BY DEF RInv, OInv, TypeOK
<1>4. item[w] = NoItem
      BY <1>2 DEF RInv, Between
<1>5. it \in Item /\ it.msg \in Msg
      BY <1>1, <1>3 DEF Item
<1>6. Failures' = Failures /\ Failures \in Nat
      BY <1>2 DEF Failures, RInv, OInv, TypeOK
<1>7. Between'
  <2> SUFFICES ASSUME NEW v \in Worker, pc'[v] \notin {"handled", "threw"}
               PROVE  item'[v] = NoItem
      BY DEF Between
  <2>1. v # w
        BY <1>1, <1>3
  <2> QED BY <1>1, <1>3, <2>1 DEF RInv, Between
<1>8. ASSUME NEW m \in Msg PROVE Counted(m)'
  <2>1. /\ item'[w] = it
        /\ todo'[w] = todo[w] \ {it}
        /\ \A v \in Worker \ {w} : item'[v] = item[v] /\ todo'[v] = todo[v]
        BY <1>1, <1>3
  <2>2. Copies(m)' \subseteq Copies(m)
        BY <2>1 DEF Copies
  <2>3. ASSUME it # RowItem(m) PROVE Due(m)' => Due(m)
        BY <1>2, <1>4, <2>1, <2>3, Items DEF Due
  <2>4. CASE it.msg # m
    <3>1. it # RowItem(m) /\ ran'[m] = ran[m]
          BY <1>1, <1>3, <2>4, Items
    <3> QED BY <1>6, <2>2, <2>3, <3>1, NothingRuns
  <2>5. CASE it.msg = m /\ it.fallback
    <3>1. it = FallbackItem(m) /\ it # RowItem(m) /\ ran'[m] = ran[m] + 1
          BY <1>1, <1>3, <1>5, <2>5, Items DEF Item, FallbackItem
    <3>2. w \in Copies(m) /\ Copies(m)' \subseteq Copies(m) \ {w}
          BY <2>1, <2>2, <3>1 DEF Copies
    <3> QED BY <1>6, <2>3, <3>1, <3>2, RunWasDue
  <2>6. CASE it.msg = m /\ ~it.fallback
    <3>1. it = RowItem(m) /\ ran'[m] = ran[m] + 1
          BY <1>1, <1>3, <1>5, <2>6, Items
    <3>2. \A v \in Worker : Holds(v, RowItem(m)) => v = w
          BY <3>1 DEF RInv, OInv, SingleOwner, Holds
    <3>3. \/ status[m] = "pending"
          \/ status[m] = "processing"
          BY <3>1 DEF RInv, OInv, Owned, Holds, Worker
    <3>4. Due(m)
      <4>1. \A v \in Worker : item[v] # RowItem(m)
            BY <1>4, <3>2, Items DEF Holds
      <4> QED BY <3>1, <3>3, <4>1 DEF Due
    <3>5. ~Due(m)'
      <4>1. \A v \in Worker : RowItem(m) \notin todo'[v]
            BY <2>1, <3>1, <3>2 DEF Holds
      <4>2. item'[w] = RowItem(m) /\ status'[m] # "absent"
            BY <1>2, <2>1, <3>1, <3>3
      <4> QED BY <4>1, <4>2 DEF Due
    <3> QED BY <1>6, <2>2, <3>1, <3>4, <3>5, RunWasDue
  <2> QED BY <1>5, <2>4, <2>5, <2>6 DEF Item
<1> QED BY <1>7, <1>8

\* A verdict ends the row; a message without one has none to change.
LEMMA SettleCounted ==
    ASSUME RInv, TypeOK', NEW w \in Worker, NEW verdict \in {"done", "failed"},
           Settle(w, verdict)
    PROVE  Between' /\ \A m \in Msg : Counted(m)'
<1>1. /\ item' = [item EXCEPT ![w] = NoItem]
      /\ pc' = [pc EXCEPT ![w] = Loop(todo[w])]
      /\ UNCHANGED <<todo, ran, crashes, faults>>
      /\ status' = IF item[w].fallback THEN status
                   ELSE [status EXCEPT ![item[w].msg] = verdict]
      BY DEF Settle
<1>2. /\ pc \in [Worker -> Pc] /\ item \in [Worker -> Item \cup {NoItem}]
      /\ status \in [Msg -> Status]
      BY DEF RInv, OInv, TypeOK
<1>3. Failures' = Failures /\ Failures \in Nat
      BY <1>1 DEF Failures, RInv, OInv, TypeOK
<1>4. Between'
      BY <1>1, <1>2 DEF RInv, Between
<1>5. ASSUME NEW m \in Msg PROVE Counted(m)'
  <2>1. Copies(m)' = Copies(m) /\ ran'[m] = ran[m]
        BY <1>1 DEF Copies
  <2>2. CASE item[w] # RowItem(m)
    <3>1. \A v \in Worker : item'[v] # RowItem(m) => item[v] # RowItem(m)
          BY <1>1, <1>2, <2>2
    <3>2. status'[m] = status[m]
      <4>1. ~item[w].fallback => item[w].msg # m
            BY <1>2, <2>2, Items DEF NoItem
      <4> QED BY <1>1, <1>2, <4>1
    <3>3. Due(m)' => Due(m)
          BY <1>1, <3>1, <3>2 DEF Due
    <3> QED BY <1>3, <2>1, <3>3, NothingRuns
  <2>3. CASE item[w] = RowItem(m)
    <3>1. status'[m] = verdict
          BY <1>1, <1>2, <2>3, Items
    <3>2. ~Due(m)'
          BY <3>1 DEF Due
    <3> QED BY <1>3, <2>1, <3>2, NothingRuns
  <2> QED BY <2>2, <2>3
<1> QED BY <1>4, <1>5

\* A sweep claims rows that nobody has, and that were due.
LEMMA ClaimCounted ==
    ASSUME RInv, TypeOK', NEW s \in Sweep, Claim(s)
    PROVE  Between' /\ \A m \in Msg : Counted(m)'
<1>1. PICK ms \in SUBSET Eligible :
         /\ status' = [m \in Msg |-> IF m \in ms THEN "processing" ELSE status[m]]
         /\ todo' = [todo EXCEPT ![s] = {RowItem(m) : m \in ms}]
      BY DEF Claim
<1>2. /\ UNCHANGED <<item, ran, crashes, faults>>
      /\ pc[s] \in {"boot", "idle"} /\ s \in Worker
      /\ pc' = [pc EXCEPT ![s] = Loop(todo'[s])]
      BY DEF Claim, MaySweep, Worker
<1>3. pc \in [Worker -> Pc] /\ todo \in [Worker -> SUBSET Item]
      BY DEF RInv, OInv, TypeOK
<1>4. Failures' = Failures /\ Failures \in Nat
      BY <1>2 DEF Failures, RInv, OInv, TypeOK
<1>5. Between'
      BY <1>2, <1>3 DEF RInv, Between
<1>6. \A m \in ms : m \in Msg /\ m \in old /\ status[m] = "pending"
      BY DEF Eligible, RInv, OInv, TypeOK
<1>7. \A w \in Worker, m \in ms : ~Holds(w, RowItem(m))
      BY <1>6 DEF RInv, OInv, Owned, Worker
<1>8. ASSUME NEW m \in Msg PROVE Counted(m)'
  <2>1. \A w \in Worker : \A it \in todo'[w] :
           it \in todo[w] \/ \E n \in ms : it = RowItem(n)
        BY <1>1, <1>3
  <2>2. Copies(m)' \subseteq Copies(m)
        BY <2>1, Items DEF Copies
  <2>3. Due(m)' => Due(m)
    <3>1. CASE m \in ms
          BY <1>6, <1>7, <3>1 DEF Due, Holds
    <3>2. CASE m \notin ms
      <4>1. status'[m] = status[m]
            BY <1>1, <3>2
      <4>2. \A w \in Worker : RowItem(m) \in todo'[w] => RowItem(m) \in todo[w]
            BY <2>1, <3>2, Items
      <4> QED BY <1>2, <4>1, <4>2 DEF Due
    <3> QED BY <3>1, <3>2
  <2> QED BY <1>2, <1>4, <2>2, <2>3, NothingRuns
<1> QED BY <1>5, <1>8

\* A query that is refused behind the handler, or a crash, takes items out of
\* hand: it pays for what is run again.
LEMMA FaultCounted ==
    ASSUME RInv, TypeOK', NEW w \in Worker, WorkerFault(w) \/ Crash
    PROVE  Between' /\ \A m \in Msg : Counted(m)'
<1>1. Failures' = Failures + 1 /\ ran' = ran
  <2>0. crashes \in Nat /\ faults \in Nat
        BY DEF RInv, OInv, TypeOK
  <2>1. CASE Crash
        BY <2>0, <2>1 DEF Crash, Failures
  <2>2. CASE WorkerFault(w)
        BY <2>0, <2>2 DEF WorkerFault, MarkDoneFails, MarkFailedFails, Failures
  <2> QED BY <2>1, <2>2
<1>2. \A v \in Worker : todo'[v] \subseteq todo[v]
  <2>1. CASE Crash
        BY <2>1 DEF Crash
  <2>2. CASE WorkerFault(w)
        BY <2>2 DEF WorkerFault, MarkDoneFails, MarkFailedFails
  <2> QED BY <2>1, <2>2
<1>3. Between'
  <2>1. pc \in [Worker -> Pc] /\ item \in [Worker -> Item \cup {NoItem}]
        BY DEF RInv, OInv, TypeOK
  <2>2. CASE MarkDoneFails(w)
        BY <2>1, <2>2 DEF MarkDoneFails, RInv, Between
  <2>3. CASE MarkFailedFails(w)
        BY <2>1, <2>3 DEF MarkFailedFails, RInv, Between
  <2>4. CASE Crash
        BY <2>4 DEF Crash, Between
  <2> QED BY <2>2, <2>3, <2>4 DEF WorkerFault
<1>4. ASSUME NEW m \in Msg PROVE Counted(m)'
  <2>1. Copies(m)' \subseteq Copies(m) /\ ran'[m] = ran[m]
        BY <1>1, <1>2 DEF Copies
  <2> QED BY <1>1, <2>1, FailurePays
<1> QED BY <1>3, <1>4

\* Every step keeps the account, as long as a POST is done with its rows
\* before they are old.
LEMMA NextCounted ==
    ASSUME PromptHandlers, RInv, [Next]_vars
    PROVE  RInv'
<1>1. OInv' /\ TypeOK'
      BY NextOwned DEF RInv, OInv
<1> SUFFICES Between' /\ \A m \in Msg : Counted(m)'
    BY <1>1 DEF RInv
<1>2. pc \in [Worker -> Pc] /\ Failures \in Nat /\ Post \subseteq Worker
      /\ Sweep \subseteq Worker
      BY DEF RInv, OInv, TypeOK, Failures, Worker
<1>3. CASE UNCHANGED vars
  <2>1. UNCHANGED <<status, todo, item, ran, pc>> /\ Failures' = Failures
        BY <1>3 DEF vars, Failures
  <2> QED BY <1>1, <1>2, <2>1, SameWork DEF RInv, Between
<1>4. ASSUME NEW p \in Post,
             PostMeta(p) \/ PostGreen(p) \/ DropLate(p) \/ Ack(p)
      PROVE  Between' /\ \A m \in Msg : Counted(m)'
  <2>1. UNCHANGED <<status, todo, item, ran>> /\ Failures' = Failures
        BY <1>4 DEF PostMeta, PostGreen, Receive, DropLate, Ack, Failures
  <2>2. /\ \A w \in Worker : w # p => pc'[w] = pc[w]
        /\ pc'[p] = pc[p] \/ pc[p] \notin {"handled", "threw"}
        BY <1>2, <1>4 DEF PostMeta, PostGreen, Receive, DropLate, Ack
  <2>3. Between'
        BY <1>2, <2>1, <2>2 DEF RInv, Between
  <2> QED BY <1>1, <1>2, <2>1, <2>3, SameWork
<1>5. ASSUME NEW s \in Sweep, ClaimFails(s)
      PROVE  Between' /\ \A m \in Msg : Counted(m)'
  <2>1. /\ UNCHANGED <<status, todo, item, ran>> /\ Failures' >= Failures
        BY <1>5 DEF ClaimFails, Failures, RInv, OInv, TypeOK
  <2>2. Between'
        BY <1>2, <1>5 DEF ClaimFails, MaySweep, RInv, Between
  <2> QED BY <1>1, <2>1, <2>2, SameWork
<1>6. ASSUME NEW m \in Msg, Age(m)
      PROVE  Between' /\ \A n \in Msg : Counted(n)'
  <2>1. UNCHANGED <<status, todo, item, ran, pc>> /\ Failures' = Failures
        BY <1>6 DEF Age, Failures
  <2> QED BY <1>1, <1>2, <2>1, SameWork DEF RInv, Between
<1>7. CASE Crash
  <2>1. "cron" \in Worker
        BY DEF Worker, Sweep
  <2> QED BY <1>1, <1>7, <2>1, FaultCounted
<1>8. ASSUME NEW w \in Worker, WorkerStep(w) \/ WorkerFault(w)
      PROVE  Between' /\ \A m \in Msg : Counted(m)'
      BY <1>1, <1>8, HandleCounted, SettleCounted, FaultCounted
         DEF WorkerStep, MarkDone, MarkFailed
<1> QED BY <1>1, <1>3, <1>4, <1>5, <1>6, <1>7, <1>8, EnqueueCounted,
           EnqueueFailsCounted, ClaimCounted DEF Next

\* While every POST is done with its rows within 60 seconds, a message is
\* handled again only on account of a crash or a refused query, one time for
\* each, however often it is delivered and swept.
THEOREM RunsArePaidFor ==
    ASSUME PromptHandlers PROVE Spec => []RepetitionsArePaidFor
<1>1. RInv /\ [Next]_vars => RInv'
      BY NextCounted
<1>2. RInv => RepetitionsArePaidFor
  <2> SUFFICES ASSUME RInv, NEW m \in Msg PROVE ran[m] <= 1 + crashes + faults
      BY DEF RepetitionsArePaidFor
  <2>1. Cardinality(Copies(m)) \in Nat /\ Runs(m) <= 1 + Failures
        BY FS_CardinalityType DEF RInv, Counted
  <2>2. ran[m] \in Nat /\ crashes \in Nat /\ faults \in Nat
        BY DEF RInv, OInv, TypeOK
  <2>3. Once(m) \in {0, 1}
        BY DEF Once
  <2> QED BY <2>1, <2>2, <2>3 DEF Runs, Failures
<1> QED BY <1>1, <1>2, InitCounted, PTL DEF Spec

-----------------------------------------------------------------------------
(* Recovery.                                                               *)

\* A worker between two requests, or two sweeps, has nothing to do.
AtLeisure == \A w \in Worker : pc[w] \in {"idle", "boot"} => todo[w] = {}

\* What a worker has in hand was run.
InHandWasRun ==
    \A w \in Worker, m \in Msg :
        item[w] \in {RowItem(m), FallbackItem(m)} => ran[m] > 0

Attended(m) == \E w \in Worker : Holds(w, RowItem(m))

\* A row that waits for a sweep was left by a failure, and so was one that a
\* sweep has claimed; if the sweep has left it too there were two.
Left(m) ==
    /\ status[m] = "pending" => Attended(m) \/ Failures >= 1
    /\ status[m] = "processing" => Failures >= 1 /\ (Attended(m) \/ Failures >= 2)

\* The INSERT of m was refused; it is to be run without a row.
Refused(m) ==
    \/ Remembered(m)
    \/ status[m] = "absent" /\ m \in acked
    \/ status[m] = "absent" /\ \E p \in Post : m \in posted[p] \ unread[p]

ToRun(m) == \E p \in Post : Holds(p, FallbackItem(m))

Unwritten(m) == Refused(m) => Failures >= 1 /\ (ran[m] > 0 \/ ToRun(m) \/ Failures >= 2)

Recovered == AtLeisure /\ InHandWasRun /\ \A m \in Msg : Left(m) /\ Unwritten(m)

\* The number of failures before a step and after it.
LEMMA FailuresGrow ==
    ASSUME TypeOK, TypeOK'
    PROVE  /\ Failures \in Nat /\ Failures' \in Nat
           /\ UNCHANGED <<crashes, faults>> => Failures' = Failures
           /\ crashes' = crashes /\ faults' = faults + 1 => Failures' = Failures + 1
           /\ crashes' = crashes + 1 /\ faults' = faults => Failures' = Failures + 1
<1>1. crashes \in Nat /\ faults \in Nat /\ crashes' \in Nat /\ faults' \in Nat
      BY DEF TypeOK
<1>2. Failures = crashes + faults /\ Failures' = crashes' + faults'
      BY DEF Failures
<1>3. Failures \in Nat
      BY DEF Failures, TypeOK
<1>4. Failures' \in Nat
      BY FailuresNext, Zenon
<1>5. UNCHANGED <<crashes, faults>> => Failures' = Failures
      BY <1>2
<1>6. crashes' = crashes /\ faults' = faults + 1 => Failures' = Failures + 1
      BY <1>1, <1>2
<1>7. crashes' = crashes + 1 /\ faults' = faults => Failures' = Failures + 1
      BY <1>1, <1>2
<1> QED BY <1>3, <1>4, <1>5, <1>6, <1>7, Zenon

\* A row that is not touched stays in hand, or a failure takes it.
LEMMA LeftKeeps ==
    ASSUME NEW m \in Msg, Left(m), status'[m] = status[m],
           Failures \in Nat, Failures' \in Nat,
           \/ Failures' >= Failures /\ (Attended(m) => Attended(m)')
           \/ Failures' = Failures + 1
    PROVE  Left(m)'
BY DEF Left

\* No message is refused, and those that were are run.
LEMMA UnwrittenKeeps ==
    ASSUME NEW m \in Msg, Unwritten(m), Refused(m)' => Refused(m),
           ran[m] \in Nat, ran'[m] \in Nat, ran'[m] >= ran[m],
           Failures \in Nat, Failures' \in Nat,
           \/ Failures' >= Failures /\ (ToRun(m) => ToRun(m)' \/ ran'[m] > 0)
           \/ Failures' = Failures + 1
    PROVE  Unwritten(m)'
BY DEF Unwritten

\* What was refused, when no request goes on.
LEMMA RefusedKeeps ==
    ASSUME NEW m \in Msg, UNCHANGED <<seen, posted, unread, acked>>,
           status'[m] = "absent" => status[m] = "absent"
    PROVE  Refused(m)' => Refused(m)
BY DEF Refused, Remembered

\* Steps that leave rows and items as they are.
LEMMA ItemsStay ==
    ASSUME RInv, Recovered, TypeOK', UNCHANGED <<status, todo, item, ran>>,
           Failures' >= Failures,
           \A w \in Worker : pc'[w] \in {"idle", "boot"} => todo[w] = {},
           \A m \in Msg : Refused(m)' => Refused(m)
    PROVE  Recovered'
<1>1. Failures \in Nat /\ Failures' \in Nat /\ ran \in [Msg -> Nat]
      BY FailuresGrow DEF RInv, OInv, TypeOK
<1>2. AtLeisure' /\ InHandWasRun'
      BY DEF Recovered, AtLeisure, InHandWasRun
<1>3. ASSUME NEW m \in Msg PROVE Left(m)' /\ Unwritten(m)'
  <2>1. Attended(m)' <=> Attended(m)
        BY DEF Attended, Holds
  <2>2. ToRun(m)' <=> ToRun(m)
        BY DEF ToRun, Holds
  <2>3. Left(m)'
        BY <1>1, <2>1, LeftKeeps DEF Recovered
  <2>4. ran[m] \in Nat /\ ran'[m] \in Nat /\ ran'[m] >= ran[m]
        BY <1>1
  <2> QED BY <1>1, <2>2, <2>3, <2>4, UnwrittenKeeps DEF Recovered
<1> QED BY <1>2, <1>3 DEF Recovered

\* A request that comes in, or is answered, refuses nothing.
LEMMA AckRecovered ==
    ASSUME RInv, Recovered, TypeOK', NEW p \in Post,
           PostMeta(p) \/ PostGreen(p) \/ DropLate(p) \/ Ack(p)
    PROVE  Recovered'
<1>1. UNCHANGED <<status, seen, todo, item, ran>> /\ Failures' = Failures
      BY DEF PostMeta, PostGreen, Receive, DropLate, Ack, Failures
<1>2. /\ pc \in [Worker -> Pc] /\ p \in Worker /\ Failures \in Nat
      /\ posted \in [Post -> SUBSET Msg] /\ unread \in [Post -> SUBSET Msg]
      BY FailuresGrow DEF RInv, OInv, TypeOK, Worker
<1>3. \A w \in Worker : pc'[w] \in {"idle", "boot"} => todo[w] = {}
  <2>1. CASE Ack(p)
        BY <1>2, <2>1 DEF Ack, Loop, Recovered, AtLeisure
  <2>2. CASE PostMeta(p) \/ PostGreen(p) \/ DropLate(p)
        BY <1>2, <2>2 DEF PostMeta, PostGreen, Receive, DropLate, Recovered, AtLeisure
  <2> QED BY <2>1, <2>2
<1>4. ASSUME NEW m \in Msg PROVE Refused(m)' => Refused(m)
  <2>1. CASE Ack(p)
    <3>1. /\ acked' = acked \cup posted[p] /\ unread[p] = {}
          /\ posted' = [posted EXCEPT ![p] = {}] /\ unread' = unread
          BY <2>1 DEF Ack
    <3>2. \A q \in Post : posted'[q] \subseteq posted[q]
          BY <1>2, <3>1
    <3> QED BY <1>1, <3>1, <3>2 DEF Refused, Remembered
  <2>2. CASE DropLate(p)
        BY <2>2, RefusedKeeps DEF DropLate
  <2>3. CASE PostMeta(p) \/ PostGreen(p)
    <3>1. PICK ms : Receive(p, ms)
          BY <2>3 DEF PostMeta, PostGreen
    <3>2. /\ acked' = acked
          /\ posted' = [posted EXCEPT ![p] = ms] /\ unread' = [unread EXCEPT ![p] = ms]
          BY <3>1 DEF Receive
    <3>3. \A q \in Post : posted'[q] \ unread'[q] \subseteq posted[q] \ unread[q]
          BY <1>2, <3>2
    <3> QED BY <1>1, <3>2, <3>3 DEF Refused, Remembered
  <2> QED BY <2>1, <2>2, <2>3
<1> QED BY <1>1, <1>2, <1>3, <1>4, ItemsStay

\* The INSERT leaves the row in the hands of the POST.
LEMMA EnqueueRecovered ==
    ASSUME RInv, Recovered, TypeOK', NEW p \in Post, Enqueue(p)
    PROVE  Recovered'
<1>1. PICK n \in unread[p] :
         /\ unread' = [unread EXCEPT ![p] = @ \ {n}]
         /\ IF status[n] = "absent"
            THEN /\ status' = [status EXCEPT ![n] = "pending"]
                 /\ todo' = [todo EXCEPT ![p] = @ \cup {RowItem(n)}]
            ELSE UNCHANGED <<status, todo>>
      BY DEF Enqueue
<1>2. /\ UNCHANGED <<seen, pc, posted, item, acked, ran, crashes, faults>>
      /\ pc[p] = "enqueue" /\ p \in Worker
      BY DEF Enqueue, Worker
<1>3. /\ todo \in [Worker -> SUBSET Item] /\ status \in [Msg -> Status]
      /\ unread \in [Post -> SUBSET Msg] /\ ran \in [Msg -> Nat] /\ n \in Msg
      BY DEF RInv, OInv, TypeOK
<1>4. Failures' = Failures /\ Failures \in Nat
      BY <1>2, FailuresGrow DEF RInv, OInv
<1>5. \A w \in Worker : todo[w] \subseteq todo'[w] /\ (w # p => todo'[w] = todo[w])
      BY <1>1, <1>2, <1>3
<1>6. AtLeisure'
      BY <1>2, <1>5 DEF Recovered, AtLeisure
<1>7. InHandWasRun'
      BY <1>2 DEF Recovered, InHandWasRun
<1>8. ASSUME NEW m \in Msg PROVE Left(m)'
  <2>1. Attended(m) => Attended(m)'
        BY <1>2, <1>5 DEF Attended, Holds
  <2>2. CASE status'[m] = status[m]
        BY <1>4, <2>1, <2>2, LeftKeeps DEF Recovered
  <2>3. CASE status'[m] # status[m]
    <3>1. m = n /\ status'[m] = "pending" /\ RowItem(m) \in todo'[p]
          BY <1>1, <1>2, <1>3, <2>3
    <3> QED BY <1>2, <3>1 DEF Left, Attended, Holds
  <2> QED BY <2>2, <2>3
<1>9. ASSUME NEW m \in Msg PROVE Unwritten(m)'
  <2>1. Refused(m)' => Refused(m)
    <3>1. status'[m] = "absent" => status[m] = "absent" /\ m # n
          BY <1>1, <1>3
    <3>2. m # n => \A q \in Post : m \in unread[q] => m \in unread'[q]
          BY <1>1, <1>3
    <3> QED BY <1>2, <3>1, <3>2 DEF Refused, Remembered
  <2>2. ToRun(m) => ToRun(m)'
        BY <1>2, <1>5 DEF ToRun, Holds, Worker
  <2> QED BY <1>2, <1>3, <1>4, <2>1, <2>2, UnwrittenKeeps DEF Recovered
<1> QED BY <1>6, <1>7, <1>8, <1>9 DEF Recovered

\* Whatever is remembered was so, or is the new one.
LEMMA RememberedNext ==
    ASSUME NEW s \in Seq(Msg), Len(s) <= FallbackCap, NEW n \in Msg, NEW m \in Msg,
           NEW i \in 1 .. Len(Remember(s, n)), Remember(s, n)[i] = m
    PROVE  m = n \/ \E j \in 1 .. Len(s) : s[j] = m
<1>1. CASE Len(s) < FallbackCap
      BY <1>1 DEF Remember
<1>2. CASE ~(Len(s) < FallbackCap)
  <2>1. s # <<>> /\ Tail(s) \in Seq(Msg) /\ Len(Tail(s)) = Len(s) - 1
        BY <1>2
  <2>2. Remember(s, n) = Append(Tail(s), n)
        BY <1>2 DEF Remember
  <2>3. Len(Append(Tail(s), n)) = Len(s)
        BY <2>1
  <2>4. i \in 1 .. Len(s)
        BY <2>2, <2>3
  <2>5. CASE i = Len(s)
    <3>1. Append(Tail(s), n)[Len(Tail(s)) + 1] = n
          BY <2>1
    <3>2. Len(Tail(s)) + 1 = i
          BY <2>1, <2>5
    <3> QED BY <2>2, <3>1, <3>2
  <2>6. CASE i # Len(s)
    <3> DEFINE k == Len(s)
    <3>1. i \in 1 .. k /\ i # k /\ k \in Nat
          BY <2>4, <2>6
    <3>2. i \in 1 .. k - 1 /\ i + 1 \in 1 .. k
      <4> HIDE DEF k
      <4> QED BY <3>1
    <3>3. Len(Tail(s)) = k - 1
          BY <2>1
    <3>4. i \in 1 .. Len(Tail(s)) /\ i + 1 \in 1 .. Len(s)
          BY <3>2, <3>3
    <3>5. Append(Tail(s), n)[i] = Tail(s)[i]
          BY <2>1, <3>4
    <3>6. Tail(s)[i] = s[i + 1]
          BY <2>1, <3>4
    <3> QED BY <2>2, <3>4, <3>5, <3>6
  <2> QED BY <2>5, <2>6
<1> QED BY <1>1, <1>2

\* A refused INSERT is a failure and leaves the message to be run, unless it
\* was refused before.
LEMMA EnqueueFailsRecovered ==
    ASSUME RInv, Recovered, TypeOK', NEW p \in Post, EnqueueFails(p)
    PROVE  Recovered'
<1>1. PICK n \in unread[p] :
         /\ unread' = [unread EXCEPT ![p] = @ \ {n}]
         /\ IF n \notin GreenMsg /\ Remembered(n)
            THEN UNCHANGED <<seen, todo>>
            ELSE /\ seen' = IF n \in GreenMsg THEN seen ELSE Remember(seen, n)
                 /\ todo' = [todo EXCEPT ![p] = @ \cup {FallbackItem(n)}]
      BY DEF EnqueueFails
<1>2. /\ UNCHANGED <<status, pc, posted, item, acked, ran, crashes>>
      /\ faults' = faults + 1 /\ pc[p] = "enqueue" /\ p \in Worker
      BY DEF EnqueueFails, Worker
<1>3. /\ todo \in [Worker -> SUBSET Item] /\ seen \in Seq(Msg) /\ Len(seen) <= FallbackCap
      /\ unread \in [Post -> SUBSET Msg] /\ ran \in [Msg -> Nat] /\ n \in Msg
      BY DEF RInv, OInv, TypeOK
<1>4. Failures' = Failures + 1 /\ Failures \in Nat /\ Failures' \in Nat
      BY <1>2, FailuresGrow DEF RInv, OInv
<1>5. \A w \in Worker : w # p => todo'[w] = todo[w]
      BY <1>1, <1>2, <1>3
<1>6. AtLeisure'
      BY <1>2, <1>5 DEF Recovered, AtLeisure
<1>7. InHandWasRun'
      BY <1>2 DEF Recovered, InHandWasRun
<1>8. ASSUME NEW m \in Msg PROVE Left(m)'
      BY <1>2, <1>4, LeftKeeps DEF Recovered
<1>9. ASSUME NEW m \in Msg PROVE Unwritten(m)'
  <2>1. CASE Refused(m)' => Refused(m)
        BY <1>2, <1>3, <1>4, <2>1, UnwrittenKeeps DEF Recovered
  <2>2. CASE Refused(m)' /\ ~Refused(m)
    <3>1. m = n
      <4> SUFFICES ASSUME m # n PROVE FALSE
          OBVIOUS
      <4>1. \A q \in Post : m \in unread[q] => m \in unread'[q]
            BY <1>1, <1>3
      <4>2. ~Remembered(m)'
        <5>1. CASE seen' = seen
              BY <2>2, <5>1 DEF Refused, Remembered
        <5>2. CASE seen' = Remember(seen, n)
              BY <1>3, <2>2, <5>2, RememberedNext DEF Refused, Remembered
        <5> QED BY <1>1, <5>1, <5>2
      <4> QED BY <1>2, <2>2, <4>1, <4>2 DEF Refused
    <3>2. FallbackItem(m) \in todo'[p]
          BY <1>1, <1>2, <1>3, <2>2, <3>1 DEF Refused
    <3>3. ToRun(m)'
          BY <3>2 DEF ToRun, Holds
    <3> QED BY <1>4, <3>3 DEF Unwritten
  <2> QED BY <2>1, <2>2
<1> QED BY <1>6, <1>7, <1>8, <1>9 DEF Recovered

\* What is run stays in hand until its verdict.
LEMMA HandleRecovered ==
    ASSUME RInv, Recovered, TypeOK', NEW w \in Worker, Handle(w)
    PROVE  Recovered'
<1>1. PICK it \in todo[w], outcome \in {"handled", "threw"} :
         /\ item' = [item EXCEPT ![w] = it]
         /\ todo' = [todo EXCEPT ![w] = @ \ {it}]
         /\ ran' = [ran EXCEPT ![it.msg] = @ + 1]
         /\ pc' = [pc EXCEPT ![w] = outcome]
      BY DEF Handle
<1>2. /\ pc[w] = "process"
      /\ UNCHANGED <<status, seen, posted, unread, acked, crashes, faults>>
      BY DEF Handle
<1>3. /\ pc \in [Worker -> Pc] /\ item \in [Worker -> Item \cup {NoItem}]
      /\ todo \in [Worker -> SUBSET Item] /\ ran \in [Msg -> Nat]
      BY DEF RInv, OInv, TypeOK
<1>4. item[w] = NoItem
      BY <1>2 DEF RInv, Between
<1>5. it \in Item /\ it.msg \in Msg
      BY <1>1, <1>3 DEF Item
<1>6. Failures' = Failures /\ Failures \in Nat
      BY <1>2, FailuresGrow DEF RInv, OInv
<1>7. /\ item'[w] = it /\ todo'[w] = todo[w] \ {it}
      /\ \A v \in Worker \ {w} : item'[v] = item[v] /\ todo'[v] = todo[v]
      BY <1>1, <1>3
<1>8. \A m \in Msg : /\ ran'[m] \in Nat /\ ran'[m] >= ran[m]
                     /\ it.msg = m => ran'[m] > 0
      BY <1>1, <1>3
<1>9. AtLeisure'
      BY <1>1, <1>3, <1>7 DEF Recovered, AtLeisure
<1>10. InHandWasRun'
  <2> SUFFICES ASSUME NEW v \in Worker, NEW m \in Msg,
                      item'[v] \in {RowItem(m), FallbackItem(m)}
               PROVE  ran'[m] > 0
      BY DEF InHandWasRun
  <2>1. CASE v = w
        BY <1>7, <1>8, <2>1 DEF RowItem, FallbackItem
  <2>2. CASE v # w
    <3>1. ran[m] > 0
          BY <1>7, <2>2 DEF Recovered, InHandWasRun
    <3> QED BY <1>3, <1>8, <3>1
  <2> QED BY <2>1, <2>2
<1>11. ASSUME NEW v \in Worker, NEW x \in Item PROVE Holds(v, x) => Holds(v, x)'
  <2>1. NoItem \notin Item
        BY DEF Item, NoItem
  <2>2. CASE v = w
        BY <1>4, <1>7, <2>1, <2>2 DEF Holds
  <2>3. CASE v # w
        BY <1>7, <2>3 DEF Holds
  <2> QED BY <2>2, <2>3
<1>12. ASSUME NEW m \in Msg PROVE Left(m)' /\ Unwritten(m)'
  <2>1. RowItem(m) \in Item /\ FallbackItem(m) \in Item
        BY DEF RowItem, FallbackItem, Item
  <2>2. Attended(m) => Attended(m)'
        BY <1>11, <2>1 DEF Attended
  <2>3. ToRun(m) => ToRun(m)'
        BY <1>11, <2>1 DEF ToRun, Worker
  <2>4. Left(m)'
        BY <1>2, <1>6, <2>2, LeftKeeps DEF Recovered
  <2>5. Refused(m)' => Refused(m)
        BY <1>2, RefusedKeeps
  <2> QED BY <1>3, <1>6, <1>8, <2>3, <2>4, <2>5, UnwrittenKeeps DEF Recovered
<1> QED BY <1>9, <1>10, <1>12 DEF Recovered

\* The row that leaves the hand has its verdict.
LEMMA SettleRecovered ==
    ASSUME RInv, Recovered, TypeOK', NEW w \in Worker, NEW verdict \in {"done", "failed"},
           Settle(w, verdict)
    PROVE  Recovered'
<1>1. /\ item' = [item EXCEPT ![w] = NoItem]
      /\ pc' = [pc EXCEPT ![w] = Loop(todo[w])]
      /\ UNCHANGED <<seen, posted, unread, acked, todo, ran, crashes, faults>>
      /\ status' = IF item[w].fallback THEN status
                   ELSE [status EXCEPT ![item[w].msg] = verdict]
      BY DEF Settle
<1>2. /\ pc \in [Worker -> Pc] /\ item \in [Worker -> Item \cup {NoItem}]
      /\ status \in [Msg -> Status] /\ ran \in [Msg -> Nat]
      BY DEF RInv, OInv, TypeOK
<1>3. Failures' = Failures /\ Failures \in Nat
      BY <1>1, FailuresGrow DEF RInv, OInv
<1>4. AtLeisure'
      BY <1>1, <1>2 DEF Recovered, AtLeisure, Loop
<1>5. \A v \in Worker : item'[v] = (IF v = w THEN NoItem ELSE item[v])
      BY <1>1, <1>2
<1>6. \A m \in Msg : status'[m] # status[m] => status'[m] = verdict
      BY <1>1, <1>2
<1>7. ASSUME NEW m \in Msg, item[w] = FallbackItem(m) \/ item[w] = RowItem(m)
      PROVE  ran[m] > 0
      BY <1>7 DEF Recovered, InHandWasRun
<1>8. InHandWasRun'
  <2> SUFFICES ASSUME NEW v \in Worker, NEW m \in Msg,
                      item'[v] \in {RowItem(m), FallbackItem(m)}
               PROVE  ran[m] > 0
      BY <1>1 DEF InHandWasRun
  <2>1. CASE v # w
        BY <1>5, <2>1 DEF Recovered, InHandWasRun
  <2>2. CASE v = w
    <3>1. item'[v] = NoItem
          BY <1>5, <2>2
    <3> QED BY <3>1, Items
  <2> QED BY <2>1, <2>2
<1>9. ASSUME NEW m \in Msg PROVE Left(m)'
  <2>1. CASE status'[m] = verdict
        BY <2>1 DEF Left
  <2>2. CASE status'[m] # verdict
    <3>1. status'[m] = status[m]
          BY <1>6, <2>2
    <3>2. item[w] # RowItem(m)
          BY <1>1, <1>2, <2>2, Items
    <3>3. Attended(m) => Attended(m)'
          BY <1>1, <1>5, <3>2 DEF Attended, Holds
    <3> QED BY <1>3, <3>1, <3>3, LeftKeeps DEF Recovered
  <2> QED BY <2>1, <2>2
<1>10. ASSUME NEW m \in Msg PROVE Unwritten(m)'
  <2>1. Refused(m)' => Refused(m)
    <3>1. status'[m] = "absent" => status[m] = "absent"
          BY <1>6
    <3> QED BY <1>1, <3>1, RefusedKeeps
  <2>2. ToRun(m) => ToRun(m)' \/ ran'[m] > 0
        BY <1>1, <1>5, <1>7 DEF ToRun, Holds, Worker
  <2>3. ran[m] \in Nat /\ ran'[m] \in Nat /\ ran'[m] >= ran[m]
        BY <1>1, <1>2
  <2> QED BY <1>3, <2>1, <2>2, <2>3, UnwrittenKeeps DEF Recovered
<1> QED BY <1>4, <1>8, <1>9, <1>10 DEF Recovered

\* What a sweep finds a failure has left; it takes it in hand.
LEMMA ClaimRecovered ==
    ASSUME RInv, Recovered, TypeOK', NEW s \in Sweep, Claim(s)
    PROVE  Recovered'
<1>1. PICK ms \in SUBSET Eligible :
         /\ status' = [m \in Msg |-> IF m \in ms THEN "processing" ELSE status[m]]
         /\ todo' = [todo EXCEPT ![s] = {RowItem(m) : m \in ms}]
      BY DEF Claim
<1>2. /\ UNCHANGED <<seen, posted, unread, acked, item, ran, crashes, faults>>
      /\ pc[s] \in {"boot", "idle"} /\ s \in Worker
      /\ pc' = [pc EXCEPT ![s] = Loop(todo'[s])]
      BY DEF Claim, MaySweep, Worker
<1>3. /\ pc \in [Worker -> Pc] /\ todo \in [Worker -> SUBSET Item]
      /\ status \in [Msg -> Status] /\ ran \in [Msg -> Nat]
      BY DEF RInv, OInv, TypeOK
<1>4. Failures' = Failures /\ Failures \in Nat
      BY <1>2, FailuresGrow DEF RInv, OInv
<1>5. todo[s] = {}
      BY <1>2 DEF Recovered, AtLeisure
<1>6. \A w \in Worker : todo[w] \subseteq todo'[w] /\ (w # s => todo'[w] = todo[w])
      BY <1>1, <1>2, <1>3, <1>5
<1>7. AtLeisure'
      BY <1>2, <1>3, <1>6 DEF Recovered, AtLeisure, Loop
<1>8. InHandWasRun'
      BY <1>2 DEF Recovered, InHandWasRun
<1>9. ASSUME NEW m \in Msg PROVE Left(m)'
  <2>1. CASE m \in ms
    <3>1. status[m] = "pending" /\ m \in old
          BY <2>1 DEF Eligible
    <3>2. ~Attended(m)
          BY <3>1 DEF Attended, RInv, OInv, Owned, Worker
    <3>3. Failures >= 1
          BY <3>1, <3>2 DEF Recovered, Left
    <3>4. Attended(m)'
          BY <1>1, <1>2, <1>3, <2>1 DEF Attended, Holds
    <3> QED BY <1>4, <3>3, <3>4 DEF Left
  <2>2. CASE m \notin ms
    <3>1. status'[m] = status[m]
          BY <1>1, <2>2
    <3>2. Attended(m) => Attended(m)'
          BY <1>2, <1>6 DEF Attended, Holds
    <3> QED BY <1>4, <3>1, <3>2, LeftKeeps DEF Recovered
  <2> QED BY <2>1, <2>2
<1>10. ASSUME NEW m \in Msg PROVE Unwritten(m)'
  <2>1. status'[m] = "absent" => status[m] = "absent"
        BY <1>1
  <2>2. Refused(m)' => Refused(m)
        BY <1>2, <2>1, RefusedKeeps
  <2>3. ToRun(m) => ToRun(m)'
        BY <1>2, <1>6 DEF ToRun, Holds, Worker
  <2>4. ran[m] \in Nat /\ ran'[m] \in Nat /\ ran'[m] >= ran[m]
        BY <1>2, <1>3
  <2> QED BY <1>4, <2>2, <2>3, <2>4, UnwrittenKeeps DEF Recovered
<1> QED BY <1>7, <1>8, <1>9, <1>10 DEF Recovered

\* A failure behind the handler, or a crash, is the one that leaves things.
LEMMA FaultRecovered ==
    ASSUME RInv, Recovered, TypeOK', NEW w \in Worker, WorkerFault(w) \/ Crash
    PROVE  Recovered'
<1>0. /\ pc \in [Worker -> Pc] /\ item \in [Worker -> Item \cup {NoItem}]
      /\ ran \in [Msg -> Nat]
      BY DEF RInv, OInv, TypeOK
<1>1. UNCHANGED <<status, acked, ran>>
      BY DEF WorkerFault, MarkDoneFails, MarkFailedFails, Crash
<1>2. Failures' = Failures + 1 /\ Failures \in Nat /\ Failures' \in Nat
  <2>1. TypeOK
        BY DEF RInv, OInv
  <2>2. CASE Crash
        BY <2>1, <2>2, FailuresGrow DEF Crash
  <2>3. CASE WorkerFault(w)
        BY <2>1, <2>3, FailuresGrow DEF WorkerFault, MarkDoneFails, MarkFailedFails
  <2> QED BY <2>2, <2>3
<1>3. AtLeisure'
  <2>1. CASE Crash
        BY <2>1 DEF Crash, AtLeisure
  <2>2. CASE MarkDoneFails(w)
        BY <1>0, <2>2 DEF MarkDoneFails, Recovered, AtLeisure
  <2>3. CASE MarkFailedFails(w)
        BY <1>0, <2>3 DEF MarkFailedFails, Recovered, AtLeisure, Loop
  <2> QED BY <2>1, <2>2, <2>3 DEF WorkerFault
<1>4. InHandWasRun'
  <2> SUFFICES ASSUME NEW v \in Worker, NEW m \in Msg,
                      item'[v] \in {RowItem(m), FallbackItem(m)}
               PROVE  ran[m] > 0
      BY <1>1 DEF InHandWasRun
  <2>1. item'[v] = item[v] \/ item'[v] = NoItem
        BY <1>0 DEF WorkerFault, MarkDoneFails, MarkFailedFails, Crash
  <2>2. CASE item'[v] = item[v]
        BY <2>2 DEF Recovered, InHandWasRun
  <2>3. CASE item'[v] = NoItem
        BY <2>3, Items
  <2> QED BY <2>1, <2>2, <2>3
<1>5. ASSUME NEW m \in Msg PROVE Left(m)' /\ Unwritten(m)'
  <2>1. Left(m)'
        BY <1>1, <1>2, LeftKeeps DEF Recovered
  <2>2. Refused(m)' => Refused(m)
    <3>1. CASE Crash
          BY <1>1, <3>1 DEF Crash, Refused, Remembered
    <3>2. CASE WorkerFault(w)
          BY <3>2, RefusedKeeps DEF WorkerFault, MarkDoneFails, MarkFailedFails
    <3> QED BY <3>1, <3>2
  <2>3. ran[m] \in Nat /\ ran'[m] \in Nat /\ ran'[m] >= ran[m]
        BY <1>0, <1>1
  <2> QED BY <1>2, <2>1, <2>2, <2>3, UnwrittenKeeps DEF Recovered
<1> QED BY <1>3, <1>4, <1>5 DEF Recovered

LEMMA NextRecovered ==
    ASSUME PromptHandlers, RInv, Recovered, [Next]_vars
    PROVE  Recovered'
<1>1. TypeOK'
      BY NextType DEF RInv, OInv
<1>2. Failures \in Nat /\ Failures' \in Nat /\ pc \in [Worker -> Pc]
      /\ Post \subseteq Worker /\ Sweep \subseteq Worker
      BY <1>1, FailuresGrow DEF RInv, OInv, TypeOK, Worker
<1>3. CASE UNCHANGED vars
  <2>1. UNCHANGED <<status, todo, item, ran, pc, seen, posted, unread, acked>>
        /\ Failures' = Failures
        BY <1>3 DEF vars, Failures
  <2>2. \A m \in Msg : Refused(m)' => Refused(m)
        BY <2>1, RefusedKeeps
  <2> QED BY <1>1, <1>2, <2>1, <2>2, ItemsStay DEF Recovered, AtLeisure
<1>4. ASSUME NEW s \in Sweep, ClaimFails(s) PROVE Recovered'
  <2>1. UNCHANGED <<status, todo, item, ran, seen, posted, unread, acked>>
        BY <1>4 DEF ClaimFails
  <2>2. Failures' = Failures + 1
        BY <1>1, <1>4, FailuresGrow DEF ClaimFails, RInv, OInv
  <2>3. \A w \in Worker : pc'[w] \in {"idle", "boot"} => todo[w] = {}
        BY <1>2, <1>4 DEF ClaimFails, MaySweep, Recovered, AtLeisure
  <2>4. \A m \in Msg : Refused(m)' => Refused(m)
        BY <2>1, RefusedKeeps
  <2> QED BY <1>1, <1>2, <2>1, <2>2, <2>3, <2>4, ItemsStay
<1>5. ASSUME NEW m \in Msg, Age(m) PROVE Recovered'
  <2>1. UNCHANGED <<status, todo, item, ran, pc, seen, posted, unread, acked>>
        /\ Failures' = Failures
        BY <1>5 DEF Age, Failures
  <2>2. \A n \in Msg : Refused(n)' => Refused(n)
        BY <2>1, RefusedKeeps
  <2> QED BY <1>1, <1>2, <2>1, <2>2, ItemsStay DEF Recovered, AtLeisure
<1>6. CASE Crash
  <2>1. "cron" \in Worker
        BY DEF Worker, Sweep
  <2> QED BY <1>1, <1>6, <2>1, FaultRecovered
<1>7. ASSUME NEW w \in Worker, WorkerStep(w) \/ WorkerFault(w) PROVE Recovered'
      BY <1>1, <1>7, HandleRecovered, SettleRecovered, FaultRecovered
         DEF WorkerStep, MarkDone, MarkFailed
<1> QED BY <1>1, <1>3, <1>4, <1>5, <1>6, <1>7, AckRecovered, EnqueueRecovered,
           EnqueueFailsRecovered, ClaimRecovered DEF Next

LEMMA InitRecovered == Init => Recovered
<1> SUFFICES ASSUME Init PROVE Recovered
    OBVIOUS
<1>1. \A w \in Worker : todo[w] = {} /\ item[w] = NoItem
      BY DEF Init
<1>2. \A m \in Msg : ~Refused(m) /\ status[m] = "absent"
  <2>1. ~(\E i \in 1 .. Len(<<>>) : TRUE)
        OBVIOUS
  <2> QED BY <2>1 DEF Init, Refused, Remembered
<1>3. InHandWasRun
      BY <1>1, Items DEF InHandWasRun
<1> QED BY <1>1, <1>2, <1>3 DEF Recovered, AtLeisure, Left, Unwritten

\* While every POST is done with its rows within 60 seconds, one crash or one
\* refused query costs no message: what is claimed and in nobody's hands, or
\* ACKed and neither written nor run, took two failures.
THEOREM OneFailureCostsNone ==
    ASSUME PromptHandlers PROVE Spec => []OneFailureIsRecovered
<1>1. RInv /\ Recovered /\ [Next]_vars => RInv' /\ Recovered'
      BY NextCounted, NextRecovered
<1>2. RInv /\ Recovered => OneFailureIsRecovered
  <2> SUFFICES ASSUME RInv, Recovered, NEW m \in Msg, Orphan(m) \/ Lost(m)
               PROVE  crashes + faults >= 2
      BY DEF OneFailureIsRecovered
  <2>1. CASE Orphan(m)
        BY <2>1 DEF Orphan, Recovered, Left, Attended, Failures
  <2>2. CASE Lost(m)
        BY <2>2 DEF Lost, Recovered, Unwritten, Refused, ToRun, Failures
  <2> QED BY <2>1, <2>2
<1> QED BY <1>1, <1>2, InitCounted, InitRecovered, PTL DEF Spec
=============================================================================
