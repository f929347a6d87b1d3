----------------------------- MODULE InboundQueue -----------------------------
(***************************************************************************)
(* The durable inbound queue: the two webhook routes that accept WhatsApp  *)
(* messages (Meta, Green API), the table "WhatsappInboundQueue", the       *)
(* handler processInbound and the recovery sweep.                          *)
(*                                                                         *)
(* One process serves any number of POST requests at a time; between two   *)
(* awaits of one of them any other may run, so a POST is a worker that     *)
(* takes one step per query.  The recovery sweep is a worker too: once at  *)
(* start-up and then every five minutes (under an advisory lock, so two    *)
(* periodic sweeps never overlap).                                         *)
(***************************************************************************)
EXTENDS Naturals, Sequences, FiniteSets

CONSTANTS
    Msg,            \* ids of the messages customers and workers send
    GreenMsg,       \* those of them that arrive through Green API
    Post,           \* slots for concurrently served POST requests
    FallbackCap,    \* size limit of fallbackSeen (10_000 in the code)
    ClaimLimit,     \* rows one sweep claims (50 in the code)
    PromptHandlers, \* TRUE: a POST is done with its rows within 60 seconds
    MaxPosts,       \* bound: POST requests received in all
    MaxCrashes,     \* bound: crashes of the process
    MaxFaults       \* bound: queries the database refuses

ASSUME InboundQueueAssumption ==
    /\ GreenMsg \subseteq Msg
    /\ "none" \notin Msg
    /\ FallbackCap \in Nat \ {0}
    /\ ClaimLimit \in Nat \ {0}
    /\ PromptHandlers \in BOOLEAN
    /\ MaxPosts \in Nat
    /\ MaxCrashes \in Nat
    /\ MaxFaults \in Nat
    /\ Post \cap {"startup", "cron"} = {}

VARIABLES
    status,     \* status[m]: the row of m in "WhatsappInboundQueue"
    old,        \* rows whose receivedAt is more than 60 seconds ago
    seen,       \* fallbackSeen, oldest first
    pc,         \* pc[w]: where worker w is
    posted,     \* posted[p]: the messages of the request p serves
    unread,     \* unread[p]: those p has not enqueued yet
    todo,       \* todo[w]: items w has still to process
    item,       \* item[w]: the item w is processing
    acked,      \* messages some POST answered with 200 after enqueuing them
    dropped,    \* messages some POST ignored: they had become too old
    ran,        \* ran[m]: how often the message handler was run for m
    posts,      \* POST requests received so far
    crashes, faults

vars == <<status, old, seen, pc, posted, unread, todo, item, acked,
          dropped, ran, posts, crashes, faults>>

Sweep  == {"startup", "cron"}
Worker == Post \cup Sweep
Status == {"absent", "pending", "processing", "done", "failed"}
Pc     == {"idle", "boot", "enqueue", "process", "handled", "threw"}

\* An item's msgId carries the prefix __fallback__ when the row could not be
\* written; such an item never touches the table again.
Item   == [msg : Msg, fallback : BOOLEAN]
NoItem == [msg |-> "none", fallback |-> TRUE]
RowItem(m)      == [msg |-> m, fallback |-> FALSE]
FallbackItem(m) == [msg |-> m, fallback |-> TRUE]

Least(a, b) == IF a <= b THEN a ELSE b

\* The loop over the items: on with the next one, if there is one.
Loop(items) == IF items = {} THEN "idle" ELSE "process"

-----------------------------------------------------------------------------
Init ==
    /\ status = [m \in Msg |-> "absent"]
    /\ old = {}
    /\ seen = <<>>
    /\ pc = [w \in Worker |-> IF w = "startup" THEN "boot" ELSE "idle"]
    /\ posted = [p \in Post |-> {}]
    /\ unread = [p \in Post |-> {}]
    /\ todo = [w \in Worker |-> {}]
    /\ item = [w \in Worker |-> NoItem]
    /\ acked = {}
    /\ dropped = {}
    /\ ran = [m \in Msg |-> 0]
    /\ posts = 0
    /\ crashes = 0
    /\ faults = 0

-----------------------------------------------------------------------------
(* Reception: a POST enqueues its messages one query at a time, then ACKs. *)

Receive(p, ms) ==
    /\ pc[p] = "idle"
    /\ posts < MaxPosts
    /\ posts' = posts + 1
    /\ posted' = [posted EXCEPT ![p] = ms]
    /\ unread' = [unread EXCEPT ![p] = ms]
    /\ pc' = [pc EXCEPT ![p] = "enqueue"]
    /\ UNCHANGED <<status, old, seen, todo, item, acked, dropped, ran,
                   crashes, faults>>

\* A Meta webhook carries any number of messages.
PostMeta(p) ==
    \E ms \in SUBSET (Msg \ GreenMsg) : ms # {} /\ Receive(p, ms)

\* A Green API webhook carries one.
PostGreen(p) ==
    \E m \in GreenMsg \ dropped : Receive(p, {m})

\* ... and answers a message older than GREENAPI_MAX_INBOUND_AGE_SEC with 200
\* at once.  A message that is too old once is too old ever after.
DropLate(p) ==
    \E m \in GreenMsg :
        /\ pc[p] = "idle"
        /\ posts < MaxPosts
        /\ posts' = posts + 1
        /\ dropped' = dropped \cup {m}
        /\ UNCHANGED <<status, old, seen, pc, posted, unread, todo, item, acked,
                       ran, crashes, faults>>

\* Mutant: the answer of enqueueInbound ("newly enqueued?") is ignored.
EnqueueAlwaysNew(p) ==
    \E m \in unread[p] :
        /\ pc[p] = "enqueue"
        /\ unread' = [unread EXCEPT ![p] = @ \ {m}]
        /\ status' = [status EXCEPT ![m] = IF @ = "absent" THEN "pending" ELSE @]
        /\ todo' = [todo EXCEPT ![p] = @ \cup {RowItem(m)}]
        /\ UNCHANGED <<old, seen, pc, posted, item, acked, dropped, ran,
                       posts, crashes, faults>>

\* enqueueInbound: INSERT ... ON CONFLICT DO NOTHING.  The request processes
\* a message only when its own INSERT created the row.
Enqueue(p) ==
    \E m \in unread[p] :
        /\ pc[p] = "enqueue"
        /\ unread' = [unread EXCEPT ![p] = @ \ {m}]
        /\ IF status[m] = "absent"
           THEN /\ status' = [status EXCEPT ![m] = "pending"]
                /\ todo' = [todo EXCEPT ![p] = @ \cup {RowItem(m)}]
           ELSE UNCHANGED <<status, todo>>
        /\ UNCHANGED <<old, seen, pc, posted, item, acked, dropped, ran,
                       posts, crashes, faults>>

\* fallbackSeen.add, forgetting the oldest id beyond the limit.
Remember(s, m) ==
    IF Len(s) < FallbackCap THEN Append(s, m) ELSE Append(Tail(s), m)

Remembered(m) == \E i \in 1 .. Len(seen) : seen[i] = m

\* The INSERT throws.  Meta: process once per fallbackSeen; Green API: always.
EnqueueFails(p) ==
    \E m \in unread[p] :
        /\ pc[p] = "enqueue"
        /\ faults < MaxFaults
        /\ faults' = faults + 1
        /\ unread' = [unread EXCEPT ![p] = @ \ {m}]
        /\ IF m \notin GreenMsg /\ Remembered(m)
           THEN UNCHANGED <<seen, todo>>
           ELSE /\ seen' = IF m \in GreenMsg THEN seen ELSE Remember(seen, m)
                /\ todo' = [todo EXCEPT ![p] = @ \cup {FallbackItem(m)}]
        /\ UNCHANGED <<status, old, pc, posted, item, acked, dropped, ran,
                       posts, crashes>>

Ack(p) ==
    /\ pc[p] = "enqueue"
    /\ unread[p] = {}
    /\ acked' = acked \cup posted[p]
    /\ posted' = [posted EXCEPT ![p] = {}]
    /\ pc' = [pc EXCEPT ![p] = Loop(todo[p])]
    /\ UNCHANGED <<status, old, seen, unread, todo, item, dropped, ran,
                   posts, crashes, faults>>

-----------------------------------------------------------------------------
(* processInbound, shared by the POST handlers and the sweep.              *)

\* The handler of one item runs; it returns or throws.
Handle(w) ==
    /\ pc[w] = "process"
    /\ \E it \in todo[w], outcome \in {"handled", "threw"} :
        /\ item' = [item EXCEPT ![w] = it]
        /\ todo' = [todo EXCEPT ![w] = @ \ {it}]
        /\ ran' = [ran EXCEPT ![it.msg] = @ + 1]
        /\ pc' = [pc EXCEPT ![w] = outcome]
    /\ UNCHANGED <<status, old, seen, posted, unread, acked, dropped,
                   posts, crashes, faults>>

\* Mutant: only a POST records the verdict.
SettleInPostOnly(w, verdict) ==
    /\ status' = IF item[w].fallback \/ w \in Sweep THEN status
                 ELSE [status EXCEPT ![item[w].msg] = verdict]
    /\ item' = [item EXCEPT ![w] = NoItem]
    /\ pc' = [pc EXCEPT ![w] = Loop(todo[w])]
    /\ UNCHANGED <<old, seen, posted, unread, todo, acked, dropped, ran,
                   posts, crashes, faults>>

\* The item is settled: on to the next one.  A fallback item has no row.
Settle(w, verdict) ==
    /\ status' = IF item[w].fallback THEN status
                 ELSE [status EXCEPT ![item[w].msg] = verdict]
    /\ item' = [item EXCEPT ![w] = NoItem]
    /\ pc' = [pc EXCEPT ![w] = Loop(todo[w])]
    /\ UNCHANGED <<old, seen, posted, unread, todo, acked, dropped, ran,
                   posts, crashes, faults>>

MarkDone(w)   == pc[w] = "handled" /\ Settle(w, "done")
MarkFailed(w) == pc[w] = "threw"   /\ Settle(w, "failed")

\* markDone throws after the message was handled: the catch block takes over.
MarkDoneFails(w) ==
    /\ pc[w] = "handled"
    /\ ~item[w].fallback
    /\ faults < MaxFaults
    /\ faults' = faults + 1
    /\ pc' = [pc EXCEPT ![w] = "threw"]
    /\ UNCHANGED <<status, old, seen, posted, unread, todo, item, acked,
                   dropped, ran, posts, crashes>>

\* markFailed throws: the error is logged and swallowed, the row stays.
MarkFailedFails(w) ==
    /\ pc[w] = "threw"
    /\ ~item[w].fallback
    /\ faults < MaxFaults
    /\ faults' = faults + 1
    /\ item' = [item EXCEPT ![w] = NoItem]
    /\ pc' = [pc EXCEPT ![w] = Loop(todo[w])]
    /\ UNCHANGED <<status, old, seen, posted, unread, todo, acked,
                   dropped, ran, posts, crashes>>

-----------------------------------------------------------------------------
(* recoverInboundQueue                                                     *)

\* Mutants: the age is not compared, and compared the wrong way round.
EligibleAnyAge == {m \in Msg : status[m] = "pending"}
EligibleYoung  == {m \in Msg \ old : status[m] = "pending"}

Eligible == {m \in old : status[m] = "pending"}

MaySweep(s) == pc[s] = IF s = "startup" THEN "boot" ELSE "idle"

\* claimPending is one UPDATE.  The code takes the oldest ClaimLimit rows;
\* which rows are the oldest is left open here.
Claim(s) ==
    /\ MaySweep(s)
    /\ \E ms \in SUBSET Eligible :
        /\ Cardinality(ms) = Least(ClaimLimit, Cardinality(Eligible))
        /\ status' = [m \in Msg |-> IF m \in ms THEN "processing" ELSE status[m]]
        /\ todo' = [todo EXCEPT ![s] = {RowItem(m) : m \in ms}]
    /\ pc' = [pc EXCEPT ![s] = Loop(todo'[s])]
    /\ UNCHANGED <<old, seen, posted, unread, item, acked, dropped, ran,
                   posts, crashes, faults>>

ClaimFails(s) ==
    /\ MaySweep(s)
    /\ faults < MaxFaults
    /\ faults' = faults + 1
    /\ pc' = [pc EXCEPT ![s] = "idle"]
    /\ UNCHANGED <<status, old, seen, posted, unread, todo, item, acked,
                   dropped, ran, posts, crashes>>

-----------------------------------------------------------------------------
(* Time and crashes.                                                       *)

Holds(w, it) == it \in todo[w] \/ item[w] = it

\* A row passes the 60 seconds claimPending waits.
Age(m) ==
    /\ m \notin old
    /\ status[m] = "pending"
    /\ PromptHandlers => \A p \in Post : ~Holds(p, RowItem(m))
    /\ old' = old \cup {m}
    /\ UNCHANGED <<status, seen, pc, posted, unread, todo, item, acked,
                   dropped, ran, posts, crashes, faults>>

\* Everything in memory is gone; the new process boots with a sweep.
Crash ==
    /\ crashes < MaxCrashes
    /\ crashes' = crashes + 1
    /\ seen' = <<>>
    /\ pc' = [w \in Worker |-> IF w = "startup" THEN "boot" ELSE "idle"]
    /\ posted' = [p \in Post |-> {}]
    /\ unread' = [p \in Post |-> {}]
    /\ todo' = [w \in Worker |-> {}]
    /\ item' = [w \in Worker |-> NoItem]
    /\ UNCHANGED <<status, old, acked, dropped, ran, posts, faults>>

-----------------------------------------------------------------------------
WorkerStep(w) ==
    Handle(w) \/ MarkDone(w) \/ MarkFailed(w)

WorkerFault(w) == MarkDoneFails(w) \/ MarkFailedFails(w)

Next ==
    \/ \E p \in Post : PostMeta(p) \/ PostGreen(p) \/ DropLate(p)
                       \/ Enqueue(p) \/ EnqueueFails(p) \/ Ack(p)
    \/ \E w \in Worker : WorkerStep(w) \/ WorkerFault(w)
    \/ \E s \in Sweep : Claim(s) \/ ClaimFails(s)
    \/ \E m \in Msg : Age(m)
    \/ Crash

Spec == Init /\ [][Next]_vars

\* A live process goes on with what it has begun, the scheduler fires the
\* periodic sweep and time passes.  Nobody has to send or resend a message.
Fairness ==
    /\ \A p \in Post : WF_vars(Enqueue(p)) /\ WF_vars(Ack(p))
    /\ \A w \in Worker : WF_vars(WorkerStep(w))
    /\ \A s \in Sweep : WF_vars(Claim(s))
    /\ \A m \in Msg : WF_vars(Age(m))

FairSpec == Spec /\ Fairness

-----------------------------------------------------------------------------
(* Properties                                                              *)

\* Every variable has the type its declaration says, and fallbackSeen stays
\* within its limit.
TypeOK ==
    /\ status \in [Msg -> Status]
    /\ old \subseteq Msg
    /\ seen \in Seq(Msg) /\ Len(seen) <= FallbackCap
    /\ pc \in [Worker -> Pc]
    /\ posted \in [Post -> SUBSET Msg]
    /\ unread \in [Post -> SUBSET Msg]
    /\ todo \in [Worker -> SUBSET Item]
    /\ item \in [Worker -> Item \cup {NoItem}]
    /\ acked \subseteq Msg
    /\ dropped \subseteq GreenMsg
    /\ ran \in [Msg -> Nat]
    /\ posts \in Nat
    /\ crashes \in Nat
    /\ faults \in Nat

Orphan(m) ==
    status[m] = "processing" /\ \A w \in Worker : ~Holds(w, RowItem(m))

\* No row is ever in two hands: the age limit and the single UPDATE of
\* claimPending keep POST handlers, start-up sweep and periodic sweep apart,
\* as long as a POST is done with its rows within 60 seconds.
SingleOwner ==
    \A m \in Msg : \A v, w \in Worker :
        Holds(v, RowItem(m)) /\ Holds(w, RowItem(m)) => v = w

\* A message is handled again only on account of a crash or of a query the
\* database refused: each of these costs at most one repetition, whatever
\* is redelivered, swept or processed at the same time.
RepetitionsArePaidFor ==
    \A m \in Msg : ran[m] <= 1 + crashes + faults

\* An ACKed message the table does not have and nobody has run or holds.
Lost(m) ==
    /\ m \in acked
    /\ status[m] = "absent"
    /\ ran[m] = 0
    /\ \A p \in Post : ~Holds(p, FallbackItem(m))

\* One failure costs no message (webhook.ts:10-12).  A row that is claimed and
\* that nobody works on took two, one that left it pending and one that
\* interrupted the sweep which had claimed it; an ACKed message without a row
\* took a refused INSERT and a crash.
OneFailureIsRecovered ==
    (\E m \in Msg : Orphan(m) \/ Lost(m)) => crashes + faults >= 2

\* A queued message gets a verdict, by its POST or by a later sweep, unless
\* it is claimed and then orphaned.
PendingSettles ==
    \A m \in Msg : status[m] = "pending" ~>
                       (status[m] \in {"done", "failed"} \/ Orphan(m))
=============================================================================
