---------------------------- MODULE ScheduledJobs -----------------------------
(***************************************************************************)
(* The cron jobs that message people on their own account: the digests and *)
(* the equipment reminder, the due-date and the pre-inspection reminder,   *)
(* the assignment card, the two deadline alerts, the completion notice and *)
(* the legacy daily summary.  Every instance of the server fires every job *)
(* at every tick of its cadence; an advisory lock lets one instance run it *)
(* at a time, and a ledger (a log table or a stamp on the row) keeps a run *)
(* from repeating what an earlier one has done.                            *)
(*                                                                         *)
(* A behaviour follows one job, chosen at the start: the jobs share no     *)
(* lock and no ledger.  A subject is what the job messages about: a user's *)
(* digest, a task, a visit.  Each job is the program it runs for one       *)
(* subject, a sequence of queries and sends that fail one by one.          *)
(* Four jobs take the first so many rows of a queue at each tick.          *)
(***************************************************************************)
EXTENDS Integers, Sequences, FiniteSets

CONSTANTS
    Instance,    \* server instances
    Subject,     \* what the job messages about
    Job,         \* the jobs to look at
    Limit,       \* the LIMITs of the jobs' queries to look at
    Cadence,     \* minutes between two ticks
    Lead,        \* minutes a reminder may be ahead of its time
    Minute,      \* bound: the minutes subjects are set for
    LastTick,    \* bound: ticks of the day
    MaxFailures, \* bound: queries refused and sends failed
    MaxDrops,    \* bound: sends the transport drops without an error
    MaxCrashes,  \* bound: crashes of an instance
    MaxMoves     \* bound: changes of the time of a subject, deletions

Digest   == {"morning", "equipment", "leads"}
Ledgered == Digest \cup {"dueReminder", "preReminder", "assignmentCard",
                         "exceeded", "completion"}
AllJobs  == Ledgered \cup {"approaching", "summary"}

ASSUME JobsAssumption ==
    /\ Instance # {}
    /\ Job \subseteq AllJobs
    /\ Limit \subseteq Nat \ {0} /\ Limit # {}
    /\ Cadence \in Nat \ {0}
    /\ Minute \subseteq Nat
    /\ {Lead, LastTick, MaxFailures, MaxDrops, MaxCrashes, MaxMoves} \subseteq Nat

VARIABLES
    job,        \* the job this behaviour is about
    limit,      \* the LIMIT of its query
    reach,      \* subjects there is somebody to write to about
    now,        \* the last tick
    time,       \* time[s]: the minute s is set for
    since,      \* since[s]: the tick after which that was its time
    armed,      \* instances whose callback of this tick has not run yet
    running,    \* instances inside the job; the holder of the lock
    begun,      \* begun[i]: the tick at which i's run started
    pos,        \* pos[i][s]: the step i is at with s; 0 when done with it
    ledger,     \* subjects on record as dealt with
    sent,       \* sent[s]: messages about s that reached the network
    nothing,    \* subjects recorded because there was nothing to send
    dropped,    \* subjects a message about which was dropped
    hit,        \* hit[s]: ticks at which a fault or a crash met s
    turns,      \* turns[s]: ticks at which a run took up s
    late,       \* ticks that found the run of an earlier one at work
    failures, crashes, moves

setting == <<job, limit, reach>>
clock   == <<now, armed, turns, late>>
jbounds == <<failures, crashes, moves>>
history == <<sent, nothing, dropped>>
jvars   == <<job, limit, reach, now, time, since, armed, running, begun, pos,
             ledger, sent, nothing, dropped, hit, turns, late, failures, crashes,
             moves>>

Idle == [s \in Subject |-> 0]

-----------------------------------------------------------------------------
(* What each job does for one subject.                                     *)

\* Mutant: the digest is marked as sent before it is.
DispatchMarked == <<"check", "record", "build", "send">>

\* dispatchOne: look into the ledger, build the content, send, record.
DispatchOne == <<"check", "build", "send", "record">>

\* dispatchSashaLeadsMorning: the content takes two queries and the AI.
DispatchLeadsMorning == <<"check", "build", "send", "record">>

\* maybeDispatchEquipmentReminder: inspections or checklist may be empty.
DispatchEquipment == <<"check", "plan", "send", "record">>

\* The row of runDueDateReminder; the details are read after the ledger.
RemindDue == <<"check", "build", "send", "record">>

\* sendAndStampPreReminder
SendAndStampPreReminder == <<"send", "record">>

\* sendAndStampAssignmentCard; building looks for the worker's phone and
\* reads the equipment labels.
SendAndStampCard == <<"build", "send", "record">>

\* runDeadlineExceededAlert: the managers, one message about all tasks to
\* each, then one row per task.
AlertExceeded == <<"build", "send", "record">>

\* runCompletionNotifier: the row is inserted before the send.
NotifyCompletion == <<"claim", "send">>

\* runDeadlineApproachingAlert and runDailySummary keep no ledger.
AlertApproaching == <<"send">>
DailySummary == <<"send">>

Program ==
    [j \in AllJobs |->
        CASE j = "morning"        -> DispatchOne
          [] j = "leads"          -> DispatchLeadsMorning
          [] j = "equipment"      -> DispatchEquipment
          [] j = "dueReminder"    -> RemindDue
          [] j = "preReminder"    -> SendAndStampPreReminder
          [] j = "assignmentCard" -> SendAndStampCard
          [] j = "exceeded"       -> AlertExceeded
          [] j = "completion"     -> NotifyCompletion
          [] j = "approaching"    -> AlertApproaching
          [] j = "summary"        -> DailySummary]

\* All rows at once (Promise.allSettled), one after the other, or, for the
\* overdue tasks, one message for the whole batch.
Parallel == {"dueReminder", "approaching", "summary"}
Batched  == {"exceeded"}

-----------------------------------------------------------------------------
(* When a subject is due at minute m, its own time being t.                *)

IsDigestDue(t, m) == 0 <= m - t /\ m - t < Cadence

DueReminder(t, m)    == t > m /\ t <= m + Lead
DuePreReminder(t, m) == t > m /\ t <= m + Lead
Exceeded(t, m)       == t < m
Approaching(t, m)    == m <= t /\ t <= m + Lead

\* Visits without a card, tasks set DONE, users with open tasks: from the
\* minute they are there.
Present(t, m) == t <= m

DueAt(t, m) ==
    CASE job \in Digest       -> IsDigestDue(t, m)
      [] job = "dueReminder"  -> DueReminder(t, m)
      [] job = "preReminder"  -> DuePreReminder(t, m)
      [] job = "exceeded"     -> Exceeded(t, m)
      [] job = "approaching"  -> Approaching(t, m)
      [] OTHER                -> Present(t, m)

\* The queries of these jobs leave out what is in the ledger already, and
\* take the first of the rest up to their LIMIT.
Filtered == {"preReminder", "assignmentCard", "exceeded", "completion"}

\* ORDER BY: the newest first for tasks set DONE, else the oldest.
Ahead(r, s) == IF job = "completion" THEN time[r] > time[s] ELSE time[r] < time[s]

\* WHERE; nothing is left of a task that was deleted.
Due ==
    {s \in Subject : /\ DueAt(time[s], Cadence * now)
                     /\ job \in Filtered => s \notin ledger
                     /\ job = "dueReminder" => s \in reach}

\* Mutant: the last of the queue are taken.
SelectedLast ==
    {ss \in SUBSET Due :
        ss # Due => /\ job \in Filtered
                    /\ Cardinality(ss) = limit
                    /\ \A s \in ss, r \in Due \ ss : ~Ahead(s, r)}

\* What the query may return; rows of one minute come in any order.
Selected ==
    {ss \in SUBSET Due :
        IF job \notin Filtered \/ Cardinality(Due) <= limit THEN ss = Due
        ELSE /\ Cardinality(ss) = limit
             /\ \A s \in ss, r \in Due \ ss : ~Ahead(r, s)}

-----------------------------------------------------------------------------
\* A card goes to the phone of its worker, the alerts and the completion
\* notice to the managers, if there are any.
Reachable ==
    CASE job = "assignmentCard"             -> SUBSET Subject
      [] job \in {"exceeded", "completion"} -> {{}, Subject}
      [] OTHER                              -> {Subject}

JobsInit ==
    /\ job \in Job
    /\ limit \in Limit
    /\ reach \in Reachable
    /\ now = 0
    /\ time \in [Subject -> Minute]
    /\ since = [s \in Subject |-> 0]
    /\ armed = {}
    /\ running = {}
    /\ begun = [i \in Instance |-> 0]
    /\ pos = [i \in Instance |-> Idle]
    /\ ledger = {}
    /\ sent = [s \in Subject |-> 0]
    /\ nothing = {}
    /\ dropped = {}
    /\ hit = [s \in Subject |-> {}]
    /\ turns = [s \in Subject |-> {}]
    /\ late = {}
    /\ failures = 0
    /\ crashes = 0
    /\ moves = 0

HitBy(ss, t) == hit' = [s \in Subject |-> IF s \in ss THEN hit[s] \cup {t} ELSE hit[s]]

\* The callbacks of one tick have run before the next one is due; the runs
\* they began may go on.
Tick ==
    /\ now < LastTick
    /\ armed = {}
    /\ now' = now + 1
    /\ armed' = Instance
    /\ UNCHANGED <<setting, time, since, running, begun, pos, ledger, history, hit,
                   turns, late, jbounds>>

\* A run begins with the rows its query returns.
Begin(i) ==
    /\ running' = running \cup {i}
    /\ begun' = [begun EXCEPT ![i] = now]
    /\ \E ss \in Selected :
        /\ pos' = [pos EXCEPT ![i] = [s \in Subject |-> IF s \in ss THEN 1 ELSE 0]]
        /\ turns' = [s \in Subject |->
                        IF s \in ss THEN turns[s] \cup {now} ELSE turns[s]]
    /\ UNCHANGED late

\* Mutant: nobody asks for the lock.
RunUnlocked(i) ==
    /\ i \in armed
    /\ i \notin running
    /\ armed' = armed \ {i}
    /\ Begin(i)
    /\ UNCHANGED <<setting, now, time, since, ledger, history, hit, jbounds>>

\* The lock is taken: by another instance in this tick, or by a run that is
\* longer than the cadence.
SkipTick ==
    /\ late' = late \cup (IF \E k \in running : begun[k] = now THEN {} ELSE {now})
    /\ UNCHANGED <<running, begun, pos, turns>>

\* withJobLock and the query the job starts with.  The lock belongs to the
\* session: whoever finds it taken, also by an earlier run of its own, skips
\* the tick.
WithJobLock(i) ==
    /\ i \in armed
    /\ armed' = armed \ {i}
    /\ IF running = {} THEN Begin(i) ELSE SkipTick
    /\ UNCHANGED <<setting, now, time, since, ledger, history, hit, jbounds>>

\* No connection, no lock or no rows: safe() logs it and waits for the next
\* tick.
StartFails(i) ==
    /\ i \in armed
    /\ running = {}
    /\ failures < MaxFailures
    /\ failures' = failures + 1
    /\ armed' = armed \ {i}
    /\ HitBy(Due, now)
    /\ UNCHANGED <<setting, now, time, since, running, begun, pos, ledger, history,
                   turns, late, crashes, moves>>

\* The job is over: pg_advisory_unlock.
Finish(i) ==
    /\ i \in running
    /\ pos[i] = Idle
    /\ running' = running \ {i}
    /\ UNCHANGED <<setting, clock, time, since, begun, pos, ledger, history, hit, jbounds>>

-----------------------------------------------------------------------------
(* The steps of the programs.                                              *)

At(i, s, op) ==
    /\ i \in running
    /\ pos[i][s] > 0
    /\ Program[job][pos[i][s]] = op
    /\ job \notin Parallel \cup Batched =>
         \A r \in Subject \ {s} : pos[i][r] <= 1

\* Mutant: the last step of a row has a successor.
AfterLast(p) == p + 1

After(p) == IF p = Len(Program[job]) THEN 0 ELSE p + 1

Advance(i, ss) ==
    pos' = [pos EXCEPT ![i] = [s \in Subject |->
                IF s \in ss THEN After(pos[i][s]) ELSE pos[i][s]]]

Drop(i, ss) ==
    pos' = [pos EXCEPT ![i] = [s \in Subject |->
                IF s \in ss THEN 0 ELSE pos[i][s]]]

\* isDigestAlreadySent, and the SELECT on "WhatsappReminderLog".
Check(i, s) ==
    /\ At(i, s, "check")
    /\ IF s \in ledger THEN Drop(i, {s}) ELSE Advance(i, {s})
    /\ UNCHANGED <<setting, clock, time, since, running, begun, ledger, history, hit,
                   jbounds>>

\* Those the message is about: the whole batch, or the row.
About(i, s) ==
    IF job \in Batched THEN {r \in Subject : pos[i][r] > 0} ELSE {s}

\* A digest is built for its row alone, the managers are read once.
Build(i, s) ==
    /\ At(i, s, "build")
    /\ s \in reach
    /\ Advance(i, About(i, s))
    /\ UNCHANGED <<setting, clock, time, since, running, begun, ledger, history, hit,
                   jbounds>>

\* The equipment reminder finds nothing to remind of: that is recorded.
Plan(i, s) ==
    /\ At(i, s, "plan")
    /\ \/ /\ Advance(i, {s})
          /\ UNCHANGED <<ledger, nothing>>
       \/ /\ Drop(i, {s})
          /\ ledger' = ledger \cup {s}
          /\ nothing' = nothing \cup {s}
    /\ UNCHANGED <<setting, clock, time, since, running, begun, sent, dropped, hit,
                   jbounds>>

\* There is no phone, no manager, or no task any more: the job goes on to the
\* next row without an error, and without a record unless one was made.
Skip(i, s) ==
    /\ At(i, s, IF job = "completion" THEN "send" ELSE "build")
    /\ s \notin reach
    /\ Drop(i, About(i, s))
    /\ UNCHANGED <<setting, clock, time, since, running, begun, ledger, history, hit,
                   jbounds>>

\* notify resolves: the message is out, or the transport held it back and
\* resolved all the same.  To the job both look alike.
Send(i, s) ==
    /\ At(i, s, "send")
    /\ job = "completion" => s \in reach
    /\ \/ /\ sent' = [r \in Subject |-> sent[r] + (IF r \in About(i, s) THEN 1 ELSE 0)]
          /\ UNCHANGED dropped
       \/ /\ Cardinality(dropped) < MaxDrops
          /\ dropped' = dropped \cup About(i, s)
          /\ UNCHANGED sent
    /\ Advance(i, About(i, s))
    /\ UNCHANGED <<setting, clock, time, since, running, begun, ledger, nothing, hit,
                   jbounds>>

\* notify rejects.  The message may be out for all that: an answer that came
\* too late, or the text of a long message whose buttons failed.
SendFails(i, s) ==
    /\ At(i, s, "send")
    /\ job = "completion" => s \in reach
    /\ failures < MaxFailures
    /\ failures' = failures + 1
    /\ \E n \in {0, 1} :
         sent' = [r \in Subject |-> sent[r] + (IF r \in About(i, s) THEN n ELSE 0)]
    /\ Drop(i, About(i, s))
    /\ HitBy(About(i, s), begun[i])
    /\ UNCHANGED <<setting, clock, time, since, running, begun, ledger, nothing, dropped,
                   crashes, moves>>

\* INSERT ... ON CONFLICT DO NOTHING, or the stamp on the row.
Record(i, s) ==
    /\ At(i, s, "record")
    /\ ledger' = ledger \cup {s}
    /\ Advance(i, {s})
    /\ UNCHANGED <<setting, clock, time, since, running, begun, history, hit, jbounds>>

\* The INSERT of the completion notice: only who inserts sends.
Claim(i, s) ==
    /\ At(i, s, "claim")
    /\ IF s \in ledger THEN Drop(i, {s}) ELSE Advance(i, {s})
    /\ ledger' = ledger \cup {s}
    /\ UNCHANGED <<setting, clock, time, since, running, begun, history, hit, jbounds>>

\* A query throws.  That costs the row, but a failed claim throws out of the
\* loop and a failed query about the managers leaves no one to write to.
QueryFails(i, s) ==
    /\ \E op \in {"check", "build", "plan", "record", "claim"} :
         At(i, s, op) /\ (op = "build" /\ job = "assignmentCard" => s \in reach)
    /\ failures < MaxFailures
    /\ failures' = failures + 1
    /\ LET lost == IF At(i, s, "claim") THEN {r \in Subject : pos[i][r] > 0}
                   ELSE IF At(i, s, "build") THEN About(i, s)
                   ELSE {s}
       IN Drop(i, lost) /\ HitBy(lost, begun[i])
    /\ UNCHANGED <<setting, clock, time, since, running, begun, ledger, history, crashes,
                   moves>>

-----------------------------------------------------------------------------
\* The session dies with the process, and the lock with the session.
Crash(i) ==
    /\ i \in running \cup armed
    /\ crashes < MaxCrashes
    /\ crashes' = crashes + 1
    /\ running' = running \ {i}
    /\ armed' = armed \ {i}
    /\ pos' = [pos EXCEPT ![i] = Idle]
    /\ hit' = [s \in Subject |-> hit[s]
                 \cup (IF pos[i][s] > 0 THEN {begun[i]} ELSE {})
                 \cup (IF i \in armed THEN {now} ELSE {})]
    /\ UNCHANGED <<setting, now, time, since, begun, ledger, history, turns, late,
                   failures, moves>>

Move(s, t) ==
    /\ moves < MaxMoves
    /\ moves' = moves + 1
    /\ time' = [time EXCEPT ![s] = t]
    /\ since' = [since EXCEPT ![s] = now]

\* upsertDigestPreference; a time past the last tick stands for switched off.
ChangePreference(s, t) ==
    /\ job \in Digest
    /\ Move(s, t)
    /\ UNCHANGED <<setting, clock, running, begun, pos, ledger, history, hit, failures,
                   crashes>>

\* The CRM moves a due date or a visit.  Neither clears what is recorded.
Reschedule(s, t) ==
    /\ job \notin Digest \cup {"assignmentCard", "completion"}
    /\ Move(s, t)
    /\ UNCHANGED <<setting, clock, running, begun, pos, ledger, history, hit, failures,
                   crashes>>

\* A task is deleted under the run that is to remind of it.
Delete(s) ==
    /\ job = "dueReminder"
    /\ s \in reach
    /\ moves < MaxMoves
    /\ moves' = moves + 1
    /\ reach' = reach \ {s}
    /\ UNCHANGED <<job, limit, clock, time, since, running, begun, pos, ledger, history,
                   hit, failures, crashes>>

\* Reassigning a visit clears its stamp for the worker who has it now, and
\* leaves its place in the queue.
Reassign(s) ==
    /\ job = "assignmentCard"
    /\ Move(s, time[s])
    /\ ledger' = ledger \ {s}
    /\ UNCHANGED <<setting, clock, running, begun, pos, history, hit, failures, crashes>>

-----------------------------------------------------------------------------
RowStep(i, s) ==
    \/ Check(i, s) \/ Build(i, s) \/ Plan(i, s) \/ Skip(i, s) \/ Send(i, s)
    \/ Record(i, s) \/ Claim(i, s)

JobsNext ==
    \/ Tick
    \/ \E i \in Instance : WithJobLock(i) \/ StartFails(i) \/ Finish(i) \/ Crash(i)
    \/ \E i \in Instance, s \in Subject :
         RowStep(i, s) \/ SendFails(i, s) \/ QueryFails(i, s)
    \/ \E s \in Subject : Reassign(s) \/ Delete(s)
         \/ \E t \in Minute : ChangePreference(s, t) \/ Reschedule(s, t)

JobsSpec == JobsInit /\ [][JobsNext]_jvars

-----------------------------------------------------------------------------
(* Properties                                                              *)

\* Every variable has the type its declaration says.
JobsTypeOK ==
    /\ job \in Job
    /\ limit \in Limit
    /\ reach \subseteq Subject
    /\ now \in 0 .. LastTick
    /\ time \in [Subject -> Minute]
    /\ since \in [Subject -> 0 .. LastTick]
    /\ armed \subseteq Instance
    /\ running \subseteq Instance
    /\ begun \in [Instance -> 0 .. LastTick]
    /\ pos \in [Instance -> [Subject -> 0 .. Len(Program[job])]]
    /\ ledger \subseteq Subject
    /\ sent \in [Subject -> Nat]
    /\ nothing \subseteq Subject
    /\ dropped \subseteq Subject
    /\ {hit, turns} \subseteq [Subject -> SUBSET (0 .. LastTick)]
    /\ late \subseteq 0 .. LastTick
    /\ failures \in Nat /\ crashes \in Nat /\ moves \in Nat

\* A person hears of a thing twice only on account of a query or a send that
\* failed, a crash, or, for a card, another worker; whatever instances fire
\* and however long a run takes.
SendsPaidFor ==
    job \in Ledgered =>
        \A s \in Subject :
            sent[s] <= 1 + failures + crashes
                         + (IF job = "assignmentCard" THEN moves ELSE 0)

DueTicks(s) ==
    {t \in since[s] + 1 .. now : DueAt(time[s], Cadence * t)}

\* A whole batch of rows from before s was taken up at tick t.
PassedOver(s, t) ==
    /\ job \in Filtered
    /\ \E ss \in SUBSET (Subject \ {s}) :
         /\ Cardinality(ss) = limit
         /\ \A r \in ss : t \in turns[r] /\ (Ahead(s, r) => t <= since[r])

TurnsKept ==
    armed = {} /\ running = {} =>
        \A s \in reach :
            \/ s \in ledger \cup dropped
            \/ sent[s] > 0
            \/ \A t \in DueTicks(s) : t \in hit[s] \cup late \/ PassedOver(s, t)

TurnTakenOnce ==
    job \in Filtered =>
        \A r \in reach : \A t, u \in turns[r] :
            t < u => t \in hit[r] \/ t <= since[r]

\* When the scheduler is at rest, a subject there is somebody to write to
\* about is dealt with once its time has come, or each tick of its window so
\* far met a fault or a crash, came while an earlier run was still at work, or
\* went to a full batch of rows before it in the queue.  And a row takes the
\* turn of those behind it once: if it does so again, its last turn met a
\* fault, its time or worker has changed, or there is nobody to write to.
NothingLost == TurnsKept /\ TurnTakenOnce

\* A subject is on record only if its message went out, there was nothing to
\* say, or the transport dropped it without telling; the completion notice,
\* which is recorded first, may also have failed, be under way, or have found
\* no manager.
RecordedWasSent ==
    \A s \in ledger :
        \/ sent[s] > 0
        \/ s \in nothing \cup dropped
        \/ job = "completion"
           /\ (hit[s] # {} \/ s \notin reach \/ \E i \in Instance : pos[i][s] > 0)
=============================================================================
