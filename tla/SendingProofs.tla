----------------------------- MODULE SendingProofs -----------------------------
(***************************************************************************)
(* What the process sends of its own accord, the transport it sends        *)
(* through, and the monitor of the transport's instance, for any numbers   *)
(* of instances, subjects, prompts, crashes, failures and restarts.        *)
(*                                                                         *)
(* Jobs.  However ticks, runs, crashes and changes of the data interleave: *)
(* every send of a subject is accounted for by an occasion to send it or   *)
(* by something that went wrong, what became of each turn of a subject can *)
(* be said, and what the ledger says was sent was sent.                    *)
(*                                                                         *)
(* Transport.  However prompts, retries, answers and expiries interleave:  *)
(* each copy of a prompt, and each row the log of failures lacks, is       *)
(* accounted for by a send or by an interrupted one, and a number becomes  *)
(* a command of the prompt it answers, of a newer one, or of none.         *)
(*                                                                         *)
(* Monitor.  What the operators read of an outage is in order.             *)
(***************************************************************************)
EXTENDS ScheduledJobs, Outbound, GreenApiHealth, FiniteSetTheorems, TLAPS

USE JobsAssumption

USE DEF setting

-----------------------------------------------------------------------------
(* The jobs.  Every program has one of a few shapes.                      *)

(* Programs.  What a row is at, and what comes next.                       *)

Ops == {"check", "build", "plan", "send", "record", "claim"}

\* What a row at step p of program P is at.
OpAt(P, p) == IF p = 0 THEN "none" ELSE P[p]

\* In the program of job j, next comes after op.
Follows(j, op, next) ==
    /\ op \in Ops
    /\ op = "check" => next \in {"build", "plan"}
    /\ op \in {"build", "plan", "claim"} => next = "send"
    /\ op = "send" =>
         next = IF j \in Ledgered \ {"completion"} THEN "record" ELSE "none"
    /\ op = "record" => next = "none"
    /\ op \in {"check", "build", "plan", "record"} => j \in Ledgered \ {"completion"}
    /\ op = "plan" => j = "equipment"
    /\ op \in {"check", "plan"} => j \notin Filtered
    /\ op = "claim" => j = "completion"
    /\ j = "completion" => op \in {"claim", "send"}

\* It begins with op.
Begins(j, op) ==
    /\ op \in Ops \ {"record"}
    /\ j \in Filtered => op # "check"
    /\ j = "completion" => op = "claim"
    /\ j \in Ledgered \ Filtered => op = "check"

\* The shape of the program P of job j.
Shape(j, P) ==
    /\ Len(P) \in Nat
    /\ Len(P) >= 1
    /\ \A p \in 1 .. Len(P) :
        Follows(j, P[p], OpAt(P, IF p = Len(P) THEN 0 ELSE p + 1))
    /\ Begins(j, P[1])

LEMMA OneStep ==
    ASSUME NEW j \in {"approaching", "summary"}
    PROVE  Shape(j, <<"send">>)
BY DEF Shape, Follows, Begins, OpAt, Ops, Ledgered, Digest, Filtered

LEMMA TwoSteps ==
    /\ Shape("completion", <<"claim", "send">>)
    /\ Shape("preReminder", <<"send", "record">>)
<1>1. \A p \in 1 .. 2 : p = 1 \/ p = 2
      OBVIOUS
<1> QED BY <1>1 DEF Shape, Follows, Begins, OpAt, Ops, Ledgered, Digest, Filtered

LEMMA ThreeSteps ==
    ASSUME NEW j \in {"assignmentCard", "exceeded"}
    PROVE  Shape(j, <<"build", "send", "record">>)
<1>1. \A p \in 1 .. 3 : p = 1 \/ p = 2 \/ p = 3
      OBVIOUS
<1> QED BY <1>1 DEF Shape, Follows, Begins, OpAt, Ops, Ledgered, Digest, Filtered

LEMMA FourSteps ==
    /\ \A j \in {"morning", "leads", "dueReminder"} :
          Shape(j, <<"check", "build", "send", "record">>)
    /\ Shape("equipment", <<"check", "plan", "send", "record">>)
<1>1. \A p \in 1 .. 4 : p = 1 \/ p = 2 \/ p = 3 \/ p = 4
      OBVIOUS
<1> QED BY <1>1 DEF Shape, Follows, Begins, OpAt, Ops, Ledgered, Digest, Filtered

\* Each job's program has the shape.
LEMMA Programs == ASSUME NEW j \in AllJobs PROVE Shape(j, Program[j])
<1> USE DEF Program, DispatchOne, DispatchLeadsMorning, DispatchEquipment,
        RemindDue, SendAndStampPreReminder, SendAndStampCard, AlertExceeded,
        NotifyCompletion, AlertApproaching, DailySummary
<1>1. CASE j \in {"morning", "leads", "dueReminder"}
  <2>1. Program[j] = <<"check", "build", "send", "record">>
        BY <1>1
  <2> QED BY <1>1, <2>1, FourSteps
<1>2. CASE j = "equipment"
  <2>1. Program[j] = <<"check", "plan", "send", "record">>
        BY <1>2
  <2> QED BY <1>2, <2>1, FourSteps
<1>3. CASE j = "preReminder"
  <2>1. Program[j] = <<"send", "record">>
        BY <1>3
  <2> QED BY <1>3, <2>1, TwoSteps
<1>4. CASE j \in {"assignmentCard", "exceeded"}
  <2>1. Program[j] = <<"build", "send", "record">>
        BY <1>4
  <2> QED BY <1>4, <2>1, ThreeSteps
<1>5. CASE j = "completion"
  <2>1. Program[j] = <<"claim", "send">>
        BY <1>5
  <2> QED BY <1>5, <2>1, TwoSteps
<1>6. CASE j \in {"approaching", "summary"}
  <2>1. Program[j] = <<"send">>
        BY <1>6
  <2> QED BY <1>6, <2>1, OneStep
<1> QED BY <1>1, <1>2, <1>3, <1>4, <1>5, <1>6 DEF AllJobs, Ledgered, Digest

-----------------------------------------------------------------------------
(* The inductive invariant.                                                *)

Prog == Program[job]

\* What instance i is at with s.
Stage(i, s) == OpAt(Prog, pos[i][s])

\* The lock: one run at a time, and no row is under way outside it.
OneRun ==
    /\ \A i, k \in running : i = k
    /\ \A i \in Instance \ running : pos[i] = Idle

\* What a row that is under way says of the ledger and of what was sent.
Row(i, s) ==
    /\ Stage(i, s) = "record" => sent[s] > 0 \/ s \in dropped
    /\ job \in Ledgered /\ s \in ledger =>
         Stage(i, s) \in {"none", "check"}
         \/ (job = "completion" /\ Stage(i, s) = "send")
    /\ job = "completion" /\ Stage(i, s) = "send" => s \in ledger

\* The rows of a batch are at the same step until it has been sent.
InStep(i) ==
    job \in Batched =>
        \A r, s \in Subject :
            Stage(i, s) \in {"build", "send"} => Stage(i, r) \in {"none", Stage(i, s)}

\* The next message about s is still to come, if nothing fails.
MaySend(s) ==
    IF job = "completion"
    THEN s \notin ledger \/ \E i \in Instance : Stage(i, s) = "send"
    ELSE s \notin ledger /\ \A i \in Instance : Stage(i, s) # "record"

Once(s)  == IF MaySend(s) THEN 1 ELSE 0
Paid     == failures + crashes + (IF job = "assignmentCard" THEN moves ELSE 0)
Account  == job \in Ledgered => \A s \in Subject : sent[s] + Once(s) <= 1 + Paid

\* Run i, begun at tick t, is still to come to s.
UnderWay(i, s, t) == begun[i] = t /\ pos[i][s] > 0

\* What became of the turn of s at tick t, or is still to turn to s.
Covered(s, t) ==
    \/ t \in hit[s] \cup late
    \/ PassedOver(s, t)
    \/ t = now /\ armed # {} /\ \A i \in running : begun[i] < now
    \/ \E i \in running : UnderWay(i, s, t)

Settled(s) == s \in ledger \cup dropped \/ sent[s] > 0

NoTickLost == \A s \in reach : Settled(s) \/ \A t \in DueTicks(s) : Covered(s, t)

\* What a turn of s at tick t has led to.
Served(s, t) ==
    \/ t \in hit[s]
    \/ t <= since[s]
    \/ s \in ledger
    \/ \E i \in running : UnderWay(i, s, t)

Queue ==
    /\ \A i \in Instance : begun[i] <= now
    /\ \A s \in Subject : since[s] <= now /\ \A t \in turns[s] : t <= now
    /\ job \in Batched => reach \in {{}, Subject}
    /\ job \in Filtered => \A s \in reach : \A t \in turns[s] : Served(s, t)
    /\ TurnTakenOnce

JobsInv ==
    /\ JobsTypeOK
    /\ OneRun
    /\ \A i \in Instance : InStep(i) /\ \A s \in Subject : Row(i, s)
    /\ RecordedWasSent
    /\ Account
    /\ NoTickLost
    /\ Queue

LEMMA InvImplies == JobsInv => RecordedWasSent /\ SendsPaidFor /\ NothingLost
<1> SUFFICES ASSUME JobsInv PROVE SendsPaidFor /\ NothingLost
    BY DEF JobsInv
<1>1. SendsPaidFor
  <2> SUFFICES ASSUME job \in Ledgered, NEW s \in Subject
               PROVE  sent[s] <= 1 + failures + crashes
                                   + (IF job = "assignmentCard" THEN moves ELSE 0)
      BY DEF SendsPaidFor
  <2>1. sent[s] + Once(s) <= 1 + Paid /\ Once(s) \in {0, 1}
        BY DEF JobsInv, Account, Once
  <2>2. sent[s] \in Nat /\ failures \in Nat /\ crashes \in Nat /\ moves \in Nat
        BY DEF JobsInv, JobsTypeOK
  <2> QED BY <2>1, <2>2 DEF Paid
<1>2. NothingLost
      BY DEF JobsInv, NoTickLost, NothingLost, TurnsKept, Settled, Covered, Queue
<1> QED BY <1>1, <1>2

\* What comes after a step, by the step alone.
LEMMA NextStep ==
    ASSUME JobsTypeOK
    PROVE  /\ Len(Prog) \in Nat \ {0}
           /\ Begins(job, OpAt(Prog, 1))
           /\ \A p \in 0 .. Len(Prog) :
                /\ OpAt(Prog, p) = "none" <=> p = 0
                /\ p > 0 => /\ After(p) \in 0 .. Len(Prog)
                            /\ Follows(job, OpAt(Prog, p), OpAt(Prog, After(p)))
<1>1. job \in AllJobs
      BY DEF JobsTypeOK
<1>2. Shape(job, Prog)
      BY <1>1, Programs DEF Prog
<1>3. Len(Prog) \in Nat \ {0}
      BY <1>2 DEF Shape
<1>4. ASSUME NEW p \in 0 .. Len(Prog), p > 0
      PROVE  /\ OpAt(Prog, p) = Prog[p] /\ p \in 1 .. Len(Prog)
             /\ After(p) = (IF p = Len(Prog) THEN 0 ELSE p + 1)
             /\ After(p) \in 0 .. Len(Prog)
      BY <1>3, <1>4 DEF OpAt, After, Prog
<1>5. OpAt(Prog, 0) = "none" /\ "none" \notin Ops
      BY DEF OpAt, Ops
<1>6. ASSUME NEW p \in 0 .. Len(Prog), p > 0
      PROVE  Follows(job, OpAt(Prog, p), OpAt(Prog, After(p)))
  <2>1. Follows(job, Prog[p], OpAt(Prog, IF p = Len(Prog) THEN 0 ELSE p + 1))
        BY <1>2, <1>4, <1>6 DEF Shape
  <2> QED BY <1>4, <1>6, <2>1
<1>7. ASSUME NEW p \in 0 .. Len(Prog), p > 0
      PROVE  OpAt(Prog, p) # "none"
      BY <1>5, <1>6, <1>7 DEF Follows
<1>8. Begins(job, OpAt(Prog, 1))
  <2>1. OpAt(Prog, 1) = Prog[1]
        BY DEF OpAt
  <2> QED BY <1>2, <2>1 DEF Shape
<1> QED BY <1>3, <1>4, <1>5, <1>6, <1>7, <1>8

LEMMA InitJobs == JobsInit => JobsInv
<1> SUFFICES ASSUME JobsInit PROVE JobsInv
    OBVIOUS
<1>1. JobsTypeOK
  <2>1. pos \in [Instance -> [Subject -> 0 .. Len(Program[job])]]
    <3>1. Shape(job, Program[job])
          BY Programs DEF JobsInit
    <3>2. 0 \in 0 .. Len(Program[job])
          BY <3>1 DEF Shape
    <3> QED BY <3>2 DEF JobsInit, Idle
  <2>2. reach \subseteq Subject
        BY DEF JobsInit, Reachable
  <2> QED BY <2>1, <2>2 DEF JobsInit, JobsTypeOK
<1>2. \A i \in Instance, s \in Subject : Stage(i, s) = "none"
      BY DEF JobsInit, Idle, Stage, OpAt
<1>3. OneRun
      BY DEF JobsInit, OneRun
<1>4. \A i \in Instance : InStep(i) /\ \A s \in Subject : Row(i, s)
      BY <1>2 DEF InStep, Row
<1>5. RecordedWasSent
      BY DEF JobsInit, RecordedWasSent
<1>6. Account
      BY DEF JobsInit, Account, Once, Paid
<1>7. NoTickLost
  <2>1. \A s \in Subject : DueTicks(s) = {}
        BY DEF JobsInit, DueTicks
  <2> QED BY <1>1, <2>1 DEF NoTickLost, JobsTypeOK
<1>8. Queue
  <2>1. job \in Batched => reach \in {{}, Subject}
        BY DEF JobsInit, Reachable, Batched
  <2>2. \A s \in Subject : turns[s] = {}
        BY DEF JobsInit
  <2>3. /\ \A i \in Instance : begun[i] <= now
        /\ \A s \in Subject : since[s] <= now
        BY DEF JobsInit
  <2> QED BY <1>1, <2>1, <2>2, <2>3 DEF Queue, TurnTakenOnce, JobsTypeOK
<1> QED BY <1>1, <1>3, <1>4, <1>5, <1>6, <1>7, <1>8 DEF JobsInv

-----------------------------------------------------------------------------
(* The queue: who had a turn, and what came of it.                         *)

\* A turn that went to rows before s stays with them, unless they move.
LEMMA PassedStays ==
    ASSUME NEW s, NEW t, PassedOver(s, t), UNCHANGED <<job, limit>>,
           time'[s] = time[s],
           \A r \in Subject : /\ turns[r] \subseteq turns'[r]
                             /\ \/ time'[r] = time[r] /\ since'[r] = since[r]
                                \/ t <= since'[r]
    PROVE  PassedOver(s, t)'
<1>1. PICK ss \in SUBSET (Subject \ {s}) :
         /\ Cardinality(ss) = limit
         /\ \A r \in ss : t \in turns[r] /\ (Ahead(s, r) => t <= since[r])
      BY DEF PassedOver
<1>2. \A r \in ss : t \in turns'[r] /\ (Ahead(s, r)' => t <= since'[r])
      BY <1>1 DEF Ahead
<1> QED BY <1>1, <1>2 DEF PassedOver

\* Steps that give no row a turn.
LEMMA QueueStays ==
    ASSUME JobsInv, UNCHANGED <<job, turns>>,
           reach' \subseteq reach, job \in Batched => reach' = reach,
           now' \in Nat, now <= now', begun' = begun,
           \A s \in Subject : hit[s] \subseteq hit'[s],
           UNCHANGED since \/ \E s \in Subject : since' = [since EXCEPT ![s] = now],
           job \in Filtered => \A s \in reach' :
             /\ s \in ledger => s \in ledger' \/ since'[s] = now
             /\ \A i \in running : \A t \in Nat : UnderWay(i, s, t) =>
                   s \in ledger' \/ t \in hit'[s] \/ \E k \in running' : UnderWay(k, s, t)'
    PROVE  Queue'
<1>1. JobsTypeOK /\ Queue /\ reach \subseteq Subject /\ now \in Nat
      BY DEF JobsInv, JobsTypeOK
<1>2. \A i \in Instance : begun'[i] <= now'
  <2>1. \A i \in Instance : begun[i] \in Nat
        BY <1>1 DEF JobsTypeOK
  <2> QED BY <1>1, <2>1 DEF Queue
<1>3. \A s \in Subject : turns[s] \subseteq Nat /\ since[s] \in Nat /\ since[s] <= now
      BY <1>1 DEF JobsTypeOK, Queue
<1>3a. \A s \in Subject : since'[s] \in Nat /\ since[s] <= since'[s] /\ since'[s] <= now
  <2>1. since \in [Subject -> 0 .. LastTick]
        BY <1>1 DEF JobsTypeOK
  <2> QED BY <1>1, <1>3, <2>1
<1>4. \A s \in Subject : since'[s] <= now' /\ \A t \in turns'[s] : t <= now'
      BY <1>1, <1>3, <1>3a DEF Queue
<1>5. (job \in Filtered => \A s \in reach : \A t \in turns[s] : Served(s, t))'
  <2> SUFFICES ASSUME job \in Filtered, NEW s \in reach', NEW t \in turns[s]
               PROVE  Served(s, t)'
      OBVIOUS
  <2>1. Served(s, t) /\ t \in Nat /\ s \in Subject /\ t <= now
        BY <1>1, <1>3 DEF Queue
  <2> QED BY <1>1, <1>3, <1>3a, <2>1 DEF Served
<1>6. TurnTakenOnce'
  <2> SUFFICES ASSUME job \in Filtered, NEW r \in reach', NEW t \in turns[r],
                      NEW u \in turns[r], t < u
               PROVE  t \in hit'[r] \/ t <= since'[r]
      BY DEF TurnTakenOnce
  <2>1. r \in Subject /\ t \in Nat /\ (t \in hit[r] \/ t <= since[r])
        BY <1>1, <1>3 DEF Queue, TurnTakenOnce
  <2> QED BY <1>3, <1>3a, <2>1
<1>7. (job \in Batched => reach \in {{}, Subject})'
      BY <1>1 DEF Queue
<1> QED BY <1>2, <1>4, <1>5, <1>6, <1>7 DEF Queue

-----------------------------------------------------------------------------
(* The steps of a run.                                                     *)

\* With i at work, whether a message about s may follow is a matter of i.
NextByRun(i, s) ==
    IF job = "completion" THEN s \notin ledger \/ Stage(i, s) = "send"
    ELSE s \notin ledger /\ Stage(i, s) # "record"

LEMMA ByRun ==
    ASSUME OneRun, NEW i \in running, running \subseteq Instance, NEW s \in Subject
    PROVE  /\ MaySend(s) <=> NextByRun(i, s)
           /\ \A k \in Instance \ {i} : Stage(k, s) = "none" /\ pos[k] = Idle
<1>1. \A k \in Instance \ {i} : pos[k] = Idle
      BY DEF OneRun
<1>2. \A k \in Instance \ {i} : Stage(k, s) = "none"
      BY <1>1 DEF Stage, OpAt, Idle
<1> QED BY <1>1, <1>2 DEF MaySend, NextByRun

\* Run i takes a step with its rows; f is where they are then.
Turn(i, f) ==
    /\ i \in running
    /\ pos' = [pos EXCEPT ![i] = f]
    /\ f \in [Subject -> 0 .. Len(Prog)]
    /\ UNCHANGED <<setting, clock, time, since, running, begun, crashes, moves>>
    /\ ledger' \subseteq Subject /\ nothing' \subseteq Subject /\ dropped' \subseteq Subject
    /\ sent' \in [Subject -> Nat]
    /\ hit' \in [Subject -> SUBSET (0 .. LastTick)]
    /\ failures' \in Nat

\* What it owes each row.
Pays(i, s) ==
    /\ Row(i, s)'
    /\ s \in ledger' => \/ sent'[s] > 0
                        \/ s \in nothing' \cup dropped'
                        \/ job = "completion"
                           /\ (hit'[s] # {} \/ s \notin reach \/ Stage(i, s)' = "send")
    /\ job \in Ledgered =>
         sent'[s] + (IF NextByRun(i, s)' THEN 1 ELSE 0) + failures
            <= sent[s] + (IF NextByRun(i, s) THEN 1 ELSE 0) + failures'
    /\ Settled(s) => Settled(s)'
    /\ s \in ledger => s \in ledger'
    /\ hit[s] \subseteq hit'[s]
    /\ pos[i][s] > 0 => \/ pos'[i][s] > 0
                        \/ begun[i] \in hit'[s]
                        \/ s \notin reach
                        \/ s \in ledger'
                        \/ job \notin Filtered /\ Settled(s)'

LEMMA TurnKeeps ==
    ASSUME JobsInv, NEW i, NEW f, Turn(i, f), InStep(i)', \A s \in Subject : Pays(i, s)
    PROVE  JobsInv'
<1>1. /\ JobsTypeOK /\ OneRun /\ i \in Instance
      /\ running' = running /\ running \subseteq Instance
      /\ \A k \in Instance \ {i} : pos'[k] = pos[k]
      /\ pos'[i] = f
      BY DEF JobsInv, JobsTypeOK, Turn
<1>2. JobsTypeOK'
      BY DEF JobsInv, JobsTypeOK, Turn, Prog, clock
<1>3. OneRun'
      BY <1>1 DEF OneRun, Turn
<1>4. ASSUME NEW s \in Subject
      PROVE  /\ MaySend(s) <=> NextByRun(i, s)
             /\ MaySend(s)' <=> NextByRun(i, s)'
             /\ \A k \in Instance \ {i} : Stage(k, s)' = "none"
  <2>1. MaySend(s) <=> NextByRun(i, s)
        BY <1>1, ByRun DEF Turn
  <2>2. \A k \in Instance \ {i} : pos'[k] = Idle
        BY <1>1 DEF OneRun, Turn
  <2>3. \A k \in Instance \ {i} : Stage(k, s)' = "none"
        BY <2>2 DEF Stage, OpAt, Idle
  <2>4. MaySend(s)' <=> NextByRun(i, s)'
        BY <1>1, <2>3 DEF MaySend, NextByRun
  <2> QED BY <2>1, <2>3, <2>4
<1>5. ASSUME NEW k \in Instance PROVE InStep(k)' /\ \A s \in Subject : Row(k, s)'
  <2>1. CASE k = i
        BY <2>1 DEF Pays
  <2>2. CASE k # i
        BY <1>4, <2>2 DEF InStep, Row
  <2> QED BY <2>1, <2>2
<1>6. RecordedWasSent'
  <2> SUFFICES ASSUME NEW s \in ledger'
               PROVE  \/ sent'[s] > 0
                      \/ s \in nothing' \cup dropped'
                      \/ job' = "completion"
                         /\ (hit'[s] # {} \/ s \notin reach'
                             \/ \E k \in Instance : pos'[k][s] > 0)
      BY DEF RecordedWasSent
  <2>1. s \in Subject /\ job' = job /\ reach' = reach
        BY DEF Turn
  <2>2. Stage(i, s)' = "send" => pos'[i][s] > 0
    <3>1. Stage(i, s)' # "none" => pos'[i][s] # 0
          BY DEF Stage, OpAt
    <3>2. pos'[i][s] \in 0 .. Len(Prog) /\ Len(Prog) \in Nat
          BY <1>1, <2>1, NextStep DEF Turn
    <3> QED BY <3>1, <3>2
  <2> QED BY <1>1, <2>1, <2>2 DEF Pays
<1>7. Account'
  <2> SUFFICES ASSUME job' \in Ledgered, NEW s \in Subject
               PROVE  sent'[s] + Once(s)' <= 1 + Paid'
      BY DEF Account
  <2>1. /\ sent'[s] + Once(s)' + failures <= sent[s] + Once(s) + failures'
        /\ Once(s) \in {0, 1} /\ Once(s)' \in {0, 1}
        BY <1>4 DEF Pays, Once, Turn
  <2>2. sent[s] + Once(s) <= 1 + Paid
        BY DEF JobsInv, Account, Turn
  <2>3. /\ sent[s] \in Nat /\ sent'[s] \in Nat /\ failures \in Nat /\ failures' \in Nat
        /\ crashes \in Nat /\ moves \in Nat
        BY <1>1, <1>2 DEF JobsTypeOK
  <2>4. Paid' = failures' + crashes + (IF job = "assignmentCard" THEN moves ELSE 0)
        BY DEF Paid, Turn
  <2> QED BY <2>1, <2>2, <2>3, <2>4 DEF Paid
<1>8. NoTickLost'
  <2> SUFFICES ASSUME NEW s \in reach', ~Settled(s)', NEW t \in DueTicks(s)'
               PROVE  Covered(s, t)'
      BY DEF NoTickLost
  <2>1. s \in reach /\ s \in Subject
        BY <1>1 DEF Turn, JobsTypeOK
  <2>2. ~Settled(s) /\ t \in DueTicks(s)
        BY <2>1 DEF Pays, DueTicks, Turn, clock, DueAt
  <2>3. Covered(s, t)
        BY <2>1, <2>2 DEF JobsInv, NoTickLost
  <2>4. PassedOver(s, t) => PassedOver(s, t)'
        BY PassedStays DEF Turn, clock
  <2>5. \A k \in running : UnderWay(k, s, t) => UnderWay(k, s, t)' \/ t \in hit'[s]
        BY <1>1, <2>1 DEF UnderWay, Pays, Turn, OneRun, Settled
  <2> QED BY <1>1, <2>1, <2>3, <2>4, <2>5 DEF Covered, Pays, Turn, clock
<1>9. Queue'
  <2>1. /\ UNCHANGED <<job, turns, reach, now, begun, since, running>>
        /\ now \in Nat /\ reach \subseteq Subject
        BY <1>1 DEF Turn, clock, JobsTypeOK
  <2>2. \A s \in Subject : hit[s] \subseteq hit'[s]
        BY <2>1 DEF Pays
  <2>3. ASSUME job \in Filtered, NEW s \in reach, NEW k \in running, NEW t,
               UnderWay(k, s, t)
        PROVE  s \in ledger' \/ t \in hit'[s] \/ UnderWay(k, s, t)'
    <3>1. k = i /\ s \in Subject
          BY <1>1, <2>1 DEF OneRun, Turn
    <3> QED BY <2>1, <2>3, <3>1 DEF UnderWay, Pays
  <2>4. \A s \in reach : s \in ledger => s \in ledger'
        BY <2>1 DEF Pays
  <2> QED BY <2>1, <2>2, <2>3, <2>4, QueueStays
<1> QED BY <1>2, <1>3, <1>5, <1>6, <1>7, <1>8, <1>9 DEF JobsInv

\* A step of a program, and where it leads.
LEMMA AtStep ==
    ASSUME JobsTypeOK, NEW i, NEW s \in Subject, NEW op, At(i, s, op)
    PROVE  /\ i \in running /\ i \in Instance
           /\ pos[i][s] \in 1 .. Len(Prog)
           /\ Stage(i, s) = op
           /\ After(pos[i][s]) \in 0 .. Len(Prog)
           /\ Follows(job, op, OpAt(Prog, After(pos[i][s])))
<1>1. i \in running /\ i \in Instance /\ pos[i][s] > 0
      BY DEF At, JobsTypeOK
<1>2. pos[i][s] \in 0 .. Len(Prog)
      BY <1>1 DEF JobsTypeOK, Prog
<1>3. pos[i][s] \in 1 .. Len(Prog)
      BY <1>1, <1>2, NextStep
<1>4. Stage(i, s) = op
      BY <1>1 DEF At, Stage, OpAt, Prog
<1> QED BY <1>1, <1>2, <1>3, <1>4, NextStep DEF Stage

\* Where the rows are after a turn.
LEMMA StageAfter ==
    ASSUME JobsTypeOK, NEW i, NEW f, Turn(i, f), NEW r
    PROVE  pos'[i] = f /\ Stage(i, r)' = OpAt(Prog, f[r])
<1>1. i \in Instance /\ pos'[i] = f /\ job' = job
      BY DEF Turn, JobsTypeOK
<1> QED BY <1>1 DEF Stage, Prog

\* A row the turn does not touch is owed nothing.
LEMMA Untouched ==
    ASSUME JobsInv, NEW i, NEW f, Turn(i, f), NEW r \in Subject,
           f[r] = pos[i][r], sent'[r] = sent[r], r \in ledger' <=> r \in ledger,
           r \in dropped => r \in dropped', r \in nothing => r \in nothing',
           hit[r] \subseteq hit'[r], failures <= failures'
    PROVE  Pays(i, r)
<1>1. /\ JobsTypeOK /\ i \in Instance /\ i \in running
      /\ pos'[i][r] = pos[i][r] /\ Stage(i, r)' = Stage(i, r) /\ job' = job
  <2>1. JobsTypeOK
        BY DEF JobsInv
  <2>2. pos'[i] = f /\ Stage(i, r)' = OpAt(Prog, f[r])
        BY <2>1, StageAfter
  <2> QED BY <2>1, <2>2 DEF JobsTypeOK, Turn, Stage
<1>2. Row(i, r)'
  <2>1. Row(i, r)
        BY <1>1 DEF JobsInv
  <2> QED BY <1>1, <2>1 DEF Row
<1>3. r \in ledger' => \/ sent'[r] > 0
                       \/ r \in nothing' \cup dropped'
                       \/ job = "completion"
                          /\ (hit'[r] # {} \/ r \notin reach \/ Stage(i, r)' = "send")
  <2> SUFFICES ASSUME r \in ledger, ~(sent[r] > 0), r \notin nothing \cup dropped
               PROVE  job = "completion"
                      /\ (hit'[r] # {} \/ r \notin reach \/ Stage(i, r)' = "send")
      OBVIOUS
  <2>1. job = "completion"
        /\ (hit[r] # {} \/ r \notin reach \/ \E k \in Instance : pos[k][r] > 0)
        BY DEF JobsInv, RecordedWasSent
  <2>2. CASE hit[r] # {} \/ r \notin reach
        BY <2>1, <2>2
  <2>3. CASE \E k \in Instance : pos[k][r] > 0
    <3>1. pos[i][r] > 0
          BY <2>3, <1>1 DEF JobsInv, OneRun, Idle
    <3>2. pos[i][r] \in 0 .. Len(Prog)
          BY <1>1 DEF JobsTypeOK, Prog
    <3>3. Stage(i, r) # "none"
          BY <1>1, <3>1, <3>2, NextStep DEF Stage
    <3>4. Row(i, r) /\ job \in Ledgered
          BY <1>1, <2>1 DEF JobsInv, Ledgered
    <3>5. Stage(i, r) # "check"
      <4>1. Follows(job, Stage(i, r), OpAt(Prog, After(pos[i][r])))
            BY <1>1, <3>1, <3>2, NextStep DEF Stage
      <4> QED BY <2>1, <4>1 DEF Follows
    <3> QED BY <1>1, <2>1, <3>3, <3>4, <3>5 DEF Row
  <2> QED BY <2>1, <2>2, <2>3
<1>4. NextByRun(i, r)' <=> NextByRun(i, r)
      BY <1>1 DEF NextByRun
<1>5. sent[r] \in Nat /\ failures \in Nat /\ failures' \in Nat
      BY <1>1 DEF JobsTypeOK, Turn
<1>6. sent'[r] + (IF NextByRun(i, r)' THEN 1 ELSE 0) + failures
        <= sent[r] + (IF NextByRun(i, r) THEN 1 ELSE 0) + failures'
      BY <1>4, <1>5
<1>7. Settled(r) => Settled(r)'
      BY DEF Settled
<1> QED BY <1>1, <1>2, <1>3, <1>6, <1>7 DEF Pays

\* A batch stays in step while rows only leave it.
LEMMA StillInStep ==
    ASSUME JobsInv, NEW i, NEW f, Turn(i, f),
           \A r \in Subject : Stage(i, r)' \in {"none", Stage(i, r)}
    PROVE  InStep(i)'
<1>1. InStep(i) /\ job' = job
      BY DEF JobsInv, JobsTypeOK, Turn
<1> QED BY <1>1 DEF InStep

\* Jobs without a batch have none to keep in step.
LEMMA NoBatch ==
    ASSUME NEW i, NEW f, Turn(i, f), job # "exceeded"
    PROVE  InStep(i)'
BY DEF InStep, Turn, Batched

LEMMA CheckKeeps ==
    ASSUME JobsInv, NEW i \in Instance, NEW s \in Subject, Check(i, s)
    PROVE  JobsInv'
<1> DEFINE next == IF s \in ledger THEN 0 ELSE After(pos[i][s])
           f    == [r \in Subject |-> IF r = s THEN next ELSE pos[i][r]]
<1>1. JobsTypeOK
      BY DEF JobsInv
<1>2. /\ i \in running /\ pos[i][s] \in 1 .. Len(Prog) /\ Stage(i, s) = "check"
      /\ After(pos[i][s]) \in 0 .. Len(Prog)
      /\ Follows(job, "check", OpAt(Prog, After(pos[i][s])))
      BY <1>1, AtStep DEF Check
<1>3. pos' = [pos EXCEPT ![i] = f]
      BY DEF Check, Drop, Advance
<1>4. f \in [Subject -> 0 .. Len(Prog)]
  <2>1. \A r \in Subject : pos[i][r] \in 0 .. Len(Prog)
        BY <1>1 DEF JobsTypeOK, Prog
  <2> QED BY <1>2, <2>1
<1>5. Turn(i, f)
      BY <1>1, <1>2, <1>3, <1>4 DEF Check, Turn, JobsTypeOK, history, jbounds
<1> HIDE DEF f
<1>6. Stage(i, s)' = OpAt(Prog, next) /\ pos'[i] = f
      BY <1>1, <1>5, StageAfter DEF f
<1>7. Stage(i, s)' \in {"none", "build", "plan"} /\ (s \in ledger => Stage(i, s)' = "none")
      BY <1>2, <1>6 DEF Follows, OpAt
<1>8. Pays(i, s)
  <2>1. UNCHANGED <<job, begun, ledger, sent, nothing, dropped, hit, failures>>
        BY DEF Check, history, jbounds
  <2>2. job # "completion" /\ job # "exceeded"
        BY <1>2 DEF Follows, Filtered
  <2>3. Row(i, s)'
        BY <1>7, <2>1, <2>2 DEF Row
  <2>4. s \in ledger => sent[s] > 0 \/ s \in nothing \cup dropped
        BY <2>2 DEF JobsInv, RecordedWasSent
  <2>5. sent[s] \in Nat /\ failures \in Nat
        BY <1>1 DEF JobsTypeOK
  <2>6. NextByRun(i, s)' => NextByRun(i, s)
        BY <1>2, <2>1, <2>2 DEF NextByRun
  <2>7. sent'[s] + (IF NextByRun(i, s)' THEN 1 ELSE 0) + failures
          <= sent[s] + (IF NextByRun(i, s) THEN 1 ELSE 0) + failures'
        BY <2>1, <2>5, <2>6
  <2>8. pos'[i][s] > 0 \/ s \in ledger'
    <3>1. CASE s \in ledger
          BY <3>1, <2>1
    <3>2. CASE s \notin ledger
      <4>1. Stage(i, s)' \in {"build", "plan"}
            BY <1>2, <1>6, <3>2 DEF Follows
      <4>2. next # 0 /\ pos'[i][s] = next
            BY <1>6, <4>1 DEF OpAt, f
      <4> QED BY <1>2, <4>2
    <3> QED BY <3>1, <3>2
  <2> QED BY <2>1, <2>3, <2>4, <2>7, <2>8 DEF Pays, Settled
<1>9. \A r \in Subject \ {s} : Pays(i, r)
  <2> SUFFICES ASSUME NEW r \in Subject \ {s} PROVE Pays(i, r)
      OBVIOUS
  <2>1. failures \in Nat
        BY <1>1 DEF JobsTypeOK
  <2> QED BY <1>5, <2>1, Untouched DEF Check, history, jbounds, f
<1>10. InStep(i)'
       BY <1>2, <1>5, NoBatch DEF Follows, Filtered
<1> QED BY <1>5, <1>8, <1>9, <1>10, TurnKeeps

\* Rows lost to a failure: the failure pays for what follows.
LEMMA FailureKeeps ==
    ASSUME JobsInv, NEW i \in running, NEW lost \in SUBSET Subject,
           Drop(i, lost), HitBy(lost, begun[i]), failures' = failures + 1,
           UNCHANGED <<setting, clock, time, since, running, begun, ledger, nothing,
                       dropped, crashes, moves>>,
           sent' \in [Subject -> Nat],
           \A r \in Subject : \/ sent'[r] = sent[r]
                              \/ /\ r \in lost /\ sent'[r] = sent[r] + 1
                                 /\ job \in Ledgered => NextByRun(i, r)
    PROVE  JobsInv'
<1> DEFINE f == [r \in Subject |-> IF r \in lost THEN 0 ELSE pos[i][r]]
<1>1. JobsTypeOK /\ i \in Instance
      BY DEF JobsInv, JobsTypeOK
<1>2. pos' = [pos EXCEPT ![i] = f]
      BY DEF Drop
<1>3. f \in [Subject -> 0 .. Len(Prog)]
  <2>1. \A r \in Subject : pos[i][r] \in 0 .. Len(Prog)
        BY <1>1 DEF JobsTypeOK, Prog
  <2>2. 0 \in 0 .. Len(Prog)
        BY <1>1, NextStep
  <2> QED BY <2>1, <2>2
<1>4. hit' = [s \in Subject |-> IF s \in lost THEN hit[s] \cup {begun[i]} ELSE hit[s]]
      BY DEF HitBy
<1>5. hit' \in [Subject -> SUBSET (0 .. LastTick)]
      BY <1>1, <1>4 DEF JobsTypeOK
<1>6. failures \in Nat /\ failures' \in Nat
      BY <1>1 DEF JobsTypeOK
<1>7. Turn(i, f)
      BY <1>1, <1>2, <1>3, <1>5, <1>6 DEF Turn, JobsTypeOK
<1> HIDE DEF f
<1>8. \A r \in Subject : Stage(i, r)' = OpAt(Prog, f[r]) /\ pos'[i] = f
      BY <1>1, <1>7, StageAfter
<1>9. \A r \in lost : Stage(i, r)' = "none"
      BY <1>8 DEF f, OpAt
<1>10. ASSUME NEW r \in lost PROVE Pays(i, r)
  <2>1. Row(i, r)'
        BY <1>9 DEF Row
  <2>2. r \in ledger => \/ sent'[r] > 0
                        \/ r \in nothing \cup dropped
                        \/ job = "completion"
    <3>1. r \in ledger => \/ sent[r] > 0
                          \/ r \in nothing \cup dropped
                          \/ job = "completion"
          BY DEF JobsInv, RecordedWasSent
    <3>2. sent[r] \in Nat /\ (sent'[r] = sent[r] \/ sent'[r] = sent[r] + 1)
          BY <1>1 DEF JobsTypeOK
    <3> QED BY <3>1, <3>2
  <2>3. hit'[r] # {} /\ begun[i] \in hit'[r] /\ hit[r] \subseteq hit'[r]
        BY <1>4
  <2>4. /\ sent[r] \in Nat
        /\ \/ sent'[r] = sent[r]
           \/ (job \in Ledgered => NextByRun(i, r)) /\ sent'[r] = sent[r] + 1
        BY <1>1 DEF JobsTypeOK
  <2>5. job \in Ledgered => sent'[r] + (IF NextByRun(i, r)' THEN 1 ELSE 0) + failures
          <= sent[r] + (IF NextByRun(i, r) THEN 1 ELSE 0) + failures'
        BY <1>6, <2>4
  <2>6. Settled(r) => Settled(r)'
        BY <2>4 DEF Settled
  <2> QED BY <2>1, <2>2, <2>3, <2>5, <2>6 DEF Pays
<1>11. ASSUME NEW r \in Subject \ lost PROVE Pays(i, r)
       BY <1>4, <1>6, <1>7, Untouched DEF f
<1>12. InStep(i)'
  <2>1. \A r \in Subject \ lost : Stage(i, r)' = Stage(i, r)
        BY <1>8 DEF f, Stage
  <2> QED BY <1>7, <1>9, <2>1, StillInStep
<1> QED BY <1>7, <1>10, <1>11, <1>12, TurnKeeps

\* What a message is about: the rows that wait for it to be sent.
LEMMA AboutRows ==
    ASSUME JobsInv, NEW i, NEW s \in Subject, NEW op \in {"build", "send"}, At(i, s, op)
    PROVE  /\ About(i, s) \in SUBSET Subject /\ s \in About(i, s)
           /\ \A r \in About(i, s) : At(i, r, op) \/ (job \in Batched /\ Stage(i, r) = op
                                                         /\ pos[i][r] \in 1 .. Len(Prog))
<1>1. JobsTypeOK
      BY DEF JobsInv
<1>2. i \in Instance /\ i \in running /\ Stage(i, s) = op /\ pos[i][s] \in 1 .. Len(Prog)
      BY <1>1, AtStep
<1>3. CASE job \in Batched
  <2> SUFFICES ASSUME NEW r \in Subject, pos[i][r] > 0
               PROVE  Stage(i, r) = op /\ pos[i][r] \in 1 .. Len(Prog)
      BY <1>2, <1>3 DEF About
  <2>1. pos[i][r] \in 0 .. Len(Prog) /\ Len(Prog) \in Nat
        BY <1>1, <1>2, NextStep DEF JobsTypeOK, Prog
  <2>2. Stage(i, r) # "none"
        BY <1>1, <2>1, NextStep DEF Stage
  <2> QED BY <1>2, <1>3, <2>1, <2>2 DEF JobsInv, InStep
<1>4. CASE job \notin Batched
      BY <1>4 DEF About
<1> QED BY <1>3, <1>4

LEMMA SendFailsKeeps ==
    ASSUME JobsInv, NEW i \in Instance, NEW s \in Subject, SendFails(i, s)
    PROVE  JobsInv'
<1>1. JobsTypeOK /\ At(i, s, "send") /\ i \in running
      BY DEF JobsInv, SendFails, At
<1>2. About(i, s) \in SUBSET Subject /\ \A r \in About(i, s) : Stage(i, r) = "send"
      BY <1>1, AboutRows, AtStep
<1>3. \A r \in About(i, s) : job \in Ledgered => NextByRun(i, r)
      BY <1>2 DEF JobsInv, Row, NextByRun
<1>4. PICK n \in {0, 1} :
         sent' = [r \in Subject |-> sent[r] + (IF r \in About(i, s) THEN n ELSE 0)]
      BY DEF SendFails
<1>5. sent \in [Subject -> Nat]
      BY <1>1 DEF JobsTypeOK
<1>6. sent' \in [Subject -> Nat]
      BY <1>4, <1>5
<1>7. \A r \in Subject : \/ sent'[r] = sent[r]
                         \/ r \in About(i, s) /\ sent'[r] = sent[r] + 1
      BY <1>4, <1>5
<1> QED BY <1>1, <1>2, <1>3, <1>6, <1>7, FailureKeeps DEF SendFails

LEMMA QueryFailsKeeps ==
    ASSUME JobsInv, NEW i \in Instance, NEW s \in Subject, QueryFails(i, s)
    PROVE  JobsInv'
<1> DEFINE lost == IF At(i, s, "claim") THEN {r \in Subject : pos[i][r] > 0}
                   ELSE IF At(i, s, "build") THEN About(i, s)
                   ELSE {s}
<1>1. JobsTypeOK /\ i \in running
      BY DEF JobsInv, QueryFails, At
<1>2. lost \in SUBSET Subject
      BY DEF About
<1>3. sent' = sent /\ sent \in [Subject -> Nat]
      BY <1>1 DEF QueryFails, history, JobsTypeOK
<1>4. Drop(i, lost) /\ HitBy(lost, begun[i])
      BY DEF QueryFails
<1> HIDE DEF lost
<1> QED BY <1>1, <1>2, <1>3, <1>4, FailureKeeps DEF QueryFails, history

\* Rows that go on to their next step.
LEMMA AdvanceTurns ==
    ASSUME JobsTypeOK, NEW i \in running, NEW ss \in SUBSET Subject, Advance(i, ss),
           \A r \in ss : pos[i][r] \in 1 .. Len(Prog),
           UNCHANGED <<setting, clock, time, since, running, begun, crashes, moves, hit,
                       failures>>,
           ledger' \subseteq Subject, nothing' \subseteq Subject,
           dropped' \subseteq Subject, sent' \in [Subject -> Nat]
    PROVE  LET f == [r \in Subject |-> IF r \in ss THEN After(pos[i][r]) ELSE pos[i][r]]
           IN  /\ Turn(i, f)
               /\ pos'[i] = f
               /\ \A r \in ss : /\ Stage(i, r)' = OpAt(Prog, After(pos[i][r]))
                                /\ Follows(job, Stage(i, r), Stage(i, r)')
                                /\ pos'[i][r] = 0 <=> Stage(i, r)' = "none"
                                /\ pos'[i][r] \in 0 .. Len(Prog)
               /\ \A r \in Subject \ ss : f[r] = pos[i][r] /\ Stage(i, r)' = Stage(i, r)
<1> DEFINE f == [r \in Subject |-> IF r \in ss THEN After(pos[i][r]) ELSE pos[i][r]]
<1>1. pos' = [pos EXCEPT ![i] = f] /\ i \in Instance
      BY DEF Advance, JobsTypeOK
<1>2. \A r \in ss : /\ After(pos[i][r]) \in 0 .. Len(Prog)
                    /\ Follows(job, Stage(i, r), OpAt(Prog, After(pos[i][r])))
                    /\ After(pos[i][r]) = 0 <=> OpAt(Prog, After(pos[i][r])) = "none"
  <2> SUFFICES ASSUME NEW r \in ss
               PROVE  /\ After(pos[i][r]) \in 0 .. Len(Prog)
                      /\ Follows(job, Stage(i, r), OpAt(Prog, After(pos[i][r])))
                      /\ After(pos[i][r]) = 0 <=> OpAt(Prog, After(pos[i][r])) = "none"
      OBVIOUS
  <2>1. pos[i][r] \in 0 .. Len(Prog) /\ pos[i][r] > 0
        BY NextStep
  <2> QED BY <2>1, NextStep DEF Stage
<1>3. f \in [Subject -> 0 .. Len(Prog)]
  <2>1. \A r \in Subject : pos[i][r] \in 0 .. Len(Prog)
        BY <1>1 DEF JobsTypeOK, Prog
  <2> QED BY <1>2, <2>1
<1>4. Turn(i, f)
      BY <1>1, <1>3 DEF Turn, JobsTypeOK
<1>5. \A r \in Subject : /\ r \in ss => f[r] = After(pos[i][r])
                         /\ r \notin ss => f[r] = pos[i][r]
      OBVIOUS
<1> HIDE DEF f
<1>6. pos'[i] = f /\ \A r : Stage(i, r)' = OpAt(Prog, f[r])
      BY <1>1, <1>4, StageAfter
<1>7. \A r \in ss : /\ Stage(i, r)' = OpAt(Prog, After(pos[i][r]))
                    /\ Follows(job, Stage(i, r), Stage(i, r)')
                    /\ pos'[i][r] = 0 <=> Stage(i, r)' = "none"
                    /\ pos'[i][r] \in 0 .. Len(Prog)
      BY <1>2, <1>5, <1>6
<1>8. \A r \in Subject \ ss : f[r] = pos[i][r] /\ Stage(i, r)' = Stage(i, r)
      BY <1>5, <1>6 DEF Stage
<1> QED BY <1>4, <1>6, <1>7, <1>8 DEF f

LEMMA BuildKeeps ==
    ASSUME JobsInv, NEW i \in Instance, NEW s \in Subject, Build(i, s)
    PROVE  JobsInv'
<1> DEFINE ss == About(i, s)
           f  == [r \in Subject |-> IF r \in ss THEN After(pos[i][r]) ELSE pos[i][r]]
<1>1. JobsTypeOK /\ At(i, s, "build") /\ i \in running
      BY DEF JobsInv, Build, At
<1>2. /\ ss \in SUBSET Subject
      /\ \A r \in ss : Stage(i, r) = "build" /\ pos[i][r] \in 1 .. Len(Prog)
      BY <1>1, AboutRows, AtStep
<1>3. Advance(i, ss)
      BY DEF Build
<1>4. /\ ledger' \subseteq Subject /\ nothing' \subseteq Subject
      /\ dropped' \subseteq Subject /\ sent' \in [Subject -> Nat]
      BY <1>1 DEF Build, history, JobsTypeOK
<1> HIDE DEF ss
<1>5. /\ Turn(i, f)
      /\ pos'[i] = f
      /\ \A r \in ss : /\ Follows(job, "build", Stage(i, r)')
                       /\ pos'[i][r] = 0 <=> Stage(i, r)' = "none"
                       /\ pos'[i][r] \in 0 .. Len(Prog)
      /\ \A r \in Subject \ ss : f[r] = pos[i][r] /\ Stage(i, r)' = Stage(i, r)
      BY <1>1, <1>2, <1>3, <1>4, AdvanceTurns DEF Build, history, jbounds
<1> HIDE DEF f
<1>6. \A r \in ss : Stage(i, r)' = "send"
      BY <1>5 DEF Follows
<1>7. /\ UNCHANGED <<job, begun, ledger, sent, nothing, dropped, hit, failures>>
      /\ failures \in Nat
      BY <1>1 DEF Build, history, jbounds, JobsTypeOK
<1>8. ASSUME NEW r \in ss PROVE Pays(i, r)
  <2>1. r \in Subject /\ job \in Ledgered \ {"completion"} /\ r \notin ledger
    <3>1. Row(i, r) /\ r \in Subject
          BY <1>2 DEF JobsInv
    <3> QED BY <1>2, <1>5, <3>1 DEF Follows, Row
  <2>2. NextByRun(i, r) /\ sent[r] \in Nat
        BY <1>1, <1>2, <2>1 DEF NextByRun, JobsTypeOK
  <2>3. Row(i, r)'
        BY <1>6, <1>7, <2>1 DEF Row
  <2>4. pos'[i][r] > 0
        BY <1>2, <1>5, <1>6, <2>1
  <2> QED BY <1>7, <2>1, <2>2, <2>3, <2>4 DEF Pays, Settled
<1>9. ASSUME NEW r \in Subject \ ss PROVE Pays(i, r)
      BY <1>5, <1>7, Untouched
<1>10. InStep(i)'
  <2> SUFFICES ASSUME job \in Batched, NEW r \in Subject
               PROVE  Stage(i, r)' \in {"none", "send"}
      BY <1>7 DEF InStep
  <2>1. r \notin ss => pos[i][r] = 0
    <3>1. pos[i][r] \in 0 .. Len(Prog) /\ Len(Prog) \in Nat
          BY <1>1, NextStep DEF JobsTypeOK, Prog
    <3> QED BY <3>1 DEF ss, About
  <2> QED BY <1>5, <1>6, <2>1 DEF Stage, OpAt
<1> QED BY <1>5, <1>8, <1>9, <1>10, TurnKeeps

LEMMA SendKeeps ==
    ASSUME JobsInv, NEW i \in Instance, NEW s \in Subject, Send(i, s)
    PROVE  JobsInv'
<1> DEFINE ss == About(i, s)
           f  == [r \in Subject |-> IF r \in ss THEN After(pos[i][r]) ELSE pos[i][r]]
<1>1. JobsTypeOK /\ At(i, s, "send") /\ i \in running
      BY DEF JobsInv, Send, At
<1>2. /\ ss \in SUBSET Subject
      /\ \A r \in ss : Stage(i, r) = "send" /\ pos[i][r] \in 1 .. Len(Prog)
      BY <1>1, AboutRows, AtStep
<1>3. sent \in [Subject -> Nat] /\ dropped \subseteq Subject /\ failures \in Nat
      BY <1>1 DEF JobsTypeOK
<1> HIDE DEF ss
<1>4. /\ sent' \in [Subject -> Nat] /\ dropped' \subseteq Subject
      /\ dropped \subseteq dropped'
      /\ \A r \in ss : \/ sent'[r] = sent[r] /\ r \in dropped'
                       \/ sent'[r] = sent[r] + 1
      /\ \A r \in Subject \ ss : sent'[r] = sent[r]
  <2>1. CASE /\ sent' = [r \in Subject |-> sent[r] + (IF r \in ss THEN 1 ELSE 0)]
             /\ UNCHANGED dropped
        BY <1>2, <1>3, <2>1
  <2>2. CASE dropped' = dropped \cup ss /\ UNCHANGED sent
        BY <1>2, <1>3, <2>2
  <2> QED BY <2>1, <2>2 DEF Send, ss
<1>5. /\ UNCHANGED <<job, begun, ledger, nothing, hit, failures>>
      /\ ledger' \subseteq Subject /\ nothing' \subseteq Subject
      BY <1>1 DEF Send, jbounds, JobsTypeOK
<1>6. /\ Turn(i, f)
      /\ pos'[i] = f
      /\ \A r \in ss : /\ Follows(job, "send", Stage(i, r)')
                       /\ pos'[i][r] = 0 <=> Stage(i, r)' = "none"
                       /\ pos'[i][r] \in 0 .. Len(Prog)
      /\ \A r \in Subject \ ss : f[r] = pos[i][r] /\ Stage(i, r)' = Stage(i, r)
      BY <1>1, <1>2, <1>4, <1>5, AdvanceTurns DEF Send, jbounds, ss
<1> HIDE DEF f
<1>7. \A r \in ss : Stage(i, r)' = IF job \in Ledgered \ {"completion"}
                                   THEN "record" ELSE "none"
      BY <1>6 DEF Follows
<1>8. ASSUME NEW r \in ss PROVE Pays(i, r)
  <2>1. Row(i, r) /\ r \in Subject
        BY <1>1, <1>2 DEF JobsInv, JobsTypeOK
  <2>2. job \in Ledgered => NextByRun(i, r)
        BY <1>2, <2>1 DEF Row, NextByRun
  <2>3. job \in Ledgered => ~NextByRun(i, r)'
        BY <1>2, <1>5, <1>7, <2>1 DEF Row, NextByRun
  <2>4. sent'[r] > 0 \/ r \in dropped'
        BY <1>3, <1>4, <2>1
  <2>5. Row(i, r)'
        BY <1>2, <1>5, <1>7, <2>1, <2>4 DEF Row
  <2>6. job \in Ledgered =>
          sent'[r] + (IF NextByRun(i, r)' THEN 1 ELSE 0) + failures
            <= sent[r] + (IF NextByRun(i, r) THEN 1 ELSE 0) + failures'
        BY <1>3, <1>4, <1>5, <2>1, <2>2, <2>3
  <2>7. \/ pos'[i][r] > 0 \/ r \in ledger'
        \/ job \notin Filtered /\ Settled(r)'
    <3>1. CASE job \notin Filtered
          BY <2>4, <3>1 DEF Settled
    <3>2. CASE job = "completion"
          BY <1>2, <1>5, <2>1, <3>2 DEF Row
    <3>3. CASE job \in Filtered \ {"completion"}
      <4>1. Stage(i, r)' = "record"
            BY <1>7, <3>3 DEF Filtered, Ledgered
      <4> QED BY <1>2, <1>6, <4>1
    <3> QED BY <3>1, <3>2, <3>3
  <2> QED BY <1>5, <2>4, <2>5, <2>6, <2>7 DEF Pays, Settled
<1>9. ASSUME NEW r \in Subject \ ss PROVE Pays(i, r)
  <2>1. /\ f[r] = pos[i][r] /\ sent'[r] = sent[r]
        /\ r \in dropped => r \in dropped'
        /\ failures <= failures'
        BY <1>3, <1>4, <1>5, <1>6
  <2> QED BY <1>5, <1>6, <2>1, Untouched
<1>10. InStep(i)'
  <2> SUFFICES ASSUME job \in Batched, NEW r \in Subject
               PROVE  Stage(i, r)' \in {"none", "record"}
      BY <1>5 DEF InStep
  <2>1. r \notin ss => pos[i][r] = 0
    <3>1. pos[i][r] \in 0 .. Len(Prog) /\ Len(Prog) \in Nat
          BY <1>1, NextStep DEF JobsTypeOK, Prog
    <3> QED BY <3>1 DEF ss, About
  <2> QED BY <1>6, <1>7, <2>1 DEF Stage, OpAt
<1> QED BY <1>6, <1>8, <1>9, <1>10, TurnKeeps

LEMMA SkipKeeps ==
    ASSUME JobsInv, NEW i \in Instance, NEW s \in Subject, Skip(i, s)
    PROVE  JobsInv'
<1> DEFINE ss == About(i, s)
           f  == [r \in Subject |-> IF r \in ss THEN 0 ELSE pos[i][r]]
<1>1. PICK op \in {"build", "send"} :
         At(i, s, op) /\ (op = "send" <=> job = "completion")
      BY DEF Skip
<1>2. /\ JobsTypeOK /\ i \in running
      /\ UNCHANGED <<job, begun, ledger, sent, nothing, dropped, hit, failures, reach>>
      /\ pos' = [pos EXCEPT ![i] = f]
      BY DEF JobsInv, Skip, At, Drop, history, jbounds
<1>3. /\ ss \in SUBSET Subject
      /\ \A r \in ss : Stage(i, r) = op /\ pos[i][r] \in 1 .. Len(Prog)
      BY <1>1, <1>2, AboutRows, AtStep
<1>4. \A r \in ss : r \notin reach
      BY DEF Skip, JobsInv, Queue, About
<1> HIDE DEF ss
<1>5. f \in [Subject -> 0 .. Len(Prog)]
  <2>1. \A r \in Subject : pos[i][r] \in 0 .. Len(Prog)
        BY <1>2 DEF JobsTypeOK, Prog
  <2>2. 0 \in 0 .. Len(Prog)
        BY <1>2, NextStep
  <2> QED BY <2>1, <2>2
<1>6. Turn(i, f)
      BY <1>2, <1>5 DEF Skip, Turn, JobsTypeOK, jbounds
<1>7. \A r \in Subject : /\ r \in ss => f[r] = 0
                         /\ r \notin ss => f[r] = pos[i][r]
      OBVIOUS
<1> HIDE DEF f
<1>8. \A r : Stage(i, r)' = OpAt(Prog, f[r])
      BY <1>2, <1>6, StageAfter
<1>9. ASSUME NEW r \in ss PROVE Pays(i, r)
  <2>1. r \in Subject /\ Stage(i, r)' = "none" /\ r \notin reach
        BY <1>3, <1>4, <1>7, <1>8 DEF OpAt
  <2>2. Row(i, r)'
        BY <2>1 DEF Row
  <2>3. NextByRun(i, r)' => NextByRun(i, r)
        BY <1>1, <1>2, <1>3, <2>1 DEF NextByRun
  <2>4. sent[r] \in Nat /\ failures \in Nat
        BY <1>2, <2>1 DEF JobsTypeOK
  <2>5. sent'[r] + (IF NextByRun(i, r)' THEN 1 ELSE 0) + failures
          <= sent[r] + (IF NextByRun(i, r) THEN 1 ELSE 0) + failures'
        BY <1>2, <2>3, <2>4
  <2>6. r \in ledger => \/ sent[r] > 0
                        \/ r \in nothing \cup dropped
                        \/ job = "completion"
        BY DEF JobsInv, RecordedWasSent
  <2> QED BY <1>2, <2>1, <2>2, <2>5, <2>6 DEF Pays, Settled
<1>10. ASSUME NEW r \in Subject \ ss PROVE Pays(i, r)
  <2>1. failures \in Nat
        BY <1>2 DEF JobsTypeOK
  <2> QED BY <1>2, <1>6, <1>7, <2>1, Untouched
<1>11. InStep(i)'
  <2>1. \A r \in Subject : Stage(i, r)' \in {"none", Stage(i, r)}
        BY <1>7, <1>8 DEF OpAt, Stage
  <2> QED BY <1>6, <2>1, StillInStep
<1> QED BY <1>6, <1>9, <1>10, <1>11, TurnKeeps

LEMMA RecordKeeps ==
    ASSUME JobsInv, NEW i \in Instance, NEW s \in Subject, Record(i, s)
    PROVE  JobsInv'
<1> DEFINE f == [r \in Subject |-> IF r \in {s} THEN After(pos[i][r]) ELSE pos[i][r]]
<1>1. /\ JobsTypeOK /\ At(i, s, "record") /\ i \in running
      /\ Stage(i, s) = "record" /\ pos[i][s] \in 1 .. Len(Prog)
      BY AtStep DEF JobsInv, Record, At
<1>2. /\ UNCHANGED <<job, begun, sent, nothing, dropped, hit, failures>>
      /\ ledger' = ledger \cup {s}
      BY DEF Record, history, jbounds
<1>3. /\ ledger' \subseteq Subject /\ nothing' \subseteq Subject
      /\ dropped' \subseteq Subject /\ sent' \in [Subject -> Nat] /\ failures \in Nat
      BY <1>1, <1>2 DEF JobsTypeOK
<1>4. /\ Turn(i, f)
      /\ pos'[i] = f
      /\ Follows(job, "record", Stage(i, s)')
      /\ \A r \in Subject \ {s} : f[r] = pos[i][r] /\ Stage(i, r)' = Stage(i, r)
      BY <1>1, <1>2, <1>3, AdvanceTurns DEF Record, history, jbounds
<1> HIDE DEF f
<1>5. Stage(i, s)' = "none" /\ job \in Ledgered \ {"completion"}
      BY <1>4 DEF Follows
<1>6. Pays(i, s)
  <2>1. sent[s] > 0 \/ s \in dropped
        BY <1>1 DEF JobsInv, Row
  <2>2. Row(i, s)'
        BY <1>2, <1>5 DEF Row
  <2>3. ~NextByRun(i, s)'
        BY <1>2, <1>5 DEF NextByRun
  <2>4. sent[s] \in Nat
        BY <1>1 DEF JobsTypeOK
  <2> QED BY <1>2, <1>3, <2>1, <2>2, <2>3, <2>4 DEF Pays, Settled
<1>7. ASSUME NEW r \in Subject \ {s} PROVE Pays(i, r)
      BY <1>2, <1>3, <1>4, Untouched
<1>8. InStep(i)'
  <2>1. \A r \in Subject : Stage(i, r)' \in {"none", Stage(i, r)}
        BY <1>4, <1>5
  <2> QED BY <1>4, <2>1, StillInStep
<1> QED BY <1>4, <1>6, <1>7, <1>8, TurnKeeps

LEMMA ClaimKeeps ==
    ASSUME JobsInv, NEW i \in Instance, NEW s \in Subject, Claim(i, s)
    PROVE  JobsInv'
<1> DEFINE f == [r \in Subject |-> IF r \in {s} THEN After(pos[i][r]) ELSE pos[i][r]]
<1>1. /\ JobsTypeOK /\ At(i, s, "claim") /\ i \in running
      /\ Stage(i, s) = "claim" /\ pos[i][s] \in 1 .. Len(Prog)
      /\ job = "completion"
      BY AtStep DEF JobsInv, Claim, At, Follows
<1>2. s \notin ledger
  <2>1. Row(i, s)
        BY DEF JobsInv
  <2> QED BY <1>1, <2>1 DEF Row, Ledgered
<1>3. /\ UNCHANGED <<job, begun, sent, nothing, dropped, hit, failures>>
      /\ ledger' = ledger \cup {s}
      /\ Advance(i, {s})
      BY <1>2 DEF Claim, history, jbounds
<1>4. /\ ledger' \subseteq Subject /\ nothing' \subseteq Subject
      /\ dropped' \subseteq Subject /\ sent' \in [Subject -> Nat] /\ failures \in Nat
      BY <1>1, <1>3 DEF JobsTypeOK
<1>5. /\ Turn(i, f)
      /\ pos'[i] = f
      /\ Follows(job, "claim", Stage(i, s)')
      /\ pos'[i][s] = 0 <=> Stage(i, s)' = "none"
      /\ pos'[i][s] \in 0 .. Len(Prog)
      /\ \A r \in Subject \ {s} : f[r] = pos[i][r] /\ Stage(i, r)' = Stage(i, r)
      BY <1>1, <1>3, <1>4, AdvanceTurns DEF Claim, history, jbounds
<1> HIDE DEF f
<1>6. Stage(i, s)' = "send"
      BY <1>5 DEF Follows
<1>7. Pays(i, s)
  <2>1. Row(i, s)'
        BY <1>1, <1>3, <1>6 DEF Row
  <2>2. NextByRun(i, s) /\ sent[s] \in Nat
        BY <1>1, <1>2 DEF NextByRun, JobsTypeOK
  <2> QED BY <1>1, <1>3, <1>4, <1>6, <2>1, <2>2 DEF Pays, Settled
<1>8. ASSUME NEW r \in Subject \ {s} PROVE Pays(i, r)
      BY <1>3, <1>4, <1>5, Untouched
<1> QED BY <1>1, <1>5, <1>7, <1>8, NoBatch, TurnKeeps

LEMMA PlanKeeps ==
    ASSUME JobsInv, NEW i \in Instance, NEW s \in Subject, Plan(i, s)
    PROVE  JobsInv'
<1>1. /\ JobsTypeOK /\ At(i, s, "plan") /\ i \in running
      /\ Stage(i, s) = "plan" /\ pos[i][s] \in 1 .. Len(Prog)
      /\ Follows(job, "plan", OpAt(Prog, After(pos[i][s])))
      BY AtStep DEF JobsInv, Plan, At
<1>2. job = "equipment" /\ job \in Ledgered /\ s \notin ledger /\ NextByRun(i, s)
  <2>1. job = "equipment" /\ job \in Ledgered
        BY <1>1 DEF Follows
  <2>2. Row(i, s)
        BY DEF JobsInv
  <2> QED BY <1>1, <2>1, <2>2 DEF Row, NextByRun
<1>3. UNCHANGED <<job, begun, sent, dropped, hit, failures>>
      BY DEF Plan, jbounds
<1>4. /\ sent' \in [Subject -> Nat] /\ dropped' \subseteq Subject /\ failures \in Nat
      /\ sent[s] \in Nat
      BY <1>1, <1>3 DEF JobsTypeOK
<1>5. CASE Advance(i, {s}) /\ UNCHANGED <<ledger, nothing>>
  <2> DEFINE f == [r \in Subject |-> IF r \in {s} THEN After(pos[i][r]) ELSE pos[i][r]]
  <2>1. ledger' \subseteq Subject /\ nothing' \subseteq Subject
        BY <1>1, <1>5 DEF JobsTypeOK
  <2>2. /\ Turn(i, f)
        /\ pos'[i] = f
        /\ Follows(job, "plan", Stage(i, s)')
        /\ pos'[i][s] = 0 <=> Stage(i, s)' = "none"
        /\ pos'[i][s] \in 0 .. Len(Prog)
        /\ \A r \in Subject \ {s} : f[r] = pos[i][r] /\ Stage(i, r)' = Stage(i, r)
        BY <1>1, <1>4, <1>5, <2>1, AdvanceTurns DEF Plan, jbounds
  <2> HIDE DEF f
  <2>3. Stage(i, s)' = "send"
        BY <2>2 DEF Follows
  <2>4. Pays(i, s)
    <3>1. Row(i, s)'
          BY <1>2, <1>3, <1>5, <2>3 DEF Row
    <3>2. pos'[i][s] > 0
          BY <2>2, <2>3, <1>1
    <3> QED BY <1>2, <1>3, <1>4, <1>5, <3>1, <3>2 DEF Pays, Settled
  <2>5. ASSUME NEW r \in Subject \ {s} PROVE Pays(i, r)
        BY <1>3, <1>4, <1>5, <2>2, Untouched
  <2> QED BY <1>2, <2>2, <2>4, <2>5, NoBatch, TurnKeeps
<1>6. CASE Drop(i, {s}) /\ ledger' = ledger \cup {s} /\ nothing' = nothing \cup {s}
  <2> DEFINE f == [r \in Subject |-> IF r \in {s} THEN 0 ELSE pos[i][r]]
  <2>1. /\ pos' = [pos EXCEPT ![i] = f]
        /\ ledger' \subseteq Subject /\ nothing' \subseteq Subject
        /\ hit' \in [Subject -> SUBSET (0 .. LastTick)] /\ failures' \in Nat
        BY <1>1, <1>3, <1>6 DEF Drop, JobsTypeOK
  <2>2. f \in [Subject -> 0 .. Len(Prog)]
    <3>1. \A r \in Subject : pos[i][r] \in 0 .. Len(Prog)
          BY <1>1 DEF JobsTypeOK, Prog
    <3> QED BY <1>1, <3>1
  <2>3. Turn(i, f)
        BY <1>1, <1>4, <2>1, <2>2 DEF Turn, Plan, jbounds
  <2>4. f[s] = 0 /\ \A r \in Subject \ {s} : f[r] = pos[i][r]
        OBVIOUS
  <2> HIDE DEF f
  <2>5. Stage(i, s)' = "none"
        BY <1>1, <2>3, <2>4, StageAfter DEF OpAt
  <2>6. Row(i, s)' /\ ~NextByRun(i, s)'
        BY <1>2, <1>3, <1>6, <2>5 DEF Row, NextByRun
  <2>7. Pays(i, s)
        BY <1>3, <1>4, <1>6, <2>6 DEF Pays, Settled
  <2>8. ASSUME NEW r \in Subject \ {s} PROVE Pays(i, r)
        BY <1>3, <1>4, <1>6, <2>3, <2>4, Untouched
  <2> QED BY <1>2, <2>3, <2>7, <2>8, NoBatch, TurnKeeps
<1> QED BY <1>5, <1>6 DEF Plan

-----------------------------------------------------------------------------
(* The steps of the scheduler, and changes from outside.                   *)

\* Steps that leave every row where it is.
LEMMA RowsStay ==
    ASSUME JobsInv, JobsTypeOK', UNCHANGED <<job, pos, ledger, history, crashes>>,
           reach' \subseteq reach,
           \A s \in Subject : hit[s] \subseteq hit'[s],
           failures' >= failures, moves' >= moves
    PROVE  /\ (\A i \in Instance : InStep(i) /\ \A s \in Subject : Row(i, s))'
           /\ RecordedWasSent'
           /\ Account'
<1>1. \A i, s : Stage(i, s)' = Stage(i, s)
      BY DEF Stage, Prog
<1>2. (\A i \in Instance : InStep(i) /\ \A s \in Subject : Row(i, s))'
  <2>1. \A i \in Instance : InStep(i) /\ \A s \in Subject : Row(i, s)
        BY DEF JobsInv
  <2> QED BY <1>1, <2>1 DEF InStep, Row, history
<1>3. RecordedWasSent'
  <2>1. RecordedWasSent /\ ledger \subseteq Subject
        BY DEF JobsInv, JobsTypeOK
  <2>2. \A s \in ledger : hit[s] # {} => hit'[s] # {}
        BY <2>1
  <2> QED BY <2>1, <2>2 DEF RecordedWasSent, history
<1>4. Account'
  <2> SUFFICES ASSUME job \in Ledgered, NEW s \in Subject
               PROVE  sent'[s] + Once(s)' <= 1 + Paid'
      BY DEF Account
  <2>1. Once(s)' = Once(s) /\ Once(s) \in {0, 1} /\ sent' = sent
        BY <1>1 DEF Once, MaySend, history
  <2>2. sent[s] + Once(s) <= 1 + Paid
        BY DEF JobsInv, Account
  <2>3. /\ sent[s] \in Nat /\ failures \in Nat /\ failures' \in Nat
        /\ crashes \in Nat /\ moves \in Nat /\ moves' \in Nat
        BY DEF JobsInv, JobsTypeOK
  <2> QED BY <2>1, <2>2, <2>3 DEF Paid
<1> QED BY <1>2, <1>3, <1>4

\* Steps that leave the data, and what was covered covered.
LEMMA StillCovered ==
    ASSUME JobsInv, UNCHANGED <<job, limit, now, time, since, ledger, history>>,
           reach' \subseteq reach,
           \A r \in Subject : turns[r] \subseteq turns'[r],
           \A s \in Subject : \A t \in 0 .. now :
              Covered(s, t) /\ t \in DueTicks(s) /\ s \notin ledger
                => Covered(s, t)' \/ PassedOver(s, t)
    PROVE  NoTickLost'
<1> SUFFICES ASSUME NEW s \in reach', ~Settled(s)', NEW t \in DueTicks(s)'
             PROVE  Covered(s, t)'
    BY DEF NoTickLost
<1>1. s \in reach /\ s \in Subject
      BY DEF JobsInv, JobsTypeOK
<1>2. ~Settled(s) /\ t \in DueTicks(s) /\ s \notin ledger
      BY DEF history, Settled, DueTicks, DueAt
<1>3. Covered(s, t)
      BY <1>1, <1>2 DEF JobsInv, NoTickLost
<1>4. t \in 0 .. now
      BY <1>1, <1>2 DEF JobsInv, JobsTypeOK, DueTicks
<1>5. PassedOver(s, t) => PassedOver(s, t)'
      BY PassedStays
<1> QED BY <1>1, <1>2, <1>3, <1>4, <1>5 DEF Covered

LEMMA TickKeeps == ASSUME JobsInv, Tick PROVE JobsInv'
<1>1. /\ JobsTypeOK /\ now \in 0 .. LastTick /\ now \in Nat /\ LastTick \in Nat
      /\ reach \subseteq Subject
      BY DEF JobsInv, JobsTypeOK
<1>2. /\ now' = now + 1 /\ now' \in 0 .. LastTick /\ armed = {} /\ armed' = Instance
      /\ UNCHANGED <<setting, time, since, running, begun, pos, ledger, history, hit,
                     turns, late, jbounds>>
      BY <1>1 DEF Tick
<1>3. JobsTypeOK'
      BY <1>1, <1>2 DEF JobsTypeOK, history, jbounds
<1>4. /\ (\A i \in Instance : InStep(i) /\ \A s \in Subject : Row(i, s))'
      /\ RecordedWasSent' /\ Account'
  <2>1. failures' >= failures /\ moves' >= moves
        BY <1>1, <1>2 DEF JobsTypeOK, jbounds
  <2> QED BY <1>2, <1>3, <2>1, RowsStay DEF jbounds
<1>5. OneRun'
      BY <1>2 DEF JobsInv, OneRun
<1>6. NoTickLost'
  <2> SUFFICES ASSUME NEW s \in reach, ~Settled(s)', NEW t \in DueTicks(s)'
               PROVE  Covered(s, t)'
      BY <1>2 DEF NoTickLost
  <2>1. ~Settled(s) /\ s \in Subject
        BY <1>1, <1>2 DEF Settled, history
  <2>2. since[s] \in 0 .. LastTick
        BY <1>1, <2>1 DEF JobsTypeOK
  <2>3. t \in since[s] + 1 .. now + 1 /\ DueAt(time[s], Cadence * t)
        BY <1>2 DEF DueTicks, DueAt
  <2>4. CASE t = now + 1
    <3>1. \A i \in running' : begun'[i] < now'
      <4>1. \A i \in running : i \in Instance /\ begun[i] \in Nat /\ begun[i] <= now
            BY <1>1 DEF JobsInv, Queue, JobsTypeOK
      <4> QED BY <1>1, <1>2, <4>1
    <3> QED BY <1>2, <2>4, <3>1 DEF Covered
  <2>5. CASE t # now + 1
    <3>1. t \in DueTicks(s)
          BY <1>1, <2>2, <2>3, <2>5 DEF DueTicks
    <3>2. Covered(s, t)
          BY <2>1, <3>1 DEF JobsInv, NoTickLost
    <3>3. PassedOver(s, t) => PassedOver(s, t)'
          BY <1>2, PassedStays
    <3> QED BY <1>2, <3>2, <3>3 DEF Covered, UnderWay
  <2> QED BY <2>4, <2>5
<1>7. Queue'
  <2>1. now' \in Nat /\ now <= now' /\ \A s \in Subject : hit[s] \subseteq hit'[s]
        BY <1>1, <1>2
  <2>2. \A s, k : \A t : UnderWay(k, s, t) => UnderWay(k, s, t)'
        BY <1>2 DEF UnderWay
  <2> QED BY <1>2, <2>1, <2>2, QueueStays
<1> QED BY <1>3, <1>4, <1>5, <1>6, <1>7 DEF JobsInv

LEMMA StartFailsKeeps ==
    ASSUME JobsInv, NEW i \in Instance, StartFails(i) PROVE JobsInv'
<1>1. JobsTypeOK /\ now \in 0 .. LastTick /\ now \in Nat /\ reach \subseteq Subject
      BY DEF JobsInv, JobsTypeOK
<1>2. hit' = [s \in Subject |-> IF s \in Due THEN hit[s] \cup {now} ELSE hit[s]]
      BY DEF StartFails, HitBy
<1>3. /\ hit' \in [Subject -> SUBSET (0 .. LastTick)]
      /\ \A s \in Subject : hit[s] \subseteq hit'[s]
      BY <1>1, <1>2 DEF JobsTypeOK
<1>4. /\ UNCHANGED <<setting, now, time, since, running, begun, pos, ledger, history,
                     turns, late, crashes, moves>>
      /\ failures' = failures + 1 /\ armed' = armed \ {i} /\ running = {}
      BY DEF StartFails
<1>5. JobsTypeOK'
      BY <1>1, <1>3, <1>4 DEF JobsTypeOK, history
<1>6. /\ (\A k \in Instance : InStep(k) /\ \A s \in Subject : Row(k, s))'
      /\ RecordedWasSent' /\ Account'
  <2>1. failures' >= failures /\ moves' >= moves
        BY <1>1, <1>4 DEF JobsTypeOK
  <2> QED BY <1>3, <1>4, <1>5, <2>1, RowsStay
<1>7. OneRun'
      BY <1>4 DEF JobsInv, OneRun
<1>8. NoTickLost'
  <2> SUFFICES ASSUME NEW s \in reach, ~Settled(s)', NEW t \in DueTicks(s)'
               PROVE  Covered(s, t)'
      BY <1>4 DEF NoTickLost
  <2>1. ~Settled(s) /\ t \in DueTicks(s) /\ s \in Subject
        BY <1>1, <1>4 DEF history, Settled, DueTicks, DueAt
  <2>2. Covered(s, t)
        BY <2>1 DEF JobsInv, NoTickLost
  <2>3. t = now => t \in hit'[s]
        BY <1>2, <2>1 DEF Due, Settled, DueTicks
  <2>4. PassedOver(s, t) => PassedOver(s, t)'
        BY <1>4, PassedStays
  <2> QED BY <1>3, <1>4, <2>1, <2>2, <2>3, <2>4 DEF Covered
<1>9. Queue'
  <2> QED BY <1>1, <1>3, <1>4, QueueStays
<1> QED BY <1>5, <1>6, <1>7, <1>8, <1>9 DEF JobsInv

LEMMA FinishKeeps ==
    ASSUME JobsInv, NEW i \in Instance, Finish(i) PROVE JobsInv'
<1>1. JobsTypeOK /\ now \in Nat /\ reach \subseteq Subject
      BY DEF JobsInv, JobsTypeOK
<1>2. /\ UNCHANGED <<setting, clock, time, since, begun, pos, ledger, history, hit,
                     jbounds>>
      /\ running' = running \ {i} /\ pos[i] = Idle
      BY DEF Finish
<1>3. JobsTypeOK'
      BY <1>1, <1>2 DEF JobsTypeOK, history, clock, jbounds
<1>4. /\ (\A k \in Instance : InStep(k) /\ \A s \in Subject : Row(k, s))'
      /\ RecordedWasSent' /\ Account'
  <2>1. failures' >= failures /\ moves' >= moves
        BY <1>1, <1>2 DEF JobsTypeOK, jbounds
  <2> QED BY <1>2, <1>3, <2>1, RowsStay DEF jbounds
<1>5. OneRun'
      BY <1>2 DEF JobsInv, OneRun
<1>6. ASSUME NEW s \in Subject, NEW t, NEW k \in running, UnderWay(k, s, t)
      PROVE  k \in running' /\ UnderWay(k, s, t)'
      BY <1>2, <1>6 DEF UnderWay, Idle
<1>7. NoTickLost'
  <2>1. \A s \in Subject : \A t : Covered(s, t) => Covered(s, t)' \/ PassedOver(s, t)
        BY <1>2, <1>6 DEF Covered, clock
  <2> QED BY <1>2, <2>1, StillCovered DEF clock
<1>8. Queue'
  <2> QED BY <1>1, <1>2, <1>6, QueueStays DEF clock
<1> QED BY <1>3, <1>4, <1>5, <1>7, <1>8 DEF JobsInv

\* A run begins with the rows ss that its query returns.
LEMMA BeginKeeps ==
    ASSUME JobsInv, NEW i \in Instance, WithJobLock(i), running = {}
    PROVE  JobsInv'
<1>1. JobsTypeOK /\ OneRun /\ now \in Nat /\ reach \subseteq Subject /\ Queue
      BY DEF JobsInv, JobsTypeOK
<1>2. PICK ss \in Selected :
         /\ pos' = [pos EXCEPT ![i] = [s \in Subject |-> IF s \in ss THEN 1 ELSE 0]]
         /\ turns' = [s \in Subject |->
                         IF s \in ss THEN turns[s] \cup {now} ELSE turns[s]]
      BY DEF WithJobLock, Begin
<1>3. /\ armed' = armed \ {i} /\ running' = {i} /\ begun' = [begun EXCEPT ![i] = now]
      /\ UNCHANGED <<setting, now, time, since, ledger, history, hit, late, jbounds>>
      BY DEF WithJobLock, Begin
<1> DEFINE f == [s \in Subject |-> IF s \in ss THEN 1 ELSE 0]
<1>4. /\ ss \subseteq Due /\ ss \subseteq Subject
      /\ \A r \in Due \ ss : /\ job \in Filtered /\ Cardinality(ss) = limit
                             /\ \A s \in ss : ~Ahead(r, s)
      BY <1>2 DEF Selected, Due
<1>5. /\ Len(Prog) \in Nat \ {0}
      /\ Begins(job, OpAt(Prog, 1))
      BY <1>1, NextStep
<1>6. f \in [Subject -> 0 .. Len(Prog)] /\ pos' = [pos EXCEPT ![i] = f]
      BY <1>2, <1>5
<1>7. \A s \in Subject : f[s] = IF s \in ss THEN 1 ELSE 0
      OBVIOUS
<1> HIDE DEF f
<1>8. /\ turns' \in [Subject -> SUBSET (0 .. LastTick)]
      /\ \A s \in Subject : turns'[s] = IF s \in ss THEN turns[s] \cup {now} ELSE turns[s]
      BY <1>1, <1>2 DEF JobsTypeOK
<1>9. JobsTypeOK'
  <2>1. pos' \in [Instance -> [Subject -> 0 .. Len(Prog)]]
        BY <1>1, <1>6 DEF JobsTypeOK, Prog
  <2> QED BY <1>1, <1>3, <1>8, <2>1 DEF JobsTypeOK, history, jbounds, Prog
<1>10. \A k \in Instance : pos[k] = Idle
       BY <1>1 DEF OneRun
<1>11. pos'[i] = f /\ \A k \in Instance \ {i} : pos'[k] = Idle
       BY <1>1, <1>6, <1>10 DEF JobsTypeOK
<1>12. \A k \in Instance : \A s \in Subject : Stage(k, s) = "none"
       BY <1>10 DEF Stage, OpAt, Idle
<1>13. /\ \A s \in Subject : Stage(i, s)' = IF s \in ss THEN OpAt(Prog, 1) ELSE "none"
       /\ \A k \in Instance \ {i} : \A s \in Subject : Stage(k, s)' = "none"
  <2>1. Prog' = Prog
        BY <1>3 DEF Prog
  <2>2. OpAt(Prog, 0) = "none"
        BY DEF OpAt
  <2> QED BY <1>7, <1>11, <2>1, <2>2 DEF Stage, Idle
<1>14. OneRun'
       BY <1>3, <1>11 DEF OneRun
<1>15. ASSUME NEW k \in Instance
       PROVE  InStep(k)' /\ \A s \in Subject : Row(k, s)'
  <2>1. CASE k = i
    <3>1. InStep(i)'
          BY <1>13 DEF InStep
    <3>2. ASSUME NEW s \in Subject PROVE Row(i, s)'
      <4>1. s \in ss /\ job \in Filtered => s \notin ledger
            BY <1>4 DEF Due
      <4> QED BY <1>3, <1>5, <1>13, <4>1 DEF Row, Begins, Filtered
    <3> QED BY <2>1, <3>1, <3>2
  <2>2. CASE k # i
        BY <1>13, <2>2 DEF InStep, Row
  <2> QED BY <2>1, <2>2
<1>16. RecordedWasSent'
  <2>1. ASSUME NEW s \in ledger
        PROVE  \/ sent[s] > 0 \/ s \in nothing \cup dropped
               \/ job = "completion" /\ (hit[s] # {} \/ s \notin reach)
    <3>1. s \in Subject /\ \A k \in Instance : ~(pos[k][s] > 0)
          BY <1>1, <1>10 DEF JobsTypeOK, Idle
    <3> QED BY <3>1 DEF JobsInv, RecordedWasSent
  <2> QED BY <1>3, <2>1 DEF RecordedWasSent, history
<1>17. Account'
  <2> SUFFICES ASSUME job \in Ledgered, NEW s \in Subject
               PROVE  sent'[s] + Once(s)' <= 1 + Paid'
      BY <1>3 DEF Account
  <2>1. MaySend(s)' <=> MaySend(s)
    <3>1. \A k \in Instance : Stage(k, s)' # "record"
                              /\ (job = "completion" => Stage(k, s)' # "send")
          BY <1>5, <1>13 DEF Begins
    <3> QED BY <1>3, <1>12, <3>1 DEF MaySend
  <2>2. sent[s] + Once(s) <= 1 + Paid
        BY DEF JobsInv, Account
  <2> QED BY <1>3, <2>1, <2>2 DEF Once, Paid, history, jbounds
<1>18. begun'[i] = now /\ \A s \in ss : UnderWay(i, s, now)'
       BY <1>1, <1>3, <1>4, <1>7, <1>11 DEF UnderWay, JobsTypeOK
<1>19. NoTickLost'
  <2>1. ASSUME NEW s \in Subject, NEW t \in 0 .. now,
               Covered(s, t), t \in DueTicks(s), s \notin ledger, s \in reach
        PROVE  Covered(s, t)' \/ PassedOver(s, t)
    <3>1. CASE t \in hit[s] \cup late
          BY <1>3, <3>1 DEF Covered
    <3>2. CASE t = now /\ s \in ss
          BY <1>3, <1>18, <3>2 DEF Covered
    <3>3. CASE t = now /\ s \notin ss
      <4>1. s \in Due \ ss
            BY <2>1, <3>3 DEF Due, DueTicks
      <4>2. \A r \in ss : t \in turns'[r] /\ (Ahead(s, r)' => t <= since'[r])
            BY <1>3, <1>4, <1>8, <3>3, <4>1 DEF Ahead
      <4>3. PassedOver(s, t)'
            BY <1>3, <1>4, <3>3, <4>1, <4>2 DEF PassedOver
      <4> QED BY <4>3 DEF Covered
    <3> QED BY <2>1, <3>1, <3>2, <3>3 DEF Covered
  <2>2. \A r \in Subject : turns[r] \subseteq turns'[r]
        BY <1>8
  <2> SUFFICES ASSUME NEW s \in reach, ~Settled(s)', NEW t \in DueTicks(s)'
               PROVE  Covered(s, t)'
      BY <1>3 DEF NoTickLost
  <2>3. ~Settled(s) /\ t \in DueTicks(s) /\ s \in Subject /\ s \notin ledger
        BY <1>1, <1>3 DEF history, Settled, DueTicks, DueAt
  <2>4. Covered(s, t) /\ t \in 0 .. now
        BY <1>1, <2>3 DEF JobsInv, NoTickLost, JobsTypeOK, DueTicks
  <2>5. PassedOver(s, t) => PassedOver(s, t)'
        BY <1>3, <2>2, PassedStays
  <2> QED BY <2>1, <2>3, <2>4, <2>5 DEF Covered
<1>20. Queue'
  <2>1. \A k \in Instance : begun'[k] <= now'
        BY <1>1, <1>3, <1>18 DEF Queue, JobsTypeOK
  <2>2. \A s \in Subject : turns[s] \subseteq Nat /\ \A t \in turns[s] : t <= now
        BY <1>1 DEF Queue, JobsTypeOK
  <2>3. \A s \in Subject : since'[s] <= now' /\ \A t \in turns'[s] : t <= now'
        BY <1>1, <1>3, <1>8, <2>2 DEF Queue
  <2>4. ASSUME job \in Filtered, NEW s \in reach, NEW t \in turns[s]
        PROVE  s \in ledger \/ t \in hit[s] \/ t <= since[s]
        BY <1>1, <2>4 DEF Queue, Served
  <2>5. (job \in Filtered => \A s \in reach : \A t \in turns[s] : Served(s, t))'
    <3> SUFFICES ASSUME job \in Filtered, NEW s \in reach, NEW t \in turns'[s]
                 PROVE  Served(s, t)'
        BY <1>3
    <3>1. CASE t \in turns[s]
          BY <1>3, <2>4, <3>1 DEF Served
    <3>2. CASE t \notin turns[s]
      <4>1. s \in ss /\ t = now
            BY <1>1, <1>8, <3>2
      <4> QED BY <1>3, <1>18, <4>1 DEF Served
    <3> QED BY <3>1, <3>2
  <2>6. TurnTakenOnce'
    <3> SUFFICES ASSUME job \in Filtered, NEW r \in reach, NEW t \in turns'[r],
                        NEW u \in turns'[r], t < u
                 PROVE  t \in hit[r] \/ t <= since[r]
        BY <1>3 DEF TurnTakenOnce
    <3>1. CASE u \in turns[r]
      <4>1. t \in turns[r]
            BY <1>1, <1>8, <2>2, <3>1
      <4> QED BY <1>1, <3>1, <4>1 DEF Queue, TurnTakenOnce
    <3>2. CASE u \notin turns[r]
      <4>1. r \in ss /\ u = now /\ t \in turns[r]
            BY <1>1, <1>8, <2>2, <3>2
      <4>2. r \notin ledger
            BY <1>4, <4>1 DEF Due
      <4> QED BY <2>4, <4>1, <4>2
    <3> QED BY <3>1, <3>2
  <2> QED BY <1>1, <1>3, <2>1, <2>3, <2>5, <2>6 DEF Queue
<1> QED BY <1>9, <1>14, <1>15, <1>16, <1>17, <1>19, <1>20 DEF JobsInv

LEMMA WithJobLockKeeps ==
    ASSUME JobsInv, NEW i \in Instance, WithJobLock(i) PROVE JobsInv'
<1> SUFFICES ASSUME running # {} PROVE JobsInv'
    BY BeginKeeps
<1>1. /\ JobsTypeOK /\ OneRun /\ now \in 0 .. LastTick /\ now \in Nat
      /\ reach \subseteq Subject
      BY DEF JobsInv, JobsTypeOK
<1>2. /\ armed' = armed \ {i}
      /\ UNCHANGED <<setting, now, time, since, running, begun, pos, ledger, history, hit,
                     turns, jbounds>>
      /\ late' = late \cup (IF \E k \in running : begun[k] = now THEN {} ELSE {now})
      BY DEF WithJobLock, SkipTick
<1>3. late' \subseteq 0 .. LastTick /\ late \subseteq late'
      BY <1>1, <1>2 DEF JobsTypeOK
<1>4. JobsTypeOK'
      BY <1>1, <1>2, <1>3 DEF JobsTypeOK, history, jbounds
<1>5. /\ (\A k \in Instance : InStep(k) /\ \A s \in Subject : Row(k, s))'
      /\ RecordedWasSent' /\ Account'
  <2>1. failures' >= failures /\ moves' >= moves
        BY <1>1, <1>2 DEF JobsTypeOK, jbounds
  <2> QED BY <1>2, <1>4, <2>1, RowsStay DEF jbounds
<1>6. OneRun'
      BY <1>1, <1>2 DEF OneRun
<1>7. NoTickLost'
  <2>1. ASSUME NEW s \in Subject, NEW t, Covered(s, t)
        PROVE  Covered(s, t)' \/ PassedOver(s, t)
    <3>1. CASE t = now /\ \A k \in running : begun[k] < now
      <4>1. now \in late'
            BY <1>1, <1>2, <3>1
      <4> QED BY <3>1, <4>1 DEF Covered
    <3> QED BY <1>2, <1>3, <2>1, <3>1 DEF Covered, UnderWay
  <2> QED BY <1>2, <2>1, StillCovered
<1>8. Queue'
  <2>2. \A s, k : \A t : UnderWay(k, s, t) => UnderWay(k, s, t)'
        BY <1>2 DEF UnderWay
  <2> QED BY <1>1, <1>2, <2>2, QueueStays
<1> QED BY <1>4, <1>5, <1>6, <1>7, <1>8 DEF JobsInv

LEMMA CrashKeeps ==
    ASSUME JobsInv, NEW i \in Instance, Crash(i) PROVE JobsInv'
<1>1. /\ JobsTypeOK /\ OneRun /\ now \in 0 .. LastTick /\ begun[i] \in 0 .. LastTick
      /\ now \in Nat /\ reach \subseteq Subject
      BY DEF JobsInv, JobsTypeOK
<1>2. /\ crashes' = crashes + 1 /\ running' = running \ {i} /\ armed' = armed \ {i}
      /\ pos' = [pos EXCEPT ![i] = Idle]
      /\ UNCHANGED <<setting, now, time, since, begun, ledger, history, turns, late,
                     failures, moves>>
      BY DEF Crash
<1>3. \A s \in Subject : hit'[s] = hit[s]
                 \cup (IF pos[i][s] > 0 THEN {begun[i]} ELSE {})
                 \cup (IF i \in armed THEN {now} ELSE {})
      BY DEF Crash
<1>4. pos'[i] = Idle /\ \A k \in Instance \ {i} : pos'[k] = pos[k]
      BY <1>1, <1>2 DEF JobsTypeOK
<1>5. JobsTypeOK'
  <2>1. \A s \in Subject : hit'[s] \in SUBSET (0 .. LastTick)
    <3>1. \A s \in Subject : hit[s] \subseteq 0 .. LastTick
          BY <1>1 DEF JobsTypeOK
    <3> QED BY <1>1, <1>3, <3>1
  <2>2. hit' \in [Subject -> SUBSET (0 .. LastTick)]
        BY <2>1 DEF Crash
  <2>3. Idle \in [Subject -> 0 .. Len(Prog)]
    <3>1. 0 \in 0 .. Len(Prog)
          BY <1>1, NextStep
    <3> QED BY <3>1 DEF Idle
  <2>4. pos' \in [Instance -> [Subject -> 0 .. Len(Prog)]]
        BY <1>1, <1>2, <2>3 DEF JobsTypeOK, Prog
  <2> QED BY <1>1, <1>2, <2>2, <2>4 DEF JobsTypeOK, history, Prog
<1>6. OneRun'
      BY <1>1, <1>2, <1>4 DEF OneRun
<1>7. /\ \A s \in Subject : Stage(i, s)' = "none"
      /\ \A k \in Instance \ {i} : \A s \in Subject : Stage(k, s)' = Stage(k, s)
      BY <1>2, <1>4 DEF Stage, OpAt, Idle, Prog
<1>8. ASSUME NEW k \in Instance PROVE InStep(k)' /\ \A s \in Subject : Row(k, s)'
  <2>1. CASE k = i
        BY <1>7, <2>1 DEF InStep, Row
  <2>2. CASE k # i
        BY <1>2, <1>7, <2>2 DEF JobsInv, InStep, Row, history
  <2> QED BY <2>1, <2>2
<1>9. RecordedWasSent'
  <2> SUFFICES ASSUME NEW s \in ledger, ~(sent[s] > 0), s \notin nothing \cup dropped
               PROVE  job = "completion"
                      /\ (hit'[s] # {} \/ s \notin reach
                          \/ \E k \in Instance : pos'[k][s] > 0)
      BY <1>2 DEF RecordedWasSent, history
  <2>1. s \in Subject
        BY <1>1 DEF JobsTypeOK
  <2>2. job = "completion"
        /\ (hit[s] # {} \/ s \notin reach \/ \E k \in Instance : pos[k][s] > 0)
        BY DEF JobsInv, RecordedWasSent
  <2> QED BY <1>3, <1>4, <2>1, <2>2
<1>10. Account'
  <2> SUFFICES ASSUME job \in Ledgered, NEW s \in Subject
               PROVE  sent'[s] + Once(s)' <= 1 + Paid'
      BY <1>2 DEF Account
  <2>1. sent[s] + Once(s) <= 1 + Paid /\ Once(s) \in {0, 1} /\ Once(s)' \in {0, 1}
        BY DEF JobsInv, Account, Once
  <2>2. /\ sent[s] \in Nat /\ failures \in Nat /\ crashes \in Nat /\ moves \in Nat
        /\ sent' = sent
        BY <1>1, <1>2 DEF JobsTypeOK, history
  <2>3. Paid' = failures + (crashes + 1) + (IF job = "assignmentCard" THEN moves ELSE 0)
        BY <1>2 DEF Paid
  <2> QED BY <2>1, <2>2, <2>3 DEF Paid
<1>11. ASSUME NEW s \in Subject, NEW t, NEW k \in running, UnderWay(k, s, t)
       PROVE  t \in hit'[s] \/ (k \in running' /\ UnderWay(k, s, t)')
  <2>1. CASE k = i
        BY <1>3, <1>11, <2>1 DEF UnderWay
  <2>2. CASE k # i
    <3>1. k \in Instance \ {i}
          BY <1>1, <2>2 DEF JobsTypeOK
    <3> QED BY <1>2, <1>4, <1>11, <2>2, <3>1 DEF UnderWay
  <2> QED BY <2>1, <2>2
<1>12. NoTickLost'
  <2>1. ASSUME NEW s \in Subject, NEW t, Covered(s, t)
        PROVE  Covered(s, t)' \/ PassedOver(s, t)
    <3>1. CASE t \in hit[s] \cup late
          BY <1>2, <1>3, <3>1 DEF Covered
    <3>2. CASE t = now /\ armed # {} /\ \A k \in running : begun[k] < now
      <4>1. CASE i \in armed
            BY <1>3, <3>2, <4>1 DEF Covered
      <4>2. CASE i \notin armed
            BY <1>2, <3>2, <4>2 DEF Covered
      <4> QED BY <4>1, <4>2
    <3>3. ASSUME NEW k \in running, UnderWay(k, s, t) PROVE Covered(s, t)'
          BY <1>11, <3>3 DEF Covered
    <3> QED BY <2>1, <3>1, <3>2, <3>3 DEF Covered
  <2> QED BY <1>2, <2>1, StillCovered
<1>13. Queue'
  <2>1. \A s \in Subject : hit[s] \subseteq hit'[s]
        BY <1>3
  <2> QED BY <1>1, <1>2, <1>11, <2>1, QueueStays
<1> QED BY <1>5, <1>6, <1>8, <1>9, <1>10, <1>12, <1>13 DEF JobsInv

\* A subject whose time has just moved has not been passed over yet.
LEMMA MovedIsNotLate ==
    ASSUME JobsInv, NEW s \in Subject, NEW t \in Minute, Move(s, t),
           UNCHANGED <<setting, clock, running, begun, pos, history, hit, failures,
                       crashes>>,
           \A r \in Subject \ {s} : r \in ledger' <=> r \in ledger
    PROVE  /\ OneRun' /\ NoTickLost' /\ (ledger' \subseteq Subject => JobsTypeOK')
           /\ Queue'
<1>1. JobsTypeOK /\ now \in 0 .. LastTick /\ now \in Nat /\ reach \subseteq Subject
      BY DEF JobsInv, JobsTypeOK
<1>2. ledger' \subseteq Subject => JobsTypeOK'
  <2>1. time' \in [Subject -> Minute] /\ since' \in [Subject -> 0 .. LastTick]
        /\ moves' \in Nat
        BY <1>1 DEF JobsTypeOK, Move
  <2>2. /\ job' = job /\ limit' = limit /\ reach' = reach /\ now' = now
        /\ armed' = armed /\ turns' = turns /\ late' = late /\ running' = running
        /\ begun' = begun /\ pos' = pos /\ sent' = sent /\ nothing' = nothing
        /\ dropped' = dropped /\ hit' = hit
        /\ failures' = failures /\ crashes' = crashes
        BY DEF setting, clock, history
  <2> QED BY <1>1, <2>1, <2>2 DEF JobsTypeOK
<1>3. OneRun'
      BY DEF JobsInv, OneRun
<1>4. /\ since'[s] = now /\ now' = now
      /\ \A r \in Subject \ {s} : time'[r] = time[r] /\ since'[r] = since[r]
      BY <1>1 DEF Move, JobsTypeOK, clock
<1>5. NoTickLost'
  <2> SUFFICES ASSUME NEW r \in reach, ~Settled(r)', NEW u \in DueTicks(r)'
               PROVE  Covered(r, u)'
      BY DEF NoTickLost
  <2>1. CASE r = s
    <3>1. u \in now + 1 .. now
          BY <1>4, <2>1 DEF DueTicks
    <3> QED BY <1>1, <3>1
  <2>2. CASE r # s
    <3>1. /\ r \in Subject /\ time'[r] = time[r] /\ since'[r] = since[r]
          /\ now' = now /\ job' = job
          /\ Settled(r)' <=> Settled(r)
          BY <1>1, <1>4, <2>2 DEF clock, Settled, history
    <3>2. ~Settled(r) /\ u \in DueTicks(r)
          BY <3>1 DEF DueTicks, DueAt
    <3>3. Covered(r, u)
          BY <3>2 DEF JobsInv, NoTickLost
    <3>4. u <= now
          BY <1>1, <3>1, <3>2 DEF DueTicks, JobsTypeOK
    <3>5. \A q \in Subject : /\ turns[q] \subseteq turns'[q]
                             /\ \/ time'[q] = time[q] /\ since'[q] = since[q]
                                \/ u <= since'[q]
          BY <1>4, <3>4 DEF clock
    <3>6. PassedOver(r, u) => PassedOver(r, u)'
          BY <3>1, <3>5, PassedStays
    <3> QED BY <3>3, <3>6 DEF Covered, UnderWay, clock
  <2> QED BY <2>1, <2>2
<1>6. Queue'
  <2>1. /\ \E r \in Subject : since' = [since EXCEPT ![r] = now]
        /\ UNCHANGED <<job, reach, turns, now, begun, running, hit>>
        BY DEF Move, clock
  <2>2. \A r, k : \A u : UnderWay(k, r, u) => UnderWay(k, r, u)'
        BY DEF UnderWay
  <2>3. \A r \in reach : r \in ledger => r \in ledger' \/ since'[r] = now
        BY <1>1, <1>4
  <2>4. /\ reach' \subseteq reach /\ (job \in Batched => reach' = reach)
        /\ now' \in Nat /\ now <= now' /\ \A r \in Subject : hit[r] \subseteq hit'[r]
        BY <1>1, <2>1
  <2>5. \A r \in reach' :
          /\ r \in ledger => r \in ledger' \/ since'[r] = now
          /\ \A i \in running : \A u \in Nat : UnderWay(i, r, u) =>
                r \in ledger' \/ u \in hit'[r] \/ \E k \in running' : UnderWay(k, r, u)'
        BY <2>1, <2>2, <2>3
  <2> QED BY <2>1, <2>4, <2>5, QueueStays
<1> QED BY <1>2, <1>3, <1>5, <1>6

LEMMA MoveKeeps ==
    ASSUME JobsInv, NEW s \in Subject, NEW t \in Minute,
           ChangePreference(s, t) \/ Reschedule(s, t)
    PROVE  JobsInv'
<1>1. /\ Move(s, t) /\ UNCHANGED ledger
      /\ UNCHANGED <<setting, clock, running, begun, pos, history, hit, failures, crashes>>
      BY DEF ChangePreference, Reschedule
<1>2. ledger' \subseteq Subject
      BY <1>1 DEF JobsInv, JobsTypeOK
<1>3. OneRun' /\ NoTickLost' /\ JobsTypeOK' /\ Queue'
      BY <1>1, <1>2, MovedIsNotLate
<1>4. /\ (\A k \in Instance : InStep(k) /\ \A r \in Subject : Row(k, r))'
      /\ RecordedWasSent' /\ Account'
  <2>1. failures' >= failures /\ moves' >= moves
        BY <1>1 DEF JobsInv, JobsTypeOK, Move
  <2> QED BY <1>1, <1>3, <2>1, RowsStay
<1> QED BY <1>3, <1>4 DEF JobsInv

LEMMA ReassignKeeps ==
    ASSUME JobsInv, NEW s \in Subject, Reassign(s) PROVE JobsInv'
<1>1. JobsTypeOK /\ time[s] \in Minute
      BY DEF JobsInv, JobsTypeOK
<1>2. /\ Move(s, time[s]) /\ ledger' = ledger \ {s} /\ job = "assignmentCard"
      /\ UNCHANGED <<setting, clock, running, begun, pos, history, hit, failures, crashes>>
      BY DEF Reassign
<1>3. OneRun' /\ NoTickLost' /\ JobsTypeOK' /\ Queue'
  <2>1. ledger' \subseteq Subject
        BY <1>1, <1>2 DEF JobsTypeOK
  <2> QED BY <1>1, <1>2, <2>1, MovedIsNotLate
<1>4. \A k, r : Stage(k, r)' = Stage(k, r)
      BY <1>2 DEF Stage, Prog
<1>5. ASSUME NEW k \in Instance PROVE InStep(k)' /\ \A r \in Subject : Row(k, r)'
      BY <1>2, <1>4 DEF JobsInv, InStep, Row, history
<1>6. RecordedWasSent'
      BY <1>2 DEF JobsInv, RecordedWasSent, history
<1>7. Account'
  <2> SUFFICES ASSUME NEW r \in Subject PROVE sent'[r] + Once(r)' <= 1 + Paid'
      BY DEF Account
  <2>1. sent[r] + Once(r) <= 1 + Paid /\ Once(r) \in {0, 1} /\ Once(r)' \in {0, 1}
        BY <1>2 DEF JobsInv, Account, Once, Ledgered
  <2>2. /\ sent[r] \in Nat /\ failures \in Nat /\ crashes \in Nat /\ moves \in Nat
        /\ sent' = sent /\ moves' = moves + 1
        BY <1>1, <1>2 DEF JobsTypeOK, history, Move
  <2>3. Paid' = failures + crashes + (moves + 1)
        BY <1>2, <2>2 DEF Paid
  <2> QED BY <1>2, <2>1, <2>2, <2>3 DEF Paid
<1> QED BY <1>3, <1>5, <1>6, <1>7 DEF JobsInv

LEMMA DeleteKeeps ==
    ASSUME JobsInv, NEW s \in Subject, Delete(s) PROVE JobsInv'
<1>1. JobsTypeOK /\ now \in Nat /\ reach \subseteq Subject
      BY DEF JobsInv, JobsTypeOK
<1>2. /\ job = "dueReminder" /\ moves' = moves + 1 /\ reach' = reach \ {s}
      /\ UNCHANGED <<job, limit, clock, time, since, running, begun, pos, ledger, history,
                     hit, failures, crashes>>
      BY DEF Delete
<1>3. JobsTypeOK'
      BY <1>1, <1>2 DEF JobsTypeOK, clock, history
<1>4. /\ (\A k \in Instance : InStep(k) /\ \A r \in Subject : Row(k, r))'
      /\ RecordedWasSent' /\ Account'
  <2>1. failures' >= failures /\ moves' >= moves
        BY <1>1, <1>2 DEF JobsTypeOK
  <2> QED BY <1>2, <1>3, <2>1, RowsStay
<1>5. OneRun'
      BY <1>2 DEF JobsInv, OneRun
<1>6. NoTickLost'
  <2>1. \A r \in Subject : \A t : Covered(r, t) => Covered(r, t)' \/ PassedOver(r, t)
        BY <1>2 DEF Covered, UnderWay, clock
  <2> QED BY <1>2, <2>1, StillCovered DEF clock
<1>7. Queue'
  <2>1. job \notin Filtered /\ job \notin Batched
        BY <1>2 DEF Filtered, Batched
  <2> QED BY <1>1, <1>2, <2>1, QueueStays DEF clock
<1> QED BY <1>3, <1>4, <1>5, <1>6, <1>7 DEF JobsInv

-----------------------------------------------------------------------------
LEMMA JobsNextKeeps == JobsInv /\ [JobsNext]_jvars => JobsInv'
<1> SUFFICES ASSUME JobsInv, [JobsNext]_jvars PROVE JobsInv'
    OBVIOUS
<1>1. CASE Tick
      BY <1>1, TickKeeps
<1>2. ASSUME NEW i \in Instance, WithJobLock(i) \/ StartFails(i) \/ Finish(i) \/ Crash(i)
      PROVE  JobsInv'
      BY <1>2, WithJobLockKeeps, StartFailsKeeps, FinishKeeps, CrashKeeps
<1>3. ASSUME NEW i \in Instance, NEW s \in Subject,
             RowStep(i, s) \/ SendFails(i, s) \/ QueryFails(i, s)
      PROVE  JobsInv'
      BY <1>3, CheckKeeps, BuildKeeps, PlanKeeps, SkipKeeps, SendKeeps, RecordKeeps,
         ClaimKeeps, SendFailsKeeps, QueryFailsKeeps DEF RowStep
<1>4. ASSUME NEW s \in Subject, Reassign(s) \/ Delete(s) PROVE JobsInv'
      BY <1>4, ReassignKeeps, DeleteKeeps
<1>5. ASSUME NEW s \in Subject, NEW t \in Minute, ChangePreference(s, t) \/ Reschedule(s, t)
      PROVE  JobsInv'
      BY <1>5, MoveKeeps
<1>6. CASE UNCHANGED jvars
  <2>1. UNCHANGED <<setting, now, time, since, armed, running, begun, pos, ledger, history,
                    hit, turns, late, failures, crashes, moves>>
        BY <1>6 DEF jvars, history
  <2>2. JobsTypeOK' /\ JobsTypeOK /\ now \in Nat /\ reach \subseteq Subject
        BY <2>1 DEF JobsInv, JobsTypeOK, history
  <2>3. /\ (\A k \in Instance : InStep(k) /\ \A r \in Subject : Row(k, r))'
        /\ RecordedWasSent' /\ Account'
    <3>1. failures' >= failures /\ moves' >= moves
          BY <2>1 DEF JobsInv, JobsTypeOK
    <3> QED BY <2>1, <2>2, <3>1, RowsStay
  <2>4. OneRun'
        BY <2>1 DEF JobsInv, OneRun
  <2>5. NoTickLost'
    <3>1. \A s \in Subject : \A t : Covered(s, t) => Covered(s, t)' \/ PassedOver(s, t)
          BY <2>1 DEF Covered, UnderWay
    <3> QED BY <2>1, <3>1, StillCovered
  <2>6. Queue'
    <3>2. \A s, k : \A t : UnderWay(k, s, t) => UnderWay(k, s, t)'
          BY <2>1 DEF UnderWay
    <3> QED BY <2>1, <2>2, <3>2, QueueStays
  <2> QED BY <2>2, <2>3, <2>4, <2>5, <2>6 DEF JobsInv
<1> QED BY <1>1, <1>2, <1>3, <1>4, <1>5, <1>6 DEF JobsNext

LEMMA JobsInvAlways == JobsSpec => []JobsInv
BY InitJobs, JobsNextKeeps, PTL DEF JobsSpec

\* Every variable of the job keeps its type.
THEOREM JobsTypeCorrect == JobsSpec => []JobsTypeOK
<1>1. JobsInv => JobsTypeOK
      BY DEF JobsInv
<1> QED BY <1>1, JobsInvAlways, PTL

\* A person hears twice of a thing only on account of a failure, a crash or a
\* reassignment: at most one extra message for each, for any number of
\* instances, subjects and ticks, and for every job with a ledger.
THEOREM SendsArePaidFor == JobsSpec => []SendsPaidFor
BY JobsInvAlways, InvImplies, PTL

\* At rest a due subject there is somebody to write to about was dealt with, or
\* each tick of its window so far met a fault, came during an earlier run, or
\* went to a full batch of rows before it; and no row takes the turn of those
\* behind it twice, but after a fault or a change of its own.
THEOREM NoTurnIsLost == JobsSpec => []NothingLost
BY JobsInvAlways, InvImplies, PTL

\* What the ledger says was sent was sent, was empty, or was dropped without a
\* word; the completion notice alone is written down before it goes out.
THEOREM LedgerIsTrue == JobsSpec => []RecordedWasSent
BY JobsInvAlways, InvImplies, PTL

-----------------------------------------------------------------------------
(* The transport.                                                         *)

HIDE JobsAssumption
USE OutboundAssumption

(* Sequences of prompts.                                                   *)

\* How often p is in seq.
Count(p, seq) == Cardinality({k \in 1 .. Len(seq) : seq[k] = p})

LEMMA CountFinite ==
    ASSUME NEW seq \in Seq(Prompt), NEW p
    PROVE  /\ IsFiniteSet({k \in 1 .. Len(seq) : seq[k] = p})
           /\ Count(p, seq) \in Nat
           /\ Count(p, seq) = 0 <=> ~IsIn(p, seq)
<1> DEFINE S == {k \in 1 .. Len(seq) : seq[k] = p}
<1>1. IsFiniteSet(1 .. Len(seq))
      BY FS_Interval
<1>2. S \in SUBSET (1 .. Len(seq))
      OBVIOUS
<1>3. IsFiniteSet(S)
      BY <1>1, <1>2, FS_Subset
<1>4. Cardinality(S) \in Nat /\ (Cardinality(S) = 0 <=> S = {})
      BY <1>3, FS_CardinalityType, FS_EmptySet
<1>5. S = {} <=> ~IsIn(p, seq)
      BY DEF IsIn
<1> QED BY <1>3, <1>4, <1>5 DEF Count

LEMMA CountAppend ==
    ASSUME NEW seq \in Seq(Prompt), NEW e \in Prompt, NEW p
    PROVE  Count(p, Append(seq, e)) = Count(p, seq) + (IF e = p THEN 1 ELSE 0)
<1> DEFINE S == {k \in 1 .. Len(seq) : seq[k] = p}
           T == {k \in 1 .. Len(Append(seq, e)) : Append(seq, e)[k] = p}
<1>1. IsFiniteSet(S) /\ Cardinality(S) \in Nat
      BY CountFinite DEF Count
<1>2. /\ Len(seq) \in Nat /\ Len(Append(seq, e)) = Len(seq) + 1
      /\ Append(seq, e)[Len(seq) + 1] = e
      /\ \A k \in 1 .. Len(seq) : Append(seq, e)[k] = seq[k]
      OBVIOUS
<1>3. e = p => T = S \cup {Len(seq) + 1} /\ Len(seq) + 1 \notin S
      BY <1>2
<1>4. e # p => T = S
      BY <1>2
<1>5. Count(p, seq) = Cardinality(S) /\ Count(p, Append(seq, e)) = Cardinality(T)
      BY DEF Count
<1> HIDE DEF S, T
<1>6. e = p => Cardinality(T) = Cardinality(S) + 1
      BY <1>1, <1>3, FS_AddElement
<1> QED BY <1>1, <1>4, <1>5, <1>6

LEMMA CountTail ==
    ASSUME NEW seq \in Seq(Prompt), seq # <<>>, NEW p
    PROVE  Count(p, seq) = Count(p, Tail(seq)) + (IF Head(seq) = p THEN 1 ELSE 0)
<1> DEFINE S == {k \in 1 .. Len(seq) : seq[k] = p}
           T == {k \in 1 .. Len(Tail(seq)) : Tail(seq)[k] = p}
           R == S \ {1}
           shift == [k \in T |-> k + 1]
<1>1. /\ Tail(seq) \in Seq(Prompt) /\ Len(seq) \in Nat \ {0}
      /\ Len(Tail(seq)) = Len(seq) - 1 /\ Head(seq) = seq[1]
      /\ \A k \in 1 .. Len(seq) - 1 : Tail(seq)[k] = seq[k + 1]
      OBVIOUS
<1>2. IsFiniteSet(S) /\ Cardinality(S) \in Nat /\ IsFiniteSet(T) /\ Cardinality(T) \in Nat
      BY <1>1, CountFinite DEF Count
<1>3. shift \in Bijection(T, R)
  <2>1. \A k \in T : shift[k] \in R
        BY <1>1
  <2>2. \A j, k \in T : shift[j] = shift[k] => j = k
        BY <1>1
  <2>3. \A j \in R : \E k \in T : shift[k] = j
    <3> SUFFICES ASSUME NEW j \in R PROVE j - 1 \in T /\ shift[j - 1] = j
        OBVIOUS
    <3>1. j \in 2 .. Len(seq) /\ seq[j] = p
          BY <1>1
    <3>2. j - 1 \in 1 .. Len(seq) - 1 /\ (j - 1) + 1 = j
          BY <1>1, <3>1
    <3> QED BY <1>1, <3>1, <3>2
  <2> QED BY <2>1, <2>2, <2>3 DEF Bijection, Injection, Surjection, IsInjective
<1>4. Cardinality(R) = Cardinality(T)
  <2>1. ExistsBijection(T, R)
        BY <1>3 DEF ExistsBijection
  <2> QED BY <1>2, <2>1, FS_Bijection
<1>5. Cardinality(R) = IF 1 \in S THEN Cardinality(S) - 1 ELSE Cardinality(S)
      BY <1>2, FS_RemoveElement
<1>6. 1 \in S <=> Head(seq) = p
      BY <1>1
<1>7. Count(p, seq) = Cardinality(S) /\ Count(p, Tail(seq)) = Cardinality(T)
      BY DEF Count
<1> HIDE DEF S, T, R
<1> QED BY <1>2, <1>4, <1>5, <1>6, <1>7

\* What is in a sequence that grew or lost its head.
LEMMA InSequence ==
    ASSUME NEW seq \in Seq(Prompt), NEW p
    PROVE  /\ \A e \in Prompt : IsIn(p, Append(seq, e)) <=> IsIn(p, seq) \/ p = e
           /\ seq # <<>> => /\ IsIn(p, Tail(seq)) => IsIn(p, seq)
                            /\ IsIn(Head(seq), seq)
<1>1. ASSUME NEW e \in Prompt
      PROVE  IsIn(p, Append(seq, e)) <=> IsIn(p, seq) \/ p = e
  <2>1. /\ Len(seq) \in Nat /\ Len(Append(seq, e)) = Len(seq) + 1
        /\ Append(seq, e)[Len(seq) + 1] = e
        /\ \A k \in 1 .. Len(seq) : Append(seq, e)[k] = seq[k]
        OBVIOUS
  <2> QED BY <2>1 DEF IsIn
<1>2. ASSUME seq # <<>>
      PROVE  /\ IsIn(p, Tail(seq)) => IsIn(p, seq)
             /\ IsIn(Head(seq), seq)
  <2>1. /\ Len(seq) \in Nat \ {0} /\ Len(Tail(seq)) = Len(seq) - 1 /\ Head(seq) = seq[1]
        /\ \A k \in 1 .. Len(seq) - 1 : Tail(seq)[k] = seq[k + 1]
        BY <1>2
  <2>2. ASSUME NEW k \in 1 .. Len(seq) - 1, seq[k + 1] = p PROVE IsIn(p, seq)
        BY <2>1, <2>2 DEF IsIn
  <2> QED BY <2>1, <2>2 DEF IsIn
<1> QED BY <1>1, <1>2

-----------------------------------------------------------------------------
(* The inductive invariant.                                                *)

\* The prompt was posted, or is being posted.
Out == {"post", "log", "resolved", "rejected"}

\* Sending: what is on its way or on the screen was posted, each copy beyond
\* the first by a post that seemed to fail; one more such post, or the INSERT
\* of the log, failed for a row that is missing there.
Sending(p) ==
    /\ pc[p] \in {"new", "check", "wait"} => tries[p] = 0
    /\ pc[p] = "post" => tries[p] < MaxAttempts
    /\ IsIn(p, queue) \/ IsIn(p, screen) => pc[p] \in Out
    /\ pc[p] \in {"log", "rejected"} => faults > 0
    /\ Count(p, queue) + Count(p, screen) + Unlogged(p)
         + (IF pc[p] = "resolved" THEN 0 ELSE 1) <= 1 + faults

\* A prompt is answered after it was posted, and saved before; without faults
\* it is saved.
Asked(p) ==
    /\ p \in answered => pc[p] \in Out
    /\ p \notin answered => hook[p] = {} /\ stored[p] = None
    /\ IsIn(p, saved) => pc[p] # "new"
    /\ faults = 0 /\ pc[p] \in {"check", "wait"} \cup Out => IsIn(p, saved)

\* The answer to p was taken for the command of q.
Token(p, q) == q \in hook[p] \/ stored[p] = q

\* The row holds the options saved last, and gives them away once.
Choices ==
    /\ choice # None => saved # <<>> /\ saved[Len(saved)] = choice
    /\ \A p, q \in Prompt :
        Token(p, q) => /\ choice # q
                       /\ IsIn(q, saved)
                       /\ q = p \/ SavedAfter(p, q) \/ ~IsIn(p, saved)
    /\ \A p, q, r \in Prompt : Token(p, q) /\ Token(r, q) => p = r

\* Others have the options of p.
Away(p) == \E q \in Prompt \ {p} : SavedAfter(p, q) \/ Token(q, p)

\* While nothing went wrong the options of p can be accounted for, and a bare
\* digit means that others have them.
Digits ==
    faults + repeats + expiries = 0 =>
        \A p \in Prompt :
            /\ hook[p] # {} => stored[p] = None /\ \E x \in hook[p] : hook[p] = {x}
            /\ IsIn(p, saved) => choice = p \/ Token(p, p) \/ Away(p)
            /\ stored[p] = "digit" \/ "digit" \in hook[p] => Away(p)

OutInv ==
    /\ TypeOK
    /\ \A p \in Prompt : Sending(p) /\ Asked(p)
    /\ Choices
    /\ Digits

LEMMA OutInvImplies == OutInv => CopiesPaidFor /\ AnswersResolve
<1> SUFFICES ASSUME OutInv PROVE CopiesPaidFor /\ AnswersResolve
    OBVIOUS
<1>1. TypeOK
      BY DEF OutInv
<1>2. ASSUME NEW p \in Prompt
      PROVE  /\ Copies(p) <= 1 + faults
             /\ pc[p] = "blocked" => Copies(p) = 0
             /\ pc[p] = "rejected" => faults > 0 /\ Copies(p) + Unlogged(p) <= faults
  <2>1. Sending(p)
        BY DEF OutInv
  <2>2. Copies(p) = Count(p, queue) + Count(p, screen)
        BY DEF Copies, Count
  <2>3. /\ Count(p, queue) \in Nat /\ Count(p, screen) \in Nat /\ faults \in Nat
        /\ Count(p, queue) = 0 <=> ~IsIn(p, queue)
        /\ Count(p, screen) = 0 <=> ~IsIn(p, screen)
        BY <1>1, CountFinite DEF TypeOK
  <2>4. Unlogged(p) \in {0, 1}
        BY DEF Unlogged
  <2> QED BY <2>1, <2>2, <2>3, <2>4 DEF Sending, Out
<1>3. NeverOlder
      BY DEF OutInv, Choices, Token, NeverOlder
<1>4. UsedOnce
      BY DEF OutInv, Choices, Token, UsedOnce
<1>5. BareDigitPaidFor
  <2> SUFFICES ASSUME NEW p \in Prompt, stored[p] = "digit",
                      ~(faults + repeats + expiries > 0)
               PROVE  \E q \in Prompt \ {p} :
                        SavedAfter(p, q) \/ stored[q] = p \/ p \in hook[q]
      BY DEF BareDigitPaidFor
  <2>1. faults + repeats + expiries = 0
        BY <1>1 DEF TypeOK
  <2> QED BY <2>1 DEF OutInv, Digits, Away, Token
<1> QED BY <1>2, <1>3, <1>4, <1>5 DEF CopiesPaidFor, AnswersResolve

LEMMA InitOutbound == Init => OutInv
<1> SUFFICES ASSUME Init PROVE OutInv
    OBVIOUS
<1>1. /\ queue = <<>> /\ screen = <<>> /\ saved = <<>> /\ <<>> \in Seq(Prompt)
      BY DEF Init
<1>2. \A p \in Prompt : ~IsIn(p, <<>>) /\ Count(p, <<>>) = 0
  <2>1. \A p \in Prompt : ~IsIn(p, <<>>)
        BY DEF IsIn
  <2> QED BY <1>1, <2>1, CountFinite
<1>3. TypeOK
  <2>1. /\ tries \in [Prompt -> 0 .. MaxAttempts]
        /\ pc \in [Prompt -> {"new", "check", "wait", "post", "log", "resolved", "blocked",
                              "rejected"}]
        /\ hook \in [Prompt -> SUBSET (Text \cup {"sent"})]
        /\ stored \in [Prompt -> Text \cup {None}]
        BY DEF Init, MaxAttempts
  <2>2. 0 \in Nat
        OBVIOUS
  <2> QED BY <1>1, <2>1, <2>2 DEF Init, TypeOK
<1>4. ASSUME NEW p \in Prompt PROVE Sending(p) /\ Asked(p)
  <2>1. Sending(p)
        BY <1>1, <1>2 DEF Init, Sending, Out, MaxAttempts, Unlogged
  <2>2. Asked(p)
        BY <1>1, <1>2 DEF Init, Asked, Out
  <2> QED BY <2>1, <2>2
<1>5. \A p, q \in Prompt : ~Token(p, q)
      BY DEF Init, Token
<1>6. Choices
      BY <1>5 DEF Init, Choices
<1>7. Digits
      BY <1>1, <1>2 DEF Init, Digits
<1> QED BY <1>3, <1>4, <1>6, <1>7 DEF OutInv

-----------------------------------------------------------------------------
(* Steps of the transport.  They leave the answers as they are.            *)

LEMMA AnswersStay ==
    ASSUME OutInv, UNCHANGED <<choice, saved, reply, repeats, expiries>>,
           faults' \in Nat, faults' >= faults
    PROVE  Choices' /\ Digits'
<1>1. \A p, q : Token(p, q)' = Token(p, q)
      BY DEF Token, reply
<1>2. Choices'
  <2>1. Choices
        BY DEF OutInv
  <2> QED BY <1>1, <2>1 DEF Choices, SavedAfter, IsIn
<1>3. Digits'
  <2>1. faults' + repeats' + expiries' = 0 => faults + repeats + expiries = 0
        BY DEF OutInv, TypeOK
  <2>2. \A p : Away(p)' = Away(p) /\ IsIn(p, saved)' = IsIn(p, saved)
        BY <1>1 DEF Away, SavedAfter, IsIn
  <2>3. Digits
        BY DEF OutInv
  <2> QED BY <1>1, <2>1, <2>2, <2>3 DEF Digits, reply
<1> QED BY <1>2, <1>3

\* The sending of p goes on, or comes to an end.
GoesOn(p) ==
    /\ pc[p] \in Out => pc'[p] \in Out
    /\ pc[p] # "new" => pc'[p] # "new"
    /\ pc'[p] \in {"check", "wait"} \cup Out => pc[p] \in {"check", "wait"} \cup Out

LEMMA AskedStays ==
    ASSUME OutInv, UNCHANGED <<saved, reply>>, faults' \in Nat, faults' >= faults,
           NEW p \in Prompt, GoesOn(p)
    PROVE  Asked(p)'
<1>1. Asked(p) /\ faults \in Nat
      BY DEF OutInv, TypeOK
<1> QED BY <1>1 DEF Asked, GoesOn, reply, IsIn

\* Nothing is posted, and nothing delivered.
LEMMA NothingPosted ==
    ASSUME OutInv, TypeOK',
           UNCHANGED <<tries, logged, queue, screen, choice, saved, reply, repeats,
                       expiries>>,
           faults' >= faults,
           \A p \in Prompt :
               \/ pc'[p] = pc[p]
               \/ pc[p] \in {"check", "wait"} /\ pc'[p] \in {"wait", "post", "blocked"}
               \/ pc[p] = "new" /\ pc'[p] = "blocked"
    PROVE  OutInv'
<1>1. faults \in Nat /\ faults' \in Nat
      BY DEF OutInv, TypeOK
<1>2. Choices' /\ Digits'
      BY <1>1, AnswersStay
<1>3. ASSUME NEW p \in Prompt PROVE Sending(p)' /\ Asked(p)'
  <2>1. GoesOn(p)
        BY <1>3 DEF GoesOn, Out
  <2>2. Asked(p)'
        BY <1>1, <2>1, AskedStays
  <2>3. Sending(p)'
    <3>1. Sending(p) /\ Count(p, queue) \in Nat /\ Count(p, screen) \in Nat
          BY CountFinite DEF OutInv, TypeOK
    <3>2. /\ Count(p, queue)' = Count(p, queue) /\ Count(p, screen)' = Count(p, screen)
          /\ IsIn(p, queue)' = IsIn(p, queue) /\ IsIn(p, screen)' = IsIn(p, screen)
          BY DEF Count, IsIn
    <3>3. \/ pc'[p] = pc[p]
          \/ /\ pc[p] \in {"new", "check", "wait"}
             /\ pc'[p] \in {"wait", "post", "blocked"}
          OBVIOUS
    <3> QED BY <1>1, <3>1, <3>2, <3>3 DEF Sending, Out, MaxAttempts, Unlogged
  <2> QED BY <2>2, <2>3
<1> QED BY <1>2, <1>3 DEF OutInv

LEMMA PreflightKeeps ==
    ASSUME OutInv,
           \/ \E p \in Prompt : Suppress(p) \/ CheckCached(p) \/ CheckLive(p)
           \/ FetchLive \/ ExpireSnapshot \/ Connection
    PROVE  OutInv'
<1>1. TypeOK
      BY DEF OutInv
<1>2. ASSUME NEW p \in Prompt, Suppress(p) \/ CheckCached(p) \/ CheckLive(p)
      PROVE  OutInv'
  <2>1. TypeOK'
        BY <1>1, <1>2 DEF TypeOK, Suppress, CheckCached, CheckLive, Decide, Goto, check,
           reply, budget
  <2> QED BY <1>1, <1>2, <2>1, NothingPosted
          DEF TypeOK, Suppress, CheckCached, CheckLive, Decide, Goto, budget
<1>3. CASE FetchLive
  <2>1. TypeOK'
    <3>1. pc' \in [Prompt -> {"new", "check", "wait", "post", "log", "resolved", "blocked",
                              "rejected"}]
          BY <1>1, <1>3 DEF TypeOK, FetchLive
    <3>2. /\ faults' \in Nat /\ snapshot' \in {"none", "good", "bad"}
          /\ flight' = FALSE
          BY <1>1, <1>3 DEF TypeOK, FetchLive, Fault
    <3>3. UNCHANGED <<up, tries, logged, queue, screen, choice, saved, answered, hook,
                      stored, changes, repeats, expiries>>
          BY <1>3 DEF FetchLive, reply
    <3> QED BY <1>1, <3>1, <3>2, <3>3 DEF TypeOK
  <2>2. faults' >= faults
        BY <1>1, <1>3 DEF TypeOK, FetchLive, Fault
  <2> QED BY <1>3, <2>1, <2>2, NothingPosted DEF FetchLive, Waiting
<1>4. CASE ExpireSnapshot
  <2>1. TypeOK'
        BY <1>1, <1>4 DEF TypeOK, ExpireSnapshot, sender, reply, budget
  <2> QED BY <1>1, <1>4, <2>1, NothingPosted DEF TypeOK, ExpireSnapshot, sender, budget
<1>5. CASE Connection
  <2>1. TypeOK'
        BY <1>1, <1>5 DEF TypeOK, Connection, check, sender, reply
  <2> QED BY <1>1, <1>5, <2>1, NothingPosted DEF TypeOK, Connection, sender
<1> QED BY <1>2, <1>3, <1>4, <1>5

LEMMA PostKeeps ==
    ASSUME OutInv, NEW p \in Prompt, Post(p) \/ PostFails(p)
    PROVE  OutInv'
<1>1. TypeOK /\ Sending(p) /\ pc[p] = "post"
      BY DEF OutInv, Post, PostFails
<1>2. /\ tries' = [tries EXCEPT ![p] = @ + 1]
      /\ UNCHANGED <<up, check, logged, screen, choice, saved, reply, changes, repeats,
                     expiries>>
      BY DEF Post, PostFails, budget
<1>3. /\ queue' \in {queue, Append(queue, p)}
      /\ pc' \in {pc, [pc EXCEPT ![p] = "resolved"], [pc EXCEPT ![p] = "log"]}
      /\ pc' = pc => tries[p] + 1 # MaxAttempts
      /\ \/ pc'[p] = "resolved" /\ faults' = faults
         \/ faults' = faults + 1
  <2>1. CASE Post(p)
        BY <1>1, <2>1 DEF TypeOK, Post, Goto, budget
  <2>2. CASE PostFails(p)
        BY <1>1, <2>2 DEF TypeOK, PostFails, Goto, Fault, GivesUp
  <2> QED BY <2>1, <2>2
<1>4. tries[p] + 1 \in 0 .. MaxAttempts /\ (pc' = pc => tries[p] + 1 < MaxAttempts)
  <2>1. tries[p] \in 0 .. MaxAttempts
        BY <1>1 DEF TypeOK
  <2>2. tries[p] < MaxAttempts
        BY <1>1, <2>1 DEF Sending, MaxAttempts
  <2>3. pc' = pc => tries[p] + 1 # MaxAttempts
        BY <1>3
  <2> QED BY <2>1, <2>2, <2>3 DEF MaxAttempts
<1>5. faults \in Nat /\ faults' \in Nat /\ faults' >= faults
  <2>1. faults \in Nat
        BY <1>1 DEF TypeOK
  <2>2. faults' = faults \/ faults' = faults + 1
        BY <1>3
  <2> QED BY <2>1, <2>2
<1>6. TypeOK'
  <2>1. queue' \in Seq(Prompt)
    <3>1. queue \in Seq(Prompt)
          BY <1>1 DEF TypeOK
    <3>2. Append(queue, p) \in Seq(Prompt)
          BY <3>1
    <3> QED BY <1>3, <3>1, <3>2
  <2>4. pc' \in [Prompt -> {"new", "check", "wait", "post", "log", "resolved", "blocked",
                            "rejected"}]
    <3>1. pc \in [Prompt -> {"new", "check", "wait", "post", "log", "resolved", "blocked",
                             "rejected"}]
          BY <1>1 DEF TypeOK
    <3> QED BY <1>3, <3>1
  <2>2. tries' \in [Prompt -> 0 .. MaxAttempts]
        BY <1>1, <1>2, <1>4 DEF TypeOK
  <2> QED BY <1>1, <1>2, <1>5, <2>1, <2>2, <2>4 DEF TypeOK, check, reply
<1>7. Choices' /\ Digits'
      BY <1>2, <1>5, AnswersStay
<1>8. ASSUME NEW r \in Prompt PROVE Sending(r)' /\ Asked(r)'
  <2>1. pc'[r] = pc[r] \/ (r = p /\ pc'[r] \in {"resolved", "log"})
        BY <1>1, <1>3 DEF TypeOK
  <2>2. GoesOn(r)
        BY <1>1, <2>1 DEF GoesOn, Out
  <2>3. Asked(r)'
        BY <1>2, <1>5, <2>2, AskedStays
  <2>4. /\ queue \in Seq(Prompt) /\ Sending(r)
        /\ Count(r, queue) \in Nat /\ Count(r, screen) \in Nat
        BY <1>1, CountFinite DEF TypeOK, OutInv
  <2>5. /\ Count(r, screen)' = Count(r, screen) /\ IsIn(r, screen)' = IsIn(r, screen)
        BY <1>2 DEF Count, IsIn
  <2>6. /\ Count(r, queue') \in {Count(r, queue), Count(r, queue) + (IF r = p THEN 1 ELSE 0)}
        /\ IsIn(r, queue') => IsIn(r, queue) \/ r = p
    <3>1. /\ Count(r, Append(queue, p)) = Count(r, queue) + (IF p = r THEN 1 ELSE 0)
          /\ IsIn(r, Append(queue, p)) <=> IsIn(r, queue) \/ r = p
          BY <2>4, CountAppend, InSequence
    <3> QED BY <1>3, <2>4, <3>1
  <2>7. Count(r, queue)' = Count(r, queue') /\ IsIn(r, queue)' = IsIn(r, queue')
        BY DEF Count, IsIn
  <2>8. CASE r = p
    <3>1. pc'[p] \in Out /\ (pc'[p] = "post" => pc' = pc)
      <4>1. pc \in [Prompt -> {"new", "check", "wait", "post", "log", "resolved", "blocked",
                               "rejected"}]
            BY <1>1 DEF TypeOK
      <4> QED BY <1>1, <1>3, <4>1 DEF Out
    <3>2. tries'[p] = tries[p] + 1
          BY <1>1, <1>2 DEF TypeOK
    <3>3. Count(r, queue)' + Count(r, screen)' + Unlogged(r)'
            + (IF pc'[r] = "resolved" THEN 0 ELSE 1) <= 1 + faults'
      <4>1. Count(p, queue) + Count(p, screen) + 1 <= 1 + faults
            BY <1>1, <2>4, <2>8 DEF Sending, Unlogged
      <4>2. \/ pc'[p] = "resolved" /\ faults' = faults
            \/ faults' = faults + 1
            BY <1>3
      <4>3. Unlogged(r)' = 0
            BY <1>1, <2>1, <2>8 DEF Unlogged
      <4> QED BY <1>5, <2>4, <2>5, <2>6, <2>7, <2>8, <4>1, <4>2, <4>3
    <3>4. pc'[p] = "log" => faults' > 0
          BY <1>3, <1>5
    <3> QED BY <1>1, <1>3, <1>4, <2>1, <2>3, <2>8, <3>1, <3>2, <3>3, <3>4 DEF Sending, Out
  <2>9. CASE r # p
    <3>1. /\ pc'[r] = pc[r] /\ tries'[r] = tries[r]
          /\ r \in logged' <=> r \in logged
          BY <1>1, <1>2, <1>3, <2>9 DEF TypeOK
    <3>2. Sending(r)'
          BY <1>5, <2>4, <2>5, <2>6, <2>7, <2>9, <3>1 DEF Sending, Unlogged
    <3> QED BY <2>3, <3>2
  <2> QED BY <2>8, <2>9
<1> QED BY <1>6, <1>7, <1>8 DEF OutInv

LEMMA RejectKeeps == ASSUME OutInv, NEW p \in Prompt, Reject(p) PROVE OutInv'
<1>1. TypeOK /\ pc[p] = "log" /\ faults \in Nat
      BY DEF OutInv, TypeOK, Reject
<1>2. /\ pc' = [pc EXCEPT ![p] = "rejected"]
      /\ \/ logged' = logged \cup {p} /\ faults' = faults
         \/ logged' = logged /\ faults' = faults + 1
      /\ UNCHANGED <<up, check, tries, queue, screen, choice, saved, reply, changes,
                     repeats, expiries>>
      BY DEF Reject, Goto, Fault
<1>3. faults' \in Nat /\ faults' >= faults /\ logged' \subseteq Prompt
      BY <1>1, <1>2 DEF TypeOK
<1>4. TypeOK'
      BY <1>1, <1>2, <1>3 DEF TypeOK, check, reply
<1>5. Choices' /\ Digits'
      BY <1>2, <1>3, AnswersStay
<1>6. ASSUME NEW r \in Prompt PROVE Sending(r)' /\ Asked(r)'
  <2>1. IF r = p THEN pc'[r] = "rejected"
        ELSE pc'[r] = pc[r] /\ (r \in logged' <=> r \in logged)
        BY <1>1, <1>2 DEF TypeOK
  <2>2. Asked(r)'
    <3>1. GoesOn(r)
          BY <1>1, <2>1 DEF GoesOn, Out
    <3> QED BY <1>2, <1>3, <3>1, AskedStays
  <2>3. /\ Sending(r) /\ tries' = tries
        /\ Count(r, queue) \in Nat /\ Count(r, screen) \in Nat
        BY <1>1, <1>2, CountFinite DEF OutInv, TypeOK
  <2>4. /\ Count(r, queue)' = Count(r, queue) /\ Count(r, screen)' = Count(r, screen)
        /\ IsIn(r, queue)' = IsIn(r, queue) /\ IsIn(r, screen)' = IsIn(r, screen)
        BY <1>2 DEF Count, IsIn
  <2>5. /\ pc[r] \in {"log", "rejected"} => faults' > 0
        /\ IsIn(r, queue)' \/ IsIn(r, screen)' => pc'[r] \in Out
        /\ pc'[r] \notin {"new", "check", "wait", "post"} \/ pc'[r] = pc[r]
        /\ pc[r] \notin {"log", "rejected"} => pc'[r] \notin {"log", "rejected"}
        BY <1>1, <1>3, <2>1, <2>3, <2>4 DEF Sending, Out
  <2>6. Count(r, queue) + Count(r, screen) + Unlogged(r)'
          + (IF pc'[r] = "resolved" THEN 0 ELSE 1) <= 1 + faults'
    <3>1. Count(r, queue) + Count(r, screen) + Unlogged(r)
            + (IF pc[r] = "resolved" THEN 0 ELSE 1) <= 1 + faults
          BY <2>3 DEF Sending
    <3>2. CASE r = p
      <4>1. /\ Unlogged(r) = 0 /\ pc[r] # "resolved" /\ pc'[r] # "resolved"
            /\ Unlogged(r)' = (IF p \in logged' THEN 0 ELSE 1)
            BY <1>1, <2>1, <3>2 DEF Unlogged
      <4>2. Unlogged(r)' + faults <= faults' /\ Unlogged(r)' \in {0, 1}
            BY <1>1, <1>2, <4>1
      <4> QED BY <1>1, <1>3, <2>3, <3>1, <4>1, <4>2
    <3>3. CASE r # p
      <4>1. Unlogged(r)' = Unlogged(r) /\ Unlogged(r) \in {0, 1} /\ pc'[r] = pc[r]
            BY <2>1, <3>3 DEF Unlogged
      <4> QED BY <1>1, <1>3, <2>3, <3>1, <4>1
    <3> QED BY <3>2, <3>3
  <2>7. Sending(r)'
        BY <2>3, <2>4, <2>5, <2>6 DEF Sending
  <2> QED BY <2>2, <2>7
<1> QED BY <1>4, <1>5, <1>6 DEF OutInv

LEMMA DeliverKeeps == ASSUME OutInv, Deliver PROVE OutInv'
<1>1. /\ TypeOK /\ queue \in Seq(Prompt) /\ queue # <<>> /\ screen \in Seq(Prompt)
      /\ faults \in Nat
      BY DEF OutInv, TypeOK, Deliver
<1>2. /\ queue' = Tail(queue) /\ screen' = Append(screen, Head(queue))
      /\ UNCHANGED <<up, check, sender, choice, saved, reply, budget>>
      BY DEF Deliver
<1>3. Tail(queue) \in Seq(Prompt) /\ Head(queue) \in Prompt
      BY <1>1
<1>4. TypeOK'
      BY <1>1, <1>2, <1>3 DEF TypeOK, check, sender, reply, budget
<1>5. Choices' /\ Digits'
      BY <1>1, <1>2, AnswersStay DEF budget
<1>6. ASSUME NEW p \in Prompt PROVE Sending(p)' /\ Asked(p)'
  <2>1. Asked(p)'
        BY <1>1, <1>2, AskedStays DEF GoesOn, sender, budget
  <2>2. Count(p, queue') + Count(p, screen') = Count(p, queue) + Count(p, screen)
    <3>1. Count(p, queue) = Count(p, Tail(queue)) + (IF Head(queue) = p THEN 1 ELSE 0)
          BY <1>1, CountTail
    <3>2. Count(p, Append(screen, Head(queue)))
            = Count(p, screen) + (IF Head(queue) = p THEN 1 ELSE 0)
          BY <1>1, <1>3, CountAppend
    <3>3. Count(p, Tail(queue)) \in Nat /\ Count(p, screen) \in Nat
          BY <1>1, <1>3, CountFinite
    <3> QED BY <1>2, <3>1, <3>2, <3>3
  <2>3. IsIn(p, queue') \/ IsIn(p, screen') => IsIn(p, queue) \/ IsIn(p, screen)
        BY <1>1, <1>2, <1>3, InSequence
  <2>4. /\ Count(p, queue)' = Count(p, queue') /\ Count(p, screen)' = Count(p, screen')
        /\ IsIn(p, queue)' = IsIn(p, queue') /\ IsIn(p, screen)' = IsIn(p, screen')
        BY DEF Count, IsIn
  <2>5. Sending(p)
        BY DEF OutInv
  <2> QED BY <1>2, <2>1, <2>2, <2>3, <2>4, <2>5 DEF Sending, sender, budget, Unlogged
<1> QED BY <1>4, <1>5, <1>6 DEF OutInv

LEMMA NoneAtAll == \A a, b, c \in Nat : a + b + c = 0 => a = 0 /\ b = 0 /\ c = 0
OBVIOUS

-----------------------------------------------------------------------------
(* Steps of the answers.                                                   *)

\* What is saved stays saved, in the same order.
LEMMA SavedGrows ==
    ASSUME saved \in Seq(Prompt), NEW p \in Prompt, saved' = Append(saved, p)
    PROVE  /\ \A q, r : SavedAfter(q, r) => SavedAfter(q, r)'
           /\ \A q : IsIn(q, saved)' <=> IsIn(q, saved) \/ q = p
           /\ \A q : IsIn(q, saved) => SavedAfter(q, p)'
           /\ saved' # <<>> /\ saved'[Len(saved')] = p
<1>1. /\ Len(saved) \in Nat /\ Len(saved') = Len(saved) + 1
      /\ saved'[Len(saved) + 1] = p
      /\ \A k \in 1 .. Len(saved) : saved'[k] = saved[k] /\ k \in 1 .. Len(saved')
      OBVIOUS
<1>2. \A q, r : SavedAfter(q, r) => SavedAfter(q, r)'
      BY <1>1 DEF SavedAfter
<1>3. \A q : IsIn(q, saved)' <=> IsIn(q, saved) \/ q = p
      BY <1>1 DEF IsIn
<1>4. ASSUME NEW q, IsIn(q, saved) PROVE SavedAfter(q, p)'
  <2>1. PICK j \in 1 .. Len(saved) : saved[j] = q
        BY <1>4 DEF IsIn
  <2>2. /\ j \in 1 .. Len(saved') /\ saved'[j] = q /\ j < Len(saved) + 1
        /\ Len(saved) + 1 \in 1 .. Len(saved')
        BY <1>1, <2>1
  <2> QED BY <1>1, <2>2 DEF SavedAfter
<1>5. saved' # <<>>
      OBVIOUS
<1> QED BY <1>1, <1>2, <1>3, <1>4, <1>5

LEMMA SendNumberedKeeps ==
    ASSUME OutInv, NEW p \in Prompt, SendNumbered(p) PROVE OutInv'
<1>1. /\ TypeOK /\ pc[p] = "new" /\ faults \in Nat /\ saved \in Seq(Prompt)
      /\ \A r \in Prompt : Sending(r) /\ Asked(r)
      BY DEF OutInv, TypeOK, SendNumbered
<1>2. /\ pc' = [pc EXCEPT ![p] = "check"] /\ pc'[p] = "check"
      /\ \A r \in Prompt \ {p} : pc'[r] = pc[r]
      /\ UNCHANGED <<up, check, tries, logged, queue, screen, reply, changes, repeats,
                     expiries>>
      BY <1>1 DEF SendNumbered, Goto, TypeOK
<1>3. \/ choice' = p /\ saved' = Append(saved, p) /\ faults' = faults
      \/ faults' = faults + 1 /\ UNCHANGED <<choice, saved>>
      BY DEF SendNumbered, SaveChoice, Fault
<1>4. faults' \in Nat /\ faults' >= faults
      BY <1>1, <1>3
<1>5. TypeOK'
  <2>1. choice' \in Prompt \cup {None} /\ saved' \in Seq(Prompt)
    <3>1. Append(saved, p) \in Seq(Prompt)
          BY <1>1
    <3> QED BY <1>1, <1>3, <3>1 DEF TypeOK
  <2> QED BY <1>1, <1>2, <1>4, <2>1 DEF TypeOK, check, reply
<1>6. ~IsIn(p, saved) /\ p \notin answered /\ hook[p] = {} /\ stored[p] = None
      BY <1>1 DEF Asked, Out
<1>7. ASSUME NEW r \in Prompt PROVE Sending(r)'
  <2>1. /\ Count(r, queue)' = Count(r, queue) /\ Count(r, screen)' = Count(r, screen)
        /\ IsIn(r, queue)' = IsIn(r, queue) /\ IsIn(r, screen)' = IsIn(r, screen)
        BY <1>2 DEF Count, IsIn
  <2>2. Sending(r) /\ Count(r, queue) \in Nat /\ Count(r, screen) \in Nat
        BY <1>1, CountFinite DEF TypeOK
  <2> QED BY <1>1, <1>2, <1>4, <2>1, <2>2 DEF Sending, Out, Unlogged
<1>8. \A q, r \in Prompt : Token(q, r)' <=> Token(q, r)
      BY <1>2 DEF Token, reply
<1>9. CASE faults' = faults + 1 /\ UNCHANGED <<choice, saved>>
  <2>1. \A r : IsIn(r, saved)' = IsIn(r, saved)
        BY <1>9 DEF IsIn
  <2>2. \A r \in Prompt : Asked(r)'
        BY <1>1, <1>2, <1>6, <1>9, <2>1 DEF Asked, Out, reply
  <2>3. Choices'
        BY <1>8, <1>9, <2>1 DEF OutInv, Choices, SavedAfter
  <2>4. Digits'
    <3>1. faults' \in Nat /\ faults' # 0
      <4>1. faults \in Nat
            BY <1>1 DEF TypeOK
      <4> QED BY <1>9, <4>1
    <3>2. repeats' \in Nat /\ expiries' \in Nat
          BY <1>5 DEF TypeOK
    <3>3. ASSUME faults' + repeats' + expiries' = 0 PROVE FALSE
          BY <3>1, <3>2, <3>3, NoneAtAll, Zenon
    <3> QED BY <3>3 DEF Digits
  <2> QED BY <1>5, <1>7, <2>2, <2>3, <2>4 DEF OutInv
<1>10. CASE choice' = p /\ saved' = Append(saved, p) /\ faults' = faults
  <2>1. /\ \A q, r : SavedAfter(q, r) => SavedAfter(q, r)'
        /\ \A q : IsIn(q, saved)' <=> IsIn(q, saved) \/ q = p
        /\ \A q : IsIn(q, saved) => SavedAfter(q, p)'
        /\ saved' # <<>> /\ saved'[Len(saved')] = p
        BY <1>1, <1>10, SavedGrows
  <2>2. ASSUME NEW r \in Prompt PROVE Asked(r)'
    <3>1. CASE r = p
          BY <1>2, <1>6, <2>1, <3>1 DEF Asked, Out, reply
    <3>2. CASE r # p
          BY <1>1, <1>2, <1>10, <2>1, <3>2 DEF Asked, Out, reply
    <3> QED BY <3>1, <3>2
  <2>3. Choices'
    <3>1. Choices
          BY DEF OutInv
    <3>2. ASSUME NEW q \in Prompt, NEW r \in Prompt, Token(q, r)
          PROVE  /\ choice' # r
                 /\ IsIn(r, saved)'
                 /\ r = q \/ SavedAfter(q, r)' \/ ~IsIn(q, saved)'
      <4>1. IsIn(r, saved) /\ (r = q \/ SavedAfter(q, r) \/ ~IsIn(q, saved))
            BY <3>1, <3>2 DEF Choices
      <4>2. q # p
            BY <1>6, <3>2 DEF Token
      <4> QED BY <1>6, <1>10, <2>1, <4>1, <4>2
    <3>3. \A q, r, x \in Prompt : Token(q, r)' /\ Token(x, r)' => q = x
          BY <1>8, <3>1 DEF Choices
    <3> QED BY <1>8, <1>10, <2>1, <3>2, <3>3 DEF Choices
  <2>4. Digits'
    <3> SUFFICES ASSUME faults' + repeats' + expiries' = 0, NEW r \in Prompt
                 PROVE  /\ hook'[r] # {} => /\ stored'[r] = None
                                            /\ \E x \in hook'[r] : hook'[r] = {x}
                        /\ IsIn(r, saved)' => choice' = r \/ Token(r, r)' \/ Away(r)'
                        /\ stored'[r] = "digit" \/ "digit" \in hook'[r] => Away(r)'
        BY DEF Digits
    <3>1. /\ hook[r] # {} => stored[r] = None /\ \E x \in hook[r] : hook[r] = {x}
          /\ stored[r] = "digit" \/ "digit" \in hook[r] => Away(r)
          BY <1>2, <1>10 DEF OutInv, Digits
    <3>2. Away(r) => Away(r)'
          BY <1>8, <2>1 DEF Away
    <3>3. IsIn(r, saved)' => choice' = r \/ Away(r)'
          BY <1>10, <2>1 DEF Away
    <3> QED BY <1>2, <3>1, <3>2, <3>3 DEF reply
  <2> QED BY <1>5, <1>7, <2>2, <2>3, <2>4 DEF OutInv
<1> QED BY <1>3, <1>9, <1>10

\* The webhooks change nothing of the sending.
LEMMA SendingStays ==
    ASSUME OutInv, UNCHANGED <<sender, queue, screen, saved>>,
           faults' \in Nat, faults' >= faults,
           NEW p \in Prompt, p \in answered => p \in answered',
           p \in answered' => pc[p] \in Out,
           p \notin answered' => UNCHANGED <<hook[p], stored[p]>>
    PROVE  Sending(p)' /\ Asked(p)'
<1>1. /\ TypeOK /\ Sending(p) /\ Asked(p) /\ faults \in Nat
      /\ Count(p, queue) \in Nat /\ Count(p, screen) \in Nat
      BY CountFinite DEF OutInv, TypeOK
<1>2. /\ Count(p, queue)' = Count(p, queue) /\ Count(p, screen)' = Count(p, screen)
      /\ IsIn(p, queue)' = IsIn(p, queue) /\ IsIn(p, screen)' = IsIn(p, screen)
      /\ IsIn(p, saved)' = IsIn(p, saved)
      BY DEF Count, IsIn
<1>3. Sending(p)'
      BY <1>1, <1>2 DEF Sending, sender, Unlogged
<1>4. Asked(p)'
      BY <1>1, <1>2 DEF Asked, sender
<1> QED BY <1>3, <1>4

\* Options that are given away to no one else.
LEMMA FewerTokens ==
    ASSUME OutInv, UNCHANGED saved, choice' \in {choice, None},
           \A p, q \in Prompt : Token(p, q)' => Token(p, q)
    PROVE  Choices'
<1>1. Choices
      BY DEF OutInv
<1>2. \A p, q : IsIn(p, saved)' = IsIn(p, saved) /\ SavedAfter(p, q)' = SavedAfter(p, q)
      BY DEF IsIn, SavedAfter
<1>3. \A q \in Prompt : choice' = q => choice = q
      OBVIOUS
<1> QED BY <1>1, <1>2, <1>3 DEF Choices

LEMMA AnswerKeeps == ASSUME OutInv, Answer PROVE OutInv'
<1>1. TypeOK /\ screen \in Seq(Prompt) /\ screen # <<>>
      BY DEF OutInv, TypeOK, Answer
<1>2. PICK p : /\ p = screen[Len(screen)] /\ p \notin answered
               /\ answered' = answered \cup {p}
               /\ hook' = [hook EXCEPT ![p] = {"sent"}]
      BY DEF Answer
<1>3. UNCHANGED <<up, check, sender, queue, screen, choice, saved, stored, budget>>
      BY DEF Answer
<1>4. p \in Prompt /\ IsIn(p, screen)
      BY <1>1, <1>2 DEF IsIn
<1>5. pc[p] \in Out /\ hook[p] = {} /\ stored[p] = None
      BY <1>2, <1>4 DEF OutInv, Sending, Asked
<1>6. hook'[p] = {"sent"} /\ \A r \in Prompt \ {p} : hook'[r] = hook[r]
      BY <1>1, <1>2, <1>4 DEF TypeOK
<1>7. TypeOK'
  <2>1. hook' \in [Prompt -> SUBSET (Text \cup {"sent"})]
        BY <1>1, <1>2 DEF TypeOK
  <2> QED BY <1>1, <1>2, <1>3, <1>4, <2>1 DEF TypeOK, check, sender, budget
<1>8. ASSUME NEW r \in Prompt PROVE Sending(r)' /\ Asked(r)'
  <2>1. r \in answered' => pc[r] \in Out
        BY <1>2, <1>5 DEF OutInv, Asked
  <2>2. faults' \in Nat /\ faults' >= faults
        BY <1>1, <1>3 DEF TypeOK, budget
  <2> QED BY <1>2, <1>3, <1>6, <2>1, <2>2, SendingStays
<1>9. \A q, r \in Prompt : Token(q, r)' <=> Token(q, r)
      BY <1>3, <1>5, <1>6 DEF Token
<1>10. Choices'
       BY <1>3, <1>9, FewerTokens
<1>11. Digits'
  <2> SUFFICES ASSUME faults + repeats + expiries = 0, NEW r \in Prompt
               PROVE  /\ hook'[r] # {} => /\ stored'[r] = None
                                          /\ \E x \in hook'[r] : hook'[r] = {x}
                      /\ IsIn(r, saved)' => choice' = r \/ Token(r, r)' \/ Away(r)'
                      /\ stored'[r] = "digit" \/ "digit" \in hook'[r] => Away(r)'
      BY <1>3 DEF Digits, budget
  <2>1. Away(r)' <=> Away(r)
        BY <1>3, <1>9 DEF Away, SavedAfter
  <2>2. IsIn(r, saved)' = IsIn(r, saved)
        BY <1>3 DEF IsIn
  <2> QED BY <1>3, <1>5, <1>6, <1>9, <2>1, <2>2 DEF OutInv, Digits
<1> QED BY <1>7, <1>8, <1>10, <1>11 DEF OutInv

\* More webhooks, and webhooks cut short: whatever a digit meets then is paid
\* for.
LEMMA RepeatKeeps ==
    ASSUME OutInv, NEW p \in Prompt, Redeliver(p) \/ Interrupt(p) PROVE OutInv'
<1>1. TypeOK /\ repeats \in Nat /\ p \in Prompt
      BY DEF OutInv, TypeOK
<1>2. /\ UNCHANGED <<up, check, sender, queue, screen, choice, saved, answered, stored,
                     changes, faults, expiries>>
      /\ repeats' = repeats + 1
      /\ hook[p] # {} \/ p \in answered
      BY DEF Redeliver, Interrupt
<1>3. PICK h \in SUBSET (hook[p] \cup {"sent"}) : hook' = [hook EXCEPT ![p] = h]
      BY DEF Redeliver, Interrupt
<1>4. hook'[p] = h /\ \A r \in Prompt \ {p} : hook'[r] = hook[r]
      BY <1>1, <1>3 DEF TypeOK
<1>5. TypeOK'
  <2>1. hook' \in [Prompt -> SUBSET (Text \cup {"sent"})]
    <3>1. h \in SUBSET (Text \cup {"sent"})
          BY <1>1, <1>3 DEF TypeOK
    <3> QED BY <1>1, <1>3, <3>1 DEF TypeOK
  <2> QED BY <1>1, <1>2, <2>1 DEF TypeOK, check, sender
<1>6. p \in answered
      BY <1>2 DEF OutInv, Asked
<1>7. ASSUME NEW r \in Prompt PROVE Sending(r)' /\ Asked(r)'
  <2>1. r \in answered' => pc[r] \in Out
        BY <1>2 DEF OutInv, Asked
  <2>2. faults' \in Nat /\ faults' >= faults
        BY <1>1, <1>2 DEF TypeOK
  <2> QED BY <1>2, <1>4, <1>6, <2>1, <2>2, SendingStays
<1>8. Choices'
  <2>1. \A q, r \in Prompt : Token(q, r)' => Token(q, r)
        BY <1>2, <1>3, <1>4 DEF Token
  <2> QED BY <1>2, <2>1, FewerTokens
<1>9. Digits'
  <2>1. faults' + repeats' + expiries' # 0
        BY <1>1, <1>2, <1>5 DEF TypeOK
  <2> QED BY <2>1 DEF Digits
<1> QED BY <1>5, <1>7, <1>8, <1>9 DEF OutInv

LEMMA EnqueueKeeps ==
    ASSUME OutInv, NEW p \in Prompt, Enqueue(p) PROVE OutInv'
<1>1. TypeOK
      BY DEF OutInv
<1>2. PICK t \in hook[p] \ {"sent"} :
        /\ hook' = [hook EXCEPT ![p] = @ \ {t}]
        /\ stored' = [stored EXCEPT ![p] = IF @ = None THEN t ELSE @]
        /\ UNCHANGED <<up, check, sender, queue, screen, choice, saved, answered, budget>>
      BY DEF Enqueue
<1>3. /\ hook'[p] = hook[p] \ {t} /\ stored'[p] = (IF stored[p] = None THEN t ELSE stored[p])
      /\ \A r \in Prompt \ {p} : hook'[r] = hook[r] /\ stored'[r] = stored[r]
      BY <1>1, <1>2 DEF TypeOK
<1>4. TypeOK'
  <2>1. t \in Text
        BY <1>1, <1>2 DEF TypeOK
  <2>2. /\ hook' \in [Prompt -> SUBSET (Text \cup {"sent"})]
        /\ stored' \in [Prompt -> Text \cup {None}]
        BY <1>1, <1>2, <2>1 DEF TypeOK
  <2> QED BY <1>1, <1>2, <2>2 DEF TypeOK, check, sender, budget
<1>5. p \in answered
      BY <1>2 DEF OutInv, Asked
<1>6. ASSUME NEW r \in Prompt PROVE Sending(r)' /\ Asked(r)'
  <2>1. r \in answered' => pc[r] \in Out
        BY <1>2 DEF OutInv, Asked
  <2>2. faults' \in Nat /\ faults' >= faults
        BY <1>1, <1>2 DEF TypeOK, budget
  <2> QED BY <1>2, <1>3, <1>5, <2>1, <2>2, SendingStays
<1>7. \A q, r \in Prompt : Token(q, r)' => Token(q, r)
      BY <1>2, <1>3 DEF Token
<1>8. Choices'
      BY <1>2, <1>7, FewerTokens
<1>9. Digits'
  <2> SUFFICES ASSUME faults + repeats + expiries = 0, NEW r \in Prompt
               PROVE  /\ hook'[r] # {} => /\ stored'[r] = None
                                          /\ \E x \in hook'[r] : hook'[r] = {x}
                      /\ IsIn(r, saved)' => choice' = r \/ Token(r, r)' \/ Away(r)'
                      /\ stored'[r] = "digit" \/ "digit" \in hook'[r] => Away(r)'
      BY <1>2 DEF Digits, budget
  <2>1. stored[p] = None /\ hook[p] = {t}
        BY <1>2 DEF OutInv, Digits
  <2>2. stored'[p] = t /\ hook'[p] = {}
        BY <1>3, <2>1
  <2>3. \A q, x \in Prompt : Token(q, x) => Token(q, x)'
        BY <1>3, <2>1, <2>2 DEF Token
  <2>4. Away(r) => Away(r)'
        BY <1>2, <2>3 DEF Away, SavedAfter
  <2>5. IsIn(r, saved)' = IsIn(r, saved) /\ choice' = choice
        BY <1>2 DEF IsIn
  <2>6. /\ hook[r] # {} => stored[r] = None /\ \E x \in hook[r] : hook[r] = {x}
        /\ IsIn(r, saved) => choice = r \/ Token(r, r) \/ Away(r)
        /\ stored[r] = "digit" \/ "digit" \in hook[r] => Away(r)
        BY DEF OutInv, Digits
  <2>7. CASE r = p
        BY <2>1, <2>2, <2>3, <2>4, <2>5, <2>6, <2>7
  <2>8. CASE r # p
        BY <1>3, <2>3, <2>4, <2>5, <2>6, <2>8
  <2> QED BY <2>7, <2>8
<1> QED BY <1>4, <1>6, <1>8, <1>9 DEF OutInv

LEMMA ResolveKeeps ==
    ASSUME OutInv, NEW p \in Prompt, Resolve(p) PROVE OutInv'
<1>1. TypeOK /\ "sent" \in hook[p] /\ Choices /\ saved \in Seq(Prompt)
      BY DEF OutInv, TypeOK, Resolve
<1>2. PICK t \in Text :
        /\ hook' = [hook EXCEPT ![p] = (@ \ {"sent"}) \cup {t}]
        /\ \/ t = "digit" /\ choice' = choice /\ faults' = faults + 1
           \/ t = "digit" /\ choice = None /\ choice' = None /\ faults' = faults
           \/ t = choice /\ choice # None /\ choice' = None /\ faults' = faults
  <2>1. choice \in Prompt \cup {None}
        BY <1>1 DEF TypeOK
  <2> QED BY <2>1 DEF Resolve, ResolveChoice, Fault, Text
<1>3. UNCHANGED <<up, check, sender, queue, screen, saved, answered, stored, changes,
                  repeats, expiries>>
      BY DEF Resolve
<1>4. hook'[p] = (hook[p] \ {"sent"}) \cup {t} /\ \A r \in Prompt \ {p} : hook'[r] = hook[r]
      BY <1>1, <1>2 DEF TypeOK
<1>5. faults \in Nat /\ faults' \in Nat /\ faults' >= faults
      BY <1>1, <1>2 DEF TypeOK
<1>6. TypeOK'
  <2>1. hook' \in [Prompt -> SUBSET (Text \cup {"sent"})] /\ choice' \in Prompt \cup {None}
        BY <1>1, <1>2 DEF TypeOK
  <2> QED BY <1>1, <1>3, <1>5, <2>1 DEF TypeOK, check, sender
<1>7. p \in answered
      BY <1>1 DEF OutInv, Asked
<1>8. ASSUME NEW r \in Prompt PROVE Sending(r)' /\ Asked(r)'
  <2>1. r \in answered' => pc[r] \in Out
        BY <1>3 DEF OutInv, Asked
  <2> QED BY <1>3, <1>4, <1>5, <1>7, <2>1, SendingStays
<1>9. \A q, r \in Prompt : Token(q, r)' <=> Token(q, r) \/ (q = p /\ r = t)
      BY <1>3, <1>4 DEF Token
<1>10. \A q, r : SavedAfter(q, r)' = SavedAfter(q, r) /\ IsIn(q, saved)' = IsIn(q, saved)
       BY <1>3 DEF SavedAfter, IsIn
<1>11. CASE t = "digit"
  <2>1. Choices'
        BY <1>2, <1>3, <1>9, <1>11, FewerTokens
  <2>2. Digits'
    <3> SUFFICES ASSUME faults' + repeats' + expiries' = 0, NEW r \in Prompt
                 PROVE  /\ hook'[r] # {} => /\ stored'[r] = None
                                            /\ \E x \in hook'[r] : hook'[r] = {x}
                        /\ IsIn(r, saved)' => choice' = r \/ Token(r, r)' \/ Away(r)'
                        /\ stored'[r] = "digit" \/ "digit" \in hook'[r] => Away(r)'
        BY DEF Digits
    <3>1. faults + repeats + expiries = 0 /\ faults = 0 /\ choice = None /\ choice' = None
      <4>1. repeats \in Nat /\ expiries \in Nat /\ repeats' = repeats /\ expiries' = expiries
            BY <1>1, <1>3 DEF TypeOK
      <4>2. faults' = 0 /\ faults = 0 /\ repeats = 0 /\ expiries = 0
        <5>1. faults' \in Nat /\ repeats' \in Nat /\ expiries' \in Nat
              BY <1>6 DEF TypeOK
        <5>2. faults' = 0 /\ repeats' = 0 /\ expiries' = 0
              BY <5>1, NoneAtAll, Zenon
        <5> QED BY <1>5, <4>1, <5>2
      <4>3. choice # "digit"
            BY <1>1 DEF TypeOK
      <4>4. faults' # faults + 1
            BY <4>2
      <4>5. choice = None /\ choice' = None
            BY <1>2, <1>11, <4>3, <4>4
      <4> QED BY <4>2, <4>5
    <3>2. hook[p] = {"sent"} /\ stored[p] = None
          BY <1>1, <3>1 DEF OutInv, Digits
    <3>3. Away(r)' <=> Away(r)
          BY <1>9, <1>10, <1>11 DEF Away
    <3>4. Away(p)
      <4>1. IsIn(p, saved)
            BY <1>7, <3>1 DEF OutInv, Asked
      <4>2. choice # p /\ ~Token(p, p)
            BY <3>1, <3>2 DEF Token
      <4> QED BY <3>1, <4>1, <4>2 DEF OutInv, Digits
    <3>5. /\ hook[r] # {} => stored[r] = None /\ \E x \in hook[r] : hook[r] = {x}
          /\ IsIn(r, saved) => choice = r \/ Token(r, r) \/ Away(r)
          /\ stored[r] = "digit" \/ "digit" \in hook[r] => Away(r)
          BY <3>1 DEF OutInv, Digits
    <3>6. CASE r = p
          BY <1>3, <1>4, <3>1, <3>2, <3>3, <3>4, <3>6
    <3>7. CASE r # p
      <4>1. hook'[r] = hook[r] /\ stored'[r] = stored[r] /\ (Token(r, r)' <=> Token(r, r))
            BY <1>3, <1>4, <1>9, <3>7
      <4> QED BY <1>10, <3>1, <3>3, <3>5, <4>1
    <3> QED BY <3>6, <3>7
  <2> QED BY <1>6, <1>8, <2>1, <2>2 DEF OutInv
<1>12. CASE t = choice /\ choice # None /\ choice' = None /\ faults' = faults
  <2>1. /\ t \in Prompt /\ saved # <<>> /\ saved[Len(saved)] = t
        /\ \A q \in Prompt : ~Token(q, t)
        BY <1>1, <1>12 DEF Choices, TypeOK
  <2>2. IsIn(t, saved) /\ \A q : IsIn(q, saved) /\ q # t => SavedAfter(q, t)
    <3>1. Len(saved) \in Nat \ {0}
          BY <1>1, <2>1
    <3>2. IsIn(t, saved)
          BY <2>1, <3>1 DEF IsIn
    <3>3. ASSUME NEW q, IsIn(q, saved), q # t PROVE SavedAfter(q, t)
      <4>1. PICK j \in 1 .. Len(saved) : saved[j] = q
            BY <3>3 DEF IsIn
      <4>2. j < Len(saved) /\ Len(saved) \in 1 .. Len(saved)
            BY <2>1, <3>1, <3>3, <4>1
      <4> QED BY <2>1, <4>1, <4>2 DEF SavedAfter
    <3> QED BY <3>2, <3>3
  <2>3. Choices'
    <3>1. \A q, r \in Prompt : Token(q, r)' =>
             /\ choice' # r /\ IsIn(r, saved)'
             /\ r = q \/ SavedAfter(q, r)' \/ ~IsIn(q, saved)'
          BY <1>1, <1>9, <1>10, <1>12, <2>2 DEF Choices
    <3>2. \A q, r, x \in Prompt : Token(q, r)' /\ Token(x, r)' => q = x
          BY <1>1, <1>9, <2>1 DEF Choices
    <3> QED BY <1>12, <3>1, <3>2 DEF Choices
  <2>4. Digits'
    <3> SUFFICES ASSUME faults + repeats + expiries = 0, NEW r \in Prompt
                 PROVE  /\ hook'[r] # {} => /\ stored'[r] = None
                                            /\ \E x \in hook'[r] : hook'[r] = {x}
                        /\ IsIn(r, saved)' => choice' = r \/ Token(r, r)' \/ Away(r)'
                        /\ stored'[r] = "digit" \/ "digit" \in hook'[r] => Away(r)'
        BY <1>3, <1>12 DEF Digits
    <3>1. hook[p] = {"sent"} /\ stored[p] = None
          BY <1>1 DEF OutInv, Digits
    <3>2. hook'[p] = {t} /\ t # "digit" /\ None # "digit"
          BY <1>4, <2>1, <3>1
    <3>3. Away(r) => Away(r)'
          BY <1>9, <1>10 DEF Away
    <3>4. r = t => Token(r, r)' \/ Away(r)'
          BY <1>9, <2>1 DEF Away
    <3>5. /\ hook[r] # {} => stored[r] = None /\ \E x \in hook[r] : hook[r] = {x}
          /\ IsIn(r, saved) => choice = r \/ Token(r, r) \/ Away(r)
          /\ stored[r] = "digit" \/ "digit" \in hook[r] => Away(r)
          BY DEF OutInv, Digits
    <3>6. IsIn(r, saved)' => Token(r, r)' \/ Away(r)'
          BY <1>9, <1>10, <1>12, <3>3, <3>4, <3>5
    <3>7. CASE r = p
          BY <1>3, <3>1, <3>2, <3>6, <3>7
    <3>8. CASE r # p
          BY <1>3, <1>4, <3>3, <3>5, <3>6, <3>8
    <3> QED BY <3>7, <3>8
  <2> QED BY <1>6, <1>8, <2>3, <2>4 DEF OutInv
<1> QED BY <1>2, <1>11, <1>12

LEMMA ExpireChoiceKeeps == ASSUME OutInv, ExpireChoice PROVE OutInv'
<1>1. TypeOK
      BY DEF OutInv
<1>2. /\ choice' = None /\ expiries' = expiries + 1
      /\ UNCHANGED <<up, check, sender, queue, screen, saved, reply, changes, faults,
                     repeats>>
      BY DEF ExpireChoice
<1>3. TypeOK'
      BY <1>1, <1>2 DEF TypeOK, check, sender, reply
<1>4. ASSUME NEW r \in Prompt PROVE Sending(r)' /\ Asked(r)'
  <2>1. r \in answered' => pc[r] \in Out
        BY <1>2 DEF OutInv, Asked, reply
  <2> QED BY <1>1, <1>2, <2>1, SendingStays DEF TypeOK, reply
<1>5. Choices'
  <2>1. \A q, r : Token(q, r)' => Token(q, r)
        BY <1>2 DEF Token, reply
  <2> QED BY <1>2, <2>1, FewerTokens
<1>6. Digits'
  <2>1. faults' + repeats' + expiries' # 0
        BY <1>1, <1>2, <1>3 DEF TypeOK
  <2> QED BY <2>1 DEF Digits
<1> QED BY <1>3, <1>4, <1>5, <1>6 DEF OutInv

-----------------------------------------------------------------------------
LEMMA OutboundNextKeeps == OutInv /\ [Next]_vars => OutInv'
<1> SUFFICES ASSUME OutInv, [Next]_vars PROVE OutInv'
    OBVIOUS
<1>1. CASE Next
      BY <1>1, PreflightKeeps, SendNumberedKeeps, PostKeeps, RejectKeeps, DeliverKeeps,
         AnswerKeeps, RepeatKeeps, EnqueueKeeps, ResolveKeeps, ExpireChoiceKeeps DEF Next
<1>2. CASE UNCHANGED vars
  <2>1. TypeOK'
        BY <1>2 DEF OutInv, TypeOK, vars
  <2> QED BY <1>2, <2>1, NothingPosted DEF OutInv, TypeOK, vars, reply
<1> QED BY <1>1, <1>2

LEMMA OutInvAlways == Spec => []OutInv
BY InitOutbound, OutboundNextKeeps, PTL DEF Spec

\* Every variable of the transport keeps its type.
THEOREM OutboundTypeCorrect == Spec => []TypeOK
<1>1. OutInv => TypeOK
      BY DEF OutInv
<1> QED BY <1>1, OutInvAlways, PTL

\* The user reads a prompt at most once more than posts seemed to fail; none
\* that was held back; and no caller hears of a failure that is not logged.
THEOREM CopiesArePaidFor == Spec => []CopiesPaidFor
BY OutInvAlways, OutInvImplies, PTL

\* A number never becomes the command of an older prompt, no prompt's command
\* is carried out twice, and a number stays a number only on account of a
\* fault, a repetition, an expiry or another prompt.
THEOREM AnswersDoResolve == Spec => []AnswersResolve
BY OutInvAlways, OutInvImplies, PTL

-----------------------------------------------------------------------------
(* The monitor.                                                           *)

HIDE OutboundAssumption
USE HealthAssumption

\* A state that is remembered as bad was announced by the last alert: nothing
\* is announced after it but its end, and a restart forgets it.
Announced == known \in Bad => tried = "down"

HInv == HealthTypeOK /\ Announced

LEMMA InitHealth == HealthInit => HInv
BY DEF HealthInit, HInv, HealthTypeOK, Announced, State, Bad

\* Whether a webhook or the poll brings the state: an outage is announced when
\* it is first seen, and its end is told to whom its beginning was announced.
LEMMA HandleHealth ==
    ASSUME HInv, NEW s \in State, Handle(s)
    PROVE  /\ known' \in State /\ cooled' \in BOOLEAN
           /\ {tried', told'} \subseteq {"none", "down", "up"} /\ misses' \in Nat
           /\ known' \in Bad => tried' = "down"
           /\ tried' = "up" /\ tried # "up" => tried = "down"
<1>1. CASE Reason(s) = "none"
  <2>1. known' = s /\ UNCHANGED <<cooled, tried, told, misses>>
        BY <1>1 DEF Handle
  <2>2. s \in Bad => known \in Bad
        BY <1>1 DEF Reason
  <2> QED BY <2>1, <2>2 DEF HInv, HealthTypeOK, Announced
<1>2. CASE Reason(s) = "recovered"
  <2>0. cooled' \in BOOLEAN
        BY <1>2, Zenon DEF Handle
  <2>1. /\ known' = s
        /\ tried' = "up" /\ (told' = "up" \/ told' = told) /\ misses' \in {misses, misses + 1}
        BY <1>2 DEF Handle, SendToOps, Saying
  <2>2. s = "authorized" /\ known \in Bad
        BY <1>2 DEF Reason
  <2> QED BY <2>0, <2>1, <2>2 DEF HInv, HealthTypeOK, Announced, Bad
<1>3. CASE Reason(s) \notin {"none", "recovered"}
  <2>0. cooled' \in BOOLEAN
        BY <1>3, Zenon DEF Handle
  <2>1. /\ known' = s
        /\ tried' = "down" /\ (told' = "down" \/ told' = told) /\ misses' \in {misses, misses + 1}
        BY <1>3 DEF Handle, SendToOps, Saying
  <2> QED BY <2>0, <2>1 DEF HInv, HealthTypeOK
<1> QED BY <1>1, <1>2, <1>3

LEMMA NextHealth ==
    ASSUME HInv, [HealthNext]_hvars
    PROVE  HInv' /\ (tried' = "up" /\ tried # "up" => tried = "down")
<1>1. CASE UNCHANGED hvars
      BY <1>1 DEF hvars, HInv, HealthTypeOK, Announced
<1>2. ASSUME NEW s \in State, Change(s)
      PROVE  HInv' /\ (tried' = "up" /\ tried # "up" => tried = "down")
      BY <1>2 DEF Change, health, HInv, HealthTypeOK, Announced
<1>3. CASE Poll
  <2>1. instance \in State /\ Handle(instance) /\ UNCHANGED <<instance, hooks, restarts>>
        BY <1>3 DEF Poll, HInv, HealthTypeOK
  <2> QED BY <2>1, HandleHealth DEF HInv, HealthTypeOK, Announced
<1>4. CASE StateHook
  <2>1. PICK s \in hooks : Handle(s) /\ hooks' = hooks \ {s}
        BY <1>4 DEF StateHook
  <2>2. s \in State /\ UNCHANGED <<instance, restarts>>
        BY <1>4, <2>1 DEF StateHook, HInv, HealthTypeOK
  <2> QED BY <2>1, <2>2, HandleHealth DEF HInv, HealthTypeOK, Announced
<1>5. CASE CoolDown
      BY <1>5 DEF CoolDown, HInv, HealthTypeOK, Announced
<1>6. CASE Restart
      BY <1>6 DEF Restart, HInv, HealthTypeOK, Announced, Bad
<1> QED BY <1>1, <1>2, <1>3, <1>4, <1>5, <1>6 DEF HealthNext

\* Every variable keeps its type.
THEOREM HealthTypeCorrect == HealthSpec => []HealthTypeOK
<1>1. HInv /\ [HealthNext]_hvars => HInv'
      BY NextHealth
<1>2. HInv => HealthTypeOK
      BY DEF HInv
<1> QED BY <1>1, <1>2, InitHealth, PTL DEF HealthSpec

\* In whatever order webhooks and polls come: operators read of a recovery only
\* after the outage was announced, and a state known to be bad was announced.
THEOREM NewsInOrder == HealthSpec => AnnouncedBeforeRecovered
<1>1. HInv /\ [HealthNext]_hvars => HInv'
      BY NextHealth
<1>2. HInv => (known \in Bad => tried = "down")
      BY DEF HInv, Announced
<1>3. HInv /\ [HealthNext]_hvars => [tried' = "up" /\ tried # "up" => tried = "down"]_hvars
      BY NextHealth
<1> QED BY <1>1, <1>2, <1>3, InitHealth, PTL DEF HealthSpec, AnnouncedBeforeRecovered
=============================================================================
