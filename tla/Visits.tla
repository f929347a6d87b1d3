------------------------------- MODULE Visits -------------------------------
(***************************************************************************)
(* The services that write visits ("TaskField"), called by the tools of    *)
(* the voice assistant, by managers and by the poll that sends assignment  *)
(* cards.  A tool checks its visit first, and then calls one service after *)
(* the other: every one is a statement or a transaction of its own, the    *)
(* check is not part of it, and one that fails ends the tool halfway.      *)
(***************************************************************************)
EXTENDS Naturals, Sequences, FiniteSets

CONSTANTS
    Visit, Task, Employee,
    Caller,         \* slots for concurrent calls of tools
    MaxCalls,       \* bound: calls
    MaxMishaps       \* bound: services that fail, and visits and tasks closed
                    \* by the office

ASSUME VisitsAssumption ==
    /\ Task # {} /\ Employee # {}
    /\ "none" \notin Visit \cup Task \cup Employee
    /\ IsFiniteSet(Caller)
    /\ MaxCalls \in Nat
    /\ MaxMishaps \in Nat

VARIABLES
    owner,      \* owner[t]: Task.ownerId
    open,       \* tasks whose status is neither DONE nor CANCELED
    task,       \* task[v]: TaskField.taskId, "none" before it is scheduled
    status,     \* status[v]: TaskField.fieldStatus
    stamped,    \* visits whose workerNotifiedAt is set
    trip,       \* trip[v]: the worker of the open TrackingSession of v, or "none"
    call,       \* call[c]: the tool c runs, and what its check read
    todo,       \* todo[c]: the steps of it that are left
    knows,      \* knows[v]: workers who were sent a card of v, or acted on it
    crossed,    \* visits reassigned while a call was about them
    disturbed,  \* visits two tools ran on at once, or one broke off on
    late,       \* writes to what was closed
    excused,    \* calls past their check on something when it was closed
    calls, mishaps

vrows   == <<owner, open, task, status, stamped, trip>>
ghosts == <<knows, crossed, disturbed, late, excused>>
vbounds == <<calls, mishaps>>
vvars   == <<vrows, call, todo, ghosts, vbounds>>

Unset == "none"

\* Mutant: a visit that is declined keeps its trip.
DeclineKeepsTrip == <<"check", "write">>

DeclineSteps == <<"check", "write", "closeSession">>

\* What each tool does, one step after the other.
Steps ==
    [confirm    |-> <<"check", "write">>,
     depart     |-> <<"check", "openSession", "write">>,
     arrive     |-> <<"check", "write">>,
     finish     |-> <<"check", "write", "closeSession">>,
     decline    |-> DeclineSteps,
     problem    |-> <<"check", "write">>,
     missing    |-> <<"check", "write">>,
     reschedule |-> <<"look", "move", "tell">>,
     type       |-> <<"look", "retype">>,
     reassign   |-> <<"reassign">>,
     schedule   |-> <<"find", "insert">>,
     card       |-> <<"read", "send", "stamp">>]

Tool == DOMAIN Steps
FieldTool == {"confirm", "depart", "arrive", "finish", "decline", "problem", "missing"}

After ==
    [confirm |-> "CONFIRMED", depart |-> "EN_ROUTE", arrive |-> "ARRIVED",
     finish |-> "FINISHED_FIELD", decline |-> "DECLINED",
     problem |-> "HAS_PROBLEM", missing |-> "WAITING_FOR_INFO"]

Status == {After[t] : t \in FieldTool} \cup {"ASSIGNED", "CANCELED"}

\* Whom a reassignment starts anew for; where a worker's tools do not go; and
\* where corrections do not.
Waiting      == {"ASSIGNED", "CONFIRMED"}
Closed       == {"CANCELED", "DECLINED", "FINISHED_FIELD"}
NotCorrected == {"CANCELED", "FINISHED_FIELD"}

Scheduled == {v \in Visit : task[v] # Unset}

\* by: who calls; worker: whom the check found, or whom to give the task to.
Call == [tool : Tool \cup {Unset}, visit : Visit \cup {Unset}, task : Task \cup {Unset},
         by : Employee \cup {Unset}, worker : Employee \cup {Unset}]
NoCall == [tool |-> Unset, visit |-> Unset, task |-> Unset, by |-> Unset, worker |-> Unset]

\* No call yet.
Quiescent ==
    /\ open = Task
    /\ status = [v \in Visit |-> "ASSIGNED"]
    /\ stamped = {}
    /\ trip = [v \in Visit |-> Unset]
    /\ call = [c \in Caller |-> NoCall]
    /\ todo = [c \in Caller |-> <<>>]
    /\ knows = [v \in Visit |-> {}]
    /\ crossed = {}
    /\ disturbed = {}
    /\ late = 0
    /\ excused = 0
    /\ calls = 0
    /\ mishaps = 0

VisitsInit ==
    /\ owner \in [Task -> Employee]
    /\ \E v \in Visit, t \in Task :
          task = [w \in Visit |-> IF w = v THEN t ELSE Unset]
    /\ Quiescent

-----------------------------------------------------------------------------
(***************************************************************************)
(* Calls.                                                                  *)
(***************************************************************************)

Busy(v) == {c \in Caller : todo[c] # <<>> /\ call[c].visit = v}

Start(c, k) ==
    /\ todo[c] = <<>>
    /\ calls < MaxCalls
    /\ calls' = calls + 1
    /\ call' = [call EXCEPT ![c] = k]
    /\ todo' = [todo EXCEPT ![c] = Steps[k.tool]]
    /\ UNCHANGED <<vrows, ghosts, mishaps>>

\* A worker's tool, on one of the visits by its id, a hint, or for being the
\* only one open.
StartField(c) ==
    \E t \in FieldTool, v \in Scheduled, w \in Employee :
        Start(c, [NoCall EXCEPT !.tool = t, !.visit = v, !.by = w])

StartCorrection(c) ==
    \E t \in {"reschedule", "type"}, v \in Scheduled :
        Start(c, [NoCall EXCEPT !.tool = t, !.visit = v])

StartReassign(c) ==
    \E t \in Task, w \in Employee :
        Start(c, [NoCall EXCEPT !.tool = "reassign", !.task = t, !.worker = w])

StartSchedule(c) ==
    \E t \in Task : Start(c, [NoCall EXCEPT !.tool = "schedule", !.task = t])

StartCard(c) ==
    \E v \in Scheduled : Start(c, [NoCall EXCEPT !.tool = "card", !.visit = v])

At(c, step) == todo[c] # <<>> /\ Head(todo[c]) = step

Done(c) == todo' = [todo EXCEPT ![c] = Tail(@)]
Stop(c) == todo' = [todo EXCEPT ![c] = <<>>]

\* What the answers of the checks are worth: another call may be writing.
Overlapped(c) ==
    disturbed' = IF \E d \in Busy(call[c].visit) : d # c /\ call[d].tool \in FieldTool
                 THEN disturbed \cup {call[c].visit} ELSE disturbed

\* Mutant: an explicit id is taken as it is.
AnyVisit(v, w) == v \in Scheduled

Valid(v, w) == owner[task[v]] = w /\ status[v] \notin Closed

Check(c) ==
    LET k == call[c]
    IN  /\ At(c, "check")
        /\ IF Valid(k.visit, k.by)
           THEN Done(c) /\ Overlapped(c)
           ELSE Stop(c) /\ UNCHANGED disturbed
        /\ UNCHANGED <<vrows, call, knows, crossed, late, excused, vbounds>>

\* The service reads the status, and of the worker his phone.
Look(c) ==
    LET v == call[c].visit
    IN  /\ At(c, "look")
        /\ IF status[v] \notin NotCorrected
           THEN /\ Done(c)
                /\ call' = [call EXCEPT ![c].worker = owner[task[v]]]
           ELSE Stop(c) /\ UNCHANGED call
        /\ UNCHANGED <<vrows, ghosts, vbounds>>

Find(c) ==
    /\ At(c, "find")
    /\ IF call[c].task \in open THEN Done(c) ELSE Stop(c)
    /\ UNCHANGED <<vrows, call, ghosts, vbounds>>

\* The poll takes the visits without a stamp, whatever their status is, with the
\* phone of the worker.
Read(c) ==
    LET v == call[c].visit
    IN  /\ At(c, "read")
        /\ IF v \notin stamped
           THEN /\ Done(c)
                /\ call' = [call EXCEPT ![c].worker = owner[task[v]]]
           ELSE Stop(c) /\ UNCHANGED call
        /\ UNCHANGED <<vrows, ghosts, vbounds>>

-----------------------------------------------------------------------------
(***************************************************************************)
(* Services.                                                               *)
(***************************************************************************)

\* Calls that have passed their check of v and are still to write it.
Checked(v) ==
    {c \in Busy(v) : Head(todo[c]) \in {"openSession", "write", "move", "retype"}}

\* advanceFieldStatus and the reports write without a look at the status.
WriteVisitStatus(c) ==
    LET k == call[c]
        to == After[k.tool]
    IN  /\ At(c, "write")
        /\ status' = [status EXCEPT ![k.visit] = to]
        /\ knows' = [knows EXCEPT ![k.visit] = @ \cup {k.by}]
        /\ late' = late + (IF status[k.visit] \in Closed THEN 1 ELSE 0)
        /\ excused' = excused +
              (IF to \in Closed THEN Cardinality(Checked(k.visit) \ {c}) ELSE 0)
        /\ Done(c)
        /\ UNCHANGED <<owner, open, task, stamped, trip, call, crossed, disturbed, vbounds>>

\* One transaction: the worker's open sessions are superseded by the new one.
\* A colleague's session of the same visit refuses it, which the tool passes over.
OpenSession(c) ==
    LET k == call[c]
    IN  /\ At(c, "openSession")
        /\ trip' = IF trip[k.visit] \in {Unset, k.by}
                   THEN [v \in Visit |-> IF v = k.visit THEN k.by
                                         ELSE IF trip[v] = k.by THEN Unset ELSE trip[v]]
                   ELSE trip
        /\ Done(c)
        /\ UNCHANGED <<owner, open, task, status, stamped, call, ghosts, vbounds>>

CloseSession(c) ==
    /\ At(c, "closeSession")
    /\ trip' = [trip EXCEPT ![call[c].visit] = Unset]
    /\ Done(c)
    /\ UNCHANGED <<owner, open, task, status, stamped, call, ghosts, vbounds>>

\* Neither of the two looks at the status again.
Late(c) == late' = late + (IF status[call[c].visit] \in NotCorrected THEN 1 ELSE 0)

Move(c) ==
    /\ At(c, "move")
    /\ stamped' = stamped \ {call[c].visit}
    /\ Late(c)
    /\ Done(c)
    /\ UNCHANGED <<owner, open, task, status, trip, call, knows, crossed, disturbed,
                   excused, vbounds>>

Retype(c) ==
    /\ At(c, "retype")
    /\ Late(c)
    /\ Done(c)
    /\ UNCHANGED <<vrows, call, knows, crossed, disturbed, excused, vbounds>>

\* A text about the new time, to the phone that was looked up before.
Tell(c) ==
    /\ At(c, "tell")
    /\ knows' = [knows EXCEPT ![call[c].visit] = @ \cup {call[c].worker}]
    /\ Done(c)
    /\ UNCHANGED <<vrows, call, crossed, disturbed, late, excused, vbounds>>

\* Mutant: nobody is told of the task he is given.
KeepStamps(t) == stamped

\* A card is due again for what has not begun.
StampsLeft(t) == stamped \ {v \in Scheduled : task[v] = t /\ status[v] \in Waiting}

\* One transaction: the owner of the task, and the visits that wait.
Reassign(c) ==
    LET t == call[c].task
    IN  /\ At(c, "reassign")
        /\ owner' = [owner EXCEPT ![t] = call[c].worker]
        /\ stamped' = StampsLeft(t)
        /\ crossed' = crossed \cup
              {v \in Scheduled : task[v] = t /\ owner[t] # call[c].worker /\ Busy(v) # {}}
        /\ Done(c)
        /\ UNCHANGED <<open, task, status, trip, call, knows, disturbed, late, excused, vbounds>>

\* One INSERT, without a look at the task or at the visits it has.
Insert(c) ==
    /\ At(c, "insert")
    /\ \E v \in Visit \ Scheduled : task' = [task EXCEPT ![v] = call[c].task]
    /\ late' = late + (IF call[c].task \notin open THEN 1 ELSE 0)
    /\ Done(c)
    /\ UNCHANGED <<owner, open, status, stamped, trip, call, knows, crossed, disturbed,
                   excused, vbounds>>

SendCard(c) ==
    /\ At(c, "send")
    /\ knows' = [knows EXCEPT ![call[c].visit] = @ \cup {call[c].worker}]
    /\ Done(c)
    /\ UNCHANGED <<vrows, call, crossed, disturbed, late, excused, vbounds>>

Stamp(c) ==
    /\ At(c, "stamp")
    /\ stamped' = stamped \cup {call[c].visit}
    /\ Done(c)
    /\ UNCHANGED <<owner, open, task, status, trip, call, ghosts, vbounds>>

Fault ==
    /\ mishaps < MaxMishaps
    /\ mishaps' = mishaps + 1
    /\ UNCHANGED calls

\* Mutant: what fails is passed over.
GoesOn(c) == Done(c)

\* A service that fails ends the tool; without a session the status is still
\* written, and the poll goes on to the next card.
GivenUp(c) == IF Head(todo[c]) = "openSession" THEN Done(c) ELSE Stop(c)

Fails(c) ==
    /\ todo[c] # <<>>
    /\ Fault
    /\ GivenUp(c)
    /\ disturbed' = disturbed \cup ({call[c].visit} \cap Visit)
    /\ UNCHANGED <<vrows, call, knows, crossed, late, excused>>

OfficeCancels(v) ==
    /\ v \in Scheduled
    /\ status[v] \notin Closed
    /\ Fault
    /\ status' = [status EXCEPT ![v] = "CANCELED"]
    /\ excused' = excused + Cardinality(Checked(v))
    /\ UNCHANGED <<owner, open, task, stamped, trip, call, todo, knows, crossed, disturbed, late>>

OfficeClosesTask(t) ==
    /\ t \in open
    /\ Fault
    /\ open' = open \ {t}
    /\ excused' = excused + Cardinality({c \in Caller : At(c, "insert") /\ call[c].task = t})
    /\ UNCHANGED <<owner, task, status, stamped, trip, call, todo, knows, crossed, disturbed, late>>

VisitsNext ==
    \/ \E c \in Caller :
          \/ StartField(c) \/ StartCorrection(c) \/ StartReassign(c)
          \/ StartSchedule(c) \/ StartCard(c)
          \/ Check(c) \/ Look(c) \/ Find(c) \/ Read(c)
          \/ WriteVisitStatus(c) \/ OpenSession(c) \/ CloseSession(c)
          \/ Move(c) \/ Retype(c) \/ Tell(c)
          \/ Reassign(c) \/ Insert(c) \/ SendCard(c) \/ Stamp(c)
          \/ Fails(c)
    \/ \E v \in Visit : OfficeCancels(v)
    \/ \E t \in Task : OfficeClosesTask(t)

VisitsSpec == VisitsInit /\ [][VisitsNext]_vvars

-----------------------------------------------------------------------------
(***************************************************************************)
(* Properties.                                                             *)
(***************************************************************************)

\* What is left of the tool t: nothing, all of it, or what follows its first steps.
Left(t, s) ==
    \/ s = <<>>
    \/ t \in Tool /\ s = Steps[t]
    \/ t \in Tool /\ Len(Steps[t]) > 1 /\ s \in {Tail(Steps[t]), Tail(Tail(Steps[t]))}

\* A call has what is left of its tool, and past its look the worker it found.
VisitsTypeOK ==
    /\ owner \in [Task -> Employee]
    /\ open \subseteq Task
    /\ task \in [Visit -> Task \cup {Unset}]
    /\ status \in [Visit -> Status]
    /\ stamped \subseteq Scheduled
    /\ trip \in [Visit -> Employee \cup {Unset}]
    /\ call \in [Caller -> Call]
    /\ DOMAIN todo = Caller
    /\ \A c \in Caller : Left(call[c].tool, todo[c])
    /\ \A c \in Caller :
          todo[c] # <<>> /\ Head(todo[c]) \in {"move", "tell", "send", "stamp"}
              => call[c].worker # Unset
    /\ knows \in [Visit -> SUBSET Employee]
    /\ crossed \cup disturbed \subseteq Visit
    /\ calls \in 0..MaxCalls
    /\ mishaps \in 0..MaxMishaps

\* What is closed is left alone: a status, a type, a time or a new visit is
\* written to a closed visit or task only by a call that had checked it before
\* it was closed, once each.
ClosedIsLeftAlone == late <= excused

\* The worker a visit is given to hears of it: one that has not begun and is
\* not due a card has an owner who was sent one or who has acted on it, except
\* where it was given to him in the middle of a call about it.
OwnerKnows ==
    \A v \in Scheduled \ crossed :
        v \in stamped /\ status[v] \in Waiting => owner[task[v]] \in knows[v]

\* The customer sees no trip to a visit that was finished or declined, but for
\* tools that ran at once or broke off.
TripEndsWithVisit ==
    \A v \in Visit \ disturbed :
        status[v] \in {"FINISHED_FIELD", "DECLINED"} /\ Busy(v) = {} => trip[v] = Unset
=============================================================================
