------------------------------ MODULE LiveTracking ------------------------------
(***************************************************************************)
(* Live tracking of field visits.  A worker reports DEPARTED, ARRIVED,     *)
(* FINISHED, CONFIRM or a decline of a TaskField, over WhatsApp or the     *)
(* voice assistant; the report writes TaskField.fieldStatus and, apart     *)
(* from it, the TrackingSession whose public token shows the customer      *)
(* where the worker is.  The two are written by separate statements, the   *)
(* second often fire-and-forget, and messages are served concurrently.     *)
(*                                                                         *)
(* A handler of a message takes one step per statement.  Which field a     *)
(* message is about (quote, pointer, menu, hint) is left open: menus and   *)
(* cards may be old, so it is any field in any status.                     *)
(***************************************************************************)
EXTENDS Naturals, Sequences, FiniteSets

CONSTANTS
    Worker,       \* users who visit customers
    Field,        \* TaskFields
    Handler,      \* slots for messages being served
    AgentLoop,    \* TRUE: AI_AGENT_LOOP is on, its tool writes no sessions
    MaxMessages,  \* bound: messages of workers
    MaxCrashes,   \* bound: crashes of the process
    MaxFaults     \* bound: statements that fail

ASSUME LiveTrackingAssumption ==
    /\ IsFiniteSet(Handler)
    /\ AgentLoop \in BOOLEAN
    /\ MaxMessages \in Nat
    /\ MaxCrashes \in Nat
    /\ MaxFaults \in Nat

VARIABLES
    fieldStatus,  \* fieldStatus[f]
    sess,         \* the TrackingSession rows, oldest first
    notified,     \* fields with a WORKER_EN_ROUTE row
    links,        \* links[f]: what was sent to the customer of f, in order:
                  \* sessions, 0 for a message without a link
    pc, msg,      \* pc[h], msg[h]: where handler h is, the message it serves
    snap,         \* snap[h]: the sessions the UPDATE of h's transaction found
    messages,     \* messages so far
    crashes, faults,
    untracked     \* status writes of the agent so far

db      == <<fieldStatus, sess, notified, links>>
handler == <<pc, msg, snap>>
bounds  == <<messages, crashes, faults, untracked>>
vars    == <<db, handler, bounds>>

FieldStatus ==
    {"ASSIGNED", "CONFIRMED", "EN_ROUTE", "ARRIVED", "FINISHED_FIELD", "DECLINED"}
Transition    == {"CONFIRM", "DEPARTED", "ARRIVED", "FINISHED", "DECLINE"}
SessionStatus == {"ACTIVE", "ARRIVED", "FINISHED", "CANCELED", "SUPERSEDED"}
Session       == [worker : Worker, field : Field, status : SessionStatus]
Message       == [worker : Worker, field : Field, op : Transition,
                  agent : BOOLEAN]
NoMessage     == [op |-> "none"]
Pc            == {"idle", "open", "commit", "write", "track", "claim", "send"}

Init ==
    /\ fieldStatus = [f \in Field |-> "ASSIGNED"]
    /\ sess = <<>>
    /\ notified = {}
    /\ links = [f \in Field |-> <<>>]
    /\ pc = [h \in Handler |-> "idle"]
    /\ msg = [h \in Handler |-> NoMessage]
    /\ snap = [h \in Handler |-> {}]
    /\ messages = 0
    /\ crashes = 0
    /\ faults = 0
    /\ untracked = 0

Goto(h, p) ==
    /\ pc' = [pc EXCEPT ![h] = p]
    /\ msg' = IF p = "idle" THEN [msg EXCEPT ![h] = NoMessage] ELSE msg
    /\ snap' = [snap EXCEPT ![h] = {}]

IsOpen(s)      == sess[s].status \in {"ACTIVE", "ARRIVED"}
OpenOf(w)      == {s \in DOMAIN sess : IsOpen(s) /\ sess[s].worker = w}
OpenOn(f)      == {s \in DOMAIN sess : IsOpen(s) /\ sess[s].field = f}
SetStatus(S, t) ==
    [s \in DOMAIN sess |-> IF s \in S THEN [sess[s] EXCEPT !.status = t]
                           ELSE sess[s]]

-----------------------------------------------------------------------------
(* performTransition, update_inspection_status, the decline replies and    *)
(* the tool of the agent.                                                  *)

\* validateWorkerTaskField: no transition of a field that is over.
Usable(f) == fieldStatus[f] \notin {"DECLINED", "FINISHED_FIELD"}

\* The agent always validates; a reply to a menu or a card does not, so other
\* messages may be about any field.
Receive(h, m) ==
    /\ pc[h] = "idle"
    /\ messages < MaxMessages
    /\ messages' = messages + 1
    /\ m.agent => AgentLoop /\ m.op # "DECLINE" /\ Usable(m.field)
    /\ msg' = [msg EXCEPT ![h] = m]
    /\ pc' = [pc EXCEPT ![h] =
                 IF m.op = "DEPARTED" /\ ~m.agent THEN "open" ELSE "write"]
    /\ UNCHANGED <<db, snap, crashes, faults, untracked>>

\* openTrackingSession, the UPDATE of its transaction: READ COMMITTED, it
\* finds the sessions that are open now.
OpenUpdate(h) ==
    /\ pc[h] = "open"
    /\ pc' = [pc EXCEPT ![h] = "commit"]
    /\ snap' = [snap EXCEPT ![h] = OpenOf(msg[h].worker)]
    /\ UNCHANGED <<db, msg, bounds>>

\* The INSERT meets a unique index when a session was opened behind the back
\* of the UPDATE, or the field has one of another worker.
Clash(h) ==
    \/ ~(OpenOf(msg[h].worker) \subseteq snap[h])
    \/ ~(OpenOn(msg[h].field) \subseteq snap[h])

\* Mutant: without the partial unique indexes.
OpenCommitNoIndex(h) ==
    /\ pc[h] = "commit"
    /\ sess' = Append(SetStatus(snap[h] \cap OpenOf(msg[h].worker), "SUPERSEDED"),
                      [worker |-> msg[h].worker, field |-> msg[h].field,
                       status |-> "ACTIVE"])
    /\ Goto(h, "write")
    /\ UNCHANGED <<fieldStatus, notified, links, bounds>>

\* INSERT and COMMIT, or ROLLBACK; either way the handler goes on.
OpenCommit(h) ==
    /\ pc[h] = "commit"
    /\ sess' = IF Clash(h) THEN sess
               ELSE Append(SetStatus(OpenOf(msg[h].worker), "SUPERSEDED"),
                           [worker |-> msg[h].worker, field |-> msg[h].field,
                            status |-> "ACTIVE"])
    /\ Goto(h, "write")
    /\ UNCHANGED <<fieldStatus, notified, links, bounds>>

OpenFails(h) ==
    /\ pc[h] \in {"open", "commit"}
    /\ faults < MaxFaults
    /\ faults' = faults + 1
    /\ Goto(h, "write")
    /\ UNCHANGED <<db, messages, crashes, untracked>>

Written ==
    [CONFIRM |-> "CONFIRMED", DEPARTED |-> "EN_ROUTE", ARRIVED |-> "ARRIVED",
     FINISHED |-> "FINISHED_FIELD", DECLINE |-> "DECLINED"]

\* Mutant: every channel leaves the session alone, like the agent.
AfterWriteNothing(m) == IF m.op = "DEPARTED" THEN "claim" ELSE "idle"

\* What follows the write: DEPARTED notifies the customer, the end of a trip
\* and the arrival are brought to the session, but not by the agent.
AfterWrite(m) ==
    IF m.op = "DEPARTED" THEN "claim"
    ELSE IF m.op = "CONFIRM" \/ m.agent THEN "idle" ELSE "track"

\* advanceFieldStatus and declineInspection: no guard on the current status.
WriteStatus(h) ==
    /\ pc[h] = "write"
    /\ fieldStatus' = [fieldStatus EXCEPT ![msg[h].field] = Written[msg[h].op]]
    /\ untracked' = IF msg[h].agent THEN untracked + 1 ELSE untracked
    /\ Goto(h, AfterWrite(msg[h]))
    /\ UNCHANGED <<sess, notified, links, messages, crashes, faults>>

WriteFails(h) ==
    /\ pc[h] = "write"
    /\ faults < MaxFaults
    /\ faults' = faults + 1
    /\ Goto(h, "idle")
    /\ UNCHANGED <<db, messages, crashes, untracked>>

-----------------------------------------------------------------------------
(* The session after the write.                                            *)

markArrived(f) ==
    SetStatus({s \in OpenOn(f) : sess[s].status = "ACTIVE"}, "ARRIVED")

closeSession(f, reason) == SetStatus(OpenOn(f), reason)

\* Fire-and-forget in WhatsApp handlers: the message may be answered before,
\* and the worker's next one served meanwhile by another handler.
Track(h) ==
    /\ pc[h] = "track"
    /\ sess' = CASE msg[h].op = "ARRIVED"  -> markArrived(msg[h].field)
                 [] msg[h].op = "FINISHED" -> closeSession(msg[h].field, "FINISHED")
                 [] msg[h].op = "DECLINE"  -> closeSession(msg[h].field, "CANCELED")
    /\ Goto(h, "idle")
    /\ UNCHANGED <<fieldStatus, notified, links, bounds>>

TrackFails(h) ==
    /\ pc[h] = "track"
    /\ faults < MaxFaults
    /\ faults' = faults + 1
    /\ Goto(h, "idle")
    /\ UNCHANGED <<db, messages, crashes, untracked>>

-----------------------------------------------------------------------------
(* sendWorkerEnRouteNotification                                           *)

\* Mutant: a field that has a row is told again.
ClaimAgain(h) ==
    /\ pc[h] = "claim"
    /\ notified' = notified \cup {msg[h].field}
    /\ Goto(h, "send")
    /\ UNCHANGED <<fieldStatus, sess, links, bounds>>

\* claimCustomerNotification: INSERT ... ON CONFLICT DO NOTHING.
Claim(h) ==
    /\ pc[h] = "claim"
    /\ notified' = notified \cup {msg[h].field}
    /\ Goto(h, IF msg[h].field \in notified THEN "idle" ELSE "send")
    /\ UNCHANGED <<fieldStatus, sess, links, bounds>>

\* getActiveTrackingToken: none when the 4 hours are over or the query fails.
Tokens(f) == OpenOn(f) \cup {0}

Send(h) ==
    /\ pc[h] = "send"
    /\ \E t \in Tokens(msg[h].field) :
          links' = [links EXCEPT ![msg[h].field] = Append(@, t)]
    /\ Goto(h, "idle")
    /\ UNCHANGED <<fieldStatus, sess, notified, bounds>>

\* The row stays, as SENT or FAILED: the customer is never told.
NotifyFails(h) ==
    /\ pc[h] \in {"claim", "send"}
    /\ faults < MaxFaults
    /\ faults' = faults + 1
    /\ Goto(h, "idle")
    /\ UNCHANGED <<db, messages, crashes, untracked>>

-----------------------------------------------------------------------------
Crash ==
    /\ crashes < MaxCrashes
    /\ crashes' = crashes + 1
    /\ pc' = [h \in Handler |-> "idle"]
    /\ msg' = [h \in Handler |-> NoMessage]
    /\ snap' = [h \in Handler |-> {}]
    /\ UNCHANGED <<db, messages, faults, untracked>>

Step(h) ==
    OpenUpdate(h) \/ OpenCommit(h) \/ WriteStatus(h) \/ Track(h) \/ Claim(h)
        \/ Send(h)

Fail(h) == OpenFails(h) \/ WriteFails(h) \/ TrackFails(h) \/ NotifyFails(h)

Next ==
    \/ \E h \in Handler :
        \/ \E m \in Message : Receive(h, m)
        \/ Step(h)
        \/ Fail(h)
    \/ Crash

Spec == Init /\ [][Next]_vars

-----------------------------------------------------------------------------
(* Properties                                                              *)

\* Every variable has the type its declaration says; sessions are referred to
\* by their place in sess.
TypeOK ==
    /\ fieldStatus \in [Field -> FieldStatus]
    /\ sess \in Seq(Session)
    /\ notified \subseteq Field
    /\ links \in [Field -> Seq({0} \cup DOMAIN sess)]
    /\ pc \in [Handler -> Pc]
    /\ msg \in [Handler -> Message \cup {NoMessage}]
    /\ snap \in [Handler -> SUBSET (DOMAIN sess)]
    /\ \A n \in {messages, crashes, faults, untracked} : n \in Nat

\* A worker is followed on one trip at a time, and a visit has one worker on
\* the way, whatever departures run into each other: the customer the worker
\* has left behind does not watch the drive to the next one.
OneOpenSession ==
    \A s, t \in DOMAIN sess :
        /\ IsOpen(s)
        /\ IsOpen(t)
        /\ sess[s].worker = sess[t].worker \/ sess[s].field = sess[t].field
        => s = t

Quiet(f) == \A h \in Handler : msg[h] = NoMessage \/ msg[h].field # f

\* What can keep a statement from being executed: a crash interrupts every
\* handler, a fault one, and the agent leaves the session out.
Losses == Cardinality(Handler) * crashes + faults + untracked

\* The session of a visit with nothing under way on it agrees with its status,
\* however the statements of its reports interleaved: none is open once it is
\* FINISHED_FIELD or DECLINED, none shows the worker on the way once he has
\* ARRIVED.  Each exception takes a loss.
DisagreementsPaidFor ==
    LET disagree ==
            {f \in Field :
                /\ Quiet(f)
                /\ \/ /\ fieldStatus[f] \in {"FINISHED_FIELD", "DECLINED"}
                      /\ OpenOn(f) # {}
                   \/ /\ fieldStatus[f] = "ARRIVED"
                      /\ \E s \in OpenOn(f) : sess[s].status = "ACTIVE"}
    IN  Cardinality(disagree) <= Losses

\* The customer is told once at most that the worker is on the way, and the
\* link never opens somebody else's visit.
CustomerToldOnce ==
    \A f \in Field :
        /\ Len(links[f]) <= 1
        /\ \A i \in 1 .. Len(links[f]) :
              links[f][i] # 0 => sess[links[f][i]].field = f

\* tracking.ts:6 "opened on ... (DEPARTED), marked ARRIVED on ..., closed on
\* ... / cancel / decline".  Violated by the tool of the agent, which writes
\* FINISHED and leaves the session open.
FinishedIsClosed ==
    \A f \in Field :
        fieldStatus[f] = "FINISHED_FIELD" /\ Quiet(f) => OpenOn(f) = {}
=============================================================================
