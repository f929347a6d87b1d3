----------------------------- MODULE ChangesProofs ----------------------------
(***************************************************************************)
(* Changes to visits, for any numbers of users, rows, requests, visits,    *)
(* workers and failures.                                                   *)
(*                                                                         *)
(* Pending actions: a row is decided once, executed at most once and by    *)
(* who may, and the whole keeps the promise of DueDateChange.              *)
(*                                                                         *)
(* Visits: a trip ends with its visit, whoever is assigned it is told, and *)
(* what is closed stays closed, however the field tools, the office's      *)
(* corrections, the cards and their failures interleave.                   *)
(***************************************************************************)
EXTENDS PendingAction, Visits, FiniteSetTheorems, TLAPS

USE PendingActionAssumption

-----------------------------------------------------------------------------
(***************************************************************************)
(* Pending actions.                                                        *)
(***************************************************************************)

-----------------------------------------------------------------------------
(* The inductive invariant: what the rows and the requests know of each    *)
(* other.                                                                  *)

OnRow  == Pc \ {"idle", "creating"}
Fast   == {"writing", "marking"}
DueDatePc == {"escalating", "selfApproving", "approving", "rejecting",
   "updating"}
Decides == {"selfApproving", "approving", "rejecting"}

\* A row that exists has a requester and a type; only due dates are put
\* before a manager; a due date is executed by an elevated approver, and only
\* written then, at most once.
RowInv(a) ==
    /\ state[a] = "none" <=> kind[a] = "none"
    /\ state[a] # "none" => requester[a] \in User
    /\ state[a] = Asked => a \in DueDates
    /\ approver[a] \in Elevated \cup {None}
    /\ a \in DueDates /\ state[a] = "EXECUTED" => approver[a] \in Elevated
    /\ a \in DueDates /\ state[a] # "EXECUTED" => applied[a] = 0
    /\ a \in DueDates => applied[a] \in {0, 1}
    /\ state[a] = "none" => applied[a] = 0

\* A request knows who sent it and works on an existing row of the right
\* type; one that decides for the managers was sent by an elevated user.
SlotInv(s) ==
    /\ pc[s] # "idle" => caller[s] \in User
    /\ pc[s] \in OnRow => row[s] \in Action /\ state[row[s]] # "none"
    /\ pc[s] \in Fast => row[s] \notin DueDates
    /\ pc[s] \in DueDatePc => row[s] \in DueDates
    /\ pc[s] \in Decides => caller[s] \in Elevated
    /\ pc[s] = "updating" =>
          state[row[s]] = "EXECUTED" /\ applied[row[s]] = 0

\* The right to write a due date is won by one request only.
OneWriter ==
    \A s, t \in Slot :
        pc[s] = "updating" /\ pc[t] = "updating" /\ row[s] = row[t] => s = t

IInv ==
    /\ TypeOK
    /\ \A a \in Action : RowInv(a)
    /\ \A s \in Slot : SlotInv(s)
    /\ OneWriter

-----------------------------------------------------------------------------
(* The invariant holds initially and no step breaks it.                    *)


\* No row exists and no request is served: the invariant holds initially.
LEMMA InitIInv == Init => IInv
BY DEF Init, IInv, TypeOK, RowInv, SlotInv, OneWriter, DueDates, Pc, Pending,
       Terminal, OnRow, Fast, DueDatePc, Decides, Asked

\* A request enters a slot; the rows stay as they are.
LEMMA ReceiveIInv ==
    ASSUME IInv, NEW s \in Slot, NEW u \in User, Receive(s, u)
    PROVE  IInv'
<1> USE
   DEF IInv, TypeOK, SlotInv, OneWriter, OnRow, Fast, DueDatePc, Decides, Pc
<1>1. CASE BeginCreate(s, u)
      BY <1>1 DEF BeginCreate, Enter, rows, RowInv, AwaitingOf, DueDates
<1>2. CASE StartConfirm(s, u)
      BY <1>2
         DEF StartConfirm, Enter, MayConfirm, ConfirmPc, rows, RowInv,
             DueDates, Awaiting
<1>3. CASE StartCancel(s, u)
      BY <1>3
         DEF StartCancel, Enter, MayConfirm, rows, RowInv, DueDates, Awaiting
<1>4. CASE StartApproval(s, u)
      BY <1>4 DEF StartApproval, Enter, rows, RowInv, DueDates, Asked
<1> QED BY <1>1, <1>2, <1>3, <1>4 DEF Receive

\* A conditional UPDATE in general: it suffices that the row invariant allows
\* the new state and approver, and that no request writes the row already.
LEMMA TransitionIInv ==
    ASSUME IInv, NEW s \in Slot, pc[s] \in OnRow,
           NEW from \in Pending, NEW to \in Pending \cup Terminal,
           NEW by \in Elevated \cup {None}, NEW p \in {"idle", "updating"},
           to = Asked => row[s] \in DueDates,
           row[s] \in DueDates /\ to = "EXECUTED" => by \in Elevated,
           p = "updating" => row[s] \in DueDates /\ to = "EXECUTED",
           Transition(s, from, to, by, p)
    PROVE  IInv'
<1> DEFINE a == row[s]
<1> USE DEF IInv, TypeOK
<1>1. a \in Action /\ state[a] # "none"
      BY DEF SlotInv
<1>2. CASE state[a] # from
      <2>1. Return(s) /\ UNCHANGED <<rows, applied, failures>>
            BY <1>2 DEF Transition, rows
      <2> QED BY <2>1, <1>1
         DEF Return, rows, RowInv, SlotInv, OneWriter, DueDates, OnRow, Fast,
                    DueDatePc, Decides, Pc
<1>3. CASE state[a] = from
      <2>1. /\ state' = [state EXCEPT ![a] = to]
            /\ approver' = [approver EXCEPT ![a] = IF by = None THEN @ ELSE by]
            /\ IF p = "idle" THEN Return(s) ELSE Goto(s, p)
            /\ UNCHANGED <<requester, kind, applied, failures>>
            BY <1>3 DEF Transition
      <2>2. TypeOK'
            BY <2>1, <1>1, PendingActionAssumption DEF Return, Goto, Pc
      <2>3. ASSUME NEW b \in Action PROVE RowInv(b)'
            BY <2>1, <1>1, <1>3
               DEF RowInv, DueDates, Pending, Terminal, Asked, Awaiting
      <2>4. ASSUME NEW t \in Slot PROVE SlotInv(t)'
            BY <2>1, <1>1, <1>3
               DEF SlotInv, RowInv, DueDates, Return, Goto, OnRow,
               Fast, DueDatePc, Decides, Pending, Terminal, Asked, Awaiting
      <2>5. OneWriter'
            BY <2>1, <1>1, <1>3 DEF OneWriter, SlotInv, Return, Goto, Pending,
               Asked, Awaiting
      <2> QED BY <2>2, <2>3, <2>4, <2>5
<1> QED BY <1>2, <1>3

\* Every step of a request that has been received.
LEMMA StepIInv ==
    ASSUME IInv, NEW s \in Slot, Step(s)
    PROVE  IInv'
<1> USE DEF IInv
<1>0. SlotInv(s) /\ OnRow \subseteq Pc /\ Awaiting \in Pending /\ Asked \in Pending
      BY DEF OnRow, Pending
<1>1. CASE CommitCreate(s)
      <2>1. PICK a \in Action, k \in ActionType :
               /\ state[a] = "none"
               /\ state' = [b \in Action |->
                              IF b = a THEN Awaiting
                              ELSE IF b \in snapshot[s] /\ state[b] = Awaiting
                              THEN "CANCELLED" ELSE state[b]]
               /\ requester' = [requester EXCEPT ![a] = caller[s]]
               /\ kind' = [kind EXCEPT ![a] = k]
            BY <1>1 DEF CommitCreate
      <2>2. Return(s) /\ UNCHANGED <<approver, applied, failures>>
            /\ caller[s] \in User
            BY <1>1 DEF CommitCreate, SlotInv
      <2>3. TypeOK'
            BY <2>1, <2>2 DEF TypeOK, Return, Pending, Terminal, Pc
      <2>4. ASSUME NEW b \in Action PROVE RowInv(b)'
            BY <2>1, <2>2, PendingActionAssumption
               DEF TypeOK, RowInv, DueDates, Awaiting, Asked
      <2>5. ASSUME NEW t \in Slot PROVE SlotInv(t)'
            BY <2>1, <2>2 DEF TypeOK, SlotInv, RowInv, DueDates, Return, OnRow,
               Fast, DueDatePc, Decides, Awaiting
      <2>6. OneWriter'
            BY <2>2 DEF TypeOK, OneWriter, Return
      <2> QED BY <2>3, <2>4, <2>5, <2>6
<1>2. CASE Cancel(s)
      BY <1>0, <1>2, TransitionIInv
         DEF Cancel, OnRow, Pc, Pending, Terminal, Asked
<1>3. CASE Write(s)
      <2>1. row[s] \in Action \ DueDates /\ state[row[s]] # "none"
            BY <1>0, <1>3 DEF Write, SlotInv, OnRow, Pc, Fast
      <2>2. /\ applied' = [applied EXCEPT ![row[s]] = @ + 1]
            /\ pc' = [pc EXCEPT ![s] = "marking"]
            /\ UNCHANGED <<rows, caller, row, snapshot, failures>>
            /\ pc[s] = "writing"
            BY <1>3 DEF Write, Goto
      <2>3. TypeOK'
            BY <2>1, <2>2 DEF TypeOK, rows, Pc
      <2>4. ASSUME NEW b \in Action PROVE RowInv(b)'
            BY <2>1, <2>2 DEF TypeOK, rows, RowInv, DueDates
      <2>5. ASSUME NEW t \in Slot PROVE SlotInv(t)'
            BY <1>0, <2>1, <2>2 DEF TypeOK, rows, SlotInv, DueDates, OnRow,
               Fast, DueDatePc, Decides, Pc
      <2>6. OneWriter'
            BY <2>2 DEF TypeOK, OneWriter
      <2> QED BY <2>3, <2>4, <2>5, <2>6
<1>4. CASE WriteRefused(s)
      BY <1>4
         DEF WriteRefused, Return, rows, TypeOK, RowInv, SlotInv, OneWriter,
                  DueDates, OnRow, Fast, DueDatePc, Decides, Pc
<1>5. CASE MarkExecuted(s)
      BY <1>0, <1>5, TransitionIInv
         DEF MarkExecuted, SlotInv, OnRow, Pc, Fast, Pending, Terminal, Asked
<1>6. CASE SelfApprove(s)
      BY <1>0, <1>6, TransitionIInv
        
            DEF SelfApprove, SlotInv, OnRow, Pc, DueDatePc, Decides, Pending,
                Terminal, Asked
<1>7. CASE Escalate(s)
      BY <1>0, <1>7, TransitionIInv
         DEF Escalate, SlotInv, OnRow, Pc, DueDatePc, Pending, Terminal, Asked
<1>8. CASE Approve(s)
      BY <1>0, <1>8, TransitionIInv
        
            DEF Approve, SlotInv, OnRow, Pc, DueDatePc, Decides, Pending,
                Terminal, Asked
<1>9. CASE Reject(s)
      <2>1. caller[s] \in Elevated
            BY <1>0, <1>9 DEF Reject, SlotInv, Decides
      <2> QED BY <1>0, <1>9, <2>1, TransitionIInv
                 DEF Reject, OnRow, Pc, Pending, Terminal, Asked
<1>10. CASE UpdateDueDate(s)
      <2>1. /\ row[s] \in Action /\ row[s] \in DueDates
            /\ state[row[s]] = "EXECUTED" /\ applied[row[s]] = 0
            BY <1>0, <1>10 DEF UpdateDueDate, SlotInv, OnRow, Pc, DueDatePc
      <2> QED BY <1>10, <2>1
         DEF UpdateDueDate, Return, rows, TypeOK, RowInv, SlotInv, OneWriter,
                    DueDates, OnRow, Fast, DueDatePc, Decides, Pc
<1> QED BY <1>1, <1>2, <1>3, <1>4, <1>5, <1>6, <1>7, <1>8, <1>9, <1>10 DEF Step

\* The expiry resolves pending rows only, so none of which a request is about
\* to write the due date.
LEMMA ExpireIInv ==
    ASSUME IInv, NEW stale \in SUBSET Action, ExpireStaleActions(stale)
    PROVE  IInv'
<1> USE DEF IInv, ExpireStaleActions, slots
<1>1. TypeOK'
      BY DEF TypeOK, Terminal
<1>2. ASSUME NEW a \in Action PROVE RowInv(a)'
      BY DEF TypeOK, RowInv, DueDates, Pending, Awaiting, Asked
<1>3. ASSUME NEW s \in Slot PROVE SlotInv(s)'
      BY DEF TypeOK, SlotInv, DueDates, Pending, Awaiting, Asked, OnRow
<1>4. OneWriter'
      BY DEF OneWriter
<1> QED BY <1>1, <1>2, <1>3, <1>4

\* A request that dies leaves the rows as they are and its slot empty.
LEMMA FailIInv ==
    ASSUME IInv, NEW s \in Slot, Fail(s)
    PROVE  IInv'
BY DEF IInv, Fail, Return, rows, TypeOK, RowInv, SlotInv, OneWriter, DueDates,
       OnRow, Fast, DueDatePc, Decides, Pc

\* IInv is inductive.
LEMMA NextIInv == IInv /\ [Next]_vars => IInv'
<1> SUFFICES ASSUME IInv, [Next]_vars PROVE IInv'
    OBVIOUS
<1>1. CASE UNCHANGED vars
      BY <1>1 DEF IInv, vars, TypeOK, RowInv, SlotInv, OneWriter, DueDates
<1>2. CASE Next
      BY <1>2, ReceiveIInv, StepIInv, FailIInv, ExpireIInv DEF Next
<1> QED BY <1>1, <1>2

\* The invariant, for every number of users, rows and requests.
THEOREM Invariant == Spec => []IInv
BY InitIInv, NextIInv, PTL DEF Spec

\* Type correctness of the rows and of the requests in flight.
THEOREM TypeCorrect == Spec => []TypeOK
<1>1. IInv => TypeOK
      BY DEF IInv
<1> QED BY <1>1, Invariant, PTL

-----------------------------------------------------------------------------
(* The safety properties.                                                  *)

\* A due date is written at most once, and only for an EXECUTED request: the
\* conditional UPDATE lets one request win, and only the winner writes.
THEOREM WrittenOnce == Spec => []DueDateWrittenOnce
<1>1. IInv => DueDateWrittenOnce
      BY DEF IInv, RowInv, DueDateWrittenOnce, DueDates
<1> QED BY <1>1, Invariant, PTL

\* Two persons: who approved a written due date is a manager or an admin,
\* and not the requester unless the requester is one.
THEOREM TwoPersons == Spec => []TwoPersonApproval
<1>1. IInv => TwoPersonApproval
      BY DEF IInv, RowInv, TwoPersonApproval, DueDates
<1> QED BY <1>1, Invariant, PTL

\* A row that was written and can be confirmed again is about to be marked,
\* unless the request that wrote it died.
LEMMA NextMarked ==
    ASSUME IInv, WrittenIsNotConfirmable, [Next]_vars
    PROVE  WrittenIsNotConfirmable'
<1>0. TypeOK /\ (\A a \in Action : RowInv(a)) /\ (\A s \in Slot : SlotInv(s))
      BY DEF IInv
<1> SUFFICES ASSUME NEW a \in Action, state'[a] = Awaiting, applied'[a] > 0
             PROVE  (\E s \in Slot : pc'[s] = "marking" /\ row'[s] = a) \/ failures' > 0
    BY DEF WrittenIsNotConfirmable
<1>1. ASSUME state[a] = Awaiting, applied[a] > 0
      PROVE  (\E s \in Slot : pc[s] = "marking" /\ row[s] = a) \/ failures > 0
      BY <1>1 DEF WrittenIsNotConfirmable
<1>2. CASE UNCHANGED vars
      BY <1>1, <1>2 DEF vars, rows, slots
<1>3. ASSUME NEW s \in Slot, NEW u \in User, Receive(s, u)
      PROVE  (\E t \in Slot : pc'[t] = "marking" /\ row'[t] = a) \/ failures' > 0
  <2>1. /\ pc[s] = "idle" /\ UNCHANGED <<state, applied, failures>>
        /\ \A t \in Slot \ {s} : pc'[t] = pc[t] /\ row'[t] = row[t]
        BY <1>0, <1>3
           DEF Receive, BeginCreate, StartConfirm, StartCancel, StartApproval, Enter, rows, TypeOK
  <2> QED BY <1>1, <2>1
<1>4. ASSUME NEW s \in Slot, Fail(s)
      PROVE  failures' > 0
      BY <1>0, <1>4 DEF Fail, TypeOK
<1>5. ASSUME NEW s \in Slot, Write(s)
      PROVE  (\E t \in Slot : pc'[t] = "marking" /\ row'[t] = a) \/ failures' > 0
  <2>1. /\ UNCHANGED <<state, row, failures>> /\ pc' = [pc EXCEPT ![s] = "marking"]
        /\ applied' = [applied EXCEPT ![row[s]] = @ + 1]
        BY <1>5 DEF Write, Goto, rows
  <2>2. CASE row[s] = a
        BY <1>0, <2>1, <2>2 DEF TypeOK
  <2>3. CASE row[s] # a
        BY <1>0, <1>1, <2>1, <2>3 DEF TypeOK
  <2> QED BY <2>2, <2>3
<1>6. ASSUME NEW s \in Slot, MarkExecuted(s)
      PROVE  (\E t \in Slot : pc'[t] = "marking" /\ row'[t] = a) \/ failures' > 0
  <2>1. /\ Return(s) /\ UNCHANGED <<applied, failures>>
        /\ state[row[s]] = Awaiting => state' = [state EXCEPT ![row[s]] = "EXECUTED"]
        /\ state[row[s]] # Awaiting => state' = state
        BY <1>6 DEF MarkExecuted, Transition
  <2>2. row[s] # a /\ state[a] = Awaiting
        BY <1>0, <2>1 DEF TypeOK, Awaiting
  <2> QED BY <1>0, <1>1, <2>1, <2>2 DEF TypeOK, Return
<1>7. ASSUME NEW s \in Slot, CommitCreate(s)
      PROVE  (\E t \in Slot : pc'[t] = "marking" /\ row'[t] = a) \/ failures' > 0
  <2>1. /\ Return(s) /\ pc[s] = "creating" /\ UNCHANGED <<applied, failures>>
        /\ state[a] \in {"none", Awaiting}
        BY <1>0, <1>7 DEF CommitCreate, TypeOK, Awaiting
  <2>2. state[a] = Awaiting
        BY <1>0, <2>1 DEF RowInv, TypeOK
  <2> QED BY <1>0, <1>1, <2>1, <2>2 DEF TypeOK, Return
<1>8. ASSUME NEW s \in Slot, UpdateDueDate(s)
      PROVE  (\E t \in Slot : pc'[t] = "marking" /\ row'[t] = a) \/ failures' > 0
  <2>1. row[s] \in Action /\ state[row[s]] = "EXECUTED"
        BY <1>0, <1>8 DEF UpdateDueDate, SlotInv, OnRow, Pc
  <2>2. /\ Return(s) /\ pc[s] = "updating" /\ UNCHANGED <<state, failures>>
        /\ applied' = [applied EXCEPT ![row[s]] = @ + 1]
        BY <1>8 DEF UpdateDueDate, rows
  <2>3. row[s] # a /\ applied'[a] = applied[a]
        BY <1>0, <2>1, <2>2 DEF Awaiting, TypeOK
  <2> QED BY <1>0, <1>1, <2>2, <2>3 DEF TypeOK, Return
<1>9. ASSUME NEW s \in Slot,
             Cancel(s) \/ WriteRefused(s) \/ SelfApprove(s) \/ Escalate(s)
                \/ Approve(s) \/ Reject(s)
      PROVE  (\E t \in Slot : pc'[t] = "marking" /\ row'[t] = a) \/ failures' > 0
  <2>1. /\ pc[s] # "marking" /\ (Return(s) \/ Goto(s, "updating"))
        /\ UNCHANGED <<applied, failures>>
        BY <1>9 DEF Cancel, WriteRefused, SelfApprove, Escalate, Approve, Reject, Transition, rows
  <2>2. /\ pc[s] \in OnRow
        /\ state' = state
           \/ \E to \in Terminal \cup {Asked} : state' = [state EXCEPT ![row[s]] = to]
        BY <1>9 DEF Cancel, WriteRefused, SelfApprove, Escalate, Approve, Reject, Transition,
                    rows, OnRow, Pc, Terminal
  <2>3. state[a] = Awaiting
        BY <1>0, <2>2 DEF TypeOK, SlotInv, Terminal, Asked, Awaiting
  <2> QED BY <1>0, <1>1, <2>1, <2>3 DEF TypeOK, Return, Goto
<1>10. ASSUME NEW stale \in SUBSET Action, ExpireStaleActions(stale)
       PROVE  (\E t \in Slot : pc'[t] = "marking" /\ row'[t] = a) \/ failures' > 0
       BY <1>0, <1>1, <1>10 DEF ExpireStaleActions, slots, TypeOK, Awaiting
<1> QED BY <1>2, <1>3, <1>4, <1>5, <1>6, <1>7, <1>8, <1>9, <1>10 DEF Next, Step

\* Of any number of confirmations, approvals and expiries: none can confirm a
\* row a second time once its write was made, unless a request died.
THEOREM NotConfirmableAgain == Spec => []WrittenIsNotConfirmable
<1>1. Init => WrittenIsNotConfirmable
      BY DEF Init, WrittenIsNotConfirmable
<1>2. IInv /\ WrittenIsNotConfirmable /\ [Next]_vars => WrittenIsNotConfirmable'
      BY NextMarked
<1> QED BY <1>1, <1>2, Invariant, PTL DEF Spec

\* A conditional UPDATE never touches a resolved row.
LEMMA TransitionKeepsTerminal ==
    ASSUME TypeOK, NEW s \in Slot, row[s] \in Action,
           NEW from \in Pending, NEW to, NEW by, NEW p,
           Transition(s, from, to, by, p),
           NEW a \in Action, state[a] \in Terminal
    PROVE  state'[a] = state[a] /\ approver'[a] = approver[a]
BY DEF Transition, TypeOK, Pending, Terminal, Awaiting, Asked

\* First to resolve wins: no step of the system changes the outcome of a row
\* or its approver.
THEOREM ResolvedOnce == Spec => ResolutionIsFinal
<1>1. ASSUME IInv, Next, NEW a \in Action, state[a] \in Terminal
      PROVE  state'[a] = state[a] /\ approver'[a] = approver[a]
  <2>1. TypeOK /\ Awaiting \in Pending /\ Asked \in Pending
        BY <1>1 DEF IInv, Pending
  <2>2. ASSUME NEW s \in Slot, NEW u \in User, Receive(s, u)
        PROVE  UNCHANGED <<state, approver>>
        BY <2>2 DEF Receive, BeginCreate, StartConfirm, StartCancel,
           StartApproval, rows
  <2>3. ASSUME NEW s \in Slot, Step(s)
        PROVE  state'[a] = state[a] /\ approver'[a] = approver[a]
    <3>1. CASE CommitCreate(s)
          BY <1>1, <2>1, <3>1 DEF CommitCreate, TypeOK, Terminal, Awaiting
    <3>2. CASE Write(s) \/ WriteRefused(s) \/ UpdateDueDate(s)
          BY <3>2 DEF Write, WriteRefused, UpdateDueDate, rows
    <3>3. CASE ~CommitCreate(s) /\ ~(Write(s) \/ WriteRefused(s) \/ UpdateDueDate(s))
      <4>1. row[s] \in Action
            BY <1>1, <2>3, <3>3 DEF Step, IInv, SlotInv, OnRow, Pc, Cancel,
               MarkExecuted, SelfApprove, Escalate, Approve, Reject
      <4>2. \E from \in Pending : \E to, by, p : Transition(s, from, to, by, p)
            BY <2>1, <2>3, <3>3 DEF Step, Cancel, MarkExecuted, SelfApprove,
               Escalate, Approve, Reject
      <4> QED BY <1>1, <2>1, <4>1, <4>2, TransitionKeepsTerminal
    <3> QED BY <3>1, <3>2, <3>3
  <2>4. ASSUME NEW s \in Slot, Fail(s)
        PROVE  UNCHANGED <<state, approver>>
        BY <2>4 DEF Fail, rows
  <2>5. ASSUME NEW stale \in SUBSET Action, ExpireStaleActions(stale)
        PROVE  state'[a] = state[a] /\ approver'[a] = approver[a]
        BY <1>1, <2>1, <2>5 DEF ExpireStaleActions, TypeOK, Terminal, Pending,
           Awaiting, Asked
  <2> QED BY <1>1, <2>2, <2>3, <2>4, <2>5 DEF Next
<1>2. IInv /\ [Next]_vars =>
        [\A a \in Action : state[a] \in Terminal =>
            state'[a] = state[a] /\ approver'[a] = approver[a]]_vars
      BY <1>1
<1> QED BY <1>2, Invariant, PTL DEF Spec, ResolutionIsFinal

-----------------------------------------------------------------------------
(* The refinement: due date requests implement DueDateChange.              *)

\* A step that leaves the rows and the writes alone is a stutter.
LEMMA StutterPromise ==
    ASSUME UNCHANGED <<state, kind, approver, applied>>
    PROVE  UNCHANGED Promise!vars
BY DEF Promise!vars, verdict, grantor, changed, DueDates

\* A step that refuses some open requests, of whatever type.
LEMMA RefusePromise ==
    ASSUME IInv, NEW as \in SUBSET Action, \A a \in as : state[a] \in Pending,
           NEW out \in {"REJECTED", "EXPIRED", "CANCELLED"},
           state' = [a \in Action |-> IF a \in as THEN out ELSE state[a]],
           \A a \in Action : state'[a] = "EXECUTED" => approver'[a] = approver[a],
           UNCHANGED <<kind, applied>>
    PROVE  Promise!Refuse(as \cap DueDates)
<1> DEFINE refused == as \cap DueDates
<1>1. DueDates' = DueDates /\ changed' = changed
      BY DEF DueDates, changed
<1>2. \A a \in refused : verdict[a] = "open"
      BY DEF verdict, DueDates
<1>3. verdict' = [a \in Action |-> IF a \in refused THEN "refused" ELSE verdict[a]]
      BY <1>1 DEF verdict, Pending, Awaiting, Asked
<1>4. grantor' = grantor
  <2>1. ASSUME NEW a \in Action
        PROVE  (IF verdict'[a] = "granted" THEN approver'[a] ELSE None)
                 = (IF verdict[a] = "granted" THEN approver[a] ELSE None)
        BY <1>1, <1>3 DEF verdict, Pending, Awaiting, Asked, DueDates
  <2> QED BY <2>1 DEF grantor
<1> QED BY <1>1, <1>2, <1>3, <1>4 DEF Promise!Refuse

\* A conditional UPDATE grants, refuses or, when it comes too late and for
\* the other types, does nothing as far as due dates are concerned.
LEMMA TransitionPromise ==
    ASSUME IInv, NEW s \in Slot, row[s] \in Action,
           NEW from \in Pending, NEW to \in Pending \cup Terminal,
           NEW by \in Elevated \cup {None}, NEW p,
           row[s] \in DueDates /\ to = "EXECUTED" => by \in Elevated,
           Transition(s, from, to, by, p)
    PROVE  [Promise!Next]_(Promise!vars)
<1> DEFINE a == row[s]
<1>1. CASE state[a] # from
      BY <1>1, StutterPromise DEF Transition
<1>2. CASE state[a] = from
  <2>1. /\ state' = [state EXCEPT ![a] = to]
        /\ approver' = [approver EXCEPT ![a] = IF by = None THEN @ ELSE by]
        /\ UNCHANGED <<kind, applied>>
        /\ state[a] \in Pending
        BY <1>2 DEF Transition
  <2>2. DueDates' = DueDates /\ changed' = changed
        BY <2>1 DEF DueDates, changed
  <2>3. CASE a \notin DueDates \/ to \in Pending
    <3>1. verdict' = verdict
          BY <2>1, <2>2, <2>3 DEF verdict, IInv, TypeOK
    <3>2. \A b \in Action : verdict[b] = "granted" => approver'[b] = approver[b]
          BY <2>1, <2>3 DEF verdict, IInv, TypeOK, Pending, Awaiting, Asked
    <3>3. grantor' = grantor
          BY <3>1, <3>2 DEF grantor
    <3> QED BY <2>2, <3>1, <3>3 DEF Promise!vars
  <2>4. CASE a \in DueDates /\ to = "EXECUTED"
    <3>0. \A b \in Action : state'[b] = IF b = a THEN "EXECUTED" ELSE state[b]
          BY <2>1, <2>4 DEF IInv, TypeOK
    <3>1. verdict[a] = "open" /\ verdict' = [verdict EXCEPT ![a] = "granted"]
      <4>1. verdict[a] = "open"
            BY <2>1, <2>4 DEF verdict
      <4>2. ASSUME NEW b \in Action
            PROVE  verdict'[b] = IF b = a THEN "granted" ELSE verdict[b]
            BY <2>2, <2>4, <3>0 DEF verdict, Pending, Awaiting, Asked
      <4>3. verdict' = [b \in Action |-> verdict'[b]]
            BY DEF verdict
      <4>4. verdict = [b \in Action |-> verdict[b]]
            BY DEF verdict
      <4> QED BY <4>1, <4>2, <4>3, <4>4
    <3>2. by # None /\ by \in Elevated
          BY <2>4, PendingActionAssumption
    <3>3. grantor' = [grantor EXCEPT ![a] = by]
          BY <2>1, <2>4, <3>1, <3>2 DEF grantor, verdict, IInv, TypeOK
    <3> QED BY <2>2, <3>1, <3>2, <3>3 DEF Promise!Next, Promise!Grant
  <2>5. CASE a \in DueDates /\ to \in Terminal \ {"EXECUTED"}
    <3>1. state' = [b \in Action |-> IF b \in {a} THEN to ELSE state[b]]
          BY <2>1 DEF IInv, TypeOK
    <3>2. \A b \in Action : state'[b] = "EXECUTED" => approver'[b] = approver[b]
          BY <2>1, <2>5 DEF IInv, TypeOK
    <3>3. to \in {"REJECTED", "EXPIRED", "CANCELLED"} /\ {a} \in SUBSET Action
          BY <2>5 DEF Terminal
    <3>4. Promise!Refuse({a} \cap DueDates)
          BY <2>1, <3>1, <3>2, <3>3, RefusePromise
    <3> QED BY <3>4 DEF Promise!Next
  <2> QED BY <2>3, <2>4, <2>5
<1> QED BY <1>1, <1>2

\* A new row asks for a change, or is of another type; the rows it cancels
\* are refused.
LEMMA CommitCreatePromise ==
    ASSUME IInv, NEW s \in Slot, CommitCreate(s)
    PROVE  Promise!Next
<1>1. PICK b \in Action, k \in ActionType :
         /\ state[b] = "none"
         /\ state' = [a \in Action |->
                        IF a = b THEN Awaiting
                        ELSE IF a \in snapshot[s] /\ state[a] = Awaiting
                        THEN "CANCELLED" ELSE state[a]]
         /\ kind' = [kind EXCEPT ![b] = k]
      BY DEF CommitCreate
<1>2. UNCHANGED <<approver, applied>>
      BY DEF CommitCreate
<1> DEFINE as == {a \in DueDates : a \in snapshot[s] /\ state[a] = Awaiting}
<1>3. /\ b \notin DueDates /\ b \notin as /\ verdict[b] = "none"
      /\ \A a \in as : verdict[a] = "open"
      /\ as \in SUBSET Action
      BY <1>1 DEF IInv, RowInv, DueDates, verdict, Pending
<1>4. DueDates' = IF k = "EDIT_DUEDATE" THEN DueDates \cup {b} ELSE DueDates
      BY <1>1, <1>3 DEF DueDates, IInv, TypeOK
<1>5. \A a \in Action : verdict'[a] =
         IF a \in as THEN "refused"
         ELSE IF a = b /\ k = "EDIT_DUEDATE" THEN "open" ELSE verdict[a]
      BY <1>1, <1>3, <1>4 DEF verdict, Pending, Awaiting, Asked, DueDates
<1>6. changed' = changed
      BY <1>1, <1>2, <1>3, <1>4 DEF changed, IInv, RowInv
<1>7. grantor' = grantor
      BY <1>2, <1>3, <1>5 DEF grantor
<1>8. CASE k = "EDIT_DUEDATE"
  <2>1. verdict' = [a \in Action |-> IF a \in as THEN "refused"
                                     ELSE IF a = b THEN "open" ELSE verdict[a]]
        BY <1>5, <1>8 DEF verdict
  <2> QED BY <1>3, <1>6, <1>7, <2>1 DEF Promise!Next, Promise!Ask
<1>9. CASE k # "EDIT_DUEDATE"
  <2>1. verdict' = [a \in Action |-> IF a \in as THEN "refused" ELSE verdict[a]]
        BY <1>5, <1>9 DEF verdict
  <2> QED BY <1>3, <1>6, <1>7, <2>1 DEF Promise!Next, Promise!Refuse
<1> QED BY <1>8, <1>9

\* Every step of the system is a step of the promise or a stutter.
LEMMA NextPromise == IInv /\ [Next]_vars => [Promise!Next]_(Promise!vars)
<1> SUFFICES ASSUME IInv, [Next]_vars PROVE [Promise!Next]_(Promise!vars)
    OBVIOUS
<1>1. CASE UNCHANGED vars
      BY <1>1, StutterPromise DEF vars
<1>2. ASSUME NEW s \in Slot, NEW u \in User, Receive(s, u)
      PROVE  [Promise!Next]_(Promise!vars)
      BY <1>2, StutterPromise DEF Receive, BeginCreate, StartConfirm,
         StartCancel, StartApproval, rows
<1>3. ASSUME NEW s \in Slot, Fail(s)
      PROVE  [Promise!Next]_(Promise!vars)
      BY <1>3, StutterPromise DEF Fail, rows
<1>4. ASSUME NEW stale \in SUBSET Action, ExpireStaleActions(stale)
      PROVE  [Promise!Next]_(Promise!vars)
      BY <1>4, RefusePromise DEF ExpireStaleActions, Promise!Next
<1>5. ASSUME NEW s \in Slot, Step(s)
      PROVE  [Promise!Next]_(Promise!vars)
  <2>0. /\ SlotInv(s) /\ Awaiting \in Pending /\ Asked \in Pending
        /\ \A to \in Terminal : to \in Pending \cup Terminal
        BY DEF IInv, Pending
  <2>1. CASE CommitCreate(s)
        BY <2>1, CommitCreatePromise
  <2>2. CASE Cancel(s)
        BY <2>0, <2>2, TransitionPromise
           DEF Cancel, SlotInv, OnRow, Pc, Terminal
  <2>3. CASE Write(s)
    <3>1. row[s] \in Action \ DueDates
          BY <2>0, <2>3 DEF Write, SlotInv, OnRow, Pc, Fast
    <3>2. UNCHANGED <<verdict, grantor, changed>>
          BY <2>3, <3>1 DEF Write, rows, IInv, TypeOK, verdict, grantor,
             changed, DueDates
    <3> QED BY <3>2 DEF Promise!vars
  <2>4. CASE WriteRefused(s)
        BY <2>4, StutterPromise DEF WriteRefused, rows
  <2>5. CASE MarkExecuted(s)
        BY <2>0, <2>5, TransitionPromise
           DEF MarkExecuted, SlotInv, OnRow, Pc, Fast, Terminal
  <2>6. CASE SelfApprove(s)
        BY <2>0, <2>6, TransitionPromise
           DEF SelfApprove, SlotInv, OnRow, Pc, Decides, Terminal
  <2>7. CASE Escalate(s)
        BY <2>0, <2>7, TransitionPromise
           DEF Escalate, SlotInv, OnRow, Pc, Terminal, Asked
  <2>8. CASE Approve(s)
        BY <2>0, <2>8, TransitionPromise
           DEF Approve, SlotInv, OnRow, Pc, Decides, Terminal
  <2>9. CASE Reject(s)
        BY <2>0, <2>9, TransitionPromise
           DEF Reject, SlotInv, OnRow, Pc, Decides, Terminal
  <2>10. CASE UpdateDueDate(s)
    <3> DEFINE a == row[s]
    <3>1. /\ a \in Action /\ a \in DueDates
          /\ state[a] = "EXECUTED" /\ applied[a] = 0
          BY <2>0, <2>10 DEF UpdateDueDate, SlotInv, OnRow, Pc, DueDatePc
    <3>2. UNCHANGED rows /\ applied' = [applied EXCEPT ![a] = @ + 1]
          BY <2>10 DEF UpdateDueDate
    <3>3. UNCHANGED <<verdict, grantor>>
          BY <3>2 DEF rows, verdict, grantor, DueDates
    <3>4. changed' = changed \cup {a} /\ a \notin changed
          BY <3>1, <3>2 DEF rows, changed, DueDates, IInv, TypeOK
    <3>5. verdict[a] = "granted"
          BY <3>1 DEF verdict, Pending, Awaiting, Asked
    <3> QED BY <3>1, <3>3, <3>4, <3>5 DEF Promise!Next, Promise!Change
  <2> QED BY <1>5, <2>1, <2>2, <2>3, <2>4, <2>5, <2>6, <2>7, <2>8, <2>9, <2>10
             DEF Step
<1> QED BY <1>1, <1>2, <1>3, <1>4, <1>5 DEF Next

\* The routes and the expiry job implement the approval that DueDateChange
\* promises, whatever races and failures there are.
THEOREM Refinement == Spec => KeepsPromise
<1>1. Init => Promise!Init
      BY DEF Init, Promise!Init, verdict, grantor, changed, DueDates
<1> QED BY <1>1, Invariant, NextPromise, PTL
   DEF Spec, KeepsPromise, Promise!Spec

-----------------------------------------------------------------------------
(***************************************************************************)
(* Visits.                                                                 *)
(***************************************************************************)

HIDE PendingActionAssumption
USE VisitsAssumption

-----------------------------------------------------------------------------
(* The tools.                                                              *)

Ending == {"finish", "decline"}

\* s is what is left of the tool t.
Rest(t, s) ==
    \/ s = <<>>
    \/ /\ t \in {"confirm", "arrive", "problem", "missing"}
       /\ \/ s = <<"check", "write">>
          \/ s = <<"write">>
    \/ /\ t = "depart"
       /\ \/ s = <<"check", "openSession", "write">>
          \/ s = <<"openSession", "write">>
          \/ s = <<"write">>
    \/ /\ t \in Ending
       /\ \/ s = <<"check", "write", "closeSession">>
          \/ s = <<"write", "closeSession">>
          \/ s = <<"closeSession">>
    \/ /\ t = "reschedule"
       /\ \/ s = <<"look", "move", "tell">>
          \/ s = <<"move", "tell">>
          \/ s = <<"tell">>
    \/ /\ t = "type"
       /\ \/ s = <<"look", "retype">>
          \/ s = <<"retype">>
    \/ /\ t = "reassign"
       /\ s = <<"reassign">>
    \/ /\ t = "schedule"
       /\ \/ s = <<"find", "insert">>
          \/ s = <<"insert">>
    \/ /\ t = "card"
       /\ \/ s = <<"read", "send", "stamp">>
          \/ s = <<"send", "stamp">>
          \/ s = <<"stamp">>

\* The first step of what is left, and whether anything, or what, comes next.
First(s, h) == s # <<>> /\ Head(s) = h

Follows(t, h, s) ==
    \/ h = "check" /\ t \in FieldTool /\ (First(s, "openSession") \/ First(s, "write"))
    \/ h = "openSession" /\ t = "depart" /\ First(s, "write")
    \/ h = "write" /\ t \in Ending /\ First(s, "closeSession")
    \/ h = "write" /\ t \in FieldTool \ Ending /\ s = <<>>
    \/ h = "closeSession" /\ t \in Ending /\ s = <<>>
    \/ h = "look" /\ t = "reschedule" /\ First(s, "move")
    \/ h = "look" /\ t = "type" /\ First(s, "retype")
    \/ h = "move" /\ t = "reschedule" /\ First(s, "tell")
    \/ h = "tell" /\ t = "reschedule" /\ s = <<>>
    \/ h = "retype" /\ t = "type" /\ s = <<>>
    \/ h = "reassign" /\ t = "reassign" /\ s = <<>>
    \/ h = "find" /\ t = "schedule" /\ First(s, "insert")
    \/ h = "insert" /\ t = "schedule" /\ s = <<>>
    \/ h = "read" /\ t = "card" /\ First(s, "send")
    \/ h = "send" /\ t = "card" /\ First(s, "stamp")
    \/ h = "stamp" /\ t = "card" /\ s = <<>>

LEMMA Tuples1 == ASSUME NEW a PROVE <<a>> # <<>> /\ Head(<<a>>) = a /\ Tail(<<a>>) = <<>>
OBVIOUS

LEMMA Tuples2 ==
    ASSUME NEW a, NEW b
    PROVE  <<a, b>> # <<>> /\ Head(<<a, b>>) = a /\ Tail(<<a, b>>) = <<b>>
OBVIOUS

LEMMA Tuples3 ==
    ASSUME NEW a, NEW b, NEW c
    PROVE  <<a, b, c>> # <<>> /\ Head(<<a, b, c>>) = a /\ Tail(<<a, b, c>>) = <<b, c>>
OBVIOUS

\* A tool begins with all of its steps.
LEMMA WholeTool ==
    ASSUME NEW t \in Tool
    PROVE  Rest(t, Steps[t]) /\ Steps[t] # <<>>
PROOF
<1>1. t \in {"confirm", "depart", "arrive", "finish", "decline", "problem", "missing",
             "reschedule", "type", "reassign", "schedule", "card"}
  BY DEF Tool, Steps
<1>2. CASE t \in {"confirm", "arrive", "problem", "missing"}
  <2>1. Steps[t] = <<"check", "write">>
    BY <1>2 DEF Steps
  <2> QED
    BY <1>2, <2>1, Tuples2 DEF Rest
<1>3. CASE t = "depart"
  <2>1. Steps[t] = <<"check", "openSession", "write">>
    BY <1>3 DEF Steps
  <2> QED
    BY <1>3, <2>1, Tuples3 DEF Rest
<1>4. CASE t \in Ending
  <2>1. Steps[t] = <<"check", "write", "closeSession">>
    BY <1>4 DEF Steps, DeclineSteps, Ending
  <2> QED
    BY <1>4, <2>1, Tuples3 DEF Rest
<1>5. CASE t = "reschedule"
  <2>1. Steps[t] = <<"look", "move", "tell">>
    BY <1>5 DEF Steps
  <2> QED
    BY <1>5, <2>1, Tuples3 DEF Rest
<1>6. CASE t = "type"
  <2>1. Steps[t] = <<"look", "retype">>
    BY <1>6 DEF Steps
  <2> QED
    BY <1>6, <2>1, Tuples2 DEF Rest
<1>7. CASE t = "reassign"
  <2>1. Steps[t] = <<"reassign">>
    BY <1>7 DEF Steps
  <2> QED
    BY <1>7, <2>1, Tuples1 DEF Rest
<1>8. CASE t = "schedule"
  <2>1. Steps[t] = <<"find", "insert">>
    BY <1>8 DEF Steps
  <2> QED
    BY <1>8, <2>1, Tuples2 DEF Rest
<1>9. CASE t = "card"
  <2>1. Steps[t] = <<"read", "send", "stamp">>
    BY <1>9 DEF Steps
  <2> QED
    BY <1>9, <2>1, Tuples3 DEF Rest
<1> QED
  BY <1>1, <1>2, <1>3, <1>4, <1>5, <1>6, <1>7, <1>8, <1>9 DEF Ending

\* What is left once the first step is done.
LEMMA OneStepOn ==
    ASSUME NEW t, NEW s, Rest(t, s), s # <<>>
    PROVE  Rest(t, Tail(s)) /\ Follows(t, Head(s), Tail(s))
PROOF
<1>1. CASE \E a, b, c : s = <<a, b, c>>
  <2>1. PICK a, b, c : s = <<a, b, c>>
    BY <1>1
  <2>2. Head(s) = a /\ Tail(s) = <<b, c>> /\ First(Tail(s), b)
    BY <2>1, Tuples3, Tuples2 DEF First
  <2>3. \/ t = "depart" /\ a = "check" /\ b = "openSession" /\ c = "write"
        \/ t \in Ending /\ a = "check" /\ b = "write" /\ c = "closeSession"
        \/ t = "reschedule" /\ a = "look" /\ b = "move" /\ c = "tell"
        \/ t = "card" /\ a = "read" /\ b = "send" /\ c = "stamp"
    BY <2>1 DEF Rest
  <2> QED
    BY <2>2, <2>3 DEF Rest, Follows, FieldTool, Ending
<1>2. CASE \E a, b : s = <<a, b>>
  <2>1. PICK a, b : s = <<a, b>>
    BY <1>2
  <2>2. Head(s) = a /\ Tail(s) = <<b>> /\ First(Tail(s), b)
    BY <2>1, Tuples2, Tuples1 DEF First
  <2>3. \/ t \in {"confirm", "arrive", "problem", "missing"} /\ a = "check" /\ b = "write"
        \/ t = "depart" /\ a = "openSession" /\ b = "write"
        \/ t \in Ending /\ a = "write" /\ b = "closeSession"
        \/ t = "reschedule" /\ a = "move" /\ b = "tell"
        \/ t = "type" /\ a = "look" /\ b = "retype"
        \/ t = "schedule" /\ a = "find" /\ b = "insert"
        \/ t = "card" /\ a = "send" /\ b = "stamp"
    BY <2>1 DEF Rest
  <2> QED
    BY <2>2, <2>3 DEF Rest, Follows, FieldTool, Ending
<1>3. CASE \E a : s = <<a>>
  <2>1. PICK a : s = <<a>>
    BY <1>3
  <2>2. Head(s) = a /\ Tail(s) = <<>>
    BY <2>1, Tuples1
  <2>3. \/ t \in {"confirm", "arrive", "problem", "missing", "depart"} /\ a = "write"
        \/ t \in Ending /\ a = "closeSession"
        \/ t = "reschedule" /\ a = "tell"
        \/ t = "type" /\ a = "retype"
        \/ t = "reassign" /\ a = "reassign"
        \/ t = "schedule" /\ a = "insert"
        \/ t = "card" /\ a = "stamp"
    BY <2>1 DEF Rest
  <2> QED
    BY <2>2, <2>3 DEF Rest, Follows, FieldTool, Ending
<1> QED
  BY <1>1, <1>2, <1>3 DEF Rest

-----------------------------------------------------------------------------
(* Types.                                                                  *)

Rows ==
    /\ owner \in [Task -> Employee]
    /\ open \subseteq Task
    /\ task \in [Visit -> Task \cup {Unset}]
    /\ status \in [Visit -> Status]
    /\ stamped \subseteq Scheduled
    /\ trip \in [Visit -> Employee \cup {Unset}]

Ghosts ==
    /\ knows \in [Visit -> SUBSET Employee]
    /\ crossed \subseteq Visit
    /\ disturbed \subseteq Visit
    /\ late \in Nat
    /\ excused \in Nat
    /\ calls \in 0..MaxCalls
    /\ mishaps \in 0..MaxMishaps

\* A call has what its tool is about, and the worker from the step that finds
\* him on.
Sound(c) ==
    todo[c] # <<>> =>
        /\ call[c].tool \in FieldTool => call[c].visit \in Scheduled /\ call[c].by \in Employee
        /\ call[c].tool \in {"reschedule", "type", "card"} => call[c].visit \in Scheduled
        /\ call[c].tool \in {"reassign", "schedule"}
              => call[c].visit = Unset /\ call[c].task \in Task
        /\ call[c].tool = "reassign" => call[c].worker \in Employee
        /\ Head(todo[c]) \in {"move", "tell", "send", "stamp"} => call[c].worker \in Employee

Calls ==
    /\ call \in [Caller -> Call]
    /\ DOMAIN todo = Caller
    /\ \A c \in Caller : Rest(call[c].tool, todo[c])
    /\ \A c \in Caller : Sound(c)

VType == Rows /\ Ghosts /\ Calls

LEMMA ToolNames ==
    Tool = FieldTool \cup {"reschedule", "type", "reassign", "schedule", "card"}
BY DEF Tool, Steps, FieldTool

LEMMA StatusNames ==
    Status = {"CONFIRMED", "EN_ROUTE", "ARRIVED", "FINISHED_FIELD", "DECLINED",
              "HAS_PROBLEM", "WAITING_FOR_INFO", "ASSIGNED", "CANCELED"}
BY DEF Status, After, FieldTool

LEMMA AfterIsAStatus == \A t \in FieldTool : After[t] \in Status
BY DEF After, FieldTool, Status

\* A visit stays scheduled.
LEMMA ScheduledGrows == ASSUME Rows, task' = task PROVE Scheduled' = Scheduled
BY DEF Scheduled

\* The step a call is at tells its tool.
LEMMA ToolAt ==
    ASSUME Calls, NEW c \in Caller, todo[c] # <<>>
    PROVE  /\ Rest(call[c].tool, Tail(todo[c]))
           /\ Follows(call[c].tool, Head(todo[c]), Tail(todo[c]))
BY OneStepOn DEF Calls

LEMMA DoneCalls ==
    ASSUME Calls, NEW c \in Caller, todo[c] # <<>>, Head(todo[c]) \notin {"look", "read"},
           Done(c), call' = call, Scheduled \subseteq Scheduled'
    PROVE  Calls'
PROOF
<1>1. /\ DOMAIN todo' = Caller
      /\ todo'[c] = Tail(todo[c])
      /\ \A d \in Caller \ {c} : todo'[d] = todo[d]
  BY DEF Done, Calls
<1>2. \A d \in Caller : Rest(call[d].tool, todo'[d])
  BY <1>1, ToolAt DEF Calls
<1>3. Follows(call[c].tool, Head(todo[c]), Tail(todo[c]))
  BY ToolAt
<1>4. Sound(c)
  BY DEF Calls
<1>5. Sound(c)'
  BY <1>1, <1>3, <1>4 DEF Sound, Follows, First
<1>6. \A d \in Caller \ {c} : Sound(d)'
  <2> TAKE d \in Caller \ {c}
  <2>1. Sound(d)
    BY DEF Calls
  <2> QED
    BY <1>1, <2>1 DEF Sound
<1> QED
  BY <1>1, <1>2, <1>5, <1>6 DEF Calls

LEMMA StopCalls ==
    ASSUME Calls, NEW c \in Caller, Stop(c), call' = call, Scheduled \subseteq Scheduled'
    PROVE  Calls'
PROOF
<1>1. /\ DOMAIN todo' = Caller
      /\ todo'[c] = <<>>
      /\ \A d \in Caller \ {c} : todo'[d] = todo[d]
  BY DEF Stop, Calls
<1>2. \A d \in Caller : Rest(call[d].tool, todo'[d])
  BY <1>1 DEF Calls, Rest
<1>3. \A d \in Caller : Sound(d)'
  <2> TAKE d \in Caller
  <2>1. Sound(d)
    BY DEF Calls
  <2> QED
    BY <1>1, <2>1 DEF Sound
<1> QED
  BY <1>1, <1>2, <1>3 DEF Calls

LEMMA SameCalls ==
    ASSUME Calls, todo' = todo, call' = call, Scheduled \subseteq Scheduled'
    PROVE  Calls'
PROOF
<1>1. \A d \in Caller : Sound(d)'
  <2> TAKE d \in Caller
  <2>1. Sound(d)
    BY DEF Calls
  <2> QED
    BY <2>1 DEF Sound
<1> QED
  BY <1>1 DEF Calls

\* The two steps that find the worker.
LEMMA FoundCalls ==
    ASSUME Rows, Calls, NEW c \in Caller, todo[c] # <<>>, Head(todo[c]) \in {"look", "read"},
           Done(c), call' = [call EXCEPT ![c].worker = owner[task[call[c].visit]]],
           task' = task
    PROVE  Calls' /\ call'[c].worker \in Employee
PROOF
<1>1. /\ DOMAIN todo' = Caller
      /\ todo'[c] = Tail(todo[c])
      /\ \A d \in Caller \ {c} : todo'[d] = todo[d]
  BY DEF Done, Calls
<1>2. Follows(call[c].tool, Head(todo[c]), Tail(todo[c]))
  BY ToolAt
<1>3. Sound(c)
  BY DEF Calls
<1>4. call[c].tool \in {"reschedule", "type", "card"} /\ call[c].visit \in Scheduled
  BY <1>2, <1>3 DEF Sound, Follows
<1>5. owner[task[call[c].visit]] \in Employee
  BY <1>4 DEF Rows, Scheduled
<1>6. call[c] \in Call
  BY DEF Calls
<1>7. /\ call' \in [Caller -> Call]
      /\ \A d \in Caller \ {c} : call'[d] = call[d]
      /\ call'[c] = [call[c] EXCEPT !.worker = owner[task[call[c].visit]]]
  BY <1>5, <1>6 DEF Calls, Call
<1>8. /\ call'[c].worker \in Employee /\ call'[c].tool = call[c].tool
      /\ call'[c].visit = call[c].visit
  BY <1>5, <1>6, <1>7 DEF Call
<1>9. \A d \in Caller : Rest(call'[d].tool, todo'[d])
  BY <1>1, <1>7, <1>8, ToolAt DEF Calls
<1>10. Scheduled' = Scheduled
  BY DEF Scheduled
<1>11. Sound(c)'
  BY <1>1, <1>2, <1>4, <1>8, <1>10 DEF Sound, FieldTool
<1>12. \A d \in Caller \ {c} : Sound(d)'
  <2> TAKE d \in Caller \ {c}
  <2>1. Sound(d)
    BY DEF Calls
  <2> QED
    BY <1>1, <1>7, <1>10, <2>1 DEF Sound
<1> QED
  BY <1>1, <1>7, <1>8, <1>9, <1>11, <1>12 DEF Calls

\* What a call is started with.
Meant(k) ==
    /\ k \in Call
    /\ k.tool \in Tool
    /\ k.tool \in FieldTool => k.visit \in Scheduled /\ k.by \in Employee
    /\ k.tool \in {"reschedule", "type", "card"} => k.visit \in Scheduled
    /\ k.tool \in {"reassign", "schedule"} => k.visit = Unset /\ k.task \in Task
    /\ k.tool = "reassign" => k.worker \in Employee

Starts(c) ==
    \/ StartField(c) \/ StartCorrection(c) \/ StartReassign(c)
    \/ StartSchedule(c) \/ StartCard(c)

\* A call that starts.
LEMMA StartCalls ==
    ASSUME VType, NEW c \in Caller, NEW k, Start(c, k), Meant(k)
    PROVE  VType'
PROOF
<1> USE DEF Meant
<1>1. /\ DOMAIN todo' = Caller
      /\ todo'[c] = Steps[k.tool]
      /\ \A d \in Caller \ {c} : todo'[d] = todo[d]
  BY DEF Start, VType, Calls
<1>2. /\ call' \in [Caller -> Call]
      /\ call'[c] = k
      /\ \A d \in Caller \ {c} : call'[d] = call[d]
  BY DEF Start, VType, Calls
<1>3. \A d \in Caller : Rest(call'[d].tool, todo'[d])
  BY <1>1, <1>2, WholeTool DEF VType, Calls
<1>4. Scheduled' = Scheduled
  BY DEF Start, vrows, Scheduled
<1>5. Head(todo'[c]) \notin {"move", "tell", "send", "stamp"}
  <2>1. k.tool \in {"confirm", "depart", "arrive", "finish", "decline", "problem", "missing",
                    "reschedule", "type", "reassign", "schedule", "card"}
    BY DEF Tool, Steps
  <2>2. Head(Steps[k.tool]) \in {"check", "look", "reassign", "find", "read"}
    BY <2>1, Tuples1, Tuples2, Tuples3 DEF Steps, DeclineSteps
  <2> QED
    BY <1>1, <2>2
<1>6. Sound(c)'
  BY <1>1, <1>2, <1>4, <1>5 DEF Sound
<1>7. \A d \in Caller \ {c} : Sound(d)'
  <2> TAKE d \in Caller \ {c}
  <2>1. Sound(d)
    BY DEF VType, Calls
  <2> QED
    BY <1>1, <1>2, <1>4, <2>1 DEF Sound
<1>8. Calls'
  BY <1>1, <1>2, <1>3, <1>6, <1>7 DEF Calls
<1>9. Rows'
  BY <1>4 DEF Start, vrows, VType, Rows
<1>10. Ghosts'
  BY DEF Start, ghosts, VType, Ghosts
<1> QED
  BY <1>8, <1>9, <1>10 DEF VType

LEMMA NoCallIsACall == NoCall \in Call
BY DEF NoCall, Call

LEMMA VTypeInit == VisitsInit => VType
PROOF
<1> SUFFICES ASSUME VisitsInit PROVE VType
  OBVIOUS
<1>1. Quiescent
  BY DEF VisitsInit
<1>2. PICK v \in Visit, t \in Task : task = [w \in Visit |-> IF w = v THEN t ELSE Unset]
  BY DEF VisitsInit
<1>3. Rows
  BY <1>1, <1>2, StatusNames DEF Quiescent, Rows, VisitsInit
<1>4. Ghosts
  BY <1>1 DEF Quiescent, Ghosts
<1>5. Calls
  BY <1>1, NoCallIsACall DEF Quiescent, Calls, Rest, Sound
<1> QED
  BY <1>3, <1>4, <1>5 DEF VType


LEMMA EveryStart ==
    ASSUME NEW c \in Caller, Starts(c)
    PROVE  \E k : Start(c, k) /\ Meant(k)
PROOF
<1>1. CASE StartField(c)
  <2>1. PICK t \in FieldTool, v \in Scheduled, w \in Employee :
            Start(c, [NoCall EXCEPT !.tool = t, !.visit = v, !.by = w])
    BY <1>1 DEF StartField
  <2> DEFINE k == [NoCall EXCEPT !.tool = t, !.visit = v, !.by = w]
  <2>2. k \in Call /\ k.tool = t /\ k.visit = v /\ k.by = w
    BY ToolNames DEF NoCall, Call, Scheduled
  <2>3. t \in Tool /\ t \notin {"reschedule", "type", "card", "reassign", "schedule"}
    BY ToolNames DEF FieldTool
  <2> HIDE DEF k
  <2>4. Start(c, k)
    BY <2>1 DEF k
  <2> QED
    BY <2>2, <2>3, <2>4 DEF Meant
<1>2. CASE StartCorrection(c)
  <2>1. PICK t \in {"reschedule", "type"}, v \in Scheduled :
            Start(c, [NoCall EXCEPT !.tool = t, !.visit = v])
    BY <1>2 DEF StartCorrection
  <2> DEFINE k == [NoCall EXCEPT !.tool = t, !.visit = v]
  <2>2. k \in Call /\ k.tool = t /\ k.visit = v
    BY ToolNames DEF NoCall, Call, Scheduled
  <2>3. t \in Tool /\ t \notin FieldTool \cup {"card", "reassign", "schedule"}
    BY ToolNames DEF FieldTool
  <2> HIDE DEF k
  <2>4. Start(c, k)
    BY <2>1 DEF k
  <2> QED
    BY <2>2, <2>3, <2>4 DEF Meant
<1>3. CASE StartReassign(c)
  <2>1. PICK t \in Task, w \in Employee :
            Start(c, [NoCall EXCEPT !.tool = "reassign", !.task = t, !.worker = w])
    BY <1>3 DEF StartReassign
  <2> DEFINE k == [NoCall EXCEPT !.tool = "reassign", !.task = t, !.worker = w]
  <2>2. k \in Call /\ k.tool = "reassign" /\ k.visit = Unset /\ k.task = t /\ k.worker = w
    BY ToolNames DEF NoCall, Call
  <2>3. "reassign" \in Tool /\ "reassign" \notin FieldTool
    BY ToolNames DEF FieldTool
  <2> HIDE DEF k
  <2>4. Start(c, k)
    BY <2>1 DEF k
  <2> QED
    BY <2>2, <2>3, <2>4 DEF Meant
<1>4. CASE StartSchedule(c)
  <2>1. PICK t \in Task : Start(c, [NoCall EXCEPT !.tool = "schedule", !.task = t])
    BY <1>4 DEF StartSchedule
  <2> DEFINE k == [NoCall EXCEPT !.tool = "schedule", !.task = t]
  <2>2. k \in Call /\ k.tool = "schedule" /\ k.visit = Unset /\ k.task = t
    BY ToolNames DEF NoCall, Call
  <2>3. "schedule" \in Tool /\ "schedule" \notin FieldTool
    BY ToolNames DEF FieldTool
  <2> HIDE DEF k
  <2>4. Start(c, k)
    BY <2>1 DEF k
  <2> QED
    BY <2>2, <2>3, <2>4 DEF Meant
<1>5. CASE StartCard(c)
  <2>1. PICK v \in Scheduled : Start(c, [NoCall EXCEPT !.tool = "card", !.visit = v])
    BY <1>5 DEF StartCard
  <2> DEFINE k == [NoCall EXCEPT !.tool = "card", !.visit = v]
  <2>2. k \in Call /\ k.tool = "card" /\ k.visit = v
    BY ToolNames DEF NoCall, Call, Scheduled
  <2>3. "card" \in Tool /\ "card" \notin FieldTool
    BY ToolNames DEF FieldTool
  <2> HIDE DEF k
  <2>4. Start(c, k)
    BY <2>1 DEF k
  <2> QED
    BY <2>2, <2>3, <2>4 DEF Meant
<1> QED
  BY <1>1, <1>2, <1>3, <1>4, <1>5 DEF Starts

LEMMA VTypeStarts ==
    ASSUME VType, NEW c \in Caller, Starts(c)
    PROVE  VType'
BY EveryStart, StartCalls

\* What a step of a call is at, it has.
LEMMA HasAVisit ==
    ASSUME Calls, NEW c \in Caller, todo[c] # <<>>,
           Head(todo[c]) \notin {"reassign", "find", "insert"}
    PROVE  call[c].visit \in Scheduled /\ call[c].visit \in Visit
PROOF
<1>1. Follows(call[c].tool, Head(todo[c]), Tail(todo[c]))
  BY ToolAt
<1>2. Sound(c)
  BY DEF Calls
<1> QED
  BY <1>1, <1>2 DEF Sound, Follows, Scheduled, Ending, FieldTool

LEMMA HasAWorker ==
    ASSUME Calls, NEW c \in Caller, todo[c] # <<>>,
           Head(todo[c]) \in {"check", "write", "openSession", "closeSession"}
    PROVE  call[c].tool \in FieldTool /\ call[c].by \in Employee
PROOF
<1>1. Follows(call[c].tool, Head(todo[c]), Tail(todo[c]))
  BY ToolAt
<1>2. Sound(c)
  BY DEF Calls
<1>3. call[c].tool \in FieldTool
  BY <1>1 DEF Follows, Ending, FieldTool
<1> QED
  BY <1>2, <1>3 DEF Sound

LEMMA CheckedIsFinite ==
    \A v : IsFiniteSet(Checked(v)) /\ Checked(v) \subseteq Caller
PROOF
<1>1. \A v : Checked(v) \subseteq Caller
  BY DEF Checked, Busy
<1> QED
  BY <1>1, FS_Subset

LEMMA SizeInNat ==
    ASSUME NEW S \in SUBSET Caller
    PROVE  IsFiniteSet(S) /\ Cardinality(S) \in Nat
BY FS_Subset, FS_CardinalityType

\* A status becomes another one.
LEMMA StatusRows ==
    ASSUME Rows, NEW v \in Visit, NEW s \in Status,
           status' = [status EXCEPT ![v] = s],
           UNCHANGED <<owner, open, task, stamped, trip>>
    PROVE  Rows'
BY DEF Rows, Scheduled

LEMMA VTypeChecks ==
    ASSUME VType, NEW c \in Caller, Check(c) \/ Look(c) \/ Find(c) \/ Read(c)
    PROVE  VType'
PROOF
<1> USE DEF VType
<1>1. CASE Check(c)
  <2>1. Rows' /\ Scheduled' = Scheduled
    BY <1>1 DEF Check, vrows, Rows, Scheduled
  <2>2. todo[c] # <<>> /\ Head(todo[c]) = "check"
    BY <1>1 DEF Check, At
  <2>3. Calls'
    BY <1>1, <2>1, <2>2, DoneCalls, StopCalls DEF Check
  <2>4. disturbed' \subseteq Visit
    BY <1>1, <2>2, HasAVisit DEF Check, Overlapped, Ghosts
  <2>5. Ghosts'
    BY <1>1, <2>4 DEF Check, Ghosts, vbounds
  <2> QED
    BY <2>1, <2>3, <2>5
<1>2. CASE Look(c)
  <2>1. Rows' /\ Ghosts' /\ Scheduled' = Scheduled /\ task' = task
    BY <1>2 DEF Look, vrows, ghosts, vbounds, Rows, Ghosts, Scheduled
  <2>2. Calls'
    BY <1>2, <2>1, FoundCalls, StopCalls DEF Look, At
  <2> QED
    BY <2>1, <2>2
<1>3. CASE Find(c)
  <2>1. Rows' /\ Ghosts' /\ Scheduled' = Scheduled
    BY <1>3 DEF Find, vrows, ghosts, vbounds, Rows, Ghosts, Scheduled
  <2>2. Calls'
    BY <1>3, <2>1, DoneCalls, StopCalls DEF Find, At
  <2> QED
    BY <2>1, <2>2
<1>4. CASE Read(c)
  <2>1. Rows' /\ Ghosts' /\ Scheduled' = Scheduled /\ task' = task
    BY <1>4 DEF Read, vrows, ghosts, vbounds, Rows, Ghosts, Scheduled
  <2>2. Calls'
    BY <1>4, <2>1, FoundCalls, StopCalls DEF Read, At
  <2> QED
    BY <2>1, <2>2
<1> QED
  BY <1>1, <1>2, <1>3, <1>4

LEMMA VTypeWrites ==
    ASSUME VType, NEW c \in Caller,
           WriteVisitStatus(c) \/ OpenSession(c) \/ CloseSession(c)
    PROVE  VType'
PROOF
<1> USE DEF VType
<1> DEFINE v == call[c].visit
<1>0. todo[c] # <<>> /\ Head(todo[c]) \in {"write", "openSession", "closeSession"}
  BY DEF WriteVisitStatus, OpenSession, CloseSession, At
<1>1. v \in Visit /\ call[c].tool \in FieldTool /\ call[c].by \in Employee
  BY <1>0, HasAVisit, HasAWorker
<1>2. Scheduled' = Scheduled /\ Done(c) /\ call' = call
  BY DEF WriteVisitStatus, OpenSession, CloseSession, Scheduled
<1>3. Calls'
  BY <1>0, <1>2, DoneCalls
<1>4. CASE WriteVisitStatus(c)
  <2>1. Rows'
    BY <1>1, <1>4, AfterIsAStatus, StatusRows DEF WriteVisitStatus
  <2>2. knows' \in [Visit -> SUBSET Employee]
    BY <1>1, <1>4 DEF WriteVisitStatus, Ghosts
  <2>3. late' \in Nat
    BY <1>4 DEF WriteVisitStatus, Ghosts
  <2>4. Cardinality(Checked(v) \ {c}) \in Nat
    BY CheckedIsFinite, SizeInNat
  <2>5. excused' \in Nat
    BY <1>4, <2>4 DEF WriteVisitStatus, Ghosts
  <2>6. Ghosts'
    BY <1>4, <2>2, <2>3, <2>5 DEF WriteVisitStatus, Ghosts, vbounds
  <2> QED
    BY <1>3, <2>1, <2>6
<1>5. CASE OpenSession(c)
  <2>1. trip' \in [Visit -> Employee \cup {Unset}]
    BY <1>1, <1>5 DEF OpenSession, Rows
  <2>2. Rows' /\ Ghosts'
    BY <1>2, <1>5, <2>1 DEF OpenSession, Rows, Ghosts, ghosts, vbounds
  <2> QED
    BY <1>3, <2>2
<1>6. CASE CloseSession(c)
  <2>1. trip' \in [Visit -> Employee \cup {Unset}]
    BY <1>1, <1>6 DEF CloseSession, Rows
  <2>2. Rows' /\ Ghosts'
    BY <1>2, <1>6, <2>1 DEF CloseSession, Rows, Ghosts, ghosts, vbounds
  <2> QED
    BY <1>3, <2>2
<1> QED
  BY <1>4, <1>5, <1>6

LEMMA VTypeCorrections ==
    ASSUME VType, NEW c \in Caller, Move(c) \/ Retype(c) \/ Tell(c) \/ SendCard(c) \/ Stamp(c)
    PROVE  VType'
PROOF
<1> USE DEF VType
<1> DEFINE v == call[c].visit
<1>0. todo[c] # <<>> /\ Head(todo[c]) \in {"move", "retype", "tell", "send", "stamp"}
  BY DEF Move, Retype, Tell, SendCard, Stamp, At
<1>1. v \in Scheduled /\ v \in Visit
  BY <1>0, HasAVisit
<1>2. Head(todo[c]) \in {"tell", "send"} => call[c].worker \in Employee
  BY <1>0 DEF Calls, Sound
<1>3. Scheduled' = Scheduled /\ Done(c) /\ call' = call
  BY DEF Move, Retype, Tell, SendCard, Stamp, vrows, Scheduled
<1>4. Calls'
  BY <1>0, <1>3, DoneCalls
<1>5. Rows'
  BY <1>1, <1>3 DEF Move, Retype, Tell, SendCard, Stamp, vrows, Rows
<1>6. late' \in Nat
  BY DEF Move, Retype, Tell, SendCard, Stamp, Late, Ghosts, ghosts
<1>7. knows' \in [Visit -> SUBSET Employee]
  <2>1. CASE Tell(c) \/ SendCard(c)
    BY <1>1, <1>2, <2>1 DEF Tell, SendCard, At, Ghosts
  <2>2. CASE Move(c) \/ Retype(c) \/ Stamp(c)
    BY <2>2 DEF Move, Retype, Stamp, Ghosts, ghosts
  <2> QED
    BY <2>1, <2>2
<1>8. Ghosts'
  BY <1>6, <1>7 DEF Move, Retype, Tell, SendCard, Stamp, Ghosts, ghosts, vbounds
<1> QED
  BY <1>4, <1>5, <1>8

LEMMA VTypeTasks ==
    ASSUME VType, NEW c \in Caller, Reassign(c) \/ Insert(c)
    PROVE  VType'
PROOF
<1> USE DEF VType
<1>0. todo[c] # <<>> /\ Head(todo[c]) \in {"reassign", "insert"}
  BY DEF Reassign, Insert, At
<1>1. Follows(call[c].tool, Head(todo[c]), Tail(todo[c])) /\ Sound(c)
  BY <1>0, ToolAt DEF Calls
<1>2. call[c].task \in Task /\ (Head(todo[c]) = "reassign" => call[c].worker \in Employee)
  BY <1>0, <1>1 DEF Sound, Follows
<1>3. CASE Reassign(c)
  <2>1. Scheduled' = Scheduled /\ Done(c) /\ call' = call
    BY <1>3 DEF Reassign, Scheduled
  <2>2. Calls'
    BY <1>0, <2>1, DoneCalls
  <2>3. Rows'
    BY <1>2, <1>3, <2>1 DEF Reassign, At, Rows, StampsLeft
  <2>4. crossed' \subseteq Visit
    BY <1>3 DEF Reassign, Ghosts, Scheduled
  <2>5. Ghosts'
    BY <1>3, <2>4 DEF Reassign, Ghosts, vbounds
  <2> QED
    BY <2>2, <2>3, <2>5
<1>4. CASE Insert(c)
  <2>1. PICK v \in Visit \ Scheduled : task' = [task EXCEPT ![v] = call[c].task]
    BY <1>4 DEF Insert
  <2>2. Scheduled \subseteq Scheduled'
    BY <1>2, <2>1 DEF Scheduled, Rows
  <2>3. Calls'
    BY <1>0, <1>4, <2>2, DoneCalls DEF Insert
  <2>4. Rows'
    BY <1>2, <1>4, <2>1, <2>2 DEF Insert, Rows
  <2>5. late' \in Nat
    BY <1>4 DEF Insert, Ghosts
  <2>6. Ghosts'
    BY <1>4, <2>5 DEF Insert, Ghosts, vbounds
  <2> QED
    BY <2>3, <2>4, <2>6
<1> QED
  BY <1>3, <1>4

LEMMA VTypeMishaps ==
    ASSUME VType,
           \/ \E c \in Caller : Fails(c)
           \/ \E v \in Visit : OfficeCancels(v)
           \/ \E t \in Task : OfficeClosesTask(t)
    PROVE  VType'
PROOF
<1> USE DEF VType
<1>0. ASSUME Fault PROVE calls' \in 0..MaxCalls /\ mishaps' \in 0..MaxMishaps
  BY <1>0 DEF Fault, Ghosts
<1>1. CASE \E c \in Caller : Fails(c)
  <2>1. PICK c \in Caller : Fails(c)
    BY <1>1
  <2>2. Rows' /\ Scheduled' = Scheduled
    BY <2>1 DEF Fails, vrows, Rows, Scheduled
  <2>3. todo[c] # <<>> /\ ((Done(c) /\ Head(todo[c]) = "openSession") \/ Stop(c)) /\ call' = call
    BY <2>1 DEF Fails, GivenUp
  <2>4. Calls'
    BY <2>2, <2>3, DoneCalls, StopCalls
  <2>5. Ghosts'
    BY <1>0, <2>1 DEF Fails, Ghosts
  <2> QED
    BY <2>2, <2>4, <2>5
<1>2. CASE \E v \in Visit : OfficeCancels(v)
  <2>1. PICK v \in Visit : OfficeCancels(v)
    BY <1>2
  <2>2. Rows' /\ Scheduled' = Scheduled
    BY <2>1, StatusRows, StatusNames DEF OfficeCancels, Scheduled
  <2>3. Calls'
    BY <2>1, <2>2, SameCalls DEF OfficeCancels
  <2>4. excused' \in Nat
    <3>1. Cardinality(Checked(v)) \in Nat
      BY CheckedIsFinite, SizeInNat
    <3> QED
      BY <2>1, <3>1 DEF OfficeCancels, Ghosts
  <2>5. Ghosts'
    BY <1>0, <2>1, <2>4 DEF OfficeCancels, Ghosts
  <2> QED
    BY <2>2, <2>3, <2>5
<1>3. CASE \E t \in Task : OfficeClosesTask(t)
  <2>1. PICK t \in Task : OfficeClosesTask(t)
    BY <1>3
  <2>2. Rows' /\ Scheduled' = Scheduled
    BY <2>1 DEF OfficeClosesTask, Rows, Scheduled
  <2>3. Calls'
    BY <2>1, <2>2, SameCalls DEF OfficeClosesTask
  <2>4. excused' \in Nat
    <3>1. Cardinality({c \in Caller : At(c, "insert") /\ call[c].task = t}) \in Nat
      BY SizeInNat
    <3> QED
      BY <2>1, <3>1 DEF OfficeClosesTask, Ghosts
  <2>5. Ghosts'
    BY <1>0, <2>1, <2>4 DEF OfficeClosesTask, Ghosts
  <2> QED
    BY <2>2, <2>3, <2>5
<1> QED
  BY <1>1, <1>2, <1>3

LEMMA VTypeStep == VType /\ [VisitsNext]_vvars => VType'
PROOF
<1> SUFFICES ASSUME VType, [VisitsNext]_vvars PROVE VType'
  OBVIOUS
<1>1. CASE VisitsNext
  BY <1>1, VTypeStarts, VTypeChecks, VTypeWrites, VTypeCorrections, VTypeTasks,
     VTypeMishaps DEF VisitsNext, Starts
<1>2. CASE UNCHANGED vvars
  <2>1. Rows' /\ Ghosts' /\ Scheduled' = Scheduled /\ call' = call /\ todo' = todo
    BY <1>2 DEF vvars, vrows, ghosts, vbounds, VType, Rows, Ghosts, Scheduled
  <2> QED
    BY <2>1, SameCalls DEF VType
<1> QED
  BY <1>1, <1>2

-----------------------------------------------------------------------------
(* Trips.                                                                  *)

\* A worker's tool that runs on the visit v.
FieldOn(c, v) == todo[c] # <<>> /\ call[c].tool \in FieldTool /\ call[c].visit = v

\* Unless v is disturbed, one tool at a time is past its check of it ...
OneAtATime(v) ==
    \A c, d \in Caller :
        FieldOn(c, v) /\ FieldOn(d, v) /\ c # d => At(c, "check") \/ At(d, "check")

\* ... and once a visit is finished or declined, what is left of the tools is a
\* check, which will refuse, or the end of the trip, which is due while there is one.
OnlyTheEndIsLeft(v) ==
    status[v] \in {"FINISHED_FIELD", "DECLINED"} =>
        /\ \A c \in Caller : FieldOn(c, v) => At(c, "check") \/ At(c, "closeSession")
        /\ trip[v] # Unset => \E c \in Caller : FieldOn(c, v) /\ At(c, "closeSession")

TripInv == \A v \in Visit \ disturbed : OneAtATime(v) /\ OnlyTheEndIsLeft(v)

\* A tool that runs on v is at a step of a worker's tool.
LEMMA FieldSteps ==
    ASSUME Calls, NEW c \in Caller, NEW v, FieldOn(c, v)
    PROVE  Head(todo[c]) \in {"check", "openSession", "write", "closeSession"}
PROOF
<1>1. todo[c] # <<>> /\ Follows(call[c].tool, Head(todo[c]), Tail(todo[c]))
  BY ToolAt DEF FieldOn
<1> QED
  BY <1>1 DEF Follows, FieldOn, FieldTool

\* A step that touches no tool of a worker and no status, and opens no trip.
LEMMA TripFrame ==
    ASSUME TripInv, disturbed \subseteq disturbed',
           \A v \in Visit \ disturbed', c \in Caller : FieldOn(c, v)' => FieldOn(c, v),
           \A v \in Visit \ disturbed', c \in Caller :
               FieldOn(c, v)' /\ At(c, "check") => At(c, "check")',
           \A v \in Visit \ disturbed', c \in Caller :
               FieldOn(c, v)' /\ At(c, "closeSession") => At(c, "closeSession")',
           \A v \in Visit \ disturbed', c \in Caller :
               FieldOn(c, v) /\ At(c, "closeSession")
                 => FieldOn(c, v)' \/ trip'[v] = Unset,
           \A v \in Visit \ disturbed' : trip'[v] \in {trip[v], Unset},
           \A v \in Visit \ disturbed' :
               status'[v] \in {"FINISHED_FIELD", "DECLINED"} => status'[v] = status[v]
    PROVE  TripInv'
PROOF
<1> SUFFICES ASSUME NEW v \in Visit \ disturbed'
             PROVE  OneAtATime(v)' /\ OnlyTheEndIsLeft(v)'
  BY DEF TripInv
<1>1. OneAtATime(v) /\ OnlyTheEndIsLeft(v)
  BY DEF TripInv
<1>2. OneAtATime(v)'
  BY <1>1 DEF OneAtATime
<1>3. ASSUME status'[v] \in {"FINISHED_FIELD", "DECLINED"}
      PROVE  /\ \A c \in Caller : FieldOn(c, v)' => At(c, "check")' \/ At(c, "closeSession")'
             /\ trip'[v] # Unset
                  => \E c \in Caller : FieldOn(c, v)' /\ At(c, "closeSession")'
  BY <1>1, <1>3 DEF OnlyTheEndIsLeft
<1> QED
  BY <1>2, <1>3 DEF OnlyTheEndIsLeft

\* The calls that a step of c leaves as they are.
LEMMA OthersTrip ==
    ASSUME Calls, NEW c \in Caller, Done(c) \/ Stop(c), call' = call
    PROVE  /\ \A d \in Caller \ {c} : todo'[d] = todo[d]
           /\ \A d \in Caller \ {c} : \A v : FieldOn(d, v)' <=> FieldOn(d, v)
           /\ \A d \in Caller \ {c} : \A s : At(d, s)' <=> At(d, s)
           /\ \A v : FieldOn(c, v)' /\ todo[c] # <<>> => FieldOn(c, v)
PROOF
<1>1. \A d \in Caller \ {c} : todo'[d] = todo[d]
  BY DEF Done, Stop, Calls
<1> QED
  BY <1>1 DEF FieldOn, At

LEMMA FieldBegins ==
    \A t \in FieldTool : Steps[t] # <<>> /\ Head(Steps[t]) = "check"
BY Tuples2, Tuples3 DEF Steps, FieldTool, DeclineSteps

LEMMA NoField ==
    ASSUME Calls, NEW c \in Caller, todo[c] # <<>>,
           Head(todo[c]) \notin {"check", "openSession", "write", "closeSession"}
    PROVE  call[c].tool \notin FieldTool
BY FieldSteps DEF FieldOn

\* A step of a call that is no worker's tool, or of the office.
LEMMA TripAside ==
    ASSUME VType, TripInv, NEW c \in Caller, todo[c] # <<>>,
           Head(todo[c]) \notin {"check", "openSession", "write", "closeSession"},
           Done(c) \/ Stop(c), UNCHANGED <<status, trip, disturbed>>,
           \A d \in Caller : call'[d].tool = call[d].tool /\ call'[d].visit = call[d].visit
    PROVE  TripInv'
PROOF
<1>1. \A d \in Caller \ {c} : todo'[d] = todo[d]
  BY DEF Done, Stop, VType, Calls
<1>2. \A v : ~FieldOn(c, v) /\ ~FieldOn(c, v)'
  BY NoField DEF FieldOn, VType
<1>3. \A v : \A d \in Caller : FieldOn(d, v)' <=> FieldOn(d, v)
  BY <1>1, <1>2 DEF FieldOn
<1>4. \A v, s : \A d \in Caller : FieldOn(d, v) => (At(d, s)' <=> At(d, s))
  BY <1>1, <1>2 DEF FieldOn, At
<1> QED
  BY <1>3, <1>4, TripFrame

LEMMA TripStarts ==
    ASSUME VType, TripInv, NEW c \in Caller, NEW k \in Call, Start(c, k)
    PROVE  TripInv'
PROOF
<1>1. /\ todo[c] = <<>>
      /\ todo'[c] = Steps[k.tool] /\ call'[c] = k
      /\ \A d \in Caller \ {c} : todo'[d] = todo[d] /\ call'[d] = call[d]
      /\ status' = status /\ trip' = trip /\ disturbed' = disturbed
  BY DEF Start, VType, Calls, vrows, ghosts
<1>2. \A v, s : \A d \in Caller \ {c} :
          (FieldOn(d, v)' <=> FieldOn(d, v)) /\ (At(d, s)' <=> At(d, s))
  BY <1>1 DEF FieldOn, At
<1>3. \A v : ~FieldOn(c, v) /\ (FieldOn(c, v)' => At(c, "check")')
  BY <1>1, FieldBegins DEF FieldOn, At
<1> SUFFICES ASSUME NEW v \in Visit \ disturbed
             PROVE  OneAtATime(v)' /\ OnlyTheEndIsLeft(v)'
  BY <1>1 DEF TripInv
<1>4. OneAtATime(v) /\ OnlyTheEndIsLeft(v)
  BY DEF TripInv
<1>5. OneAtATime(v)'
  BY <1>2, <1>3, <1>4 DEF OneAtATime
<1>6. OnlyTheEndIsLeft(v)'
  BY <1>1, <1>2, <1>3, <1>4 DEF OnlyTheEndIsLeft
<1> QED
  BY <1>5, <1>6

\* The check is passed alone, or v is disturbed; and not once v is closed.
LEMMA TripCheck ==
    ASSUME VType, TripInv, NEW c \in Caller, Check(c)
    PROVE  TripInv'
PROOF
<1> DEFINE w == call[c].visit
<1>1. /\ todo[c] # <<>> /\ Head(todo[c]) = "check" /\ call' = call
      /\ status' = status /\ trip' = trip
  BY DEF Check, At, vrows
<1>2. w \in Visit /\ call[c].tool \in FieldTool
  BY <1>1, HasAVisit, HasAWorker DEF VType
<1>3. CASE ~Valid(w, call[c].by)
  <2>1. Stop(c) /\ disturbed' = disturbed
    BY <1>3 DEF Check
  <2>2. todo'[c] = <<>> /\ \A d \in Caller \ {c} : todo'[d] = todo[d]
    BY <2>1 DEF Stop, VType, Calls
  <2>3. \A v : ~FieldOn(c, v)'
    BY <2>2 DEF FieldOn
  <2>4. \A v, s : \A d \in Caller \ {c} :
            (FieldOn(d, v)' <=> FieldOn(d, v)) /\ (At(d, s)' <=> At(d, s))
    BY <1>1, <2>2 DEF FieldOn, At
  <2>5. ~At(c, "closeSession")
    BY <1>1 DEF At
  <2> QED
    BY <1>1, <2>1, <2>3, <2>4, <2>5, TripFrame
<1>4. CASE Valid(w, call[c].by)
  <2>1. Done(c) /\ Overlapped(c) /\ status[w] \notin {"FINISHED_FIELD", "DECLINED"}
    BY <1>4 DEF Check, Valid, Closed
  <2>2. \A d \in Caller \ {c} : todo'[d] = todo[d]
    BY <2>1 DEF Done, VType, Calls
  <2>3. \A v, s : \A d \in Caller \ {c} :
            (FieldOn(d, v)' <=> FieldOn(d, v)) /\ (At(d, s)' <=> At(d, s))
    BY <1>1, <2>2 DEF FieldOn, At
  <2>4. \A v : (FieldOn(c, v) => v = w) /\ (FieldOn(c, v)' => v = w)
    BY <1>1 DEF FieldOn
  <2>5. FieldOn(c, w)
    BY <1>1, <1>2 DEF FieldOn
  <2>6. disturbed \subseteq disturbed'
        /\ (w \notin disturbed' => \A d \in Caller \ {c} : ~FieldOn(d, w))
    BY <2>1 DEF Overlapped, Busy, FieldOn
  <2> SUFFICES ASSUME NEW v \in Visit \ disturbed'
               PROVE  OneAtATime(v)' /\ OnlyTheEndIsLeft(v)'
    BY DEF TripInv
  <2>7. OneAtATime(v) /\ OnlyTheEndIsLeft(v)
    BY <2>6 DEF TripInv
  <2>8. CASE v = w
    <3>1. \A d \in Caller \ {c} : ~FieldOn(d, v)'
      BY <2>3, <2>6, <2>8
    <3>2. OneAtATime(v)'
      BY <3>1 DEF OneAtATime
    <3>3. OnlyTheEndIsLeft(v)'
      BY <1>1, <2>1, <2>8 DEF OnlyTheEndIsLeft
    <3> QED
      BY <3>2, <3>3
  <2>9. CASE v # w
    <3>1. ~FieldOn(c, v) /\ ~FieldOn(c, v)'
      BY <2>4, <2>9
    <3>2. OneAtATime(v)'
      BY <2>3, <2>7, <3>1 DEF OneAtATime
    <3>3. OnlyTheEndIsLeft(v)'
      BY <1>1, <2>3, <2>7, <3>1 DEF OnlyTheEndIsLeft
    <3> QED
      BY <3>2, <3>3
  <2> QED
    BY <2>8, <2>9
<1> QED
  BY <1>3, <1>4

LEMMA TripWrite ==
    ASSUME VType, TripInv, NEW c \in Caller, WriteVisitStatus(c)
    PROVE  TripInv'
PROOF
<1> DEFINE w == call[c].visit
<1>1. /\ todo[c] # <<>> /\ Head(todo[c]) = "write" /\ call' = call /\ Done(c)
      /\ status' = [status EXCEPT ![w] = After[call[c].tool]] /\ trip' = trip
      /\ disturbed' = disturbed
  BY DEF WriteVisitStatus, At
<1>2. w \in Visit /\ call[c].tool \in FieldTool
  BY <1>1, HasAVisit, HasAWorker DEF VType
<1>3. /\ todo'[c] = Tail(todo[c])
      /\ \A d \in Caller \ {c} : todo'[d] = todo[d]
  BY <1>1 DEF Done, VType, Calls
<1>4. \A v, s : \A d \in Caller \ {c} :
          (FieldOn(d, v)' <=> FieldOn(d, v)) /\ (At(d, s)' <=> At(d, s))
  BY <1>1, <1>3 DEF FieldOn, At
<1>5. \A v : (FieldOn(c, v) => v = w) /\ (FieldOn(c, v)' => v = w)
  BY <1>1 DEF FieldOn
<1>6. FieldOn(c, w) /\ ~At(c, "check")
  BY <1>1, <1>2 DEF FieldOn, At
<1>7. Follows(call[c].tool, "write", Tail(todo[c]))
  BY <1>1, ToolAt DEF VType
<1>8. After[call[c].tool] \in {"FINISHED_FIELD", "DECLINED"} => call[c].tool \in Ending
  BY <1>2 DEF After, FieldTool, Ending
<1>9. call[c].tool \in Ending => FieldOn(c, w)' /\ At(c, "closeSession")'
  BY <1>1, <1>2, <1>3, <1>7 DEF Follows, First, FieldOn, At
<1> SUFFICES ASSUME NEW v \in Visit \ disturbed
             PROVE  OneAtATime(v)' /\ OnlyTheEndIsLeft(v)'
  BY <1>1 DEF TripInv
<1>10. OneAtATime(v) /\ OnlyTheEndIsLeft(v)
  BY DEF TripInv
<1>11. CASE v = w
  <2>1. \A d \in Caller \ {c} : FieldOn(d, v) => At(d, "check")
    BY <1>6, <1>10, <1>11 DEF OneAtATime
  <2>2. \A d \in Caller \ {c} : FieldOn(d, v)' => At(d, "check")'
    BY <1>4, <2>1
  <2>3. OneAtATime(v)'
    BY <2>2 DEF OneAtATime
  <2>4. status'[v] = After[call[c].tool]
    BY <1>1, <1>2, <1>11 DEF VType, Rows
  <2>5. OnlyTheEndIsLeft(v)'
    BY <1>1, <1>8, <1>9, <1>11, <2>2, <2>4 DEF OnlyTheEndIsLeft, FieldOn, At
  <2> QED
    BY <2>3, <2>5
<1>12. CASE v # w
  <2>1. ~FieldOn(c, v) /\ ~FieldOn(c, v)'
    BY <1>5, <1>12
  <2>2. status'[v] = status[v]
    BY <1>1, <1>12 DEF VType, Rows
  <2>3. OneAtATime(v)'
    BY <1>4, <1>10, <2>1 DEF OneAtATime
  <2>4. OnlyTheEndIsLeft(v)'
    BY <1>1, <1>4, <1>10, <2>1, <2>2 DEF OnlyTheEndIsLeft
  <2> QED
    BY <2>3, <2>4
<1> QED
  BY <1>11, <1>12

\* A trip is opened where the status is not written yet.
LEMMA TripOpen ==
    ASSUME VType, TripInv, NEW c \in Caller, OpenSession(c)
    PROVE  TripInv'
PROOF
<1> DEFINE w == call[c].visit
<1>1. /\ todo[c] # <<>> /\ Head(todo[c]) = "openSession" /\ call' = call /\ Done(c)
      /\ status' = status /\ disturbed' = disturbed
  BY DEF OpenSession, At, ghosts
<1>2. w \in Visit /\ call[c].tool \in FieldTool
  BY <1>1, HasAVisit, HasAWorker DEF VType
<1>3. /\ todo'[c] = Tail(todo[c])
      /\ \A d \in Caller \ {c} : todo'[d] = todo[d]
  BY <1>1 DEF Done, VType, Calls
<1>4. \A v, s : \A d \in Caller \ {c} :
          (FieldOn(d, v)' <=> FieldOn(d, v)) /\ (At(d, s)' <=> At(d, s))
  BY <1>1, <1>3 DEF FieldOn, At
<1>5. \A v : (FieldOn(c, v) => v = w) /\ (FieldOn(c, v)' => v = w)
  BY <1>1 DEF FieldOn
<1>6. FieldOn(c, w) /\ ~At(c, "check") /\ ~At(c, "closeSession")
  BY <1>1, <1>2 DEF FieldOn, At
<1>7. \A v \in Visit : v # w => trip'[v] \in {trip[v], Unset}
  BY DEF OpenSession, VType, Rows
<1> SUFFICES ASSUME NEW v \in Visit \ disturbed
             PROVE  OneAtATime(v)' /\ OnlyTheEndIsLeft(v)'
  BY <1>1 DEF TripInv
<1>8. OneAtATime(v) /\ OnlyTheEndIsLeft(v)
  BY DEF TripInv
<1>9. CASE v = w
  <2>1. \A d \in Caller \ {c} : FieldOn(d, v)' => At(d, "check")'
    BY <1>4, <1>6, <1>8, <1>9 DEF OneAtATime
  <2>2. OneAtATime(v)'
    BY <2>1 DEF OneAtATime
  <2>3. status[v] \notin {"FINISHED_FIELD", "DECLINED"}
    BY <1>6, <1>8, <1>9 DEF OnlyTheEndIsLeft
  <2>4. OnlyTheEndIsLeft(v)'
    BY <1>1, <2>3 DEF OnlyTheEndIsLeft
  <2> QED
    BY <2>2, <2>4
<1>10. CASE v # w
  <2>1. ~FieldOn(c, v) /\ ~FieldOn(c, v)'
    BY <1>5, <1>10
  <2>2. OneAtATime(v)'
    BY <1>4, <1>8, <2>1 DEF OneAtATime
  <2>3. trip'[v] \in {trip[v], Unset}
    BY <1>7, <1>10
  <2>4. OnlyTheEndIsLeft(v)'
    BY <1>1, <1>4, <1>8, <2>1, <2>3 DEF OnlyTheEndIsLeft
  <2> QED
    BY <2>2, <2>4
<1> QED
  BY <1>9, <1>10

LEMMA TripClose ==
    ASSUME VType, TripInv, NEW c \in Caller, CloseSession(c)
    PROVE  TripInv'
PROOF
<1> DEFINE w == call[c].visit
<1>1. /\ todo[c] # <<>> /\ Head(todo[c]) = "closeSession" /\ call' = call /\ Done(c)
      /\ status' = status /\ disturbed' = disturbed /\ trip' = [trip EXCEPT ![w] = Unset]
  BY DEF CloseSession, At, ghosts
<1>2. w \in Visit
  BY <1>1, HasAVisit DEF VType
<1>3. /\ todo'[c] = Tail(todo[c])
      /\ \A d \in Caller \ {c} : todo'[d] = todo[d]
  BY <1>1 DEF Done, VType, Calls
<1>4. Follows(call[c].tool, "closeSession", Tail(todo[c]))
  BY <1>1, ToolAt DEF VType
<1>5. todo'[c] = <<>>
  BY <1>3, <1>4 DEF Follows
<1>6. \A v, s : \A d \in Caller \ {c} :
          (FieldOn(d, v)' <=> FieldOn(d, v)) /\ (At(d, s)' <=> At(d, s))
  BY <1>1, <1>3 DEF FieldOn, At
<1>7. \A v : ~FieldOn(c, v)' /\ (FieldOn(c, v) => v = w)
  BY <1>5 DEF FieldOn
<1>8. \A v \in Visit : trip'[v] \in {trip[v], Unset} /\ (v = w => trip'[v] = Unset)
  BY <1>1, <1>2 DEF VType, Rows
<1> QED
  BY <1>1, <1>6, <1>7, <1>8, TripFrame

\* What breaks off is disturbed.
LEMMA TripFails ==
    ASSUME VType, TripInv, NEW c \in Caller, Fails(c)
    PROVE  TripInv'
PROOF
<1> DEFINE w == call[c].visit
<1>1. /\ todo[c] # <<>> /\ call' = call /\ (Done(c) \/ Stop(c))
      /\ status' = status /\ trip' = trip /\ disturbed' = disturbed \cup ({w} \cap Visit)
  BY DEF Fails, GivenUp, vrows
<1>2. \A d \in Caller \ {c} : todo'[d] = todo[d]
  BY <1>1 DEF Done, Stop, VType, Calls
<1>3. \A v, s : \A d \in Caller \ {c} :
          (FieldOn(d, v)' <=> FieldOn(d, v)) /\ (At(d, s)' <=> At(d, s))
  BY <1>1, <1>2 DEF FieldOn, At
<1>4. \A v : (FieldOn(c, v) => v = w) /\ (FieldOn(c, v)' => v = w)
  BY <1>1 DEF FieldOn
<1>5. \A v \in Visit \ disturbed' : ~FieldOn(c, v) /\ ~FieldOn(c, v)'
  BY <1>1, <1>4
<1> QED
  BY <1>1, <1>3, <1>5, TripFrame

LEMMA TripOffice ==
    ASSUME VType, TripInv,
           \/ \E v \in Visit : OfficeCancels(v)
           \/ \E t \in Task : OfficeClosesTask(t)
    PROVE  TripInv'
PROOF
<1>1. /\ call' = call /\ todo' = todo /\ trip' = trip /\ disturbed' = disturbed
      /\ \A v \in Visit : status'[v] \in {status[v], "CANCELED"}
  BY DEF OfficeCancels, OfficeClosesTask, VType, Rows
<1>2. \A v, s : \A d \in Caller :
          (FieldOn(d, v)' <=> FieldOn(d, v)) /\ (At(d, s)' <=> At(d, s))
  BY <1>1 DEF FieldOn, At
<1> QED
  BY <1>1, <1>2, TripFrame

LEMMA TripStep == VType /\ TripInv /\ [VisitsNext]_vvars => TripInv'
PROOF
<1> SUFFICES ASSUME VType, TripInv, [VisitsNext]_vvars PROVE TripInv'
  OBVIOUS
<1>1. ASSUME NEW c \in Caller, Starts(c)
      PROVE  TripInv'
  BY <1>1, EveryStart, TripStarts DEF Meant
<1>2. ASSUME NEW c \in Caller, Look(c) \/ Read(c)
      PROVE  TripInv'
  <2>1. /\ todo[c] # <<>> /\ Head(todo[c]) \in {"look", "read"} /\ (Done(c) \/ Stop(c))
        /\ UNCHANGED <<status, trip, disturbed>>
    BY <1>2 DEF Look, Read, At, vrows, ghosts
  <2>2. \A d \in Caller : call'[d].tool = call[d].tool /\ call'[d].visit = call[d].visit
    BY <1>2 DEF Look, Read, VType, Calls, Call
  <2> QED
    BY <2>1, <2>2, TripAside
<1>3. ASSUME NEW c \in Caller,
             Find(c) \/ Move(c) \/ Retype(c) \/ Tell(c) \/ Reassign(c) \/ Insert(c)
               \/ SendCard(c) \/ Stamp(c)
      PROVE  TripInv'
  <2>1. /\ todo[c] # <<>> /\ call' = call /\ (Done(c) \/ Stop(c))
        /\ Head(todo[c]) \notin {"check", "openSession", "write", "closeSession"}
        /\ UNCHANGED <<status, trip, disturbed>>
    BY <1>3 DEF Find, Move, Retype, Tell, Reassign, Insert, SendCard, Stamp, At, vrows, ghosts
  <2> QED
    BY <2>1, TripAside
<1>4. CASE UNCHANGED vvars
  <2>1. /\ call' = call /\ todo' = todo /\ trip' = trip /\ disturbed' = disturbed
        /\ status' = status
    BY <1>4 DEF vvars, vrows, ghosts
  <2>2. \A v, s : \A d \in Caller :
            (FieldOn(d, v)' <=> FieldOn(d, v)) /\ (At(d, s)' <=> At(d, s))
    BY <2>1 DEF FieldOn, At
  <2> QED
    BY <2>1, <2>2, TripFrame
<1> QED
  BY <1>1, <1>2, <1>3, <1>4, TripCheck, TripWrite, TripOpen, TripClose, TripFails,
     TripOffice DEF VisitsNext, Starts

LEMMA TripInit == VisitsInit => TripInv
BY DEF VisitsInit, Quiescent, TripInv, OneAtATime, OnlyTheEndIsLeft, FieldOn, NoCall

\* A trip to a visit that is finished or declined is over when nothing runs on
\* the visit, unless tools ran on it at once or one of them broke off: the
\* session is closed after the status is written, by a call of its own.
THEOREM TripsEnd == VisitsSpec => []TripEndsWithVisit
PROOF
<1>1. VisitsInit => VType /\ TripInv
  BY VTypeInit, TripInit
<1>2. VType /\ TripInv /\ [VisitsNext]_vvars => (VType /\ TripInv)'
  BY VTypeStep, TripStep
<1>3. VType /\ TripInv => TripEndsWithVisit
  BY DEF TripInv, OnlyTheEndIsLeft, TripEndsWithVisit, FieldOn, Busy
<1> QED
  BY <1>1, <1>2, <1>3, PTL DEF VisitsSpec

-----------------------------------------------------------------------------
(* Cards.                                                                  *)

CardOn(c, v) == todo[c] # <<>> /\ call[c].tool = "card" /\ call[c].visit = v

\* Unless v is crossed, who works on it is its owner, and so is whom a card of
\* it goes to; he has been sent it before it is stamped.
ByTheOwner(c, v) ==
    FieldOn(c, v) /\ ~At(c, "check") => call[c].by = owner[task[v]]

ToTheOwner(c, v) ==
    CardOn(c, v) /\ ~At(c, "read") =>
        /\ call[c].worker = owner[task[v]]
        /\ At(c, "stamp") => call[c].worker \in knows[v]

Told(v) == v \in stamped /\ status[v] \in Waiting => owner[task[v]] \in knows[v]

KnowInv ==
    \A v \in Scheduled \ crossed :
        Told(v) /\ \A c \in Caller : ByTheOwner(c, v) /\ ToTheOwner(c, v)

\* A step that leaves a visit to its owner.
LEMMA KnowFrame ==
    ASSUME KnowInv, Scheduled' \subseteq Scheduled, crossed \subseteq crossed',
           \A v \in Scheduled' \ crossed' :
               owner'[task'[v]] = owner[task[v]] /\ knows[v] \subseteq knows'[v],
           \A v \in Scheduled' \ crossed' : Told(v) => Told(v)',
           \A c \in Caller :
               \/ todo'[c] = todo[c] /\ call'[c] = call[c]
               \/ \A v \in Scheduled' \ crossed' :
                      /\ ByTheOwner(c, v) => ByTheOwner(c, v)'
                      /\ ToTheOwner(c, v) => ToTheOwner(c, v)'
    PROVE  KnowInv'
PROOF
<1> SUFFICES ASSUME NEW v \in Scheduled' \ crossed'
             PROVE  Told(v)' /\ \A c \in Caller : ByTheOwner(c, v)' /\ ToTheOwner(c, v)'
  BY DEF KnowInv
<1>1. Told(v) /\ \A c \in Caller : ByTheOwner(c, v) /\ ToTheOwner(c, v)
  BY DEF KnowInv
<1>2. ASSUME NEW c \in Caller PROVE ByTheOwner(c, v)' /\ ToTheOwner(c, v)'
  <2>1. CASE todo'[c] = todo[c] /\ call'[c] = call[c]
    BY <1>1, <2>1 DEF ByTheOwner, ToTheOwner, FieldOn, CardOn, At
  <2>2. CASE ~(todo'[c] = todo[c] /\ call'[c] = call[c])
    BY <1>1, <2>2
  <2> QED
    BY <2>1, <2>2
<1> QED
  BY <1>1, <1>2

\* A call that is neither a worker's tool nor a card.
LEMMA NoCard ==
    ASSUME Calls, NEW c \in Caller, todo[c] # <<>>,
           Head(todo[c]) \notin {"read", "send", "stamp"}
    PROVE  call[c].tool # "card"
PROOF
<1>1. Follows(call[c].tool, Head(todo[c]), Tail(todo[c]))
  BY ToolAt
<1> QED
  BY <1>1 DEF Follows, FieldTool, Ending

LEMMA OthersAlone ==
    ASSUME Calls, NEW c \in Caller, Done(c) \/ Stop(c)
    PROVE  \A d \in Caller \ {c} : todo'[d] = todo[d]
BY DEF Done, Stop, Calls

LEMMA KnowStarts ==
    ASSUME VType, KnowInv, NEW c \in Caller, NEW k, Start(c, k), Meant(k)
    PROVE  KnowInv'
PROOF
<1>1. /\ UNCHANGED <<owner, task, stamped, status, knows, crossed>>
      /\ \A d \in Caller \ {c} : todo'[d] = todo[d] /\ call'[d] = call[d]
      /\ todo'[c] = Steps[k.tool] /\ call'[c] = k
  BY DEF Start, vrows, ghosts, VType, Calls
<1>2. Steps["card"] # <<>> /\ Head(Steps["card"]) = "read"
  BY Tuples3 DEF Steps
<1>3. \A v : ByTheOwner(c, v)' /\ ToTheOwner(c, v)'
  BY <1>1, <1>2, FieldBegins DEF ByTheOwner, ToTheOwner, FieldOn, CardOn, At
<1> QED
  BY <1>1, <1>3, KnowFrame DEF Scheduled, Told

LEMMA KnowChecks ==
    ASSUME VType, KnowInv, NEW c \in Caller, Check(c) \/ Look(c) \/ Find(c) \/ Read(c)
    PROVE  KnowInv'
PROOF
<1>1. /\ UNCHANGED <<owner, task, stamped, status, knows, crossed>>
      /\ todo[c] # <<>> /\ (Done(c) \/ Stop(c))
  BY DEF Check, Look, Find, Read, At, vrows, ghosts
<1>2. \A d \in Caller \ {c} : todo'[d] = todo[d]
  BY <1>1, OthersAlone DEF VType
<1>3. \A d \in Caller \ {c} : call'[d] = call[d]
  BY DEF Check, Look, Find, Read, VType, Calls
<1>4. \A v : ByTheOwner(c, v)' /\ ToTheOwner(c, v)'
  <2>1. CASE Stop(c)
    <3>1. todo'[c] = <<>>
      BY <2>1 DEF Stop, VType, Calls
    <3> QED
      BY <3>1 DEF ByTheOwner, ToTheOwner, FieldOn, CardOn
  <2>2. CASE Check(c) /\ ~Stop(c)
    <3>1. Valid(call[c].visit, call[c].by) /\ call' = call
      BY <2>2 DEF Check
    <3>2. call[c].tool # "card"
      BY <1>1, <2>2, NoCard DEF Check, At, VType
    <3> QED
      BY <1>1, <3>1, <3>2 DEF Valid, ByTheOwner, ToTheOwner, FieldOn, CardOn
  <2>3. CASE (Look(c) \/ Find(c)) /\ ~Stop(c)
    <3>1. call[c].tool # "card" /\ call[c].tool \notin FieldTool
      BY <1>1, <2>3, NoCard, NoField DEF Look, Find, At, VType
    <3>2. call'[c].tool = call[c].tool
      BY <2>3 DEF Look, Find, VType, Calls, Call
    <3> QED
      BY <3>1, <3>2 DEF ByTheOwner, ToTheOwner, FieldOn, CardOn
  <2>4. CASE Read(c) /\ ~Stop(c)
    <3>1. /\ Done(c) /\ call' = [call EXCEPT ![c].worker = owner[task[call[c].visit]]]
          /\ Head(todo[c]) = "read"
      BY <2>4 DEF Read, At
    <3>2. call'[c].worker = owner[task[call[c].visit]] /\ call'[c].visit = call[c].visit
          /\ call'[c].tool = call[c].tool
      BY <3>1 DEF VType, Calls, Call
    <3>3. todo'[c] = Tail(todo[c])
      BY <3>1 DEF Done, VType, Calls
    <3>4. Follows(call[c].tool, "read", Tail(todo[c]))
      BY <1>1, <3>1, ToolAt DEF VType
    <3>5. call[c].tool \notin FieldTool
      BY <1>1, <3>1, NoField DEF VType
    <3>6. First(todo'[c], "send")
      BY <3>3, <3>4 DEF Follows
    <3> QED
      BY <1>1, <3>2, <3>5, <3>6 DEF First, ByTheOwner, ToTheOwner, FieldOn, CardOn, At
  <2> QED
    BY <2>1, <2>2, <2>3, <2>4
<1> QED
  BY <1>1, <1>2, <1>3, <1>4, KnowFrame DEF Scheduled, Told

\* A worker's tool goes on, or ends.
LEMMA GoesOnByTheOwner ==
    ASSUME Calls, NEW c \in Caller, todo[c] # <<>>, Done(c) \/ Stop(c), call' = call,
           UNCHANGED <<owner, task>>,
           Head(todo[c]) \in {"openSession", "write", "closeSession"}
    PROVE  \A v : (ByTheOwner(c, v) => ByTheOwner(c, v)') /\ ToTheOwner(c, v)'
PROOF
<1>1. call[c].tool # "card"
  BY NoCard
<1> QED
  BY <1>1 DEF ByTheOwner, ToTheOwner, FieldOn, CardOn, At

LEMMA KnowWrites ==
    ASSUME VType, KnowInv, NEW c \in Caller,
           WriteVisitStatus(c) \/ OpenSession(c) \/ CloseSession(c)
    PROVE  KnowInv'
PROOF
<1> DEFINE w == call[c].visit
<1>1. /\ UNCHANGED <<owner, task, stamped, crossed, call>>
      /\ todo[c] # <<>> /\ Done(c)
      /\ Head(todo[c]) \in {"openSession", "write", "closeSession"}
  BY DEF WriteVisitStatus, OpenSession, CloseSession, At, ghosts
<1>2. w \in Scheduled /\ w \in Visit /\ FieldOn(c, w) /\ ~At(c, "check")
  BY <1>1, HasAVisit, HasAWorker DEF VType, FieldOn, At
<1>3. \A d \in Caller \ {c} : todo'[d] = todo[d] /\ call'[d] = call[d]
  BY <1>1, OthersAlone DEF VType
<1>4. \A v : (ByTheOwner(c, v) => ByTheOwner(c, v)') /\ ToTheOwner(c, v)'
  BY <1>1, GoesOnByTheOwner DEF VType
<1>5. \A v \in Visit : knows[v] \subseteq knows'[v]
  BY DEF WriteVisitStatus, OpenSession, CloseSession, ghosts, VType, Ghosts
<1>6. \A v \in Scheduled \ crossed : Told(v)'
  <2> TAKE v \in Scheduled \ crossed
  <2>1. v \in Visit /\ Told(v) /\ ByTheOwner(c, v)
    BY DEF Scheduled, KnowInv
  <2>2. CASE WriteVisitStatus(c) /\ v = w
    <3>1. call[c].by = owner[task[v]]
      BY <1>2, <2>1, <2>2 DEF ByTheOwner
    <3>2. call[c].by \in knows'[v]
      BY <2>1, <2>2 DEF WriteVisitStatus, VType, Ghosts
    <3> QED
      BY <1>1, <3>1, <3>2 DEF Told
  <2>3. CASE ~(WriteVisitStatus(c) /\ v = w)
    <3>1. status'[v] = status[v]
      BY <2>1, <2>3 DEF WriteVisitStatus, OpenSession, CloseSession, VType, Rows
    <3> QED
      BY <1>1, <1>5, <2>1, <3>1 DEF Told
  <2> QED
    BY <2>2, <2>3
<1>7. Scheduled' = Scheduled /\ \A v \in Scheduled : v \in Visit
  BY <1>1 DEF Scheduled
<1> QED
  BY <1>1, <1>3, <1>4, <1>5, <1>6, <1>7, KnowFrame

LEMMA KnowCorrections ==
    ASSUME VType, KnowInv, NEW c \in Caller, Move(c) \/ Retype(c) \/ Tell(c)
    PROVE  KnowInv'
PROOF
<1>1. /\ UNCHANGED <<owner, task, status, crossed, call>>
      /\ stamped' \subseteq stamped
      /\ todo[c] # <<>> /\ Done(c)
      /\ Head(todo[c]) \in {"move", "retype", "tell"}
  BY DEF Move, Retype, Tell, At, vrows
<1>2. call[c].tool # "card" /\ call[c].tool \notin FieldTool
  BY <1>1, NoCard, NoField DEF VType
<1>3. \A d \in Caller \ {c} : todo'[d] = todo[d] /\ call'[d] = call[d]
  BY <1>1, OthersAlone DEF VType
<1>4. \A v : ByTheOwner(c, v)' /\ ToTheOwner(c, v)'
  BY <1>1, <1>2 DEF ByTheOwner, ToTheOwner, FieldOn, CardOn
<1>5. \A v \in Visit : knows[v] \subseteq knows'[v]
  BY DEF Move, Retype, Tell, ghosts, VType, Ghosts
<1>6. Scheduled' = Scheduled /\ \A v \in Scheduled : v \in Visit
  BY <1>1 DEF Scheduled
<1>7. \A v \in Scheduled : Told(v) => Told(v)'
  BY <1>1, <1>5, <1>6 DEF Told
<1> QED
  BY <1>1, <1>3, <1>4, <1>5, <1>6, <1>7, KnowFrame

LEMMA KnowCards ==
    ASSUME VType, KnowInv, NEW c \in Caller, SendCard(c) \/ Stamp(c)
    PROVE  KnowInv'
PROOF
<1> DEFINE w == call[c].visit
<1>1. /\ UNCHANGED <<owner, task, status, crossed, call>>
      /\ todo[c] # <<>> /\ Done(c)
      /\ Head(todo[c]) \in {"send", "stamp"}
  BY DEF SendCard, Stamp, At, vrows, ghosts
<1>2. w \in Scheduled /\ w \in Visit
  BY <1>1, HasAVisit DEF VType
<1>3. Follows(call[c].tool, Head(todo[c]), Tail(todo[c])) /\ call[c].tool \notin FieldTool
  BY <1>1, ToolAt, NoField DEF VType
<1>4. CardOn(c, w) /\ ~At(c, "read")
  BY <1>1, <1>3 DEF Follows, CardOn, At
<1>5. todo'[c] = Tail(todo[c]) /\ \A d \in Caller \ {c} : todo'[d] = todo[d] /\ call'[d] = call[d]
  BY <1>1 DEF Done, VType, Calls
<1>6. \A v \in Visit : knows[v] \subseteq knows'[v]
  BY DEF SendCard, Stamp, ghosts, VType, Ghosts
<1>7. Scheduled' = Scheduled /\ \A v \in Scheduled : v \in Visit
  BY <1>1 DEF Scheduled
<1>8. \A v : ByTheOwner(c, v)'
  BY <1>1, <1>3 DEF ByTheOwner, FieldOn
<1>9. \A v \in Scheduled \ crossed : (Told(v) => Told(v)') /\ ToTheOwner(c, v)'
  <2> TAKE v \in Scheduled \ crossed
  <2>1. ToTheOwner(c, v)
    BY DEF KnowInv
  <2>2. CASE SendCard(c)
    <3>1. At(c, "send") /\ stamped' = stamped
      BY <2>2 DEF SendCard, vrows
    <3>2. First(todo'[c], "stamp")
      BY <1>3, <1>5, <3>1 DEF Follows, At
    <3>3. v = w => call[c].worker \in knows'[v]
      BY <1>2, <2>2 DEF SendCard, VType, Ghosts
    <3>4. ToTheOwner(c, v)'
      BY <1>1, <1>4, <2>1, <3>2, <3>3 DEF ToTheOwner, CardOn, First, At
    <3> QED
      BY <1>1, <1>6, <1>7, <3>1, <3>4 DEF Told
  <2>3. CASE Stamp(c)
    <3>1. At(c, "stamp") /\ stamped' = stamped \cup {w} /\ knows' = knows
      BY <2>3 DEF Stamp, ghosts
    <3>2. todo'[c] = <<>>
      BY <1>3, <1>5, <3>1 DEF Follows, At
    <3>3. v = w => owner[task[v]] \in knows[v]
      BY <1>4, <2>1, <3>1 DEF ToTheOwner
    <3> QED
      BY <1>1, <3>1, <3>2, <3>3 DEF Told, ToTheOwner, CardOn
  <2> QED
    BY <2>2, <2>3
<1> QED
  BY <1>1, <1>5, <1>6, <1>7, <1>8, <1>9, KnowFrame

\* The new owner is due a card, or he is given the visit in the middle of a call.
LEMMA KnowReassign ==
    ASSUME VType, KnowInv, NEW c \in Caller, Reassign(c)
    PROVE  KnowInv'
PROOF
<1> DEFINE t == call[c].task
<1>1. /\ UNCHANGED <<task, status, knows, call>>
      /\ todo[c] # <<>> /\ Done(c) /\ Head(todo[c]) = "reassign"
      /\ owner' = [owner EXCEPT ![t] = call[c].worker]
      /\ stamped' = stamped \ {v \in Scheduled : task[v] = t /\ status[v] \in Waiting}
  BY DEF Reassign, At, StampsLeft
<1>2. Follows(call[c].tool, "reassign", Tail(todo[c])) /\ Sound(c)
  BY <1>1, ToolAt DEF VType, Calls
<1>3. call[c].visit = Unset /\ t \in Task
  BY <1>1, <1>2 DEF Sound, Follows
<1>4. \A d \in Caller \ {c} : todo'[d] = todo[d] /\ call'[d] = call[d]
  BY <1>1, OthersAlone DEF VType
<1>5. Scheduled' = Scheduled
  BY <1>1 DEF Scheduled
<1> SUFFICES ASSUME NEW v \in Scheduled \ crossed'
             PROVE  Told(v)' /\ \A d \in Caller : ByTheOwner(d, v)' /\ ToTheOwner(d, v)'
  BY <1>5 DEF KnowInv
<1>6. v \in Visit /\ v # Unset /\ v \notin crossed
  BY DEF Scheduled, Unset, Reassign
<1>7. Told(v) /\ \A d \in Caller : ByTheOwner(d, v) /\ ToTheOwner(d, v)
  BY <1>6 DEF KnowInv
<1>8. ~FieldOn(c, v)' /\ ~CardOn(c, v)'
  BY <1>1, <1>3, <1>6 DEF FieldOn, CardOn
<1>9. CASE task[v] = t
  <2>1. v \notin stamped' \/ status'[v] \notin Waiting
    BY <1>1, <1>9
  <2>2. owner[t] = call[c].worker \/ Busy(v) = {}
    BY <1>9 DEF Reassign
  <2>3. CASE owner[t] = call[c].worker
    <3>1. owner'[task[v]] = owner[task[v]]
      BY <1>1, <1>3, <1>9, <2>3 DEF VType, Rows
    <3>2. \A d \in Caller \ {c} : ByTheOwner(d, v)' /\ ToTheOwner(d, v)'
      BY <1>1, <1>4, <1>7, <3>1 DEF ByTheOwner, ToTheOwner, FieldOn, CardOn, At
    <3> QED
      BY <1>8, <2>1, <3>2 DEF Told, ByTheOwner, ToTheOwner
  <2>4. CASE Busy(v) = {}
    <3>1. \A d \in Caller \ {c} : ~FieldOn(d, v)' /\ ~CardOn(d, v)'
      BY <1>4, <2>4 DEF Busy, FieldOn, CardOn
    <3> QED
      BY <1>8, <2>1, <3>1 DEF Told, ByTheOwner, ToTheOwner
  <2> QED
    BY <2>2, <2>3, <2>4
<1>10. CASE task[v] # t
  <2>1. owner'[task[v]] = owner[task[v]]
    <3>1. task[v] \in Task
      BY <1>6 DEF Scheduled, VType, Rows
    <3> QED
      BY <1>1, <1>3, <1>10, <3>1 DEF VType, Rows
  <2>2. \A d \in Caller \ {c} : ByTheOwner(d, v)' /\ ToTheOwner(d, v)'
    BY <1>1, <1>4, <1>7, <2>1 DEF ByTheOwner, ToTheOwner, FieldOn, CardOn, At
  <2>3. Told(v)'
    BY <1>1, <1>7, <2>1 DEF Told
  <2> QED
    BY <1>8, <2>2, <2>3 DEF ByTheOwner, ToTheOwner
<1> QED
  BY <1>9, <1>10

\* A visit that is new has no stamp, and no call is about it.
LEMMA KnowInsert ==
    ASSUME VType, KnowInv, NEW c \in Caller, Insert(c)
    PROVE  KnowInv'
PROOF
<1>1. /\ UNCHANGED <<owner, status, stamped, crossed, knows, call>>
      /\ todo[c] # <<>> /\ Done(c) /\ Head(todo[c]) = "insert"
  BY DEF Insert, At
<1>2. PICK w \in Visit \ Scheduled : task' = [task EXCEPT ![w] = call[c].task]
  BY DEF Insert
<1>3. Follows(call[c].tool, "insert", Tail(todo[c])) /\ Sound(c)
  BY <1>1, ToolAt DEF VType, Calls
<1>4. call[c].visit = Unset
  BY <1>1, <1>3 DEF Sound, Follows
<1>5. \A d \in Caller \ {c} : todo'[d] = todo[d] /\ call'[d] = call[d]
  BY <1>1, OthersAlone DEF VType
<1> SUFFICES ASSUME NEW v \in Scheduled' \ crossed
             PROVE  Told(v)' /\ \A d \in Caller : ByTheOwner(d, v)' /\ ToTheOwner(d, v)'
  BY <1>1 DEF KnowInv
<1>6. v \in Visit /\ v # Unset
  BY DEF Scheduled, Unset
<1>7. ~FieldOn(c, v)' /\ ~CardOn(c, v)'
  BY <1>1, <1>4, <1>6 DEF FieldOn, CardOn
<1>8. CASE v = w
  <2>1. v \notin stamped'
    BY <1>1, <1>2, <1>8 DEF VType, Rows
  <2>2. \A d \in Caller : ~FieldOn(d, v) /\ ~CardOn(d, v)
    BY <1>2, <1>8 DEF VType, Calls, Sound, FieldOn, CardOn
  <2>3. \A d \in Caller \ {c} : ~FieldOn(d, v)' /\ ~CardOn(d, v)'
    BY <1>5, <2>2 DEF FieldOn, CardOn
  <2> QED
    BY <1>7, <2>1, <2>3 DEF Told, ByTheOwner, ToTheOwner
<1>9. CASE v # w
  <2>1. task'[v] = task[v] /\ v \in Scheduled
    BY <1>2, <1>6, <1>9 DEF Scheduled, VType, Rows
  <2>2. Told(v) /\ \A d \in Caller : ByTheOwner(d, v) /\ ToTheOwner(d, v)
    BY <2>1 DEF KnowInv
  <2>3. \A d \in Caller \ {c} : ByTheOwner(d, v)' /\ ToTheOwner(d, v)'
    BY <1>1, <1>5, <2>1, <2>2 DEF ByTheOwner, ToTheOwner, FieldOn, CardOn, At
  <2>4. Told(v)'
    BY <1>1, <2>1, <2>2 DEF Told
  <2> QED
    BY <1>7, <2>3, <2>4 DEF ByTheOwner, ToTheOwner
<1> QED
  BY <1>8, <1>9

LEMMA KnowMishaps ==
    ASSUME VType, KnowInv,
           \/ \E c \in Caller : Fails(c)
           \/ \E v \in Visit : OfficeCancels(v)
           \/ \E t \in Task : OfficeClosesTask(t)
           \/ UNCHANGED vvars
    PROVE  KnowInv'
PROOF
<1>1. /\ UNCHANGED <<owner, task, stamped, knows, crossed, call>>
      /\ \A v \in Visit : status'[v] \in {status[v], "CANCELED"}
  BY DEF Fails, OfficeCancels, OfficeClosesTask, vvars, vrows, ghosts, VType, Rows
<1>2. Scheduled' = Scheduled /\ \A v \in Scheduled : v \in Visit
  BY <1>1 DEF Scheduled
<1>3. \A v \in Scheduled : Told(v) => Told(v)'
  BY <1>1, <1>2 DEF Told, Waiting
<1>4. CASE \E c \in Caller : Fails(c)
  <2>1. PICK c \in Caller : Fails(c)
    BY <1>4
  <2>2. todo[c] # <<>> /\ (Stop(c) \/ (Done(c) /\ Head(todo[c]) = "openSession"))
    <3>1. todo[c] # <<>> /\ GivenUp(c)
      BY <2>1 DEF Fails
    <3> QED
      BY <3>1 DEF GivenUp
  <2>3. \A d \in Caller \ {c} : todo'[d] = todo[d] /\ call'[d] = call[d]
    BY <1>1, <2>2, OthersAlone DEF VType
  <2>4. CASE Stop(c)
    <3>1. todo'[c] = <<>>
      BY <2>4 DEF Stop, VType, Calls
    <3>2. \A v : ByTheOwner(c, v)' /\ ToTheOwner(c, v)'
      BY <3>1 DEF ByTheOwner, ToTheOwner, FieldOn, CardOn
    <3> QED
      BY <1>1, <1>2, <1>3, <2>3, <3>2, KnowFrame
  <2>5. CASE Done(c) /\ Head(todo[c]) = "openSession"
    <3>1. \A v : (ByTheOwner(c, v) => ByTheOwner(c, v)') /\ ToTheOwner(c, v)'
      BY <1>1, <2>2, <2>5, GoesOnByTheOwner DEF VType
    <3> QED
      BY <1>1, <1>2, <1>3, <2>3, <3>1, KnowFrame
  <2> QED
    BY <2>2, <2>4, <2>5
<1>5. CASE ~(\E c \in Caller : Fails(c))
  <2>1. todo' = todo
    BY <1>5 DEF OfficeCancels, OfficeClosesTask, vvars
  <2> QED
    BY <1>1, <1>2, <1>3, <2>1, KnowFrame
<1> QED
  BY <1>4, <1>5

LEMMA KnowStep == VType /\ KnowInv /\ [VisitsNext]_vvars => KnowInv'
PROOF
<1> SUFFICES ASSUME VType, KnowInv, [VisitsNext]_vvars PROVE KnowInv'
  OBVIOUS
<1>1. ASSUME NEW c \in Caller, Starts(c)
      PROVE  KnowInv'
  BY <1>1, EveryStart, KnowStarts
<1> QED
  BY <1>1, KnowChecks, KnowWrites, KnowCorrections, KnowCards, KnowReassign, KnowInsert,
     KnowMishaps DEF VisitsNext, Starts

LEMMA KnowInit == VisitsInit => KnowInv
BY DEF VisitsInit, Quiescent, KnowInv, Told, ByTheOwner, ToTheOwner, FieldOn, CardOn

\* The owner of a visit that waits and whose card is stamped was sent one or
\* acted on it, unless he was given it in the middle of a call: between the
\* moment the poll reads whom to send it to and its stamp, nothing holds the row.
THEOREM OwnersKnow == VisitsSpec => []OwnerKnows
PROOF
<1>1. VisitsInit => VType /\ KnowInv
  BY VTypeInit, KnowInit
<1>2. VType /\ KnowInv /\ [VisitsNext]_vvars => (VType /\ KnowInv)'
  BY VTypeStep, KnowStep
<1>3. VType /\ KnowInv => OwnerKnows
  BY DEF KnowInv, Told, OwnerKnows
<1> QED
  BY <1>1, <1>2, <1>3, PTL DEF VisitsSpec

-----------------------------------------------------------------------------
(* What is closed.                                                         *)

\* Calls that are past their check of what is closed by now, and are still to
\* write it.
OverdueOn(c) ==
    \/ At(c, "openSession") /\ status[call[c].visit] \in Closed
    \/ At(c, "write") /\ status[call[c].visit] \in Closed
    \/ At(c, "move") /\ status[call[c].visit] \in NotCorrected
    \/ At(c, "retype") /\ status[call[c].visit] \in NotCorrected
    \/ At(c, "insert") /\ call[c].task \notin open

Overdue == {c \in Caller : OverdueOn(c)}

LateInv == late + Cardinality(Overdue) <= excused

\* Finite sets of calls, when one leaves and others come.
LEMMA LeaveAndCome ==
    ASSUME NEW S \in SUBSET Caller, NEW T \in SUBSET Caller, NEW A \in SUBSET Caller, NEW c,
           T \subseteq (S \ {c}) \cup A
    PROVE  Cardinality(T) + (IF c \in S THEN 1 ELSE 0) <= Cardinality(S) + Cardinality(A)
PROOF
<1>1. /\ IsFiniteSet(S) /\ IsFiniteSet(T) /\ IsFiniteSet(A) /\ IsFiniteSet(S \ {c})
      /\ Cardinality(S) \in Nat /\ Cardinality(T) \in Nat /\ Cardinality(A) \in Nat
      /\ Cardinality(S \ {c}) \in Nat
  BY SizeInNat
<1>2. Cardinality(S \ {c}) = Cardinality(S) - (IF c \in S THEN 1 ELSE 0)
  BY <1>1, FS_RemoveElement
<1>3. IsFiniteSet((S \ {c}) \cup A)
      /\ Cardinality((S \ {c}) \cup A) <= Cardinality(S \ {c}) + Cardinality(A)
  <2>1. /\ IsFiniteSet((S \ {c}) \cup A)
        /\ Cardinality((S \ {c}) \cup A)
             = Cardinality(S \ {c}) + Cardinality(A) - Cardinality((S \ {c}) \cap A)
    BY <1>1, FS_Union
  <2>2. Cardinality((S \ {c}) \cap A) \in Nat
    BY SizeInNat
  <2> QED
    BY <1>1, <2>1, <2>2
<1>4. Cardinality(T) <= Cardinality((S \ {c}) \cup A)
  BY <1>3, FS_Subset
<1>5. Cardinality((S \ {c}) \cup A) \in Nat
  BY <1>3, FS_CardinalityType
<1> QED
  BY <1>1, <1>2, <1>3, <1>4, <1>5

\* A step by which no call becomes overdue.
LEMMA NoneOverdue ==
    ASSUME VType, VType', LateInv, UNCHANGED <<late, excused>>,
           \A c \in Caller : OverdueOn(c)' => OverdueOn(c)
    PROVE  LateInv'
PROOF
<1>1. Overdue' \subseteq Overdue /\ Overdue \in SUBSET Caller /\ Overdue' \in SUBSET Caller
  BY DEF Overdue
<1> DEFINE m == Cardinality(Overdue)
           n == Cardinality(Overdue')
<1>2. n <= m /\ m \in Nat /\ n \in Nat
  BY <1>1, SizeInNat, FS_Subset
<1>3. late + m <= excused /\ late \in Nat /\ excused \in Nat
  BY DEF LateInv, VType, Ghosts
<1>4. LateInv' <=> late' + n <= excused'
  BY DEF LateInv
<1> HIDE DEF m, n
<1> QED
  BY <1>2, <1>3, <1>4

\* The write of a call that is overdue, and what it or the office closes.
LEMMA SomeOverdue ==
    ASSUME VType, VType', LateInv, NEW A \in SUBSET Caller, NEW c,
           \A d \in Caller : OverdueOn(d)' => (OverdueOn(d) /\ d # c) \/ d \in A,
           late' = late + (IF c \in Overdue THEN 1 ELSE 0),
           excused' = excused + Cardinality(A)
    PROVE  LateInv'
PROOF
<1>1. /\ Overdue \in SUBSET Caller /\ Overdue' \in SUBSET Caller
      /\ Overdue' \subseteq (Overdue \ {c}) \cup A
  BY DEF Overdue
<1> DEFINE m == Cardinality(Overdue)
           n == Cardinality(Overdue')
           a == Cardinality(A)
<1>2. n + (IF c \in Overdue THEN 1 ELSE 0) <= m + a
  BY <1>1, LeaveAndCome
<1>3. m \in Nat /\ n \in Nat /\ a \in Nat
  BY <1>1, SizeInNat
<1>4. late + m <= excused /\ late \in Nat /\ excused \in Nat
  BY DEF LateInv, VType, Ghosts
<1>5. LateInv' <=> late' + n <= excused'
  BY DEF LateInv
<1> HIDE DEF m, n, a
<1> DEFINE l == IF c \in Overdue THEN 1 ELSE 0
<1>6. late' = late + l /\ excused' = excused + a /\ n + l <= m + a /\ l \in Nat
  BY <1>2 DEF a
<1> HIDE DEF l
<1> QED
  BY <1>3, <1>4, <1>5, <1>6

\* What a call is not overdue for.
LEMMA Idle ==
    ASSUME NEW c \in Caller,
           todo[c] = <<>> \/ Head(todo[c]) \notin {"openSession", "write", "move", "retype", "insert"}
    PROVE  ~OverdueOn(c)
BY DEF OverdueOn, At

LEMMA LateStarts ==
    ASSUME VType, VType', LateInv, NEW c \in Caller, NEW k, Start(c, k), Meant(k)
    PROVE  LateInv'
PROOF
<1>1. /\ UNCHANGED <<status, open, late, excused>>
      /\ todo'[c] = Steps[k.tool]
      /\ \A d \in Caller \ {c} : todo'[d] = todo[d] /\ call'[d] = call[d]
  BY DEF Start, vrows, ghosts, VType, Calls
<1>2. Head(todo'[c]) \notin {"openSession", "write", "move", "retype", "insert"}
  <2>1. k.tool \in {"confirm", "depart", "arrive", "finish", "decline", "problem", "missing",
                    "reschedule", "type", "reassign", "schedule", "card"}
    BY DEF Meant, Tool, Steps
  <2>2. Head(Steps[k.tool]) \in {"check", "look", "reassign", "find", "read"}
    BY <2>1, Tuples1, Tuples2, Tuples3 DEF Steps, DeclineSteps
  <2> QED
    BY <1>1, <2>2
<1>3. ~OverdueOn(c)'
  BY <1>2 DEF OverdueOn, At
<1>4. \A d \in Caller : OverdueOn(d)' => OverdueOn(d)
  BY <1>1, <1>3 DEF OverdueOn, At
<1> QED
  BY <1>1, <1>4, NoneOverdue

\* A check is passed only on what is not closed.
LEMMA LateChecks ==
    ASSUME VType, VType', LateInv, NEW c \in Caller, Check(c) \/ Look(c) \/ Find(c) \/ Read(c)
    PROVE  LateInv'
PROOF
<1>1. /\ UNCHANGED <<status, open, late, excused>>
      /\ todo[c] # <<>> /\ (Done(c) \/ Stop(c))
      /\ \A d \in Caller \ {c} : call'[d] = call[d]
  BY DEF Check, Look, Find, Read, At, vrows, ghosts, VType, Calls
<1>2. \A d \in Caller \ {c} : todo'[d] = todo[d]
  BY <1>1, OthersAlone DEF VType
<1>3. ~OverdueOn(c)'
  <2>1. CASE Stop(c)
    <3>1. todo'[c] = <<>>
      BY <2>1 DEF Stop, VType, Calls
    <3> QED
      BY <3>1 DEF OverdueOn, At
  <2>2. CASE Done(c)
    <3>1. todo'[c] = Tail(todo[c]) /\ Follows(call[c].tool, Head(todo[c]), Tail(todo[c]))
      BY <1>1, <2>2, ToolAt DEF Done, VType, Calls
    <3>2. call'[c].visit = call[c].visit /\ call'[c].task = call[c].task
      BY DEF Check, Look, Find, Read, VType, Calls, Call
    <3>3. CASE Stop(c)
      BY <2>1, <3>3
    <3>4. CASE Check(c) /\ ~Stop(c)
      <4>1. status[call[c].visit] \notin Closed /\ Head(todo[c]) = "check"
        BY <3>4 DEF Check, Valid, At
      <4>2. First(todo'[c], "openSession") \/ First(todo'[c], "write")
        BY <3>1, <4>1 DEF Follows
      <4> QED
        BY <1>1, <3>2, <4>1, <4>2 DEF OverdueOn, At, First
    <3>5. CASE Look(c) /\ ~Stop(c)
      <4>1. status[call[c].visit] \notin NotCorrected /\ Head(todo[c]) = "look"
        BY <3>5 DEF Look, At
      <4>2. First(todo'[c], "move") \/ First(todo'[c], "retype")
        BY <3>1, <4>1 DEF Follows
      <4> QED
        BY <1>1, <3>2, <4>1, <4>2 DEF OverdueOn, At, First
    <3>6. CASE Find(c) /\ ~Stop(c)
      <4>1. call[c].task \in open /\ Head(todo[c]) = "find"
        BY <3>6 DEF Find, At
      <4>2. First(todo'[c], "insert")
        BY <3>1, <4>1 DEF Follows
      <4> QED
        BY <1>1, <3>2, <4>1, <4>2 DEF OverdueOn, At, First
    <3>7. CASE Read(c)
      <4>1. First(todo'[c], "send")
        BY <3>1, <3>7 DEF Follows, Read, At
      <4> QED
        BY <4>1 DEF OverdueOn, At, First
    <3> QED
      BY <3>3, <3>4, <3>5, <3>6, <3>7
  <2> QED
    BY <1>1, <2>1, <2>2
<1>4. \A d \in Caller : OverdueOn(d)' => OverdueOn(d)
  BY <1>1, <1>2, <1>3 DEF OverdueOn, At
<1> QED
  BY <1>1, <1>4, NoneOverdue

\* Steps that write no status, time or type, and what fails.
LEMMA LateAside ==
    ASSUME VType, VType', LateInv, NEW c \in Caller,
           OpenSession(c) \/ CloseSession(c) \/ Tell(c) \/ Reassign(c) \/ SendCard(c)
             \/ Stamp(c) \/ Fails(c)
    PROVE  LateInv'
PROOF
<1>1. /\ UNCHANGED <<status, open, late, excused, call>>
      /\ todo[c] # <<>> /\ (Done(c) \/ Stop(c))
  BY DEF OpenSession, CloseSession, Tell, Reassign, SendCard, Stamp, Fails, GivenUp, At,
     vrows, ghosts
<1>2. \A d \in Caller \ {c} : todo'[d] = todo[d]
  BY <1>1, OthersAlone DEF VType
<1>3. OverdueOn(c)' => OverdueOn(c)
  <2>1. CASE Stop(c)
    <3>1. todo'[c] = <<>>
      BY <2>1 DEF Stop, VType, Calls
    <3> QED
      BY <3>1 DEF OverdueOn, At
  <2>2. CASE Done(c) /\ ~Stop(c)
    <3>1. todo'[c] = Tail(todo[c]) /\ Follows(call[c].tool, Head(todo[c]), Tail(todo[c]))
      BY <1>1, <2>2, ToolAt DEF Done, VType, Calls
    <3>2. Head(todo[c]) \in {"openSession", "closeSession", "tell", "reassign", "send", "stamp"}
      BY <2>2 DEF OpenSession, CloseSession, Tell, Reassign, SendCard, Stamp, Fails, GivenUp, At
    <3>3. CASE Head(todo[c]) = "openSession"
      <4>1. First(todo'[c], "write")
        BY <3>1, <3>3 DEF Follows
      <4> QED
        BY <1>1, <3>3, <4>1 DEF OverdueOn, At, First
    <3>4. CASE Head(todo[c]) # "openSession"
      <4>1. todo'[c] = <<>> \/ First(todo'[c], "stamp")
        BY <3>1, <3>2, <3>4 DEF Follows
      <4> QED
        BY <4>1 DEF OverdueOn, At, First
    <3> QED
      BY <3>3, <3>4
  <2> QED
    BY <1>1, <2>1, <2>2
<1>4. \A d \in Caller : OverdueOn(d)' => OverdueOn(d)
  BY <1>1, <1>2, <1>3 DEF OverdueOn, At
<1> QED
  BY <1>1, <1>4, NoneOverdue

\* A write is late if its call was overdue; what it closes makes the other calls
\* that are past their check overdue, and no more than those.
LEMMA LateWrite ==
    ASSUME VType, VType', LateInv, NEW c \in Caller, WriteVisitStatus(c)
    PROVE  LateInv'
PROOF
<1> DEFINE w == call[c].visit
           to == After[call[c].tool]
           A == IF to \in Closed THEN Checked(w) \ {c} ELSE {}
<1>1. /\ UNCHANGED <<open, call>> /\ todo[c] # <<>> /\ Done(c) /\ At(c, "write")
      /\ status' = [status EXCEPT ![w] = to]
      /\ late' = late + (IF status[w] \in Closed THEN 1 ELSE 0)
  BY DEF WriteVisitStatus, At
<1>2. todo'[c] = Tail(todo[c]) /\ \A d \in Caller \ {c} : todo'[d] = todo[d]
  BY <1>1 DEF Done, VType, Calls
<1>3. Follows(call[c].tool, "write", Tail(todo[c])) /\ w \in Visit
  BY <1>1, ToolAt, HasAVisit DEF VType, At
<1>4. todo'[c] = <<>> \/ First(todo'[c], "closeSession")
  BY <1>2, <1>3 DEF Follows
<1>5. ~OverdueOn(c)'
  BY <1>4 DEF OverdueOn, At, First
<1>6. c \in Overdue <=> status[w] \in Closed
  BY <1>1 DEF Overdue, OverdueOn, At
<1>7. A \in SUBSET Caller /\ Cardinality(A) = (IF to \in Closed THEN Cardinality(A) ELSE 0)
  BY CheckedIsFinite, FS_EmptySet
<1>8. excused' = excused + Cardinality(A)
  <2>1. CASE to \in Closed
    BY <2>1 DEF WriteVisitStatus
  <2>2. CASE to \notin Closed
    BY <2>2, <1>7 DEF WriteVisitStatus
  <2> QED
    BY <2>1, <2>2
<1>9. \A d \in Caller : OverdueOn(d)' => (OverdueOn(d) /\ d # c) \/ d \in A
  <2> SUFFICES ASSUME NEW d \in Caller \ {c}, OverdueOn(d)', ~OverdueOn(d)
               PROVE  d \in A
    BY <1>5
  <2>1. /\ todo[d] # <<>> /\ Head(todo[d]) \in {"openSession", "write", "move", "retype"}
        /\ status'[call[d].visit] \in Closed /\ status'[call[d].visit] # status[call[d].visit]
    BY <1>1, <1>2 DEF OverdueOn, At, Closed, NotCorrected
  <2>2. call[d].visit = w
    BY <1>1, <2>1, HasAVisit DEF VType, Rows
  <2>3. to \in Closed
    BY <1>1, <1>3, <2>1, <2>2 DEF VType, Rows
  <2>4. d \in Checked(w)
    BY <2>1, <2>2 DEF Checked, Busy
  <2> QED
    BY <2>3, <2>4
<1>10. late' = late + (IF c \in Overdue THEN 1 ELSE 0)
  BY <1>1, <1>6
<1> HIDE DEF A
<1> QED
  BY <1>7, <1>8, <1>9, <1>10, SomeOverdue

LEMMA LateCorrections ==
    ASSUME VType, VType', LateInv, NEW c \in Caller, Move(c) \/ Retype(c) \/ Insert(c)
    PROVE  LateInv'
PROOF
<1>1. /\ UNCHANGED <<open, call, status, excused>> /\ todo[c] # <<>> /\ Done(c)
      /\ Head(todo[c]) \in {"move", "retype", "insert"}
  BY DEF Move, Retype, Insert, At, vrows
<1>2. todo'[c] = Tail(todo[c]) /\ \A d \in Caller \ {c} : todo'[d] = todo[d]
  BY <1>1 DEF Done, VType, Calls
<1>3. Follows(call[c].tool, Head(todo[c]), Tail(todo[c]))
  BY <1>1, ToolAt DEF VType
<1>4. todo'[c] = <<>> \/ First(todo'[c], "tell")
  BY <1>1, <1>2, <1>3 DEF Follows
<1>5. ~OverdueOn(c)'
  BY <1>4 DEF OverdueOn, At, First
<1>6. late' = late + (IF c \in Overdue THEN 1 ELSE 0)
  <2>1. CASE Move(c) \/ Retype(c)
    <3>1. /\ late' = late + (IF status[call[c].visit] \in NotCorrected THEN 1 ELSE 0)
          /\ At(c, "move") \/ At(c, "retype")
      BY <2>1 DEF Move, Retype, Late
    <3>2. c \in Overdue <=> status[call[c].visit] \in NotCorrected
      BY <3>1 DEF Overdue, OverdueOn, At
    <3> QED
      BY <3>1, <3>2
  <2>2. CASE Insert(c)
    <3>1. late' = late + (IF call[c].task \notin open THEN 1 ELSE 0) /\ At(c, "insert")
      BY <2>2 DEF Insert
    <3>2. c \in Overdue <=> call[c].task \notin open
      BY <3>1 DEF Overdue, OverdueOn, At
    <3> QED
      BY <3>1, <3>2
  <2> QED
    BY <2>1, <2>2
<1>7. \A d \in Caller : OverdueOn(d)' => (OverdueOn(d) /\ d # c) \/ d \in {}
  BY <1>1, <1>2, <1>5 DEF OverdueOn, At
<1>8. excused' = excused + Cardinality({})
  BY <1>1, FS_EmptySet DEF VType, Ghosts
<1>9. {} \in SUBSET Caller
  OBVIOUS
<1> QED
  BY <1>6, <1>7, <1>8, <1>9, SomeOverdue

LEMMA LateOffice ==
    ASSUME VType, VType', LateInv,
           \/ \E v \in Visit : OfficeCancels(v)
           \/ \E t \in Task : OfficeClosesTask(t)
    PROVE  LateInv'
PROOF
<1>2. CASE \E v \in Visit : OfficeCancels(v)
  <2>1. PICK v \in Visit : OfficeCancels(v)
    BY <1>2
  <2>2. /\ UNCHANGED <<open, call, todo, late>>
        /\ \A u \in Visit : u # v => status'[u] = status[u]
        /\ excused' = excused + Cardinality(Checked(v))
    BY <2>1 DEF OfficeCancels, VType, Rows
  <2>3. Checked(v) \in SUBSET Caller
    BY CheckedIsFinite
  <2>4. \A d \in Caller : OverdueOn(d)' => OverdueOn(d) \/ d \in Checked(v)
    <3> SUFFICES ASSUME NEW d \in Caller, OverdueOn(d)', ~OverdueOn(d)
                 PROVE  d \in Checked(v)
      OBVIOUS
    <3>1. /\ todo[d] # <<>> /\ Head(todo[d]) \in {"openSession", "write", "move", "retype"}
          /\ status'[call[d].visit] # status[call[d].visit]
      BY <2>2 DEF OverdueOn, At
    <3>2. call[d].visit = v
      BY <2>2, <3>1, HasAVisit DEF VType
    <3> QED
      BY <3>1, <3>2 DEF Checked, Busy
  <2>5. PICK x : x \notin Caller
    BY NoSetContainsEverything
  <2>6. \A d \in Caller : OverdueOn(d)' => (OverdueOn(d) /\ d # x) \/ d \in Checked(v)
    BY <2>4, <2>5
  <2>7. late' = late + (IF x \in Overdue THEN 1 ELSE 0)
    BY <2>2, <2>5 DEF Overdue, VType, Ghosts
  <2> QED
    BY <2>2, <2>3, <2>6, <2>7, SomeOverdue
<1>3. CASE \E t \in Task : OfficeClosesTask(t)
  <2>1. PICK t \in Task : OfficeClosesTask(t)
    BY <1>3
  <2> DEFINE A == {c \in Caller : At(c, "insert") /\ call[c].task = t}
  <2>2. /\ UNCHANGED <<status, call, todo, late>>
        /\ open' = open \ {t}
        /\ excused' = excused + Cardinality(A)
    BY <2>1 DEF OfficeClosesTask
  <2>3. A \in SUBSET Caller
    OBVIOUS
  <2>4. \A d \in Caller : OverdueOn(d)' => OverdueOn(d) \/ d \in A
    BY <2>2 DEF OverdueOn, At
  <2>5. PICK x : x \notin Caller
    BY NoSetContainsEverything
  <2>6. \A d \in Caller : OverdueOn(d)' => (OverdueOn(d) /\ d # x) \/ d \in A
    BY <2>4, <2>5
  <2>7. late' = late + (IF x \in Overdue THEN 1 ELSE 0)
    BY <2>2, <2>5 DEF Overdue, VType, Ghosts
  <2> HIDE DEF A
  <2> QED
    BY <2>2, <2>3, <2>6, <2>7, SomeOverdue
<1> QED
  BY <1>2, <1>3

LEMMA LateStep == VType /\ LateInv /\ [VisitsNext]_vvars => LateInv'
PROOF
<1> SUFFICES ASSUME VType, LateInv, [VisitsNext]_vvars PROVE LateInv'
  OBVIOUS
<1>0. VType'
  BY VTypeStep
<1>1. ASSUME NEW c \in Caller, Starts(c)
      PROVE  LateInv'
  BY <1>0, <1>1, EveryStart, LateStarts
<1>2. CASE UNCHANGED vvars
  <2>1. UNCHANGED <<status, open, call, todo, late, excused>>
    BY <1>2 DEF vvars, vrows, ghosts
  <2>2. \A c \in Caller : OverdueOn(c)' => OverdueOn(c)
    BY <2>1 DEF OverdueOn, At
  <2> QED
    BY <1>0, <2>1, <2>2, NoneOverdue
<1> QED
  BY <1>0, <1>1, <1>2, LateChecks, LateAside, LateWrite, LateCorrections, LateOffice
     DEF VisitsNext, Starts

LEMMA LateInit == VisitsInit => LateInv
PROOF
<1> SUFFICES ASSUME VisitsInit PROVE LateInv
  OBVIOUS
<1>1. \A c \in Caller : todo[c] = <<>>
  BY DEF VisitsInit, Quiescent
<1>2. Overdue = {}
  BY <1>1, Idle DEF Overdue
<1>3. Cardinality(Overdue) = 0
  BY <1>2, FS_EmptySet
<1> QED
  BY <1>3 DEF LateInv, VisitsInit, Quiescent

\* A closed visit or task is written only by a call that had passed its check of
\* it when it was closed, once each: the services do not look at the status again.
THEOREM ClosedStaysClosed == VisitsSpec => []ClosedIsLeftAlone
PROOF
<1>1. VisitsInit => VType /\ LateInv
  BY VTypeInit, LateInit
<1>2. VType /\ LateInv /\ [VisitsNext]_vvars => (VType /\ LateInv)'
  BY VTypeStep, LateStep
<1>3. VType /\ LateInv => ClosedIsLeftAlone
  <2> SUFFICES ASSUME VType, LateInv PROVE ClosedIsLeftAlone
    OBVIOUS
  <2>1. Cardinality(Overdue) \in Nat
    BY SizeInNat DEF Overdue
  <2>2. late + Cardinality(Overdue) <= excused /\ late \in Nat /\ excused \in Nat
    BY DEF LateInv, VType, Ghosts
  <2> QED
    BY <2>1, <2>2 DEF ClosedIsLeftAlone
<1> QED
  BY <1>1, <1>2, <1>3, PTL DEF VisitsSpec

-----------------------------------------------------------------------------
(* The type invariant.                                                     *)

LEMMA RestIsLeft ==
    ASSUME NEW t, NEW s, Rest(t, s)
    PROVE  Left(t, s)
PROOF
<1>1. CASE t \in {"confirm", "arrive", "problem", "missing"}
  <2>1. t \in Tool /\ Steps[t] = <<"check", "write">>
    BY <1>1 DEF Steps, Tool
  <2>2. Tail(Steps[t]) = <<"write">> /\ Len(Steps[t]) = 2
    BY <2>1
  <2> QED
    BY <1>1, <2>1, <2>2 DEF Rest, Left, Ending
<1>2. CASE t = "depart"
  <2>1. t \in Tool /\ Steps[t] = <<"check", "openSession", "write">>
    BY <1>2 DEF Steps, Tool
  <2>2. /\ Tail(Steps[t]) = <<"openSession", "write">> /\ Len(Steps[t]) = 3
        /\ Tail(Tail(Steps[t])) = <<"write">>
    BY <2>1, Tuples2, Tuples3
  <2> QED
    BY <1>2, <2>1, <2>2 DEF Rest, Left, Ending
<1>3. CASE t \in Ending
  <2>1. t \in Tool /\ Steps[t] = <<"check", "write", "closeSession">>
    BY <1>3 DEF Steps, Tool, DeclineSteps, Ending
  <2>2. /\ Tail(Steps[t]) = <<"write", "closeSession">> /\ Len(Steps[t]) = 3
        /\ Tail(Tail(Steps[t])) = <<"closeSession">>
    BY <2>1, Tuples2, Tuples3
  <2> QED
    BY <1>3, <2>1, <2>2 DEF Rest, Left, Ending
<1>4. CASE t = "reschedule"
  <2>1. t \in Tool /\ Steps[t] = <<"look", "move", "tell">>
    BY <1>4 DEF Steps, Tool
  <2>2. /\ Tail(Steps[t]) = <<"move", "tell">> /\ Len(Steps[t]) = 3
        /\ Tail(Tail(Steps[t])) = <<"tell">>
    BY <2>1, Tuples2, Tuples3
  <2> QED
    BY <1>4, <2>1, <2>2 DEF Rest, Left, Ending
<1>5. CASE t = "type"
  <2>1. t \in Tool /\ Steps[t] = <<"look", "retype">>
    BY <1>5 DEF Steps, Tool
  <2>2. Tail(Steps[t]) = <<"retype">> /\ Len(Steps[t]) = 2
    BY <2>1
  <2> QED
    BY <1>5, <2>1, <2>2 DEF Rest, Left, Ending
<1>6. CASE t = "reassign"
  <2>1. t \in Tool /\ Steps[t] = <<"reassign">>
    BY <1>6 DEF Steps, Tool
  <2> QED
    BY <1>6, <2>1 DEF Rest, Left, Ending
<1>7. CASE t = "schedule"
  <2>1. t \in Tool /\ Steps[t] = <<"find", "insert">>
    BY <1>7 DEF Steps, Tool
  <2>2. Tail(Steps[t]) = <<"insert">> /\ Len(Steps[t]) = 2
    BY <2>1
  <2> QED
    BY <1>7, <2>1, <2>2 DEF Rest, Left, Ending
<1>8. CASE t = "card"
  <2>1. t \in Tool /\ Steps[t] = <<"read", "send", "stamp">>
    BY <1>8 DEF Steps, Tool
  <2>2. /\ Tail(Steps[t]) = <<"send", "stamp">> /\ Len(Steps[t]) = 3
        /\ Tail(Tail(Steps[t])) = <<"stamp">>
    BY <2>1, Tuples2, Tuples3
  <2> QED
    BY <1>8, <2>1, <2>2 DEF Rest, Left, Ending
<1>9. CASE s = <<>>
  BY <1>9 DEF Left
<1> QED
  BY <1>1, <1>2, <1>3, <1>4, <1>5, <1>6, <1>7, <1>8, <1>9 DEF Rest

\* The rows of visits and tasks keep their types, a stamp is on a visit that is
\* scheduled, and every call is at a step of its tool.
THEOREM VisitsTypeCorrect == VisitsSpec => []VisitsTypeOK
PROOF
<1>1. VisitsInit => VType
  BY VTypeInit
<1>2. VType /\ [VisitsNext]_vvars => VType'
  BY VTypeStep
<1>3. VType => VisitsTypeOK
  <2> SUFFICES ASSUME VType PROVE VisitsTypeOK
    OBVIOUS
  <2>1. \A c \in Caller : Left(call[c].tool, todo[c])
    BY RestIsLeft DEF VType, Calls
  <2>2. \A c \in Caller :
            todo[c] # <<>> /\ Head(todo[c]) \in {"move", "tell", "send", "stamp"}
                => call[c].worker # Unset
    BY DEF VType, Calls, Sound, Unset
  <2> QED
    BY <2>1, <2>2 DEF VType, Rows, Ghosts, Calls, VisitsTypeOK
<1> QED
  BY <1>1, <1>2, <1>3, PTL DEF VisitsSpec
=============================================================================
