----------------------------- MODULE PendingAction -----------------------------
(***************************************************************************)
(* Writes are confirmed before they happen: the routes of routes/tasks.ts  *)
(* put a row into "WhatsappPendingAction" (services/pendingActions.ts),    *)
(* the requester confirms or cancels it, a manager approves or rejects a   *)
(* due date change, and the scheduler expires what nobody answered.        *)
(*                                                                         *)
(* The routes run concurrently and await the database between their steps: *)
(* each request occupies a slot and takes one step per query.  A query can *)
(* fail and the process can crash; either way the request is gone and what *)
(* it had committed stays.                                                 *)
(***************************************************************************)
EXTENDS Naturals, FiniteSets

CONSTANTS
    User,         \* users of the bot
    Elevated,     \* those of them who are MANAGER or ADMIN
    Action,       \* ids of rows
    ActionType,   \* the action types the routes create
    Slot,         \* slots for concurrently served requests
    None,         \* no user, no row
    MaxFailures   \* bound: requests that die on the way

\* getFieldEditPermission as it stands forbids dueDate to everybody, so that
\* EDIT_DUEDATE rows are those of the policy tasks.ts is written for.
ASSUME PendingActionAssumption ==
    /\ Elevated \subseteq User
    /\ ActionType \subseteq {"CREATE_TASK", "EDIT_FIELD", "EDIT_DUEDATE"}
    /\ None \notin User
    /\ None \notin Action
    /\ MaxFailures \in Nat

VARIABLES
    state,      \* state[a]: the state of row a, "none" before it exists
    requester,  \* requester[a]: its requesterUserId
    kind,       \* kind[a]: its actionType
    approver,   \* approver[a]: its approverUserId
    applied,    \* applied[a]: how often the write of a reached "Task"
    pc,         \* pc[s]: where request s is
    caller,     \* caller[s]: the user who sent it
    row,        \* row[s]: the row it has read and checked
    snapshot,   \* snapshot[s]: rows the transaction of s is cancelling
    failures

rows   == <<state, requester, kind, approver>>
slots  == <<pc, caller, row, snapshot>>
vars   == <<state, requester, kind, approver, applied, pc, caller, row, snapshot,
            failures>>

Awaiting == "PENDING_EMPLOYEE_CONFIRM"
Asked    == "PENDING_MANAGER_APPROVAL"
Pending  == {Awaiting, Asked}
Terminal == {"EXECUTED", "REJECTED", "EXPIRED", "CANCELLED"}
Pc == {"idle", "creating", "cancelling", "writing", "marking", "escalating",
       "selfApproving", "approving", "rejecting", "updating"}

Init ==
    /\ state = [a \in Action |-> "none"]
    /\ requester = [a \in Action |-> None]
    /\ kind = [a \in Action |-> "none"]
    /\ approver = [a \in Action |-> None]
    /\ applied = [a \in Action |-> 0]
    /\ pc = [s \in Slot |-> "idle"]
    /\ caller = [s \in Slot |-> None]
    /\ row = [s \in Slot |-> None]
    /\ snapshot = [s \in Slot |-> {}]
    /\ failures = 0

\* Request s of user u has read row a and goes on at p.
Enter(s, u, a, p) ==
    /\ pc[s] = "idle"
    /\ pc' = [pc EXCEPT ![s] = p]
    /\ caller' = [caller EXCEPT ![s] = u]
    /\ row' = [row EXCEPT ![s] = a]

Goto(s, p) ==
    /\ pc' = [pc EXCEPT ![s] = p]
    /\ UNCHANGED <<caller, row, snapshot>>

\* The request is answered, with whatever status code.
Return(s) ==
    /\ pc' = [pc EXCEPT ![s] = "idle"]
    /\ caller' = [caller EXCEPT ![s] = None]
    /\ row' = [row EXCEPT ![s] = None]
    /\ snapshot' = [snapshot EXCEPT ![s] = {}]

-----------------------------------------------------------------------------
(* POST /tasks and PATCH /tasks/:id/field: createPendingAction.            *)

AwaitingOf(u) == {a \in Action : requester[a] = u /\ state[a] = Awaiting}

\* BEGIN and the UPDATE, which sees the rows committed by now.
BeginCreate(s, u) ==
    /\ Enter(s, u, None, "creating")
    /\ snapshot' = [snapshot EXCEPT ![s] = AwaitingOf(u)]
    /\ UNCHANGED <<rows, applied, failures>>

\* INSERT and COMMIT.  Under READ COMMITTED a row of the snapshot that has
\* left the state meanwhile is not touched, a row inserted meanwhile neither.
CommitCreate(s) ==
    /\ pc[s] = "creating"
    /\ \E a \in Action, k \in ActionType :
        /\ state[a] = "none"
        /\ state' = [b \in Action |->
                        IF b = a THEN Awaiting
                        ELSE IF b \in snapshot[s] /\ state[b] = Awaiting
                        THEN "CANCELLED" ELSE state[b]]
        /\ requester' = [requester EXCEPT ![a] = caller[s]]
        /\ kind' = [kind EXCEPT ![a] = k]
    /\ Return(s)
    /\ UNCHANGED <<approver, applied, failures>>

-----------------------------------------------------------------------------
(* transitionState: one UPDATE that succeeds only from the state expected. *)
(* It either goes on at p or, when it has come too late, ends the request. *)

\* Mutant: fromState is not passed on, the UPDATE always succeeds.
TransitionFromAny(s, from, to, by, p) ==
    LET a == row[s]
    IN  /\ state' = [state EXCEPT ![a] = to]
        /\ approver' = [approver EXCEPT ![a] = IF by = None THEN @ ELSE by]
        /\ IF p = "idle" THEN Return(s) ELSE Goto(s, p)
        /\ UNCHANGED <<requester, kind, applied, failures>>

Transition(s, from, to, by, p) ==
    LET a == row[s]
    IN  /\ \/ /\ state[a] = from
              /\ state' = [state EXCEPT ![a] = to]
              /\ approver' = [approver EXCEPT ![a] = IF by = None THEN @ ELSE by]
              /\ IF p = "idle" THEN Return(s) ELSE Goto(s, p)
           \/ /\ state[a] # from
              /\ Return(s)
              /\ UNCHANGED <<state, approver>>
        /\ UNCHANGED <<requester, kind, applied, failures>>

-----------------------------------------------------------------------------
(* POST /tasks/confirm                                                     *)

\* Only the requester, and only while the row awaits confirmation.
MayConfirm(u, a) == requester[a] = u /\ state[a] = Awaiting

\* Mutant: the role of the caller is not looked at.
ConfirmPcAnyRole(u, a) ==
    IF kind[a] # "EDIT_DUEDATE" THEN "writing" ELSE "selfApproving"

\* Where CONFIRM leads: a due date goes to a manager unless the caller is
\* one, every other write is made at once.
ConfirmPc(u, a) ==
    IF kind[a] # "EDIT_DUEDATE" THEN "writing"
    ELSE IF u \in Elevated THEN "selfApproving" ELSE "escalating"

StartConfirm(s, u) ==
    \E a \in Action :
        /\ MayConfirm(u, a)
        /\ Enter(s, u, a, ConfirmPc(u, a))
        /\ UNCHANGED <<rows, applied, snapshot, failures>>

StartCancel(s, u) ==
    \E a \in Action :
        /\ MayConfirm(u, a)
        /\ Enter(s, u, a, "cancelling")
        /\ UNCHANGED <<rows, applied, snapshot, failures>>

Cancel(s) ==
    pc[s] = "cancelling" /\ Transition(s, Awaiting, "CANCELLED", None, "idle")

\* Mutant: the row is not marked after the write.
WriteUnmarked(s) ==
    /\ pc[s] = "writing"
    /\ applied' = [applied EXCEPT ![row[s]] = @ + 1]
    /\ Return(s)
    /\ UNCHANGED <<rows, failures>>

\* createTask, updateTaskField or updateAdminField ...
Write(s) ==
    /\ pc[s] = "writing"
    /\ applied' = [applied EXCEPT ![row[s]] = @ + 1]
    /\ Goto(s, "marking")
    /\ UNCHANGED <<rows, failures>>

\* ... or an FKError, answered with 400: the row goes on waiting.
WriteRefused(s) ==
    /\ pc[s] = "writing"
    /\ Return(s)
    /\ UNCHANGED <<rows, applied, failures>>

MarkExecuted(s) ==
    pc[s] = "marking" /\ Transition(s, Awaiting, "EXECUTED", None, "idle")

SelfApprove(s) ==
    /\ pc[s] = "selfApproving"
    /\ Transition(s, Awaiting, "EXECUTED", caller[s], "updating")

Escalate(s) ==
    pc[s] = "escalating" /\ Transition(s, Awaiting, Asked, None, "idle")

-----------------------------------------------------------------------------
(* POST /tasks/approve                                                     *)

\* Mutant: everybody may approve.
StartApprovalAnyRole(s, u) ==
    \E a \in Action, p \in {"approving", "rejecting"} :
        /\ state[a] = Asked
        /\ Enter(s, u, a, p)
        /\ UNCHANGED <<rows, applied, snapshot, failures>>

StartApproval(s, u) ==
    \E a \in Action, p \in {"approving", "rejecting"} :
        /\ u \in Elevated
        /\ state[a] = Asked
        /\ Enter(s, u, a, p)
        /\ UNCHANGED <<rows, applied, snapshot, failures>>

Approve(s) ==
    /\ pc[s] = "approving"
    /\ Transition(s, Asked, "EXECUTED", caller[s], "updating")

Reject(s) ==
    /\ pc[s] = "rejecting"
    /\ Transition(s, Asked, "REJECTED", caller[s], "idle")

\* updateDueDate, of the approve and of the confirm route.
UpdateDueDate(s) ==
    /\ pc[s] = "updating"
    /\ applied' = [applied EXCEPT ![row[s]] = @ + 1]
    /\ Return(s)
    /\ UNCHANGED <<rows, failures>>

-----------------------------------------------------------------------------
(* Expiry and failures.                                                    *)

\* Mutant: a request that waits for a manager does not expire.
ExpireConfirmationsOnly(stale) ==
    /\ \A a \in stale : state[a] = Awaiting
    /\ state' = [a \in Action |-> IF a \in stale THEN "EXPIRED" ELSE state[a]]
    /\ UNCHANGED <<requester, kind, approver, applied, slots, failures>>

\* expireStaleActions is one UPDATE.  It resolves the pending rows past their
\* expiresAt and may SKIP what a transaction LOCKED; which rows that leaves is
\* open here.  No other step looks at expiresAt: an overdue row can still be
\* confirmed or approved.
ExpireStaleActions(stale) ==
    /\ \A a \in stale : state[a] \in Pending
    /\ state' = [a \in Action |-> IF a \in stale THEN "EXPIRED" ELSE state[a]]
    /\ UNCHANGED <<requester, kind, approver, applied, slots, failures>>

\* The next query of s throws, or the process crashes (then every s fails).
Fail(s) ==
    /\ pc[s] # "idle"
    /\ failures < MaxFailures
    /\ failures' = failures + 1
    /\ Return(s)
    /\ UNCHANGED <<rows, applied>>

-----------------------------------------------------------------------------
Receive(s, u) ==
    BeginCreate(s, u) \/ StartConfirm(s, u) \/ StartCancel(s, u)
        \/ StartApproval(s, u)

Step(s) ==
    \/ CommitCreate(s) \/ Cancel(s)
    \/ Write(s) \/ WriteRefused(s) \/ MarkExecuted(s)
    \/ SelfApprove(s) \/ Escalate(s)
    \/ Approve(s) \/ Reject(s) \/ UpdateDueDate(s)

Next ==
    \/ \E s \in Slot, u \in User : Receive(s, u)
    \/ \E s \in Slot : Step(s) \/ Fail(s)
    \/ \E stale \in SUBSET Action : ExpireStaleActions(stale)

Spec == Init /\ [][Next]_vars

\* A request that was received is served; a row that stays pending passes its
\* expiresAt and the scheduler, which runs every five minutes, comes to it.
\* Nobody has to ask, confirm or approve.
FairSpec ==
    /\ Spec
    /\ \A s \in Slot : WF_vars(Step(s))
    /\ \A a \in Action :
           WF_vars(\E stale \in SUBSET Action :
                       a \in stale /\ ExpireStaleActions(stale))

-----------------------------------------------------------------------------
(* Properties                                                              *)

\* Every variable has the type its declaration says.
TypeOK ==
    /\ state \in [Action -> {"none"} \cup Pending \cup Terminal]
    /\ requester \in [Action -> User \cup {None}]
    /\ kind \in [Action -> {"none"} \cup ActionType]
    /\ approver \in [Action -> User \cup {None}]
    /\ applied \in [Action -> Nat]
    /\ pc \in [Slot -> Pc]
    /\ caller \in [Slot -> User \cup {None}]
    /\ row \in [Slot -> Action \cup {None}]
    /\ snapshot \in [Slot -> SUBSET Action]
    /\ failures \in Nat

DueDates == {a \in Action : kind[a] = "EDIT_DUEDATE"}

\* Whatever confirms, approvals, cancellations and expiries race for a due
\* date request: its date is written at most once, and only if the request
\* ended as EXECUTED.
DueDateWrittenOnce ==
    \A a \in DueDates :
        applied[a] > 0 => applied[a] = 1 /\ state[a] = "EXECUTED"

\* README "Change dueDate -> two-person manager-approval flow": the row of a
\* written due date names a manager or an admin as its approver, somebody
\* other than the requester unless the requester is one himself.
TwoPersonApproval ==
    \A a \in DueDates : applied[a] > 0 =>
        /\ approver[a] \in Elevated
        /\ requester[a] \in Elevated \/ approver[a] # requester[a]

\* A confirmation that wrote the task never leaves the row open to be
\* confirmed again, unless it dies.
WrittenIsNotConfirmable ==
    \A a \in Action : state[a] = Awaiting /\ applied[a] > 0 =>
        \/ \E s \in Slot : pc[s] = "marking" /\ row[s] = a
        \/ failures > 0

\* First to resolve wins (integration.test.ts:83-103): the outcome of a row
\* and its approver are never changed again.
ResolutionIsFinal ==
    [][\A a \in Action : state[a] \in Terminal =>
           state'[a] = state[a] /\ approver'[a] = approver[a]]_vars

\* A request never waits forever: somebody resolves it or it expires.
PendingResolves ==
    \A a \in Action : state[a] \in Pending ~> state[a] \in Terminal

-----------------------------------------------------------------------------
(* The due date requests implement DueDateChange.                          *)

verdict ==
    [a \in Action |->
        IF a \notin DueDates THEN "none"
        ELSE IF state[a] \in Pending THEN "open"
        ELSE IF state[a] = "EXECUTED" THEN "granted" ELSE "refused"]

grantor == [a \in Action |-> IF verdict[a] = "granted" THEN approver[a] ELSE None]

changed == {a \in DueDates : applied[a] > 0}

Promise ==
    INSTANCE DueDateChange WITH
        User <- User, Elevated <- Elevated, Action <- Action, None <- None,
        verdict <- verdict, grantor <- grantor, changed <- changed

\* The routes and the expiry job keep the promise of DueDateChange.
KeepsPromise == Promise!Spec
=============================================================================
